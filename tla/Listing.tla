------------------------------ MODULE Listing -------------------------------
(***************************************************************************)
(* Sequences listed from what is known at some numbers: the results a loop *)
(* collects with push_back.                                                *)
(***************************************************************************)
EXTENDS Integers, SequencesExt

\* A finite sequence, of whatever it holds.
IsList(s) == s \in Seq(ToSet(s))

\* The values of a function on some of the numbers 1 .. n, in order of the numbers.
InOrder(value, n) ==
    LET upto[k \in 0 .. n] ==
            IF k = 0 THEN << >>
            ELSE IF k \in DOMAIN value THEN Append(upto[k - 1], value[k]) ELSE upto[k - 1]
    IN  upto[n]

\* The elements of a sequence that are in a set, in their order.
OnlyFrom(list, S) == InOrder(Restrict(list, {n \in DOMAIN list : list[n] \in S}), Len(list))

\* The longest runs of elements that are not gap, in their order.
RunsBetween(list, gap) ==
    LET Inside(i) == i \in DOMAIN list /\ list[i] # gap
        ends == {i \in DOMAIN list : Inside(i) /\ ~Inside(i + 1)}
        Start(e) == CHOOSE s \in 1 .. e : ~Inside(s - 1) /\ \A k \in s .. e : Inside(k)
    IN  InOrder([e \in ends |-> SubSeq(list, Start(e), e)], Len(list))

=============================================================================
