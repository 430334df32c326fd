--------------------------- MODULE ParallelBuild ---------------------------
(***************************************************************************)
(* InvertedIndex::UpdateDocumentBase with its threads.  Where module       *)
(* InvertedIndex indexes the documents of a bulk load in any order and     *)
(* sorts the lists at once, the code runs three groups of threads, each    *)
(* joined before the next one starts:                                      *)
(*                                                                         *)
(*   index    worker t indexes the documents doc_id % num_workers = t into *)
(*            a dictionary of its own;                                     *)
(*   merge    worker t takes the lists of the terms with                   *)
(*            hash(term) % num_workers = t out of all those dictionaries;  *)
(*   sort     worker t sorts the lists of every sort_workers-th key.       *)
(*                                                                         *)
(* The rest of the collection is that of InvertedIndex, whose bulk load    *)
(* this one is shown to implement.                                         *)
(***************************************************************************)
EXTENDS InvertedIndex

CONSTANTS
    Cores,  \* max(1, hardware_concurrency())
    Hash    \* [Term -> Nat]: std::hash

ASSUME ThreadAssumption ==
    /\ Cores \in Nat \ {0} /\ Hash \in [Term -> Nat]
    /\ IsFiniteSet(Term)  \* words of at most max_word_length bytes

VARIABLES
    phase,             \* which group of threads runs
    left,              \* [threads -> what each has still to do]
    per_thread_dicts,
    partial_dicts,
    dict_keys,
    order              \* ghost: the documents in the order they were indexed

threads == <<phase, left, per_thread_dicts, partial_dicts, dict_keys, order>>
pvars == <<vars, threads>>

\* How many threads n elements get, their numbers, and the share of thread t: t, t + workers, ... up to n.
\* Documents, dictionaries and keys are numbered from 1.
WorkersFor(n) == IF n <= Cores THEN n ELSE Cores
Threads(n) == 0 .. WorkersFor(n) - 1
Share(n, t) == {i \in 1 .. n : (i - 1) % WorkersFor(n) = t}
Shares(n) == [t \in Threads(n) |-> Share(n, t)]

num_workers == WorkersFor(Len(docs))
Workers == Threads(Len(docs))
AllDone == \A t \in DOMAIN left : left[t] = {}

\* What thread t comes to next, if anything.
NextOf(t) == {i \in left[t] : \A k \in left[t] : i <= k}

Takes(t, i) ==
    /\ t \in DOMAIN left /\ i \in NextOf(t)
    /\ left' = [left EXCEPT ![t] = @ \ {i}]

NoThreads ==
    /\ phase = "none" /\ left = << >> /\ per_thread_dicts = << >>
    /\ partial_dicts = << >> /\ dict_keys = << >> /\ order = << >>

ParallelInit == Init /\ NoThreads

StartWorkers(b) ==
    /\ ReplaceDocs(b)
    /\ phase' = "index"
    /\ left' = Shares(Len(b))
    /\ per_thread_dicts' = [t \in Threads(Len(b)) |-> << >>]
    /\ UNCHANGED <<partial_dicts, dict_keys, order>>

\* One document of worker t; no other thread touches its dictionary or the
\* document's place in doc_lengths.
IndexOne(t, d) ==
    /\ phase = "index" /\ Takes(t, d)
    /\ per_thread_dicts' =
           [per_thread_dicts EXCEPT ![t] = PushPostings(@, d, WordCount[docs[d]])]
    /\ doc_lengths' = [doc_lengths EXCEPT ![d] = DocLength(WordCount[docs[d]])]
    /\ todo' = todo \ {d}
    /\ order' = Append(order, d)
    /\ UNCHANGED <<pc, batch, new_dict, docs, freq_dictionary, doc_term_freqs,
                   primary_id_to_doc, disk, acked, counters>>
    /\ UNCHANGED <<phase, partial_dicts, dict_keys>>

\* Mutant: the merge starts when one worker has finished.
JoinFirstWorker ==
    /\ phase = "index" /\ \E t \in DOMAIN left : left[t] = {}
    /\ phase' = "merge"
    /\ left' = [t \in Workers |-> 1 .. num_workers]
    /\ partial_dicts' = [t \in Workers |-> << >>]
    /\ UNCHANGED <<vars, per_thread_dicts, dict_keys, order>>

\* workers.clear() joins; every merge worker goes through all dictionaries.
JoinWorkers ==
    /\ phase = "index" /\ AllDone
    /\ phase' = "merge"
    /\ left' = [t \in Workers |-> 1 .. num_workers]
    /\ partial_dicts' = [t \in Workers |-> << >>]
    /\ UNCHANGED <<vars, per_thread_dicts, dict_keys, order>>

\* Mutant: a worker also takes what belongs to the one before it.
OwnedTermsOverlap(dict, t) ==
    {w \in DOMAIN dict : Hash[w] % num_workers \in {t, t - 1}}

\* The terms merge worker t takes out of a dictionary.
OwnedTerms(dict, t) == {w \in DOMAIN dict : Hash[w] % num_workers = t}

\* One dictionary, that of worker n - 1, gone through by merge worker t.  The
\* entries are copied: moving a pair of numbers leaves it in place.
MergeDict(t, n) ==
    /\ phase = "merge" /\ Takes(t, n)
    /\ LET local == per_thread_dicts[n - 1]
           out == partial_dicts[t]
           owned == OwnedTerms(local, t)
       IN  partial_dicts' = [partial_dicts EXCEPT ![t] =
               [w \in DOMAIN out \union owned |->
                   GetWordCount(out, w) \o (IF w \in owned THEN local[w] ELSE << >>)]]
    /\ UNCHANGED <<vars, phase, per_thread_dicts, dict_keys, order>>

\* new_dict[word] = std::move(list), dictionary after dictionary: a later one
\* overwrites what an earlier one put under a term.
Gathered(parts) ==
    LET Holding(w) == {t \in DOMAIN parts : w \in DOMAIN parts[t]}
        LastHolding(w) == CHOOSE t \in Holding(w) : \A u \in Holding(w) : u <= t
    IN  [w \in UNION {DOMAIN parts[t] : t \in DOMAIN parts} |-> parts[LastHolding(w)][w]]

\* The merge workers are joined, their dictionaries put into one, its keys
\* listed in the order of the hash table and the sorting threads started (with
\* one key the calling thread sorts by itself).
Gather ==
    /\ phase = "merge" /\ AllDone
    /\ phase' = "sort"
    /\ new_dict' = Gathered(partial_dicts)
    /\ dict_keys' \in SetToSeqs(DOMAIN new_dict')
    /\ left' = Shares(Len(dict_keys'))
    /\ UNCHANGED <<pc, batch, todo, memory, disk, acked, counters>>
    /\ UNCHANGED <<per_thread_dicts, partial_dicts, order>>

SortOne(t, i) ==
    /\ phase = "sort" /\ Takes(t, i)
    /\ new_dict' = [new_dict EXCEPT ![dict_keys[i]] = SortList(@)]
    /\ UNCHANGED <<pc, batch, todo, memory, disk, acked, counters>>
    /\ UNCHANGED <<phase, per_thread_dicts, partial_dicts, dict_keys, order>>

ThreadsEnd ==
    /\ phase' = "none" /\ left' = << >> /\ per_thread_dicts' = << >>
    /\ partial_dicts' = << >> /\ dict_keys' = << >> /\ order' = << >>

\* The sorting threads are joined; the dictionary is installed as it is.
InstallSorted ==
    /\ phase = "sort" /\ AllDone
    /\ freq_dictionary' = new_dict
    /\ doc_term_freqs' = ForwardOf(new_dict, Len(docs))
    /\ primary_id_to_doc' = IdMap(docs)
    /\ new_dict' = << >>
    /\ pc' = "open"
    /\ ThreadsEnd
    /\ UNCHANGED <<batch, todo, docs, doc_lengths, disk, acked, counters>>

\* What UpdateDocumentBase does of its own accord.
Build == \/ \E t \in DOMAIN left, i \in UNION Range(left) :
               IndexOne(t, i) \/ MergeDict(t, i) \/ SortOne(t, i)
         \/ JoinWorkers \/ Gather \/ InstallSorted

\* Everything else the collection does, as in InvertedIndex.
Elsewhere == \/ ClearBase \/ \E b \in Batches : BeginUpsert(b)
             \/ UpsertReplace \/ UpsertInsert \/ EndUpsert
             \/ Save \/ Load

ParallelNext == \/ \E b \in Batches : StartWorkers(b)
                \/ Build
                \/ Elsewhere /\ UNCHANGED threads
                \/ Crash /\ ThreadsEnd

ParallelSpec == ParallelInit /\ [][ParallelNext]_pvars

-----------------------------------------------------------------------------
\* What the next step of a thread reads or writes and another thread writes:
\* a place in doc_lengths, a dictionary, a list of a dictionary.
Touched(t) ==
    IF phase = "index" THEN {<<"local", t>>} \union ({"length"} \X NextOf(t))
    ELSE IF phase = "merge" THEN
        {<<"out", t>>} \union
        UNION {{"list"} \X {n} \X OwnedTerms(per_thread_dicts[n - 1], t) : n \in NextOf(t)}
    ELSE {<<"sorted", dict_keys[i]>> : i \in NextOf(t)}

\* No two threads of a bulk load ever work on one element: they need no mutex
\* and have none (the lambdas of UpdateDocumentBase).
ThreadsApart ==
    \A t, u \in DOMAIN left : t # u => Touched(t) \intersect Touched(u) = {}

\* The bulk load with its threads is the bulk load of InvertedIndex: the
\* dictionary installed is what indexing the documents one after the other
\* in some order and sorting gives, nothing lost between the dictionaries and
\* nothing taken twice, and all that InvertedIndex keeps is kept
\* (UpdateDocumentBase).
PushedInOrder == PushAll([d \in DOMAIN docs |-> WordCount[docs[d]]], order)

Sequential == INSTANCE InvertedIndex WITH new_dict <- PushedInOrder

ImplementsSequentialLoad == Sequential!Spec

=============================================================================
