--------------------------- MODULE MCIndexRegistry ---------------------------
(***************************************************************************)
(* Small instances of IndexRegistry: which requests clients send decides   *)
(* which interleavings are met.                                            *)
(***************************************************************************)
EXTENDS IndexRegistry, TLC

CONSTANTS t1, t2, t3, n1, n2, o1, o2, o3, o4, o5, s1, s2

Request(op, n, s) == [op |-> op, name |-> n, schema |-> s]

All(requests) == [t \in Thread |-> requests]
AllOps(n, schemas) ==
    {Request(op, n, s1) : op \in Ops} \union {Request("create", n, s) : s \in schemas}

\* Collections are read and written, none is made or deleted.
Serving == All({Request(op, n, s1) : op \in {"read", "write"}, n \in Name})

\* Everything, on one name, under every schema.
OneName == All(AllOps(n1, Schema))

\* Everything, but every collection has a thread, so a client, of its own.
OwnName == [t \in Thread |-> AllOps(IF t = t1 THEN n1 ELSE n2, Schema)]

\* A collection is read, written and deleted.
Deleting == All({Request(op, n1, s1) : op \in {"read", "write", "delete"}})

\* A collection is read and made again, with either schema.
Creating == All({Request("read", n1, s1)} \union {Request("create", n1, s) : s \in Schema})

Threads == Permutations({t1, t2, t3})

=============================================================================
