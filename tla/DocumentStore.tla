---------------------------- MODULE DocumentStore ----------------------------
(***************************************************************************)
(* What a collection with an int key promises, without saying how: a map   *)
(* from keys to documents that is served from memory, and a copy of it     *)
(* that outlives the process.  Nothing is said of dictionaries, postings   *)
(* or files.  There is no second copy: a save takes the old one away, and  *)
(* when it is cut off or fails the next start serves the documents it was  *)
(* to keep, or none, never again what it has taken away and never some of  *)
(* each.  What was never taken away stays: the copy is older than what is  *)
(* served when no save was begun after a change, and when the collection   *)
(* was made again.                                                         *)
(***************************************************************************)
EXTENDS Naturals, Sequences

CONSTANTS Doc, KeyOf, Stored, Batches

VARIABLES store,    \* the documents served, by key
          copy,     \* {s} when the copy holds s, {} when it cannot be read
          legible,  \* the fields of the copy are known, without which it is of no use
          status    \* "serving", "saving", "renewing" or "stopped"

storeVars == <<store, copy, legible, status>>

\* The documents of a batch by key: of several with one key the last counts.
StoreOf(b) ==
    [k \in {KeyOf[b[i]] : i \in DOMAIN b} |->
        b[CHOOSE i \in DOMAIN b : /\ KeyOf[b[i]] = k
                                  /\ \A j \in i + 1 .. Len(b) : KeyOf[b[j]] # k]]

Empty == << >>

\* The copy of a document leaves out what is not in the schema.
CopyOf(s) == [k \in DOMAIN s |-> Stored[s[k]]]

StoreInit ==
    /\ store = Empty /\ copy = {Empty} /\ legible = TRUE
    /\ status = "serving"

\* A bulk load: whatever was there is replaced.
Replace(b) ==
    /\ status = "serving"
    /\ store' = StoreOf(b)
    /\ UNCHANGED <<copy, legible, status>>

\* An upsert of one document: no other key changes.
Put(doc) ==
    /\ status = "serving"
    /\ store' = [k \in DOMAIN store \union {KeyOf[doc]} |->
                    IF k = KeyOf[doc] THEN doc ELSE store[k]]
    /\ UNCHANGED <<copy, legible, status>>

\* The old copy is given up, unless it is the empty one of a new collection.
BeginSave ==
    /\ status = "serving"
    /\ status' = "saving"
    /\ copy' \in {{}, copy \intersect {Empty}}
    /\ UNCHANGED <<store, legible>>

Overwrite ==
    /\ status = "saving"
    /\ copy' \in {{}, copy}
    /\ legible' \in BOOLEAN
    /\ UNCHANGED <<store, status>>

EndSave ==
    /\ status = "saving"
    /\ status' = "serving"
    /\ copy' = {CopyOf(store)}
    /\ UNCHANGED <<store, legible>>

\* What a save that does not come to its end leaves: nothing to read, the
\* whole copy, or what there was of it.
Leftovers == {{}, copy, {CopyOf(store)}}

FailSave ==
    /\ status = "saving"
    /\ status' = "serving"
    /\ copy' \in Leftovers
    /\ UNCHANGED <<store, legible>>

Stop ==
    /\ status # "stopped"
    /\ status' = "stopped"
    /\ store' = Empty
    /\ IF status = "saving"
       THEN copy' \in Leftovers /\ legible' \in BOOLEAN
       ELSE UNCHANGED <<copy, legible>>

Restart ==
    /\ status = "stopped"
    /\ legible
    /\ status' = "serving"
    /\ store' \in copy
    /\ UNCHANGED <<copy, legible>>

\* The collection is made again: its fields are written anew, and then it is
\* served empty.  The copy is left as it is.  A stop in between, and a write
\* that fails unnoticed, leave the fields unknown.
BeginRenew ==
    /\ status \in {"serving", "stopped"}
    /\ status' = "renewing"
    /\ legible' = FALSE
    /\ UNCHANGED <<store, copy>>

EndRenew ==
    /\ status = "renewing"
    /\ status' = "serving"
    /\ store' = Empty
    /\ legible' \in BOOLEAN
    /\ UNCHANGED copy

StoreNext ==
    \/ \E b \in Batches : Replace(b)
    \/ \E doc \in Doc : Put(doc)
    \/ BeginSave \/ Overwrite \/ EndSave \/ FailSave \/ Stop \/ Restart
    \/ BeginRenew \/ EndRenew

StoreSpec == StoreInit /\ [][StoreNext]_storeVars

=============================================================================
