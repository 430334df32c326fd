------------------------ MODULE InvertedIndexProofs ------------------------
(***************************************************************************)
(* Theorems about one collection, for any documents, keys and batches, any *)
(* number of crashes and failing file operations: the types of its         *)
(* documents, key map and files; the key map against the documents; the    *)
(* promise of an upsert; what a restart serves; and, for any number of     *)
(* cores and any hash function, the threads of a bulk load, which never    *)
(* meet and load as one thread does.                                       *)
(***************************************************************************)
EXTENDS ParallelBuild, PostingListsProofs

-----------------------------------------------------------------------------
LEMMA LastHolderOf ==
    ASSUME NEW ds \in Seq(Doc), NEW k \in KeysOf(ds)
    PROVE  /\ LastHolder(ds, k) \in DOMAIN ds /\ KeyOf[ds[LastHolder(ds, k)]] = k
           /\ \A j \in DOMAIN ds : KeyOf[ds[j]] = k => j <= LastHolder(ds, k)
<1> DEFINE Holders == {i \in DOMAIN ds : KeyOf[ds[i]] = k}
<1>1. Holders \subseteq 1 .. Len(ds) /\ Holders # {} /\ Len(ds) \in Nat
  BY DEF KeysOf
<1>2. \E i \in Holders : \A j \in Holders : j <= i
  BY <1>1, LastPosition
<1> QED
  BY <1>2 DEF LastHolder

\* The key map made for documents ds maps every key to its last holder.
LEMMA IdMapOfDocs ==
    ASSUME NEW ds \in Seq(Doc), HasIntField
    PROVE  /\ DOMAIN IdMap(ds) = KeysOf(ds)
           /\ \A k \in KeysOf(ds) :
                 /\ IdMap(ds)[k] \in DOMAIN ds /\ KeyOf[ds[IdMap(ds)[k]]] = k
                 /\ \A j \in DOMAIN ds : KeyOf[ds[j]] = k => j <= IdMap(ds)[k]
  BY LastHolderOf DEF IdMap

LEMMA IdMapTyped ==
    ASSUME NEW ds \in Seq(Doc)
    PROVE  /\ DOMAIN IdMap(ds) \subseteq Key
           /\ \A k \in DOMAIN IdMap(ds) : IdMap(ds)[k] \in Nat \ {0}
<1>1. CASE HasIntField
  <2>1. KeysOf(ds) \subseteq Key /\ DOMAIN ds \subseteq Nat \ {0}
    BY DocAssumption DEF KeysOf
  <2> QED
    BY <1>1, <2>1, IdMapOfDocs
<1>2. CASE ~HasIntField
  BY <1>2 DEF IdMap
<1> QED
  BY <1>1, <1>2

LEMMA StoredSeq ==
    ASSUME NEW ds \in Seq(Doc)
    PROVE  [i \in DOMAIN ds |-> Stored[ds[i]]] \in Seq(Doc)
  BY DocAssumption

\* A stream that ends badly leaves of docs.dat what was written, or nothing
\* readable.
LEMMA ResiduesTyped ==
    ASSUME NEW d, NEW e \in Residues(d),
           d.docs.st \in {"buffered", "written"} => d.docs.val \in Seq(Doc)
    PROVE  /\ e = Files(e.scheme, e.docs, e.dict, e.lens)
           /\ e.docs.st \in {"buffered", "written"} => e.docs.val \in Seq(Doc)
<1>1. PICK ds \in Residue(d.docs), dt \in Residue(d.dict), ln \in Residue(d.lens) :
         e = Files(d.scheme, ds, dt, ln)
  BY DEF Residues
<1>2. ds.st \in {"buffered", "written"} => ds.val \in Seq(Doc)
  BY DEF Residue, Torn, Written
<1> QED
  BY <1>1, <1>2 DEF Files

-----------------------------------------------------------------------------
(***************************************************************************)
(* Types.                                                                  *)
(***************************************************************************)
LEMMA TypedStep == CollectionTyped /\ [Next]_vars => CollectionTyped'
  <1> SUFFICES ASSUME CollectionTyped, [Next]_vars PROVE CollectionTyped'
    OBVIOUS
  <1> USE DocAssumption, BoundsAssumption
      DEF CollectionTyped, Busy, Saving, Stopped, request, memory, counters
  <1>1. CASE UNCHANGED vars
    BY <1>1 DEF vars
  <1>2. CASE ClearBase
    BY <1>2 DEF ClearBase
  <1>3. ASSUME NEW b \in Batches, ReplaceDocs(b) PROVE CollectionTyped'
    BY <1>3 DEF ReplaceDocs
  <1>4. ASSUME NEW b \in Batches, BeginUpsert(b) PROVE CollectionTyped'
    BY <1>4, IdMapTyped DEF BeginUpsert
  <1>5. CASE BeginCreate \/ EndCreate
    <2>1. disk' = WithFile("scheme", Torn) \/ disk' = WithFile("scheme", Written("fields"))
      BY <1>5 DEF BeginCreate, EndCreate
    <2>2. disk' = Files(disk'.scheme, disk'.docs, disk'.dict, disk'.lens) /\ disk'.docs = disk.docs
      BY <2>1 DEF WithFile, Files
    <2>3. CASE BeginCreate
      BY <2>2, <2>3 DEF BeginCreate, MayCreate
    <2>4. CASE EndCreate
      BY <2>2, <2>4 DEF EndCreate, PutEmptyIndex
    <2> QED
      BY <1>5, <2>3, <2>4
  <1>6. ASSUME NEW d \in todo, IndexDocument(d) PROVE CollectionTyped'
    BY <1>6 DEF IndexDocument
  <1>7. CASE InstallIndex
    BY <1>7, IdMapTyped DEF InstallIndex
  <1>8. CASE UpsertReplace
    <2>1. Head(batch) \in Doc /\ Tail(batch) \in Seq(Doc)
      BY <1>8 DEF UpsertReplace
    <2>2. docs' \in Seq(Doc) /\ DOMAIN docs' = DOMAIN docs
      BY <1>8, <2>1, ExceptKeepsSeq DEF UpsertReplace
    <2> QED
      BY <1>8, <2>1, <2>2 DEF UpsertReplace
  <1>9. CASE UpsertInsert
    BY <1>9 DEF UpsertInsert
  <1>10. CASE EndUpsert
    BY <1>10 DEF EndUpsert
  <1>11. CASE Save
    <2>1. CASE OpenDict \/ SaveCollection \/ WriteDict \/ WriteLengths
      BY <2>1
      DEF OpenDict, SaveCollection, WriteDict, WriteLengths, SaveStep, WithFile, Files
    <2>2. CASE WriteDocs
      BY <2>2, StoredSeq DEF WriteDocs, SaveStep, WithFile, Files, Buffered
    <2>3. CASE CloseFiles
      BY <2>3, StoredSeq DEF CloseFiles, Answer, Closed, Flushed, Files, Written
    <2> QED
      BY <1>11, <2>1, <2>2, <2>3 DEF Save
  <1>12. CASE DiskFault
    <2> USE StoredSeq, ResiduesTyped DEF Fault, FaultCounted, Answer
    <2>1. CASE OpenDictFails
      BY <2>1 DEF OpenDictFails
    <2>2. CASE SaveCollectionFails
      <3>1. /\ disk' = Files(disk'.scheme, disk'.docs, disk'.dict, disk'.lens)
            /\ disk'.docs = disk.docs
        BY <2>2 DEF SaveCollectionFails, WithFile, Files
      <3> QED
        BY <2>2, <3>1 DEF SaveCollectionFails
    <2>3. CASE WriteDocsFails
      BY <2>3 DEF WriteDocsFails, WithFile, Files, Torn
    <2>4. CASE WriteDictFails
      BY <2>4 DEF WriteDictFails
    <2>5. CASE WriteLengthsFails
      BY <2>5 DEF WriteLengthsFails, WithFile, Files
    <2>6. CASE CloseFails
      BY <2>6 DEF CloseFails
    <2>7. CASE CreateFails
      BY <2>7 DEF CreateFails, MayCreate
    <2>8. CASE EndCreateShort
      <3>1. /\ disk' = Files(disk'.scheme, disk'.docs, disk'.dict, disk'.lens)
            /\ disk'.docs = disk.docs
        BY <2>8 DEF EndCreateShort, WithFile, Files
      <3> QED
        BY <2>8, <3>1 DEF EndCreateShort, PutEmptyIndex
    <2> QED
      BY <1>12, <2>1, <2>2, <2>3, <2>4, <2>5, <2>6, <2>7, <2>8 DEF DiskFault
  <1>13. CASE Crash
    <2>1. WithFile("scheme", Torn).docs = disk.docs
      BY DEF WithFile, Files
    <2>2. \/ disk' \in Residues(disk)
          \/ disk' \in Residues(WithFile("scheme", Torn))
      BY <1>13 DEF Crash
    <2>3. /\ disk' = Files(disk'.scheme, disk'.docs, disk'.dict, disk'.lens)
          /\ disk'.docs.st \in {"buffered", "written"} => disk'.docs.val \in Seq(Doc)
      BY <2>1, <2>2, ResiduesTyped
    <2> QED
      BY <1>13, <2>3 DEF Crash
  <1>14. CASE Load
    <2>1. CASE LoadIndex
      <3>1. disk.docs.val \in Seq(Doc)
        BY <2>1 DEF LoadIndex
      <3>2. /\ docs' = disk.docs.val /\ acked' = disk.docs.val /\ pc' = "idle"
            /\ primary_id_to_doc' = IdMap(disk.docs.val)
            /\ pc \in Stopped /\ UNCHANGED <<batch, todo, disk, crashes, faults>>
        BY <2>1 DEF LoadIndex
      <3>3. todo = {}
        BY <3>2
      <3> QED
        BY <3>1, <3>2, <3>3, IdMapTyped DEF Files
    <2>2. CASE LoadEmpty
      BY <2>2 DEF LoadEmpty, Files
    <2>3. CASE LoadFails \/ LoadMisreads
      BY <2>3 DEF LoadFails, LoadMisreads, Files
    <2> QED
      BY <1>14, <2>1, <2>2, <2>3 DEF Load
  <1> QED
    BY <1>1, <1>2, <1>3, <1>4, <1>5, <1>6, <1>7, <1>8, <1>9, <1>10, <1>11, <1>12, <1>13, <1>14
    DEF Next, Request, Work

LEMMA TypedInit == Init => CollectionTyped
  BY BoundsAssumption DEF Init, CollectionTyped, Files, Absent

\* The documents, the key map, the batch at work and docs.dat are always of
\* their types, and only a bulk load leaves work to its workers.
THEOREM TypeCorrect == Spec => []CollectionTyped
  BY TypedInit, TypedStep, PTL DEF Spec

-----------------------------------------------------------------------------
(***************************************************************************)
(* The key map.  Every action either makes it anew from the documents, or  *)
(* empties both, or (an upsert) changes one key of it and one document.    *)
(***************************************************************************)
\* The key map agrees with documents that are as many and keep their keys.
LEMMA KeyMapKept ==
    ASSUME KeyMapAgrees, pc # "build",
           primary_id_to_doc' = primary_id_to_doc, DOMAIN docs' = DOMAIN docs,
           \A i \in DOMAIN docs : KeyOf[docs'[i]] = KeyOf[docs[i]]
    PROVE  KeyMapAgrees'
<1>1. KeysOf(docs') = KeysOf(docs)
  BY DEF KeysOf
<1> QED
  BY <1>1 DEF KeyMapAgrees

LEMMA KeyMapStep == CollectionTyped /\ KeyMapAgrees /\ [Next]_vars => KeyMapAgrees'
  <1> SUFFICES ASSUME CollectionTyped, KeyMapAgrees, [Next]_vars PROVE KeyMapAgrees'
    OBVIOUS
  <1> USE DEF request, memory, counters
  <1>1. CASE UNCHANGED vars
    BY <1>1 DEF vars, KeyMapAgrees
  <1>2. ASSUME docs' = << >>, primary_id_to_doc' = << >> PROVE KeyMapAgrees'
    BY <1>2 DEF KeyMapAgrees, KeysOf
  <1>3. ASSUME docs' \in Seq(Doc), primary_id_to_doc' = IdMap(docs') PROVE KeyMapAgrees'
    BY <1>3, IdMapOfDocs DEF KeyMapAgrees
  <1>4. ASSUME pc # "build", UNCHANGED <<docs, primary_id_to_doc>> PROVE KeyMapAgrees'
    BY <1>4, KeyMapKept
  <1>5. ASSUME pc' = "build" PROVE KeyMapAgrees'
    BY <1>5 DEF KeyMapAgrees
  <1>6. CASE ClearBase \/ EndCreate \/ EndCreateShort \/ Crash
    BY <1>2, <1>6 DEF ClearBase, EndCreate, EndCreateShort, PutEmptyIndex, Crash
  <1>7. ASSUME NEW b \in Batches, ReplaceDocs(b) PROVE KeyMapAgrees'
    BY <1>5, <1>7 DEF ReplaceDocs
  <1>8. ASSUME NEW b \in Batches, BeginUpsert(b) PROVE KeyMapAgrees'
    BY <1>3, <1>4, <1>8 DEF BeginUpsert, CollectionTyped
  <1>9. ASSUME NEW d \in todo, IndexDocument(d) PROVE KeyMapAgrees'
    BY <1>5, <1>9 DEF IndexDocument
  <1>10. CASE InstallIndex
    BY <1>3, <1>10 DEF InstallIndex, CollectionTyped
  <1>11. CASE UpsertReplace
    <2> DEFINE new == Head(batch)
               d == primary_id_to_doc[KeyOf[new]]
    <2>1. docs' = [docs EXCEPT ![d] = new] /\ primary_id_to_doc' = primary_id_to_doc
          /\ pc = "upsert" /\ KeyOf[new] \in DOMAIN primary_id_to_doc
      BY <1>11 DEF UpsertReplace
    <2>2. DOMAIN docs' = DOMAIN docs
      BY <2>1
    <2>3. ASSUME HasIntField, NEW i \in DOMAIN docs PROVE KeyOf[docs'[i]] = KeyOf[docs[i]]
      <3>1. d \in DOMAIN docs /\ KeyOf[docs[d]] = KeyOf[new]
        BY <2>1, <2>3 DEF KeyMapAgrees
      <3> QED
        BY <2>1, <3>1
    <2>4. CASE HasIntField
      BY <2>1, <2>2, <2>3, <2>4, KeyMapKept
    <2> QED
      BY <2>4 DEF KeyMapAgrees
  <1>12. CASE UpsertInsert
    <2> DEFINE new == Head(batch)
               d == Len(docs) + 1
    <2>1. /\ docs' = Append(docs, new)
          /\ primary_id_to_doc' =
                [k \in DOMAIN primary_id_to_doc \union {KeyOf[new]} |->
                    IF k = KeyOf[new] THEN d ELSE primary_id_to_doc[k]]
          /\ pc = "upsert" /\ KeyOf[new] \notin DOMAIN primary_id_to_doc
          /\ docs \in Seq(Doc)
      BY <1>12 DEF UpsertInsert, CollectionTyped
    <2>2. /\ Len(docs) \in Nat /\ DOMAIN docs = 1 .. Len(docs) /\ DOMAIN docs' = 1 .. d
          /\ docs'[d] = new /\ \A i \in 1 .. Len(docs) : docs'[i] = docs[i]
      BY <2>1
    <2>3. KeysOf(docs') = KeysOf(docs) \union {KeyOf[new]}
      BY <2>2 DEF KeysOf
    <2> HIDE DEF new
    <2> SUFFICES ASSUME HasIntField PROVE KeyMapAgrees'
      BY DEF KeyMapAgrees
    <2>4. /\ DOMAIN primary_id_to_doc = KeysOf(docs)
          /\ \A i \in 1 .. Len(docs) : KeyOf[docs[i]] \in KeysOf(docs) /\ KeyOf[docs[i]] # KeyOf[new]
      BY <2>1, <2>2 DEF KeyMapAgrees, KeysOf
    <2>5. ASSUME NEW k \in KeysOf(docs')
          PROVE  /\ primary_id_to_doc'[k] \in DOMAIN docs'
                 /\ KeyOf[docs'[primary_id_to_doc'[k]]] = k
                 /\ \A j \in DOMAIN docs' : KeyOf[docs'[j]] = k => j <= primary_id_to_doc'[k]
      <3>1. CASE k = KeyOf[new]
        BY <2>1, <2>2, <2>4, <3>1
      <3>2. CASE k # KeyOf[new]
        <4>1. k \in KeysOf(docs) /\ primary_id_to_doc'[k] = primary_id_to_doc[k]
          BY <2>1, <2>3, <2>4, <3>2
        <4>2. /\ primary_id_to_doc[k] \in 1 .. Len(docs)
              /\ KeyOf[docs[primary_id_to_doc[k]]] = k
              /\ \A j \in 1 .. Len(docs) : KeyOf[docs[j]] = k => j <= primary_id_to_doc[k]
          BY <2>1, <2>2, <4>1 DEF KeyMapAgrees
        <4> QED
          BY <2>2, <3>2, <4>1, <4>2
      <3> QED
        BY <3>1, <3>2
    <2>6. DOMAIN primary_id_to_doc' = KeysOf(docs')
      BY <2>1, <2>3, <2>4
    <2> QED
      BY <2>5, <2>6 DEF KeyMapAgrees
  <1>13. CASE EndUpsert
    BY <1>4, <1>13 DEF EndUpsert
  <1>14. CASE Save
    BY <1>4, <1>14
    DEF Save, OpenDict, SaveCollection, WriteDocs, WriteDict, WriteLengths, CloseFiles,
        SaveStep
  <1>15. CASE DiskFault \/ BeginCreate
    BY <1>4, <1>6, <1>15
    DEF DiskFault, OpenDictFails, SaveCollectionFails, WriteDocsFails, WriteDictFails,
        WriteLengthsFails, CloseFails, CreateFails, Fault, BeginCreate, MayCreate, Stopped
  <1>16. CASE Load
    <2>1. CASE LoadIndex
      BY <1>3, <2>1 DEF LoadIndex, CollectionTyped
    <2>2. CASE LoadEmpty \/ LoadFails \/ LoadMisreads
      BY <1>4, <2>2 DEF LoadEmpty, LoadFails, LoadMisreads, Stopped
    <2> QED
      BY <1>16, <2>1, <2>2 DEF Load
  <1> QED
    BY <1>1, <1>6, <1>7, <1>8, <1>9, <1>10, <1>11, <1>12, <1>13, <1>14, <1>15, <1>16
    DEF Next, Request, Work

LEMMA KeyMapInit == Init => KeyMapAgrees
  BY DEF Init, KeyMapAgrees, KeysOf

\* At every moment but during a bulk load the key map sends each key the
\* collection holds, and no other, to the last document with it.
THEOREM KeyMapCorrect == Spec => []KeyMapAgrees
  BY KeyMapInit, KeyMapStep, TypeCorrect, PTL DEF Spec

-----------------------------------------------------------------------------
(***************************************************************************)
(* What an upsert does, one document at a time.                            *)
(***************************************************************************)
\* While an upsert is under way: the process is killed, or nothing changes,
\* or one document is replaced by one with its key, or one with a new key is
\* appended.
LEMMA UpsertEffect ==
    ASSUME CollectionTyped, KeyMapAgrees, pc = "upsert", HasIntField, Next
    PROVE  \/ pc' = "down" /\ docs' = << >>
           \/ docs' = docs
           \/ DOMAIN docs' = DOMAIN docs /\ \A i \in DOMAIN docs : KeyOf[docs'[i]] = KeyOf[docs[i]]
           \/ \E new \in Doc : docs' = Append(docs, new) /\ KeyOf[new] \notin KeysOf(docs)
<1> USE DEF request, memory
<1>1. CASE UpsertReplace
  <2> DEFINE new == Head(batch)
             d == primary_id_to_doc[KeyOf[new]]
  <2>1. docs' = [docs EXCEPT ![d] = new] /\ KeyOf[new] \in DOMAIN primary_id_to_doc
    BY <1>1 DEF UpsertReplace
  <2>2. d \in DOMAIN docs /\ KeyOf[docs[d]] = KeyOf[new]
    BY <2>1 DEF KeyMapAgrees
  <2> QED
    BY <2>1, <2>2
<1>2. CASE UpsertInsert
  BY <1>2 DEF UpsertInsert, KeyMapAgrees, CollectionTyped
<1>3. CASE EndUpsert \/ Crash
  BY <1>3 DEF EndUpsert, Crash
<1>4. UpsertReplace \/ UpsertInsert \/ EndUpsert \/ Crash
  BY DEF Next, Request, Work, ClearBase, ReplaceDocs, BeginUpsert, BeginCreate, MayCreate,
         EndCreate, IndexDocument, InstallIndex, Save, OpenDict, SaveCollection, WriteDocs,
         WriteDict, WriteLengths, SaveStep, CloseFiles, DiskFault, OpenDictFails,
         SaveCollectionFails, WriteDocsFails, WriteDictFails, WriteLengthsFails, CloseFails,
         CreateFails, EndCreateShort, Load, LoadEmpty, LoadIndex, LoadFails, LoadMisreads,
         Stopped
<1> QED
  BY <1>1, <1>2, <1>3, <1>4

\* Only a schema with an int field lets an upsert in.
LEMMA UpsertHasKeyStep ==
    (pc = "upsert" => HasIntField) /\ [Next]_vars => (pc = "upsert" => HasIntField)'
  BY DEF Next, Request, Work, ClearBase, ReplaceDocs, BeginUpsert, BeginCreate, EndCreate,
         PutEmptyIndex, IndexDocument, InstallIndex, UpsertReplace, UpsertInsert, EndUpsert,
         Save, OpenDict, SaveCollection, WriteDocs, WriteDict, WriteLengths, SaveStep,
         CloseFiles, Answer, DiskFault, OpenDictFails, SaveCollectionFails, WriteDocsFails,
         WriteDictFails, WriteLengthsFails, CloseFails, CreateFails, EndCreateShort, Crash,
         Load, LoadEmpty, LoadIndex, LoadFails, LoadMisreads, vars

LEMMA UpsertHasKey == Spec => [](pc = "upsert" => HasIntField)
<1>1. Init => (pc = "upsert" => HasIntField)
  BY DEF Init
<1> QED
  BY <1>1, UpsertHasKeyStep, PTL DEF Spec

\* An upsert keeps the internal id of every document: whatever the batch, a
\* position once taken by a key holds a document of that key for ever after,
\* unless the process dies.
THEOREM UpsertKeepsIds == Spec => StableIds
<1>1. CollectionTyped /\ KeyMapAgrees /\ (pc = "upsert" => HasIntField) /\ [Next]_vars =>
        [pc = "upsert" =>
            pc' = "down" \/ ( /\ Len(docs') >= Len(docs)
                              /\ \A i \in DOMAIN docs : KeyOf[docs'[i]] = KeyOf[docs[i]])]_vars
  <2> SUFFICES ASSUME CollectionTyped, KeyMapAgrees, HasIntField, Next, pc = "upsert",
                      pc' # "down", docs \in Seq(Doc), docs' \in Seq(Doc)
               PROVE  /\ Len(docs') >= Len(docs)
                      /\ \A i \in DOMAIN docs : KeyOf[docs'[i]] = KeyOf[docs[i]]
    BY TypedStep DEF CollectionTyped, vars
  <2> QED
    BY UpsertEffect
<1> QED
  BY <1>1, KeyMapCorrect, UpsertHasKey, TypeCorrect, PTL DEF Spec, StableIds

\* An upsert never gives a key a second document: keys that a bulk load left
\* unique stay unique.
THEOREM UpsertKeepsUnique == Spec => UpsertKeepsKeysUnique
<1>1. CollectionTyped /\ KeyMapAgrees /\ (pc = "upsert" => HasIntField) /\ [Next]_vars =>
        [pc = "upsert" =>
            \A k \in KeysOf(docs') :
                Cardinality(HoldersOf(docs', k)) <= 1
                \/ HoldersOf(docs', k) \subseteq HoldersOf(docs, k)]_vars
  <2> SUFFICES ASSUME CollectionTyped, KeyMapAgrees, HasIntField, Next, pc = "upsert",
                      NEW k \in KeysOf(docs')
               PROVE  \/ Cardinality(HoldersOf(docs', k)) <= 1
                      \/ HoldersOf(docs', k) \subseteq HoldersOf(docs, k)
    BY DEF vars
  <2>1. CASE docs' = << >>
    BY <2>1 DEF HoldersOf
  <2>2. CASE docs' = docs
    BY <2>2
  <2>3. CASE DOMAIN docs' = DOMAIN docs /\ \A i \in DOMAIN docs : KeyOf[docs'[i]] = KeyOf[docs[i]]
    BY <2>3 DEF HoldersOf
  <2>4. ASSUME NEW new \in Doc, docs' = Append(docs, new), KeyOf[new] \notin KeysOf(docs)
        PROVE  \/ Cardinality(HoldersOf(docs', k)) <= 1
               \/ HoldersOf(docs', k) \subseteq HoldersOf(docs, k)
    <3>1. /\ docs \in Seq(Doc) /\ Len(docs) \in Nat /\ DOMAIN docs = 1 .. Len(docs)
          /\ DOMAIN docs' = 1 .. Len(docs) + 1 /\ docs'[Len(docs) + 1] = new
          /\ \A i \in 1 .. Len(docs) : docs'[i] = docs[i] /\ KeyOf[docs[i]] # KeyOf[new]
      BY <2>4 DEF CollectionTyped, KeysOf
    <3>2. CASE k = KeyOf[new]
      <4>1. HoldersOf(docs', k) = {Len(docs) + 1}
        BY <3>1, <3>2 DEF HoldersOf
      <4>2. Cardinality({Len(docs) + 1}) = 1
        BY FS_Singleton
      <4> QED
        BY <4>1, <4>2
    <3>3. CASE k # KeyOf[new]
      BY <3>1, <3>3 DEF HoldersOf
    <3> QED
      BY <3>2, <3>3
  <2> QED
    BY <2>1, <2>2, <2>3, <2>4, UpsertEffect
<1> QED
  BY <1>1, KeyMapCorrect, UpsertHasKey, TypeCorrect, PTL DEF Spec, UpsertKeepsKeysUnique

-----------------------------------------------------------------------------
(***************************************************************************)
(* The dictionary, the forward index and the documents.  The dictionary is *)
(* the inverse of the documents' bags; while the workers of a bulk load    *)
(* are at work the new one is the inverse of the documents they have done. *)
(* A docs.dat and a dict.dat that can both be read are those of one save:  *)
(* dict.dat is torn from the moment it is opened until docs.dat is ready.  *)
(***************************************************************************)
BagsOf(ds) == [i \in DOMAIN ds |-> WordCount[ds[i]]]

Done == [i \in DOMAIN docs \ todo |-> WordCount[docs[i]]]

StoredDocs == [i \in DOMAIN docs |-> Stored[docs[i]]]

Indexes(dict, ds) == Inverts(dict, BagsOf(ds)) /\ AllAscending(dict)

MemoryMatches ==
    pc # "build" => Indexes(freq_dictionary, docs) /\ doc_term_freqs = BagsOf(docs)

WorkersMatch ==
    pc = "build" => Inverts(new_dict, Done) /\ AllDistinct(new_dict)

StreamsFollow ==
    /\ pc \notin {"dict", "lens", "close"} => disk.docs.st # "buffered"
    /\ pc \notin {"lens", "close"} => disk.dict.st # "buffered"
    /\ pc \in {"scheme", "docs", "dict"} => disk.dict = Torn
    /\ pc \in {"dict", "lens", "close"} => disk.docs = Buffered(StoredDocs)
    /\ pc \in {"lens", "close"} => disk.dict = Buffered(freq_dictionary)

FilesMatch(d) == \A ds \in Contents(d.docs), dict \in Contents(d.dict) : Indexes(dict, ds)

RestMatches == MemoryMatches /\ StreamsFollow /\ FilesMatch(disk)

IndexInvariant == RestMatches /\ WorkersMatch

LEMMA BagsAreBags ==
    ASSUME NEW ds \in Seq(Doc)
    PROVE  AreBags(BagsOf(ds)) /\ DOMAIN BagsOf(ds) = 1 .. Len(ds) /\ Len(ds) \in Nat
<1>1. DOMAIN ds = 1 .. Len(ds) /\ Len(ds) \in Nat /\ \A i \in DOMAIN ds : ds[i] \in Doc
  OBVIOUS
<1>2. \A d \in Doc : IsBagOf(WordCount[d])
  BY DocAssumption DEF IsBag, IsBagOf
<1> QED
  BY <1>1, <1>2 DEF AreBags, BagsOf

\* Nothing indexes nothing.
LEMMA EmptyInverts ==
    ASSUME NEW bags, DOMAIN bags = {}
    PROVE  Inverts(<< >>, bags) /\ AllAscending(<< >>) /\ AllDistinct(<< >>)
  BY DEF Inverts, TermsOf, AllAscending, AllDistinct

LEMMA NothingIndexed == Indexes(<< >>, << >>) /\ BagsOf(<< >>) = << >>
<1>1. DOMAIN BagsOf(<< >>) = {}
  BY DEF BagsOf
<1> QED
  BY <1>1, EmptyInverts DEF Indexes, BagsOf

\* What is stored of the documents has their terms.
LEMMA StoredBags ==
    ASSUME docs \in Seq(Doc)
    PROVE  BagsOf(StoredDocs) = BagsOf(docs)
  BY DocAssumption, StoredAssumption DEF BagsOf, StoredDocs

\* What Load reads back of a dictionary is what the documents have.
LEMMA ForwardOfIndexed ==
    ASSUME NEW ds \in Seq(Doc), NEW dict, Indexes(dict, ds)
    PROVE  ForwardOf(dict, Len(ds)) = BagsOf(ds)
<1>1. AllDistinct(dict)
  BY AscendingIsDistinct DEF Indexes, Inverts, AllAscending, AllDistinct
<1> QED
  BY <1>1, BagsAreBags, ForwardOfInverse DEF Indexes

LEMMA MemoryStep ==
    CollectionTyped /\ KeyMapAgrees /\ (pc = "upsert" => HasIntField) /\ RestMatches
      /\ [Next]_vars /\ ~InstallIndex => MemoryMatches'
  <1> SUFFICES ASSUME CollectionTyped, KeyMapAgrees, pc = "upsert" => HasIntField,
                      RestMatches, [Next]_vars, ~InstallIndex
               PROVE  MemoryMatches'
    OBVIOUS
  <1> USE DEF request, memory, counters
  <1>1. ASSUME pc # "build", UNCHANGED <<docs, freq_dictionary, doc_term_freqs>>
        PROVE  MemoryMatches'
    BY <1>1 DEF RestMatches, MemoryMatches
  <1>2. ASSUME docs' = << >>, freq_dictionary' = << >>, doc_term_freqs' = << >>
        PROVE  MemoryMatches'
    BY <1>2, NothingIndexed DEF MemoryMatches
  <1>3. ASSUME pc' = "build" PROVE MemoryMatches'
    BY <1>3 DEF MemoryMatches
  <1>4. CASE UNCHANGED vars
    BY <1>4 DEF vars, RestMatches, MemoryMatches
  <1>5. CASE ClearBase \/ EndCreate \/ EndCreateShort \/ Crash
    BY <1>2, <1>5 DEF ClearBase, EndCreate, EndCreateShort, PutEmptyIndex, Crash
  <1>6. ASSUME NEW b \in Batches, ReplaceDocs(b) PROVE MemoryMatches'
    BY <1>3, <1>6 DEF ReplaceDocs
  <1>7. ASSUME NEW b \in Batches, BeginUpsert(b) PROVE MemoryMatches'
    <2>1. pc # "build" /\ UNCHANGED <<docs, freq_dictionary>> /\ docs \in Seq(Doc)
      BY <1>7 DEF BeginUpsert, CollectionTyped
    <2>2. Indexes(freq_dictionary, docs) /\ doc_term_freqs = BagsOf(docs)
      BY <2>1 DEF RestMatches, MemoryMatches
    <2>3. doc_term_freqs' = BagsOf(docs)
      BY <1>7, <2>1, <2>2, ForwardOfIndexed DEF BeginUpsert
    <2> QED
      BY <2>1, <2>2, <2>3 DEF MemoryMatches
  <1>8. ASSUME NEW d \in todo, IndexDocument(d) PROVE MemoryMatches'
    BY <1>3, <1>8 DEF IndexDocument
  <1>9. CASE UpsertReplace
    <2> DEFINE new == Head(batch)
               d == primary_id_to_doc[KeyOf[new]]
               bag == WordCount[new]
               rest == DictWithout(freq_dictionary, doc_term_freqs, d)
               bags == Without(BagsOf(docs), d)
    <2>1. /\ pc = "upsert" /\ batch # << >> /\ KeyOf[new] \in DOMAIN primary_id_to_doc
          /\ docs' = [docs EXCEPT ![d] = new]
          /\ freq_dictionary' = DictWith(rest, d, bag)
          /\ doc_term_freqs' = [doc_term_freqs EXCEPT ![d] = bag]
      BY <1>9 DEF UpsertReplace
    <2>2. new \in Doc /\ docs \in Seq(Doc)
      BY <2>1 DEF CollectionTyped
    <2>3. d \in DOMAIN docs /\ d \in Nat \ {0}
      BY <2>1, <2>2 DEF KeyMapAgrees
    <2>4. Indexes(freq_dictionary, docs) /\ doc_term_freqs = BagsOf(docs)
      BY <2>1 DEF RestMatches, MemoryMatches
    <2> HIDE DEF new, d
    <2>5. IsBagOf(bag)
      BY <2>2, DocAssumption DEF IsBag, IsBagOf
    <2>6. AreBags(BagsOf(docs)) /\ d \in DOMAIN BagsOf(docs)
      BY <2>2, <2>3, BagsAreBags
    <2>7. Inverts(rest, bags) /\ AllAscending(rest)
      BY <2>4, <2>6, DictWithoutInverts DEF Indexes
    <2>8. AreBags(bags) /\ d \notin DOMAIN bags
      BY <2>6 DEF AreBags, Without
    <2> HIDE DEF rest
    <2>9. Inverts(freq_dictionary', With(bags, d, bag)) /\ AllAscending(freq_dictionary')
      <3> HIDE DEF bag, bags
      <3> QED
        BY <2>1, <2>3, <2>5, <2>7, <2>8, DictWithInverts
    <2>10. BagsOf(docs') = With(bags, d, bag)
      BY <2>1, <2>2, <2>3 DEF BagsOf, With, Without
    <2>11. doc_term_freqs' = BagsOf(docs')
      BY <2>1, <2>2, <2>3, <2>4 DEF BagsOf
    <2> QED
      BY <2>9, <2>10, <2>11 DEF MemoryMatches, Indexes
  <1>10. CASE UpsertInsert
    <2> DEFINE new == Head(batch)
               d == Len(docs) + 1
               bag == WordCount[new]
               bags == BagsOf(docs)
    <2>1. /\ pc = "upsert" /\ batch # << >>
          /\ docs' = Append(docs, new)
          /\ freq_dictionary' = DictWith(freq_dictionary, d, bag)
          /\ doc_term_freqs' = Append(doc_term_freqs, bag)
      BY <1>10 DEF UpsertInsert
    <2>2. new \in Doc /\ docs \in Seq(Doc)
      BY <2>1 DEF CollectionTyped
    <2>3. Len(docs) \in Nat /\ DOMAIN docs = 1 .. Len(docs)
      BY <2>2
    <2>4. Indexes(freq_dictionary, docs) /\ doc_term_freqs = bags
      BY <2>1 DEF RestMatches, MemoryMatches
    <2> HIDE DEF new
    <2>5. IsBagOf(bag)
      BY <2>2, DocAssumption DEF IsBag, IsBagOf
    <2>6. AreBags(bags) /\ d \in Nat \ {0} /\ d \notin DOMAIN bags
      BY <2>2, <2>3, BagsAreBags
    <2>7. Inverts(freq_dictionary', With(bags, d, bag)) /\ AllAscending(freq_dictionary')
      <3> HIDE DEF bag, bags, d
      <3> QED
        BY <2>1, <2>4, <2>5, <2>6, DictWithInverts DEF Indexes, bags
    <2>8. /\ Len(docs') = d /\ DOMAIN docs' = 1 .. d /\ docs'[d] = new
          /\ \A i \in 1 .. Len(docs) : docs'[i] = docs[i]
      BY <2>1, <2>2, <2>3
    <2>9. BagsOf(docs') = With(bags, d, bag)
      BY <2>3, <2>8 DEF BagsOf, With
    <2>10. doc_term_freqs' = BagsOf(docs')
      <3>1. bags \in Seq({bag} \union {bags[i] : i \in DOMAIN bags}) /\ Len(bags) = Len(docs)
        BY <2>3 DEF BagsOf
      <3>2. /\ doc_term_freqs' = [i \in 1 .. Len(bags) + 1 |->
                                     IF i = Len(bags) + 1 THEN bag ELSE bags[i]]
        BY <2>1, <2>4, <3>1
      <3> QED
        BY <2>3, <2>8, <3>1, <3>2 DEF BagsOf
    <2> QED
      BY <2>7, <2>9, <2>10 DEF MemoryMatches, Indexes
  <1>11. CASE EndUpsert
    BY <1>1, <1>11 DEF EndUpsert
  <1>12. CASE Save
    BY <1>1, <1>12
    DEF Save, OpenDict, SaveCollection, WriteDocs, WriteDict, WriteLengths, CloseFiles,
        SaveStep
  <1>13. CASE DiskFault \/ BeginCreate
    BY <1>1, <1>5, <1>13
    DEF DiskFault, OpenDictFails, SaveCollectionFails, WriteDocsFails, WriteDictFails,
        WriteLengthsFails, CloseFails, CreateFails, Fault, BeginCreate, MayCreate, Stopped
  <1>14. CASE Load
    <2>1. CASE LoadIndex
      <3> DEFINE dict == disk.dict.val
      <3>1. /\ disk.docs.st = "written" /\ disk.dict.st = "written"
            /\ docs' = disk.docs.val /\ freq_dictionary' = dict
            /\ doc_term_freqs' = ForwardOf(dict, Len(disk.docs.val))
        BY <2>1 DEF LoadIndex
      <3>2. docs' \in Seq(Doc)
        BY <3>1 DEF CollectionTyped
      <3>3. disk.docs.val \in Contents(disk.docs) /\ dict \in Contents(disk.dict)
        BY <3>1 DEF Contents, Residue
      <3>4. Indexes(dict, docs')
        BY <3>1, <3>3 DEF RestMatches, FilesMatch
      <3> QED
        BY <3>1, <3>2, <3>4, ForwardOfIndexed DEF MemoryMatches
    <2>2. CASE LoadEmpty \/ LoadFails \/ LoadMisreads
      BY <1>1, <2>2 DEF LoadEmpty, LoadFails, LoadMisreads, Stopped
    <2> QED
      BY <1>14, <2>1, <2>2 DEF Load
  <1> QED
    BY <1>4, <1>5, <1>6, <1>7, <1>8, <1>9, <1>10, <1>11, <1>12, <1>13, <1>14
    DEF Next, Request, Work

\* The workers are joined: the dictionary they made is sorted and installed.
LEMMA InstallStep ==
    ASSUME CollectionTyped, WorkersMatch, InstallIndex
    PROVE  MemoryMatches'
<1> DEFINE dict == SortPostings(new_dict)
<1>1. /\ pc = "build" /\ todo = {} /\ docs \in Seq(Doc) /\ docs' = docs
      /\ freq_dictionary' = dict /\ doc_term_freqs' = ForwardOf(dict, Len(docs))
  BY DEF InstallIndex, CollectionTyped
<1>2. Inverts(new_dict, BagsOf(docs)) /\ AllDistinct(new_dict)
  BY <1>1 DEF WorkersMatch, Done, BagsOf
<1>3. Indexes(dict, docs)
  BY <1>2, SortPostingsInverts DEF Indexes
<1> HIDE DEF dict
<1>4. ForwardOf(dict, Len(docs)) = BagsOf(docs)
  BY <1>1, <1>3, ForwardOfIndexed
<1> QED
  BY <1>1, <1>3, <1>4 DEF MemoryMatches

LEMMA WorkersStep == CollectionTyped /\ IndexInvariant /\ [Next]_vars => WorkersMatch'
  <1> SUFFICES ASSUME CollectionTyped, IndexInvariant, [Next]_vars PROVE WorkersMatch'
    OBVIOUS
  <1> USE DEF request, memory, counters
  <1>1. ASSUME pc' # "build" PROVE WorkersMatch'
    BY <1>1 DEF WorkersMatch
  <1>2. CASE UNCHANGED vars
    BY <1>2 DEF vars, IndexInvariant, WorkersMatch, Done
  <1>3. ASSUME NEW b \in Batches, ReplaceDocs(b) PROVE WorkersMatch'
    <2>1. docs' = b /\ todo' = 1 .. Len(b) /\ new_dict' = << >> /\ b \in Seq(Doc)
      BY <1>3, BoundsAssumption DEF ReplaceDocs
    <2>2. DOMAIN Done' = {}
      BY <2>1 DEF Done
    <2> QED
      BY <2>1, <2>2, EmptyInverts DEF WorkersMatch
  <1>4. ASSUME NEW d \in todo, IndexDocument(d) PROVE WorkersMatch'
    <2> DEFINE bag == WordCount[docs[d]]
    <2>1. /\ pc = "build" /\ docs' = docs /\ todo' = todo \ {d}
          /\ new_dict' = PushPostings(new_dict, d, bag)
      BY <1>4 DEF IndexDocument
    <2>2. /\ docs \in Seq(Doc) /\ todo \subseteq DOMAIN docs
          /\ d \in 1 .. Len(docs) /\ Len(docs) \in Nat /\ DOMAIN docs = 1 .. Len(docs)
      BY DEF CollectionTyped
    <2>3. IsBagOf(bag)
      BY <2>2, DocAssumption DEF IsBag, IsBagOf
    <2>4. AreBags(Done) /\ d \notin DOMAIN Done /\ d \in Nat \ {0}
      BY <2>2, DocAssumption DEF IsBag, IsBagOf, AreBags, Done
    <2>5. Inverts(new_dict, Done) /\ AllDistinct(new_dict)
      BY <2>1 DEF IndexInvariant, WorkersMatch
    <2>6. Done' = With(Done, d, bag)
      BY <2>1, <2>2 DEF Done, With
    <2> HIDE DEF bag
    <2> QED
      BY <2>1, <2>3, <2>4, <2>5, <2>6, PushPostingsInverts DEF WorkersMatch
  <1>5. CASE ~(\E b \in Batches : ReplaceDocs(b)) /\ ~(\E d \in todo : IndexDocument(d)) /\ Next
    BY <1>1, <1>5
    DEF Next, Request, Work, ClearBase, BeginUpsert, BeginCreate, MayCreate, EndCreate,
        PutEmptyIndex, InstallIndex, UpsertReplace, UpsertInsert, EndUpsert, Save, OpenDict,
        SaveCollection, WriteDocs, WriteDict, WriteLengths, SaveStep, CloseFiles, Answer,
        DiskFault, OpenDictFails, SaveCollectionFails, WriteDocsFails, WriteDictFails,
        WriteLengthsFails, CloseFails, CreateFails, EndCreateShort, Stopped, Crash, Load,
        LoadEmpty, LoadIndex, LoadFails, LoadMisreads
  <1> QED
    BY <1>2, <1>3, <1>4, <1>5

(***************************************************************************)
(* What can still be read of a file: no operation of the disk adds to it   *)
(* but the write of a new version.                                         *)
(***************************************************************************)
LEMMA ContentsOf ==
    /\ Contents(Torn) = {} /\ Contents(Absent) = {}
    /\ \A v : Contents(Buffered(v)) = {v} /\ Contents(Written(v)) = {v}
<1>1. \A v : Residue(Buffered(v)) = {Torn, Written(v)} /\ Residue(Written(v)) = {Written(v)}
  BY DEF Residue, Buffered, Written
<1>2. Residue(Torn) = {Torn} /\ Residue(Absent) = {Absent}
  BY DEF Residue, Torn, Absent
<1>3. Torn.st # "written" /\ Absent.st # "written" /\ \A v : Written(v).st = "written" /\ Written(v).val = v
  BY DEF Torn, Absent, Written
<1>4. \A v : {h \in {Torn, Written(v)} : h.st = "written"} = {Written(v)}
  BY <1>3
<1> QED
  BY <1>1, <1>2, <1>3, <1>4 DEF Contents

LEMMA ResidueContents ==
    ASSUME NEW f, NEW g \in Residue(f)
    PROVE  Contents(g) \subseteq Contents(f) /\ g.st # "buffered"
<1>1. CASE f.st = "buffered"
  <2>1. Contents(f) = {f.val}
    <3>1. Residue(f) = {Torn, Written(f.val)}
      BY <1>1 DEF Residue
    <3>2. Torn.st # "written" /\ Written(f.val).st = "written" /\ Written(f.val).val = f.val
      BY DEF Torn, Written
    <3> QED
      BY <3>1, <3>2 DEF Contents
  <2>2. g = Torn \/ g = Written(f.val)
    BY <1>1 DEF Residue
  <2>3. Torn.st # "buffered" /\ Written(f.val).st # "buffered"
    BY DEF Torn, Written
  <2> QED
    BY <2>1, <2>2, <2>3, ContentsOf
<1>2. CASE f.st # "buffered"
  BY <1>2 DEF Residue
<1> QED
  BY <1>1, <1>2

LEMMA FlushedContents ==
    ASSUME NEW f
    PROVE  Contents(Flushed(f)) \subseteq Contents(f) /\ Flushed(f).st # "buffered"
<1>1. Flushed(f) \in Residue(f)
  BY DEF Flushed, Residue
<1> QED
  BY <1>1, ResidueContents

\* The disk when a stream is lost, or all are closed.
LEMMA ResidueDisk ==
    ASSUME NEW d, NEW e \in Residues(d)
    PROVE  /\ e.scheme = d.scheme
           /\ e.docs \in Residue(d.docs) /\ e.dict \in Residue(d.dict) /\ e.lens \in Residue(d.lens)
  BY DEF Residues, Files

LEMMA ClosedDisk ==
    ASSUME NEW d
    PROVE  Closed(d) \in Residues(d)
<1>1. \A f : Flushed(f) \in Residue(f)
  BY DEF Flushed, Residue
<1> QED
  BY <1>1 DEF Closed, Residues

\* Files of which less can be read agree when the ones before did.
LEMMA FilesMatchLess ==
    ASSUME NEW d, NEW e, FilesMatch(d),
           Contents(e.docs) \subseteq Contents(d.docs), Contents(e.dict) \subseteq Contents(d.dict)
    PROVE  FilesMatch(e)
  BY DEF FilesMatch

LEMMA ResiduesMatch ==
    ASSUME NEW d, NEW e \in Residues(d), FilesMatch(d)
    PROVE  FilesMatch(e) /\ e.docs.st # "buffered" /\ e.dict.st # "buffered"
  BY ResidueDisk, ResidueContents, FilesMatchLess

LEMMA OneFile ==
    ASSUME CollectionTyped, NEW file \in {"scheme", "docs", "dict", "lens"}, NEW content
    PROVE  LET e == WithFile(file, content)
           IN  \A f \in {"scheme", "docs", "dict", "lens"} :
                  e[f] = IF f = file THEN content ELSE disk[f]
  BY DEF CollectionTyped, WithFile, Files

LEMMA FilesStep ==
    CollectionTyped /\ RestMatches /\ [Next]_vars => (StreamsFollow /\ FilesMatch(disk))'
  <1> SUFFICES ASSUME CollectionTyped, RestMatches, [Next]_vars
               PROVE  StreamsFollow' /\ FilesMatch(disk')
    OBVIOUS
  <1> USE DEF request, memory, counters
  <1>1. ASSUME disk' = disk, pc \notin Saving, pc' \notin Saving PROVE StreamsFollow' /\ FilesMatch(disk')
    BY <1>1 DEF RestMatches, StreamsFollow, Saving
  <1>2. ASSUME disk'.docs.st # "buffered", disk'.dict.st # "buffered", pc' \notin Saving
        PROVE  StreamsFollow'
    BY <1>2 DEF StreamsFollow, Saving
  <1>3. CASE UNCHANGED vars
    BY <1>3 DEF vars, RestMatches, StreamsFollow, StoredDocs
  <1>4. CASE \/ ClearBase \/ (\E b \in Batches : ReplaceDocs(b) \/ BeginUpsert(b))
             \/ (\E d \in todo : IndexDocument(d)) \/ InstallIndex \/ UpsertReplace \/ UpsertInsert
             \/ EndUpsert \/ Load \/ OpenDictFails \/ CreateFails
    BY <1>1, <1>4
    DEF ClearBase, ReplaceDocs, BeginUpsert, IndexDocument, InstallIndex, UpsertReplace,
        UpsertInsert, EndUpsert, Load, LoadEmpty, LoadIndex, LoadFails, LoadMisreads,
        OpenDictFails, CreateFails, MayCreate, Answer, Saving, Stopped
  <1>5. CASE BeginCreate \/ EndCreate \/ EndCreateShort
    <2>1. /\ pc \notin Saving /\ pc' \notin Saving
          /\ disk'.docs = disk.docs /\ disk'.dict = disk.dict
      BY <1>5, OneFile
      DEF BeginCreate, MayCreate, EndCreate, EndCreateShort, PutEmptyIndex, Saving, Stopped
    <2> QED
      BY <1>2, <2>1, FilesMatchLess DEF RestMatches, StreamsFollow, Saving
  <1>6. CASE OpenDict
    <2>1. /\ pc = "open" /\ pc' = "scheme" /\ disk'.docs = disk.docs /\ disk'.dict = Torn
      BY <1>6, OneFile DEF OpenDict, SaveStep
    <2>2. Torn.st # "buffered"
      BY DEF Torn
    <2> QED
      BY <2>1, <2>2, ContentsOf, FilesMatchLess DEF RestMatches, StreamsFollow
  <1>7. CASE SaveCollection \/ SaveCollectionFails
    <2>1. /\ pc = "scheme" /\ pc' = "docs" /\ disk'.docs = disk.docs /\ disk'.dict = disk.dict
      BY <1>7, OneFile DEF SaveCollection, SaveStep, SaveCollectionFails
    <2> QED
      BY <2>1, FilesMatchLess DEF RestMatches, StreamsFollow
  <1>8. CASE WriteDocs
    <2>1. /\ pc = "docs" /\ pc' = "dict" /\ disk'.docs = Buffered(StoredDocs) /\ disk'.dict = disk.dict
          /\ docs' = docs
      BY <1>8, OneFile DEF WriteDocs, SaveStep, StoredDocs
    <2>2. disk.dict = Torn /\ Torn.st # "buffered" /\ StoredDocs' = StoredDocs
      BY <2>1 DEF RestMatches, StreamsFollow, Torn, StoredDocs
    <2> QED
      BY <2>1, <2>2, ContentsOf DEF StreamsFollow, FilesMatch
  <1>9. CASE WriteDict
    <2>1. /\ pc = "dict" /\ pc' = "lens" /\ disk'.docs = disk.docs
          /\ disk'.dict = Buffered(freq_dictionary)
          /\ docs' = docs /\ freq_dictionary' = freq_dictionary
      BY <1>9, OneFile DEF WriteDict, SaveStep
    <2>2. disk.docs = Buffered(StoredDocs) /\ StoredDocs' = StoredDocs
      BY <2>1 DEF RestMatches, StreamsFollow, StoredDocs
    <2>3. docs \in Seq(Doc) /\ Indexes(freq_dictionary, docs)
      BY <2>1 DEF CollectionTyped, RestMatches, MemoryMatches
    <2>4. Indexes(freq_dictionary, StoredDocs)
      BY <2>3, StoredBags DEF Indexes
    <2> QED
      BY <2>1, <2>2, <2>4, ContentsOf DEF StreamsFollow, FilesMatch
  <1>10. CASE WriteLengths \/ WriteLengthsFails
    <2>1. /\ pc = "lens" /\ pc' = "close" /\ disk'.docs = disk.docs /\ disk'.dict = disk.dict
          /\ docs' = docs /\ freq_dictionary' = freq_dictionary
      BY <1>10, OneFile DEF WriteLengths, SaveStep, WriteLengthsFails, Fault
    <2> QED
      BY <2>1, FilesMatchLess DEF RestMatches, StreamsFollow, StoredDocs
  <1>11. CASE CloseFiles \/ CloseFails \/ WriteDictFails
    <2>1. disk' \in Residues(disk) /\ pc' = "idle"
      BY <1>11, ClosedDisk DEF CloseFiles, CloseFails, WriteDictFails, Answer
    <2> QED
      BY <1>2, <2>1, ResiduesMatch DEF RestMatches, Saving
  <1>12. CASE WriteDocsFails
    <2>1. /\ pc = "docs" /\ pc' = "idle" /\ disk'.dict = disk.dict
          /\ disk'.docs = disk.docs \/ disk'.docs = Torn
      BY <1>12, OneFile DEF WriteDocsFails, Answer
    <2>2. Torn.st # "buffered"
      BY DEF Torn
    <2> QED
      BY <1>2, <2>1, <2>2, ContentsOf, FilesMatchLess DEF RestMatches, StreamsFollow, Saving
  <1>13. CASE Crash
    <2>1. pc' = "down" /\ (disk' \in Residues(disk) \/ disk' \in Residues(WithFile("scheme", Torn)))
      BY <1>13 DEF Crash
    <2>2. FilesMatch(WithFile("scheme", Torn))
      BY OneFile, FilesMatchLess DEF RestMatches
    <2> QED
      BY <1>2, <2>1, <2>2, ResiduesMatch DEF RestMatches, Saving
  <1> QED
    BY <1>3, <1>4, <1>5, <1>6, <1>7, <1>8, <1>9, <1>10, <1>11, <1>12, <1>13
    DEF Next, Request, Work, Save, DiskFault

LEMMA IndexInit == Init => IndexInvariant
<1> SUFFICES ASSUME Init PROVE IndexInvariant
  OBVIOUS
<1>1. MemoryMatches /\ WorkersMatch
  BY NothingIndexed DEF Init, MemoryMatches, WorkersMatch
<1>2. disk.docs = Absent /\ disk.dict = Absent /\ pc = "idle" /\ Absent.st # "buffered"
  BY DEF Init, Files, Absent
<1> QED
  BY <1>1, <1>2, ContentsOf DEF IndexInvariant, RestMatches, StreamsFollow, FilesMatch

LEMMA IndexInvariantHolds == Spec => []IndexInvariant
<1>1. CollectionTyped /\ KeyMapAgrees /\ (pc = "upsert" => HasIntField) /\ IndexInvariant /\ [Next]_vars
        => IndexInvariant'
  BY MemoryStep, InstallStep, WorkersStep, FilesStep DEF IndexInvariant, RestMatches
<1> QED
  BY IndexInit, <1>1, TypeCorrect, KeyMapCorrect, UpsertHasKey, PTL DEF Spec

\* A dictionary that is the inverse of the documents' bags is one that agrees
\* with the documents.
LEMMA IndexedAgrees ==
    ASSUME NEW ds, NEW dict, Indexes(dict, ds)
    PROVE  DictAgrees(dict, ds)
<1> DEFINE bags == BagsOf(ds)
<1>1. TermsOf(bags) = UNION {DOMAIN WordCount[ds[i]] : i \in DOMAIN ds}
  BY DEF TermsOf, BagsOf
<1>2. ASSUME NEW t
      PROVE  PostingsIn(bags, t) = {Entry(d, WordCount[ds[d]][t]) :
                                       d \in {i \in DOMAIN ds : t \in DOMAIN WordCount[ds[i]]}}
  BY DEF PostingsIn, HoldersIn, BagsOf
<1> QED
  BY <1>1, <1>2 DEF Indexes, Inverts, AllAscending, Ascending, DictAgrees

\* Whatever was loaded, replaced, upserted, saved, cut off and read back, the
\* dictionary of a collection at rest lists exactly the documents that have a
\* term, in order, with their counts, and the forward index has their bags.
THEOREM IndexCorrect == Spec => []IndexAgrees
<1>1. IndexInvariant => IndexAgrees
  BY IndexedAgrees DEF IndexInvariant, RestMatches, MemoryMatches, IndexAgrees, BagsOf
<1> QED
  BY <1>1, IndexInvariantHolds, PTL

\* However often the process is killed and whatever the disk does, a docs.dat
\* and a dict.dat that can both be read are of one version of the collection.
\* Of doc_lengths.dat it says nothing: that file may be older.
THEOREM DocsMatchDict == Spec => []FilesAgree
<1>1. IndexInvariant => FilesAgree
  BY IndexedAgrees DEF IndexInvariant, RestMatches, FilesMatch, FilesAgree
<1> QED
  BY <1>1, IndexInvariantHolds, PTL

-----------------------------------------------------------------------------
(***************************************************************************)
(* The collection implements the abstract store (module DocumentStore).    *)
(* Bulk loads replace the store, an upsert puts one document at a time     *)
(* into it; Save gives the copy up when it opens dict.dat and makes the    *)
(* new one when it closes its streams; what a kill or a failing file       *)
(* operation leaves is the old copy, the new one or nothing to read.       *)
(***************************************************************************)
\* There is one last holder.
LEMMA LastHolderIs ==
    ASSUME NEW ds \in Seq(Doc), NEW i \in DOMAIN ds,
           \A j \in DOMAIN ds : KeyOf[ds[j]] = KeyOf[ds[i]] => j <= i
    PROVE  KeyOf[ds[i]] \in KeysOf(ds) /\ LastHolder(ds, KeyOf[ds[i]]) = i
<1> DEFINE k == KeyOf[ds[i]]
           h == LastHolder(ds, k)
<1>1. k \in KeysOf(ds)
  BY DEF KeysOf
<1>2. h \in DOMAIN ds /\ KeyOf[ds[h]] = k /\ i <= h
  BY <1>1, LastHolderOf
<1>3. h <= i
  BY <1>2
<1>4. i \in Nat /\ h \in Nat
  BY <1>2
<1> HIDE DEF h
<1> QED
  BY <1>1, <1>2, <1>3, <1>4 DEF h

\* Documents with the same keys in the same places have the same holders.
LEMMA SameHolders ==
    ASSUME NEW ds \in Seq(Doc), NEW es \in Seq(Doc), DOMAIN es = DOMAIN ds,
           \A i \in DOMAIN ds : KeyOf[es[i]] = KeyOf[ds[i]]
    PROVE  KeysOf(es) = KeysOf(ds) /\ \A k \in KeysOf(ds) : LastHolder(es, k) = LastHolder(ds, k)
<1>1. KeysOf(es) = KeysOf(ds)
  BY DEF KeysOf
<1>2. ASSUME NEW k \in KeysOf(ds) PROVE LastHolder(es, k) = LastHolder(ds, k)
  <2> DEFINE h == LastHolder(ds, k)
  <2>1. h \in DOMAIN es /\ KeyOf[es[h]] = k /\ \A j \in DOMAIN es : KeyOf[es[j]] = k => j <= h
    BY LastHolderOf
  <2> HIDE DEF h
  <2>2. LastHolder(es, k) = h
    BY <2>1, LastHolderIs
  <2> QED
    BY <2>2 DEF h
<1> QED
  BY <1>1, <1>2

LEMMA ByKeyOfNone == ByKey(<< >>) = << >>
  BY DEF ByKey, KeysOf

\* What a batch puts into the store.
LEMMA StoreOfBatch ==
    ASSUME NEW b \in Seq(Doc)
    PROVE  ByKey(b) = Abstract!StoreOf(b)
<1> DEFINE At(k) == CHOOSE i \in DOMAIN b : /\ KeyOf[b[i]] = k
                                             /\ \A j \in i + 1 .. Len(b) : KeyOf[b[j]] # k
<1>1. DOMAIN b = 1 .. Len(b) /\ Len(b) \in Nat
  OBVIOUS
<1>2. ASSUME NEW k \in KeysOf(b) PROVE LastHolder(b, k) = At(k)
  <2> DEFINE h == LastHolder(b, k)
  <2>1. h \in DOMAIN b /\ KeyOf[b[h]] = k /\ \A j \in DOMAIN b : KeyOf[b[j]] = k => j <= h
    BY LastHolderOf
  <2> HIDE DEF h
  <2>2. \A j \in h + 1 .. Len(b) : KeyOf[b[j]] # k
    BY <1>1, <2>1
  <2>3. /\ At(k) \in DOMAIN b /\ KeyOf[b[At(k)]] = k
        /\ \A j \in At(k) + 1 .. Len(b) : KeyOf[b[j]] # k
    BY <2>1, <2>2
  <2> HIDE DEF At
  <2>4. At(k) <= h /\ ~(At(k) < h)
    BY <1>1, <2>1, <2>3
  <2> QED
    BY <1>1, <2>1, <2>3, <2>4 DEF h
<1>3. ByKey(b) = [k \in KeysOf(b) |-> b[At(k)]]
  BY <1>2 DEF ByKey
<1> QED
  BY <1>3 DEF KeysOf, Abstract!StoreOf

\* What docs.dat keeps of the documents is the copy of the store.
LEMMA CopyOfStore ==
    ASSUME docs \in Seq(Doc)
    PROVE  ByKey(StoredDocs) = Abstract!CopyOf(ByKey(docs))
<1>1. StoredDocs \in Seq(Doc) /\ DOMAIN StoredDocs = DOMAIN docs
  BY StoredSeq DEF StoredDocs
<1>2. \A i \in DOMAIN docs : StoredDocs[i] = Stored[docs[i]] /\ docs[i] \in Doc
  BY DEF StoredDocs
<1>3. \A i \in DOMAIN docs : KeyOf[StoredDocs[i]] = KeyOf[docs[i]]
  BY <1>2, StoredAssumption
<1>4. /\ KeysOf(StoredDocs) = KeysOf(docs)
      /\ \A k \in KeysOf(docs) : LastHolder(StoredDocs, k) = LastHolder(docs, k)
  BY <1>1, <1>3, SameHolders
<1>5. \A k \in KeysOf(docs) : StoredDocs[LastHolder(docs, k)] = Stored[docs[LastHolder(docs, k)]]
  BY <1>2, LastHolderOf
<1> QED
  BY <1>4, <1>5 DEF ByKey, Abstract!CopyOf

\* An upsert of a document whose last holder is at d.
LEMMA PutReplaces ==
    ASSUME NEW ds \in Seq(Doc), NEW d \in DOMAIN ds, NEW new \in Doc, KeyOf[ds[d]] = KeyOf[new],
           \A j \in DOMAIN ds : KeyOf[ds[j]] = KeyOf[new] => j <= d
    PROVE  ByKey([ds EXCEPT ![d] = new]) =
              [k \in DOMAIN ByKey(ds) \union {KeyOf[new]} |->
                  IF k = KeyOf[new] THEN new ELSE ByKey(ds)[k]]
<1> DEFINE es == [ds EXCEPT ![d] = new]
<1>1. es \in Seq(Doc) /\ DOMAIN es = DOMAIN ds
  BY ExceptKeepsSeq
<1>2. es[d] = new /\ \A i \in DOMAIN ds : i # d => es[i] = ds[i]
  OBVIOUS
<1> HIDE DEF es
<1>3. \A i \in DOMAIN ds : KeyOf[es[i]] = KeyOf[ds[i]]
  BY <1>2
<1>4. KeysOf(es) = KeysOf(ds) /\ \A k \in KeysOf(ds) : LastHolder(es, k) = LastHolder(ds, k)
  BY <1>1, <1>3, SameHolders
<1>5. KeyOf[new] \in KeysOf(ds) /\ LastHolder(ds, KeyOf[new]) = d
  BY LastHolderIs
<1>6. \A k \in KeysOf(ds) : k # KeyOf[new] => LastHolder(ds, k) # d /\ LastHolder(ds, k) \in DOMAIN ds
  BY LastHolderOf
<1>7. ByKey(es) = [k \in KeysOf(ds) |-> es[LastHolder(ds, k)]]
  BY <1>4 DEF ByKey
<1>8. DOMAIN ByKey(ds) = KeysOf(ds) /\ \A k \in KeysOf(ds) : ByKey(ds)[k] = ds[LastHolder(ds, k)]
  BY DEF ByKey
<1>9. KeysOf(ds) \union {KeyOf[new]} = KeysOf(ds)
  BY <1>5
<1>10. \A k \in KeysOf(ds) :
          es[LastHolder(ds, k)] = IF k = KeyOf[new] THEN new ELSE ByKey(ds)[k]
  BY <1>2, <1>5, <1>6, <1>8
<1> QED
  BY <1>7, <1>8, <1>9, <1>10 DEF es

\* An upsert of a document with a new key.
LEMMA PutAppends ==
    ASSUME NEW ds \in Seq(Doc), NEW new \in Doc, KeyOf[new] \notin KeysOf(ds)
    PROVE  ByKey(Append(ds, new)) =
              [k \in DOMAIN ByKey(ds) \union {KeyOf[new]} |->
                  IF k = KeyOf[new] THEN new ELSE ByKey(ds)[k]]
<1> DEFINE es == Append(ds, new)
           d == Len(ds) + 1
<1>1. /\ es \in Seq(Doc) /\ DOMAIN es = 1 .. d /\ es[d] = new
      /\ Len(ds) \in Nat /\ DOMAIN ds = 1 .. Len(ds)
      /\ \A i \in 1 .. Len(ds) : es[i] = ds[i] /\ KeyOf[ds[i]] # KeyOf[new]
  BY DEF KeysOf
<1> HIDE DEF es
<1>2. KeysOf(es) = KeysOf(ds) \union {KeyOf[new]}
  BY <1>1 DEF KeysOf
<1>3. LastHolder(es, KeyOf[new]) = d
  BY <1>1, LastHolderIs
<1>4. ASSUME NEW k \in KeysOf(ds) PROVE es[LastHolder(es, k)] = ds[LastHolder(ds, k)]
  <2> DEFINE h == LastHolder(ds, k)
  <2>1. h \in 1 .. Len(ds) /\ KeyOf[ds[h]] = k /\ \A j \in 1 .. Len(ds) : KeyOf[ds[j]] = k => j <= h
    BY <1>1, LastHolderOf
  <2> HIDE DEF h
  <2>2. h \in DOMAIN es /\ KeyOf[es[h]] = k /\ \A j \in DOMAIN es : KeyOf[es[j]] = k => j <= h
    BY <1>1, <2>1
  <2>3. LastHolder(es, k) = h
    BY <1>1, <2>2, LastHolderIs
  <2> QED
    BY <1>1, <2>1, <2>3 DEF h
<1>5. \A k \in KeysOf(es) :
         es[LastHolder(es, k)] = IF k = KeyOf[new] THEN new ELSE ds[LastHolder(ds, k)]
  BY <1>1, <1>2, <1>3, <1>4
<1>6. ByKey(es) = [k \in KeysOf(es) |-> es[LastHolder(es, k)]]
  BY DEF ByKey
<1>7. DOMAIN ByKey(ds) = KeysOf(ds) /\ \A k \in KeysOf(ds) : ByKey(ds)[k] = ds[LastHolder(ds, k)]
  BY DEF ByKey
<1>8. \A k \in KeysOf(es) : es[LastHolder(es, k)] = IF k = KeyOf[new] THEN new ELSE ByKey(ds)[k]
  BY <1>2, <1>5, <1>7
<1> QED
  BY <1>2, <1>6, <1>7, <1>8 DEF es

(***************************************************************************)
(* What would be read of the files d.                                      *)
(***************************************************************************)
Served(d) ==
    IF d.docs = Absent \/ d.dict = Absent THEN {<< >>}
    ELSE IF d.docs.st = "written" /\ d.dict.st = "written" THEN {ByKey(d.docs.val)}
    ELSE {}

LEMMA FileStates ==
    /\ Absent.st = "absent" /\ Torn.st = "torn"
    /\ \A v : Buffered(v).st = "buffered" /\ Written(v).st = "written" /\ Written(v).val = v
    /\ Torn # Absent /\ \A v : Buffered(v) # Absent /\ Written(v) # Absent
<1>1. /\ Absent.st = "absent" /\ Torn.st = "torn"
      /\ \A v : Buffered(v).st = "buffered" /\ Written(v).st = "written" /\ Written(v).val = v
  BY DEF Absent, Torn, Buffered, Written
<1> QED
  BY <1>1

\* A killed or failed save: from the moment docs.dat is written only the new
\* documents can be read, if any; before that, what could be read.
LEMMA LeftOfSave ==
    ASSUME CollectionTyped, StreamsFollow, pc \in Saving, NEW e \in Residues(disk)
    PROVE  Served(e) \in {{}, Served(disk), {ByKey(StoredDocs)}}
<1>1. e.docs \in Residue(disk.docs) /\ e.dict \in Residue(disk.dict)
  BY ResidueDisk
<1>2. CASE pc \in {"scheme", "docs"}
  <2>1. e.docs = disk.docs /\ e.dict = disk.dict
    BY <1>1, <1>2, FileStates DEF StreamsFollow, Residue
  <2> QED
    BY <2>1 DEF Served
<1>3. CASE pc \in {"dict", "lens", "close"}
  <2>1. e.docs = Torn \/ e.docs = Written(StoredDocs)
    <3>1. disk.docs = Buffered(StoredDocs) /\ disk.docs.st = "buffered" /\ disk.docs.val = StoredDocs
      BY <1>3 DEF StreamsFollow, Buffered
    <3> QED
      BY <1>1, <3>1 DEF Residue
  <2>2. e.dict # Absent
    <3>1. disk.dict = Torn \/ disk.dict = Buffered(freq_dictionary)
      BY <1>3 DEF StreamsFollow
    <3>2. e.dict = disk.dict \/ e.dict = Torn \/ e.dict = Written(disk.dict.val)
      BY <1>1 DEF Residue
    <3> QED
      BY <3>1, <3>2, FileStates
  <2> QED
    BY <2>1, <2>2, FileStates DEF Served
<1> QED
  BY <1>2, <1>3 DEF Saving

StoppedEmpty == pc \in Stopped => docs = << >>

LEMMA StoppedEmptyHolds == Spec => []StoppedEmpty
<1>1. Init => StoppedEmpty
  BY DEF Init, StoppedEmpty, Stopped
<1>2. StoppedEmpty /\ [Next]_vars => StoppedEmpty'
  BY DEF StoppedEmpty, Stopped, Next, Request, Work, ClearBase, ReplaceDocs, BeginUpsert,
         BeginCreate, MayCreate, EndCreate, PutEmptyIndex, IndexDocument, InstallIndex,
         UpsertReplace, UpsertInsert, EndUpsert, Save, OpenDict, SaveCollection, WriteDocs,
         WriteDict, WriteLengths, SaveStep, CloseFiles, Answer, DiskFault, OpenDictFails,
         SaveCollectionFails, WriteDocsFails, WriteDictFails, WriteLengthsFails, CloseFails,
         CreateFails, EndCreateShort, Fault, Crash, Load, LoadEmpty, LoadIndex, LoadFails,
         LoadMisreads, vars, memory
<1> QED
  BY <1>1, <1>2, PTL DEF Spec

LEMMA StoreStep ==
    CollectionTyped /\ KeyMapAgrees /\ (pc = "upsert" => HasIntField) /\ StreamsFollow
      /\ StoppedEmpty /\ [Next]_vars
        => [Abstract!StoreNext]_Abstract!storeVars
  <1> SUFFICES ASSUME CollectionTyped, KeyMapAgrees, pc = "upsert" => HasIntField, StreamsFollow,
                      StoppedEmpty, [Next]_vars
               PROVE  Abstract!StoreNext \/ UNCHANGED Abstract!storeVars
    OBVIOUS
  <1> DEFINE status == IF pc \in Stopped THEN "stopped"
                       ELSE IF pc = "create" THEN "renewing"
                       ELSE IF pc \in Saving THEN "saving" ELSE "serving"
  <1> USE DEF request, memory, counters
  <1>1. CopyServed = Served(disk) /\ CopyServed' = Served(disk')
    BY DEF CopyServed, NothingSaved, Served
  <1>2. ASSUME NEW d, NEW e, d.docs = e.docs, d.dict = e.dict PROVE Served(d) = Served(e)
    BY <1>2 DEF Served
  <1>3. ASSUME docs' = docs, Served(disk') = Served(disk), disk'.scheme = disk.scheme, status' = status
        PROVE  UNCHANGED Abstract!storeVars
    BY <1>1, <1>3 DEF Abstract!storeVars, SchemeReadable
  <1>4. CASE UNCHANGED vars
    BY <1>3, <1>4 DEF vars
  <1>5. CASE \/ (\E b \in Batches : BeginUpsert(b)) \/ (\E d \in todo : IndexDocument(d))
             \/ InstallIndex \/ EndUpsert \/ OpenDictFails \/ CreateFails
             \/ LoadFails \/ LoadMisreads
    BY <1>3, <1>5
    DEF BeginUpsert, IndexDocument, InstallIndex, EndUpsert, OpenDictFails, CreateFails,
        LoadFails, LoadMisreads, Fault, Answer, Stopped, Saving
  <1>6. ASSUME NEW b \in Batches, docs' = b, disk' = disk, status = "serving", status' = "serving"
        PROVE  Abstract!Replace(b)
    <2>1. b \in Seq(Doc)
      BY BoundsAssumption
    <2> QED
      BY <1>1, <1>6, <2>1, StoreOfBatch DEF Abstract!Replace, SchemeReadable
  <1>7. CASE ClearBase
    <2>1. Abstract!Replace(<< >>) /\ << >> \in Batches
      BY <1>6, <1>7 DEF ClearBase, Stopped, Saving
    <2> QED
      BY <2>1 DEF Abstract!StoreNext
  <1>8. ASSUME NEW b \in Batches, ReplaceDocs(b) PROVE Abstract!StoreNext
    <2>1. Abstract!Replace(b)
      BY <1>6, <1>8 DEF ReplaceDocs, Stopped, Saving
    <2> QED
      BY <2>1 DEF Abstract!StoreNext
  <1>9. CASE UpsertReplace
    <2> DEFINE new == Head(batch)
               d == primary_id_to_doc[KeyOf[new]]
    <2>1. /\ pc = "upsert" /\ pc' = pc /\ batch # << >> /\ KeyOf[new] \in DOMAIN primary_id_to_doc
          /\ docs' = [docs EXCEPT ![d] = new] /\ disk' = disk
      BY <1>9 DEF UpsertReplace
    <2>2. new \in Doc /\ docs \in Seq(Doc)
      BY <2>1 DEF CollectionTyped
    <2>3. /\ d \in DOMAIN docs /\ KeyOf[docs[d]] = KeyOf[new]
          /\ \A j \in DOMAIN docs : KeyOf[docs[j]] = KeyOf[new] => j <= d
      BY <2>1 DEF KeyMapAgrees
    <2> HIDE DEF new, d
    <2>4. Abstract!Put(new)
      BY <1>1, <2>1, <2>2, <2>3, PutReplaces DEF Abstract!Put, SchemeReadable, Stopped, Saving
    <2> QED
      BY <2>2, <2>4 DEF Abstract!StoreNext
  <1>10. CASE UpsertInsert
    <2> DEFINE new == Head(batch)
    <2>1. /\ pc = "upsert" /\ pc' = pc /\ batch # << >> /\ KeyOf[new] \notin DOMAIN primary_id_to_doc
          /\ docs' = Append(docs, new) /\ disk' = disk
      BY <1>10 DEF UpsertInsert
    <2>2. new \in Doc /\ docs \in Seq(Doc) /\ KeyOf[new] \notin KeysOf(docs)
      BY <2>1 DEF CollectionTyped, KeyMapAgrees
    <2> HIDE DEF new
    <2>3. Abstract!Put(new)
      BY <1>1, <2>1, <2>2, PutAppends DEF Abstract!Put, SchemeReadable, Stopped, Saving
    <2> QED
      BY <2>2, <2>3 DEF Abstract!StoreNext
  <1>11. CASE OpenDict
    <2>1. pc = "open" /\ pc' = "scheme" /\ docs' = docs
          /\ disk'.docs = disk.docs /\ disk'.dict = Torn /\ disk'.scheme = disk.scheme
      BY <1>11, OneFile DEF OpenDict, SaveStep
    <2>2. Served(disk') \in {{}, Served(disk) \intersect {<< >>}}
      BY <2>1, FileStates DEF Served
    <2>3. Abstract!BeginSave
      BY <1>1, <2>1, <2>2 DEF Abstract!BeginSave, Abstract!Empty, SchemeReadable, Stopped, Saving
    <2> QED
      BY <2>3 DEF Abstract!StoreNext
  <1>12. CASE SaveCollection \/ SaveCollectionFails \/ WriteDocs \/ WriteDict \/ WriteLengths
              \/ WriteLengthsFails
    <2>1. pc \in Saving /\ pc' \in Saving /\ docs' = docs
      BY <1>12 DEF SaveCollection, SaveCollectionFails, WriteDocs, WriteDict, WriteLengths,
                   WriteLengthsFails, SaveStep, Fault, Saving
    <2>2. Served(disk') \in {{}, Served(disk)}
      <3>1. CASE SaveCollection \/ SaveCollectionFails \/ WriteLengths \/ WriteLengthsFails
        <4>1. disk'.docs = disk.docs /\ disk'.dict = disk.dict
          BY <3>1, OneFile DEF SaveCollection, SaveCollectionFails, WriteLengths,
                               WriteLengthsFails, SaveStep
        <4> QED
          BY <1>2, <4>1
      <3>2. CASE WriteDocs
        <4>1. disk'.docs = Buffered(StoredDocs) /\ disk'.dict = disk.dict /\ disk.dict = Torn
          BY <3>2, OneFile DEF WriteDocs, SaveStep, StoredDocs, StreamsFollow
        <4> QED
          BY <4>1, FileStates DEF Served
      <3>3. CASE WriteDict
        <4>1. /\ disk'.docs = Buffered(StoredDocs)
              /\ disk'.dict = Buffered(freq_dictionary)
          BY <3>3, OneFile DEF WriteDict, SaveStep, StoredDocs, StreamsFollow
        <4> QED
          BY <4>1, FileStates DEF Served
      <3> QED
        BY <1>12, <3>1, <3>2, <3>3
    <2>3. Abstract!Overwrite
      BY <1>1, <2>1, <2>2 DEF Abstract!Overwrite, SchemeReadable, Stopped, Saving
    <2> QED
      BY <2>3 DEF Abstract!StoreNext
  <1>13. CASE CloseFiles
    <2>1. pc = "close" /\ pc' = "idle" /\ disk' = Closed(disk) /\ docs' = docs
      BY <1>13 DEF CloseFiles, Answer
    <2>2. disk.docs = Buffered(StoredDocs) /\ disk.dict = Buffered(freq_dictionary)
          /\ docs \in Seq(Doc)
      BY <2>1 DEF StreamsFollow, CollectionTyped
    <2>3. /\ disk'.docs = Written(StoredDocs) /\ disk'.dict = Written(freq_dictionary)
          /\ disk'.scheme = disk.scheme
      BY <2>1, <2>2 DEF Closed, Flushed, Files, Buffered, Written
    <2>4. Served(disk') = {Abstract!CopyOf(ByKey(docs))}
      BY <2>2, <2>3, FileStates, CopyOfStore DEF Served
    <2>5. Abstract!EndSave
      BY <1>1, <2>1, <2>3, <2>4 DEF Abstract!EndSave, SchemeReadable, Stopped, Saving
    <2> QED
      BY <2>5 DEF Abstract!StoreNext
  <1>14. ASSUME pc \in Saving PROVE {ByKey(StoredDocs)} = {Abstract!CopyOf(ByKey(docs))}
    BY CopyOfStore DEF CollectionTyped
  <1>15. CASE WriteDocsFails \/ WriteDictFails \/ CloseFails
    <2>1. pc \in Saving /\ pc' = "idle" /\ docs' = docs
      BY <1>15 DEF WriteDocsFails, WriteDictFails, CloseFails, Fault, Answer, Saving
    <2>2. Served(disk') \in Abstract!Leftovers /\ disk'.scheme = disk.scheme
      <3>1. CASE WriteDocsFails
        <4>1. /\ disk'.dict = disk.dict /\ disk.dict = Torn /\ disk'.scheme = disk.scheme
              /\ disk'.docs = disk.docs \/ disk'.docs = Torn
          BY <3>1, OneFile DEF WriteDocsFails, StreamsFollow
        <4>2. Served(disk') \in {{}, Served(disk)}
          BY <4>1, FileStates DEF Served
        <4> QED
          BY <1>1, <4>1, <4>2 DEF Abstract!Leftovers
      <3>2. CASE WriteDictFails \/ CloseFails
        <4>1. disk' \in Residues(disk)
          BY <3>2 DEF WriteDictFails, CloseFails
        <4> QED
          BY <1>1, <1>14, <2>1, <4>1, LeftOfSave, ResidueDisk DEF Abstract!Leftovers
      <3> QED
        BY <1>15, <3>1, <3>2
    <2>3. Abstract!FailSave
      BY <1>1, <2>1, <2>2 DEF Abstract!FailSave, SchemeReadable, Stopped, Saving
    <2> QED
      BY <2>3 DEF Abstract!StoreNext
  <1>16. CASE Crash
    <2>1. pc \notin Stopped /\ pc' = "down" /\ docs' = << >>
      BY <1>16 DEF Crash
    <2>2. CASE pc \in Saving
      <3>1. Served(disk') \in Abstract!Leftovers
        <4>1. CASE disk' \in Residues(disk)
          BY <1>1, <1>14, <2>2, <4>1, LeftOfSave DEF Abstract!Leftovers
        <4>2. CASE pc = "scheme" /\ disk' \in Residues(WithFile("scheme", Torn))
          <5>1. /\ disk'.docs \in Residue(disk.docs) /\ disk'.dict \in Residue(disk.dict)
                /\ disk.docs.st # "buffered" /\ disk.dict.st # "buffered"
            BY <4>2, ResidueDisk, OneFile DEF StreamsFollow
          <5>2. disk'.docs = disk.docs /\ disk'.dict = disk.dict
            BY <5>1 DEF Residue
          <5> QED
            BY <1>1, <1>2, <5>2 DEF Abstract!Leftovers
        <4> QED
          BY <1>16, <4>1, <4>2 DEF Crash
      <3>2. Abstract!Stop
        BY <1>1, <2>1, <2>2, <3>1, ByKeyOfNone
        DEF Abstract!Stop, Abstract!Empty, SchemeReadable, Stopped, Saving
      <3> QED
        BY <3>2 DEF Abstract!StoreNext
    <2>3. CASE pc \notin Saving
      <3>1. /\ disk'.docs \in Residue(disk.docs) /\ disk'.dict \in Residue(disk.dict)
            /\ disk.docs.st # "buffered" /\ disk.dict.st # "buffered" /\ disk'.scheme = disk.scheme
        BY <1>16, <2>3, ResidueDisk DEF Crash, StreamsFollow, Saving
      <3>2. Served(disk') = Served(disk)
        <4>1. disk'.docs = disk.docs /\ disk'.dict = disk.dict
          BY <3>1 DEF Residue
        <4> QED
          BY <1>2, <4>1
      <3>3. Abstract!Stop
        BY <1>1, <2>1, <2>3, <3>1, <3>2, ByKeyOfNone
        DEF Abstract!Stop, Abstract!Empty, SchemeReadable, Stopped, Saving
      <3> QED
        BY <3>3 DEF Abstract!StoreNext
    <2> QED
      BY <2>2, <2>3
  <1>17. CASE LoadEmpty \/ LoadIndex
    <2>1. /\ pc \in Stopped /\ pc' = "idle" /\ disk' = disk /\ SchemeReadable
      BY <1>17 DEF LoadEmpty, LoadIndex
    <2>2. ByKey(docs') \in Served(disk)
      <3>1. CASE LoadEmpty
        BY <2>1, <3>1, ByKeyOfNone DEF LoadEmpty, NothingSaved, Served, StoppedEmpty
      <3>2. CASE LoadIndex
        BY <3>2, FileStates DEF LoadIndex, Served
      <3> QED
        BY <1>17, <3>1, <3>2
    <2>3. Abstract!Restart
      BY <1>1, <2>1, <2>2 DEF Abstract!Restart, SchemeReadable, Stopped, Saving
    <2> QED
      BY <2>3 DEF Abstract!StoreNext
  <1>18. CASE BeginCreate
    <2>1. /\ pc \in {"idle"} \union Stopped /\ pc' = "create" /\ docs' = docs
          /\ disk'.docs = disk.docs /\ disk'.dict = disk.dict /\ disk'.scheme = Torn
      BY <1>18, OneFile DEF BeginCreate, MayCreate
    <2>2. Served(disk') = Served(disk) /\ ~SchemeReadable'
      BY <1>2, <2>1, FileStates DEF SchemeReadable
    <2>3. Abstract!BeginRenew
      BY <1>1, <2>1, <2>2 DEF Abstract!BeginRenew, Stopped, Saving
    <2> QED
      BY <2>3 DEF Abstract!StoreNext
  <1>19. CASE EndCreate \/ EndCreateShort
    <2>1. /\ pc = "create" /\ pc' = "idle" /\ docs' = << >>
          /\ disk'.docs = disk.docs /\ disk'.dict = disk.dict
      BY <1>19, OneFile DEF EndCreate, EndCreateShort, PutEmptyIndex
    <2>2. Served(disk') = Served(disk)
      BY <1>2, <2>1
    <2>3. Abstract!EndRenew
      BY <1>1, <2>1, <2>2, ByKeyOfNone
      DEF Abstract!EndRenew, Abstract!Empty, SchemeReadable, Stopped, Saving
    <2> QED
      BY <2>3 DEF Abstract!StoreNext
  <1> QED
    BY <1>4, <1>5, <1>7, <1>8, <1>9, <1>10, <1>11, <1>12, <1>13, <1>15, <1>16, <1>17, <1>18,
       <1>19
    DEF Next, Request, Work, Save, DiskFault, Load

\* Every behaviour of a collection, whatever is posted, killed, loaded, made
\* again or fails on the disk, is one of the abstract store.  What is served
\* after a start is one version as a whole, or nothing, never some of each of
\* two.  It is that of the last save that opened dict.dat; an empty scheme.dat,
\* left by a kill while the collection is made again, takes it out of service
\* until the collection is made anew.
THEOREM CollectionIsAStore == Spec => ImplementsDocumentStore
<1>1. Init => Abstract!StoreInit
  <2> SUFFICES ASSUME Init PROVE Abstract!StoreInit
    OBVIOUS
  <2>1. /\ docs = << >> /\ pc = "idle" /\ disk.docs = Absent /\ disk.scheme = Written("fields")
    BY DEF Init, Files
  <2>2. CopyServed = {<< >>} /\ SchemeReadable
    BY <2>1, FileStates DEF CopyServed, NothingSaved, SchemeReadable
  <2> QED
    BY <2>1, <2>2, ByKeyOfNone
    DEF Abstract!StoreInit, Abstract!Empty, Stopped, Saving
<1>2. IndexInvariant => StreamsFollow
  BY DEF IndexInvariant, RestMatches
<1> QED
  BY <1>1, <1>2, StoreStep, TypeCorrect, KeyMapCorrect, UpsertHasKey, IndexInvariantHolds,
     StoppedEmptyHolds, PTL
  DEF Spec, ImplementsDocumentStore, Abstract!StoreSpec

-----------------------------------------------------------------------------
(***************************************************************************)
(* Document lengths, when no save is cut off and the disk does not fail.   *)
(* doc_lengths.dat is then written with the documents it belongs to, so    *)
(* that the one Load reads has the lengths of the documents it reads.      *)
(***************************************************************************)
LengthsFor(ds) == [i \in DOMAIN ds |-> DocLength(WordCount[ds[i]])]

LengthsFollow ==
    /\ pc # "build" => doc_lengths = LengthsFor(docs)
    /\ pc = "build" =>
          /\ doc_lengths = [i \in DOMAIN docs |-> doc_lengths[i]]
          /\ \A i \in DOMAIN docs \ todo : doc_lengths[i] = DocLength(WordCount[docs[i]])
    /\ pc \notin Saving =>
          \/ disk.docs = Absent /\ disk.dict = Absent
          \/ /\ disk.docs.st = "written" /\ disk.dict.st = "written"
             /\ disk.lens = Written(LengthsFor(disk.docs.val))
    /\ pc = "close" => disk.lens = Buffered(doc_lengths)

LEMMA LengthsForNone == LengthsFor(<< >>) = << >>
  BY DEF LengthsFor

LEMMA LengthsOfStored ==
    ASSUME docs \in Seq(Doc)
    PROVE  LengthsFor(StoredDocs) = LengthsFor(docs)
<1>1. \A i \in DOMAIN docs : WordCount[Stored[docs[i]]] = WordCount[docs[i]]
  BY StoredAssumption
<1> QED
  BY <1>1 DEF LengthsFor, StoredDocs

LEMMA LengthsStep ==
    ASSUME Disturbances \subseteq {"crash", "recreate"}
    PROVE  CollectionTyped /\ KeyMapAgrees /\ (pc = "upsert" => HasIntField) /\ StreamsFollow
             /\ StoppedEmpty /\ LengthsFollow /\ [Next]_vars => LengthsFollow'
  <1> SUFFICES ASSUME CollectionTyped, KeyMapAgrees, pc = "upsert" => HasIntField, StreamsFollow,
                      StoppedEmpty, LengthsFollow, [Next]_vars
               PROVE  LengthsFollow'
    OBVIOUS
  <1> USE DEF request, memory
  <1> DEFINE FilesFit(d) == \/ d.docs = Absent /\ d.dict = Absent
                            \/ /\ d.docs.st = "written" /\ d.dict.st = "written"
                               /\ d.lens = Written(LengthsFor(d.docs.val))
  <1>1. pc \notin Saving => FilesFit(disk)
    BY DEF LengthsFollow
  <1>2. ASSUME pc' \notin Saving \union {"build"}, doc_lengths' = LengthsFor(docs'), FilesFit(disk')
        PROVE  LengthsFollow'
    BY <1>2 DEF LengthsFollow, Saving
  <1>3. CASE UNCHANGED vars
    BY <1>3 DEF vars, LengthsFollow
  <1>4. CASE ClearBase \/ EndUpsert \/ (\E b \in Batches : BeginUpsert(b))
    <2>1. /\ pc \notin Saving \union {"build"} /\ pc' \notin Saving \union {"build"} /\ disk' = disk
          /\ \/ docs' = << >> /\ doc_lengths' = << >>
             \/ docs' = docs /\ doc_lengths' = doc_lengths
      BY <1>4 DEF ClearBase, EndUpsert, BeginUpsert, Saving
    <2> QED
      BY <1>1, <1>2, <2>1, LengthsForNone DEF LengthsFollow
  <1>5. ASSUME NEW b \in Batches, ReplaceDocs(b) PROVE LengthsFollow'
    <2>1. /\ pc = "idle" /\ pc' = "build" /\ disk' = disk /\ docs' = b /\ todo' = 1 .. Len(b)
          /\ doc_lengths' = [i \in 1 .. Len(b) |->
                                IF i <= Len(doc_lengths) THEN doc_lengths[i] ELSE 0]
      BY <1>5 DEF ReplaceDocs
    <2>2. DOMAIN b = 1 .. Len(b)
      BY BoundsAssumption
    <2> QED
      BY <1>1, <2>1, <2>2 DEF LengthsFollow, Saving
  <1>6. ASSUME NEW d \in todo, IndexDocument(d) PROVE LengthsFollow'
    <2>1. /\ pc = "build" /\ pc' = pc /\ disk' = disk /\ docs' = docs /\ todo' = todo \ {d}
          /\ doc_lengths' = [doc_lengths EXCEPT ![d] = DocLength(WordCount[docs[d]])]
      BY <1>6 DEF IndexDocument
    <2>2. /\ doc_lengths = [i \in DOMAIN docs |-> doc_lengths[i]] /\ d \in DOMAIN docs
          /\ \A i \in DOMAIN docs \ todo : doc_lengths[i] = DocLength(WordCount[docs[i]])
      BY <2>1 DEF LengthsFollow, CollectionTyped
    <2>3. /\ doc_lengths' = [i \in DOMAIN docs |-> doc_lengths'[i]]
          /\ \A i \in DOMAIN docs \ todo' : doc_lengths'[i] = DocLength(WordCount[docs[i]])
      BY <2>1, <2>2
    <2> QED
      BY <1>1, <2>1, <2>3 DEF LengthsFollow, Saving
  <1>7. CASE InstallIndex
    <2>1. /\ pc = "build" /\ pc' = "open" /\ disk' = disk /\ docs' = docs /\ todo = {}
          /\ doc_lengths' = doc_lengths
      BY <1>7 DEF InstallIndex
    <2>2. doc_lengths = LengthsFor(docs)
      BY <2>1 DEF LengthsFollow, LengthsFor
    <2> QED
      BY <1>1, <1>2, <2>1, <2>2 DEF Saving
  <1>8. CASE UpsertReplace
    <2> DEFINE new == Head(batch)
               d == primary_id_to_doc[KeyOf[new]]
    <2>1. /\ pc = "upsert" /\ pc' = pc /\ disk' = disk /\ KeyOf[new] \in DOMAIN primary_id_to_doc
          /\ docs' = [docs EXCEPT ![d] = new]
          /\ doc_lengths' = [doc_lengths EXCEPT ![d] = DocLength(WordCount[new])]
      BY <1>8 DEF UpsertReplace
    <2>2. d \in DOMAIN docs /\ doc_lengths = LengthsFor(docs)
      BY <2>1 DEF KeyMapAgrees, LengthsFollow
    <2> HIDE DEF new, d
    <2>3. doc_lengths' = LengthsFor(docs')
      BY <2>1, <2>2 DEF LengthsFor
    <2> QED
      BY <1>1, <1>2, <2>1, <2>3 DEF Saving
  <1>9. CASE UpsertInsert
    <2> DEFINE new == Head(batch)
               len == DocLength(WordCount[new])
               d == Len(docs) + 1
    <2>1. /\ pc = "upsert" /\ pc' = pc /\ disk' = disk
          /\ docs' = Append(docs, new) /\ doc_lengths' = Append(doc_lengths, len)
      BY <1>9 DEF UpsertInsert
    <2>2. docs \in Seq(Doc) /\ doc_lengths = LengthsFor(docs)
      BY <2>1 DEF CollectionTyped, LengthsFollow
    <2>3. Len(docs) \in Nat /\ DOMAIN docs = 1 .. Len(docs)
      BY <2>2
    <2> HIDE DEF new, len
    <2>4. docs' = [i \in 1 .. d |-> IF i = d THEN new ELSE docs[i]]
      BY <2>1, <2>2, AppendIsFunction
    <2>5. doc_lengths' = [i \in 1 .. d |-> IF i = d THEN len ELSE doc_lengths[i]]
      <3>1. /\ doc_lengths \in Seq({doc_lengths[i] : i \in DOMAIN doc_lengths})
            /\ Len(doc_lengths) = Len(docs)
        BY <2>2, <2>3 DEF LengthsFor
      <3> QED
        BY <2>1, <3>1, AppendIsFunction
    <2>6. doc_lengths' = LengthsFor(docs')
      BY <2>2, <2>3, <2>4, <2>5 DEF LengthsFor, len
    <2> QED
      BY <1>1, <1>2, <2>1, <2>6 DEF Saving
  <1>10. CASE OpenDict \/ SaveCollection \/ WriteDocs \/ WriteDict \/ WriteLengths
    <2>1. /\ pc # "build" /\ pc' \in Saving /\ docs' = docs /\ doc_lengths' = doc_lengths
          /\ pc' = "close" => WriteLengths
      BY <1>10 DEF OpenDict, SaveCollection, WriteDocs, WriteDict, WriteLengths, SaveStep, Saving
    <2>2. WriteLengths => disk'.lens = Buffered(doc_lengths)
      BY OneFile DEF WriteLengths, SaveStep
    <2> QED
      BY <2>1, <2>2 DEF LengthsFollow, Saving
  <1>11. CASE CloseFiles
    <2>1. pc = "close" /\ pc' = "idle" /\ docs' = docs /\ doc_lengths' = doc_lengths
          /\ disk' = Closed(disk) /\ docs \in Seq(Doc)
      BY <1>11 DEF CloseFiles, Answer, CollectionTyped
    <2>2. /\ disk.docs = Buffered(StoredDocs) /\ disk.dict = Buffered(freq_dictionary)
          /\ disk.lens = Buffered(doc_lengths) /\ doc_lengths = LengthsFor(docs)
      BY <2>1 DEF StreamsFollow, LengthsFollow
    <2>3. /\ disk'.docs = Written(StoredDocs) /\ disk'.dict = Written(freq_dictionary)
          /\ disk'.lens = Written(doc_lengths)
      BY <2>1, <2>2 DEF Closed, Flushed, Files, Buffered, Written
    <2>4. FilesFit(disk')
      BY <2>1, <2>2, <2>3, FileStates, LengthsOfStored
    <2> QED
      BY <1>2, <2>1, <2>2, <2>4 DEF Saving
  <1>12. ~DiskFault
    BY DEF DiskFault, OpenDictFails, SaveCollectionFails, WriteDocsFails, WriteDictFails,
           WriteLengthsFails, CloseFails, CreateFails, EndCreateShort, Fault, FaultCounted
  <1>13. CASE Crash
    <2>1. pc \notin Saving /\ pc' = "down" /\ docs' = << >> /\ doc_lengths' = << >>
          /\ disk' \in Residues(disk)
      BY <1>13 DEF Crash, Saving
    <2>2. /\ disk'.docs \in Residue(disk.docs) /\ disk'.dict \in Residue(disk.dict)
          /\ disk'.lens \in Residue(disk.lens)
      BY <2>1, ResidueDisk
    <2>3. FilesFit(disk')
      <3>1. CASE disk.docs = Absent /\ disk.dict = Absent
        BY <2>2, <3>1, FileStates DEF Residue
      <3>2. CASE /\ disk.docs.st = "written" /\ disk.dict.st = "written"
                 /\ disk.lens = Written(LengthsFor(disk.docs.val))
        BY <2>2, <3>2, FileStates DEF Residue
      <3> QED
        BY <1>1, <2>1, <3>1, <3>2
    <2> QED
      BY <1>2, <2>1, <2>3, LengthsForNone DEF Saving
  <1>14. CASE LoadIndex
    <2>1. /\ pc \notin Saving /\ pc' = "idle" /\ disk' = disk /\ docs' = disk.docs.val
          /\ disk.docs.st = "written"
          /\ disk.lens.st = "written" /\ Len(disk.lens.val) = Len(disk.docs.val)
                => doc_lengths' = disk.lens.val
      BY <1>14 DEF LoadIndex, Stopped, Saving
    <2>2. disk.lens = Written(LengthsFor(disk.docs.val)) /\ disk.docs.val \in Seq(Doc)
      BY <1>1, <2>1, FileStates DEF CollectionTyped
    <2>3. Len(LengthsFor(disk.docs.val)) = Len(disk.docs.val)
      BY <2>2 DEF LengthsFor
    <2>4. doc_lengths' = LengthsFor(docs')
      BY <2>1, <2>2, <2>3, FileStates
    <2> QED
      BY <1>1, <1>2, <2>1, <2>4 DEF Saving
  <1>15. CASE LoadEmpty \/ LoadFails \/ LoadMisreads
    <2>1. /\ pc \notin Saving \union {"build"} /\ pc' \notin Saving \union {"build"}
          /\ UNCHANGED <<disk, docs, doc_lengths>>
      BY <1>15 DEF LoadEmpty, LoadFails, LoadMisreads, Stopped, Saving
    <2> QED
      BY <1>1, <1>2, <2>1 DEF LengthsFollow
  <1>16. CASE BeginCreate \/ EndCreate
    <2>1. /\ pc \notin Saving \union {"build"} /\ pc' \notin Saving \union {"build"}
          /\ disk'.docs = disk.docs /\ disk'.dict = disk.dict /\ disk'.lens = disk.lens
      BY <1>16, OneFile DEF BeginCreate, MayCreate, EndCreate, PutEmptyIndex, Stopped, Saving
    <2>2. \/ docs' = docs /\ doc_lengths' = doc_lengths
          \/ docs' = << >> /\ doc_lengths' = << >>
      BY <1>16 DEF BeginCreate, EndCreate, PutEmptyIndex
    <2>3. FilesFit(disk')
      BY <1>1, <2>1
    <2> QED
      BY <1>2, <2>1, <2>2, <2>3, LengthsForNone DEF LengthsFollow
  <1> QED
    BY <1>3, <1>4, <1>5, <1>6, <1>7, <1>8, <1>9, <1>10, <1>11, <1>12, <1>13, <1>14, <1>15, <1>16
    DEF Next, Request, Work, Save, Load

\* The length of every document is the number of its terms, through loads,
\* upserts, re-creations and any number of kills between saves.  (Without the
\* assumption it is not so: run with a failing disk or a save cut off, a
\* doc_lengths.dat of an earlier save with as many documents is read.)
THEOREM LengthsCorrect ==
    ASSUME Disturbances \subseteq {"crash", "recreate"}
    PROVE  Spec => []LengthsAgree
<1>1. Init => LengthsFollow
  BY LengthsForNone DEF Init, LengthsFollow, Files, Saving
<1>2. LengthsFollow => LengthsAgree
  BY DEF LengthsFollow, LengthsAgree, LengthsFor, DocLength
<1>3. IndexInvariant => StreamsFollow
  BY DEF IndexInvariant, RestMatches
<1> QED
  BY <1>1, <1>2, <1>3, LengthsStep, TypeCorrect, KeyMapCorrect, UpsertHasKey,
     IndexInvariantHolds, StoppedEmptyHolds, PTL DEF Spec

-----------------------------------------------------------------------------
(***************************************************************************)
(* Restarts, when the disk does not fail, no save is cut off and the       *)
(* collection is not made again.  The files are then between two saves     *)
(* those of the last answer, and in a save what it has written so far.     *)
(***************************************************************************)
FilesFollow ==
    /\ SchemeReadable
    /\ pc \notin Saving =>
          \/ acked = << >> /\ disk.docs = Absent /\ disk.dict = Absent
          \/ disk.docs = Written(acked) /\ disk.dict.st = "written"
    /\ pc \in {"dict", "lens", "close"} => disk.docs = Buffered(StoredDocs)
    /\ pc \in {"lens", "close"} => disk.dict.st = "buffered"
    /\ pc \in Stopped => docs = << >>
    /\ pc # "create"

LEMMA FilesFollowStep ==
    ASSUME Disturbances \subseteq {"crash"}
    PROVE  CollectionTyped /\ FilesFollow /\ [Next]_vars => FilesFollow'
  <1> SUFFICES ASSUME CollectionTyped, FilesFollow, [Next]_vars PROVE FilesFollow'
    OBVIOUS
  <1> USE DEF FilesFollow, StoredDocs, SchemeReadable, Saving, Stopped, request, memory
  <1>1. CASE UNCHANGED vars
    BY <1>1 DEF vars
  <1>2. ASSUME pc \notin Saving, pc' \notin Saving \union Stopped \union {"create"},
               UNCHANGED <<disk, acked>>
        PROVE  FilesFollow'
    BY <1>2
  <1>3. CASE Work
    <2>1. CASE (\E d \in todo : IndexDocument(d)) \/ InstallIndex \/ UpsertReplace \/ UpsertInsert
               \/ EndUpsert
      BY <1>2, <2>1 DEF IndexDocument, InstallIndex, UpsertReplace, UpsertInsert, EndUpsert
    <2>2. CASE OpenDict \/ SaveCollection \/ WriteDocs \/ WriteDict \/ WriteLengths
      <3> USE DEF OpenDict, SaveCollection, WriteDocs, WriteDict, WriteLengths, SaveStep,
                      WithFile, Files, CollectionTyped
      <3>1. CASE OpenDict
        BY <3>1 DEF Torn
      <3>2. CASE SaveCollection
        BY <3>2 DEF Written
      <3>3. CASE WriteDocs
        BY <3>3 DEF Buffered
      <3>4. CASE WriteDict
        BY <3>4 DEF Buffered
      <3>5. CASE WriteLengths
        BY <3>5
      <3> QED
        BY <2>2, <3>1, <3>2, <3>3, <3>4, <3>5
    <2>3. CASE CloseFiles
      BY <2>3 DEF CloseFiles, Answer, Closed, Flushed, Files, Written, Buffered
    <2>4. ~EndCreate
      BY DEF EndCreate
    <2> QED
      BY <1>3, <2>1, <2>2, <2>3, <2>4 DEF Work, Save
  <1>4. CASE Request
    <2>1. ~BeginCreate
      BY DEF BeginCreate, MayCreate
    <2> QED
      BY <1>2, <1>4, <2>1 DEF Request, ClearBase, ReplaceDocs, BeginUpsert
  <1>5. ~DiskFault
    BY DEF DiskFault, OpenDictFails, SaveCollectionFails, WriteDocsFails, WriteDictFails,
           WriteLengthsFails, CloseFails, CreateFails, EndCreateShort, Fault, FaultCounted
  <1>6. CASE Crash
    <2>1. pc \notin Saving /\ pc' = "down" /\ docs' = << >> /\ acked' = acked
      BY <1>6 DEF Crash
    <2>2. disk'.docs = disk.docs /\ disk'.dict = disk.dict /\ disk'.scheme = disk.scheme
      BY <1>6, <2>1 DEF Crash, Residues, Residue, Files, Absent, Written, Saving
    <2> QED
      BY <2>1, <2>2
  <1>7. CASE Load
    BY <1>7 DEF Load, LoadEmpty, LoadIndex, LoadFails, LoadMisreads, NothingSaved, Absent,
                Written, Torn, Cut
  <1> QED
    BY <1>1, <1>3, <1>4, <1>5, <1>6, <1>7 DEF Next

\* A restart serves exactly the documents of the last answered request, as
\* docs.dat keeps them, when the process is killed any number of times but
\* not during a save, the disk does not fail and the collection is not made
\* again.  (The runs show that none of these conditions can be dropped.)
THEOREM RestartServesAcked ==
    ASSUME Disturbances \subseteq {"crash"}
    PROVE  Spec => LoadServesAcked
<1>1. Init => FilesFollow
  BY DEF Init, FilesFollow, SchemeReadable, Files, Written, Saving, Stopped
<1>2. FilesFollow /\ [Next]_vars => [(Load /\ pc' = "idle") => docs' = acked]_vars
  BY DEF FilesFollow, Load, LoadEmpty, LoadIndex, LoadFails, LoadMisreads, NothingSaved,
         memory, Absent, Written, Saving, Stopped
<1> QED
  BY <1>1, <1>2, FilesFollowStep, TypeCorrect, PTL DEF Spec, LoadServesAcked

-----------------------------------------------------------------------------
(***************************************************************************)
(* The threads of a bulk load.  The invariant follows the shares from      *)
(* group to group: those of the indexing and of the sorting threads are    *)
(* disjoint; merge workers all go through the same dictionaries, but each  *)
(* takes the terms of its own residue.                                     *)
(***************************************************************************)
SharesApart == \A t, u \in DOMAIN left : t # u => left[t] \intersect left[u] = {}

Indexing ==
    phase = "index" =>
        /\ SharesApart
        /\ \A t \in DOMAIN left : left[t] \subseteq DOMAIN docs
        /\ DOMAIN per_thread_dicts = Workers

Merging ==
    phase = "merge" =>
        /\ \A t \in DOMAIN left : left[t] \subseteq 1 .. num_workers
        /\ DOMAIN per_thread_dicts = Workers

KeysDistinct ==
    \A i, j \in DOMAIN dict_keys : i # j => dict_keys[i] # dict_keys[j]

Sorting ==
    phase = "sort" =>
        /\ SharesApart
        /\ \A t \in DOMAIN left : left[t] \subseteq DOMAIN dict_keys
        /\ KeysDistinct

TermsOnly ==
    /\ \A t \in DOMAIN per_thread_dicts : DOMAIN per_thread_dicts[t] \subseteq Term
    /\ \A t \in DOMAIN partial_dicts : DOMAIN partial_dicts[t] \subseteq Term

Building ==
    /\ phase \in {"none", "index", "merge", "sort"}
    /\ phase = "none" => left = << >>
    /\ phase # "none" => pc = "build" /\ docs \in Seq(Doc)

ThreadsInv == Building /\ Indexing /\ Merging /\ Sorting /\ TermsOnly

-----------------------------------------------------------------------------
\* The stride hands no element out twice, and none beyond the end.
LEMMA SharesDisjoint ==
    ASSUME NEW n
    PROVE  /\ \A t \in DOMAIN Shares(n) : Shares(n)[t] \subseteq 1 .. n
           /\ \A t, u \in DOMAIN Shares(n) :
                 t # u => Shares(n)[t] \intersect Shares(n)[u] = {}
  BY DEF Shares, Share

\* A thread that takes an element leaves the shares of all threads apart.
LEMMA TakesShrinks ==
    ASSUME NEW t, NEW i, Takes(t, i)
    PROVE  /\ DOMAIN left' = DOMAIN left
           /\ \A u \in DOMAIN left : left'[u] \subseteq left[u]
           /\ SharesApart => SharesApart'
           /\ t \in DOMAIN left /\ i \in left[t]
<1>1. /\ t \in DOMAIN left /\ i \in left[t]
      /\ left' = [left EXCEPT ![t] = @ \ {i}]
  BY DEF Takes, NextOf
<1>2. DOMAIN left' = DOMAIN left /\ \A u \in DOMAIN left : left'[u] \subseteq left[u]
  BY <1>1
<1>3. SharesApart => SharesApart'
  BY <1>2 DEF SharesApart
<1> QED
  BY <1>1, <1>2, <1>3

\* The keys of a finite dictionary, listed, are as many as it has.
LEMMA KeysListed ==
    ASSUME NEW S, IsFiniteSet(S), NEW keys \in SetToSeqs(S)
    PROVE  /\ DOMAIN keys = 1 .. Len(keys)
           /\ \A i, j \in DOMAIN keys : i # j => keys[i] # keys[j]
<1>1. Cardinality(S) \in Nat
  BY FS_CardinalityType
<1>2. /\ keys \in [1 .. Cardinality(S) -> S]
      /\ \A i, j \in 1 .. Cardinality(S) : i # j => keys[i] # keys[j]
  BY DEF SetToSeqs
<1>3. Len(keys) = Cardinality(S) /\ DOMAIN keys = 1 .. Cardinality(S)
  BY <1>1, <1>2
<1> QED
  BY <1>2, <1>3

LEMMA PushedTerms ==
    ASSUME NEW dict, NEW d, NEW bag, DOMAIN dict \subseteq Term, DOMAIN bag \subseteq Term
    PROVE  DOMAIN PushPostings(dict, d, bag) \subseteq Term
  BY DEF PushPostings

\* Only the bulk load itself is enabled while its threads run.
LEMMA ElsewhereNotBuilding ==
    ASSUME Elsewhere PROVE pc # "build"
  BY DEF Elsewhere, ClearBase, BeginUpsert, UpsertReplace, UpsertInsert, EndUpsert,
         Save, OpenDict, SaveCollection, WriteDocs, WriteDict, WriteLengths, SaveStep,
         CloseFiles, Load, LoadEmpty, LoadIndex, LoadFails, LoadMisreads, Stopped

-----------------------------------------------------------------------------
LEMMA InitThreads == ParallelInit => ThreadsInv
  BY DEF ParallelInit, NoThreads, ThreadsInv, Building, Indexing, Merging, Sorting, TermsOnly

LEMMA StartWorkersKeeps ==
    ASSUME ThreadsInv, NEW b \in Batches, StartWorkers(b)
    PROVE  ThreadsInv'
<1>1. /\ phase = "none" \/ phase # "none"
      /\ pc = "idle" /\ pc' = "build" /\ docs' = b /\ b \in Seq(Doc)
      /\ phase' = "index" /\ left' = Shares(Len(b))
      /\ per_thread_dicts' = [t \in Threads(Len(b)) |-> << >>]
      /\ partial_dicts' = partial_dicts
  BY BoundsAssumption DEF StartWorkers, ReplaceDocs
<1>2. DOMAIN docs' = 1 .. Len(b)
  BY <1>1
<1>3. Building' /\ Merging' /\ Sorting'
  BY <1>1 DEF Building, Merging, Sorting
<1>4. Indexing'
  BY <1>1, <1>2, SharesDisjoint DEF Indexing, SharesApart, Workers
<1>5. TermsOnly'
  BY <1>1 DEF ThreadsInv, TermsOnly
<1> QED
  BY <1>3, <1>4, <1>5 DEF ThreadsInv

LEMMA IndexOneKeeps ==
    ASSUME ThreadsInv, NEW t, NEW d, IndexOne(t, d)
    PROVE  ThreadsInv'
<1>1. /\ phase = "index" /\ phase' = "index" /\ Takes(t, d)
      /\ pc' = pc /\ docs' = docs /\ partial_dicts' = partial_dicts
      /\ per_thread_dicts' =
             [per_thread_dicts EXCEPT ![t] = PushPostings(@, d, WordCount[docs[d]])]
  BY DEF IndexOne
<1>2. /\ DOMAIN left' = DOMAIN left
      /\ \A u \in DOMAIN left : left'[u] \subseteq left[u]
      /\ SharesApart => SharesApart'
      /\ t \in DOMAIN left /\ d \in left[t]
  BY <1>1, TakesShrinks
<1>3. Building' /\ Merging' /\ Sorting'
  BY <1>1 DEF ThreadsInv, Building, Merging, Sorting
<1>4. Indexing'
  BY <1>1, <1>2 DEF ThreadsInv, Indexing, Workers
<1>5. TermsOnly'
  <2>1. d \in DOMAIN docs /\ docs \in Seq(Doc)
    BY <1>1, <1>2 DEF ThreadsInv, Indexing, Building
  <2>2. docs[d] \in Doc
    BY <2>1
  <2>3. DOMAIN WordCount[docs[d]] \subseteq Term
    BY <2>2, DocAssumption DEF IsBag
  <2>4. ASSUME NEW u \in DOMAIN per_thread_dicts'
        PROVE  DOMAIN per_thread_dicts'[u] \subseteq Term
    <3>1. u \in DOMAIN per_thread_dicts /\ DOMAIN per_thread_dicts[u] \subseteq Term
      BY <1>1 DEF ThreadsInv, TermsOnly
    <3>2. CASE u = t
      <4>1. per_thread_dicts'[u] = PushPostings(per_thread_dicts[u], d, WordCount[docs[d]])
        BY <1>1, <3>1, <3>2
      <4> QED
        BY <2>3, <3>1, <4>1, PushedTerms
    <3>3. CASE u # t
      BY <1>1, <3>1, <3>3
    <3> QED
      BY <3>2, <3>3
  <2> QED
    BY <1>1, <2>4 DEF ThreadsInv, TermsOnly
<1> QED
  BY <1>3, <1>4, <1>5 DEF ThreadsInv

LEMMA JoinWorkersKeeps ==
    ASSUME ThreadsInv, JoinWorkers
    PROVE  ThreadsInv'
<1>1. /\ phase = "index" /\ phase' = "merge"
      /\ left' = [t \in Workers |-> 1 .. num_workers]
      /\ partial_dicts' = [t \in Workers |-> << >>]
      /\ per_thread_dicts' = per_thread_dicts
      /\ pc' = pc /\ docs' = docs
  BY DEF JoinWorkers, vars, memory
<1>2. Building' /\ Indexing' /\ Sorting'
  BY <1>1 DEF ThreadsInv, Building, Indexing, Sorting
<1>3. Merging'
  BY <1>1 DEF ThreadsInv, Merging, Indexing, Workers, num_workers
<1>4. TermsOnly'
  BY <1>1 DEF ThreadsInv, TermsOnly
<1> QED
  BY <1>2, <1>3, <1>4 DEF ThreadsInv

LEMMA MergeDictKeeps ==
    ASSUME ThreadsInv, NEW t, NEW n, MergeDict(t, n)
    PROVE  ThreadsInv'
<1> DEFINE local == per_thread_dicts[n - 1]
           owned == OwnedTerms(local, t)
<1>1. /\ phase = "merge" /\ phase' = "merge" /\ Takes(t, n)
      /\ per_thread_dicts' = per_thread_dicts
      /\ pc' = pc /\ docs' = docs
      /\ partial_dicts' = [partial_dicts EXCEPT ![t] =
             [w \in DOMAIN partial_dicts[t] \union owned |->
                 GetWordCount(partial_dicts[t], w)
                     \o (IF w \in owned THEN local[w] ELSE << >>)]]
  BY DEF MergeDict, vars, memory
<1>2. /\ DOMAIN left' = DOMAIN left
      /\ \A u \in DOMAIN left : left'[u] \subseteq left[u]
      /\ t \in DOMAIN left /\ n \in left[t]
  BY <1>1, TakesShrinks
<1>3. Building' /\ Indexing' /\ Sorting'
  BY <1>1 DEF ThreadsInv, Building, Indexing, Sorting
<1>4. Merging'
  BY <1>1, <1>2 DEF ThreadsInv, Merging, Workers, num_workers
<1>5. DOMAIN local \subseteq Term
  <2>1. n \in 1 .. num_workers /\ DOMAIN per_thread_dicts = 0 .. num_workers - 1
    BY <1>1, <1>2 DEF ThreadsInv, Merging, Workers, Threads, num_workers
  <2>2. num_workers \in Int
    <3>1. docs \in Seq(Doc)
      BY <1>1 DEF ThreadsInv, Building
    <3> QED
      BY <3>1, ThreadAssumption DEF num_workers, WorkersFor
  <2>3. n - 1 \in DOMAIN per_thread_dicts
    BY <2>1, <2>2
  <2> QED
    BY <2>3 DEF ThreadsInv, TermsOnly
<1>6. owned \subseteq Term
  BY <1>5 DEF OwnedTerms
<1>7. TermsOnly'
  BY <1>1, <1>6 DEF ThreadsInv, TermsOnly
<1> QED
  BY <1>3, <1>4, <1>7 DEF ThreadsInv

LEMMA GatherKeeps ==
    ASSUME ThreadsInv, Gather
    PROVE  ThreadsInv'
<1>1. /\ phase = "merge" /\ phase' = "sort"
      /\ new_dict' = Gathered(partial_dicts)
      /\ dict_keys' \in SetToSeqs(DOMAIN new_dict')
      /\ left' = Shares(Len(dict_keys'))
      /\ pc' = pc /\ docs' = docs
      /\ per_thread_dicts' = per_thread_dicts /\ partial_dicts' = partial_dicts
  BY DEF Gather, memory
<1>2. IsFiniteSet(DOMAIN new_dict')
  <2>1. DOMAIN new_dict' \subseteq Term
    BY <1>1 DEF Gathered, ThreadsInv, TermsOnly
  <2> QED
    BY <2>1, ThreadAssumption, FS_Subset
<1>3. /\ DOMAIN dict_keys' = 1 .. Len(dict_keys')
      /\ KeysDistinct'
  BY <1>1, <1>2, KeysListed DEF KeysDistinct
<1>4. Building' /\ Indexing' /\ Merging'
  BY <1>1 DEF ThreadsInv, Building, Indexing, Merging
<1>5. Sorting'
  BY <1>1, <1>3, SharesDisjoint DEF Sorting, SharesApart
<1>6. TermsOnly'
  BY <1>1 DEF ThreadsInv, TermsOnly
<1> QED
  BY <1>4, <1>5, <1>6 DEF ThreadsInv

LEMMA SortOneKeeps ==
    ASSUME ThreadsInv, NEW t, NEW i, SortOne(t, i)
    PROVE  ThreadsInv'
<1>1. /\ phase = "sort" /\ phase' = "sort" /\ Takes(t, i)
      /\ dict_keys' = dict_keys /\ per_thread_dicts' = per_thread_dicts
      /\ partial_dicts' = partial_dicts /\ pc' = pc /\ docs' = docs
  BY DEF SortOne, memory
<1>2. /\ DOMAIN left' = DOMAIN left
      /\ \A u \in DOMAIN left : left'[u] \subseteq left[u]
      /\ SharesApart => SharesApart'
  BY <1>1, TakesShrinks
<1>3. Building' /\ Indexing' /\ Merging' /\ TermsOnly'
  BY <1>1 DEF ThreadsInv, Building, Indexing, Merging, TermsOnly
<1>4. Sorting'
  BY <1>1, <1>2 DEF ThreadsInv, Sorting, KeysDistinct
<1> QED
  BY <1>3, <1>4 DEF ThreadsInv

\* Installed, or killed: no thread is left.
LEMMA EndKeeps ==
    ASSUME ThreadsEnd
    PROVE  ThreadsInv'
  BY DEF ThreadsEnd, ThreadsInv, Building, Indexing, Merging, Sorting, TermsOnly

LEMMA ElsewhereKeeps ==
    ASSUME ThreadsInv, Elsewhere, UNCHANGED threads
    PROVE  ThreadsInv'
<1>1. phase = "none"
  BY ElsewhereNotBuilding DEF ThreadsInv, Building
<1> QED
  BY <1>1 DEF threads, ThreadsInv, Building, Indexing, Merging, Sorting, TermsOnly

LEMMA StepKeepsThreads == ThreadsInv /\ [ParallelNext]_pvars => ThreadsInv'
<1> SUFFICES ASSUME ThreadsInv, [ParallelNext]_pvars PROVE ThreadsInv'
  OBVIOUS
<1>1. ASSUME NEW b \in Batches, StartWorkers(b) PROVE ThreadsInv'
  BY <1>1, StartWorkersKeeps
<1>2. CASE Build
  <2>1. ASSUME NEW t, NEW i, IndexOne(t, i) PROVE ThreadsInv'
    BY <2>1, IndexOneKeeps
  <2>2. ASSUME NEW t, NEW i, MergeDict(t, i) PROVE ThreadsInv'
    BY <2>2, MergeDictKeeps
  <2>3. ASSUME NEW t, NEW i, SortOne(t, i) PROVE ThreadsInv'
    BY <2>3, SortOneKeeps
  <2>4. CASE JoinWorkers
    BY <2>4, JoinWorkersKeeps
  <2>5. CASE Gather
    BY <2>5, GatherKeeps
  <2>6. CASE InstallSorted
    BY <2>6, EndKeeps DEF InstallSorted
  <2> QED
    BY <1>2, <2>1, <2>2, <2>3, <2>4, <2>5, <2>6 DEF Build
<1>3. CASE Elsewhere /\ UNCHANGED threads
  BY <1>3, ElsewhereKeeps
<1>4. CASE Crash /\ ThreadsEnd
  BY <1>4, EndKeeps
<1>5. CASE UNCHANGED pvars
  BY <1>5 DEF pvars, vars, memory, threads, ThreadsInv, Building, Indexing, Merging, Sorting,
              TermsOnly, SharesApart, KeysDistinct, Workers, num_workers
<1> QED
  BY <1>1, <1>2, <1>3, <1>4, <1>5 DEF ParallelNext

-----------------------------------------------------------------------------
\* Two threads of one group have nothing in common to read or write.
LEMMA InvKeepsApart == ThreadsInv => ThreadsApart
<1> SUFFICES ASSUME ThreadsInv, NEW t \in DOMAIN left, NEW u \in DOMAIN left, t # u,
                    NEW x \in Touched(t), x \in Touched(u)
             PROVE  FALSE
  BY DEF ThreadsApart
<1>1. NextOf(t) \subseteq left[t] /\ NextOf(u) \subseteq left[u]
  BY DEF NextOf
<1>2. CASE phase = "index"
  <2>1. NextOf(t) \intersect NextOf(u) = {}
    BY <1>1, <1>2 DEF ThreadsInv, Indexing, SharesApart
  <2> QED
    BY <1>2, <2>1 DEF Touched
<1>3. CASE phase = "merge"
  <2>1. \A p, q : OwnedTerms(p, t) \intersect OwnedTerms(q, u) = {}
    BY DEF OwnedTerms
  <2> QED
    BY <1>3, <2>1 DEF Touched
<1>4. CASE phase = "sort"
  <2>1. /\ NextOf(t) \subseteq DOMAIN dict_keys /\ NextOf(u) \subseteq DOMAIN dict_keys
        /\ NextOf(t) \intersect NextOf(u) = {} /\ KeysDistinct
    BY <1>1, <1>4 DEF ThreadsInv, Sorting, SharesApart
  <2> QED
    BY <1>4, <2>1 DEF Touched, KeysDistinct
<1>5. phase # "none"
  BY DEF ThreadsInv, Building
<1> QED
  BY <1>2, <1>3, <1>4, <1>5 DEF ThreadsInv, Building

\* No two threads of a bulk load ever touch one element: the lambdas of
\* UpdateDocumentBase share vectors and maps and need no mutex.
THEOREM ThreadsNeverMeet == ParallelSpec => []ThreadsApart
<1>1. ParallelInit => ThreadsInv
  BY InitThreads
<1>2. ThreadsInv /\ [ParallelNext]_pvars => ThreadsInv'
  BY StepKeepsThreads
<1>3. ThreadsInv => ThreadsApart
  BY InvKeepsApart
<1> QED
  BY <1>1, <1>2, <1>3, PTL DEF ParallelSpec

-----------------------------------------------------------------------------
(***************************************************************************)
(* What the threads make.  A worker's dictionary is the inverse of the     *)
(* documents of its share it has indexed; a merge worker's is that of its  *)
(* terms in the dictionaries it has gone through; the one gathered is that *)
(* of all documents, and a list no sorting thread has still to do is in    *)
(* order.                                                                  *)
(***************************************************************************)
BagsFor(D) == [i \in D |-> WordCount[docs[i]]]
TermsFor(t) == {w \in Term : Hash[w] % num_workers = t}
ShareOf(t) == Share(Len(docs), t)
MergedDocs(t) == UNION {ShareOf(n - 1) : n \in (1 .. num_workers) \ left[t]}

Makes(dict, bags) == Inverts(dict, bags) /\ AllDistinct(dict)

SharesIndexed ==
    phase = "index" =>
        /\ todo = UNION {left[t] : t \in DOMAIN left}
        /\ DOMAIN left = Workers
        /\ \A t \in Workers : /\ left[t] \subseteq ShareOf(t)
                              /\ Makes(per_thread_dicts[t], BagsFor(ShareOf(t) \ left[t]))

SharesMerged ==
    phase = "merge" =>
        /\ todo = {} /\ DOMAIN left = Workers /\ DOMAIN partial_dicts = Workers
        /\ \A t \in Workers : /\ Makes(per_thread_dicts[t], BagsFor(ShareOf(t)))
                              /\ Makes(partial_dicts[t], Only(BagsFor(MergedDocs(t)), TermsFor(t)))

ListsSorted ==
    phase = "sort" =>
        /\ todo = {}
        /\ new_dict = [w \in DOMAIN new_dict |-> new_dict[w]]
        /\ Makes(new_dict, BagsFor(DOMAIN docs))
        /\ {dict_keys[i] : i \in DOMAIN dict_keys} = DOMAIN new_dict
        /\ \A i \in DOMAIN dict_keys :
              (\A t \in DOMAIN left : i \notin left[t]) => Ascending(new_dict[dict_keys[i]])

SomeDocs == phase # "none" => docs # << >>

CollectionInv ==
    CollectionTyped /\ KeyMapAgrees /\ (pc = "upsert" => HasIntField) /\ RestMatches

LoadInvariant == CollectionInv /\ ThreadsInv /\ SomeDocs /\ SharesIndexed /\ SharesMerged /\ ListsSorted

\* Every element is in the share of one thread and of no other.
LEMMA SharesCover ==
    ASSUME NEW n \in Nat, NEW i \in 1 .. n
    PROVE  /\ WorkersFor(n) \in Nat \ {0}
           /\ (i - 1) % WorkersFor(n) \in Threads(n)
           /\ \A t \in Threads(n) : i \in Share(n, t) <=> t = (i - 1) % WorkersFor(n)
<1>1. WorkersFor(n) \in Nat \ {0}
  BY ThreadAssumption DEF WorkersFor
<1>2. i - 1 \in Int
  OBVIOUS
<1>3. \A w \in Nat \ {0}, k \in Int : k % w \in 0 .. w - 1
  OBVIOUS
<1>4. (i - 1) % WorkersFor(n) \in Threads(n)
  BY <1>1, <1>2, <1>3 DEF Threads
<1> QED
  BY <1>1, <1>4 DEF Share

\* The bags of a set of documents of the batch.
LEMMA BagsForAre ==
    ASSUME docs \in Seq(Doc), NEW D \in SUBSET DOMAIN docs
    PROVE  AreBags(BagsFor(D)) /\ DOMAIN BagsFor(D) = D /\ \A i \in D : IsBagOf(BagsFor(D)[i])
<1>1. \A i \in D : docs[i] \in Doc /\ i \in Nat \ {0}
  OBVIOUS
<1>2. \A d \in Doc : IsBagOf(WordCount[d])
  BY DocAssumption DEF IsBag, IsBagOf
<1> QED
  BY <1>1, <1>2 DEF AreBags, BagsFor

\* While threads are at work the rest of the collection waits.
LEMMA StillBuilding ==
    ASSUME CollectionInv, pc = "build", pc' = pc, docs' = docs, todo' \subseteq todo,
           UNCHANGED <<batch, primary_id_to_doc, disk, acked, crashes, faults>>
    PROVE  CollectionInv'
<1>1. CollectionTyped'
  BY DEF CollectionInv, CollectionTyped, Busy, Saving
<1>2. KeyMapAgrees' /\ (pc = "upsert" => HasIntField)'
  BY DEF KeyMapAgrees
<1>3. RestMatches'
  BY DEF CollectionInv, RestMatches, MemoryMatches, StreamsFollow
<1> QED
  BY <1>1, <1>2, <1>3 DEF CollectionInv

LEMMA NoLoad ==
    ASSUME phase' = "none"
    PROVE  SomeDocs' /\ SharesIndexed' /\ SharesMerged' /\ ListsSorted'
  BY DEF SomeDocs, SharesIndexed, SharesMerged, ListsSorted

\* The steps a bulk load shares with module InvertedIndex, or leaves to it.
LEMMA NextKeepsCollection ==
    ASSUME CollectionInv, Next, ~InstallIndex
    PROVE  CollectionInv'
<1>1. CollectionTyped' /\ KeyMapAgrees'
  BY TypedStep, KeyMapStep DEF CollectionInv
<1>2. (pc = "upsert" => HasIntField)'
  BY UpsertHasKeyStep DEF CollectionInv
<1>3. MemoryMatches'
  BY MemoryStep DEF CollectionInv
<1>4. StreamsFollow' /\ FilesMatch(disk)'
  BY FilesStep DEF CollectionInv
<1> QED
  BY <1>1, <1>2, <1>3, <1>4 DEF CollectionInv, RestMatches

LEMMA StartWorkersLoads ==
    ASSUME LoadInvariant, NEW b \in Batches, StartWorkers(b)
    PROVE  CollectionInv' /\ SomeDocs' /\ SharesIndexed' /\ SharesMerged' /\ ListsSorted'
<1>1. /\ ReplaceDocs(b) /\ pc' = "build" /\ b \in Seq(Doc) /\ b # << >>
      /\ docs' = b /\ todo' = 1 .. Len(b) /\ phase' = "index"
      /\ left' = Shares(Len(b))
      /\ per_thread_dicts' = [t \in Threads(Len(b)) |-> << >>]
  BY BoundsAssumption DEF StartWorkers, ReplaceDocs
<1>2. CollectionInv'
  <2>1. Next /\ ~InstallIndex
    BY <1>1 DEF Next, Request, InstallIndex, ReplaceDocs
  <2> QED
    BY <2>1, NextKeepsCollection DEF LoadInvariant
<1>3. DOMAIN left' = Workers' /\ \A t \in Workers' : left'[t] = ShareOf(t)'
  BY <1>1 DEF Shares, Workers, ShareOf
<1>4. Len(b) \in Nat
  BY <1>1
<1>5. todo' = UNION {left'[t] : t \in DOMAIN left'}
  <2>1. \A t \in DOMAIN left' : left'[t] \subseteq 1 .. Len(b)
    BY <1>1 DEF Shares, Share
  <2>2. \A i \in 1 .. Len(b) : \E t \in DOMAIN left' : i \in left'[t]
    BY <1>1, <1>4, SharesCover DEF Shares
  <2> QED
    BY <1>1, <2>1, <2>2
<1>6. ASSUME NEW t \in Workers'
      PROVE  Makes(per_thread_dicts'[t], BagsFor(ShareOf(t) \ left[t])')
  <2>1. per_thread_dicts'[t] = << >>
    BY <1>1 DEF Workers
  <2>2. DOMAIN BagsFor(ShareOf(t) \ left[t])' = {}
    BY <1>3 DEF BagsFor
  <2> QED
    BY <2>1, <2>2, EmptyInverts DEF Makes
<1>7. SharesIndexed'
  BY <1>1, <1>3, <1>5, <1>6 DEF SharesIndexed
<1> QED
  BY <1>1, <1>2, <1>7 DEF SomeDocs, SharesMerged, ListsSorted

LEMMA IndexOneLoads ==
    ASSUME LoadInvariant, NEW t, NEW d, IndexOne(t, d)
    PROVE  CollectionInv' /\ SomeDocs' /\ SharesIndexed' /\ SharesMerged' /\ ListsSorted'
<1> DEFINE bag == WordCount[docs[d]]
<1>1. /\ phase = "index" /\ phase' = "index" /\ Takes(t, d)
      /\ pc' = pc /\ docs' = docs /\ todo' = todo \ {d}
      /\ UNCHANGED <<batch, primary_id_to_doc, disk, acked, crashes, faults>>
      /\ per_thread_dicts' = [per_thread_dicts EXCEPT ![t] = PushPostings(@, d, bag)]
  BY DEF IndexOne, counters
<1>2. /\ pc = "build" /\ docs \in Seq(Doc) /\ SharesApart
      /\ \A u \in DOMAIN left : left[u] \subseteq DOMAIN docs
      /\ DOMAIN per_thread_dicts = Workers
  BY <1>1 DEF LoadInvariant, ThreadsInv, Building, Indexing
<1>3. /\ t \in DOMAIN left /\ d \in left[t] /\ left' = [left EXCEPT ![t] = @ \ {d}]
  BY <1>1 DEF Takes, NextOf
<1>4. CollectionInv'
  BY <1>1, <1>2, StillBuilding DEF LoadInvariant
<1>5. /\ todo = UNION {left[u] : u \in DOMAIN left} /\ DOMAIN left = Workers
      /\ \A u \in Workers : /\ left[u] \subseteq ShareOf(u)
                            /\ Makes(per_thread_dicts[u], BagsFor(ShareOf(u) \ left[u]))
  BY <1>1 DEF LoadInvariant, SharesIndexed
<1>6. /\ DOMAIN left' = Workers /\ Workers' = Workers
      /\ left'[t] = left[t] \ {d} /\ \A u \in Workers : u # t => left'[u] = left[u]
  BY <1>1, <1>3, <1>5 DEF Workers
<1>7. todo' = UNION {left'[u] : u \in DOMAIN left'}
  <2>1. \A u \in Workers : u # t => d \notin left[u]
    BY <1>2, <1>3, <1>5 DEF SharesApart
  <2> QED
    BY <1>1, <1>3, <1>5, <1>6, <2>1
<1>8. ASSUME NEW u \in Workers
      PROVE  left'[u] \subseteq ShareOf(u) /\ Makes(per_thread_dicts'[u], BagsFor(ShareOf(u) \ left'[u]))
  <2>1. CASE u # t
    BY <1>1, <1>2, <1>5, <1>6, <2>1
  <2>2. CASE u = t
    <3> DEFINE D == ShareOf(t) \ left[t]
               more == PushPostings(per_thread_dicts[t], d, bag)
    <3>1. per_thread_dicts'[u] = more
      BY <1>1, <1>2, <2>2
    <3>2. D \subseteq DOMAIN docs
      BY <1>2 DEF ShareOf, Share
    <3>3. AreBags(BagsFor(D)) /\ DOMAIN BagsFor(D) = D
      BY <1>2, <3>2, BagsForAre
    <3>4. d \in Nat \ {0} /\ d \notin D /\ d \in ShareOf(t)
      <4>1. d \in DOMAIN docs
        BY <1>2, <1>3
      <4>2. DOMAIN docs \subseteq Nat \ {0}
        BY <1>2
      <4>3. left[t] \subseteq ShareOf(t)
        BY <1>5, <2>2
      <4> QED
        BY <1>3, <4>1, <4>2, <4>3
    <3>5. IsBagOf(bag)
      <4>1. docs[d] \in Doc
        BY <1>2, <1>3
      <4> QED
        BY <4>1, DocAssumption DEF IsBag, IsBagOf
    <3>6. Makes(per_thread_dicts[t], BagsFor(D))
      BY <1>5, <2>2
    <3> HIDE DEF bag
    <3>7. Makes(more, With(BagsFor(D), d, bag))
      BY <3>3, <3>4, <3>5, <3>6, PushPostingsInverts DEF Makes
    <3>8. ShareOf(u) \ left'[u] = D \union {d}
      BY <1>5, <1>6, <2>2, <3>4
    <3>9. BagsFor(D \union {d}) = With(BagsFor(D), d, bag)
      BY <3>4 DEF BagsFor, With, bag
    <3> QED
      BY <1>5, <1>6, <2>2, <3>1, <3>7, <3>8, <3>9
  <2> QED
    BY <2>1, <2>2
<1>9. SharesIndexed'
  BY <1>1, <1>6, <1>7, <1>8 DEF SharesIndexed, ShareOf, BagsFor
<1> QED
  BY <1>1, <1>4, <1>9 DEF LoadInvariant, SomeDocs, SharesMerged, ListsSorted

LEMMA JoinWorkersLoads ==
    ASSUME LoadInvariant, JoinWorkers
    PROVE  CollectionInv' /\ SomeDocs' /\ SharesIndexed' /\ SharesMerged' /\ ListsSorted'
<1>1. /\ phase = "index" /\ phase' = "merge" /\ AllDone /\ UNCHANGED vars
      /\ left' = [t \in Workers |-> 1 .. num_workers]
      /\ partial_dicts' = [t \in Workers |-> << >>]
      /\ per_thread_dicts' = per_thread_dicts
  BY DEF JoinWorkers
<1>2. pc = "build"
  BY <1>1 DEF LoadInvariant, ThreadsInv, Building
<1>3. CollectionInv'
  BY <1>1, <1>2, StillBuilding DEF LoadInvariant, vars, request, memory, counters
<1>4. docs' = docs /\ todo' = todo
  BY <1>1 DEF vars, memory, request
<1>5. /\ todo = {} /\ \A t \in Workers : left[t] = {} /\ Makes(per_thread_dicts[t], BagsFor(ShareOf(t)))
  BY <1>1 DEF LoadInvariant, SharesIndexed, AllDone
<1>6. Workers' = Workers /\ num_workers' = num_workers
  BY <1>4 DEF Workers, num_workers
<1>7. ASSUME NEW t \in Workers
      PROVE  Makes(partial_dicts'[t], Only(BagsFor(MergedDocs(t)), TermsFor(t))')
  <2>1. partial_dicts'[t] = << >>
    BY <1>1
  <2>2. MergedDocs(t)' = {}
    BY <1>1, <1>6 DEF MergedDocs
  <2>3. DOMAIN Only(BagsFor(MergedDocs(t)), TermsFor(t))' = {}
    BY <2>2 DEF Only, BagsFor
  <2> QED
    BY <2>1, <2>3, EmptyInverts DEF Makes
<1>8. \A t \in Workers : Makes(per_thread_dicts'[t], BagsFor(ShareOf(t))')
  BY <1>1, <1>4, <1>5 DEF BagsFor, ShareOf
<1>9. SharesMerged'
  BY <1>1, <1>4, <1>5, <1>6, <1>7, <1>8 DEF SharesMerged
<1> QED
  BY <1>1, <1>3, <1>4, <1>9 DEF LoadInvariant, SomeDocs, SharesIndexed, ListsSorted

\* A bulk load has as many shares as workers, and they cover the documents.
LEMMA WorkerShares ==
    ASSUME docs \in Seq(Doc), docs # << >>
    PROVE  /\ num_workers \in Nat \ {0} /\ Workers = 0 .. num_workers - 1
           /\ \A t \in Workers : ShareOf(t) \subseteq DOMAIN docs
           /\ \A d \in DOMAIN docs : \E t \in Workers : d \in ShareOf(t)
           /\ \A t, u \in Workers : t # u => ShareOf(t) \intersect ShareOf(u) = {}
<1>1. Len(docs) \in Nat \ {0} /\ DOMAIN docs = 1 .. Len(docs)
  BY EmptySeq
<1>2. 1 \in 1 .. Len(docs)
  BY <1>1
<1>3. num_workers \in Nat \ {0}
  BY <1>1, <1>2, SharesCover DEF num_workers
<1>4. Workers = 0 .. num_workers - 1
  BY DEF Workers, num_workers, Threads
<1>5. \A d \in DOMAIN docs : \E t \in Workers : d \in ShareOf(t)
  BY <1>1, SharesCover DEF Workers, ShareOf
<1>6. /\ \A t \in Workers : ShareOf(t) \subseteq DOMAIN docs
      /\ \A t, u \in Workers : t # u => ShareOf(t) \intersect ShareOf(u) = {}
  BY <1>1 DEF ShareOf, Share
<1> QED
  BY <1>3, <1>4, <1>5, <1>6

LEMMA MergeDictLoads ==
    ASSUME LoadInvariant, NEW t, NEW n, MergeDict(t, n)
    PROVE  CollectionInv' /\ SomeDocs' /\ SharesIndexed' /\ SharesMerged' /\ ListsSorted'
<1> DEFINE local == per_thread_dicts[n - 1]
           out == partial_dicts[t]
           owned == OwnedTerms(local, t)
           more == [w \in DOMAIN out \union owned |->
                       GetWordCount(out, w) \o (IF w \in owned THEN local[w] ELSE << >>)]
<1>1. /\ phase = "merge" /\ phase' = "merge" /\ Takes(t, n) /\ UNCHANGED vars
      /\ per_thread_dicts' = per_thread_dicts
      /\ partial_dicts' = [partial_dicts EXCEPT ![t] = more]
  BY DEF MergeDict
<1>2. /\ pc = "build" /\ docs \in Seq(Doc) /\ docs # << >>
      /\ \A u \in DOMAIN left : left[u] \subseteq 1 .. num_workers
  BY <1>1 DEF LoadInvariant, ThreadsInv, Building, Merging, SomeDocs
<1>3. CollectionInv'
  BY <1>1, <1>2, StillBuilding DEF LoadInvariant, vars, request, memory, counters
<1>4. docs' = docs /\ todo' = todo /\ Workers' = Workers /\ num_workers' = num_workers
  BY <1>1 DEF vars, memory, request, Workers, num_workers
<1>5. /\ todo = {} /\ DOMAIN left = Workers /\ DOMAIN partial_dicts = Workers
      /\ \A u \in Workers : /\ Makes(per_thread_dicts[u], BagsFor(ShareOf(u)))
                            /\ Makes(partial_dicts[u], Only(BagsFor(MergedDocs(u)), TermsFor(u)))
  BY <1>1 DEF LoadInvariant, SharesMerged
<1>6. /\ t \in Workers /\ n \in left[t] /\ left' = [left EXCEPT ![t] = @ \ {n}]
  BY <1>1, <1>5 DEF Takes, NextOf
<1>7. /\ num_workers \in Nat \ {0} /\ Workers = 0 .. num_workers - 1
      /\ \A u, v \in Workers : u # v => ShareOf(u) \intersect ShareOf(v) = {}
  BY <1>2, WorkerShares
<1>8. n \in 1 .. num_workers /\ n - 1 \in Workers
  BY <1>2, <1>5, <1>6, <1>7
<1> DEFINE mine == TermsFor(t)
           before == BagsFor(MergedDocs(t))
           taken == BagsFor(ShareOf(n - 1))
<1>9. Makes(out, Only(before, mine)) /\ Makes(local, taken)
  BY <1>5, <1>6, <1>8
<1>10. owned = DOMAIN local \cap mine
  <2>1. DOMAIN local \subseteq Term
    BY <1>1, <1>8 DEF LoadInvariant, ThreadsInv, TermsOnly, Merging
  <2> QED
    BY <2>1 DEF OwnedTerms, TermsFor
<1>11. more = Joined(out, OnlyOf(local, mine))
  <2>1. DOMAIN OnlyOf(local, mine) = owned
    BY <1>10 DEF OnlyOf
  <2>2. ASSUME NEW w
        PROVE  GetWordCount(OnlyOf(local, mine), w) = IF w \in owned THEN local[w] ELSE << >>
    BY <1>10 DEF GetWordCount, OnlyOf
  <2> HIDE DEF owned, local, mine, out
  <2> QED
    BY <2>1, <2>2 DEF Joined
<1> HIDE DEF local, out, owned, more, mine, before, taken
<1>12. Makes(OnlyOf(local, mine), Only(taken, mine))
  BY <1>9, OnlyInverts DEF Makes
<1>13. DOMAIN Only(before, mine) \cap DOMAIN Only(taken, mine) = {}
  <2>1. DOMAIN Only(before, mine) = MergedDocs(t) /\ DOMAIN Only(taken, mine) = ShareOf(n - 1)
    BY DEF Only, before, taken, BagsFor
  <2>2. ASSUME NEW m \in (1 .. num_workers) \ left[t] PROVE ShareOf(m - 1) \intersect ShareOf(n - 1) = {}
    <3>1. m # n /\ m - 1 \in Workers /\ m - 1 # n - 1
      BY <1>6, <1>7, <1>8
    <3> QED
      BY <1>7, <1>8, <3>1
  <2> QED
    BY <2>1, <2>2 DEF MergedDocs
<1>14. Makes(more, Both(Only(before, mine), Only(taken, mine)))
  BY <1>9, <1>11, <1>12, <1>13, JoinedInverts DEF Makes
<1>15. MergedDocs(t)' = MergedDocs(t) \union ShareOf(n - 1)
  <2>1. (1 .. num_workers) \ left'[t] = ((1 .. num_workers) \ left[t]) \union {n}
    BY <1>5, <1>6, <1>8
  <2>2. \A u : ShareOf(u)' = ShareOf(u)
    BY <1>4 DEF ShareOf
  <2> QED
    BY <1>4, <2>1, <2>2 DEF MergedDocs
<1>16. Both(Only(before, mine), Only(taken, mine)) = Only(BagsFor(MergedDocs(t) \union ShareOf(n - 1)), mine)
  BY DEF Both, Only, before, taken, BagsFor
<1>17. ASSUME NEW u \in Workers
       PROVE  Makes(partial_dicts'[u], Only(BagsFor(MergedDocs(u)), TermsFor(u))')
  <2>1. TermsFor(u)' = TermsFor(u) /\ BagsFor(MergedDocs(u))' = [i \in MergedDocs(u)' |-> WordCount[docs[i]]]
    BY <1>4 DEF TermsFor, BagsFor
  <2>2. CASE u = t
    <3>1. partial_dicts'[u] = more
      BY <1>1, <1>5, <2>2
    <3>2. Only(BagsFor(MergedDocs(t)), TermsFor(t))' = Only(BagsFor(MergedDocs(t) \union ShareOf(n - 1)), mine)
      BY <1>4, <1>15, <2>1, <2>2 DEF Only, BagsFor, mine
    <3> QED
      BY <1>14, <1>16, <2>2, <3>1, <3>2
  <2>3. CASE u # t
    <3>1. partial_dicts'[u] = partial_dicts[u] /\ left'[u] = left[u]
      BY <1>1, <1>5, <1>6, <2>3
    <3>2. MergedDocs(u)' = MergedDocs(u)
      BY <1>4, <3>1 DEF MergedDocs, ShareOf
    <3>3. Only(BagsFor(MergedDocs(u)), TermsFor(u))' = Only(BagsFor(MergedDocs(u)), TermsFor(u))
      BY <1>4, <2>1, <3>2 DEF Only, BagsFor
    <3> QED
      BY <1>5, <3>1, <3>3
  <2> QED
    BY <2>2, <2>3
<1>18. \A u \in Workers : Makes(per_thread_dicts'[u], BagsFor(ShareOf(u))')
  BY <1>1, <1>4, <1>5 DEF BagsFor, ShareOf
<1>19. DOMAIN left' = Workers /\ DOMAIN partial_dicts' = Workers
  BY <1>1, <1>5, <1>6
<1>20. SharesMerged'
  BY <1>1, <1>4, <1>5, <1>17, <1>18, <1>19 DEF SharesMerged
<1> QED
  BY <1>1, <1>3, <1>4, <1>20 DEF LoadInvariant, SomeDocs, SharesIndexed, ListsSorted

\* The keys of a finite dictionary, listed, are all of them.
LEMMA KeysCover ==
    ASSUME NEW S, IsFiniteSet(S), NEW keys \in SetToSeqs(S)
    PROVE  {keys[i] : i \in DOMAIN keys} = S /\ Len(keys) \in Nat /\ DOMAIN keys = 1 .. Len(keys)
<1>1. Cardinality(S) \in Nat
  BY FS_CardinalityType
<1>2. /\ keys \in [1 .. Cardinality(S) -> S]
      /\ \A i, j \in 1 .. Cardinality(S) : i # j => keys[i] # keys[j]
  BY DEF SetToSeqs
<1>3. Len(keys) = Cardinality(S) /\ DOMAIN keys = 1 .. Cardinality(S)
  BY <1>1, <1>2
<1>4. IsFiniteSet(1 .. Cardinality(S)) /\ Cardinality(1 .. Cardinality(S)) = Cardinality(S)
  <2>1. 1 \in Int /\ Cardinality(S) \in Int /\ (1 > Cardinality(S) => Cardinality(S) = 0)
        /\ Cardinality(S) - 1 + 1 = Cardinality(S)
    BY <1>1
  <2> QED
    BY <2>1, FS_Interval
<1>5. keys \in Injection(1 .. Cardinality(S), S)
  BY <1>2 DEF Injection, IsInjective
<1>6. keys \in Surjection(1 .. Cardinality(S), S)
  BY <1>4, <1>5, FS_Injection
<1> QED
  BY <1>1, <1>2, <1>3, <1>6 DEF Surjection

LEMMA GatherLoads ==
    ASSUME LoadInvariant, Gather
    PROVE  CollectionInv' /\ SomeDocs' /\ SharesIndexed' /\ SharesMerged' /\ ListsSorted'
<1> DEFINE bags == BagsFor(DOMAIN docs)
           parts == partial_dicts
           dict == Gathered(parts)
<1>1. /\ phase = "merge" /\ phase' = "sort" /\ AllDone
      /\ new_dict' = dict /\ dict_keys' \in SetToSeqs(DOMAIN new_dict')
      /\ left' = Shares(Len(dict_keys'))
      /\ UNCHANGED <<pc, batch, todo, docs, primary_id_to_doc, disk, acked, crashes, faults>>
  BY DEF Gather, memory, counters
<1>2. pc = "build" /\ docs \in Seq(Doc) /\ docs # << >>
  BY <1>1 DEF LoadInvariant, ThreadsInv, Building, SomeDocs
<1>3. CollectionInv'
  BY <1>1, <1>2, StillBuilding DEF LoadInvariant
<1>4. /\ num_workers \in Nat \ {0} /\ Workers = 0 .. num_workers - 1
      /\ \A t \in Workers : ShareOf(t) \subseteq DOMAIN docs
      /\ \A d \in DOMAIN docs : \E t \in Workers : d \in ShareOf(t)
  BY <1>2, WorkerShares
<1>5. \A t \in Workers : MergedDocs(t) = DOMAIN docs
  <2> TAKE t \in Workers
  <2>1. left[t] = {}
    BY <1>1 DEF LoadInvariant, SharesMerged, AllDone
  <2>2. MergedDocs(t) = UNION {ShareOf(n - 1) : n \in 1 .. num_workers}
    BY <2>1 DEF MergedDocs
  <2>3. \A n \in 1 .. num_workers : n - 1 \in Workers
    BY <1>4
  <2>4. \A u \in Workers : u + 1 \in 1 .. num_workers /\ (u + 1) - 1 = u
    BY <1>4
  <2> QED
    BY <1>4, <2>2, <2>3, <2>4
<1>6. \A t \in Workers : Makes(parts[t], Only(bags, TermsFor(t)))
  BY <1>1, <1>5 DEF LoadInvariant, SharesMerged
<1>7. DOMAIN parts = Workers
  BY <1>1 DEF LoadInvariant, SharesMerged
<1>8. TermsOf(bags) \subseteq Term
  <2>1. \A d \in DOMAIN docs : docs[d] \in Doc
    BY <1>2
  <2> QED
    BY <2>1, DocAssumption DEF TermsOf, BagsFor, IsBag
<1>9. ASSUME NEW w \in Term
      PROVE  /\ Hash[w] % num_workers \in Workers /\ w \in TermsFor(Hash[w] % num_workers)
             /\ \A t \in Workers : w \in TermsFor(t) => t = Hash[w] % num_workers
  <2>1. \A m \in Nat \ {0}, k \in Int : k % m \in 0 .. m - 1
    OBVIOUS
  <2>2. Hash[w] \in Int
    BY ThreadAssumption
  <2> QED
    BY <1>4, <2>1, <2>2 DEF TermsFor
<1>10. ASSUME NEW t \in Workers
       PROVE  /\ DOMAIN parts[t] = TermsOf(bags) \cap TermsFor(t)
              /\ \A w \in DOMAIN parts[t] :
                    /\ parts[t][w] \in Seq(Posting) /\ Distinct(parts[t][w])
                    /\ ToSet(parts[t][w]) = PostingsIn(bags, w)
  <2>1. Inverts(parts[t], Only(bags, TermsFor(t))) /\ AllDistinct(parts[t])
    BY <1>6 DEF Makes
  <2>2. TermsOf(Only(bags, TermsFor(t))) = TermsOf(bags) \cap TermsFor(t)
    BY DEF TermsOf, Only
  <2>3. ASSUME NEW w \in TermsFor(t) PROVE PostingsIn(Only(bags, TermsFor(t)), w) = PostingsIn(bags, w)
    <3>1. HoldersIn(Only(bags, TermsFor(t)), w) = HoldersIn(bags, w)
      BY DEF HoldersIn, Only
    <3>2. \A d \in HoldersIn(bags, w) : Only(bags, TermsFor(t))[d][w] = bags[d][w]
      BY DEF HoldersIn, Only
    <3> QED
      BY <3>1, <3>2 DEF PostingsIn
  <2> QED
    BY <2>1, <2>2, <2>3 DEF Inverts, AllDistinct
<1>11. DOMAIN dict = TermsOf(bags) /\ dict = [w \in DOMAIN dict |-> dict[w]]
  <2>1. DOMAIN dict = UNION {DOMAIN parts[t] : t \in DOMAIN parts}
    BY DEF Gathered
  <2>2. \A w \in TermsOf(bags) : \E t \in Workers : w \in DOMAIN parts[t]
    BY <1>8, <1>9, <1>10
  <2>3. \A t \in Workers : DOMAIN parts[t] \subseteq TermsOf(bags)
    BY <1>10
  <2>4. dict = [w \in DOMAIN dict |-> dict[w]]
    BY DEF Gathered
  <2> QED
    BY <1>7, <2>1, <2>2, <2>3, <2>4
<1>12. ASSUME NEW w \in DOMAIN dict
       PROVE  dict[w] \in Seq(Posting) /\ Distinct(dict[w]) /\ ToSet(dict[w]) = PostingsIn(bags, w)
  <2> DEFINE Holding == {t \in DOMAIN parts : w \in DOMAIN parts[t]}
             h == Hash[w] % num_workers
             At == CHOOSE t \in Holding : \A u \in Holding : u <= t
  <2>1. w \in TermsOf(bags) /\ w \in Term
    BY <1>8, <1>11
  <2>2. Holding = {h} /\ h \in Workers /\ w \in DOMAIN parts[h] /\ h \in Int
    BY <1>4, <1>7, <1>9, <1>10, <2>1
  <2>3. At = h
    BY <2>2
  <2>4. dict[w] = parts[At][w]
    BY DEF Gathered
  <2> HIDE DEF At, h, dict, bags
  <2> QED
    BY <1>10, <2>2, <2>3, <2>4
<1>13. Makes(dict, bags)
  BY <1>11, <1>12 DEF Makes, Inverts, AllDistinct
<1>14. IsFiniteSet(DOMAIN dict)
  BY <1>8, <1>11, ThreadAssumption, FS_Subset
<1> HIDE DEF dict
<1>15. /\ {dict_keys'[i] : i \in DOMAIN dict_keys'} = DOMAIN new_dict'
       /\ Len(dict_keys') \in Nat /\ DOMAIN dict_keys' = 1 .. Len(dict_keys')
  BY <1>1, <1>14, KeysCover
<1>16. \A i \in DOMAIN dict_keys' : \E t \in DOMAIN left' : i \in left'[t]
  BY <1>1, <1>15, SharesCover DEF Shares
<1>17. todo' = {} /\ BagsFor(DOMAIN docs)' = bags
  BY <1>1 DEF LoadInvariant, SharesMerged, BagsFor
<1>18. ListsSorted'
  BY <1>1, <1>11, <1>13, <1>15, <1>16, <1>17 DEF ListsSorted
<1> QED
  BY <1>1, <1>3, <1>18 DEF LoadInvariant, SomeDocs, SharesIndexed, SharesMerged

LEMMA SortOneLoads ==
    ASSUME LoadInvariant, NEW t, NEW i, SortOne(t, i)
    PROVE  CollectionInv' /\ SomeDocs' /\ SharesIndexed' /\ SharesMerged' /\ ListsSorted'
<1> DEFINE bags == BagsFor(DOMAIN docs)
           k == dict_keys[i]
<1>1. /\ phase = "sort" /\ phase' = "sort" /\ Takes(t, i) /\ dict_keys' = dict_keys
      /\ new_dict' = [new_dict EXCEPT ![k] = SortList(@)]
      /\ UNCHANGED <<pc, batch, todo, docs, primary_id_to_doc, disk, acked, crashes, faults>>
  BY DEF SortOne, memory, counters
<1>2. /\ pc = "build" /\ \A u \in DOMAIN left : left[u] \subseteq DOMAIN dict_keys
      /\ KeysDistinct
  BY <1>1 DEF LoadInvariant, ThreadsInv, Building, Sorting
<1>3. CollectionInv'
  BY <1>1, <1>2, StillBuilding DEF LoadInvariant
<1>4. t \in DOMAIN left /\ i \in left[t] /\ left' = [left EXCEPT ![t] = @ \ {i}]
  BY <1>1 DEF Takes, NextOf
<1>5. /\ todo = {} /\ new_dict = [w \in DOMAIN new_dict |-> new_dict[w]] /\ Makes(new_dict, bags)
      /\ {dict_keys[j] : j \in DOMAIN dict_keys} = DOMAIN new_dict
      /\ \A j \in DOMAIN dict_keys :
            (\A u \in DOMAIN left : j \notin left[u]) => Ascending(new_dict[dict_keys[j]])
  BY <1>1 DEF LoadInvariant, ListsSorted
<1>6. i \in DOMAIN dict_keys /\ k \in DOMAIN new_dict
  BY <1>2, <1>4, <1>5
<1> HIDE DEF k, bags
<1>7. /\ Inverts(new_dict', bags) /\ AllDistinct(new_dict')
      /\ DOMAIN new_dict' = DOMAIN new_dict /\ Ascending(new_dict'[k])
      /\ \A w \in DOMAIN new_dict : Ascending(new_dict[w]) => Ascending(new_dict'[w])
  BY <1>1, <1>5, <1>6, SortOneInverts DEF Makes
<1>8. ASSUME NEW j \in DOMAIN dict_keys, \A u \in DOMAIN left' : j \notin left'[u]
      PROVE  Ascending(new_dict'[dict_keys[j]])
  <2>1. CASE j = i
    BY <1>7, <2>1 DEF k
  <2>2. CASE j # i
    <3>1. \A u \in DOMAIN left : j \notin left[u]
      BY <1>4, <1>8, <2>2
    <3> QED
      BY <1>5, <1>7, <3>1
  <2> QED
    BY <2>1, <2>2
<1>9. new_dict' = [w \in DOMAIN new_dict' |-> new_dict'[w]]
  BY <1>1
<1>10. BagsFor(DOMAIN docs)' = bags
  BY <1>1 DEF BagsFor, bags
<1>11. ListsSorted'
  BY <1>1, <1>5, <1>7, <1>8, <1>9, <1>10 DEF ListsSorted, Makes
<1> QED
  BY <1>1, <1>3, <1>11 DEF LoadInvariant, SomeDocs, SharesIndexed, SharesMerged

LEMMA InstallSortedLoads ==
    ASSUME LoadInvariant, InstallSorted
    PROVE  CollectionInv' /\ SomeDocs' /\ SharesIndexed' /\ SharesMerged' /\ ListsSorted'
<1>1. /\ phase = "sort" /\ phase' = "none" /\ AllDone /\ pc' = "open"
      /\ freq_dictionary' = new_dict /\ doc_term_freqs' = ForwardOf(new_dict, Len(docs))
      /\ primary_id_to_doc' = IdMap(docs)
      /\ UNCHANGED <<batch, todo, docs, disk, acked, crashes, faults>>
  BY DEF InstallSorted, ThreadsEnd, counters
<1>2. pc = "build" /\ docs \in Seq(Doc)
  BY <1>1 DEF LoadInvariant, ThreadsInv, Building
<1>3. /\ todo = {} /\ Makes(new_dict, BagsFor(DOMAIN docs))
      /\ {dict_keys[i] : i \in DOMAIN dict_keys} = DOMAIN new_dict
      /\ \A i \in DOMAIN dict_keys : Ascending(new_dict[dict_keys[i]])
  BY <1>1 DEF LoadInvariant, ListsSorted, AllDone
<1>4. Indexes(new_dict, docs)
  BY <1>3 DEF Indexes, AllAscending, Makes, BagsFor, BagsOf
<1>5. MemoryMatches'
  BY <1>1, <1>2, <1>4, ForwardOfIndexed DEF MemoryMatches
<1>6. CollectionTyped'
  BY <1>1, <1>2, <1>3, IdMapTyped DEF LoadInvariant, CollectionInv, CollectionTyped, Busy, Saving
<1>7. KeyMapAgrees'
  BY <1>1, <1>2, IdMapOfDocs DEF KeyMapAgrees
<1>8. StreamsFollow' /\ FilesMatch(disk)'
  BY <1>1, <1>2 DEF LoadInvariant, CollectionInv, RestMatches, StreamsFollow
<1>9. CollectionInv'
  BY <1>1, <1>5, <1>6, <1>7, <1>8 DEF CollectionInv, RestMatches
<1> QED
  BY <1>1, <1>9, NoLoad

LEMMA LoadStep == LoadInvariant /\ [ParallelNext]_pvars => LoadInvariant'
<1> SUFFICES ASSUME LoadInvariant, [ParallelNext]_pvars
             PROVE  CollectionInv' /\ SomeDocs' /\ SharesIndexed' /\ SharesMerged' /\ ListsSorted'
  BY StepKeepsThreads DEF LoadInvariant
<1>1. ASSUME NEW b \in Batches, StartWorkers(b)
      PROVE  CollectionInv' /\ SomeDocs' /\ SharesIndexed' /\ SharesMerged' /\ ListsSorted'
  BY <1>1, StartWorkersLoads
<1>2. CASE Build
  <2>1. CASE \E t \in DOMAIN left, i \in UNION Range(left) :
                IndexOne(t, i) \/ MergeDict(t, i) \/ SortOne(t, i)
    BY <2>1, IndexOneLoads, MergeDictLoads, SortOneLoads
  <2> QED
    BY <1>2, <2>1, JoinWorkersLoads, GatherLoads, InstallSortedLoads DEF Build
<1>3. CASE Elsewhere /\ UNCHANGED threads
  <2>1. pc # "build" /\ phase = "none" /\ phase' = "none"
    BY <1>3, ElsewhereNotBuilding DEF LoadInvariant, ThreadsInv, Building, threads
  <2>2. Next /\ ~InstallIndex
    BY <1>3, <2>1 DEF Elsewhere, Next, Request, Work, InstallIndex
  <2> QED
    BY <2>1, <2>2, NextKeepsCollection, NoLoad DEF LoadInvariant
<1>4. CASE Crash /\ ThreadsEnd
  <2>1. Next /\ ~InstallIndex /\ phase' = "none"
    BY <1>4 DEF Next, Crash, InstallIndex, ThreadsEnd
  <2> QED
    BY <2>1, NextKeepsCollection, NoLoad DEF LoadInvariant
<1>5. CASE UNCHANGED pvars
  <2>1. UNCHANGED vars /\ UNCHANGED threads
    BY <1>5 DEF pvars
  <2>2. CollectionInv'
    BY <2>1
    DEF vars, memory, request, counters, LoadInvariant, CollectionInv, CollectionTyped,
        KeyMapAgrees, RestMatches, MemoryMatches, StreamsFollow, StoredDocs
  <2> PICK ds, gone, lefts, made, parts, step :
        /\ docs = ds /\ todo = gone /\ left = lefts /\ per_thread_dicts = made
        /\ partial_dicts = parts /\ phase = step
        /\ docs' = ds /\ todo' = gone /\ left' = lefts /\ per_thread_dicts' = made
        /\ partial_dicts' = parts /\ phase' = step
    BY <2>1 DEF vars, memory, request, threads
  <2>3. SomeDocs' /\ SharesIndexed'
    BY DEF LoadInvariant, SomeDocs, SharesIndexed, ShareOf, BagsFor, Workers, num_workers
  <2>4. SharesMerged'
    BY DEF LoadInvariant, SharesMerged, ShareOf, MergedDocs, TermsFor, BagsFor, Workers, num_workers
  <2>5. ListsSorted'
    BY <2>1 DEF vars, memory, request, threads, LoadInvariant, ListsSorted, BagsFor
  <2> QED
    BY <2>2, <2>3, <2>4, <2>5
<1> QED
  BY <1>1, <1>2, <1>3, <1>4, <1>5 DEF ParallelNext

LEMMA LoadInvariantHolds == ParallelSpec => []LoadInvariant
<1>1. ParallelInit => LoadInvariant
  <2> SUFFICES ASSUME ParallelInit PROVE LoadInvariant
    OBVIOUS
  <2>1. Init /\ phase = "none"
    BY DEF ParallelInit, NoThreads
  <2>2. CollectionTyped /\ KeyMapAgrees /\ (pc = "upsert" => HasIntField)
    BY <2>1, TypedInit, KeyMapInit DEF Init
  <2>3. RestMatches
    BY <2>1, IndexInit DEF IndexInvariant
  <2> QED
    BY <2>1, <2>2, <2>3, InitThreads
    DEF LoadInvariant, CollectionInv, SomeDocs, SharesIndexed, SharesMerged, ListsSorted
<1> QED
  BY <1>1, LoadStep, PTL DEF ParallelSpec

\* However many cores there are, however the hash function spreads the terms
\* and however the threads of the three groups interleave, the dictionary a
\* bulk load installs lists exactly the documents that have a term, in order
\* and with their counts: no posting is lost between two workers' dictionaries
\* and none is taken twice.
THEOREM ParallelLoadCorrect == ParallelSpec => []IndexAgrees
<1>1. LoadInvariant => IndexAgrees
  BY IndexedAgrees DEF LoadInvariant, CollectionInv, RestMatches, MemoryMatches, IndexAgrees, BagsOf
<1> QED
  BY <1>1, LoadInvariantHolds, PTL

-----------------------------------------------------------------------------
(***************************************************************************)
(* The bulk load with its threads implements that of InvertedIndex.  The   *)
(* documents were indexed in some order; what pushing them in that order   *)
(* makes is in no thread's memory, but sorting makes one dictionary of it  *)
(* and of what the threads have gathered: the postings are the same.       *)
(***************************************************************************)
DocBags == [d \in DOMAIN docs |-> WordCount[docs[d]]]

OrderFollows ==
    /\ phase = "none" => order = << >>
    /\ phase # "none" =>
          /\ order \in Seq(DOMAIN docs) /\ ToSet(order) = DOMAIN docs \ todo
          /\ \A i, j \in DOMAIN order : order[i] = order[j] => i = j

\* The instance has operators of its own, defined alike.
LEMMA SameDictionaries ==
    ASSUME NEW dict, NEW forward, NEW d, NEW bag
    PROVE  /\ Sequential!PushPostings(dict, d, bag) = PushPostings(dict, d, bag)
           /\ Sequential!DictWith(dict, d, bag) = DictWith(dict, d, bag)
           /\ Sequential!DictWithout(dict, forward, d) = DictWithout(dict, forward, d)
           /\ Sequential!SortPostings(dict) = SortPostings(dict)
<1>1. Sequential!PushPostings(dict, d, bag) = PushPostings(dict, d, bag)
  BY DEF PushPostings, GetWordCount, Entry,
         Sequential!PushPostings, Sequential!GetWordCount, Sequential!Entry
<1>2. Sequential!DictWith(dict, d, bag) = DictWith(dict, d, bag)
  BY DEF DictWith, InsertPostingSorted, LowerBound, InsertAt, GetWordCount, Entry,
         Sequential!DictWith, Sequential!InsertPostingSorted, Sequential!LowerBound,
         Sequential!InsertAt, Sequential!GetWordCount, Sequential!Entry
<1>3. Sequential!DictWithout(dict, forward, d) = DictWithout(dict, forward, d)
  BY DEF DictWithout, ErasePostingForDoc, LowerBound, RemoveAt,
         Sequential!DictWithout, Sequential!ErasePostingForDoc, Sequential!LowerBound,
         Sequential!RemoveAt
<1>4. Sequential!SortPostings(dict) = SortPostings(dict)
  BY DEF SortPostings, SortList, Bijection, Injection, Surjection, IsInjective,
         Sequential!SortPostings, Sequential!SortList, Sequential!Bijection,
         Sequential!Injection, Sequential!Surjection, Sequential!IsInjective
<1> QED
  BY <1>1, <1>2, <1>3, <1>4

LEMMA SameRebuilt ==
    ASSUME NEW dict, NEW n, NEW ds, NEW bag
    PROVE  /\ Sequential!ForwardOf(dict, n) = ForwardOf(dict, n)
           /\ Sequential!LengthsOf(dict, n) = LengthsOf(dict, n)
           /\ Sequential!IdMap(ds) = IdMap(ds)
           /\ Sequential!DocLength(bag) = DocLength(bag)
<1>1. /\ Sequential!ForwardOf(dict, n) = ForwardOf(dict, n)
      /\ Sequential!LengthsOf(dict, n) = LengthsOf(dict, n)
  BY DEF ForwardOf, LengthsOf, PositionsOf, MapThenSumSet, MapThenFoldSet,
         Sequential!ForwardOf, Sequential!LengthsOf, Sequential!PositionsOf,
         Sequential!MapThenSumSet, Sequential!MapThenFoldSet
<1>2. Sequential!IdMap(ds) = IdMap(ds)
  BY DEF IdMap, KeysOf, LastHolder, Sequential!IdMap, Sequential!KeysOf, Sequential!LastHolder
<1>3. Sequential!DocLength(bag) = DocLength(bag)
  BY DEF DocLength, SumFunction, SumFunctionOnSet, FoldFunctionOnSet, MapThenFoldSet,
         Sequential!DocLength, Sequential!SumFunction, Sequential!SumFunctionOnSet,
         Sequential!FoldFunctionOnSet, Sequential!MapThenFoldSet
<1> QED
  BY <1>1, <1>2, <1>3

LEMMA OrderStep == LoadInvariant /\ OrderFollows /\ [ParallelNext]_pvars => OrderFollows'
<1> SUFFICES ASSUME LoadInvariant, OrderFollows, [ParallelNext]_pvars PROVE OrderFollows'
  OBVIOUS
<1>1. ASSUME phase' = "none", order' = << >> PROVE OrderFollows'
  BY <1>1 DEF OrderFollows
<1>2. ASSUME phase # "none", phase' # "none", UNCHANGED <<docs, todo, order>> PROVE OrderFollows'
  <2> PICK o, ds, left_todo : /\ order = o /\ docs = ds /\ todo = left_todo
                              /\ order' = o /\ docs' = ds /\ todo' = left_todo
    BY <1>2
  <2> QED
    BY <1>2 DEF OrderFollows
<1>3. ASSUME NEW b \in Batches, StartWorkers(b) PROVE OrderFollows'
  <2>1. /\ pc = "idle" /\ docs' = b /\ todo' = 1 .. Len(b) /\ phase' = "index" /\ order' = order
        /\ b \in Seq(Doc)
    BY <1>3, BoundsAssumption DEF StartWorkers, ReplaceDocs
  <2>2. order' = << >>
    BY <2>1 DEF LoadInvariant, ThreadsInv, Building, OrderFollows
  <2>3. DOMAIN b = 1 .. Len(b) /\ DOMAIN << >> = {} /\ << >> \in Seq(DOMAIN b) /\ ToSet(<< >>) = {}
    BY <2>1 DEF ToSet
  <2> QED
    BY <2>1, <2>2, <2>3 DEF OrderFollows
<1>4. ASSUME NEW t, NEW d, IndexOne(t, d) PROVE OrderFollows'
  <2>1. /\ phase = "index" /\ phase' = phase /\ docs' = docs /\ todo' = todo \ {d}
        /\ order' = Append(order, d) /\ t \in DOMAIN left /\ d \in left[t]
    BY <1>4 DEF IndexOne, Takes, NextOf
  <2>2. /\ order \in Seq(DOMAIN docs) /\ ToSet(order) = DOMAIN docs \ todo
        /\ \A i, j \in DOMAIN order : order[i] = order[j] => i = j
    BY <2>1 DEF OrderFollows
  <2>3. d \in todo /\ d \in DOMAIN docs
    BY <2>1 DEF LoadInvariant, SharesIndexed, ThreadsInv, Indexing
  <2>4. d \notin ToSet(order)
    BY <2>2, <2>3
  <2> DEFINE longer == Append(order, d)
             n == Len(order)
  <2>5. /\ longer \in Seq(DOMAIN docs) /\ n \in Nat /\ Len(longer) = n + 1 /\ longer[n + 1] = d
        /\ \A i \in 1 .. n : longer[i] = order[i]
    BY <2>2, <2>3, AppendProperties
  <2>6. DOMAIN longer = 1 .. n + 1 /\ DOMAIN order = 1 .. n
    BY <2>2, <2>5
  <2> HIDE DEF longer, n
  <2>7. /\ \A i \in 1 .. n + 1 : i = n + 1 \/ i \in 1 .. n
        /\ \A i \in 1 .. n : order[i] # d /\ i \in 1 .. n + 1
        /\ n + 1 \in 1 .. n + 1
    BY <2>4, <2>5, <2>6 DEF ToSet
  <2>8. ToSet(longer) = ToSet(order) \union {d}
    BY <2>5, <2>6, <2>7 DEF ToSet
  <2>9. \A i, j \in DOMAIN longer : longer[i] = longer[j] => i = j
    BY <2>2, <2>5, <2>6, <2>7
  <2>10. ToSet(longer) = DOMAIN docs \ (todo \ {d})
    BY <2>2, <2>3, <2>8
  <2>11. order' = longer
    BY <2>1 DEF longer
  <2> QED
    BY <2>1, <2>5, <2>9, <2>10, <2>11 DEF OrderFollows
<1>5. CASE JoinWorkers \/ Gather \/ \E t, i : MergeDict(t, i) \/ SortOne(t, i)
  BY <1>2, <1>5 DEF JoinWorkers, Gather, MergeDict, SortOne, vars, memory, request
<1>6. CASE InstallSorted \/ (Crash /\ ThreadsEnd)
  BY <1>1, <1>6 DEF InstallSorted, ThreadsEnd
<1>7. CASE Elsewhere /\ UNCHANGED threads
  <2>1. phase = "none"
    BY <1>7, ElsewhereNotBuilding DEF LoadInvariant, ThreadsInv, Building
  <2> QED
    BY <1>1, <1>7, <2>1 DEF OrderFollows, threads
<1>8. CASE UNCHANGED pvars
  BY <1>1, <1>2, <1>8 DEF OrderFollows, pvars, threads, vars, memory, request
<1> QED
  BY <1>3, <1>4, <1>5, <1>6, <1>7, <1>8 DEF ParallelNext, Build

\* What is installed is what indexing in order and sorting gives.
LEMMA SortedIsPushed ==
    ASSUME LoadInvariant, OrderFollows, phase = "sort", AllDone
    PROVE  new_dict = SortPostings(PushedInOrder) /\ todo = {} /\ pc = "build"
<1>1. /\ pc = "build" /\ docs \in Seq(Doc) /\ todo = {}
      /\ order \in Seq(DOMAIN docs) /\ ToSet(order) = DOMAIN docs
      /\ \A i, j \in DOMAIN order : order[i] = order[j] => i = j
  BY DEF LoadInvariant, ThreadsInv, Building, ListsSorted, OrderFollows
<1>2. DocBags = BagsFor(DOMAIN docs) /\ AreBags(DocBags) /\ DOMAIN DocBags = DOMAIN docs
  BY <1>1, BagsForAre DEF DocBags, BagsFor
<1>3. BagsAt(DocBags, DOMAIN docs) = DocBags
  BY DEF BagsAt, DocBags
<1>4. PushedInOrder = PushAll(DocBags, order)
  BY DEF PushedInOrder, DocBags
<1>5. Inverts(PushedInOrder, BagsAt(DocBags, ToSet(order))) /\ AllDistinct(PushedInOrder)
  BY <1>1, <1>2, <1>4, PushAllInverts
<1>6. Inverts(SortPostings(PushedInOrder), DocBags) /\ AllAscending(SortPostings(PushedInOrder))
  BY <1>1, <1>3, <1>5, SortPostingsInverts
<1>7. /\ Inverts(new_dict, DocBags) /\ new_dict = [w \in DOMAIN new_dict |-> new_dict[w]]
      /\ AllAscending(new_dict)
  <2>1. \A i \in DOMAIN dict_keys : Ascending(new_dict[dict_keys[i]])
    BY DEF LoadInvariant, ListsSorted, AllDone
  <2>2. {dict_keys[i] : i \in DOMAIN dict_keys} = DOMAIN new_dict
    BY DEF LoadInvariant, ListsSorted
  <2>3. AllAscending(new_dict)
    BY <2>1, <2>2 DEF AllAscending
  <2> QED
    BY <1>2, <2>3 DEF LoadInvariant, ListsSorted, Makes
<1>8. SortPostings(PushedInOrder) =
         [t \in DOMAIN SortPostings(PushedInOrder) |-> SortPostings(PushedInOrder)[t]]
  BY DEF SortPostings
<1> HIDE DEF DocBags
<1> QED
  BY <1>1, <1>6, <1>7, <1>8, OneAscendingDict

\* What the rest of the collection does is done alike, with no load going on.
LEMMA ElsewhereIsSequential ==
    ASSUME order = << >>, order' = << >>,
           Elsewhere \/ (\E b \in Batches : ReplaceDocs(b))
    PROVE  Sequential!Next
<1>1. PushedInOrder = << >> /\ PushedInOrder' = << >>
  BY PushAllOfNone DEF PushedInOrder
<1> USE DEF request, memory, counters, Sequential!request, Sequential!memory, Sequential!counters,
            Files, WithFile, Absent, Torn, Cut, Buffered, Written,
            Sequential!Files, Sequential!WithFile, Sequential!Absent, Sequential!Torn,
            Sequential!Cut, Sequential!Buffered, Sequential!Written
<1>2. Residues(disk) = Sequential!Residues(disk) /\ Closed(disk) = Sequential!Closed(disk)
  BY DEF Residues, Residue, Closed, Flushed,
         Sequential!Residues, Sequential!Residue, Sequential!Closed, Sequential!Flushed
<1>3. CASE ClearBase
  BY <1>1, <1>3 DEF ClearBase, Sequential!ClearBase, Sequential!Next, Sequential!Request
<1>4. ASSUME NEW b \in Batches, ReplaceDocs(b) PROVE Sequential!Next
  BY <1>1, <1>4 DEF ReplaceDocs, Sequential!ReplaceDocs, Sequential!Next, Sequential!Request
<1>5. ASSUME NEW b \in Batches, BeginUpsert(b) PROVE Sequential!Next
  BY <1>1, <1>5, SameRebuilt
  DEF BeginUpsert, Sequential!BeginUpsert, Sequential!Next, Sequential!Request
<1>6. CASE UpsertReplace
  BY <1>1, <1>6, SameDictionaries, SameRebuilt
  DEF UpsertReplace, Sequential!UpsertReplace, Sequential!Next, Sequential!Work
<1>7. CASE UpsertInsert
  BY <1>1, <1>7, SameDictionaries, SameRebuilt
  DEF UpsertInsert, Sequential!UpsertInsert, Sequential!Next, Sequential!Work
<1>8. CASE EndUpsert
  BY <1>1, <1>8 DEF EndUpsert, Sequential!EndUpsert, Sequential!Next, Sequential!Work
<1>9. CASE Save
  BY <1>1, <1>2, <1>9
  DEF Save, OpenDict, SaveCollection, WriteDocs, WriteDict, WriteLengths, CloseFiles, SaveStep,
      Answer, Sequential!Save, Sequential!OpenDict, Sequential!SaveCollection,
      Sequential!WriteDocs, Sequential!WriteDict, Sequential!WriteLengths, Sequential!CloseFiles,
      Sequential!SaveStep, Sequential!Answer, Sequential!Next, Sequential!Work
<1>10. CASE Load
  BY <1>1, <1>10, SameRebuilt
  DEF Load, LoadEmpty, LoadIndex, LoadFails, LoadMisreads, SchemeReadable, NothingSaved, Stopped,
      Sequential!Load, Sequential!LoadEmpty, Sequential!LoadIndex, Sequential!LoadFails,
      Sequential!LoadMisreads, Sequential!SchemeReadable, Sequential!NothingSaved, Sequential!Stopped, Sequential!Next
<1> QED
  BY <1>3, <1>4, <1>5, <1>6, <1>7, <1>8, <1>9, <1>10 DEF Elsewhere

LEMMA CrashIsSequential ==
    ASSUME Crash, order' = << >>
    PROVE  Sequential!Next
<1>1. PushedInOrder' = << >>
  BY PushAllOfNone DEF PushedInOrder
<1>2. /\ Residues(disk) = Sequential!Residues(disk)
      /\ Residues(WithFile("scheme", Torn)) =
            Sequential!Residues(Sequential!WithFile("scheme", Sequential!Torn))
  BY DEF Residues, Residue, Files, WithFile, Torn, Written,
         Sequential!Residues, Sequential!Residue, Sequential!Files, Sequential!WithFile,
         Sequential!Torn, Sequential!Written
<1> QED
  BY <1>1, <1>2 DEF Crash, Stopped, Saving, Sequential!Crash, Sequential!Stopped,
                    Sequential!Saving, Sequential!Next

LEMMA SequentialStep ==
    LoadInvariant /\ OrderFollows /\ [ParallelNext]_pvars => [Sequential!Next]_Sequential!vars
<1> SUFFICES ASSUME LoadInvariant, OrderFollows, [ParallelNext]_pvars
             PROVE  [Sequential!Next]_Sequential!vars
  OBVIOUS
<1>1. ASSUME UNCHANGED <<pc, batch, todo, memory, disk, acked, counters, order>>
      PROVE  UNCHANGED Sequential!vars
  BY <1>1 DEF Sequential!vars, Sequential!request, Sequential!memory, Sequential!counters,
              memory, counters, PushedInOrder
<1>2. ASSUME NEW b \in Batches, StartWorkers(b) PROVE Sequential!Next
  <2>1. pc = "idle" /\ ReplaceDocs(b) /\ order' = order
    BY <1>2 DEF StartWorkers, ReplaceDocs
  <2>2. order = << >>
    BY <2>1 DEF LoadInvariant, ThreadsInv, Building, OrderFollows
  <2> QED
    BY <2>1, <2>2, ElsewhereIsSequential
<1>3. ASSUME NEW t, NEW d, IndexOne(t, d) PROVE Sequential!Next
  <2>1. /\ phase = "index" /\ docs' = docs /\ order' = Append(order, d)
        /\ t \in DOMAIN left /\ d \in left[t]
    BY <1>3 DEF IndexOne, Takes, NextOf
  <2>2. pc = "build" /\ d \in todo /\ order \in Seq(DOMAIN docs) /\ d \in DOMAIN docs
    BY <2>1 DEF LoadInvariant, ThreadsInv, Building, SharesIndexed, Indexing, OrderFollows
  <2>3. PushedInOrder = PushAll(DocBags, order) /\ PushedInOrder' = PushAll(DocBags, order')
    BY <2>1 DEF PushedInOrder, DocBags
  <2>4. DocBags[d] = WordCount[docs[d]]
    BY <2>2 DEF DocBags
  <2>5. PushedInOrder' = PushPostings(PushedInOrder, d, WordCount[docs[d]])
    BY <2>1, <2>2, <2>3, <2>4, PushAllAppends
  <2>6. Sequential!IndexDocument(d)
    BY <1>3, <2>2, <2>5, SameDictionaries, SameRebuilt
    DEF IndexOne, counters, Sequential!IndexDocument, Sequential!counters
  <2> QED
    BY <2>2, <2>6 DEF Sequential!Next, Sequential!Work
<1>4. CASE JoinWorkers \/ Gather \/ \E t, i : MergeDict(t, i) \/ SortOne(t, i)
  BY <1>1, <1>4 DEF JoinWorkers, Gather, MergeDict, SortOne, vars, request
<1>5. CASE InstallSorted
  <2>1. new_dict = SortPostings(PushedInOrder) /\ todo = {} /\ pc = "build" /\ order' = << >>
    BY <1>5, SortedIsPushed DEF InstallSorted, ThreadsEnd
  <2>2. PushedInOrder' = << >>
    BY <2>1, PushAllOfNone DEF PushedInOrder
  <2>3. Sequential!InstallIndex
    BY <1>5, <2>1, <2>2, SameDictionaries, SameRebuilt
    DEF InstallSorted, counters, Sequential!InstallIndex, Sequential!counters
  <2> QED
    BY <2>3 DEF Sequential!Next, Sequential!Work
<1>6. CASE Elsewhere /\ UNCHANGED threads
  <2>1. order = << >> /\ order' = << >>
    BY <1>6, ElsewhereNotBuilding DEF LoadInvariant, ThreadsInv, Building, OrderFollows, threads
  <2> QED
    BY <1>6, <2>1, ElsewhereIsSequential
<1>7. CASE Crash /\ ThreadsEnd
  BY <1>7, CrashIsSequential DEF ThreadsEnd
<1>8. CASE UNCHANGED pvars
  BY <1>1, <1>8 DEF pvars, vars, request, threads
<1> QED
  BY <1>2, <1>3, <1>4, <1>5, <1>6, <1>7, <1>8 DEF ParallelNext, Build

\* With any number of cores, any hash function and any interleaving of the
\* three groups of threads, a collection behaves as if its bulk loads indexed
\* the documents one after the other: whatever a client or the disk sees of
\* the threaded code, the code without threads could have shown.
THEOREM LoadIsSequential == ParallelSpec => ImplementsSequentialLoad
<1>1. ParallelInit => OrderFollows
  BY DEF ParallelInit, NoThreads, OrderFollows
<1>2. ParallelInit => Sequential!Init
  BY PushAllOfNone
  DEF ParallelInit, Init, NoThreads, PushedInOrder, Files, Written, Absent,
      Sequential!Init, Sequential!Files, Sequential!Written, Sequential!Absent
<1> QED
  BY <1>1, <1>2, LoadInvariantHolds, OrderStep, SequentialStep, PTL
  DEF ParallelSpec, ImplementsSequentialLoad, Sequential!Spec

=============================================================================
