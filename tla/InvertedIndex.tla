---------------------------- MODULE InvertedIndex ----------------------------
(***************************************************************************)
(* One collection: class InvertedIndex of inverted_index.hpp/.cpp, its     *)
(* documents, its inverted and forward indexes, and the four files it      *)
(* keeps in the collection's directory.                                    *)
(*                                                                         *)
(* One request at a time changes the index (the class has no lock; what    *)
(* several request threads do to one index is the subject of module        *)
(* IndexRegistry).  A request is a run of steps, told apart by pc:         *)
(*                                                                         *)
(*   idle -> build -> open     UpdateDocumentBase (straight to open when   *)
(*                             the batch is empty)                         *)
(*   idle -> upsert -> open    UpsertDocuments                             *)
(*   open -> scheme -> docs -> dict -> lens -> close -> idle      Save     *)
(*   down -> idle | unavailable | misread                         Load     *)
(*   idle, down ... -> create -> idle                   CreateCollection   *)
(*                                                                         *)
(* The process may be killed between any two of them.  Member names are    *)
(* the code's, without the trailing underscore.  Documents are numbered    *)
(* from 1, from 0 in the code.                                             *)
(***************************************************************************)
EXTENDS PostingLists

CONSTANTS
    Doc,          \* documents: the content objects the handler lets through
    Key,          \* values of the schema's first int field
    Term,         \* tokens
    KeyOf,        \* [Doc -> Key]: the document's primary key
    WordCount,    \* [Doc -> bags of terms]: tokenize(buildSearchableText(doc))
    Stored,       \* [Doc -> Doc]: what docs.dat keeps of a document, its schema fields
    HasIntField,  \* SupportsIncrementalUpsert(): the schema has an int field
    Batches,      \* the batches a client may post: sequences of documents
    MaxDocs,      \* bound on the documents of the collection
    MaxCrashes,   \* bound on the times the process is killed
    MaxFaults,    \* bound on the failing file operations
    Disturbances  \* which of "crash", "crash_saving", "disk_fault", "recreate" happen

\* A document's terms with their counts.
IsBag(b) == b \in [DOMAIN b -> Nat \ {0}] /\ DOMAIN b \subseteq Term

ASSUME DocAssumption ==
    /\ KeyOf \in [Doc -> Key]
    /\ DOMAIN WordCount = Doc /\ \A d \in Doc : IsBag(WordCount[d])
    /\ Stored \in [Doc -> Doc]
    /\ HasIntField \in BOOLEAN

\* docs.dat keeps every field of the schema, and the key and the text are made
\* of those alone; a document read back is stored as it is.
ASSUME StoredAssumption ==
    \A d \in Doc : /\ KeyOf[Stored[d]] = KeyOf[d]
                   /\ WordCount[Stored[d]] = WordCount[d]
                   /\ Stored[Stored[d]] = Stored[d]

ASSUME BoundsAssumption ==
    /\ \A b \in Batches : b \in Seq(Doc)
    /\ MaxDocs \in Nat /\ MaxCrashes \in Nat /\ MaxFaults \in Nat
    /\ Disturbances \subseteq {"crash", "crash_saving", "disk_fault", "recreate"}

VARIABLES
    pc,                \* the step the request is at
    batch,             \* the documents an upsert has still to take
    todo,              \* the doc_ids the workers have still to index
    new_dict,          \* the dictionary a bulk load builds
    docs,              \* docs_
    doc_lengths,       \* doc_lengths_
    freq_dictionary,   \* freq_dictionary_
    doc_term_freqs,    \* doc_term_freqs_, the forward index
    primary_id_to_doc, \* primary_id_to_doc_
    disk,              \* scheme.dat, docs.dat, dict.dat and doc_lengths.dat
    acked,             \* ghost: what the collection held when a request was last answered
    crashes, faults    \* counters of what MaxCrashes and MaxFaults bound

memory == <<docs, doc_lengths, freq_dictionary, doc_term_freqs, primary_id_to_doc>>
request == <<batch, todo, new_dict>>
counters == <<crashes, faults>>
vars == <<pc, request, memory, disk, acked, counters>>

Stopped == {"down", "unavailable", "misread"}
Saving == {"scheme", "docs", "dict", "lens", "close"}
Busy == {"build", "upsert", "open", "create"} \union Saving

-----------------------------------------------------------------------------
(***************************************************************************)
(* Files.  An ofstream truncates its file when it is opened, keeps what it *)
(* is handed in a buffer and writes the rest when it is destroyed.  A file *)
(* that was not written to its end is a proper prefix of what it should    *)
(* hold ("torn"), whatever its length: no reader gets to the end of it.    *)
(* Of scheme.dat, which is read as far as it goes, "torn" has no field and *)
(* "cut" has some of them.                                                 *)
(***************************************************************************)
Absent == [st |-> "absent"]
Torn == [st |-> "torn"]
Cut == [st |-> "cut"]
Buffered(v) == [st |-> "buffered", val |-> v]
Written(v) == [st |-> "written", val |-> v]

\* What may be left of a file when its stream is lost: a prefix or, when
\* the buffer had just been emptied, all of it.
Residue(f) == IF f.st = "buffered" THEN {Torn, Written(f.val)} ELSE {f}
Flushed(f) == IF f.st = "buffered" THEN Written(f.val) ELSE f
Files(sc, ds, dt, ln) == [scheme |-> sc, docs |-> ds, dict |-> dt, lens |-> ln]
Closed(d) == Files(d.scheme, Flushed(d.docs), Flushed(d.dict), Flushed(d.lens))
Residues(d) ==
    {Files(d.scheme, ds, dt, ln) :
        ds \in Residue(d.docs), dt \in Residue(d.dict), ln \in Residue(d.lens)}

WithFile(file, content) == [disk EXCEPT ![file] = content]

-----------------------------------------------------------------------------
\* The last document that holds the key: a later one overwrites the entry.
LastHolder(ds, k) ==
    CHOOSE i \in DOMAIN ds : /\ KeyOf[ds[i]] = k
                             /\ \A j \in DOMAIN ds : KeyOf[ds[j]] = k => j <= i

KeysOf(ds) == {KeyOf[ds[i]] : i \in DOMAIN ds}

\* Mutants: the first holder wins; every key is sent to the last document;
\* the map is not rebuilt.
FirstHolder(ds, k) ==
    CHOOSE i \in DOMAIN ds : /\ KeyOf[ds[i]] = k
                             /\ \A j \in DOMAIN ds : KeyOf[ds[j]] = k => j >= i
IdMapFirst(ds) == IF HasIntField THEN [k \in KeysOf(ds) |-> FirstHolder(ds, k)] ELSE << >>
IdMapSize(ds) == IF HasIntField THEN [k \in KeysOf(ds) |-> Len(ds)] ELSE << >>
IdMapForgotten(ds) == << >>

\* rebuildDocTermFreqsAndIdMap, its second loop.
IdMap(ds) ==
    IF HasIntField THEN [k \in KeysOf(ds) |-> LastHolder(ds, k)] ELSE << >>

\* Mutant: a term counts once however often it occurs.
DistinctTerms(bag) == Cardinality(DOMAIN bag)

\* doc_len, summed over the counts of the bag.
DocLength(bag) == SumFunction(bag)

Init ==
    \* CreateCollection has made the directory, the scheme and an empty index.
    /\ pc = "idle"
    /\ batch = << >> /\ todo = {} /\ new_dict = << >>
    /\ docs = << >> /\ doc_lengths = << >>
    /\ freq_dictionary = << >> /\ doc_term_freqs = << >> /\ primary_id_to_doc = << >>
    /\ disk = Files(Written("fields"), Absent, Absent, Absent)
    /\ acked = << >>
    /\ crashes = 0 /\ faults = 0

-----------------------------------------------------------------------------
(***************************************************************************)
(* UpdateDocumentBase: the batch replaces all documents.                   *)
(***************************************************************************)
ClearBase ==
    /\ pc = "idle"
    /\ << >> \in Batches
    /\ pc' = "open"
    /\ docs' = << >> /\ doc_lengths' = << >>
    /\ freq_dictionary' = << >> /\ doc_term_freqs' = << >> /\ primary_id_to_doc' = << >>
    /\ UNCHANGED <<request, disk, acked, counters>>

\* The documents are in place and the lengths resized before the workers
\* start; the dictionaries and the key map are still those of before.
ReplaceDocs(b) ==
    /\ pc = "idle"
    /\ b # << >> /\ Len(b) <= MaxDocs
    /\ pc' = "build"
    /\ docs' = b
    /\ doc_lengths' = [i \in 1 .. Len(b) |->
                          IF i <= Len(doc_lengths) THEN doc_lengths[i] ELSE 0]
    /\ todo' = 1 .. Len(b)
    /\ new_dict' = << >>
    /\ UNCHANGED <<batch, freq_dictionary, doc_term_freqs, primary_id_to_doc, disk, acked, counters>>

\* A worker indexes one of its documents.  The lists of the workers are
\* joined one after the other: the documents' order in them is arbitrary.
IndexDocument(d) ==
    /\ pc = "build"
    /\ d \in todo
    /\ todo' = todo \ {d}
    /\ new_dict' = PushPostings(new_dict, d, WordCount[docs[d]])
    /\ doc_lengths' = [doc_lengths EXCEPT ![d] = DocLength(WordCount[docs[d]])]
    /\ UNCHANGED <<pc, batch, docs, freq_dictionary, doc_term_freqs, primary_id_to_doc,
                   disk, acked, counters>>

\* The workers are joined: sort the lists, install the dictionary, rebuild
\* the forward index and the key map.
InstallIndex ==
    /\ pc = "build"
    /\ todo = {}
    /\ LET dict == SortPostings(new_dict)
       IN  /\ freq_dictionary' = dict
           /\ doc_term_freqs' = ForwardOf(dict, Len(docs))
    /\ primary_id_to_doc' = IdMap(docs)
    /\ new_dict' = << >>
    /\ pc' = "open"
    /\ UNCHANGED <<batch, todo, docs, doc_lengths, disk, acked, counters>>

-----------------------------------------------------------------------------
(***************************************************************************)
(* UpsertDocuments: the batch is taken one document at a time; each one    *)
(* replaces the document with its key, in place, or is appended.           *)
(***************************************************************************)
BeginUpsert(b) ==
    /\ pc = "idle"
    /\ HasIntField                        \* otherwise the handler answers 400
    /\ b # << >> /\ Len(docs) + Len(b) <= MaxDocs
    /\ pc' = "upsert"
    /\ batch' = b
    /\ IF Len(doc_term_freqs) # Len(docs)
       THEN /\ doc_term_freqs' = ForwardOf(freq_dictionary, Len(docs))
            /\ primary_id_to_doc' = IdMap(docs)
       ELSE UNCHANGED <<doc_term_freqs, primary_id_to_doc>>
    /\ UNCHANGED <<todo, new_dict, docs, doc_lengths, freq_dictionary, disk, acked, counters>>

\* addDocumentPostings after removeDocumentPostings, on the document held
\* under the key.
UpsertReplace ==
    /\ pc = "upsert"
    /\ batch # << >>
    /\ KeyOf[Head(batch)] \in DOMAIN primary_id_to_doc
    /\ LET new == Head(batch)
           d == primary_id_to_doc[KeyOf[new]]
           bag == WordCount[new]
       IN  /\ docs' = [docs EXCEPT ![d] = new]
           /\ freq_dictionary' =
                  DictWith(DictWithout(freq_dictionary, doc_term_freqs, d), d, bag)
           /\ doc_term_freqs' = [doc_term_freqs EXCEPT ![d] = bag]
           /\ doc_lengths' = [doc_lengths EXCEPT ![d] = DocLength(bag)]
    /\ batch' = Tail(batch)
    /\ UNCHANGED <<pc, todo, new_dict, primary_id_to_doc, disk, acked, counters>>

UpsertInsert ==
    /\ pc = "upsert"
    /\ batch # << >>
    /\ KeyOf[Head(batch)] \notin DOMAIN primary_id_to_doc
    /\ LET new == Head(batch)
           d == Len(docs) + 1
           bag == WordCount[new]
       IN  /\ docs' = Append(docs, new)
           /\ primary_id_to_doc' =
                  [k \in DOMAIN primary_id_to_doc \union {KeyOf[new]} |->
                      IF k = KeyOf[new] THEN d ELSE primary_id_to_doc[k]]
           /\ freq_dictionary' = DictWith(freq_dictionary, d, bag)
           /\ doc_term_freqs' = Append(doc_term_freqs, bag)
           /\ doc_lengths' = Append(doc_lengths, DocLength(bag))
    /\ batch' = Tail(batch)
    /\ UNCHANGED <<pc, todo, new_dict, disk, acked, counters>>

\* Mutant: an incremental update is answered without being saved.
EndUpsertUnsaved ==
    /\ pc = "upsert"
    /\ batch = << >>
    /\ pc' = "idle"
    /\ acked' = [i \in DOMAIN docs |-> Stored[docs[i]]]
    /\ UNCHANGED <<request, memory, disk, counters>>

EndUpsert ==
    /\ pc = "upsert"
    /\ batch = << >>
    /\ pc' = "open"
    /\ UNCHANGED <<request, memory, disk, acked, counters>>

-----------------------------------------------------------------------------
(***************************************************************************)
(* Save: dict.dat is opened first and written last but one, doc_lengths.dat*)
(* last; the streams of dict.dat, docs.dat and doc_lengths.dat are closed  *)
(* together, on return.                                                    *)
(***************************************************************************)
SaveStep(from, to, file, content) ==
    /\ pc = from
    /\ pc' = to
    /\ disk' = WithFile(file, content)
    /\ UNCHANGED <<request, memory, acked, counters>>

\* Mutant: dict.dat keeps its old contents until it is written.
OpenDictKeeps == SaveStep("open", "scheme", "dict", disk.dict)

OpenDict == SaveStep("open", "scheme", "dict", Torn)
SaveCollection == SaveStep("scheme", "docs", "scheme", Written("fields"))
WriteDocs == SaveStep("docs", "dict", "docs", Buffered([i \in DOMAIN docs |-> Stored[docs[i]]]))
WriteDict == SaveStep("dict", "lens", "dict", Buffered(freq_dictionary))
WriteLengths == SaveStep("lens", "close", "lens", Buffered(doc_lengths))

\* The handler answers 202, whatever Save returned.
Answer ==
    /\ pc' = "idle"
    /\ acked' = [i \in DOMAIN docs |-> Stored[docs[i]]]

CloseFiles ==
    /\ pc = "close"
    /\ disk' = Closed(disk)
    /\ Answer
    /\ UNCHANGED <<request, memory, counters>>

Save == OpenDict \/ SaveCollection \/ WriteDocs \/ WriteDict \/ WriteLengths \/ CloseFiles

(***************************************************************************)
(* CreateCollection over a collection that exists: SaveCollection opens    *)
(* scheme.dat, which empties it, and writes the fields; then a new, empty  *)
(* index takes the place of the old one.  The other files stay as they     *)
(* are.  That what is written does not arrive on the disk goes unnoticed.  *)
(***************************************************************************)
MayCreate ==
    /\ pc \in {"idle"} \union Stopped
    /\ "recreate" \in Disturbances

BeginCreate ==
    /\ MayCreate
    /\ pc' = "create"
    /\ disk' = WithFile("scheme", Torn)
    /\ UNCHANGED <<request, memory, acked, counters>>

PutEmptyIndex ==
    /\ pc' = "idle"
    /\ docs' = << >> /\ doc_lengths' = << >>
    /\ freq_dictionary' = << >> /\ doc_term_freqs' = << >> /\ primary_id_to_doc' = << >>
    /\ acked' = << >>

EndCreate ==
    /\ pc = "create"
    /\ PutEmptyIndex
    /\ disk' = WithFile("scheme", Written("fields"))
    /\ UNCHANGED <<request, counters>>

-----------------------------------------------------------------------------
(***************************************************************************)
(* A file operation fails (no space, no permission) and Save gives up, or, *)
(* for scheme.dat and doc_lengths.dat, goes on.  Nobody reads its result.  *)
(***************************************************************************)
FaultCounted ==
    /\ "disk_fault" \in Disturbances
    /\ faults < MaxFaults
    /\ faults' = faults + 1
    /\ UNCHANGED <<request, crashes>>

Fault == FaultCounted /\ UNCHANGED memory

OpenDictFails ==
    /\ pc = "open" /\ Fault
    /\ Answer
    /\ UNCHANGED disk

SaveCollectionFails ==
    /\ pc = "scheme" /\ Fault
    /\ pc' = "docs"
    /\ disk' \in {disk, WithFile("scheme", Torn), WithFile("scheme", Cut)}
    /\ UNCHANGED acked

WriteDocsFails ==
    /\ pc = "docs" /\ Fault
    /\ Answer
    /\ disk' \in {disk, WithFile("docs", Torn)}

WriteDictFails ==
    /\ pc = "dict" /\ Fault
    /\ Answer
    /\ disk' \in Residues(disk)

WriteLengthsFails ==
    /\ pc = "lens" /\ Fault
    /\ pc' = "close"
    /\ disk' \in {disk, WithFile("lens", Torn)}
    /\ UNCHANGED acked

CloseFails ==
    /\ pc = "close" /\ Fault
    /\ Answer
    /\ disk' \in Residues(disk)

\* The directory or scheme.dat cannot be opened: CreateCollection answers false.
CreateFails ==
    /\ MayCreate /\ Fault
    /\ UNCHANGED <<pc, disk, acked>>

EndCreateShort ==
    /\ pc = "create" /\ FaultCounted
    /\ PutEmptyIndex
    /\ disk' \in {disk, WithFile("scheme", Cut)}

DiskFault == \/ OpenDictFails \/ SaveCollectionFails \/ WriteDocsFails
             \/ WriteDictFails \/ WriteLengthsFails \/ CloseFails
             \/ CreateFails \/ EndCreateShort

-----------------------------------------------------------------------------
(***************************************************************************)
(* The process is killed: memory is gone, every open stream leaves a       *)
(* residue.  SaveCollection opens, writes and closes scheme.dat, a few     *)
(* hundred bytes at most that leave the buffer in one go: cut off before   *)
(* that, the file is empty.                                                *)
(***************************************************************************)
Crash ==
    /\ pc \notin Stopped
    /\ (IF pc \in Saving \union {"create"} THEN "crash_saving" ELSE "crash") \in Disturbances
    /\ crashes < MaxCrashes
    /\ crashes' = crashes + 1
    /\ pc' = "down"
    /\ batch' = << >> /\ todo' = {} /\ new_dict' = << >>
    /\ docs' = << >> /\ doc_lengths' = << >>
    /\ freq_dictionary' = << >> /\ doc_term_freqs' = << >> /\ primary_id_to_doc' = << >>
    /\ disk' \in Residues(disk) \union
                    (IF pc = "scheme" THEN Residues(WithFile("scheme", Torn)) ELSE {})
    /\ UNCHANGED <<acked, faults>>

(***************************************************************************)
(* Load, on the first request that names the collection after a restart.   *)
(* Without a field in scheme.dat, or with a torn docs.dat or dict.dat, the *)
(* request is answered 404, and so is every later one.  With some of the   *)
(* fields, docs.dat is read by those: what comes of bytes read by other    *)
(* fields than they were written by is the subject of IndexRegistry, and   *)
(* of a collection misread like this no more is said here until it is made *)
(* again.                                                                  *)
(***************************************************************************)
SchemeReadable == disk.scheme.st = "written"
NothingSaved == disk.docs = Absent \/ disk.dict = Absent

LoadEmpty ==
    /\ pc \in Stopped
    /\ SchemeReadable /\ NothingSaved
    /\ pc' = "idle"
    /\ acked' = << >>
    /\ UNCHANGED <<request, memory, disk, counters>>

LoadIndex ==
    /\ pc \in Stopped
    /\ SchemeReadable
    /\ disk.docs.st = "written" /\ disk.dict.st = "written"
    /\ LET dict == disk.dict.val
           num_docs == Len(disk.docs.val)
       IN  /\ docs' = disk.docs.val
           /\ freq_dictionary' = dict
           /\ doc_lengths' =
                  IF disk.lens.st = "written" /\ Len(disk.lens.val) = num_docs
                  THEN disk.lens.val
                  ELSE LengthsOf(dict, num_docs)
           /\ doc_term_freqs' = ForwardOf(dict, num_docs)
           /\ primary_id_to_doc' = IdMap(disk.docs.val)
    /\ pc' = "idle"
    /\ acked' = docs'
    /\ UNCHANGED <<request, disk, counters>>

LoadFails ==
    /\ pc \in Stopped
    /\ \/ disk.scheme = Torn
       \/ ~NothingSaved /\ (disk.docs = Torn \/ disk.dict = Torn)
    /\ pc' = "unavailable"
    /\ UNCHANGED <<request, memory, disk, acked, counters>>

LoadMisreads ==
    /\ pc \in Stopped
    /\ disk.scheme = Cut
    /\ pc' = "misread"
    /\ UNCHANGED <<request, memory, disk, acked, counters>>

Load == LoadEmpty \/ LoadIndex \/ LoadFails \/ LoadMisreads

-----------------------------------------------------------------------------
\* What a handler thread does of its own accord once it has a request.
Work == \/ \E d \in todo : IndexDocument(d)
        \/ InstallIndex
        \/ UpsertReplace \/ UpsertInsert \/ EndUpsert
        \/ Save \/ EndCreate

Request == \/ ClearBase
           \/ \E b \in Batches : ReplaceDocs(b) \/ BeginUpsert(b)
           \/ BeginCreate

Next == Request \/ Work \/ DiskFault \/ Crash \/ Load

Spec == Init /\ [][Next]_vars

-----------------------------------------------------------------------------
IsDict(dict) ==
    /\ DOMAIN dict \subseteq Term
    /\ \A t \in DOMAIN dict : dict[t] \in Seq([doc_id : Nat \ {0}, count : Nat \ {0}])

\* Every member has its type; the parallel vectors have one element per
\* document; only a bulk load has work for the workers.
CollectionTyped ==
    /\ pc \in {"idle"} \union Busy \union Stopped
    /\ batch \in Seq(Doc) /\ todo \subseteq DOMAIN docs
    /\ pc # "build" => todo = {}
    /\ docs \in Seq(Doc) /\ acked \in Seq(Doc)
    /\ DOMAIN primary_id_to_doc \subseteq Key
    /\ \A k \in DOMAIN primary_id_to_doc : primary_id_to_doc[k] \in Nat \ {0}
    /\ disk = Files(disk.scheme, disk.docs, disk.dict, disk.lens)
    /\ disk.docs.st \in {"buffered", "written"} => disk.docs.val \in Seq(Doc)
    /\ crashes \in 0 .. MaxCrashes /\ faults \in 0 .. MaxFaults

IndexTyped ==
    /\ doc_lengths \in Seq(Nat) /\ Len(doc_lengths) = Len(docs)
    /\ \A i \in DOMAIN doc_term_freqs : IsBag(doc_term_freqs[i])
    /\ pc # "build" => DOMAIN doc_term_freqs = DOMAIN docs
    /\ IsDict(freq_dictionary) /\ IsDict(new_dict)

TypeOK == CollectionTyped /\ IndexTyped

\* Whenever no bulk load is under way the dictionary is the inverse of the
\* documents: it holds exactly their terms, each list is strictly ordered by
\* doc_id, and a document is in it with its count iff the document has the
\* term; the forward index agrees (removeDocumentPostings and
\* addDocumentPostings against rebuildDocTermFreqsAndIdMap and Load).
DictAgrees(dict, ds) ==
    /\ DOMAIN dict = UNION {DOMAIN WordCount[ds[i]] : i \in DOMAIN ds}
    /\ \A t \in DOMAIN dict :
          /\ \A i, j \in DOMAIN dict[t] : i < j => dict[t][i].doc_id < dict[t][j].doc_id
          /\ ToSet(dict[t]) = {Entry(d, WordCount[ds[d]][t]) :
                                  d \in {i \in DOMAIN ds : t \in DOMAIN WordCount[ds[i]]}}

IndexAgrees ==
    pc # "build" =>
        /\ DictAgrees(freq_dictionary, docs)
        /\ doc_term_freqs = [i \in DOMAIN docs |-> WordCount[docs[i]]]

\* GetDocumentLength, which BM25 divides by, is the number of terms of the
\* document (addDocumentPostings, the workers, Load from either source).
LengthsAgree ==
    pc # "build" => \A i \in DOMAIN docs : doc_lengths[i] = SumFunction(WordCount[docs[i]])

\* The key map sends every key to the last document that holds it, so that an
\* upsert replaces and never adds a second document with a key it knows
\* (primary_id_to_doc_ in UpsertDocuments and in the rebuild).
KeyMapAgrees ==
    (HasIntField /\ pc # "build") =>
        /\ DOMAIN primary_id_to_doc = KeysOf(docs)
        /\ \A k \in KeysOf(docs) :
              LET d == primary_id_to_doc[k]
              IN  /\ d \in DOMAIN docs /\ KeyOf[docs[d]] = k
                  /\ \A j \in DOMAIN docs : KeyOf[docs[j]] = k => j <= d

\* An upsert keeps the internal id of every document it finds, and the id its
\* key (inverted_index.hpp, UpsertDocuments: "the same internal doc_id").
StableIds ==
    [][pc = "upsert" =>
          pc' = "down" \/ ( /\ Len(docs') >= Len(docs)
                            /\ \A i \in DOMAIN docs : KeyOf[docs'[i]] = KeyOf[docs[i]])]_vars

\* No upsert adds a document whose key the collection already holds: the
\* documents of one key stay as many as the last bulk load brought.
HoldersOf(ds, k) == {i \in DOMAIN ds : KeyOf[ds[i]] = k}

UpsertKeepsKeysUnique ==
    [][pc = "upsert" =>
          \A k \in KeysOf(docs') :
              Cardinality(HoldersOf(docs', k)) <= 1
              \/ HoldersOf(docs', k) \subseteq HoldersOf(docs, k)]_vars

\* A restart serves what the last answered request left (Load after Save).
LoadServesAcked == [][(Load /\ pc' = "idle") => (docs' = acked)]_vars

\* Whenever docs.dat and dict.dat can both be read they belong to one version
\* of the collection, whatever failed and whenever the process was killed: a
\* save that was cut off is never read as an index of other documents (Save
\* truncates dict.dat before it touches docs.dat).
Contents(f) == {g.val : g \in {h \in Residue(f) : h.st = "written"}}

FilesAgree ==
    \A ds \in Contents(disk.docs), dict \in Contents(disk.dict) : DictAgrees(dict, ds)

\* The documents of an answered request survive the process: whatever happens
\* later, the collection can be served (README.md:10, "persistence").
AckedSurvives == pc \in {"unavailable", "misread"} => acked = << >>

-----------------------------------------------------------------------------
(***************************************************************************)
(* The abstract store this index implements (module DocumentStore): the    *)
(* documents by key, last holder first served, and what docs.dat and       *)
(* dict.dat would be read as.  A copy whose scheme.dat cannot be read, or  *)
(* not whole, is not lost: creating the collection again makes it legible. *)
(* Misread, the collection counts as one that is not served.               *)
(***************************************************************************)
ByKey(ds) == [k \in KeysOf(ds) |-> ds[LastHolder(ds, k)]]

CopyServed ==
    IF NothingSaved THEN {<< >>}
    ELSE IF disk.docs.st = "written" /\ disk.dict.st = "written" THEN {ByKey(disk.docs.val)}
    ELSE {}

Abstract == INSTANCE DocumentStore WITH
                store <- ByKey(docs),
                copy <- CopyServed,
                legible <- SchemeReadable,
                status <- IF pc \in Stopped THEN "stopped"
                          ELSE IF pc = "create" THEN "renewing"
                          ELSE IF pc \in Saving THEN "saving" ELSE "serving"

\* The collection with its kills, failing file operations, loads and
\* re-creations implements the abstract store.  A restart serves the documents
\* of one save as a whole, or none.  They are those of the last save that
\* opened dict.dat: the version before it is given up there and never served
\* again.  A save that cannot open it, and a collection made again and not
\* saved, leave the older version to be served (Save, Load, CreateCollection).
ImplementsDocumentStore == Abstract!StoreSpec

=============================================================================
