# FullTextSearchService in TLA+

This directory holds TLA+ models of the service, the TLC configurations that
check them, and proofs that TLAPS checks. `PROJECT.json` says, definition by
definition, which lines of the source each one models, and lists the runs, the
hazards, the findings and the theorems.

    tlc -workers 2 -config <Run>.cfg <Module>      # <Run> and <Module> as in PROJECT.json
    tlapm <Module>Proofs.tla

## 1. The system

| Component | State | Operations | Talks to |
|---|---|---|---|
| `ApiServer` | the HTTP server's thread pool, a `RateLimiter` | one route per request kind | calls the limiter, then a handler, on a thread of the pool |
| request handlers | none | search, list, post documents; create, get, list, delete collections | look an index up in the registry and use the raw pointer with no lock |
| `IndexRegistry` | `indexes_` (name to owned index), `load_mutexes_`, `mutex_`; the directories | `GetOrLoadIndex`, `CreateCollection`, `HasCollection`, `DeleteCollection`, `ListCollections` | creates, loads and destroys `InvertedIndex` objects |
| `InvertedIndex` | `docs_`, `doc_lengths_`, `freq_dictionary_`, `doc_term_freqs_`, `primary_id_to_doc_`; four files | `UpdateDocumentBase`, `UpsertDocuments`, `Save`, `Load`, getters | tokenizer for its texts, worker threads of its own during a bulk load |
| `Search` | none | `search`, `process_one_query`, phrase queries, BM25 | reads an index, `find_similar_terms` |
| fuzzy matching | none | `levenshtein_distance`, `find_similar_terms` | |
| tokenizer, stemmer, stop words, `ToLowerUtf8` | thread-local stemmers | text to tokens | libstemmer |
| highlighting | none | `cropField`, `highlightInString`, `buildSnippet` | stemmer |
| `RateLimiter` | a window per client address | `try_consume` | steady clock |
| configuration, `main` | read once | | |

**What is hard about it.** Every request runs on a thread of its own and shares
the registry with all others. The registry mixes one mutex for its map with one
load mutex per name, locked by hand and while the other is held; it gives out
raw pointers that no lock protects; it deletes and replaces objects others may
be using. An index is saved after every change, in place, in four files, with
nobody looking at the result, and read back after a kill; three of its five
structures are rebuilt then from the other two. Incremental updates must keep
all five in step over long sequences of requests. Search results are computed
out of hash tables and paged over separate requests.

**What makes each component correct.**

- *InvertedIndex*: the dictionary is the inverse of the documents and sorted;
  lengths, forward index and key map agree with the documents; upserts keep
  internal ids and add no second document for a key; a restart serves what was
  acknowledged; `docs.dat` and `dict.dat` are never read together when they are
  of different versions.
- *The threads of a bulk load*: none touches what another works on, nothing is
  lost or taken twice between their dictionaries, and the outcome is that of a
  load without threads.
- *Request handlers*: a batch is applied as a whole or not at all; a client that
  lists documents page by page misses none and gets none twice.
- *Tokenizer*: documents, queries and stop words meet in one form, whatever the
  bytes; lower case is written in place without harm.
- *IndexRegistry*: one index object per collection, one loader at a time, one
  owner per object, no pointer to a destroyed object, no deadlock, no deleted
  collection that comes back, fields served are the fields stored.
- *RateLimiter*: no window, present or past, lets more than the quota through; a
  client is refused for its own requests only.
- *Search*: pages fit together, what is found was asked for, what was asked for
  is found, phrases are exact, results can be highlighted.
- *Fuzzy matching*: the distance is the fewest edits; the filter loses nothing.
- *Highlighting*: a crop holds the first match; of the words shown exactly those
  that match stand between tags; the snippet is a beginning of the text.

## 2. Modules

| Module | Models | State and actions |
|---|---|---|
| `PostingLists` | posting lists and dictionaries, the private helpers of `InvertedIndex` | operators only |
| `InvertedIndex` | one collection under one request at a time | members of the class, the four files (`absent`, `torn`, `buffered`, `written`; a `scheme.dat` with some of its fields is `cut`), `pc` within a request; actions are the blocks of `UpdateDocumentBase`, `UpsertDocuments`, `Save` and `Load`, kills, failing file operations, and creation over an existing collection (`BeginCreate`, `EndCreate`) |
| `ParallelBuild` | `UpdateDocumentBase` with its three groups of threads | the group that runs, what each thread has still to do, the dictionaries of the threads, the keys to sort; one document, one dictionary or one list per step |
| `DocumentStore` | the abstract promise: a map from keys to documents and a copy of it | `Replace`, `Put`, `BeginSave`, `Overwrite`, `EndSave`, `FailSave`, `Stop`, `Restart`, `BeginRenew`, `EndRenew` |
| `IndexRegistry` | registry and handlers on the threads of the pool | `mutex`, `load_mutex`, `indexes`, objects with addresses and life times, directories with a `scheme.dat` that a kill may leave empty, a program counter, request and pointer per thread; a critical section of `mutex_` is one step unless it blocks inside |
| `RateLimiter` | `try_consume` on several threads | clock, windows, the threads between reading the clock and locking |
| `Levenshtein`, `EditDistance` | the recurrence and the filter; the two-row loop, cell by cell | `a`, `b`, `i`, `j`, `prev`, `curr` |
| `Tokenizer` | stop words loaded and a text tokenized, in bytes | lines and text still to read, the word in its buffer with the places read and written, stop words, the bag of tokens; one letter of a word per step |
| `Listing` | sequences a loop collects with `push_back` | operators only |
| `Text` | tokens, stems, lower case, substrings, matching words | operators only |
| `Search` | `handleSearch` and `process_one_query` | request, words still to look up, `doc_score`, matched terms, `full_list`, the client's pages |
| `Handlers` | batches, schemas and the list of documents (`handlePostDocuments`, `handlePostCollection`, `handleGetDocuments`) around the searches of one collection | fields, contents, the batch being checked, the pages of a list |
| `Formatting` | `highlight.cpp` | a document, a request, what is sent of them |
| `MC...` | small instances of the above | |
| `PostingListsProofs` | what the helpers on posting lists and on listed sequences do, for any length | lemmas the proofs of `InvertedIndex`, `ParallelBuild`, `Tokenizer`, `Handlers` and `Formatting` share |
| `...Proofs` | theorems about the above; those of `ParallelBuild` are in `InvertedIndexProofs` | |

`Search` extends `Text`, `PostingLists` and `Levenshtein`; `Handlers` extends
`Search` and shares its collection with it; `Formatting` extends `Text`, which
extends `Listing`.
`ParallelBuild` extends `InvertedIndex` and refines it, `InvertedIndex` refines
`DocumentStore` (section 5). `Tokenizer` works on bytes and is compared, at its
end, with the operators of `Text` on letters. `IndexRegistry` and
`InvertedIndex` cut the system between the objects and their inside: the first
knows an index by its address and schema, the second has one object and knows
all of its state. Names are those of the code without the trailing underscore.
Documents are numbered from 1 in the models and from 0 in the code.

Each property of a passing run has a mutant, a definition placed before the one
it varies and named for what goes wrong in it (`OpenDictKeeps`, `IdMapFirst`).
Mutants are not part of the specifications; they show that the property notices
the fault.

### How steps were chosen

- *InvertedIndex.* A bulk load indexes one document per step, in any order; the
  lists are then sorted in one step. Each file operation of `Save` that changes
  what a reader could see later is one step. An `ofstream` keeps what it is
  given in a buffer: until the streams are closed, together at the end of
  `Save`, a file may be complete or cut off. `scheme.dat` is opened, written and
  closed within `SaveCollection`; a kill in that step leaves it empty, and a
  write that fails leaves it empty or with some of its fields. `CreateCollection`
  over an existing collection is two steps: `scheme.dat` is opened, which empties
  it, and then it is written and the new index is put in its place. A collection
  loaded by some of its fields is `misread`: of bytes read by other fields than
  they were written by nothing more is said here (`IndexRegistry` lets such a
  load succeed, fail or throw).
- *ParallelBuild.* A thread's step is one document, one dictionary gone through
  by a merge worker, or one list sorted; `ThreadsApart` says that what the next
  steps of two threads touch is disjoint, which is why no finer step is needed.
  A group starts when the one before it has been joined. Keys to sort come in
  any order, as out of a hash table.
- *Tokenizer.* A step of the lower-case loop decodes one letter at `i` and writes
  it at `write_pos` of the same buffer. A line of the stop word file is any
  bytes; a text comes out of JSON and is valid UTF-8. Inline stop words are
  lines like those of the file.
- *Handlers.* A batch is checked one document per step and applied in one.
  Requests of this module come one at a time: what two of them do to each other
  without a lock is the business of `IndexRegistry` (`DataRace`). Pages of a
  list are separate requests, with batches between them. Keys have `KeyBits`
  bits and wrap around as `get<int64_t>` does.
- *IndexRegistry.* `Load` is two steps (scheme, then data), because the
  directory may change in between; a `Save` is one step, and a kill while a
  thread is in it leaves files that cannot be read, `scheme.dat` as it was,
  emptied or written. A kill while a thread is in `CreateCollection` may leave an
  empty `scheme.dat`; the collection is then refused until it is made again. Use of a null pointer ends
  the process; use of a destroyed object ends it or goes unnoticed, the two
  outcomes the build can have.
- *RateLimiter.* Reading the clock and the critical section are two steps.
- *Search.* The words of a query are taken in any order, since they are keys of
  a hash table. A score is an integer computed from BM25's formula with a table
  of logarithms; division by the largest score keeps the order and is left out.
- *Formatting.* A letter has a width in bytes; the tags are symbols of their own.

## 3. Runs that pass

| Run | Instance | Shows |
|---|---|---|
| `InvertedIndex` | `ParallelBuild` on 2 keys, 3 terms, 2 cores, batches of up to 4 documents, kills | the threads of a load never meet, the load with threads implements the one without; index, lengths and key map agree with the documents; upserts keep ids and keys; a restart serves what was acknowledged |
| `Restart` | at most 3 documents, 2 kills at any step, 1 failing file operation, re-creation | `docs.dat` and `dict.dat` are never both readable and of different versions; the collection implements `DocumentStore` |
| `RegistryServing` | 3 threads, 2 names, 2 schemas, reads, writes, kills | one index per collection, with the stored fields; no load mutex left locked |
| `RegistryChanges` | 2 threads, 1 name, 2 schemas, every operation, kills | one loader; who waits for a load mutex, waits for ever; every object has one owner |
| `OneClient` | 2 threads, each with a collection of its own, kills | no dangling pointer, no deleted collection that returns, every request answered |
| `RateLimiter` | 2 threads, 2 clients, quota 2, window 2 ticks, delays to 2 | quota per window, present or past; bursts bounded, where there is a quota; refusals deserved |
| `EditDistance` | all pairs of words up to 3 letters over 2 letters | the loop computes the recurrence, the recurrence is the fewest edits, the filter is safe |
| `Search` | `Handlers` on 6 collections, 4 schemas, 5 bodies posted in bulk and incrementally, 2 changes, 11 queries, 10 modes, 3 limits, 4 limits of lists | pages, phrases, what is found and what is not, on every collection the batches make; batches whole or not at all; lists complete |
| `Tokenizer` | texts of up to 4 letters of 1 to 4 bytes, 3 lists of stop words, every line of up to 5 of 8 bytes | tokens counted are those of the letters; no byte is overwritten before it is read |
| `Formatting` | up to 2 fields of up to 5 words, any of them cropped, highlighting or not, 5 crop lengths, 5 snippet lengths | where a field is cropped; that exactly the matching words are tagged; where the snippet ends |

**Bounds and why they are enough.** The batches of `InvertedIndex` contain
every case its code tells apart: an empty batch, a key given twice, a document
without terms, a replacement that shares some terms, all or none with its
predecessor, an insertion and a replacement in one batch, a document with a
field outside the schema; four documents give lists of three postings with one
to remove in the middle, and two kills allow a kill after a load. Three threads
are one more than any of the registry's races needs; where collections are also
created and deleted with two schemas, two are as many as TLC gets through, and the
theorems cover the rest. Five object addresses are
as many as three threads and two names can hold, so `new` never fails. The
limiter's clock runs for two windows and a delay may be as long as one. Words of
three letters already need all three neighbours of a cell; the number of edits a request may ask for
is at most 3. The collections of `Search` have documents of equal score, words
that are parts of others, one edit from others, stop words, over-long words and
empty documents; `MaxLimit` is small so that limits are clamped by it, and
`MaxOffset` so that pages of one document, of the five that batches make, reach
it and the client stops there; `LogIdf` is a table for up to six documents. Two changes allow a batch between
the pages of a list and one more, or a collection made anew and filled; the
bodies repeat a number, replace and insert at once, lack a field and end in
something that is no document. Two cores and four documents give each worker two
documents and one merge worker two terms. The letters of `Tokenizer` are the
ends of the ranges that have small forms, a capital whose small form would be
longer, and one letter of each length; its bytes are those that begin letters of
one to four bytes, that continue one, and that begin an overlong letter or a
number past the last code point.

**Deadlock** is checked except in `Tokenizer`, which stops when its text is
tokenized, and in the configurations of section 4 where the
lock cycle of the registry could be met before the violation. In `RegistryServing`
and `RegistryChanges` the cycle is met and a kill ends it.

**Fairness.** `RequestAnswered` assumes that a thread that can take its next
step is scheduled eventually (weak fairness of `Step`): the operating system
schedules every runnable thread and no handler waits for a client once it runs.
Nothing is assumed of clients, kills or faults. Weak fairness is enough for the
mutexes, since in `OneClient` the contended one is free after every step.

## 4. What the code does not keep

Each of these configurations states one thing the repository says of the
program, and TLC shows how the code departs from it. The first two are runs of
`PROJECT.json`, which quotes the lines; the others are checked with the same
command and their module.

| Configuration | Module | Property | What happens |
|---|---|---|---|
| `LockCycle` | `MCIndexRegistry` | `NoLockCycle` | two first requests for one collection: one waits for the load mutex with `mutex_` held, the other needs `mutex_` to give it back; no request is served any more |
| `DeletedReturns` | `MCIndexRegistry` | `DeletedIsGone` | a load or save under way brings a deleted collection back |
| `UseAfterFree` | `MCIndexRegistry` | `NoUseAfterFree` | a handler works on an index that another thread has destroyed |
| `DataRace` | `MCIndexRegistry` | `NoDataRace` | a search reads what a posted batch is writing |
| `NullIndex` | `MCIndexRegistry` | `CreatedIsThere` | a collection deleted right after its creation is dereferenced as null |
| `StaleLoad` | `MCIndexRegistry` | `ServedSchemaIsStored` | a load of the old scheme replaces the collection just made |
| `OrphanLock` | `MCIndexRegistry` | `NoOrphanLock` | an exception in `Load` leaves the load mutex locked |
| `CrashWhileSaving` | `MCInvertedIndex` | `AckedSurvives` | a kill during a save loses the acknowledged documents too |
| `SaveUnnoticed` | `MCInvertedIndex` | `LoadServesAcked` | a failed save is acknowledged; a restart serves older documents |
| `RecreatedReturns` | `MCInvertedIndex` | `LoadServesAcked` | a restart brings the documents of a collection made again back |
| `StaleLengths` | `MCInvertedIndex` | `LengthsAgree` | lengths of other documents are read from an older `doc_lengths.dat` |
| `CommonWord` | `MCSearch` | `EveryHolderIsFound` | a word held by all documents finds none, though ARCHITECTURE.md:65 gives it a weight |
| `KeyWrap` | `MCHandlers` | `BatchIsWhole` | a number beyond `int64_t` becomes the key of another document, which it replaces |
| `MinuteQuota` | `RateLimiter` | `MinuteQuota` | two windows together admit more than the quota in one minute |
| `SymbolEdits` | `MCEditDistance` | `LetterIsOneEdit` | one Cyrillic letter is two edits |
| `CropWindow` | `MCFormatting` | `CropIsFull` | the crop near the end of a field is shorter than `crop_length` |
| `SnippetCut` | `MCFormatting` | `SnippetIsText` | the snippet is cut inside a letter |

Two divergences of the documentation need no model: README.md:265 describes a
`highlight` object that api_handlers.cpp:76 rejects, and the example answer at
README.md:307-308 has `limit` and `offset`, which api_handlers.cpp:272 does not send.

## 5. The abstract specification

`DocumentStore` says what a collection promises to a user with an int key: a
map from keys to documents, changed by a whole batch or one document at a
time, and one copy of it that outlives the process. A save gives the old copy
up before the new one is complete; when it is cut off or fails after that, the
next start serves the documents it was to keep, or none, and never again the
version that was given up. A save that cannot open `dict.dat` gives nothing up,
and a collection that is made again and not saved keeps its old copy: a start
serves those then, as one whole version. Making a collection again is two steps
(`BeginRenew`, `EndRenew`) with unknown fields in between; a `Stop` there leaves
a copy that nobody can read before the collection is made once more.
`InvertedIndex!Abstract` maps to it: `store` is the
documents by key (last holder), `copy` is what `docs.dat` and `dict.dat` would be
read as, `legible` whether `scheme.dat` is whole, `status` comes from `pc`; a
`misread` collection counts as stopped. The run
`Restart` checks that every step of the code, kills and failing file operations
included, is a step of the store or none.

`InvertedIndex` is itself the abstract form of a bulk load for `ParallelBuild`.
`ParallelBuild!Sequential` maps the threads to it: `new_dict` is what indexing
the documents in the order the threads have taken them would have made
(`PushedInOrder`), merging and sorting are stutters, and `InstallSorted` is
`InstallIndex`, whose one sort must give the lists that the sort threads made.
The run `InvertedIndex` checks it.

## 6. Proofs

All theorems hold for every value of the constants that satisfies the named
assumptions of the modules and, where one is stated, the hypothesis of the
theorem. Everything rests on those and on the library's theorems, which TLAPS
ships with proofs.

- **PostingListsProofs.** Lemmas only. `LowerBound` splits a list in order of
  `doc_id`, erasing and inserting there keeps it in order and removes or adds one
  document (`Erased`, `Inserted`); a list in which every document occurs once can
  be sorted (`OrderExists`, by rank) and has the same postings then. On these rests
  that `DictWith`, `DictWithout` and `PushPostings` take a dictionary that is the
  inverse of some bags (`Inverts`) to one that is the inverse of the changed bags,
  and that `ForwardOf` reads the bags back. At its end are facts the others
  have in common: what holds of zero and of the number after each holds of all
  (`FromZero`, with a set where an induction rule has a predicate), a function
  given step by step exists (`StepByStep`), and the sum of finitely many numbers,
  which the community modules take in the order that `CHOOSE` gives, is the same
  in any other (`SumTakes`); what `InOrder`, `OnlyFrom` and `FlattenSeq` give of a
  sequence that is put together from others (`InOrderConcat`, `FlattenConcat`);
  the words of two texts with a blank between them are those of the one and then
  those of the other (`RunsSideBySide`, of `RunsBetween`); and there is one dictionary in order that inverts given bags
  (`OneAscendingDict`).
- **InvertedIndexProofs.** `TypeCorrect` covers the part of `TypeOK` named
  `CollectionTyped`; `KeyMapCorrect` strengthens `KeyMapAgrees` by the number of
  documents of the forward index, on which `UpsertDocuments` decides whether to
  rebuild. `UpsertKeepsIds` and `UpsertKeepsUnique` are action properties from
  it. `IndexCorrect` and `DocsMatchDict` come from one inductive invariant,
  `IndexInvariant`, which says of every state what `IndexAgrees` says only of a
  collection at rest: in memory the dictionary is the inverse of the documents at
  every moment but during a bulk load (`MemoryMatches`), and then the new one is
  that of the documents its workers have taken (`WorkersMatch`); on the disk (`FilesMatch`) a `docs.dat` and a
  `dict.dat` that can both be read are of one version, the buffers of open streams
  included. The index is needed for the files, because what is read back becomes
  the index, and the files for the index. `CollectionIsAStore` shows every
  action to be one of `DocumentStore` or a stutter under `IndexInvariant`.
  `LengthsCorrect` uses `LengthsFollow` (what is in memory and what
  `doc_lengths.dat` would be read as are the lengths of the documents beside it) and assumes
  `Disturbances \subseteq {"crash", "recreate"}`: `StaleLengths` shows that a
  failing disk breaks it. `RestartServesAcked` uses the invariant `FilesFollow`
  (whenever no save is under way the files hold the acknowledged documents) and
  assumes `Disturbances \subseteq {"crash"}`; section 4 shows that each of the
  excluded disturbances breaks it.
  About `ParallelBuild`: `ThreadsNeverMeet`, for any number of documents, cores
  and terms and any hash. Its invariant `ThreadsInv` says of each group what
  shares are left: a thread has part of the share it was given, shares of
  different threads are disjoint because their members differ modulo the number
  of threads, and terms by their hash; the keys to sort are all different.
  `ParallelLoadCorrect` proves `IndexAgrees` once more, of the index the threads
  make. `LoadInvariant` says for each group what the dictionaries of the workers
  hold: the first group's are the inverses of the documents each has taken
  (`SharesIndexed`), the merged ones of whole documents, term by term, with no
  posting twice (`SharesMerged`), and the lists already sorted are in order
  (`ListsSorted`). `LoadIsSequential` proves the refinement of section 5. The
  documents in the order they were indexed are those that are done, each once
  (`OrderFollows`), so what pushing them in that order makes inverts their bags
  (`PushAllInverts`). So does what the threads have gathered and sorted, and by
  `OneAscendingDict` the two are one.
- **IndexRegistryProofs.** `TypeCorrect`, then `LoadedByOne`, from the invariant
  `LockInv`, which also says that `mutex_` is kept by the thread that waits for a
  load mutex and that this load mutex is locked. `WaiterIsNeverServed` needs
  those two: to unlock the load mutex takes `mutex_`, so from such a state no
  step but a restart changes the waiter, and the deadlock of `LockCycle` cannot
  resolve itself.
  `ObjectsHaveOneOwner` needs type correctness and `LoadedByOne`.
  `LoadedOnce` assumes that no client creates collections, `HandlersShareTheIndex`
  that collections are only read and written (`OnlyRequests`); with
  `ObjectsHaveOneOwner` it gives `NoHandlerDangles`, under the same assumption.
  The configurations `StaleLoad` and `UseAfterFree` show why it is needed.
  `OwnDeletedIsGone` and `OwnHandlerDoesNotDangle` allow every operation but
  assume what the run `OneClient` does, that each thread keeps to collections of
  its own; their invariants say that whatever concerns a name (a pointer, a
  directory, a lock, an index) concerns its one thread, and what that thread is
  about to do. `LocksHaveOwners` assumes that no client creates collections,
  `SchemaServedIsStored` that they are only read and written.
- **TokenizerProofs.** `LowerIsNotLonger` computes, length by length, that no
  letter's lower case is encoded in more bytes than it was decoded from.
  `LoweringIsInPlace` is then an invariant together with the lengths of the
  buffer and of the bytes still to read; it assumes `GivenAssumption`, that
  texts are made of code points and raw lines of bytes. That the minimum and the
  maximum of a finite set of numbers belong to it is a lemma of
  `PostingListsProofs`.

  `TokensCounted` proves `CountsTheTokens`. Its invariant `TokensInv` says at
  every step, letter by letter of a word included, which lines have become stop
  words (`LinesRead`), which words are counted (`WordsTaken`) and how much of the
  word in the buffer is in lower case (`Copied`). The steps rest on what bytes
  and letters have in common: decoding gives back the letter that was encoded,
  whatever follows it (`Decoded`); two texts with the same bytes are one
  (`Utf8Injective`), so counting bytes is counting words; a byte is a space or
  a blank only where a letter is (`TrimmedInBytes`, `WordTaken`), since the bytes
  of longer letters are all above 127; and the size in bytes that bounds a word
  is the sum of its letters' widths (`SizeInBytes`). A byte that begins no letter
  can only be met in the lines of a broken stop word file; then no text is given,
  and only `UnreadBytesKept` says anything.
- **RateLimiterProofs.** One invariant, `LimiterInvariant`: the present window of
  a client has as many requests let through as its count, numbered up to it
  (`CountsAgree`, `RecordsFit`); a thread's clock value is at most `MaxDelay` old,
  a request was decided within its window and the delay, the windows of a client
  lie apart, and in a window every request has a number of its own, at most the
  quota (`TimesInv`). So the requests of a window that is over are no more than
  its numbers (`QuotaHolds`). `RefusedAtQuota` adds that a full window is one that
  still lasts. For `BurstsBounded` the requests of a span fall in at most two
  windows when there is no delay, in as many more as the delay reaches into.
- **EditDistanceProofs.** `DistanceTable` is a recursive function over pairs.
  That it satisfies its recurrence, and that a cell is at least the difference of
  its indices, is shown by a least counterexample (`LeastNatural`, from the well
  foundedness of the naturals), so no induction rule with an operator parameter
  is needed. `TwoRowsSuffice` rests on the invariant that `prev` is row `i - 1`
  and the filled part of `curr` is row `i` of the table. `DistanceIsFewest` ties
  the table to its meaning for words of any length over any bytes. One
  direction: an edit raises no cell by more than one (`OneEditFurther`), so
  nothing within `k` edits is further than `k`. The other: the words that begin
  like one and end like the other are, from corner to corner of the table, within
  as many edits of the first as the cell says (`MixedIsWithin`). The set of words
  within `k` edits is a recursive function whose existence is proved as well
  (`BallExists`).
- **HandlersProofs.** `HandlersInvariant` has three parts: types, with every
  document of the collection valid for its fields; what the batch posted last has
  led to so far (`Followed`); and that the pages of a list are the first places of
  a collection that has only grown since (`PagesFollow`, `Grown`). What a batch of
  any length does is the lemma `UpsertedBatch`: the fold of `UpsertDocuments` is
  taken apart into its single documents (`UpsertsInTurn`), and each keeps the keys
  of all places, appends only new keys, and counts them. `ListedCorrectly` needs
  nothing else; `BatchCorrect` also assumes `NumbersFit`, that the numbers given
  are those of `int64_t`; the configuration `KeyWrap` shows that it is needed.

  Five theorems are about the searches that run between those batches. They
  need no bound on texts, queries, the table of logarithms or the pages.
  `InOrder`, of which words and tokens are made, gives the values of a finite
  function in order (`InOrderLists`); with that the dictionary of the texts is
  their inverse (`IndexInverts`), from `Inverts` and the lemmas about
  `PushPostings`, so the postings of a term are the documents that hold it
  (`ListOfHolders`). The invariants follow the steps of a request:
  - `SearchInvariant`: the collection is what its texts make it, no batch
    comes in between the steps of a request, and a phrase query has its answer.
    `PhraseCorrect` follows: a document that holds the phrase is in the list of
    each of its tokens, so it is in the shortest.
  - `HeldInvariant`: the holders of every word already looked up are among the
    documents found. `HeldWordsFound` follows.
  - `PageInvariant`: the scores so far are those that the words looked up so far
    add up to (`ScoreAfter`, a sum over a set, so the order does not matter),
    and the pages seen so far are the first part of `AnswerOf`, which is
    defined from the collection and the request alone. Two pages of a query that
    take its words in different orders therefore agree, and since the ranking
    lists every document found once (`PlacesDiffer`), `PagesCorrect` follows.
  - `TermsInvariant`: every document found so far holds one of the matched
    terms, and these are tokens of the query when it asks for whole words.
    `HighlightsCorrect` follows, as the highlighter compares stems and a
    document's token is a stem of one of its words.
  - `FoundInvariant`: everything found so far holds the query. `OnlyHoldersFound`
    follows. The attempt to prove it changed the property: the whole query may
    be a part of a token and still of no text, since a token is a stem and
    `happi`, which the query `i` finds, is no part of `happy`.

- **FormattingProofs.** The state of `Formatting` is what was computed last, so
  the invariant `Answered` only says that; the work is in the operators, which
  are proved for texts of any length. A word is known by its first and its last
  letter (`WordAt`, `WordOf`), and the words of two texts with a blank between
  them are those of both (`SplitWordsApart`). `CropsAroundMatch` rests on it: what a crop shows are the words of its
  pieces (`PiecesShowWindow`), of which the marker may have several or none; and
  highlighting leaves the letters as they are (`HighlightKeepsLetters`), so it
  does not matter whether the crop is read with its tags. `HighlightsMatches`
  follows the loop of `highlightInString` over the text. A blank is copied
  (`LoopAtBlank`); a word is copied letter by letter, with one tag in front and
  one behind if it matches and none if not (`LoopInWord`), so what is put out
  for it is one word again, the tagged one (`TaggedWord`). By induction over the
  beginnings of the text that end with a blank or with a word
  (`WordsHighlighted`), the words put out are those of the text, each tagged or
  not as it matches. A field that was cropped still has a match, by what a crop
  shows. `SnippetFits` takes the longest beginning of the text that fits, which
  exists since the empty one does (`SnippetIsPrefix`).

**Assumptions.** Those about constants are named `ASSUME`s, which TLC evaluates.
`TextAssumption`, `ListAssumption` and `ContentAssumption` say that what the code
has as strings and arrays are sequences, `ModeAssumption` that a request's flags
are Booleans and its number of edits is an integer, and `CaseAssumption` that
blanks and the byte order mark have no capitals, as in `ToLowerUtf8`. Three
hypotheses of the theorems about `Search` range over all texts or numbers, so
they are definitions that a theorem names. `IdfIsPositive`: the logarithm of
`bm25_idf` is above 0 where some documents hold a term and not all do; it is
that of one plus a positive number. `StemsAreLists` and `StemsAreNotEmpty`:
libstemmer, which is a constant, makes a word of a word, and leaves something of
it; without the second the highlighter would have no stem to look for.
`PagesCorrect` needs the first, for the distance of two tokens to be a number.
`TokensCounted` has two such hypotheses about the constants of `Tokenizer`.
`LowersAsTheCode`: the lower case the documentation speaks of (`Lower`) is, for
the letters in question, the one `ToLowerCodepoint` makes; of Latin and Russian
letters that is so, of other alphabets the code promises nothing. `StemsLetters`:
libstemmer makes of a word in UTF-8 the bytes of what it makes of its letters.
`MCTokenizer` evaluates the second for words of up to two of its letters; the run
would find a letter for which the first fails.
`FormattingAssumption` makes the tags two symbols that are no letters: a text in
which a tag is already written, letter by letter, has it as letters. The marker,
which a client chooses, is any letters, blanks among them, or none.

**Only model-checked.** Liveness (`RequestAnswered`): the prover has no rule for
fairness and `ENABLED`. The second part of `TypeOK` of `InvertedIndex`, which says
only that the structures have their types.

## 7. Not modelled

JSON text, HTTP, configuration, `main`, logging. A body that is no JSON or no
array, and the name of a collection with its checks: they are answered 400
before anything is read or changed. `handleListCollections`, which reads the directory only, and the
setters, called once before the server starts. Several queries in one call of
`Search::search`, which the handler never makes. libstemmer, which is a
constant. `attributesToRetrieve`. Float rounding of scores. `Save` inside `IndexRegistry`
is one step; its inside is `InvertedIndex`. Two requests of which one changes an
index while the other works on it: C++ gives such a data race no meaning, so
`IndexRegistry` shows that it can be met (`DataRace`) and nothing models what
comes of it.

## 8. Plan

Done, in this order: `PostingLists`, `InvertedIndex`, `DocumentStore`;
`IndexRegistry`; `RateLimiter`; `Levenshtein`, `EditDistance`; `Text`, `Search`,
`Formatting`; the proofs of the first four; `ParallelBuild` with its refinement
and its proof; `Tokenizer` with its proof; `Handlers`; the proofs of the index,
the files, the refinement of `DocumentStore`, the lengths, the load with threads
and its refinement of `InvertedIndex`, the edit distance, the handlers, the
searches and the formatting.

Next:

1. The results that `handleSearch` formats on threads of its own, refining the
   sequential form.
