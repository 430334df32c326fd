------------------------------ MODULE Handlers ------------------------------
(***************************************************************************)
(* The requests clients send to one collection (api_handlers.cpp): one     *)
(* client searches (module Search), posts batches of documents and makes   *)
(* the collection anew, another lists the documents page by page           *)
(* meanwhile.  A batch is checked document by document before any of it is *)
(* applied.  Requests come one at a time.                                  *)
(*                                                                         *)
(* A JSON value is [type, value]; a document's content is a function from  *)
(* names of fields to values, as it was posted.                            *)
(***************************************************************************)
EXTENDS Search

CONSTANTS
    Schemas,      \* lists of fields, [name, type], to make the collection with
    Contents(_,_),  \* the content of the d-th document of a collection that exists at first,
                  \* by d and its text
    Bodies,       \* bodies of batches: sequences of items
    KeyBits,      \* width of the keys: the 64 of int64_t
    DefaultLimit, \* api.default_limit
    ListLimits,   \* "limit" as the list of documents is asked with it: <<number>> or << >>
    MaxChanges    \* bound on the batches and schemas posted

ASSUME HandlersAssumption ==
    KeyBits \in Nat \ {0} /\ DefaultLimit \in Nat \ {0} /\ MaxChanges \in Nat

ASSUME ListAssumption ==
    /\ \A fs \in Schemas : IsList(fs)
    /\ \A body \in Bodies : IsList(body)
    /\ \A param \in ListLimits : param = << >> \/ param[1] \in Int

\* The strings of a document's content are texts.
StringsAreLists(content) ==
    \A name \in DOMAIN content : content[name].type = "string" => IsList(content[name].value)

ASSUME ContentAssumption ==
    /\ \A texts \in Corpora : \A d \in DOMAIN texts : StringsAreLists(Contents(d, texts[d]))
    /\ \A body \in Bodies : \A n \in DOMAIN body :
          body[n].type = "object" => StringsAreLists(body[n].content)

VARIABLES
    fields,    \* collection_.fields
    contents,  \* docs_; docs of module Search are their searchable texts
    posting,   \* the batch posted last, and what the handler made of it
    listing,   \* the pages of documents a client is asking for
    changes    \* ghost: batches and schemas posted so far

search == <<pc, request, words, doc_score, matched, full_list, total, seen>>
handlerVars == <<fields, contents, posting, listing, changes>>

-----------------------------------------------------------------------------
\* handlePostCollection: a list of fields the handler accepts; it answers 400 to
\* any other and changes nothing.
ValidFields(fs) ==
    /\ fs # << >>
    /\ \A n \in DOMAIN fs : fs[n].name # "" /\ fs[n].type \in {"int", "string"}

\* handlePostDocuments: an item is an object whose content has every field of
\* the collection with its type, and maybe others.
ValidContent(content) ==
    \A n \in DOMAIN fields :
       /\ fields[n].name \in DOMAIN content
       /\ content[fields[n].name].type = fields[n].type

ValidItem(item) == item.type = "object" /\ ValidContent(item.content)

IntFields == {n \in DOMAIN fields : fields[n].type = "int"}

\* SupportsIncrementalUpsert
HasKey == IntFields # {}

\* get<int64_t>() of a JSON number, which may be as large as an unsigned one.
Int64(number) == ((number + 2 ^ (KeyBits - 1)) % 2 ^ KeyBits) - 2 ^ (KeyBits - 1)

\* The value of the first int field.
Number(content) == content[fields[Min(IntFields)].name].value
KeyOf(content) == Int64(Number(content))

\* buildSearchableText.
SearchableText(content) ==
    LET text[n \in 0 .. Len(fields)] ==
            IF n = 0 THEN << >>
            ELSE IF fields[n].type # "string" THEN text[n - 1]
            ELSE IF text[n - 1] = << >> THEN content[fields[n].name].value
            ELSE text[n - 1] \o <<Blank>> \o content[fields[n].name].value
    IN  text[Len(fields)]

\* Mutant: a replaced document goes to the end.
UpsertOneMoves(all, content) ==
    SelectSeq(all, LAMBDA c : KeyOf(c) # KeyOf(content)) \o <<content>>

\* One document of UpsertDocuments: it replaces the last one with its key.
UpsertOne(all, content) ==
    LET holders == {d \in DOMAIN all : KeyOf(all[d]) = KeyOf(content)}
    IN  IF holders = {} THEN Append(all, content) ELSE [all EXCEPT ![Max(holders)] = content]

-----------------------------------------------------------------------------
NoBatch == [status |-> "none", body |-> << >>, incremental |-> FALSE, documents |-> << >>,
            before |-> << >>, inserted |-> 0, updated |-> 0]

NotListing == [status |-> "none", limit |-> 1, offset |-> 0, shown |-> << >>, first |-> << >>,
               steady |-> TRUE]

HandlersInit ==
    /\ Init
    /\ fields \in Schemas /\ ValidFields(fields)
    /\ contents = [d \in DOMAIN docs |-> Contents(d, docs[d])]
    /\ \A d \in DOMAIN docs : /\ ValidContent(contents[d])
                             /\ docs[d] = SearchableText(contents[d])
    /\ posting = NoBatch /\ listing = NotListing /\ changes = 0

\* The collection has other documents now.
Install(cs) ==
    /\ contents' = cs
    /\ docs' = [d \in DOMAIN cs |-> SearchableText(cs[d])]
    /\ index' = IndexOf(docs')
    /\ UNCHANGED search

MayChange == pc = "idle" /\ posting.status # "checked in part" /\ changes < MaxChanges

\* handlePostDocuments up to the loop over the items.
PostDocuments(body, incremental) ==
    /\ MayChange
    /\ changes' = changes + 1
    /\ posting' = [NoBatch EXCEPT
                     !.status = IF incremental /\ ~HasKey THEN "400" ELSE "checked in part",
                     !.body = body, !.incremental = incremental, !.before = contents]
    /\ UNCHANGED <<vars, fields, contents, listing>>

Item == posting.body[Len(posting.documents) + 1]

\* Mutant: an incremental batch is applied while it is being checked.
CheckItemApplies ==
    /\ posting.status = "checked in part" /\ Len(posting.documents) < Len(posting.body)
    /\ IF ValidItem(Item)
       THEN /\ posting' = [posting EXCEPT !.documents = Append(@, Item.content)]
            /\ IF posting.incremental THEN Install(UpsertOne(contents, Item.content))
               ELSE UNCHANGED <<vars, contents>>
       ELSE posting' = [posting EXCEPT !.status = "400"] /\ UNCHANGED <<vars, contents>>
    /\ UNCHANGED <<fields, listing, changes>>

CheckItem ==
    /\ posting.status = "checked in part" /\ Len(posting.documents) < Len(posting.body)
    /\ posting' = IF ValidItem(Item) THEN [posting EXCEPT !.documents = Append(@, Item.content)]
                  ELSE [posting EXCEPT !.status = "400"]
    /\ UNCHANGED <<vars, fields, contents, listing, changes>>

Checked == posting.status = "checked in part" /\ Len(posting.documents) = Len(posting.body)

\* UpdateDocumentBase: the collection has the documents of the batch and no others.
ReplaceDocuments ==
    /\ Checked /\ ~posting.incremental
    /\ Install(posting.documents)
    /\ posting' = [posting EXCEPT !.status = "202"]
    /\ listing' = [listing EXCEPT !.steady = FALSE]
    /\ UNCHANGED <<fields, changes>>

\* UpsertDocuments, document by document in the code.
UpsertDocuments ==
    /\ Checked /\ posting.incremental
    /\ LET cs == FoldLeft(UpsertOne, contents, posting.documents)
           inserted == Len(cs) - Len(contents)
       IN  /\ Install(cs)
           /\ posting' = [posting EXCEPT !.status = "202", !.inserted = inserted,
                                         !.updated = Len(posting.documents) - inserted]
    /\ UNCHANGED <<fields, listing, changes>>

\* handlePostCollection and IndexRegistry::CreateCollection: an empty index.
PostCollection(fs) ==
    /\ MayChange
    /\ ValidFields(fs)
    /\ fields' = fs
    /\ Install(<< >>)
    /\ posting' = NoBatch
    /\ listing' = [listing EXCEPT !.steady = FALSE]
    /\ changes' = changes + 1

-----------------------------------------------------------------------------
\* parseQueryInt: the default is not clamped.
QueryInt(param, default, low, high) ==
    IF param = << >> THEN default ELSE Clamp(param[1], low, high)

\* Requests of the second client fall between those of the first.
BetweenRequests == pc = "idle" /\ posting.status # "checked in part"

\* The client learns the limit from the first page.
StartListing(param) ==
    /\ BetweenRequests /\ listing.status # "more"
    /\ listing' = [NotListing EXCEPT !.status = "more", !.first = contents,
                                     !.limit = QueryInt(param, DefaultLimit, 1, MaxLimit)]
    /\ UNCHANGED <<vars, fields, contents, posting, changes>>

\* handleGetDocuments, and the client's next offset, where its page ended; it
\* stops at a short page, and where its next offset would be clamped.
GetDocuments ==
    /\ BetweenRequests /\ listing.status = "more"
    /\ LET start == QueryInt(<<listing.offset>>, 0, 0, MaxOffset)
           page == SubSeq(contents, start + 1, Smaller(start + listing.limit, Len(contents)))
       IN  listing' = [listing EXCEPT
                         !.shown = @ \o page,
                         !.offset = @ + Len(page),
                         !.status = IF Len(page) < listing.limit THEN "end"
                                    ELSE IF start + Len(page) > MaxOffset THEN "too far" ELSE "more"]
    /\ UNCHANGED <<vars, fields, contents, posting, changes>>

\* A search does not meet a batch half checked; listing changes nothing that a
\* search reads, so the client that searches does it before the other lists.
Searching ==
    /\ posting.status # "checked in part" /\ listing.status = "none"
    /\ Next
    /\ UNCHANGED handlerVars

HandlersNext ==
    \/ Searching
    \/ \E body \in Bodies, incremental \in BOOLEAN : PostDocuments(body, incremental)
    \/ CheckItem \/ ReplaceDocuments \/ UpsertDocuments
    \/ \E fs \in Schemas : PostCollection(fs)
    \/ \E param \in ListLimits : StartListing(param)
    \/ GetDocuments

HandlersSpec == HandlersInit /\ [][HandlersNext]_<<vars, handlerVars>>

-----------------------------------------------------------------------------
\* A batch is applied as a whole or not at all (handlePostDocuments): refused,
\* even for its last document, it leaves every document as it was; accepted, it
\* is the collection, or, incremental, it has put the last document of each of
\* its numbers in the place of the one that had it, or behind all others, left
\* the other places alone and counted right, repeated numbers included.
BatchIsWhole ==
    /\ posting.status = "400" => contents = posting.before
    /\ posting.status = "202" =>
          LET batch == [n \in DOMAIN posting.body |-> posting.body[n].content]
              Newest(n) == \A k \in n + 1 .. Len(batch) : Number(batch[k]) # Number(batch[n])
          IN  IF ~posting.incremental THEN contents = batch
              ELSE /\ \A n \in DOMAIN batch : Newest(n) => batch[n] \in ToSet(contents)
                   /\ \A d \in DOMAIN posting.before :
                         \/ contents[d] = posting.before[d]
                         \/ Number(contents[d]) = Number(posting.before[d])
                   /\ posting.inserted = Len(contents) - Len(posting.before)
                   /\ posting.inserted =
                         Cardinality({Number(batch[n]) : n \in DOMAIN batch}
                            \ {Number(posting.before[d]) : d \in DOMAIN posting.before})
                   /\ posting.inserted + posting.updated = Len(batch)

\* A client that lists the documents to the end has every document that was
\* there when it began exactly once, in its place, though documents were put in
\* and replaced between its pages (handleGetDocuments gives no order but the
\* internal ids); only a bulk load or a new collection spoils the list.
ListedOnce ==
    (listing.status = "end" /\ listing.steady) =>
        /\ Len(listing.shown) >= Len(listing.first)
        /\ \A d \in DOMAIN listing.shown :
              /\ d \in DOMAIN listing.first =>
                    \/ listing.shown[d] = listing.first[d]
                    \/ HasKey /\ KeyOf(listing.shown[d]) = KeyOf(listing.first[d])
              /\ d \notin DOMAIN listing.first =>
                    HasKey /\ \A e \in 1 .. d - 1 :
                                 KeyOf(listing.shown[e]) # KeyOf(listing.shown[d])

=============================================================================
