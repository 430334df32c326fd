---------------------------- MODULE IndexRegistry ----------------------------
(***************************************************************************)
(* The collections of the service: class IndexRegistry (index_registry.hpp *)
(* and .cpp) and the request handlers that use it (api_handlers.cpp), run  *)
(* by the threads of the HTTP server's pool.                               *)
(*                                                                         *)
(* The registry has one mutex, mutex_, and one load mutex per name.  A     *)
(* critical section of mutex_ is one step, except where the code blocks    *)
(* inside it: GetOrLoadIndex locks the load mutex while it holds mutex_.   *)
(* Handlers keep the InvertedIndex* that GetOrLoadIndex returns and use it *)
(* with no lock at all, so the life of every index object is modelled; an  *)
(* object is told apart by its address and its schema.  What happens       *)
(* inside one index is the subject of module InvertedIndex.                *)
(***************************************************************************)
EXTENDS Integers

CONSTANTS
    Thread,    \* threads of the server's pool
    Name,      \* valid collection names
    Object,    \* addresses of InvertedIndex objects
    Schema,    \* field lists a client may give a collection
    Requests,  \* [Thread -> the requests clients send it: records [op, name, schema]]
    NULL,      \* no object, no schema, no thread
    MayCrash   \* whether the process may be killed and started again

Ops == {"read", "write", "create", "delete"}
RequestType == [op : Ops, name : Name, schema : Schema]

ASSUME RegistryAssumption ==
    /\ DOMAIN Requests = Thread
    /\ \A t \in Thread : Requests[t] \subseteq RequestType
    /\ NULL \notin Thread \union Object \union Schema
    /\ "torn" \notin Schema
    /\ MayCrash \in BOOLEAN

VARIABLES
    mutex,       \* the holder of mutex_ where it blocks inside, or NULL
    load_mutex,  \* [Name -> holder of load_mutexes_[name], or NULL]
    indexes,     \* [Name -> the object indexes_ owns, or NULL]
    live,        \* the objects constructed and not yet destroyed
    schema,      \* [Object -> its collection_, or NULL for no fields]
    disk,        \* [Name -> what scheme.dat and the index files hold]
    pc, req, ptr,\* [Thread -> where it is, its request, its InvertedIndex*]
    gone         \* ghost: names deleted by an answered request and not created since

shared == <<mutex, load_mutex, indexes, live, schema, disk, gone>>
vars == <<mutex, load_mutex, indexes, live, schema, disk, pc, req, ptr, gone>>

name(t) == req[t].name
schemaOf(t) == schema[ptr[t]]

\* scheme.dat of a schema, and docs.dat/dict.dat as written under a schema;
\* "torn" when the writing of them was cut off: an empty scheme.dat.
Directory == [scheme : Schema \union {NULL, "torn"}, data : Schema \union {NULL, "torn"}]
NoDirectory == [scheme |-> NULL, data |-> NULL]
Torn(n) == [scheme |-> disk[n].scheme, data |-> "torn"]

\* Labels of a thread that owns its load mutex, of one that owns an object
\* nobody else sees, and of one that uses a pointer into the registry.
Loading == {"recheck", "scheme", "data", "install", "discard"}
Private == {"data", "install", "discard"}
Using == {"read", "write", "save", "deref"}
Labels == {"idle", "find", "wait", "create", "has", "delete"} \union Loading \union Using

Goto(t, label) == pc' = [pc EXCEPT ![t] = label]
Point(t, o) == ptr' = [ptr EXCEPT ![t] = o]

\* The thread has answered and waits for the next request.
Answer(t) == /\ Goto(t, "idle") /\ Point(t, NULL)
             /\ req' = [req EXCEPT ![t] = NULL]

Init ==
    /\ mutex = NULL
    /\ load_mutex = [n \in Name |-> NULL]
    /\ indexes = [n \in Name |-> NULL]
    /\ live = {} /\ schema = [o \in Object |-> NULL]
    \* The directories an earlier process left: none, or a collection.
    /\ disk \in [Name -> {NoDirectory} \union {[scheme |-> s, data |-> s] : s \in Schema}]
    /\ pc = [t \in Thread |-> "idle"]
    /\ req = [t \in Thread |-> NULL]
    /\ ptr = [t \in Thread |-> NULL]
    /\ gone = {}

\* new: any address that no object is at and no thread remembers.
Unused == {o \in Object \ live : \A t \in Thread : ptr[t] # o}
NewObject == CHOOSE o \in Unused : TRUE

-----------------------------------------------------------------------------
\* A request reaches a thread that has none.
Receive(t) ==
    /\ pc[t] = "idle"
    /\ \E r \in Requests[t] :
          /\ req' = [req EXCEPT ![t] = r]
          /\ Goto(t, IF r.op = "create" THEN "create"
                     ELSE IF r.op = "delete" THEN "has" ELSE "find")
    /\ UNCHANGED <<shared, ptr>>

-----------------------------------------------------------------------------
(***************************************************************************)
(* GetOrLoadIndex.                                                         *)
(***************************************************************************)
\* Where the handler goes on with the index it asked for.
Use(t) == IF req[t].op = "create" THEN "deref"
          ELSE IF req[t].op = "write" THEN "write" ELSE "read"

\* nullptr: the handler answers 404, but handlePostCollection does not look.
NotFound(t) == IF req[t].op = "create"
               THEN Goto(t, "deref") /\ Point(t, NULL) /\ UNCHANGED req
               ELSE Answer(t)

Found(t) ==
    /\ pc[t] = "find" /\ mutex = NULL
    /\ indexes[name(t)] # NULL
    /\ Goto(t, Use(t)) /\ Point(t, indexes[name(t)])
    /\ UNCHANGED <<shared, req>>

NoScheme(t) ==
    /\ pc[t] = "find" /\ mutex = NULL
    /\ indexes[name(t)] = NULL
    /\ disk[name(t)].scheme = NULL
    /\ NotFound(t)
    /\ UNCHANGED shared

\* No index yet, but a directory: the load mutex of the name is made, if it
\* is not there, and locked while mutex_ is held.
AtLoadMutex(t) ==
    \/ /\ pc[t] = "find" /\ mutex = NULL
       /\ indexes[name(t)] = NULL
       /\ disk[name(t)].scheme # NULL
    \/ pc[t] = "wait"

\* Mutants: the load mutex lets a second thread in; one mutex for all names.
LockLoadMutexShared(t) ==
    /\ AtLoadMutex(t)
    /\ load_mutex' = [load_mutex EXCEPT ![name(t)] = t]
    /\ mutex' = NULL
    /\ Goto(t, "recheck")
    /\ UNCHANGED <<indexes, live, schema, disk, req, ptr, gone>>

LockLoadMutexOfAll(t) ==
    /\ AtLoadMutex(t)
    /\ load_mutex[name(t)] = NULL
    /\ load_mutex' = [n \in Name |-> t]
    /\ mutex' = NULL
    /\ Goto(t, "recheck")
    /\ UNCHANGED <<indexes, live, schema, disk, req, ptr, gone>>

LockLoadMutex(t) ==
    /\ AtLoadMutex(t)
    /\ load_mutex[name(t)] = NULL
    /\ load_mutex' = [load_mutex EXCEPT ![name(t)] = t]
    /\ mutex' = NULL
    /\ Goto(t, "recheck")
    /\ UNCHANGED <<indexes, live, schema, disk, req, ptr, gone>>

\* The load mutex is taken: the thread keeps mutex_ while it waits.
BlockOnLoadMutex(t) ==
    /\ pc[t] = "find" /\ AtLoadMutex(t)
    /\ load_mutex[name(t)] # NULL
    /\ mutex' = t
    /\ Goto(t, "wait")
    /\ UNCHANGED <<load_mutex, indexes, live, schema, disk, req, ptr, gone>>

\* Somebody else may have loaded the index meanwhile.
Recheck(t) ==
    /\ pc[t] = "recheck" /\ mutex = NULL
    /\ IF indexes[name(t)] # NULL
       THEN /\ load_mutex' = [load_mutex EXCEPT ![name(t)] = NULL]
            /\ Goto(t, Use(t)) /\ Point(t, indexes[name(t)])
       ELSE /\ Goto(t, "scheme")
            /\ UNCHANGED <<load_mutex, ptr>>
    /\ UNCHANGED <<mutex, indexes, live, schema, disk, req, gone>>

\* The fields scheme.dat gives to an index.
FieldsIn(n) == IF disk[n].scheme = "torn" THEN NULL ELSE disk[n].scheme

\* InvertedIndex::Load, outside mutex_: scheme.dat first...
LoadScheme(t) ==
    /\ pc[t] = "scheme"
    /\ Unused # {}
    /\ live' = live \union {NewObject}
    /\ schema' = [schema EXCEPT ![NewObject] = FieldsIn(name(t))]
    /\ Point(t, NewObject)
    /\ Goto(t, "data")
    /\ UNCHANGED <<mutex, load_mutex, indexes, disk, req, gone>>

\* ...then docs.dat and dict.dat, read by that schema.  Bytes written under
\* another schema may happen to fit, end early, or ask for a string longer
\* than any string: Load then succeeds, fails, or throws.
Fits(t) ==
    \/ schemaOf(t) = NULL
    \/ disk[name(t)].data \in {NULL, schemaOf(t)}
Misfits(t) == ~Fits(t) /\ disk[name(t)].data # "torn"

LoadData(t) ==
    /\ pc[t] = "data"
    /\ Fits(t) \/ Misfits(t)
    /\ Goto(t, IF schemaOf(t) = NULL THEN "discard" ELSE "install")
    /\ UNCHANGED <<shared, req, ptr>>

LoadFails(t) ==
    /\ pc[t] = "data"
    /\ ~Fits(t)
    /\ Goto(t, "discard")
    /\ UNCHANGED <<shared, req, ptr>>

\* The exception leaves GetOrLoadIndex: the new index is destroyed, the load
\* mutex stays locked, the server answers 500.
LoadThrows(t) ==
    /\ pc[t] = "data"
    /\ Misfits(t)
    /\ live' = live \ {ptr[t]}
    /\ Answer(t)
    /\ UNCHANGED <<mutex, load_mutex, indexes, schema, disk, gone>>

\* Mutant: the early return leaves the load mutex locked.
DiscardKeepsLock(t) ==
    /\ pc[t] = "discard" /\ mutex = NULL
    /\ live' = live \ {ptr[t]}
    /\ NotFound(t)
    /\ UNCHANGED <<mutex, load_mutex, indexes, schema, disk, gone>>

Discard(t) ==
    /\ pc[t] = "discard" /\ mutex = NULL
    /\ live' = live \ {ptr[t]}
    /\ load_mutex' = [load_mutex EXCEPT ![name(t)] = NULL]
    /\ NotFound(t)
    /\ UNCHANGED <<mutex, indexes, schema, disk, gone>>

\* Mutants: mutex_ is not taken for the insertion; the old index is not
\* destroyed.
InstallUnlocked(t) ==
    /\ pc[t] = "install"
    /\ indexes' = [indexes EXCEPT ![name(t)] = ptr[t]]
    /\ live' = live \ {indexes[name(t)]}
    /\ load_mutex' = [load_mutex EXCEPT ![name(t)] = NULL]
    /\ Goto(t, Use(t))
    /\ UNCHANGED <<mutex, schema, disk, req, ptr, gone>>

InstallLeaks(t) ==
    /\ pc[t] = "install" /\ mutex = NULL
    /\ indexes' = [indexes EXCEPT ![name(t)] = ptr[t]]
    /\ load_mutex' = [load_mutex EXCEPT ![name(t)] = NULL]
    /\ Goto(t, Use(t))
    /\ UNCHANGED <<mutex, live, schema, disk, req, ptr, gone>>

\* indexes_[name] = std::move(index): what was there is destroyed.
Install(t) ==
    /\ pc[t] = "install" /\ mutex = NULL
    /\ indexes' = [indexes EXCEPT ![name(t)] = ptr[t]]
    /\ live' = live \ {indexes[name(t)]}
    /\ load_mutex' = [load_mutex EXCEPT ![name(t)] = NULL]
    /\ Goto(t, Use(t))
    /\ UNCHANGED <<mutex, schema, disk, req, ptr, gone>>

GetOrLoadIndex(t) ==
    \/ Found(t) \/ NoScheme(t) \/ LockLoadMutex(t) \/ BlockOnLoadMutex(t)
    \/ Recheck(t) \/ LoadScheme(t)
    \/ LoadData(t) \/ LoadFails(t) \/ LoadThrows(t) \/ Discard(t) \/ Install(t)

-----------------------------------------------------------------------------
(***************************************************************************)
(* What handlers do with the pointer, holding no lock.                     *)
(***************************************************************************)
\* Search, list of documents, description of a collection.
FinishRead(t) ==
    /\ pc[t] = "read"
    /\ Answer(t)
    /\ UNCHANGED shared

\* handlePostDocuments: the index is changed in memory...
FinishWrite(t) ==
    /\ pc[t] = "write"
    /\ Goto(t, "save")
    /\ UNCHANGED <<shared, req, ptr>>

\* Mutant: the storage path lacks the collection's name.
FinishSaveEverywhere(t) ==
    /\ pc[t] = "save"
    /\ disk' = [n \in Name |-> [scheme |-> schemaOf(t), data |-> schemaOf(t)]]
    /\ Answer(t)
    /\ UNCHANGED <<mutex, load_mutex, indexes, live, schema, gone>>

\* ...and saved: Save makes the directory and writes scheme.dat anew.
FinishSave(t) ==
    /\ pc[t] = "save"
    /\ disk' = [disk EXCEPT ![name(t)] =
                   [scheme |-> schemaOf(t), data |-> schemaOf(t)]]
    /\ Answer(t)
    /\ UNCHANGED <<mutex, load_mutex, indexes, live, schema, gone>>

\* handlePostCollection reads the fields back for its answer.
FinishCreate(t) ==
    /\ pc[t] = "deref"
    /\ ptr[t] # NULL
    /\ Answer(t)
    /\ UNCHANGED shared

UseIndex(t) == FinishRead(t) \/ FinishWrite(t) \/ FinishSave(t) \/ FinishCreate(t)

-----------------------------------------------------------------------------
(***************************************************************************)
(* CreateCollection, HasCollection and DeleteCollection.                   *)
(***************************************************************************)
CreateCollection(t) ==
    /\ pc[t] = "create" /\ mutex = NULL
    /\ Unused # {}
    /\ schema' = [schema EXCEPT ![NewObject] = req[t].schema]
    /\ disk' = [disk EXCEPT ![name(t)] =
                   [scheme |-> req[t].schema, data |-> disk[name(t)].data]]
    /\ indexes' = [indexes EXCEPT ![name(t)] = NewObject]
    /\ live' = (live \ {indexes[name(t)]}) \union {NewObject}
    /\ gone' = gone \ {name(t)}
    /\ Goto(t, "find")
    /\ UNCHANGED <<mutex, load_mutex, req, ptr>>

HasCollection(t) ==
    /\ pc[t] = "has" /\ mutex = NULL
    /\ IF indexes[name(t)] # NULL \/ disk[name(t)].scheme # NULL
       THEN Goto(t, "delete") /\ UNCHANGED <<req, ptr>>
       ELSE Answer(t)
    /\ UNCHANGED shared

\* Mutants: the entry of the destroyed index stays; the directory stays.
DeleteKeepsEntry(t) ==
    /\ pc[t] = "delete" /\ mutex = NULL
    /\ live' = live \ {indexes[name(t)]}
    /\ disk' = [disk EXCEPT ![name(t)] = NoDirectory]
    /\ gone' = gone \union {name(t)}
    /\ Answer(t)
    /\ UNCHANGED <<mutex, load_mutex, indexes, schema>>

DeleteKeepsDirectory(t) ==
    /\ pc[t] = "delete" /\ mutex = NULL
    /\ live' = live \ {indexes[name(t)]}
    /\ indexes' = [indexes EXCEPT ![name(t)] = NULL]
    /\ gone' = gone \union {name(t)}
    /\ Answer(t)
    /\ UNCHANGED <<mutex, load_mutex, disk, schema>>

DeleteCollection(t) ==
    /\ pc[t] = "delete" /\ mutex = NULL
    /\ live' = live \ {indexes[name(t)]}
    /\ indexes' = [indexes EXCEPT ![name(t)] = NULL]
    /\ disk' = [disk EXCEPT ![name(t)] = NoDirectory]
    /\ gone' = gone \union {name(t)}
    /\ Answer(t)
    /\ UNCHANGED <<mutex, load_mutex, schema>>

\* remove_all meets the files another thread is saving and gives up: the
\* answer is 500, with the index gone from memory.
DeleteFails(t) ==
    /\ pc[t] = "delete" /\ mutex = NULL
    /\ \E u \in Thread : pc[u] = "save" /\ name(u) = name(t)
    /\ live' = live \ {indexes[name(t)]}
    /\ indexes' = [indexes EXCEPT ![name(t)] = NULL]
    /\ disk' \in {disk, [disk EXCEPT ![name(t)] = Torn(name(t))]}
    /\ Answer(t)
    /\ UNCHANGED <<mutex, load_mutex, schema, gone>>

-----------------------------------------------------------------------------
(***************************************************************************)
(* The process ends and is started again: memory and locks are gone.  A    *)
(* save cut off leaves docs.dat or dict.dat torn, and scheme.dat as it     *)
(* was, opened or written; so does CreateCollection with its scheme.dat,   *)
(* in the one thread that is inside mutex_.                                *)
(***************************************************************************)
Savers(n) == {t \in Thread : pc[t] = "save" /\ name(t) = n}
Created == {name(t) : t \in {u \in Thread : pc[u] = "create" /\ mutex = NULL}}

CutOff(n) ==
    {disk[n]} \union
    {[scheme |-> s, data |-> "torn"] :
        s \in UNION {{disk[n].scheme, "torn", schemaOf(t)} : t \in Savers(n)}}

Restarted ==
    /\ mutex' = NULL
    /\ load_mutex' = [n \in Name |-> NULL]
    /\ indexes' = [n \in Name |-> NULL]
    /\ live' = {} /\ schema' = [o \in Object |-> NULL]
    /\ pc' = [t \in Thread |-> "idle"]
    /\ ptr' = [t \in Thread |-> NULL]
    /\ req' = [t \in Thread |-> NULL]
    /\ \E cut \in {{}} \union {{n} : n \in Created},
          d \in [Name -> UNION {CutOff(n) : n \in Name}] :
          /\ \A n \in Name : d[n] \in CutOff(n)
          /\ disk' = [n \in Name |-> IF n \in cut THEN [d[n] EXCEPT !.scheme = "torn"]
                                                 ELSE d[n]]
          /\ gone' = gone \ cut

Killed == MayCrash /\ Restarted

\* A null pointer is dereferenced, or a destroyed index used: the process
\* dies of it, or (destroyed only) finds the memory as it was.
BadAccess(t) == pc[t] \in Using /\ ptr[t] \notin live /\ Restarted

-----------------------------------------------------------------------------
Step(t) == \/ GetOrLoadIndex(t) \/ UseIndex(t)
           \/ CreateCollection(t) \/ HasCollection(t)
           \/ DeleteCollection(t) \/ DeleteFails(t)

Next == \/ \E t \in Thread : Receive(t) \/ Step(t) \/ BadAccess(t)
        \/ Killed

Spec == Init /\ [][Next]_vars

\* Every thread that can run is run, and gets a mutex that stays free.
FairSpec == Spec /\ \A t \in Thread : WF_vars(Step(t))

-----------------------------------------------------------------------------
\* Every variable has its type, a thread with work to do has a request, and
\* one that has looked its index up has an object (nothing is dereferenced
\* unlooked for but by handlePostCollection).
TypeOK ==
    /\ mutex \in Thread \union {NULL}
    /\ load_mutex \in [Name -> Thread \union {NULL}]
    /\ indexes \in [Name -> Object \union {NULL}]
    /\ live \subseteq Object
    /\ schema \in [Object -> Schema \union {NULL}]
    /\ disk \in [Name -> Directory]
    /\ pc \in [Thread -> Labels]
    /\ ptr \in [Thread -> Object \union {NULL}]
    /\ req \in [Thread -> RequestType \union {NULL}]
    /\ \A t \in Thread : IF pc[t] = "idle" THEN req[t] = NULL ELSE req[t] \in Requests[t]
    /\ \A t \in Thread : pc[t] \in Private \union {"read", "write", "save"} => ptr[t] # NULL
    /\ gone \subseteq Name

\* GetOrLoadIndex loads a collection in one thread at a time: whoever is
\* between the two locks of it owns the load mutex of the name.
OneLoader ==
    \A t \in Thread : pc[t] \in Loading => load_mutex[name(t)] = t

\* Every object has one owner: the registry, under one name, or the one
\* thread that is loading it.  None is destroyed while owned, none is leaked.
RegistryOwns(o) == \E n \in Name : indexes[n] = o
LoaderOwns(o) == \E t \in Thread : pc[t] \in Private /\ ptr[t] = o

OneOwner ==
    /\ \A o \in Object : o \in live <=> RegistryOwns(o) \/ LoaderOwns(o)
    /\ \A o \in Object : ~(RegistryOwns(o) /\ LoaderOwns(o))
    /\ \A m, n \in Name : indexes[m] = indexes[n] => m = n \/ indexes[m] = NULL
    /\ \A t, u \in Thread :
          pc[t] \in Private /\ pc[u] \in Private /\ ptr[t] = ptr[u] => t = u

\* Handlers of one collection work on one object, the registry's: a second
\* copy would lose the documents posted to the first (the recheck after the
\* load mutex).
OneIndexPerCollection ==
    \A t \in Thread :
        pc[t] \in Using /\ ptr[t] # NULL => ptr[t] = indexes[name(t)]

\* Once installed, a collection's object is not replaced by a second load.
InstalledStays ==
    [][\A n \in Name : indexes[n] # NULL => indexes'[n] \in {indexes[n], NULL}]_vars

\* A load mutex that is locked will be unlocked by a thread at work in the
\* section it protects (index_registry.hpp: load_mutexes_).
NoOrphanLock ==
    \A n \in Name :
        load_mutex[n] # NULL =>
            pc[load_mutex[n]] \in Loading /\ name(load_mutex[n]) = n

\* GetOrLoadIndex gives a handler an index it may use: the pointer is good
\* until the handler has answered (index_registry.hpp:35).
NoUseAfterFree ==
    \A t \in Thread : pc[t] \in Using /\ ptr[t] # NULL => ptr[t] \in live

\* handlePostCollection has an index to describe when it has made one.
CreatedIsThere == \A t \in Thread : pc[t] = "deref" => ptr[t] # NULL

\* Nobody reads or writes an index while a posted batch changes it
\* (inverted_index.hpp:104: a reference is valid until the next modification).
NoDataRace ==
    \A t, u \in Thread :
        t # u /\ pc[t] = "write" /\ pc[u] \in {"read", "write", "save"} => ptr[t] # ptr[u]

\* A deleted collection is in neither the registry nor the file system
\* (index_registry.hpp:42).
DeletedIsGone ==
    \A n \in gone : indexes[n] = NULL /\ disk[n].scheme = NULL

\* The fields a collection is served with are those of its scheme.dat, the
\* ones of the last POST /indexes/collections.
ServedSchemaIsStored ==
    \A n \in Name : indexes[n] # NULL => schema[indexes[n]] = disk[n].scheme

\* No thread that owns a load mutex is kept from mutex_ by one that waits for
\* that same load mutex.
NoLockCycle ==
    \A t, u \in Thread :
        ~(mutex = t /\ load_mutex[name(t)] = u /\ pc[u] \in {"recheck", "install", "discard"})

\* A thread that has to wait for a load mutex waits for ever: it keeps
\* mutex_, and who holds the load mutex needs mutex_ to give it back.  Only a
\* restart ends it (index_registry.cpp:118 against :122 and :139).
WaitsForever ==
    [][\A t \in Thread : pc[t] = "wait" => pc'[t] = "wait" \/ Restarted]_vars

\* Every request is answered.
RequestAnswered == \A t \in Thread : pc[t] # "idle" ~> pc[t] = "idle"

=============================================================================
