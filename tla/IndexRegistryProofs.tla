------------------------- MODULE IndexRegistryProofs -------------------------
(***************************************************************************)
(* Theorems about the registry, for any threads, names, schemas, requests  *)
(* and any number of objects: its types, its lock discipline, and that a   *)
(* thread which waits for a load mutex waits for ever.                     *)
(***************************************************************************)
EXTENDS IndexRegistry, TLAPS

LEMMA NewObjectFact ==
    ASSUME Unused # {}
    PROVE  NewObject \in Object /\ NewObject \notin live
           /\ \A t \in Thread : ptr[t] # NewObject
  BY DEF Unused, NewObject

\* What a restart finds on the disk: all as it was, but for the directories
\* that a save or a creation was writing to.
LEMMA RestartedDisk ==
    ASSUME TypeOK, Restarted
    PROVE  /\ disk' \in [Name -> Directory]
           /\ gone' \subseteq gone
           /\ \A n \in Name :
                 \/ disk'[n] = disk[n]
                 \/ /\ Savers(n) # {} /\ disk'[n].data = "torn"
                    /\ \/ disk'[n].scheme \in {disk[n].scheme, "torn"}
                       \/ \E t \in Savers(n) : disk'[n].scheme = schemaOf(t)
                 \/ n \in Created \ gone'
<1>1. PICK cut \in {{}} \union {{n} : n \in Created},
           d \in [Name -> UNION {CutOff(n) : n \in Name}] :
           /\ \A n \in Name : d[n] \in CutOff(n)
           /\ disk' = [n \in Name |-> IF n \in cut THEN [d[n] EXCEPT !.scheme = "torn"]
                                                  ELSE d[n]]
           /\ gone' = gone \ cut
  BY DEF Restarted
<1>2. cut \subseteq Created
  BY <1>1
<1>3. ASSUME NEW n \in Name, NEW t \in Savers(n) PROVE schemaOf(t) \in Schema \union {NULL}
  <2>1. t \in Thread /\ ptr[t] \in Object
    BY <1>3 DEF Savers, TypeOK
  <2> QED
    BY <2>1 DEF schemaOf, TypeOK
<1>4. ASSUME NEW n \in Name
      PROVE  /\ d[n] \in Directory
             /\ \/ d[n] = disk[n]
                \/ /\ Savers(n) # {} /\ d[n].data = "torn"
                   /\ \/ d[n].scheme \in {disk[n].scheme, "torn"}
                      \/ \E t \in Savers(n) : d[n].scheme = schemaOf(t)
  <2>1. d[n] \in CutOff(n) /\ disk[n] \in Directory
    BY <1>1 DEF TypeOK
  <2>2. CASE d[n] = disk[n]
    BY <2>1, <2>2
  <2>3. CASE d[n] # disk[n]
    <3>1. PICK t \in Savers(n) : \E c \in {disk[n].scheme, "torn", schemaOf(t)} :
                                     d[n] = [scheme |-> c, data |-> "torn"]
      BY <2>1, <2>3 DEF CutOff
    <3>2. disk[n].scheme \in Schema \union {NULL, "torn"}
      BY <2>1 DEF Directory
    <3> QED
      BY <1>3, <3>1, <3>2 DEF Directory
  <2> QED
    BY <2>2, <2>3
<1>5. ASSUME NEW n \in Name PROVE disk'[n] \in Directory
  <2>1. d[n] \in Directory
    BY <1>4
  <2>2. [d[n] EXCEPT !.scheme = "torn"] \in Directory
    BY <2>1 DEF Directory
  <2> QED
    BY <1>1, <2>1, <2>2
<1>6. disk' \in [Name -> Directory]
  BY <1>1, <1>5
<1> QED
  BY <1>1, <1>2, <1>4, <1>6

\* The registry's state is always of its type.
THEOREM TypeCorrect == Spec => []TypeOK
<1>1. Init => TypeOK
  BY RegistryAssumption DEF Init, TypeOK, Directory, NoDirectory, Labels, Private
<1>2. TypeOK /\ [Next]_vars => TypeOK'
  <2> SUFFICES ASSUME TypeOK, [Next]_vars PROVE TypeOK'
    OBVIOUS
  <2> USE RegistryAssumption
  <2>0. \A t \in Thread : pc[t] # "idle" =>
           /\ req[t] \in Requests[t] /\ name(t) \in Name
           /\ req[t].schema \in Schema /\ req[t].op \in Ops
    BY DEF TypeOK, name, RequestType
  <2>1. CASE UNCHANGED vars
    BY <2>1 DEF TypeOK, vars
  <2>2. ASSUME NEW t \in Thread, Receive(t) PROVE TypeOK'
    BY <2>2 DEF Receive, TypeOK, shared, Goto, Labels, Loading, Private, Using, Ops
  <2>3. ASSUME NEW t \in Thread, GetOrLoadIndex(t) PROVE TypeOK'
    <3>1. CASE Found(t)
      BY <2>0, <3>1 DEF Found, TypeOK, shared, Goto, Point, Use, Labels, Loading, Private, Using, Ops
    <3>2. CASE NoScheme(t)
      BY <2>0, <3>2 DEF NoScheme, NotFound, Answer, TypeOK, shared, Goto, Point, Labels, Loading, Private, Using
    <3>3. CASE LockLoadMutex(t)
      BY <2>0, <3>3 DEF LockLoadMutex, AtLoadMutex, TypeOK, Goto, Labels, Loading, Private, Using
    <3>4. CASE BlockOnLoadMutex(t)
      BY <2>0, <3>4 DEF BlockOnLoadMutex, AtLoadMutex, TypeOK, Goto, Labels, Loading, Private, Using
    <3>5. CASE Recheck(t)
      BY <2>0, <3>5 DEF Recheck, TypeOK, Goto, Point, Use, Labels, Loading, Private, Using, Ops
    <3>6. CASE LoadScheme(t)
      BY <2>0, <3>6, NewObjectFact DEF LoadScheme, TypeOK, Goto, Point, Labels, Loading, Private, Using, Directory, FieldsIn
    <3>7. CASE LoadData(t)
      BY <2>0, <3>7 DEF LoadData, TypeOK, shared, Goto, Labels, Loading, Private, Using
    <3>8. CASE LoadFails(t)
      BY <2>0, <3>8 DEF LoadFails, TypeOK, shared, Goto, Labels, Loading, Private, Using
    <3>9. CASE LoadThrows(t)
      BY <2>0, <3>9 DEF LoadThrows, Answer, TypeOK, Goto, Point, Labels, Loading, Private, Using
    <3>10. CASE Discard(t)
      BY <2>0, <3>10 DEF Discard, NotFound, Answer, TypeOK, Goto, Point, Labels, Loading, Private, Using
    <3>11. CASE Install(t)
      BY <2>0, <3>11 DEF Install, TypeOK, Goto, Use, Labels, Loading, Private, Using, Ops
    <3> QED
      BY <2>3, <3>1, <3>2, <3>3, <3>4, <3>5, <3>6, <3>7, <3>8, <3>9, <3>10, <3>11
      DEF GetOrLoadIndex
  <2>4. ASSUME NEW t \in Thread, UseIndex(t) PROVE TypeOK'
    <3>1. CASE FinishRead(t)
      BY <2>0, <3>1 DEF FinishRead, Answer, TypeOK, shared, Goto, Point, Labels, Private
    <3>2. CASE FinishWrite(t)
      BY <2>0, <3>2 DEF FinishWrite, TypeOK, shared, Goto, Labels, Private, Using
    <3>3. CASE FinishSave(t)
      BY <2>0, <3>3 DEF FinishSave, schemaOf, Answer, TypeOK, Goto, Point, Labels, Private, Directory
    <3>4. CASE FinishCreate(t)
      BY <2>0, <3>4 DEF FinishCreate, Answer, TypeOK, shared, Goto, Point, Labels, Private
    <3> QED
      BY <2>4, <3>1, <3>2, <3>3, <3>4 DEF UseIndex
  <2>5. ASSUME NEW t \in Thread, CreateCollection(t) PROVE TypeOK'
    BY <2>0, <2>5, NewObjectFact DEF CreateCollection, TypeOK, Goto, Labels, Private, Directory
  <2>6. ASSUME NEW t \in Thread, HasCollection(t) PROVE TypeOK'
    BY <2>0, <2>6 DEF HasCollection, Answer, TypeOK, shared, Goto, Point, Labels, Private
  <2>7. ASSUME NEW t \in Thread, DeleteCollection(t) PROVE TypeOK'
    BY <2>0, <2>7 DEF DeleteCollection, Answer, TypeOK, Goto, Point, Labels, Private, Directory, NoDirectory
  <2>8. ASSUME NEW t \in Thread, DeleteFails(t) PROVE TypeOK'
    <3>1. name(t) \in Name /\ Torn(name(t)) \in Directory
      BY <2>0, <2>8 DEF DeleteFails, Torn, TypeOK, Directory
    <3>2. disk' \in [Name -> Directory]
      BY <2>8, <3>1 DEF DeleteFails, TypeOK
    <3>3. /\ indexes' \in [Name -> Object \union {NULL}]
          /\ live' \subseteq Object
      BY <2>8, <3>1 DEF DeleteFails, TypeOK
    <3>4. /\ pc' \in [Thread -> Labels]
          /\ ptr' \in [Thread -> Object \union {NULL}]
          /\ req' \in [Thread -> RequestType \union {NULL}]
      BY <2>8 DEF DeleteFails, Answer, Goto, Point, TypeOK, Labels
    <3>5. \A u \in Thread :
             /\ IF pc'[u] = "idle" THEN req'[u] = NULL ELSE req'[u] \in Requests[u]
             /\ pc'[u] \in Private \union {"read", "write", "save"} => ptr'[u] # NULL
      BY <2>8 DEF DeleteFails, Answer, Goto, Point, TypeOK, Private
    <3> QED
      BY <2>8, <3>2, <3>3, <3>4, <3>5 DEF DeleteFails, TypeOK
  <2>9. ASSUME Restarted PROVE TypeOK'
    BY <2>9, RestartedDisk DEF Restarted, TypeOK, Labels, Private
  <2> QED
    BY <2>1, <2>2, <2>3, <2>4, <2>5, <2>6, <2>7, <2>8, <2>9
    DEF Next, Step, BadAccess, Killed
<1> QED
  BY <1>1, <1>2, PTL DEF Spec

-----------------------------------------------------------------------------
(***************************************************************************)
(* Lock discipline.  A step of thread t touches the load mutex of t's own  *)
(* name only, so OneLoader is inductive; that mutex_ is kept by a waiter   *)
(* needs nothing else.  Why a waiter is never served needs one fact more:  *)
(* the load mutex it waits for stays locked, since to unlock it takes      *)
(* mutex_, which the waiter has.                                           *)
(***************************************************************************)
\* mutex_ is held across steps exactly by a thread that waits in
\* GetOrLoadIndex for a load mutex.
MutexHeldByWaiter ==
    \A t \in Thread : pc[t] = "wait" <=> mutex = t

WaitedForIsLocked ==
    \A t \in Thread : pc[t] = "wait" => load_mutex[name(t)] # NULL

LockInv == OneLoader /\ MutexHeldByWaiter /\ WaitedForIsLocked

\* Between its steps a thread keeps its request, and its name with it.
LEMMA RequestNamed ==
    ASSUME TypeOK
    PROVE  \A t \in Thread : pc[t] # "idle" => name(t) \in Name
  BY RegistryAssumption DEF TypeOK, name, RequestType

LEMMA LockInvStep == TypeOK /\ LockInv /\ [Next]_vars => LockInv'
  <1> SUFFICES ASSUME TypeOK, LockInv, [Next]_vars PROVE LockInv'
    OBVIOUS
  <1> USE RegistryAssumption, RequestNamed
      DEF LockInv, OneLoader, MutexHeldByWaiter, WaitedForIsLocked, Loading, name
  <1>1. CASE UNCHANGED vars
    BY <1>1 DEF vars
  <1>2. ASSUME NEW t \in Thread, Receive(t) PROVE LockInv'
    BY <1>2 DEF Receive, TypeOK, shared, Goto
  <1>3. ASSUME NEW t \in Thread, GetOrLoadIndex(t) PROVE LockInv'
    <2>1. CASE Found(t)
      BY <2>1 DEF Found, TypeOK, shared, Goto, Use
    <2>2. CASE NoScheme(t)
      BY <2>2 DEF NoScheme, NotFound, Answer, TypeOK, shared, Goto
    <2>3. CASE LockLoadMutex(t)
      BY <2>3 DEF LockLoadMutex, AtLoadMutex, TypeOK, Goto
    <2>4. CASE BlockOnLoadMutex(t)
      BY <2>4 DEF BlockOnLoadMutex, AtLoadMutex, TypeOK, Goto
    <2>5. CASE Recheck(t)
      BY <2>5 DEF Recheck, TypeOK, Goto, Use
    <2>6. CASE LoadScheme(t)
      BY <2>6 DEF LoadScheme, TypeOK, Goto
    <2>7. CASE LoadData(t)
      BY <2>7 DEF LoadData, TypeOK, shared, Goto
    <2>8. CASE LoadFails(t)
      BY <2>8 DEF LoadFails, TypeOK, shared, Goto
    <2>9. CASE LoadThrows(t)
      BY <2>9 DEF LoadThrows, Answer, TypeOK, Goto
    <2>10. CASE Discard(t)
      BY <2>10 DEF Discard, NotFound, Answer, TypeOK, Goto
    <2>11. CASE Install(t)
      BY <2>11 DEF Install, TypeOK, Goto, Use
    <2> QED
      BY <1>3, <2>1, <2>2, <2>3, <2>4, <2>5, <2>6, <2>7, <2>8, <2>9, <2>10, <2>11
      DEF GetOrLoadIndex
  <1>4. ASSUME NEW t \in Thread, UseIndex(t) PROVE LockInv'
    <2>1. CASE FinishRead(t)
      BY <2>1 DEF FinishRead, Answer, TypeOK, shared, Goto
    <2>2. CASE FinishWrite(t)
      BY <2>2 DEF FinishWrite, TypeOK, shared, Goto
    <2>3. CASE FinishSave(t)
      BY <2>3 DEF FinishSave, Answer, TypeOK, Goto
    <2>4. CASE FinishCreate(t)
      BY <2>4 DEF FinishCreate, Answer, TypeOK, shared, Goto
    <2> QED
      BY <1>4, <2>1, <2>2, <2>3, <2>4 DEF UseIndex
  <1>5. ASSUME NEW t \in Thread, CreateCollection(t) PROVE LockInv'
    BY <1>5 DEF CreateCollection, TypeOK, Goto
  <1>6. ASSUME NEW t \in Thread, HasCollection(t) PROVE LockInv'
    BY <1>6 DEF HasCollection, Answer, TypeOK, shared, Goto
  <1>7. ASSUME NEW t \in Thread, DeleteCollection(t) PROVE LockInv'
    BY <1>7 DEF DeleteCollection, Answer, TypeOK, Goto
  <1>8. ASSUME NEW t \in Thread, DeleteFails(t) PROVE LockInv'
    BY <1>8 DEF DeleteFails, Answer, TypeOK, Goto
  <1>9. ASSUME Restarted PROVE LockInv'
    BY <1>9 DEF Restarted
  <1> QED
    BY <1>1, <1>2, <1>3, <1>4, <1>5, <1>6, <1>7, <1>8, <1>9
    DEF Next, Step, BadAccess, Killed

LEMMA LockInvHolds == Spec => []LockInv
<1>1. Init => LockInv
  BY RegistryAssumption DEF Init, LockInv, OneLoader, MutexHeldByWaiter, WaitedForIsLocked, Loading
<1> QED
  BY <1>1, LockInvStep, TypeCorrect, PTL DEF Spec

\* One thread at a time is between the locks of GetOrLoadIndex for a name.
THEOREM LoadedByOne == Spec => []OneLoader
  BY LockInvHolds, PTL DEF LockInv

\* The lock order of GetOrLoadIndex: however many threads, names and objects
\* there are, a thread that has to wait for a load mutex is never served.
THEOREM WaiterIsNeverServed == Spec => WaitsForever
<1>1. TypeOK /\ LockInv /\ [Next]_vars =>
        [\A t \in Thread : pc[t] = "wait" => pc'[t] = "wait" \/ Restarted]_vars
  <2> SUFFICES ASSUME TypeOK, LockInv, Next, NEW u \in Thread, pc[u] = "wait", ~Restarted
               PROVE  pc'[u] = "wait"
    BY DEF vars
  <2>1. mutex = u /\ load_mutex[name(u)] # NULL /\ mutex # NULL
    BY RegistryAssumption DEF LockInv, MutexHeldByWaiter, WaitedForIsLocked
  <2>2. PICK t \in Thread : Receive(t) \/ Step(t)
    BY DEF Next, BadAccess, Killed
  <2>3. CASE t = u
    BY <2>1, <2>2, <2>3
    DEF Receive, Step, GetOrLoadIndex, Found, NoScheme, LockLoadMutex, AtLoadMutex,
        BlockOnLoadMutex, Recheck, LoadScheme, LoadData, LoadFails, LoadThrows, Discard,
        Install, UseIndex, FinishRead, FinishWrite, FinishSave, FinishCreate,
        CreateCollection, HasCollection, DeleteCollection, DeleteFails
  <2>4. CASE t # u
    <3>1. CASE Receive(t)
      BY <2>4, <3>1 DEF Receive, Goto, TypeOK
    <3>2. CASE GetOrLoadIndex(t)
      BY <2>1, <2>4, <3>2
      DEF GetOrLoadIndex, Found, NoScheme, NotFound, LockLoadMutex, BlockOnLoadMutex,
          Recheck, LoadScheme, LoadData, LoadFails, LoadThrows, Discard, Install, Use,
          Answer, Goto, TypeOK
    <3>3. CASE UseIndex(t)
      BY <2>4, <3>3
      DEF UseIndex, FinishRead, FinishWrite, FinishSave, FinishCreate, Answer, Goto, TypeOK
    <3>4. CASE CreateCollection(t) \/ HasCollection(t) \/ DeleteCollection(t) \/ DeleteFails(t)
      BY <2>1, <3>4 DEF CreateCollection, HasCollection, DeleteCollection, DeleteFails
    <3> QED
      BY <2>2, <3>1, <3>2, <3>3, <3>4 DEF Step
  <2> QED
    BY <2>3, <2>4
<1> QED
  BY <1>1, LockInvHolds, TypeCorrect, PTL DEF Spec, WaitsForever

-----------------------------------------------------------------------------
(***************************************************************************)
(* Ownership (std::unique_ptr): OneOwner is inductive over TypeOK.         *)
(***************************************************************************)
\* A step that leaves alone the objects of loaders and of the registry.
LEMMA OwnersKept ==
    ASSUME TypeOK, OneOwner, UNCHANGED <<indexes, live>>,
           \A t \in Thread : (pc'[t] \in Private <=> pc[t] \in Private)
                             /\ (pc[t] \in Private => ptr'[t] = ptr[t])
    PROVE  OneOwner'
  BY DEF OneOwner, RegistryOwns, LoaderOwns

\* A loader's object is destroyed, unseen by anybody else.
LEMMA LoaderDestroys ==
    ASSUME TypeOK, OneOwner, NEW t \in Thread, pc[t] \in Private,
           live' = live \ {ptr[t]}, UNCHANGED indexes,
           pc'[t] \notin Private,
           \A u \in Thread \ {t} : pc'[u] = pc[u] /\ ptr'[u] = ptr[u]
    PROVE  OneOwner'
  BY DEF OneOwner, RegistryOwns, LoaderOwns, TypeOK

\* The registry's object is destroyed with its entry.
LEMMA RegistryDestroys ==
    ASSUME TypeOK, OneOwner, NEW n \in Name,
           live' = live \ {indexes[n]}, indexes' = [indexes EXCEPT ![n] = NULL],
           \A t \in Thread : (pc'[t] \in Private <=> pc[t] \in Private)
                             /\ (pc[t] \in Private => ptr'[t] = ptr[t])
    PROVE  OneOwner'
  BY RegistryAssumption DEF OneOwner, RegistryOwns, LoaderOwns, TypeOK

LEMMA OneOwnerStep == TypeOK /\ OneOwner /\ [Next]_vars => OneOwner'
  <1> SUFFICES ASSUME TypeOK, OneOwner, [Next]_vars PROVE OneOwner'
    OBVIOUS
  <1> USE RegistryAssumption, RequestNamed
  <1>1. CASE UNCHANGED vars
    BY <1>1, OwnersKept DEF vars
  <1>2. ASSUME NEW t \in Thread, Receive(t) PROVE OneOwner'
    BY <1>2, OwnersKept DEF Receive, TypeOK, shared, Goto, Private
  <1>3. ASSUME NEW t \in Thread, GetOrLoadIndex(t) PROVE OneOwner'
    <2>1. CASE Found(t)
      BY <2>1, OwnersKept DEF Found, TypeOK, shared, Goto, Point, Use, Private
    <2>2. CASE NoScheme(t)
      BY <2>2, OwnersKept DEF NoScheme, NotFound, Answer, TypeOK, shared, Goto, Point, Private
    <2>3. CASE LockLoadMutex(t)
      BY <2>3, OwnersKept DEF LockLoadMutex, AtLoadMutex, TypeOK, Goto, Private
    <2>4. CASE BlockOnLoadMutex(t)
      BY <2>4, OwnersKept DEF BlockOnLoadMutex, TypeOK, Goto, Private
    <2>5. CASE Recheck(t)
      BY <2>5, OwnersKept DEF Recheck, TypeOK, Goto, Point, Use, Private
    <2>6. CASE LoadScheme(t)
      <3> DEFINE new == NewObject
      <3>1. new \in Object /\ new \notin live
        BY <2>6, NewObjectFact DEF LoadScheme
      <3>2. /\ live' = live \union {new} /\ indexes' = indexes
            /\ pc[t] \notin Private /\ pc'[t] = "data" /\ ptr'[t] = new
            /\ \A u \in Thread \ {t} : pc'[u] = pc[u] /\ ptr'[u] = ptr[u]
        BY <2>6 DEF LoadScheme, TypeOK, Goto, Point, Private
      <3> HIDE DEF new
      <3> QED
        BY <3>1, <3>2 DEF OneOwner, RegistryOwns, LoaderOwns, Private
    <2>7. CASE LoadData(t)
      BY <2>7, OwnersKept DEF LoadData, TypeOK, shared, Goto, Private
    <2>8. CASE LoadFails(t)
      BY <2>8, OwnersKept DEF LoadFails, TypeOK, shared, Goto, Private
    <2>9. CASE LoadThrows(t)
      BY <2>9, LoaderDestroys DEF LoadThrows, Answer, TypeOK, Goto, Point, Private
    <2>10. CASE Discard(t)
      BY <2>10, LoaderDestroys DEF Discard, NotFound, Answer, TypeOK, Goto, Point, Private
    <2>11. CASE Install(t)
      <3>1. /\ live' = live \ {indexes[name(t)]}
            /\ indexes' = [indexes EXCEPT ![name(t)] = ptr[t]]
            /\ name(t) \in Name /\ pc[t] \in Private /\ ptr[t] \in Object
            /\ pc'[t] \notin Private /\ ptr' = ptr
            /\ \A u \in Thread \ {t} : pc'[u] = pc[u]
        BY <2>11 DEF Install, Goto, Use, TypeOK, Private
      <3>2. indexes[name(t)] # ptr[t]
        BY <3>1 DEF OneOwner, RegistryOwns, LoaderOwns
      <3> QED
        BY <3>1, <3>2 DEF OneOwner, RegistryOwns, LoaderOwns, TypeOK
    <2> QED
      BY <1>3, <2>1, <2>2, <2>3, <2>4, <2>5, <2>6, <2>7, <2>8, <2>9, <2>10, <2>11
      DEF GetOrLoadIndex
  <1>4. ASSUME NEW t \in Thread, UseIndex(t) PROVE OneOwner'
    <2>1. CASE FinishRead(t)
      BY <2>1, OwnersKept DEF FinishRead, Answer, TypeOK, shared, Goto, Point, Private
    <2>2. CASE FinishWrite(t)
      BY <2>2, OwnersKept DEF FinishWrite, TypeOK, shared, Goto, Private
    <2>3. CASE FinishSave(t)
      BY <2>3, OwnersKept DEF FinishSave, Answer, TypeOK, Goto, Point, Private
    <2>4. CASE FinishCreate(t)
      BY <2>4, OwnersKept DEF FinishCreate, Answer, TypeOK, shared, Goto, Point, Private
    <2> QED
      BY <1>4, <2>1, <2>2, <2>3, <2>4 DEF UseIndex
  <1>5. ASSUME NEW t \in Thread, CreateCollection(t) PROVE OneOwner'
    <2> DEFINE new == NewObject
    <2>1. new \in Object /\ new \notin live
      BY <1>5, NewObjectFact DEF CreateCollection
    <2>2. /\ live' = (live \ {indexes[name(t)]}) \union {new}
          /\ indexes' = [indexes EXCEPT ![name(t)] = new]
          /\ name(t) \in Name /\ ptr' = ptr
          /\ \A u \in Thread : pc'[u] \in Private <=> pc[u] \in Private
      BY <1>5 DEF CreateCollection, Goto, TypeOK, Private
    <2>3. new # NULL /\ ~RegistryOwns(new) /\ ~LoaderOwns(new)
      BY <2>1 DEF OneOwner
    <2> HIDE DEF new
    <2> QED
      BY <2>1, <2>2, <2>3 DEF OneOwner, RegistryOwns, LoaderOwns, TypeOK
  <1>6. ASSUME NEW t \in Thread, HasCollection(t) PROVE OneOwner'
    BY <1>6, OwnersKept DEF HasCollection, Answer, TypeOK, shared, Goto, Point, Private
  <1>7. ASSUME NEW t \in Thread, DeleteCollection(t) PROVE OneOwner'
    BY <1>7, RegistryDestroys DEF DeleteCollection, Answer, TypeOK, Goto, Point, Private
  <1>8. ASSUME NEW t \in Thread, DeleteFails(t) PROVE OneOwner'
    BY <1>8, RegistryDestroys DEF DeleteFails, Answer, TypeOK, Goto, Point, Private
  <1>9. ASSUME Restarted PROVE OneOwner'
    BY <1>9 DEF Restarted, OneOwner, RegistryOwns, LoaderOwns, Private
  <1> QED
    BY <1>1, <1>2, <1>3, <1>4, <1>5, <1>6, <1>7, <1>8, <1>9
    DEF Next, Step, BadAccess, Killed

\* An InvertedIndex has one owner at any time, the registry under one name
\* or one loading thread, and lives exactly as long as it is owned: the code
\* neither leaks an index nor destroys one twice, with any threads and
\* requests, deletions and crashes included.
THEOREM ObjectsHaveOneOwner == Spec => []OneOwner
<1>1. Init => OneOwner
  BY RegistryAssumption DEF Init, OneOwner, RegistryOwns, LoaderOwns, Private
<1> QED
  BY <1>1, OneOwnerStep, TypeCorrect, PTL DEF Spec

-----------------------------------------------------------------------------
(***************************************************************************)
(* One object per collection.  While nobody creates a collection, only the *)
(* owner of a load mutex installs an index, so what the recheck saw (no    *)
(* index) is still so when the loaded one is installed.                    *)
(***************************************************************************)
OnlyRequests(ops) == \A t \in Thread : \A r \in Requests[t] : r.op \in ops

NobodyCreates == \A t \in Thread : pc[t] # "create"

NothingInstalledMeanwhile ==
    \A t \in Thread : pc[t] \in {"scheme"} \union Private => indexes[name(t)] = NULL

ServingInv == NobodyCreates /\ NothingInstalledMeanwhile

LEMMA ServingInvStep ==
    ASSUME OnlyRequests({"read", "write", "delete"})
    PROVE  TypeOK /\ OneLoader /\ ServingInv /\ [Next]_vars => ServingInv'
  <1> SUFFICES ASSUME TypeOK, OneLoader, ServingInv, [Next]_vars
               PROVE  ServingInv'
    OBVIOUS
  <1> USE RegistryAssumption, RequestNamed
      DEF ServingInv, NobodyCreates, NothingInstalledMeanwhile, Private, name
  <1>1. CASE UNCHANGED vars
    BY <1>1 DEF vars
  <1>2. ASSUME NEW t \in Thread, Receive(t) PROVE ServingInv'
    BY <1>2 DEF Receive, OnlyRequests, TypeOK, shared, Goto
  <1>3. ASSUME NEW t \in Thread, GetOrLoadIndex(t) PROVE ServingInv'
    <2>1. CASE Found(t)
      BY <2>1 DEF Found, TypeOK, shared, Goto, Use
    <2>2. CASE NoScheme(t)
      BY <2>2 DEF NoScheme, NotFound, Answer, TypeOK, shared, Goto
    <2>3. CASE LockLoadMutex(t)
      BY <2>3 DEF LockLoadMutex, AtLoadMutex, TypeOK, Goto
    <2>4. CASE BlockOnLoadMutex(t)
      BY <2>4 DEF BlockOnLoadMutex, TypeOK, Goto
    <2>5. CASE Recheck(t)
      BY <2>5 DEF Recheck, TypeOK, Goto, Use
    <2>6. CASE LoadScheme(t)
      BY <2>6 DEF LoadScheme, TypeOK, Goto
    <2>7. CASE LoadData(t)
      BY <2>7 DEF LoadData, TypeOK, shared, Goto
    <2>8. CASE LoadFails(t)
      BY <2>8 DEF LoadFails, TypeOK, shared, Goto
    <2>9. CASE LoadThrows(t)
      BY <2>9 DEF LoadThrows, Answer, TypeOK, Goto
    <2>10. CASE Discard(t)
      BY <2>10 DEF Discard, NotFound, Answer, TypeOK, Goto
    <2>11. CASE Install(t)
      <3>1. \A u \in Thread \ {t} : pc[u] \in Loading => name(u) # name(t)
        BY <2>11 DEF Install, OneLoader, Loading
      <3> QED
        BY <2>11, <3>1 DEF Install, TypeOK, Goto, Use, Loading
    <2> QED
      BY <1>3, <2>1, <2>2, <2>3, <2>4, <2>5, <2>6, <2>7, <2>8, <2>9, <2>10, <2>11
      DEF GetOrLoadIndex
  <1>4. ASSUME NEW t \in Thread, UseIndex(t) PROVE ServingInv'
    BY <1>4
    DEF UseIndex, FinishRead, FinishWrite, FinishSave, FinishCreate, Answer, TypeOK, shared, Goto
  <1>5. ASSUME NEW t \in Thread, CreateCollection(t) \/ HasCollection(t) PROVE ServingInv'
    BY <1>5 DEF CreateCollection, HasCollection, Answer, TypeOK, shared, Goto
  <1>6. ASSUME NEW t \in Thread, DeleteCollection(t) \/ DeleteFails(t)
        PROVE ServingInv'
    BY <1>6 DEF DeleteCollection, DeleteFails, Answer, TypeOK, Goto
  <1>7. ASSUME Restarted PROVE ServingInv'
    BY <1>7 DEF Restarted
  <1> QED
    BY <1>1, <1>2, <1>3, <1>4, <1>5, <1>6, <1>7 DEF Next, Step, BadAccess, Killed

LEMMA ServingInvHolds ==
    ASSUME OnlyRequests({"read", "write", "delete"})
    PROVE  Spec => []ServingInv
<1>1. Init => ServingInv
  BY DEF Init, ServingInv, NobodyCreates, NothingInstalledMeanwhile, Private
<1> QED
  BY <1>1, ServingInvStep, LoadedByOne, TypeCorrect, PTL DEF Spec

\* While no client creates a collection, a second load of it never replaces
\* the index installed by the first, whatever is searched, posted or deleted.
THEOREM LoadedOnce ==
    ASSUME OnlyRequests({"read", "write", "delete"})
    PROVE  Spec => InstalledStays
<1>1. TypeOK /\ ServingInv /\ [Next]_vars =>
        [\A n \in Name : indexes[n] # NULL => indexes'[n] \in {indexes[n], NULL}]_vars
  <2> SUFFICES ASSUME TypeOK, ServingInv, Next, NEW n \in Name
               PROVE  indexes[n] # NULL => indexes'[n] \in {indexes[n], NULL}
    BY DEF vars
  <2>1. ASSUME NEW t \in Thread, Receive(t) \/ Step(t)
        PROVE  indexes[n] # NULL => indexes'[n] \in {indexes[n], NULL}
    <3>1. CASE Install(t)
      BY <3>1 DEF Install, ServingInv, NothingInstalledMeanwhile, Private, TypeOK
    <3>2. CASE CreateCollection(t)
      BY <3>2 DEF CreateCollection, ServingInv, NobodyCreates
    <3>3. CASE DeleteCollection(t) \/ DeleteFails(t)
      BY <3>3 DEF DeleteCollection, DeleteFails, TypeOK
    <3>4. CASE indexes' = indexes
      BY <3>4
    <3> QED
      BY <2>1, <3>1, <3>2, <3>3, <3>4
      DEF Receive, Step, shared, GetOrLoadIndex, Found, NoScheme, LockLoadMutex,
          BlockOnLoadMutex, Recheck, LoadScheme, LoadData, LoadFails, LoadThrows, Discard,
          UseIndex, FinishRead, FinishWrite, FinishSave, FinishCreate, HasCollection
  <2>2. ASSUME Restarted PROVE indexes'[n] = NULL
    BY <2>2 DEF Restarted
  <2> QED
    BY <2>1, <2>2 DEF Next, BadAccess, Killed
<1> QED
  BY <1>1, ServingInvHolds, TypeCorrect, PTL DEF Spec, InstalledStays

NobodyDeletes == \A t \in Thread : pc[t] \notin {"has", "delete"}

LEMMA SharedIndexHolds ==
    ASSUME OnlyRequests({"read", "write"})
    PROVE  Spec => [](NobodyDeletes /\ OneIndexPerCollection)
<1> DEFINE Inv == NobodyDeletes /\ OneIndexPerCollection
<1>0. OnlyRequests({"read", "write", "delete"})
  BY DEF OnlyRequests
<1>1. Init => Inv
  BY DEF Init, NobodyDeletes, OneIndexPerCollection, Using
<1>2. TypeOK /\ ServingInv /\ Inv /\ [Next]_vars => Inv'
  <2> SUFFICES ASSUME TypeOK, ServingInv, Inv, [Next]_vars PROVE Inv'
    OBVIOUS
  <2> USE RegistryAssumption, RequestNamed DEF NobodyDeletes, OneIndexPerCollection, Using, name
  <2>1. CASE UNCHANGED vars
    BY <2>1 DEF vars
  <2>2. ASSUME NEW t \in Thread, Receive(t) PROVE Inv'
    BY <2>2 DEF Receive, OnlyRequests, TypeOK, shared, Goto
  <2>3. ASSUME NEW t \in Thread, GetOrLoadIndex(t) PROVE Inv'
    <3>1. CASE Found(t)
      BY <3>1 DEF Found, TypeOK, shared, Goto, Point, Use
    <3>2. CASE NoScheme(t)
      BY <3>2 DEF NoScheme, NotFound, Answer, TypeOK, shared, Goto, Point
    <3>3. CASE LockLoadMutex(t) \/ BlockOnLoadMutex(t)
      BY <3>3 DEF LockLoadMutex, BlockOnLoadMutex, AtLoadMutex, TypeOK, Goto
    <3>4. CASE Recheck(t)
      BY <3>4 DEF Recheck, TypeOK, Goto, Point, Use
    <3>5. CASE LoadScheme(t)
      BY <3>5 DEF LoadScheme, TypeOK, Goto, Point
    <3>6. CASE LoadData(t) \/ LoadFails(t)
      BY <3>6 DEF LoadData, LoadFails, TypeOK, shared, Goto
    <3>7. CASE LoadThrows(t)
      BY <3>7 DEF LoadThrows, Answer, TypeOK, Goto, Point
    <3>8. CASE Discard(t)
      BY <3>8 DEF Discard, NotFound, Answer, TypeOK, Goto, Point
    <3>9. CASE Install(t)
      BY <3>9 DEF Install, ServingInv, NothingInstalledMeanwhile, Private, TypeOK, Goto, Use
    <3> QED
      BY <2>3, <3>1, <3>2, <3>3, <3>4, <3>5, <3>6, <3>7, <3>8, <3>9 DEF GetOrLoadIndex
  <2>4. ASSUME NEW t \in Thread, UseIndex(t) PROVE Inv'
    BY <2>4
    DEF UseIndex, FinishRead, FinishWrite, FinishSave, FinishCreate, Answer, TypeOK, shared,
        Goto, Point
  <2>5. ASSUME NEW t \in Thread,
               CreateCollection(t) \/ HasCollection(t) \/ DeleteCollection(t) \/ DeleteFails(t)
        PROVE FALSE
    BY <2>5
    DEF CreateCollection, HasCollection, DeleteCollection, DeleteFails, ServingInv, NobodyCreates
  <2>6. ASSUME Restarted PROVE Inv'
    BY <2>6 DEF Restarted
  <2> QED
    BY <2>1, <2>2, <2>3, <2>4, <2>5, <2>6 DEF Next, Step, BadAccess, Killed
<1> QED
  BY <1>0, <1>1, <1>2, ServingInvHolds, TypeCorrect, PTL DEF Spec

\* As long as collections are only searched and posted to, all handlers of
\* one work on one object, the one the registry owns: no batch is posted to a
\* copy that a later request does not see.
THEOREM HandlersShareTheIndex ==
    ASSUME OnlyRequests({"read", "write"})
    PROVE  Spec => []OneIndexPerCollection
<1>1. Spec => [](NobodyDeletes /\ OneIndexPerCollection)
  BY SharedIndexHolds
<1> QED
  BY <1>1, PTL

LEMMA RegistryIndexIsLive == TypeOK /\ OneOwner /\ OneIndexPerCollection => NoUseAfterFree
<1> SUFFICES ASSUME TypeOK, OneOwner, OneIndexPerCollection,
                    NEW t \in Thread, pc[t] \in Using, ptr[t] # NULL
             PROVE  ptr[t] \in live
  BY DEF NoUseAfterFree
<1>1. pc[t] # "idle"
  BY DEF Using
<1>2. ptr[t] = indexes[name(t)] /\ name(t) \in Name /\ ptr[t] \in Object
  BY <1>1, RequestNamed DEF OneIndexPerCollection, TypeOK, name
<1> QED
  BY <1>2 DEF OneOwner, RegistryOwns

\* As long as collections are only searched and posted to, the object a handler
\* works on is alive: the raw pointer GetOrLoadIndex returns dangles only when
\* a collection is deleted or created under the handler.
THEOREM NoHandlerDangles ==
    ASSUME OnlyRequests({"read", "write"})
    PROVE  Spec => []NoUseAfterFree
<1>1. Spec => []OneIndexPerCollection
  BY HandlersShareTheIndex
<1> QED
  BY <1>1, RegistryIndexIsLive, TypeCorrect, ObjectsHaveOneOwner, PTL

-----------------------------------------------------------------------------
(***************************************************************************)
(* A step of a thread changes the collection it works on, and no other,    *)
(* and leaves the other threads where they are.                            *)
(***************************************************************************)
Untouched(n) ==
    /\ indexes'[n] = indexes[n] /\ disk'[n] = disk[n] /\ load_mutex'[n] = load_mutex[n]
    /\ n \in gone' <=> n \in gone

OthersStay(t) ==
    /\ \A u \in Thread \ {t} : pc'[u] = pc[u] /\ ptr'[u] = ptr[u] /\ req'[u] = req[u]
    /\ \A n \in Name : (pc[t] # "idle" => n # name(t)) => Untouched(n)

LEMMA StepIsOwn ==
    ASSUME TypeOK, NEW t \in Thread, Receive(t) \/ Step(t)
    PROVE  OthersStay(t)
<1> USE RegistryAssumption, RequestNamed DEF OthersStay, Untouched
<1>1. CASE Receive(t)
  BY <1>1 DEF Receive, TypeOK, shared, Goto
<1>2. CASE Found(t) \/ NoScheme(t) \/ LockLoadMutex(t) \/ BlockOnLoadMutex(t) \/ Recheck(t)
  BY <1>2
  DEF Found, NoScheme, NotFound, LockLoadMutex, AtLoadMutex, BlockOnLoadMutex, Recheck, Answer,
      TypeOK, shared, Goto, Point
<1>3. CASE LoadScheme(t) \/ LoadData(t) \/ LoadFails(t) \/ LoadThrows(t)
  BY <1>3 DEF LoadScheme, LoadData, LoadFails, LoadThrows, Answer, TypeOK, shared, Goto, Point
<1>4. CASE Discard(t) \/ Install(t)
  BY <1>4 DEF Discard, NotFound, Install, Answer, TypeOK, Goto, Point
<1>5. CASE UseIndex(t)
  BY <1>5
  DEF UseIndex, FinishRead, FinishWrite, FinishSave, FinishCreate, Answer, TypeOK, shared, Goto,
      Point
<1>6. CASE CreateCollection(t) \/ HasCollection(t)
  BY <1>6 DEF CreateCollection, HasCollection, Answer, TypeOK, shared, Goto, Point
<1>7. CASE DeleteCollection(t) \/ DeleteFails(t)
  BY <1>7 DEF DeleteCollection, DeleteFails, Answer, TypeOK, Goto, Point
<1> QED
  BY <1>1, <1>2, <1>3, <1>4, <1>5, <1>6, <1>7 DEF Step, GetOrLoadIndex

(***************************************************************************)
(* Collections with a client of their own.  All the trouble with deleted   *)
(* collections takes two clients: while a thread works on a collection, no *)
(* other changes what it has read.                                         *)
(***************************************************************************)
EachItsOwn ==
    \A t, u \in Thread : \A r \in Requests[t], q \in Requests[u] : t # u => r.name # q.name

\* A thread with work for a deleted collection has not found an index of it.
NothingFoundOf(n) ==
    \A t \in Thread :
        pc[t] # "idle" /\ name(t) = n => pc[t] \in {"find", "create", "has", "delete", "deref"}

GoneInv == DeletedIsGone /\ \A n \in gone : NothingFoundOf(n)

LEMMA OwnNamesDiffer ==
    ASSUME EachItsOwn, TypeOK, NEW t \in Thread, NEW u \in Thread, t # u,
           pc[t] # "idle", pc[u] # "idle"
    PROVE  name(t) # name(u)
  BY DEF EachItsOwn, TypeOK, name

LEMMA OwnStepKeeps ==
    ASSUME EachItsOwn, TypeOK, TypeOK', GoneInv, OneIndexPerCollection, NEW t \in Thread,
           Receive(t) \/ Step(t)
    PROVE  GoneInv' /\ OneIndexPerCollection'
<1> USE RegistryAssumption, RequestNamed
<1>1. OthersStay(t)
  BY StepIsOwn
<1>2. ASSUME NEW u \in Thread \ {t}, pc'[u] \in Using, ptr'[u] # NULL
      PROVE  ptr'[u] = indexes'[name(u)']
  <2>1. pc'[u] = pc[u] /\ ptr'[u] = ptr[u] /\ name(u)' = name(u) /\ pc[u] # "idle"
    BY <1>1, <1>2 DEF OthersStay, name, Using
  <2>2. Untouched(name(u))
    BY <1>1, <2>1, OwnNamesDiffer DEF OthersStay
  <2> QED
    BY <1>2, <2>1, <2>2 DEF Untouched, OneIndexPerCollection
<1>3. ASSUME pc'[t] \in Using, ptr'[t] # NULL
      PROVE  ptr'[t] = indexes'[name(t)']
  <2> USE DEF Using, name, OneIndexPerCollection
  <2>1. CASE Receive(t) \/ LockLoadMutex(t) \/ BlockOnLoadMutex(t)
    BY <1>3, <2>1 DEF Receive, LockLoadMutex, BlockOnLoadMutex, Goto, TypeOK
  <2>2. CASE Found(t) \/ NoScheme(t) \/ Recheck(t)
    BY <1>3, <2>2
    DEF Found, NoScheme, NotFound, Recheck, Answer, Goto, Point, Use, TypeOK, shared
  <2>3. CASE LoadScheme(t) \/ LoadData(t) \/ LoadFails(t) \/ LoadThrows(t) \/ Discard(t)
    BY <1>3, <2>3
    DEF LoadScheme, LoadData, LoadFails, LoadThrows, Discard, NotFound, Answer, Goto, Point, TypeOK
  <2>4. CASE Install(t)
    BY <1>3, <2>4 DEF Install, Goto, TypeOK
  <2>5. CASE UseIndex(t)
    BY <1>3, <2>5
    DEF UseIndex, FinishRead, FinishWrite, FinishSave, FinishCreate, Answer, Goto, Point, TypeOK,
        shared
  <2>6. CASE CreateCollection(t) \/ HasCollection(t) \/ DeleteCollection(t) \/ DeleteFails(t)
    BY <1>3, <2>6
    DEF CreateCollection, HasCollection, DeleteCollection, DeleteFails, Answer, Goto, Point, TypeOK
  <2> QED
    BY <2>1, <2>2, <2>3, <2>4, <2>5, <2>6 DEF Step, GetOrLoadIndex
<1>4. ASSUME NEW n \in gone' PROVE indexes'[n] = NULL /\ disk'[n].scheme = NULL /\ NothingFoundOf(n)'
  <2>1. n \in Name
    BY <1>4 DEF TypeOK
  <2>2. CASE pc[t] = "idle"
    <3>1. Receive(t)
      BY <2>2
      DEF Step, GetOrLoadIndex, Found, NoScheme, LockLoadMutex, BlockOnLoadMutex, AtLoadMutex,
          Recheck, LoadScheme, LoadData, LoadFails, LoadThrows, Discard, Install, UseIndex,
          FinishRead, FinishWrite, FinishSave, FinishCreate, CreateCollection, HasCollection,
          DeleteCollection, DeleteFails
    <3> QED
      BY <1>4, <3>1 DEF Receive, shared, Goto, TypeOK, GoneInv, DeletedIsGone, NothingFoundOf, name
  <2>3. CASE pc[t] # "idle" /\ n # name(t)
    <3>1. Untouched(n) /\ n \in gone
      BY <1>1, <1>4, <2>1, <2>3 DEF OthersStay, Untouched
    <3>2. pc'[t] = "idle" \/ name(t)' = name(t)
      BY <2>3
      DEF Receive, Step, GetOrLoadIndex, Found, NoScheme, NotFound, LockLoadMutex, BlockOnLoadMutex,
          Recheck, LoadScheme, LoadData, LoadFails, LoadThrows, Discard, Install, UseIndex,
          FinishRead, FinishWrite, FinishSave, FinishCreate, CreateCollection, HasCollection,
          DeleteCollection, DeleteFails, Answer, Goto, name, shared, TypeOK
    <3> QED
      BY <1>1, <2>3, <3>1, <3>2
      DEF GoneInv, DeletedIsGone, NothingFoundOf, OthersStay, Untouched, name
  <2>4. CASE pc[t] # "idle" /\ n = name(t)
    <3>1. \A u \in Thread \ {t} : pc'[u] # "idle" => name(u)' # n
      BY <1>1, <2>4, OwnNamesDiffer DEF OthersStay, name
    <3>2. /\ indexes'[n] = NULL /\ disk'[n].scheme = NULL
          /\ pc'[t] \in {"idle", "find", "create", "has", "delete", "deref"}
      <4>1. CASE DeleteCollection(t)
        BY <2>1, <2>4, <4>1 DEF DeleteCollection, Answer, Goto, TypeOK, NoDirectory
      <4>2. ASSUME ~DeleteCollection(t)
            PROVE  /\ n \in gone /\ indexes[n] = NULL /\ disk[n].scheme = NULL
                   /\ pc[t] \in {"find", "create", "has", "delete", "deref"}
        <5>1. n \in gone
          BY <1>4, <2>4, <4>2
          DEF Receive, Step, GetOrLoadIndex, Found, NoScheme, LockLoadMutex, BlockOnLoadMutex,
              Recheck, LoadScheme, LoadData, LoadFails, LoadThrows, Discard, Install, UseIndex,
              FinishRead, FinishWrite, FinishSave, FinishCreate, CreateCollection, HasCollection,
              DeleteFails, shared
        <5> QED
          BY <2>4, <5>1 DEF GoneInv, DeletedIsGone, NothingFoundOf
      <4>3. CASE NoScheme(t)
        BY <2>4, <4>2, <4>3 DEF NoScheme, DeleteCollection, NotFound, Answer, Goto, TypeOK, shared
      <4>4. CASE FinishCreate(t) \/ HasCollection(t)
        BY <2>4, <4>2, <4>4
        DEF FinishCreate, HasCollection, DeleteCollection, Answer, Goto, TypeOK, shared
      <4>5. CASE DeleteFails(t) /\ ~DeleteCollection(t)
        BY <2>1, <2>4, <4>2, <4>5 DEF DeleteFails, Torn, Answer, Goto, TypeOK
      <4>6. ASSUME CreateCollection(t) PROVE FALSE
        BY <1>4, <2>4, <4>6 DEF CreateCollection
      <4> QED
        BY <2>4, <4>1, <4>2, <4>3, <4>4, <4>5, <4>6
        DEF Receive, Step, GetOrLoadIndex, Found, LockLoadMutex, BlockOnLoadMutex, AtLoadMutex,
            Recheck, LoadScheme, LoadData, LoadFails, LoadThrows, Discard, Install, UseIndex,
            FinishRead, FinishWrite, FinishSave
    <3> QED
      BY <3>1, <3>2 DEF NothingFoundOf, name
  <2> QED
    BY <2>2, <2>3, <2>4
<1> QED
  BY <1>2, <1>3, <1>4 DEF OneIndexPerCollection, GoneInv, DeletedIsGone

LEMMA OwnInvHolds ==
    ASSUME EachItsOwn
    PROVE  Spec => [](GoneInv /\ OneIndexPerCollection)
<1>1. Init => GoneInv /\ OneIndexPerCollection
  BY DEF Init, GoneInv, DeletedIsGone, OneIndexPerCollection, Using
<1>2. TypeOK /\ TypeOK' /\ GoneInv /\ OneIndexPerCollection /\ [Next]_vars
        => (GoneInv /\ OneIndexPerCollection)'
  <2> SUFFICES ASSUME TypeOK, TypeOK', GoneInv, OneIndexPerCollection, [Next]_vars
               PROVE  GoneInv' /\ OneIndexPerCollection'
    OBVIOUS
  <2>1. CASE UNCHANGED vars
    BY <2>1 DEF vars, GoneInv, DeletedIsGone, NothingFoundOf, OneIndexPerCollection, name
  <2>2. ASSUME NEW t \in Thread, Receive(t) \/ Step(t) PROVE GoneInv' /\ OneIndexPerCollection'
    BY <2>2, OwnStepKeeps
  <2>3. ASSUME Restarted PROVE GoneInv' /\ OneIndexPerCollection'
    <3>1. \A t \in Thread : pc'[t] = "idle"
      BY <2>3 DEF Restarted
    <3>2. \A n \in Name : indexes'[n] = NULL
      BY <2>3 DEF Restarted
    <3>3. ASSUME NEW n \in gone' PROVE n \in Name /\ disk'[n].scheme = NULL
      <4>1. n \in gone /\ n \in Name
        BY <2>3, <3>3, RestartedDisk DEF TypeOK
      <4>2. Savers(n) = {}
        BY <4>1 DEF GoneInv, NothingFoundOf, Savers
      <4>3. disk'[n] = disk[n]
        BY <2>3, <3>3, <4>1, <4>2, RestartedDisk
      <4> QED
        BY <4>1, <4>3 DEF GoneInv, DeletedIsGone
    <3> QED
      BY <3>1, <3>2, <3>3
      DEF GoneInv, DeletedIsGone, NothingFoundOf, OneIndexPerCollection, Using
  <2> QED
    BY <2>1, <2>2, <2>3 DEF Next, BadAccess, Killed
<1> QED
  BY <1>1, <1>2, TypeCorrect, PTL DEF Spec

\* With a client of its own for every collection, one that was deleted is in
\* neither the registry nor the file system until it is created again, whatever
\* else the clients of other collections do and wherever the process is killed.
THEOREM OwnDeletedIsGone ==
    ASSUME EachItsOwn
    PROVE  Spec => []DeletedIsGone
<1>1. Spec => [](GoneInv /\ OneIndexPerCollection)
  BY OwnInvHolds
<1> QED
  BY <1>1, PTL DEF GoneInv

\* With a client of its own for every collection, no handler is left with the
\* pointer to an index that has been destroyed, deletions and creations included.
THEOREM OwnHandlerDoesNotDangle ==
    ASSUME EachItsOwn
    PROVE  Spec => []NoUseAfterFree
<1>1. Spec => [](GoneInv /\ OneIndexPerCollection)
  BY OwnInvHolds
<1> QED
  BY <1>1, RegistryIndexIsLive, TypeCorrect, ObjectsHaveOneOwner, PTL

-----------------------------------------------------------------------------
(***************************************************************************)
(* Schemas.  While nobody creates a collection, all that speaks of one     *)
(* name speaks of one schema s: its scheme.dat, the files written under a  *)
(* schema, the index of the registry, the index a thread is loading and    *)
(* the one a handler uses, destroyed or not.  Deletions, failed deletions  *)
(* and saves cut off only take such things away, or leave an empty         *)
(* scheme.dat.  So Load never meets files of another schema, and does not  *)
(* throw with the load mutex locked.                                       *)
(***************************************************************************)
OneSchemaOf(n, s) ==
    /\ disk[n].scheme \in {s, NULL, "torn"} /\ disk[n].data \in {s, NULL, "torn"}
    /\ indexes[n] # NULL => s # NULL /\ schema[indexes[n]] = s
    /\ \A t \in Thread :
          /\ pc[t] \in Private /\ name(t) = n => schemaOf(t) \in {s, NULL}
          /\ pc[t] = "install" /\ name(t) = n => s # NULL /\ schemaOf(t) = s
          /\ pc[t] \in Using /\ name(t) = n /\ ptr[t] # NULL => s # NULL /\ schemaOf(t) = s

EachOneSchema == \A n \in Name : \E s \in Schema \union {NULL} : OneSchemaOf(n, s)

\* Nobody sees the object whose schema is set.
LEMMA SchemasKept ==
    ASSUME TypeOK, OneOwner, NEW t \in Thread, Receive(t) \/ Step(t)
    PROVE  /\ \A u \in Thread : ptr[u] # NULL => schema'[ptr[u]] = schema[ptr[u]]
           /\ \A n \in Name : indexes[n] # NULL => schema'[indexes[n]] = schema[indexes[n]]
<1>1. CASE schema' = schema
  BY <1>1
<1>2. CASE Unused # {} /\ \E s : schema' = [schema EXCEPT ![NewObject] = s]
  <2>1. \A o \in Object : o # NewObject => schema'[o] = schema[o]
    BY <1>2 DEF TypeOK
  <2>2. \A n \in Name : indexes[n] # NULL => indexes[n] \in live
    BY DEF OneOwner, RegistryOwns, TypeOK
  <2> QED
    BY <1>2, <2>1, <2>2, NewObjectFact DEF TypeOK
<1> QED
  BY <1>1, <1>2
  DEF Receive, Step, GetOrLoadIndex, Found, NoScheme, LockLoadMutex, BlockOnLoadMutex, Recheck,
      LoadScheme, LoadData, LoadFails, LoadThrows, Discard, Install, UseIndex, FinishRead,
      FinishWrite, FinishSave, FinishCreate, CreateCollection, HasCollection, DeleteCollection,
      DeleteFails, shared

LEMMA OneSchemaStep ==
    ASSUME TypeOK, TypeOK', OneOwner, NobodyCreates, [Next]_vars,
           NEW n \in Name, NEW s \in Schema \union {NULL}, OneSchemaOf(n, s)
    PROVE  /\ OneSchemaOf(n, s)'
           /\ NobodyDeletes /\ disk[n].scheme = s /\ ~Restarted => disk'[n].scheme = s
<1> USE RegistryAssumption, RequestNamed
<1>1. CASE UNCHANGED vars
  BY <1>1 DEF vars, OneSchemaOf, schemaOf, name
<1>2. CASE Restarted
  <2>1. Created = {}
    BY DEF Created, NobodyCreates
  <2>2. \A t \in Savers(n) : schemaOf(t) = s
    BY DEF Savers, OneSchemaOf, Using, TypeOK
  <2>3. disk'[n].scheme \in {s, NULL, "torn"} /\ disk'[n].data \in {s, NULL, "torn"}
    BY <1>2, <2>1, <2>2, RestartedDisk DEF OneSchemaOf
  <2>4. indexes'[n] = NULL /\ \A t \in Thread : pc'[t] = "idle"
    BY <1>2 DEF Restarted
  <2> QED
    BY <1>2, <2>3, <2>4 DEF OneSchemaOf, Private, Using
<1>3. ASSUME NEW t \in Thread, Receive(t) \/ Step(t), pc[t] = "idle" \/ n # name(t)
      PROVE  OneSchemaOf(n, s)' /\ disk'[n] = disk[n]
  <2>1. OthersStay(t) /\ Untouched(n)
    BY <1>3, StepIsOwn DEF OthersStay
  <2>2. pc'[t] \in Private \union Using => name(t)' # n
    <3>1. CASE pc[t] = "idle"
      BY <1>3, <3>1
      DEF Receive, Step, GetOrLoadIndex, Found, NoScheme, LockLoadMutex, BlockOnLoadMutex,
          AtLoadMutex, Recheck, LoadScheme, LoadData, LoadFails, LoadThrows, Discard, Install,
          UseIndex, FinishRead, FinishWrite, FinishSave, FinishCreate, CreateCollection,
          HasCollection, DeleteCollection, DeleteFails, Private, Using, Goto, TypeOK
    <3>2. CASE pc[t] # "idle"
      <4>1. pc'[t] = "idle" \/ name(t)' = name(t)
        BY <1>3, <3>2
        DEF Receive, Step, GetOrLoadIndex, Found, NoScheme, NotFound, LockLoadMutex,
            BlockOnLoadMutex, Recheck, LoadScheme, LoadData, LoadFails, LoadThrows, Discard,
            Install, UseIndex, FinishRead, FinishWrite, FinishSave, FinishCreate,
            CreateCollection, HasCollection, DeleteCollection, DeleteFails, Answer, Goto, name,
            shared, TypeOK
      <4> QED
        BY <1>3, <3>2, <4>1 DEF Private, Using
    <3> QED
      BY <3>1, <3>2
  <2>3. ASSUME NEW u \in Thread \ {t}, pc'[u] \in Private \union Using, ptr'[u] # NULL
        PROVE  /\ pc'[u] = pc[u] /\ ptr'[u] = ptr[u] /\ name(u)' = name(u)
               /\ schemaOf(u)' = schemaOf(u)
    BY <1>3, <2>1, <2>3, SchemasKept DEF OthersStay, name, schemaOf
  <2>4. indexes[n] # NULL => schema'[indexes[n]] = schema[indexes[n]]
    BY <1>3, SchemasKept
  <2>5. \A u \in Thread : pc'[u] \in Private => ptr'[u] # NULL
    BY DEF TypeOK
  <2> QED
    BY <2>1, <2>2, <2>3, <2>4, <2>5 DEF OneSchemaOf, Untouched, Private, Using
<1>4. ASSUME NEW t \in Thread, Receive(t) \/ Step(t), pc[t] # "idle", n = name(t)
      PROVE  /\ OneSchemaOf(n, s)'
             /\ NobodyDeletes /\ disk[n].scheme = s => disk'[n].scheme = s
  <2>1. ASSUME NEW u \in Thread \ {t}, ptr'[u] # NULL
        PROVE  /\ pc'[u] = pc[u] /\ ptr'[u] = ptr[u] /\ name(u)' = name(u)
               /\ schemaOf(u)' = schemaOf(u)
    BY <1>4, <2>1, StepIsOwn, SchemasKept DEF OthersStay, name, schemaOf
  <2>2. indexes[n] # NULL => schema'[indexes[n]] = schema[indexes[n]]
    BY <1>4, SchemasKept
  <2>3. ptr[t] # NULL => schema'[ptr[t]] = schema[ptr[t]]
    BY <1>4, SchemasKept
  <2>4. \A u \in Thread : pc'[u] \in Private => ptr'[u] # NULL
    BY DEF TypeOK
  <2> DEFINE Mine ==
               /\ disk'[n].scheme \in {s, NULL, "torn"} /\ disk'[n].data \in {s, NULL, "torn"}
               /\ indexes'[n] # NULL => s # NULL /\ schema'[indexes'[n]] = s
               /\ pc'[t] \in Private => schemaOf(t)' \in {s, NULL}
               /\ pc'[t] = "install" => s # NULL /\ schemaOf(t)' = s
               /\ pc'[t] \in Using /\ ptr'[t] # NULL => s # NULL /\ schemaOf(t)' = s
               /\ NobodyDeletes /\ disk[n].scheme = s => disk'[n].scheme = s
  <2>5. Mine
    <3> USE <1>4, <2>2, <2>3 DEF OneSchemaOf, Private, Using, schemaOf
    <3>1. CASE Found(t) \/ NoScheme(t) \/ LockLoadMutex(t) \/ BlockOnLoadMutex(t) \/ Recheck(t)
      BY <3>1
      DEF Found, NoScheme, NotFound, LockLoadMutex, BlockOnLoadMutex, Recheck, Use, Answer, Goto,
          Point, shared, TypeOK
    <3>2. CASE LoadScheme(t)
      BY <3>2, NewObjectFact DEF LoadScheme, FieldsIn, Goto, Point, TypeOK
    <3>3. CASE LoadData(t) \/ LoadFails(t) \/ LoadThrows(t) \/ Discard(t)
      BY <3>3
      DEF LoadData, LoadFails, LoadThrows, Discard, NotFound, Answer, Goto, Point, shared, TypeOK
    <3>4. CASE Install(t)
      BY <3>4 DEF Install, Use, Goto, TypeOK
    <3>5. CASE FinishSave(t)
      BY <3>5 DEF FinishSave, Answer, Goto, Point, TypeOK
    <3>6. CASE FinishRead(t) \/ FinishWrite(t) \/ FinishCreate(t) \/ HasCollection(t)
      BY <3>6
      DEF FinishRead, FinishWrite, FinishCreate, HasCollection, Answer, Goto, Point, shared, TypeOK
    <3>7. CASE DeleteCollection(t) \/ DeleteFails(t)
      BY <3>7
      DEF DeleteCollection, DeleteFails, NoDirectory, Torn, NobodyDeletes, Answer, Goto, Point, TypeOK
    <3>8. ~CreateCollection(t) /\ ~Receive(t)
      BY DEF CreateCollection, NobodyCreates, Receive
    <3> QED
      BY <3>1, <3>2, <3>3, <3>4, <3>5, <3>6, <3>7, <3>8 DEF Step, GetOrLoadIndex, UseIndex
  <2> QED
    BY <2>1, <2>4, <2>5 DEF OneSchemaOf, Private, Using
<1> QED
  BY <1>1, <1>2, <1>3, <1>4 DEF Next, BadAccess, Killed

LEMMA EachOneSchemaHolds ==
    ASSUME OnlyRequests({"read", "write", "delete"})
    PROVE  Spec => []EachOneSchema
<1>1. Init => EachOneSchema
  <2> SUFFICES ASSUME Init, NEW n \in Name
               PROVE  \E s \in Schema \union {NULL} : OneSchemaOf(n, s)
    BY DEF EachOneSchema
  <2>1. disk[n].scheme \in Schema \union {NULL} /\ disk[n].data = disk[n].scheme
    BY DEF Init, NoDirectory
  <2>2. OneSchemaOf(n, disk[n].scheme)
    BY <2>1 DEF Init, OneSchemaOf, Private, Using
  <2> QED
    BY <2>1, <2>2
<1>2. TypeOK /\ TypeOK' /\ OneOwner /\ ServingInv /\ EachOneSchema /\ [Next]_vars => EachOneSchema'
  BY OneSchemaStep DEF EachOneSchema, ServingInv
<1> QED
  BY <1>1, <1>2, ServingInvHolds, TypeCorrect, ObjectsHaveOneOwner, PTL DEF Spec

\* While no client creates a collection, Load does not throw, and every locked
\* load mutex has a thread at work in the section it protects, whatever is
\* deleted, torn or cut off meanwhile.
THEOREM LocksHaveOwners ==
    ASSUME OnlyRequests({"read", "write", "delete"})
    PROVE  Spec => []NoOrphanLock
<1>1. Init => NoOrphanLock
  BY DEF Init, NoOrphanLock
<1>2. TypeOK /\ TypeOK' /\ EachOneSchema /\ NoOrphanLock /\ [Next]_vars => NoOrphanLock'
  <2> SUFFICES ASSUME TypeOK, TypeOK', EachOneSchema, NoOrphanLock, [Next]_vars
               PROVE  NoOrphanLock'
    OBVIOUS
  <2> USE RegistryAssumption, RequestNamed
  <2>1. CASE UNCHANGED vars
    BY <2>1 DEF vars, NoOrphanLock, name
  <2>2. CASE Restarted
    BY <2>2 DEF Restarted, NoOrphanLock
  <2>3. ASSUME NEW t \in Thread, Receive(t) \/ Step(t), NEW n \in Name, NEW h \in Thread,
               load_mutex'[n] = h
        PROVE  pc'[h] \in Loading /\ name(h)' = n
    <3>1. CASE LockLoadMutex(t)
      <4>1. pc[t] \notin Loading /\ name(t)' = name(t) /\ pc'[t] = "recheck"
            /\ \A u \in Thread \ {t} : pc'[u] = pc[u] /\ name(u)' = name(u)
        BY <3>1 DEF LockLoadMutex, AtLoadMutex, Loading, Goto, name, TypeOK
      <4>2. load_mutex' = [load_mutex EXCEPT ![name(t)] = t] /\ name(t) \in Name
        BY <3>1 DEF LockLoadMutex, AtLoadMutex
      <4> QED
        BY <2>3, <4>1, <4>2 DEF NoOrphanLock, Loading, TypeOK
    <3>2. CASE ~LockLoadMutex(t)
      <4>1. load_mutex[n] = h
        BY <2>3, <3>2
        DEF Receive, Step, GetOrLoadIndex, Found, NoScheme, BlockOnLoadMutex, Recheck, LoadScheme,
            LoadData, LoadFails, LoadThrows, Discard, Install, UseIndex, FinishRead, FinishWrite,
            FinishSave, FinishCreate, CreateCollection, HasCollection, DeleteCollection,
            DeleteFails, shared, TypeOK
      <4>2. pc[h] \in Loading /\ name(h) = n
        BY <4>1 DEF NoOrphanLock
      <4>3. CASE h # t
        BY <2>3, <4>2, <4>3, StepIsOwn DEF OthersStay, name
      <4>4. CASE h = t
        <5>1. ~LoadThrows(t)
          <6>1. PICK s \in Schema \union {NULL} : OneSchemaOf(n, s)
            BY DEF EachOneSchema
          <6> QED
            BY <4>2, <4>4, <6>1 DEF LoadThrows, Misfits, Fits, OneSchemaOf, Private
        <5>2. ~Discard(t) /\ ~Install(t)
          BY <2>3, <4>2, <4>4 DEF Discard, Install, TypeOK
        <5>3. CASE Recheck(t)
          BY <2>3, <4>2, <4>4, <5>3 DEF Recheck, Loading, Goto, name, TypeOK
        <5>4. CASE LoadScheme(t) \/ LoadData(t) \/ LoadFails(t)
          BY <4>2, <4>4, <5>4 DEF LoadScheme, LoadData, LoadFails, Loading, Goto, name, TypeOK
        <5> QED
          BY <2>3, <3>2, <4>2, <4>4, <5>1, <5>2, <5>3, <5>4
          DEF Receive, Step, GetOrLoadIndex, Found, NoScheme, BlockOnLoadMutex, UseIndex,
              FinishRead, FinishWrite, FinishSave, FinishCreate, CreateCollection, HasCollection,
              DeleteCollection, DeleteFails, Loading
      <4> QED
        BY <4>3, <4>4
    <3> QED
      BY <3>1, <3>2
  <2>4. ASSUME NEW t \in Thread, Receive(t) \/ Step(t), NEW n \in Name, load_mutex'[n] # NULL
        PROVE  load_mutex'[n] \in Thread
    BY <2>4 DEF TypeOK
  <2> QED
    BY <2>1, <2>2, <2>3, <2>4 DEF Next, BadAccess, Killed, NoOrphanLock
<1> QED
  BY <1>1, <1>2, EachOneSchemaHolds, TypeCorrect, PTL DEF Spec

\* Nothing of a collection is in memory, nor will be: what is being loaded of
\* it has no fields.
Unserved(n) ==
    /\ indexes[n] = NULL
    /\ \A t \in Thread :
          /\ pc[t] \in Private /\ name(t) = n => schemaOf(t) = NULL
          /\ pc[t] \in Using /\ name(t) = n => ptr[t] = NULL

\* An empty scheme.dat keeps a collection out of service.
LEMMA UnservedStays ==
    ASSUME TypeOK, TypeOK', OneOwner, NobodyCreates, NobodyDeletes,
           NEW t \in Thread, Receive(t) \/ Step(t),
           NEW n \in Name, NEW s \in Schema \union {NULL}, OneSchemaOf(n, s),
           disk[n].scheme = "torn", Unserved(n)
    PROVE  disk'[n].scheme = "torn" /\ Unserved(n)'
<1> USE RegistryAssumption, RequestNamed
<1>1. \A u \in Thread \ {t} : pc'[u] = pc[u] /\ ptr'[u] = ptr[u] /\ name(u)' = name(u)
  BY StepIsOwn DEF OthersStay, name
<1>2. \A u \in Thread : ptr[u] # NULL => schema'[ptr[u]] = schema[ptr[u]]
  BY SchemasKept
<1>3. ASSUME NEW u \in Thread \ {t}
      PROVE  /\ pc'[u] \in Private /\ name(u)' = n => schemaOf(u)' = NULL
             /\ pc'[u] \in Using /\ name(u)' = n => ptr'[u] = NULL
  BY <1>1, <1>2, <1>3 DEF Unserved, schemaOf, TypeOK
<1>4. CASE pc[t] = "idle" \/ n # name(t)
  <2>1. indexes'[n] = indexes[n] /\ disk'[n] = disk[n]
    BY <1>4, StepIsOwn DEF OthersStay, Untouched
  <2>2. pc'[t] \in Private \union Using => name(t)' # n
    <3>1. CASE pc[t] = "idle"
      BY <1>4, <3>1
      DEF Receive, Step, GetOrLoadIndex, Found, NoScheme, LockLoadMutex, BlockOnLoadMutex,
          AtLoadMutex, Recheck, LoadScheme, LoadData, LoadFails, LoadThrows, Discard, Install,
          UseIndex, FinishRead, FinishWrite, FinishSave, FinishCreate, CreateCollection,
          HasCollection, DeleteCollection, DeleteFails, Private, Using, Goto, TypeOK
    <3>2. CASE pc[t] # "idle"
      <4>1. pc'[t] = "idle" \/ name(t)' = name(t)
        BY <1>4, <3>2
        DEF Receive, Step, GetOrLoadIndex, Found, NoScheme, NotFound, LockLoadMutex,
            BlockOnLoadMutex, Recheck, LoadScheme, LoadData, LoadFails, LoadThrows, Discard,
            Install, UseIndex, FinishRead, FinishWrite, FinishSave, FinishCreate,
            CreateCollection, HasCollection, DeleteCollection, DeleteFails, Answer, Goto, name,
            shared, TypeOK
      <4> QED
        BY <1>4, <3>2, <4>1 DEF Private, Using
    <3> QED
      BY <3>1, <3>2
  <2> QED
    BY <1>3, <2>1, <2>2 DEF Unserved
<1>5. CASE pc[t] # "idle" /\ n = name(t)
  <2> DEFINE Mine == /\ disk'[n].scheme = "torn" /\ indexes'[n] = NULL
                     /\ pc'[t] \in Private => schemaOf(t)' = NULL
                     /\ pc'[t] \in Using => ptr'[t] = NULL
  <2>1. ptr[t] # NULL => schema'[ptr[t]] = schema[ptr[t]]
    BY <1>2
  <2>2. Mine
    <3> USE <1>5, <2>1 DEF Unserved, Private, Using, schemaOf
    <3>1. CASE Found(t) \/ NoScheme(t) \/ LockLoadMutex(t) \/ BlockOnLoadMutex(t) \/ Recheck(t)
      BY <3>1
      DEF Found, NoScheme, NotFound, LockLoadMutex, AtLoadMutex, BlockOnLoadMutex, Recheck, Use,
          Answer, Goto, Point, shared, TypeOK
    <3>2. CASE LoadScheme(t)
      BY <3>2, NewObjectFact DEF LoadScheme, FieldsIn, Goto, Point, TypeOK
    <3>3. CASE LoadData(t) \/ LoadFails(t) \/ LoadThrows(t) \/ Discard(t)
      BY <3>3
      DEF LoadData, LoadFails, LoadThrows, Discard, NotFound, Answer, Goto, Point, shared, TypeOK
    <3>4. ~Install(t)
      BY DEF Install, OneSchemaOf
    <3>5. ~FinishSave(t)
      BY DEF FinishSave, TypeOK
    <3>6. CASE FinishRead(t) \/ FinishWrite(t) \/ FinishCreate(t)
      BY <3>6 DEF FinishRead, FinishWrite, FinishCreate, Answer, Goto, Point, shared, TypeOK
    <3>7. /\ ~CreateCollection(t) /\ ~HasCollection(t) /\ ~Receive(t)
          /\ ~DeleteCollection(t) /\ ~DeleteFails(t)
      BY DEF CreateCollection, HasCollection, DeleteCollection, DeleteFails, NobodyCreates,
             NobodyDeletes, Receive
    <3> QED
      BY <3>1, <3>2, <3>3, <3>4, <3>5, <3>6, <3>7 DEF Step, GetOrLoadIndex, UseIndex
  <2> QED
    BY <1>3, <2>2 DEF Unserved
<1> QED
  BY <1>4, <1>5

\* As long as collections are only searched and posted to, the fields a
\* collection is served with are those of its scheme.dat, across restarts and
\* saves that were cut off; a save that left scheme.dat empty takes it out of
\* service.
THEOREM SchemaServedIsStored ==
    ASSUME OnlyRequests({"read", "write"})
    PROVE  Spec => []ServedSchemaIsStored
<1> DEFINE Stored(n, s) == /\ OneSchemaOf(n, s)
                           /\ \/ disk[n].scheme = s
                              \/ disk[n].scheme = "torn" /\ Unserved(n)
           Inv == \A n \in Name : \E s \in Schema \union {NULL} : Stored(n, s)
<1>0. OnlyRequests({"read", "write", "delete"})
  BY DEF OnlyRequests
<1>1. Init => Inv
  <2> SUFFICES ASSUME Init, NEW n \in Name PROVE Stored(n, disk[n].scheme)
                                                 /\ disk[n].scheme \in Schema \union {NULL}
    OBVIOUS
  <2> QED
    BY DEF Init, NoDirectory, OneSchemaOf, Private, Using
<1>2. TypeOK /\ TypeOK' /\ OneOwner /\ ServingInv /\ NobodyDeletes /\ Inv /\ [Next]_vars => Inv'
  <2> SUFFICES ASSUME TypeOK, TypeOK', OneOwner, ServingInv, NobodyDeletes, [Next]_vars,
                      NEW n \in Name, NEW s \in Schema \union {NULL}, Stored(n, s)
               PROVE  Stored(n, s)'
    OBVIOUS
  <2>1. OneSchemaOf(n, s)' /\ (disk[n].scheme = s /\ ~Restarted => disk'[n].scheme = s)
    BY OneSchemaStep DEF ServingInv
  <2>2. CASE UNCHANGED vars
    BY <2>1, <2>2 DEF vars, Unserved, schemaOf, name
  <2>3. CASE Restarted
    <3>1. Created = {}
      BY DEF Created, ServingInv, NobodyCreates
    <3>2. \A t \in Savers(n) : schemaOf(t) = s /\ ~Unserved(n)
      BY DEF Savers, OneSchemaOf, Unserved, Using, TypeOK
    <3>3. disk'[n].scheme \in {s, "torn"}
      BY <2>3, <3>1, <3>2, RestartedDisk
    <3>4. Unserved(n)'
      BY <2>3 DEF Restarted, Unserved, Private, Using
    <3> QED
      BY <2>1, <3>3, <3>4
  <2>4. ASSUME ~Restarted, NEW t \in Thread, Receive(t) \/ Step(t) PROVE Stored(n, s)'
    BY <2>1, <2>4, UnservedStays DEF ServingInv
  <2> QED
    BY <2>2, <2>3, <2>4 DEF Next, BadAccess, Killed
<1>3. TypeOK /\ Inv => ServedSchemaIsStored
  BY RegistryAssumption DEF ServedSchemaIsStored, OneSchemaOf, Unserved
<1>4. Spec => [](NobodyDeletes /\ OneIndexPerCollection)
  BY SharedIndexHolds
<1>5. Spec => []ServingInv
  BY <1>0, ServingInvHolds
<1> QED
  BY <1>1, <1>2, <1>3, <1>4, <1>5, TypeCorrect, ObjectsHaveOneOwner, PTL DEF Spec

=============================================================================
