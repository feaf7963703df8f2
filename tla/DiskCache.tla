----------------------------- MODULE DiskCache -----------------------------
(***************************************************************************)
(* The cache of temporary copies (src/src/cache.cpp, cache.h and           *)
(* common/salcacheedit.h).  A file of an archive or of a plug-in's file    *)
(* system is viewed or edited as a copy in TEMP; several threads share one *)
(* copy.  The cache is a monitor, and three things happen outside it:      *)
(*                                                                         *)
(*  - GetName leaves the monitor while it waits for the mutex Preparing,   *)
(*    which the thread that fills the copy owns;                           *)
(*  - AssignName waits for the one-place box before it enters, and leaves  *)
(*    in it a pair (lock, owner) for the watching thread;                  *)
(*  - the watching thread waits for the locks, takes the pair of a         *)
(*    signalled one out of its arrays and only then enters the monitor.    *)
(*                                                                         *)
(* Data is abstracted: a key of the cache is an element of Name, every     *)
(* prepared copy has size 1, the times of LastAccess are ranks.  The       *)
(* delete manager is its promise: a name handed to it is deleted later by  *)
(* the main thread.                                                        *)
(***************************************************************************)
EXTENDS Naturals, Sequences, FiniteSets

CONSTANTS
    Name,        \* the keys of the cache
    PluginName,  \* the keys whose copies a plug-in deletes (OwnDelete)
    Client,      \* the threads that call the cache
    MainThread,  \* the one the panels run in
    Panel,       \* the panels' ExecuteAssocEvent: the edit locks
    Viewer,      \* the locks of viewers: each is set once, then closed
    MaxSize,     \* MAX_CACHE_SIZE, in copies
    MaxWait,     \* MAXIMUM_WAIT_OBJECTS
    LowMemory,   \* whether the arrays of locks may fail to grow
    None

ASSUME NameAssumption == IsFiniteSet(Name) /\ PluginName \subseteq Name
ASSUME ClientAssumption == IsFiniteSet(Client) /\ MainThread \in Client
ASSUME LockAssumption == /\ Viewer \cap (Client \cup Panel) = {}
                         /\ Panel \cap Client = {}
ASSUME NoneAssumption == None \notin Name \cup Client
ASSUME BoundAssumption == MaxSize \in Nat /\ MaxWait \in Nat /\ MaxWait > 2
ASSUME LowMemoryAssumption == LowMemory \in BOOLEAN

VARIABLES
    rec,      \* name -> its record CCacheData, or None
    lastAccess, \* name -> its LastAccess, as a rank; 0: never touched
    at,       \* client -> where it is between its calls
    name,     \* client -> the name it has a request for, or None
    signaled, \* the locks that are in the signaled state
    boxFree,  \* the event Box
    inBox,    \* HandleInBox and OwnerInBox, or None; BoxFull goes with it
    watched,  \* Handles and Owners, without the three control handles
    watcher,  \* where the watching thread is
    offset,   \* its position in the pass over the handles
    hand,     \* the pair it took out of the arrays, or None; a pair it
              \* dropped because they could not grow stays here, as a ghost
    idle,     \* Idle: 0 empty, 1 query, 2 checking, 3 the answer is yes
    testIdle, \* the event TestIdle
    isIdle,   \* the event IsIdle
    asker     \* who is in WaitForIdleCS, or None

watcherVars == <<watched, watcher, offset, hand, idle, isIdle>>
boxVars == <<boxFree, inBox>>
idleVars == <<idle, testIdle, isIdle, asker>>
threadVars == <<watcherVars, testIdle, asker>>
vars == <<rec, lastAccess, at, name, signaled, boxFree, inBox, watched,
          watcher, offset, hand, idle, testIdle, isIdle, asker>>

-----------------------------------------------------------------------------
(* Locks and records                                                       *)

\* The events a thread holds its copies with: ExecuteAssocEvent of each panel
\* for the main thread, the fileLock of GetFileFromCache for a plug-in's.
Shared(c) == IF c = MainThread THEN Panel ELSE {c}

Lock == Viewer \cup UNION {Shared(c) : c \in Client}

IsEdit(l) == l \in Panel

Pair == Lock \X Name

Rec == [new      : Nat,            \* NewCount
        locks    : SUBSET Lock,    \* LockObject
        edits    : Nat,            \* EditPin.EditLocks
        stale    : BOOLEAN,        \* EditPin.StaleAfterEdit
        old      : BOOLEAN,        \* ghost: the copy predates a flush
        cached   : BOOLEAN,
        prepared : BOOLEAN,
        outOfDate: BOOLEAN,
        size     : {0, 1},
        holder   : Client \cup {None},  \* who owns the mutex Preparing
        own      : {"no", "plugin", "done"},  \* OwnDelete, OwnDeletePlugin
        queued   : BOOLEAN,        \* TmpName is in the delete manager
        onDisk   : BOOLEAN]        \* TmpName exists

\* None is a value of its own.
ASSUME RecordAssumption == None \notin Rec \cup Pair

NewRecord(n, c) ==
    [new |-> 1, locks |-> {}, edits |-> 0, stale |-> FALSE, old |-> FALSE,
     cached |-> FALSE, prepared |-> FALSE, outOfDate |-> FALSE, size |-> 0,
     holder |-> c, own |-> IF n \in PluginName THEN "plugin" ELSE "no",
     queued |-> FALSE, onDisk |-> FALSE]

Live == {n \in Name : rec[n] # None}

\* fault: only the locks are links.
IsLockedByLocks(r) == r.locks = {}

\* IsLocked(): "is the tmp-file without any link?"
IsLocked(r) == r.locks = {} /\ r.new = 0

\* fault: an outdated copy stays a cached one.
SetOutOfDateCached(r) == [r EXCEPT !.outOfDate = TRUE]

SetOutOfDate(r) == [r EXCEPT !.cached = FALSE, !.outOfDate = TRUE]

\* CleanFromDisk: the file goes now, or once the delete manager gets to it.
CleanFromDisk(r) ==
    CASE r.own = "no"     -> [r EXCEPT !.onDisk = FALSE]
      [] r.own = "plugin" -> [r EXCEPT !.own = "done", !.queued = TRUE]
      [] r.own = "done"   -> r

-----------------------------------------------------------------------------
(* The edit pin: salcacheedit.h                                            *)

\* fault: a mark set before the lock stays.
OnEditLockAddedMarked(r) == [r EXCEPT !.edits = @ + 1]

\* fault: the lock is not counted.
OnEditLockAddedUncounted(r) == r

OnEditLockAdded(r) ==
    IF r.outOfDate
    THEN [r EXCEPT !.edits = @ + 1, !.outOfDate = FALSE, !.stale = TRUE]
    ELSE [r EXCEPT !.edits = @ + 1]

\* fault: the deferred mark is lost with the lock.
OnLockRemovedForgets(r, edit) ==
    IF edit THEN [r EXCEPT !.edits = @ - 1, !.stale = FALSE] ELSE r

OnLockRemoved(r, edit) ==
    LET e == IF edit /\ r.edits > 0 THEN r.edits - 1 ELSE r.edits
    IN  IF edit /\ e = 0 /\ r.stale
        THEN SetOutOfDate([r EXCEPT !.edits = e, !.stale = FALSE])
        ELSE [r EXCEPT !.edits = e]

Normalize(r) ==
    CASE r.outOfDate /\ r.edits > 0 ->
             [r EXCEPT !.outOfDate = FALSE, !.stale = TRUE]
      [] r.stale /\ r.edits = 0 ->
             [r EXCEPT !.outOfDate = TRUE, !.stale = FALSE]
      [] OTHER -> r

\* CCacheData::Flush of a record in use; one without users is deleted.
FlushInUse(r) ==
    IF r.edits > 0 THEN [r EXCEPT !.stale = TRUE, !.old = TRUE]
                   ELSE [SetOutOfDate(r) EXCEPT !.old = TRUE]

Flush(r) == IF IsLocked(r) THEN None ELSE FlushInUse(r)

-----------------------------------------------------------------------------
(* The size of the cache: CheckCachedFiles                                 *)

\* A new record has LastAccess 0; the ranks above the old one close up.
Forget(la, n) ==
    [m \in Name |-> IF m = n THEN 0
                    ELSE IF la[n] > 0 /\ la[m] > la[n] THEN la[m] - 1
                    ELSE la[m]]

\* LastAccess = LastAccessCounter++
Touch(la, n) ==
    [Forget(la, n) EXCEPT
        ![n] = 1 + Cardinality({m \in Name \ {n} : la[m] > 0})]

Excess(recs) ==
    LET size == Cardinality({n \in Name : recs[n] # None /\ recs[n].size = 1})
    IN  IF size > MaxSize THEN size - MaxSize ELSE 0

Victims(recs) ==
    {n \in Name : recs[n] # None /\ IsLocked(recs[n]) /\ recs[n].cached}

\* The oldest victims, until the rest fits; at least one victim stays.
Evicted(recs, la, E) ==
    LET V == Victims(recs)
    IN  /\ E \subseteq V
        /\ \A e \in E, v \in V \ E : la[e] <= la[v]
        /\ IF V = {} THEN E = {}
           ELSE IF Excess(recs) < Cardinality(V) - 1
           THEN Cardinality(E) = Excess(recs)
           ELSE Cardinality(E) = Cardinality(V) - 1

\* The end of ReleaseName and of WaitSatisfied for name n, whose record is
\* now r: without links it goes, or the whole cache is checked if it is
\* cached.
Settle(n, r) ==
    CASE ~ IsLocked(r)  -> rec' = [rec EXCEPT ![n] = r]
      [] IsLocked(r) /\ ~ r.cached -> rec' = [rec EXCEPT ![n] = None]
      [] IsLocked(r) /\ r.cached ->
            LET recs == [rec EXCEPT ![n] = r]
            IN  \E E \in SUBSET Name :
                   /\ Evicted(recs, lastAccess', E)
                   /\ rec' = [m \in Name |-> IF m \in E THEN None ELSE recs[m]]

-----------------------------------------------------------------------------
(* GetName.  A request counts in NewCount from here to AssignName or       *)
(* ReleaseName.                                                            *)

Goto(c, place, n) ==
    /\ at' = [at EXCEPT ![c] = place]
    /\ name' = [name EXCEPT ![c] = n]

\* CCacheData::GetName once the caller c owns the mutex and is in the
\* monitor; r is the record with its request counted.
LookUp(c, n, r0, onlyAdd) ==
    LET r == IF r0.prepared THEN Normalize(r0) ELSE r0
        ready == r.prepared /\ r.onDisk /\ ~ r.outOfDate
    IN  \/ /\ ready
           /\ ~ onlyAdd
           /\ rec' = [rec EXCEPT ![n] = [r EXCEPT !.holder = None]]
           /\ Goto(c, "using", n)
        \/ /\ ready
           /\ onlyAdd     \* DCGNE_ALREADYEXISTS
           /\ rec' = [rec EXCEPT ![n] = [r EXCEPT !.holder = None,
                                                  !.new = @ - 1]]
           /\ Goto(c, "out", None)
        \/ /\ ~ ready     \* c has to prepare the copy
           /\ rec' = [rec EXCEPT ![n] =
                        CleanFromDisk([r EXCEPT !.prepared = FALSE,
                                                !.outOfDate = FALSE,
                                                !.old = FALSE])]
           /\ Goto(c, "filling", n)

\* The name is not known: tmpName # NULL, so a record is added.
GetNewName(c, n) ==
    /\ at[c] = "out"
    /\ rec[n] = None
    /\ rec' = [rec EXCEPT ![n] = NewRecord(n, c)]
    /\ lastAccess' = Forget(lastAccess, n)
    /\ Goto(c, "filling", n)
    /\ UNCHANGED <<signaled, boxVars, threadVars>>

\* canBlock: the request is counted, and the monitor is left.
GetNameAndWait(c, n) ==
    /\ at[c] = "out"
    /\ rec[n] # None
    /\ rec' = [rec EXCEPT ![n].new = @ + 1]
    /\ Goto(c, "blocked", n)
    /\ UNCHANGED <<lastAccess, signaled, boxVars, threadVars>>

\* WaitForSingleObject(Preparing, INFINITE) returns ...
PreparingAcquired(c) ==
    /\ at[c] = "blocked"
    /\ rec[name[c]].holder = None
    /\ rec' = [rec EXCEPT ![name[c]].holder = c]
    /\ at' = [at EXCEPT ![c] = "entering"]
    /\ UNCHANGED <<lastAccess, name, signaled, boxVars, threadVars>>

\* ... and the monitor is entered again.
GetNameAfterWait(c) ==
    /\ at[c] = "entering"
    /\ LookUp(c, name[c], rec[name[c]], FALSE)
    /\ UNCHANGED <<lastAccess, signaled, boxVars, threadVars>>

\* fault: nobody asks for the mutex.
GetNameAtOnceUnasked(c, n, onlyAdd) ==
    /\ at[c] = "out"
    /\ rec[n] # None
    /\ LookUp(c, n, [rec[n] EXCEPT !.new = @ + 1, !.holder = c], onlyAdd)
    /\ UNCHANGED <<lastAccess, signaled, boxVars, threadVars>>

\* tmpName = NULL or onlyAdd: no waiting.  While another thread owns the
\* mutex the call only fails.
GetNameAtOnce(c, n, onlyAdd) ==
    /\ at[c] = "out"
    /\ rec[n] # None
    /\ rec[n].holder = None
    /\ LookUp(c, n, [rec[n] EXCEPT !.new = @ + 1, !.holder = c], onlyAdd)
    /\ UNCHANGED <<lastAccess, signaled, boxVars, threadVars>>

-----------------------------------------------------------------------------
(* What follows a successful GetName                                       *)

NamePrepared(c) ==
    /\ at[c] = "filling"
    /\ rec' = [rec EXCEPT ![name[c]] = [@ EXCEPT !.size = 1,
                                                 !.prepared = TRUE,
                                                 !.holder = None,
                                                 !.onDisk = TRUE]]
    /\ at' = [at EXCEPT ![c] = "using"]
    /\ UNCHANGED <<lastAccess, name, signaled, boxVars, threadVars>>

ReleaseName(c, storeInCache) ==
    /\ at[c] \in {"filling", "using"}
    /\ LET n == name[c]
           r == [rec[n] EXCEPT
                   !.new = @ - 1,
                   !.holder = IF ~ rec[n].prepared /\ @ = c THEN None ELSE @]
           store == /\ IsLocked(r)
                    /\ r.prepared
                    /\ storeInCache
                    /\ ~ r.outOfDate
       IN  /\ lastAccess' = IF store THEN Touch(lastAccess, n)
                                     ELSE lastAccess
           /\ Settle(n, [r EXCEPT !.cached = @ \/ store])
    /\ Goto(c, "out", None)
    /\ UNCHANGED <<signaled, boxVars, threadVars>>

\* fault: the box may be full.
WaitForBoxNot(c) ==
    /\ at[c] = "using"
    /\ boxFree' = FALSE
    /\ at' = [at EXCEPT ![c] = "boxing"]
    /\ UNCHANGED <<rec, lastAccess, name, signaled, inBox, threadVars>>

\* AssignName: WaitForBox, outside the monitor.
WaitForBox(c) ==
    /\ at[c] = "using"
    /\ boxFree
    /\ boxFree' = FALSE
    /\ at' = [at EXCEPT ![c] = "boxing"]
    /\ UNCHANGED <<rec, lastAccess, name, signaled, inBox, threadVars>>

\* A viewer's lock is new; a thread's own event is assigned to a copy once
\* (a copy the panel already tracks is released instead).
Assignable(c, l, n) ==
    \/ /\ l \in Viewer
       /\ l \notin signaled
       /\ \A m \in Live : l \notin rec[m].locks
    \/ l \in Shared(c) /\ l \notin rec[n].locks

\* Inside it.  remove: crtCacheEdit for the panel's event, crtCache for a
\* plug-in's, either crtCache or crtDirect for a viewer.
AssignName(c, l, cache) ==
    /\ at[c] = "boxing"
    /\ LET n == name[c]
           r == [rec[n] EXCEPT !.new = @ - 1, !.locks = @ \cup {l},
                               !.cached = @ \/ (cache /\ ~ rec[n].outOfDate)]
       IN  /\ Assignable(c, l, n)
           /\ l \in Shared(c) => cache
           /\ rec' = [rec EXCEPT ![n] = IF IsEdit(l) THEN OnEditLockAdded(r)
                                                     ELSE r]
           /\ inBox' = <<l, n>>
    /\ Goto(c, "out", None)
    /\ UNCHANGED <<lastAccess, signaled, boxFree, threadVars>>

\* LockObject could not grow: the request is gone, the box is released.
AssignNameFails(c) ==
    /\ LowMemory
    /\ at[c] = "boxing"
    /\ rec' = [rec EXCEPT ![name[c]].new = @ - 1]
    /\ boxFree' = TRUE
    /\ Goto(c, "out", None)
    /\ UNCHANGED <<lastAccess, signaled, inBox, threadVars>>

\* FlushCache (all names with a prefix) and FlushOneFile.
FlushCache(c, names) ==
    /\ at[c] = "out"
    /\ rec' = [n \in Name |-> IF n \in names \cap Live THEN Flush(rec[n])
                                                       ELSE rec[n]]
    /\ UNCHANGED <<lastAccess, at, name, signaled, boxVars, threadVars>>

-----------------------------------------------------------------------------
(* The watching thread: WaitForObjects, ReceiveBox, WaitSatisfied          *)

\* The handles are BoxFull, TestIdle (Terminate never comes) and the locks.
HandleCount == 2 + Len(watched)

HandleSignaled(i) ==
    CASE i = 1 -> inBox # None
      [] i = 2 -> testIdle
      [] OTHER -> watched[i - 2][1] \in signaled

\* The part of the handles one WaitForMultipleObjects waits for.
Part == {i \in 1..HandleCount : offset < i /\ i <= offset + MaxWait}

BeginPass ==
    /\ watcher = "begin"
    /\ idle' = IF idle = 1 THEN 2 ELSE idle
    /\ offset' = 0
    /\ watcher' = "pass"
    /\ UNCHANGED <<rec, lastAccess, at, name, signaled, boxVars, watched,
                   hand, testIdle, isIdle, asker>>

\* fault: only the first part is ever waited for.
NextPartNever ==
    /\ watcher = "pass"
    /\ \A i \in Part : ~ HandleSignaled(i)
    /\ watcher' = "end"
    /\ UNCHANGED <<rec, lastAccess, at, name, signaled, boxVars, watched,
                   offset, hand, idleVars>>

\* A part of the handles timed out.
NextPart ==
    /\ watcher = "pass"
    /\ \A i \in Part : ~ HandleSignaled(i)
    /\ offset' = offset + MaxWait
    /\ watcher' = IF offset + MaxWait < HandleCount THEN "pass" ELSE "end"
    /\ UNCHANGED <<rec, lastAccess, at, name, signaled, boxVars, watched,
                   hand, idleVars>>

\* fault: a question asked in the middle of a pass is answered by it.
EndPassTooEarly ==
    /\ watcher = "end"
    /\ idle' = IF idle \in {1, 2} THEN 3 ELSE idle
    /\ isIdle' = (isIdle \/ idle \in {1, 2})
    /\ watcher' = "begin"
    /\ UNCHANGED <<rec, lastAccess, at, name, signaled, boxVars, watched,
                   offset, hand, testIdle, asker>>

\* All of them did: an asked thread is idle.
EndPass ==
    /\ watcher = "end"
    /\ idle' = IF idle = 2 THEN 3 ELSE idle
    /\ isIdle' = (isIdle \/ idle = 2)
    /\ watcher' = "begin"
    /\ UNCHANGED <<rec, lastAccess, at, name, signaled, boxVars, watched,
                   offset, hand, testIdle, asker>>

RemovePosition(s, i) ==
    [j \in 1..(Len(s) - 1) |-> IF j < i THEN s[j] ELSE s[j + 1]]

\* fault: the question is forgotten.
AnswerNoForgets == IF idle = 2 THEN 0 ELSE idle

\* "formality: answer 'no', but since it asked, it asks again"
AnswerNo == IF idle = 2 THEN 1 ELSE idle

\* The first signaled handle of the part is dealt with.
HandleFound ==
    /\ watcher = "pass"
    /\ \E i \in Part :
          /\ HandleSignaled(i)
          /\ \A j \in Part : j < i => ~ HandleSignaled(j)
          /\ CASE i = 1 ->      \* ReceiveBox, ReleaseBox
                    /\ watched' = Append(watched, inBox)
                    /\ inBox' = None
                    /\ boxFree' = TRUE
                    /\ watcher' = "begin"
                    /\ UNCHANGED <<hand, testIdle>>
               [] i = 2 ->      \* TestIdle only ended the wait
                    /\ testIdle' = FALSE
                    /\ watcher' = "begin"
                    /\ UNCHANGED <<watched, boxVars, hand>>
               [] OTHER ->
                    /\ hand' = watched[i - 2]
                    /\ watched' = RemovePosition(watched, i - 2)
                    /\ watcher' = "satisfied"
                    /\ UNCHANGED <<boxVars, testIdle>>
    /\ idle' = AnswerNo
    /\ UNCHANGED <<rec, lastAccess, at, name, signaled, offset, isIdle, asker>>

\* ReceiveBox fails, the arrays cannot grow: the box is released, the pair is
\* dropped, and the thread goes no further ("we will stuck on purpose").
ReceiveBoxFails ==
    /\ LowMemory
    /\ watcher = "pass"
    /\ 1 \in Part /\ HandleSignaled(1)
    /\ hand' = inBox
    /\ inBox' = None
    /\ boxFree' = TRUE
    /\ watcher' = "stuck"
    /\ idle' = AnswerNo
    /\ UNCHANGED <<rec, lastAccess, at, name, signaled, watched, offset,
                   testIdle, isIdle, asker>>

\* CDiskCache::WaitSatisfied, in the monitor: the copy loses a link.  The
\* lock of a viewer is closed.
WaitSatisfied ==
    /\ watcher = "satisfied"
    /\ LET l == hand[1]
           n == hand[2]
           r == OnLockRemoved([rec[n] EXCEPT !.locks = @ \ {l}], IsEdit(l))
       IN  /\ lastAccess' = IF IsLocked(r) THEN Touch(lastAccess, n)
                                           ELSE lastAccess
           /\ Settle(n, r)
           /\ signaled' = signaled \ ({l} \cap Viewer)
    /\ hand' = None
    /\ watcher' = "begin"
    /\ UNCHANGED <<at, name, boxVars, watched, offset, idleVars>>

-----------------------------------------------------------------------------
(* UnlockFileInCache, and the panel that closes an archive:                *)
(* SetEvent(lock), WaitForIdle, ResetEvent(lock)                           *)

SetSharedLock(c, l) ==
    /\ at[c] = "out"
    /\ signaled' = signaled \cup {l}
    /\ at' = [at EXCEPT ![c] = "unlocking"]
    /\ UNCHANGED <<rec, lastAccess, name, boxVars, threadVars>>

\* WaitForIdleCS, and Idle = 1
Ask(c) ==
    /\ at[c] = "unlocking"
    /\ asker = None
    /\ asker' = c
    /\ idle' = 1
    /\ at' = [at EXCEPT ![c] = "asking"]
    /\ UNCHANGED <<rec, lastAccess, name, signaled, boxVars, watched, watcher,
                   offset, hand, testIdle, isIdle>>

\* SetEvent(TestIdle)
WakeWatcher(c) ==
    /\ at[c] = "asking"
    /\ testIdle' = TRUE
    /\ at' = [at EXCEPT ![c] = "waiting"]
    /\ UNCHANGED <<rec, lastAccess, name, signaled, boxVars, watcherVars,
                   asker>>

\* IsIdle came: the critical section is left and the lock is reset.
IdleAnswered(c) ==
    /\ at[c] = "waiting"
    /\ isIdle
    /\ isIdle' = FALSE
    /\ asker' = None
    /\ signaled' = signaled \ Shared(c)
    /\ at' = [at EXCEPT ![c] = "out"]
    /\ UNCHANGED <<rec, lastAccess, name, boxVars, watched, watcher, offset,
                   hand, idle, testIdle>>

-----------------------------------------------------------------------------
(* Outside of the cache                                                    *)

\* A viewer is closed.
CloseViewer(l) ==
    /\ l \in Viewer \ signaled
    /\ \E n \in Live : l \in rec[n].locks
    /\ signaled' = signaled \cup {l}
    /\ UNCHANGED <<rec, lastAccess, at, name, boxVars, threadVars>>

\* Somebody else removes the copy from TEMP.
RemoveCopy(n) ==
    /\ n \in Live
    /\ rec[n].prepared /\ rec[n].onDisk
    /\ rec' = [rec EXCEPT ![n].onDisk = FALSE]
    /\ UNCHANGED <<lastAccess, at, name, signaled, boxVars, threadVars>>

\* The main thread gets to the name: CPluginData::DeleteTmpCopy.
DeleteTmpCopy(n) ==
    /\ n \in Live
    /\ rec[n].queued
    /\ rec' = [rec EXCEPT ![n].queued = FALSE, ![n].onDisk = FALSE]
    /\ UNCHANGED <<lastAccess, at, name, signaled, boxVars, threadVars>>

-----------------------------------------------------------------------------
Init ==
    /\ rec = [n \in Name |-> None]
    /\ lastAccess = [n \in Name |-> 0]
    /\ at = [c \in Client |-> "out"]
    /\ name = [c \in Client |-> None]
    /\ signaled = {}
    /\ boxFree = TRUE
    /\ inBox = None
    /\ watched = << >>
    /\ watcher = "begin"
    /\ offset = 0
    /\ hand = None
    /\ idle = 0
    /\ testIdle = FALSE
    /\ isIdle = FALSE
    /\ asker = None

ClientStep(c) ==
    \/ \E n \in Name : GetNewName(c, n) \/ GetNameAndWait(c, n)
    \/ \E n \in Name, onlyAdd \in BOOLEAN : GetNameAtOnce(c, n, onlyAdd)
    \/ PreparingAcquired(c) \/ GetNameAfterWait(c)
    \/ NamePrepared(c)
    \/ \E storeInCache \in BOOLEAN : ReleaseName(c, storeInCache)
    \/ WaitForBox(c)
    \/ \E l \in Lock, cache \in BOOLEAN : AssignName(c, l, cache)
    \/ AssignNameFails(c)
    \/ \E names \in SUBSET Name : FlushCache(c, names)
    \/ \E l \in Shared(c) : SetSharedLock(c, l)
    \/ Ask(c) \/ WakeWatcher(c) \/ IdleAnswered(c)

WatcherStep ==
    \/ BeginPass \/ NextPart \/ EndPass
    \/ HandleFound \/ ReceiveBoxFails \/ WaitSatisfied

Environment ==
    \/ \E l \in Viewer : CloseViewer(l)
    \/ \E n \in Name : RemoveCopy(n) \/ DeleteTmpCopy(n)

Next == (\E c \in Client : ClientStep(c)) \/ WatcherStep \/ Environment

Spec == Init /\ [][Next]_vars

\* The watching thread runs for as long as the program does.
WatchedSpec == Spec /\ WF_vars(WatcherStep)
                    /\ \A c \in Client : /\ WF_vars(WakeWatcher(c))
                                         /\ WF_vars(IdleAnswered(c))

-----------------------------------------------------------------------------
(* Properties                                                              *)

\* Every variable keeps its type.
TypeOK ==
    /\ rec \in [Name -> Rec \cup {None}]
    /\ lastAccess \in [Name -> Nat]
    /\ at \in [Client -> {"out", "blocked", "entering", "filling", "using",
                          "boxing", "unlocking", "asking", "waiting"}]
    /\ name \in [Client -> Name \cup {None}]
    /\ signaled \subseteq Lock
    /\ boxFree \in BOOLEAN
    /\ inBox \in Pair \cup {None}
    /\ watched \in Seq(Pair)
    /\ watcher \in {"begin", "pass", "end", "satisfied", "stuck"}
    /\ offset \in Nat
    /\ hand \in Pair \cup {None}
    /\ idle \in 0..3
    /\ testIdle \in BOOLEAN
    /\ isIdle \in BOOLEAN
    /\ asker \in Client \cup {None}

Requests(n) == {c \in Client : name[c] = n}

\* No caller works with a deleted record: a name somebody has a request for
\* has a record, and its NewCount is the number of those requests - also
\* while GetName is out of the monitor and while AssignName waits for the
\* box.
RequestsAreCounted ==
    \A n \in Name :
        IF rec[n] = None THEN Requests(n) = {}
                         ELSE rec[n].new = Cardinality(Requests(n))

InTransit == {inBox, hand} \ {None}

\* The owner of a pair that the watching thread has in its arrays, in the
\* box or in its hand is a record that still exists and still holds the
\* lock: the pointer the thread brings into the monitor is good.
WatchedOwnersAreAlive ==
    \A p \in {watched[i] : i \in 1..Len(watched)} \cup InTransit :
        /\ rec[p[2]] # None
        /\ p[1] \in rec[p[2]].locks

\* And the other way: a lock a record holds is watched, once, so that the
\* copy is let go when the lock is signaled.  One lock may be watched nowhere:
\* the one ReceiveBox found no room for, and then the watching thread stands
\* still for good and answers nobody.
LocksAreWatched ==
    \A n \in Live : \A l \in rec[n].locks :
        LET p == <<l, n>>
            places == {i \in 1..Len(watched) : watched[i] = p}
        IN  \/ p \notin InTransit /\ Cardinality(places) = 1
            \/ places = {} /\ p = inBox /\ p # hand
            \/ places = {} /\ p = hand /\ p # inBox
               /\ watcher \in {"satisfied", "stuck"}

\* Whoever was told to prepare a copy owns its mutex: two threads never fill
\* one copy.
PreparerIsAlone ==
    \A c \in Client : at[c] = "filling" => rec[name[c]].holder = c

\* salcacheedit.h: "while EditLocks > 0 the record is never 'out of date',
\* and StaleAfterEdit implies EditLocks > 0".
EditPinInvariant ==
    \A n \in Live : /\ rec[n].edits > 0 => ~ rec[n].outOfDate
                    /\ rec[n].stale => rec[n].edits > 0

\* No step deletes a copy that an editor has open or takes it for a new
\* extraction, unless the panel let go of it or somebody else removed the
\* file.
EditedCopyIsKept ==
    [][\A n \in Live :
          (rec[n].locks \cap Panel # {} /\ rec[n].prepared /\ rec[n].onDisk)
             => \/ /\ hand # None /\ hand' = None /\ hand[2] = n
                   /\ rec[n].locks \cap Panel = {hand[1]}
                \/ rec'[n] # None /\ rec'[n].prepared]_vars

\* A copy that predates a flush is not handed out after it as the current
\* one, except to share it with the editor that pins it.
FlushedCopyIsNotServed ==
    [][\A c \in Client :
          (at[c] \in {"out", "entering"} /\ at'[c] = "using")
             => \/ ~ rec'[name'[c]].old
                \/ rec'[name'[c]].edits > 0]_vars

\* Such a copy does not stay in the cache once its editors are gone.
FlushedCopyIsNotCached ==
    \A n \in Live : rec[n].old /\ rec[n].edits = 0 => ~ rec[n].cached

\* "waits until all dependent files are deleted": when WaitForIdle returns,
\* no copy depends on the caller's lock any more - the caller resets the
\* event next, and a link left over would never be dropped.
IdleMeansUnlocked ==
    \A c \in Client :
        (at[c] = "waiting" /\ isIdle)
           => \A n \in Live : rec[n].locks \cap Shared(c) \cap signaled = {}

\* The link of a closed viewer is dropped in the end - unless the watching
\* thread lost a lock for want of memory and stands still on purpose.
ClosedViewersLetGo ==
    \A l \in Viewer : \/ l \in signaled ~> l \notin signaled
                      \/ <>(watcher = "stuck")

\* Who entered WaitForIdleCS gets the answer (the critical section itself is
\* not fair to those who wait for it) - unless other threads assign locks
\* for ever: a pass over the handles that finds one does not count.  When the
\* watching thread stands still for want of memory, WaitForIdle waits for ever.
WaitForIdleReturns ==
    \A c \in Client : \/ at[c] = "asking" ~> at[c] = "out"
                      \/ []<>(inBox # None)
                      \/ <>(watcher = "stuck")
=============================================================================
