---------------------------- MODULE ThreadQueue ----------------------------
(***************************************************************************)
(* CThreadQueue (src/src/plugins/shared/auxtools.cpp): the threads that a  *)
(* plug-in has started.  Its DLL is unloaded after KillAll has returned    *)
(* TRUE, so no thread of the queue may be running then.                    *)
(*                                                                         *)
(* The queue is a list of thread handles under the critical section CS.    *)
(* Waiting for a thread and terminating one happen outside of the section, *)
(* on a handle whose item is locked meanwhile.  A handle is closed when    *)
(* its item is deleted, and Windows may then give the value to another     *)
(* thread; callers may pass a value they got long ago.                     *)
(*                                                                         *)
(* A stay in the section is one step where it neither waits nor is         *)
(* observed half way; StartThread and KillAll wait in it.  A thread that   *)
(* KillThread terminates during any of its stays is in the section for     *)
(* ever: what it had half done there nobody can look at any more.          *)
(***************************************************************************)
EXTENDS Integers, Sequences, SequencesExt, Filters

CONSTANTS
    Main,           \* the main thread: it alone calls KillAll
    Threads,        \* the threads that may be started, each once
    Handles,        \* values of thread handles
    Waiters,        \* who calls WaitForExit
    Killers,        \* who calls KillThread
    Sleeps,         \* bound: sleeps of 50 ms in the time KillAll has
    None

Actors == Threads \union {Main}

ASSUME ThreadQueueAssumption ==
    /\ IsFiniteSet(Threads) /\ Main \notin Threads
    /\ Waiters \subseteq Actors /\ Killers \subseteq Actors
    /\ Sleeps \in Nat /\ None \notin Handles \union Actors

VARIABLES
    queue,          \* the items from Head on; an item is named by its thread
    handle,         \* the open handle of each queued thread
    locks,          \* Locks of each item
    life,           \* what the thread does: unborn, resumed, running, ended
    cs,             \* who is in the critical section
    continue,       \* the auto-reset event Continue
    pc,             \* the place of each actor in a method of the queue
    arg,            \* the handle passed to WaitForExit or KillThread
    deleteIt,       \* deleteIfUnlocked, the argument of UnlockItem
    held,           \* history: the item the actor has locked
    kill            \* KillAll: force, whether it waits INFINITE, else the
                    \* sleeps left, the position, the answer

vars == <<queue, handle, locks, life, cs, continue, pc, arg, deleteIt, held, kill>>

Queued == ToSet(queue)
Running(t) == life[t] \in {"resumed", "running"}     \* STILL_ACTIVE
CanRun(a) == a # Main => life[a] = "running"

\* the item a handle value belongs to at the moment (a set of at most one)
ItemOf(h) == {t \in Queued : handle[t] = h}

InKillAll == {"stopping", "walking", "sleeping"}

-----------------------------------------------------------------------------
Init ==
    /\ queue = <<>> /\ handle = [t \in Threads |-> None]
    /\ locks = [t \in Threads |-> 0] /\ life = [t \in Threads |-> "unborn"]
    /\ cs = None /\ continue = FALSE
    /\ pc = [a \in Actors |-> "out"] /\ arg = [a \in Actors |-> None]
    /\ deleteIt = [a \in Actors |-> FALSE] /\ held = [a \in Actors |-> None]
    /\ kill = [force |-> FALSE, endless |-> FALSE, left |-> 0, item |-> 1, answer |-> FALSE]

Goto(a, place) == pc' = [pc EXCEPT ![a] = place]

Without(t) == Kept(queue, Threads \ {t})

\* the list becomes q; CloseHandle for every item deleted from it
Shorten(q) ==
    /\ queue' = q
    /\ handle' = [t \in Threads |-> IF t \in ToSet(q) THEN handle[t] ELSE None]

\* fault: the locks of an item are not looked at
ClearAllFinished == Kept(queue, {t \in Threads : Running(t)})

ClearFinishedThreads == Kept(queue, {t \in Threads : locks[t] > 0 \/ Running(t)})

Add(t) == <<t>> \o ClearFinishedThreads

\* StartThread: a new thread, suspended, is queued and resumed; its handle has
\* a value that no open handle has
StartThread(a, t) ==
    /\ CanRun(a) /\ pc[a] = "out" /\ cs = None
    /\ life[t] = "unborn" /\ a # t
    /\ queue' = Add(t)
    /\ \E h \in Handles \ {handle[u] : u \in Queued} :
          handle' = [u \in Threads |-> IF u = t THEN h
                                       ELSE IF u \in ToSet(Add(t)) THEN handle[u] ELSE None]
    /\ life' = [life EXCEPT ![t] = "resumed"]
    /\ cs' = a /\ Goto(a, "handing over")
    /\ UNCHANGED <<locks, continue, arg, deleteIt, held, kill>>

\* ThreadBase copies its data from the starter's stack and sets Continue
ThreadBase(t) ==
    /\ life[t] = "resumed"
    /\ life' = [life EXCEPT ![t] = "running"] /\ continue' = TRUE
    /\ UNCHANGED <<queue, handle, locks, cs, pc, arg, deleteIt, held, kill>>

StartThreadReturns(a) ==
    /\ CanRun(a) /\ pc[a] = "handing over" /\ continue
    /\ continue' = FALSE /\ cs' = None /\ Goto(a, "out")
    /\ UNCHANGED <<queue, handle, locks, life, arg, deleteIt, held, kill>>

ThreadEnds(t) ==
    /\ life[t] = "running" /\ pc[t] = "out"
    /\ life' = [life EXCEPT ![t] = "ended"]
    /\ UNCHANGED <<queue, handle, locks, cs, continue, pc, arg, deleteIt, held, kill>>

Lock(t) == [locks EXCEPT ![t] = @ + 1]

\* FindAndLockItem for a handle some thread once got; not found, the methods
\* return at once
FindAndLockItem(a, h, method) ==
    /\ CanRun(a) /\ pc[a] = "out" /\ cs = None
    /\ \E t \in ItemOf(h) :
          /\ locks' = Lock(t) /\ held' = [held EXCEPT ![a] = t]
    /\ arg' = [arg EXCEPT ![a] = h] /\ Goto(a, method)
    /\ UNCHANGED <<queue, handle, life, cs, continue, deleteIt, kill>>

WaitForExit(a) == a \in Waiters /\ \E h \in Handles : FindAndLockItem(a, h, "waiting")
KillThread(a) == a \in Killers /\ \E h \in Handles : FindAndLockItem(a, h, "killing")

Release(a, delete) ==
    /\ deleteIt' = [deleteIt EXCEPT ![a] = delete] /\ Goto(a, "releasing")
    /\ UNCHANGED <<queue, handle, locks, continue, arg, held, kill>>

\* WaitForSingleObject: the thread has ended, or the handle is not valid
WaitIsOver(a) ==
    /\ CanRun(a) /\ pc[a] = "waiting"
    /\ \A t \in ItemOf(arg[a]) : ~Running(t)
    /\ Release(a, TRUE) /\ UNCHANGED <<life, cs>>

WaitTimesOut(a) ==
    /\ CanRun(a) /\ pc[a] = "waiting"
    /\ Release(a, FALSE) /\ UNCHANGED <<life, cs>>

\* a thread about to enter a method's section may be in it at any moment at
\* which nobody else is
MayBeInside(t) == cs = None /\ life[t] = "running" /\ pc[t] \in {"out", "releasing"}

\* TerminateThread and the wait for its effect; what the thread was in the
\* middle of stays as it is, a section it was in is never left
Terminate(a) ==
    /\ CanRun(a) /\ pc[a] = "killing"
    /\ life' = [t \in Threads |-> IF t \in ItemOf(arg[a]) THEN "ended" ELSE life[t]]
    /\ cs' \in {cs} \union {t \in ItemOf(arg[a]) : MayBeInside(t)}
    /\ Release(a, TRUE)

\* the last lock is given back by one who has seen the thread end
DeletesItem(a, t) == locks[t] = 1 /\ deleteIt[a]

UnlockItem(a) ==
    /\ CanRun(a) /\ pc[a] = "releasing" /\ cs = None
    /\ \E t \in ItemOf(arg[a]) :
          /\ locks' = [locks EXCEPT ![t] = @ - 1]
          /\ Shorten(IF DeletesItem(a, t) THEN Without(t) ELSE queue)
    /\ held' = [held EXCEPT ![a] = None] /\ arg' = [arg EXCEPT ![a] = None]
    /\ deleteIt' = [deleteIt EXCEPT ![a] = FALSE] /\ Goto(a, "out")
    /\ UNCHANGED <<life, cs, continue, kill>>

-----------------------------------------------------------------------------
(* KillAll *)

\* endless: the waiting time is INFINITE
KillAll(force, endless) ==
    /\ pc[Main] = "out" /\ Goto(Main, "stopping")
    /\ kill' = [force |-> force, endless |-> endless, left |-> IF endless THEN 0 ELSE Sleeps,
                item |-> 1, answer |-> FALSE]
    /\ UNCHANGED <<queue, handle, locks, life, cs, continue, arg, deleteIt, held>>

WalkFrom == 1

EnterSection ==
    /\ pc[Main] \in {"stopping", "sleeping"} /\ cs = None
    /\ cs' = Main /\ Goto(Main, "walking")
    /\ kill' = [kill EXCEPT !.item = WalkFrom]
    /\ UNCHANGED <<queue, handle, locks, life, continue, arg, deleteIt, held>>

AtItem == pc[Main] = "walking" /\ kill.item <= Len(queue)

\* fault: the time is measured anew after every sleep
TimeAgain == {Sleeps}

TimeLeft == IF kill.endless THEN {kill.left} ELSE 0..(kill.left - 1)

TimeIsOver == ~kill.endless /\ kill.left = 0

\* a thread still runs and there is time left; the last sleep ends the time
LetThemEnd ==
    /\ AtItem /\ Running(queue[kill.item]) /\ ~TimeIsOver
    /\ \E left \in TimeLeft : kill' = [kill EXCEPT !.left = left]
    /\ cs' = None /\ Goto(Main, "sleeping")
    /\ UNCHANGED <<queue, handle, locks, life, continue, arg, deleteIt, held>>

Answer(result) ==
    /\ kill' = [kill EXCEPT !.endless = FALSE, !.left = 0, !.item = 1, !.answer = result]
    /\ cs' = None /\ Goto(Main, "out")

GiveUp ==
    /\ AtItem /\ Running(queue[kill.item]) /\ TimeIsOver /\ ~kill.force
    /\ Shorten(ClearFinishedThreads) /\ Answer(FALSE)
    /\ UNCHANGED <<locks, life, continue, arg, deleteIt, held>>

\* fault: the item behind a deleted one is passed over
DeleteAndSkip(t) ==
    /\ IF locks[t] = 0 THEN Shorten(Without(t)) ELSE UNCHANGED <<queue, handle>>
    /\ kill' = [kill EXCEPT !.item = @ + 1]

\* an item is deleted unless somebody has it locked
Delete(t) ==
    IF locks[t] = 0 THEN Shorten(Without(t)) /\ UNCHANGED kill
                    ELSE UNCHANGED <<queue, handle>> /\ kill' = [kill EXCEPT !.item = @ + 1]

\* fault: the section is not left for those who wait for the terminated thread
StaysInside(t) == FALSE

LetsOthersIn(t) == locks[t] > 0

\* the thread is terminated; if its item is locked, who waits for it gets the
\* section for a while
KillItem ==
    /\ AtItem /\ TimeIsOver /\ kill.force
    /\ LET t == queue[kill.item] IN
          /\ Running(t)
          /\ life' = [life EXCEPT ![t] = "ended"]
          /\ Delete(t)
          /\ IF LetsOthersIn(t) THEN cs' = None /\ Goto(Main, "sleeping")
                             ELSE UNCHANGED <<cs, pc>>
    /\ UNCHANGED <<locks, continue, arg, deleteIt, held>>

PassItem ==
    /\ AtItem /\ ~Running(queue[kill.item]) /\ Delete(queue[kill.item])
    /\ UNCHANGED <<locks, life, cs, continue, pc, arg, deleteIt, held>>

AllEnded ==
    /\ pc[Main] = "walking" /\ kill.item > Len(queue) /\ Answer(TRUE)
    /\ UNCHANGED <<queue, handle, locks, life, continue, arg, deleteIt, held>>

MethodStep(a) ==
    \/ StartThreadReturns(a)
    \/ WaitIsOver(a) \/ Terminate(a) \/ UnlockItem(a)

KillAllStep ==
    \/ EnterSection \/ LetThemEnd \/ GiveUp \/ KillItem \/ PassItem \/ AllEnded

Next ==
    \/ \E a \in Actors :
          \/ \E t \in Threads : StartThread(a, t)
          \/ WaitForExit(a) \/ WaitTimesOut(a) \/ KillThread(a)
          \/ MethodStep(a)
    \/ \E t \in Threads : ThreadBase(t) \/ ThreadEnds(t)
    \/ \E force, endless \in BOOLEAN : KillAll(force, endless)
    \/ KillAllStep

Spec == Init /\ [][Next]_vars

\* Windows runs every thread that is not waiting, and KillAll, asking for the
\* section again and again, gets it.  No thread need ever end or unlock an item.
FairSpec ==
    /\ Spec
    /\ \A t \in Threads : WF_vars(ThreadBase(t))
    /\ \A a \in Actors : WF_vars(StartThreadReturns(a))
    /\ SF_vars(EnterSection)
    /\ WF_vars(LetThemEnd \/ GiveUp \/ KillItem \/ PassItem \/ AllEnded)

-----------------------------------------------------------------------------
TypeOK ==
    /\ queue \in Seq(Threads) /\ IsInjective(queue)
    /\ handle \in [Threads -> Handles \union {None}]
    /\ locks \in [Threads -> Nat]
    /\ life \in [Threads -> {"unborn", "resumed", "running", "ended"}]
    /\ cs \in Actors \union {None} /\ continue \in BOOLEAN
    /\ pc \in [Actors -> {"out", "handing over", "waiting", "killing", "releasing"}
                          \union InKillAll]
    /\ arg \in [Actors -> Handles \union {None}]
    /\ deleteIt \in [Actors -> BOOLEAN]
    /\ held \in [Actors -> Threads \union {None}]
    /\ kill \in [force : BOOLEAN, endless : BOOLEAN, left : 0..Sleeps, item : Nat, answer : BOOLEAN]
    /\ pc[Main] = "walking" => kill.item \in 1..(Len(queue) + 1)

(* What auxtools.cpp says of UnlockItem, "always true (it was locked and could *)
(* not be deleted)", and more: whoever holds a lock, however long and through  *)
(* whatever KillAll and StartThread do meanwhile, still has the open handle of *)
(* the thread it found, and no other thread has got the value.                 *)
LockedHandleIsKept == \A a \in Actors : held[a] # None => ItemOf(arg[a]) = {held[a]}

(* The plug-in is unloaded when KillAll has said TRUE: no thread of the queue  *)
(* is running then, also none that was started while KillAll slept.            *)
UnloadingIsSafe ==
    [][kill'.answer /\ ~kill.answer => \A t \in Threads : ~Running(t)']_vars

\* a thread terminated by KillThread in the section is in it for ever
SectionIsLost == cs \in Threads /\ life[cs] = "ended"

MustWait == kill.endless /\ \E t \in Threads : Running(t)

(* KillAll returns, whatever the threads do: within its time, or, if that is   *)
(* INFINITE, once all of them have ended.  Exempted is the queue in whose       *)
(* section KillThread has terminated a thread, in StartThread, FindAndLockItem  *)
(* or UnlockItem: nobody enters that section again, KillAll hangs in it.        *)
KillAllReturns ==
    pc[Main] \in InKillAll /\ ~MustWait ~> pc[Main] \notin InKillAll \/ SectionIsLost
=============================================================================
