------------------------------ MODULE Snooper ------------------------------
(***************************************************************************)
(* The directory watcher (src/src/snooper.cpp) and the panels it serves    *)
(* (the refresh messages in src/src/fileswnb.cpp).                         *)
(*                                                                         *)
(* The snooper thread waits for change notifications of the directories in *)
(* the panels.  It owns the arrays of panels and handles (DataUsageMutex); *)
(* to change them the main thread asks for them (WantDataEvent), takes the *)
(* mutex while the snooper waits outside of its wait for the handles, and  *)
(* goes on when the snooper has the mutex back (ContinueEvent).            *)
(*                                                                         *)
(* A change is posted to the panel with the time of MyTimeCounter.  A      *)
(* refresh takes the next time for LastRefreshTime and re-registers the    *)
(* directory before reading it, so messages with earlier times are         *)
(* skipped.  Only that comparison matters, so a message says whether it is *)
(* still newer than the last refresh of its panel.                         *)
(***************************************************************************)
EXTENDS Integers, FiniteSets, Sequences, SequencesExt

CONSTANTS
    Panels,         \* the two panels, showing directories of disks
    SamePath,       \* TRUE: they show the same network directory
    Handles,        \* values of notification handles
    MaxEvents,      \* bound: changes of the directories, and commands of the user
                    \* that suspend, refuse or stop watching them
    None

ASSUME SnooperAssumption ==
    /\ IsFiniteSet(Panels) /\ SamePath \in BOOLEAN /\ None \notin Handles
    /\ MaxEvents \in Nat
    /\ SamePath => \A p, q, r \in Panels : p = q \/ q = r \/ p = r

VARIABLES
    watched,        \* WindowArray and ObjectArray: the handle of each panel
    signal,         \* each handle: "no", "yes", or "more" (changed again since)
    mutex,          \* owner of DataUsageMutex
    event,          \* the auto-reset events
    sn,             \* the snooper thread
    main,           \* the main thread: its place and what it still has to do
    msgs,           \* messages posted to the panels
    smTimer,        \* panels that have WM_USER_SM_END_NOTIFY (200 ms) before them
    suspended,      \* SnooperSuspended, and StopRefresh
    need,           \* NeedRefreshAfterEndOfSM and whether its time is newer
    handsOff,       \* panels detached by HandsOff(TRUE)
    dirty,          \* history: panels whose directory changed since it was read
    events          \* changes and commands so far

vars == <<watched, signal, mutex, event, sn, main, msgs, smTimer, suspended,
          need, handsOff, dirty, events>>
env == <<handsOff, events>>

Others(p) == IF SamePath THEN Panels \ {p} ELSE {}
Open == {watched[p] : p \in Panels} \ {None}
Signalled(p) == watched[p] # None /\ signal[watched[p]] # "no"

Init ==
    /\ \E f \in [Panels -> Handles] :
          /\ \A p, q \in Panels : f[p] = f[q] => p = q
          /\ watched = f
    /\ signal = [h \in Handles |-> "no"]
    /\ mutex = "snooper"
    /\ event = [want |-> FALSE, continue |-> FALSE, finished |-> FALSE,
                begin |-> FALSE, end |-> FALSE]
    /\ sn = [pc |-> "watching", back |-> "watching", panel |-> None, same |-> None,
             refresh |-> {}, ignore |-> FALSE]
    /\ main = [pc |-> "running", todo |-> <<>>]
    /\ msgs = <<>> /\ smTimer = {}
    /\ suspended = [snooper |-> 0, refresh |-> 0]
    /\ need = [p \in Panels |-> [set |-> FALSE, newer |-> FALSE]]
    /\ handsOff = {} /\ dirty = {} /\ events = 0

Set(e) == event' = [event EXCEPT ![e] = TRUE]
Reset(e) == event' = [event EXCEPT ![e] = FALSE]

-----------------------------------------------------------------------------
(* Windows *)

Raised(s) == IF s = "no" THEN "yes" ELSE "more"
Rearmed(s) == IF s = "more" THEN "yes" ELSE "no"

DirectoryChanges(p) ==
    /\ events < MaxEvents /\ events' = events + 1
    /\ LET P == {p} \union Others(p) IN
          /\ dirty' = dirty \union P
          /\ signal' = [h \in Handles |-> IF \E q \in P : watched[q] = h
                                          THEN Raised(signal[h]) ELSE signal[h]]
    /\ UNCHANGED <<watched, mutex, event, sn, main, msgs, smTimer, suspended, need, handsOff>>

\* the system bug the snooper works around: a call for the handle of one panel
\* may clear what the handle of another one with the same path has signalled
Clears(p, s) ==
    {s} \union {[h \in Handles |-> IF \E q \in Others(p) : watched[q] = h
                                   THEN "no" ELSE s[h]]}

-----------------------------------------------------------------------------
(* The snooper thread *)

SnooperAt(place) == sn.pc = place
SnooperGoes(place) == sn' = [sn EXCEPT !.pc = place]

\* the refresh loop waits for the control events only, the other two also for
\* the handles unless changes are ignored for REFRESH_PAUSE
Waiting == {"watching", "suspended", "refreshing"}
Listening == sn.pc \in {"watching", "suspended"} /\ ~sn.ignore

\* DoWantDataEvent
GiveData ==
    /\ sn.pc \in Waiting /\ event.want
    /\ Reset("want") /\ mutex' = "free"
    /\ sn' = [sn EXCEPT !.back = sn.pc, !.pc = "giving"]
    /\ UNCHANGED <<watched, signal, main, msgs, smTimer, suspended, need, dirty, env>>

\* fault: the snooper does not wait for the main thread to have taken the data
AlwaysTaken == TRUE

DataTaken == event.want

SeeDataTaken ==
    /\ SnooperAt("giving") /\ DataTaken
    /\ Reset("want") /\ SnooperGoes("taking")
    /\ UNCHANGED <<watched, signal, mutex, main, msgs, smTimer, suspended, need, dirty, env>>

TakeDataBack ==
    /\ SnooperAt("taking") /\ mutex = "free"
    /\ mutex' = "snooper" /\ Set("continue") /\ SnooperGoes(sn.back)
    /\ UNCHANGED <<watched, signal, main, msgs, smTimer, suspended, need, dirty, env>>

\* fault: the other panel with the same path is not remembered
SameHandleNever(p) == None

SameHandle(p) ==
    IF \E q \in Others(p) : watched[q] # None
    THEN watched[CHOOSE q \in Others(p) : watched[q] # None] ELSE None

\* a directory has changed: WM_USER_REFRESH_DIR for its panel
NoticeChange(p) ==
    /\ SnooperAt("watching") /\ Listening /\ Signalled(p)
    /\ ~event.want /\ ~event.begin
    /\ msgs' = Append(msgs, [panel |-> p, msg |-> "refresh", finish |-> TRUE, newer |-> TRUE])
    /\ sn' = [sn EXCEPT !.pc = "rearming", !.panel = p, !.same = SameHandle(p)]
    /\ UNCHANGED <<watched, signal, mutex, event, main, smTimer, suspended, need, dirty, env>>

FindNextChange ==
    /\ SnooperAt("rearming")
    /\ signal' \in Clears(sn.panel, [signal EXCEPT ![watched[sn.panel]] = Rearmed(@)])
    /\ sn' = [sn EXCEPT !.pc = "refreshing", !.panel = None]
    /\ UNCHANGED <<watched, mutex, event, main, msgs, smTimer, suspended, need, dirty, env>>

\* fault: the begin of suspend mode waits until the refresh is over
OnlyFinished == {"finished"}

EndingRefreshWait == {"finished", "begin"}

\* the refresh loop ends: on to the other panel with the same path, or a pause;
\* the beginning of suspend mode is left to the main loop (set again)
EndRefreshWait(e) ==
    /\ SnooperAt("refreshing") /\ ~event.want /\ event[e]
    /\ \/ e = "finished" /\ ~event.begin /\ Reset(e)
       \/ e = "begin" /\ UNCHANGED event
    /\ IF \E q \in Panels : sn.same # None /\ watched[q] = sn.same
       THEN \E q \in Panels :
               /\ watched[q] = sn.same
               /\ msgs' = Append(msgs, [panel |-> q, msg |-> "refresh",
                                        finish |-> TRUE, newer |-> TRUE])
               /\ signal' = [signal EXCEPT ![sn.same] = Rearmed(@)]
               /\ sn' = [sn EXCEPT !.same = None]
       ELSE /\ sn' = [sn EXCEPT !.same = None, !.ignore = TRUE, !.pc = "watching"]
            /\ UNCHANGED <<signal, msgs>>
    /\ UNCHANGED <<watched, mutex, main, smTimer, suspended, need, dirty, env>>

\* WAIT_TIMEOUT: the pause is over
StopIgnoring ==
    /\ sn.ignore /\ sn.pc \in {"watching", "suspended"}
    /\ sn' = [sn EXCEPT !.ignore = FALSE]
    /\ UNCHANGED <<watched, signal, mutex, event, main, msgs, smTimer, suspended, need, dirty, env>>

BeginSuspend ==
    /\ SnooperAt("watching") /\ event.begin /\ ~event.want
    /\ event' = [event EXCEPT !.begin = FALSE, !.continue = TRUE]
    /\ sn' = [sn EXCEPT !.pc = "suspended", !.refresh = {}]
    /\ UNCHANGED <<watched, signal, mutex, main, msgs, smTimer, suspended, need, dirty, env>>

\* fault: only the panel that was signalled is refreshed later
OnlyItself(p) == {p}

\* a change in suspend mode: its handle and that of the same path are closed
ClosedWith(p) == {p} \union {q \in Others(p) : watched[q] # None}

NoticeSuspended(p) ==
    /\ SnooperAt("suspended") /\ Listening /\ Signalled(p)
    /\ ~event.want /\ ~event.end
    /\ watched' = [q \in Panels |-> IF q \in ClosedWith(p) THEN None ELSE watched[q]]
    /\ \E s \in Clears(p, signal) :
          signal' = [h \in Handles |-> IF \E q \in Panels : watched'[q] = h THEN s[h] ELSE "no"]
    /\ sn' = [sn EXCEPT !.refresh = @ \union ClosedWith(p)]
    /\ UNCHANGED <<mutex, event, main, msgs, smTimer, suspended, need, dirty, env>>

EndSuspend ==
    /\ SnooperAt("suspended") /\ ~event.want /\ event.end
    /\ event' = [event EXCEPT !.end = FALSE, !.continue = TRUE]
    /\ SnooperGoes("resuming")
    /\ UNCHANGED <<watched, signal, mutex, main, msgs, smTimer, suspended, need, dirty, env>>

SuspendedRefreshes(S) ==
    [i \in 1..Cardinality(S) |->
        [panel |-> SetToSeq(S)[i], msg |-> "s_refresh", finish |-> FALSE, newer |-> TRUE]]

\* after suspend mode: WM_USER_S_REFRESH_DIR for the changed panels and
\* WM_USER_SM_END_NOTIFY for both
PostAfterSuspend ==
    /\ SnooperAt("resuming")
    /\ msgs' = msgs \o SuspendedRefreshes(sn.refresh)
    /\ smTimer' = Panels
    /\ sn' = [sn EXCEPT !.pc = "watching", !.ignore = @ \/ sn.refresh # {}, !.refresh = {}]
    /\ UNCHANGED <<watched, signal, mutex, event, main, suspended, need, dirty, env>>

-----------------------------------------------------------------------------
(* The main thread *)

Busy == suspended.snooper > 0 \/ suspended.refresh > 0
Step == Head(main.todo)
MainRuns == main.pc = "running"
MainIsIdle == MainRuns /\ main.todo = <<>>
NextStep(do) == MainRuns /\ main.todo # <<>> /\ Step.do = do
Todo(steps) == main' = [main EXCEPT !.todo = steps]
StepDone == main' = [pc |-> "running", todo |-> Tail(main.todo)]

Arrays == {"detach", "add", "change"}

\* AddDirectory, ChangeDirectory and DetachDirectory ask for the data,
AskForData ==
    /\ MainRuns /\ main.todo # <<>> /\ Step.do \in Arrays
    /\ Set("want") /\ main' = [main EXCEPT !.pc = "asking"]
    /\ UNCHANGED <<watched, signal, mutex, sn, msgs, smTimer, suspended, need, dirty, env>>

\* get them,
TakeData ==
    /\ main.pc = "asking" /\ mutex = "free"
    /\ mutex' = "main" /\ Set("want") /\ main' = [main EXCEPT !.pc = "changing"]
    /\ UNCHANGED <<watched, signal, sn, msgs, smTimer, suspended, need, dirty, env>>

Renewed(old, new) == {old, new}

\* close the old handle, open a new one, release the data
ChangeData ==
    /\ main.pc = "changing"
    /\ LET old == watched[Step.panel] IN
       /\ \E h \in IF Step.do = "detach" THEN {None} ELSE Handles \ (Open \ {old}) :
             watched' = [watched EXCEPT ![Step.panel] = h]
       /\ signal' = [h \in Handles |-> IF h \in Renewed(old, watched'[Step.panel])
                                          THEN "no" ELSE signal[h]]
    /\ mutex' = "free" /\ main' = [main EXCEPT !.pc = "waiting"]
    /\ UNCHANGED <<event, sn, msgs, smTimer, suspended, need, dirty, env>>

\* and wait until the snooper has them
DataReturned ==
    /\ main.pc = "waiting" /\ event.continue
    /\ Reset("continue") /\ StepDone
    /\ UNCHANGED <<watched, signal, mutex, sn, msgs, smTimer, suspended, need, dirty, env>>

RefreshSteps(p) == <<[do |-> "stamp", panel |-> p], [do |-> "detach", panel |-> p],
                     [do |-> "add", panel |-> p], [do |-> "list", panel |-> p]>>
Finish(m) == IF m.finish THEN <<[do |-> "finished", panel |-> m.panel]>> ELSE <<>>

\* a refresh in suspend mode is put off to its end
PutOff(p, newer) ==
    need' = [need EXCEPT ![p] = [set |-> TRUE, newer |-> @.newer \/ newer]]

\* "the snooper may have kicked it out of the list"
Reregister(p, newer) == IF newer THEN <<[do |-> "change", panel |-> p]>> ELSE <<>>

\* WM_USER_REFRESH_DIR and WM_USER_S_REFRESH_DIR
HandleRefresh ==
    /\ MainIsIdle /\ msgs # <<>> /\ msgs' = Tail(msgs)
    /\ LET m == Head(msgs)
           p == m.panel
           again == IF m.msg = "s_refresh" THEN Reregister(p, m.newer) ELSE <<>>
       IN  IF Busy
           THEN PutOff(p, m.newer) /\ Todo(again \o Finish(m))
           ELSE /\ Todo(again \o (IF m.newer THEN RefreshSteps(p) ELSE <<>>) \o Finish(m))
                /\ UNCHANGED need
    /\ UNCHANGED <<watched, signal, mutex, event, sn, smTimer, suspended, dirty, env>>

\* WM_USER_SM_END_NOTIFY_DELAYED
HandleEndNotify(p) ==
    /\ MainIsIdle /\ p \in smTimer /\ smTimer' = smTimer \ {p}
    /\ IF ~Busy /\ need[p].set
       THEN /\ need' = [need EXCEPT ![p].set = FALSE]
            /\ Todo(IF need[p].newer
                    THEN <<[do |-> "change", panel |-> p]>> \o RefreshSteps(p) ELSE <<>>)
       ELSE UNCHANGED <<need, main>>
    /\ UNCHANGED <<watched, signal, mutex, event, sn, msgs, suspended, dirty, env>>

\* LastRefreshTime = MyTimeCounter++
Stamp ==
    /\ NextStep("stamp") /\ StepDone
    /\ msgs' = [i \in DOMAIN msgs |->
                   [msgs[i] EXCEPT !.newer = @ /\ msgs[i].panel # Step.panel]]
    /\ need' = [need EXCEPT ![Step.panel].newer = FALSE]
    /\ UNCHANGED <<watched, signal, mutex, event, sn, smTimer, suspended, dirty, env>>

\* the end of RefreshDirectory: the listing is read, EndStopRefresh posts
ReadListing ==
    /\ NextStep("list") /\ StepDone
    /\ dirty' = dirty \ {Step.panel} /\ smTimer' = Panels
    /\ UNCHANGED <<watched, signal, mutex, event, sn, msgs, suspended, need, env>>

RefreshFinished ==
    /\ NextStep("finished") /\ StepDone /\ Set("finished")
    /\ UNCHANGED <<watched, signal, mutex, sn, msgs, smTimer, suspended, need, dirty, env>>

\* BeginSuspendMode and EndSuspendMode; the outermost ones wait for the snooper
BeginSuspendMode ==
    /\ MainIsIdle /\ events < MaxEvents /\ events' = events + 1
    /\ IF suspended.snooper = 0
       THEN Set("begin") /\ main' = [main EXCEPT !.pc = "beginning"] /\ UNCHANGED suspended
       ELSE UNCHANGED <<event, main>> /\ suspended' = [suspended EXCEPT !.snooper = @ + 1]
    /\ UNCHANGED <<watched, signal, mutex, sn, msgs, smTimer, need, dirty, handsOff>>

EndSuspendMode ==
    /\ MainIsIdle /\ suspended.snooper > 0
    /\ IF suspended.snooper = 1
       THEN Set("end") /\ main' = [main EXCEPT !.pc = "ending"] /\ UNCHANGED suspended
       ELSE UNCHANGED <<event, main>> /\ suspended' = [suspended EXCEPT !.snooper = @ - 1]
    /\ UNCHANGED <<watched, signal, mutex, sn, msgs, smTimer, need, dirty, env>>

SuspendChanged ==
    /\ main.pc \in {"beginning", "ending"} /\ event.continue
    /\ Reset("continue") /\ main' = [main EXCEPT !.pc = "running"]
    /\ suspended' = [suspended EXCEPT !.snooper = IF main.pc = "beginning" THEN @ + 1 ELSE @ - 1]
    /\ UNCHANGED <<watched, signal, mutex, sn, msgs, smTimer, need, dirty, env>>

BeginStopRefresh ==
    /\ MainIsIdle /\ events < MaxEvents /\ events' = events + 1
    /\ suspended' = [suspended EXCEPT !.refresh = @ + 1]
    /\ UNCHANGED <<watched, signal, mutex, event, sn, main, msgs, smTimer, need, dirty,
                   handsOff>>

EndNotify == IF suspended.refresh = 1 THEN Panels ELSE smTimer

EndStopRefresh ==
    /\ MainIsIdle /\ suspended.refresh > 0
    /\ suspended' = [suspended EXCEPT !.refresh = @ - 1]
    /\ smTimer' = EndNotify
    /\ UNCHANGED <<watched, signal, mutex, event, sn, main, msgs, need, dirty, env>>

PostRefresh(p) ==
    msgs' = Append(msgs, [panel |-> p, msg |-> "refresh", finish |-> FALSE, newer |-> TRUE])

\* HandsOff(TRUE): the panel lets its directory go, for a while
LetGo(p) ==
    /\ MainIsIdle /\ p \notin handsOff /\ events < MaxEvents /\ events' = events + 1
    /\ handsOff' = handsOff \union {p} /\ Todo(<<[do |-> "detach", panel |-> p]>>)
    /\ UNCHANGED <<watched, signal, mutex, event, sn, msgs, smTimer, suspended, need, dirty>>

\* HandsOff(FALSE)
TakeUp(p) ==
    /\ MainIsIdle /\ p \in handsOff /\ handsOff' = handsOff \ {p}
    /\ Todo(<<[do |-> "change", panel |-> p], [do |-> "post", panel |-> p]>>)
    /\ UNCHANGED <<watched, signal, mutex, event, sn, msgs, smTimer, suspended, need, dirty, events>>

TakenUp ==
    /\ NextStep("post") /\ StepDone /\ PostRefresh(Step.panel)
    /\ UNCHANGED <<watched, signal, mutex, event, sn, smTimer, suspended, need, dirty, env>>

SnooperStep ==
    \/ GiveData \/ SeeDataTaken \/ TakeDataBack \/ FindNextChange
    \/ (\E p \in Panels : NoticeChange(p) \/ NoticeSuspended(p))
    \/ (\E e \in EndingRefreshWait : EndRefreshWait(e))
    \/ StopIgnoring \/ BeginSuspend \/ EndSuspend \/ PostAfterSuspend

MainStep ==
    \/ AskForData \/ TakeData \/ ChangeData \/ DataReturned \/ SuspendChanged
    \/ HandleRefresh \/ (\E p \in Panels : HandleEndNotify(p))
    \/ Stamp \/ ReadListing \/ RefreshFinished \/ TakenUp

CommandEnds == EndSuspendMode \/ EndStopRefresh \/ \E p \in Panels : TakeUp(p)

Next ==
    \/ SnooperStep \/ MainStep \/ CommandEnds
    \/ BeginSuspendMode \/ BeginStopRefresh
    \/ \E p \in Panels : DirectoryChanges(p) \/ LetGo(p)

Spec == Init /\ [][Next]_vars

\* both threads run when they are not waiting; a command that began suspend
\* mode, refused refreshes or let a directory go ends
FairSpec ==
    /\ Spec /\ WF_vars(SnooperStep) /\ WF_vars(MainStep)
    /\ WF_vars(EndSuspendMode) /\ WF_vars(EndStopRefresh)
    /\ \A p \in Panels : WF_vars(TakeUp(p))

-----------------------------------------------------------------------------
Steps == [do : Arrays \union {"stamp", "list", "finished", "post"}, panel : Panels]

TypeOK ==
    /\ watched \in [Panels -> Handles \union {None}]
    /\ \A p, q \in Panels : watched[p] = watched[q] => p = q \/ watched[p] = None
    /\ signal \in [Handles -> {"no", "yes", "more"}]
    /\ \A h \in Handles \ Open : signal[h] = "no"
    /\ mutex \in {"snooper", "main", "free"}
    /\ event \in [{"want", "continue", "finished", "begin", "end"} -> BOOLEAN]
    /\ sn \in [pc : Waiting \union {"giving", "taking", "rearming", "resuming"},
               back : Waiting, panel : Panels \union {None},
               same : Handles \union {None}, refresh : SUBSET Panels, ignore : BOOLEAN]
    /\ main \in [pc : {"running", "asking", "changing", "waiting", "beginning", "ending"},
                 todo : Seq(Steps)]
    /\ msgs \in Seq([panel : Panels, msg : {"refresh", "s_refresh"},
                     finish : BOOLEAN, newer : BOOLEAN])
    /\ smTimer \subseteq Panels /\ handsOff \subseteq Panels /\ dirty \subseteq Panels
    /\ suspended \in [snooper : 0..MaxEvents, refresh : 0..MaxEvents]
    /\ need \in [Panels -> [set : BOOLEAN, newer : BOOLEAN]]
    /\ events \in 0..MaxEvents

(* The hand-over of the arrays: while the main thread changes them the snooper *)
(* is outside of its waits for the handles, and has not yet said Continue; a   *)
(* Continue that is set belongs to the request the main thread waits for.      *)
DataHandedOver ==
    /\ main.pc = "changing" => mutex = "main" /\ sn.pc \in {"giving", "taking"}
    /\ event.continue => main.pc \in {"waiting", "beginning", "ending"}
    /\ main.pc = "running" => mutex = "snooper" /\ ~event.want

\* something is on its way that makes the panel read its directory
WillBeRead(p) ==
    \/ Signalled(p)
    \/ sn.same # None /\ watched[p] = sn.same
    \/ p \in sn.refresh
    \/ \E i \in DOMAIN msgs : msgs[i].panel = p /\ msgs[i].newer
    \/ /\ need[p].set /\ need[p].newer
       /\ p \in smTimer \/ Busy \/ sn.pc = "resuming"
    \/ \E i \in DOMAIN main.todo : main.todo[i].panel = p /\ main.todo[i].do \in {"list", "post"}
    \/ p \in handsOff

(* A panel whose directory has changed, or which nobody watches any more, has  *)
(* a notification, a message or a postponed refresh that is still to come and  *)
(* will not be taken for an old one: no interleaving of a change with the end  *)
(* of a refresh, with suspend mode, or with a change of the arrays loses it.   *)
NoChangeIsLost == \A p \in Panels : p \in dirty \/ watched[p] = None => WillBeRead(p)

View == INSTANCE PanelView WITH stale <- dirty

(* The watcher and its panels implement what automatic refreshing promises:    *)
(* a panel shows an old listing only for a while.                              *)
RefreshesAsPromised == View!Spec

(* The main thread never waits for ever for the snooper to take over or to go  *)
(* into or out of suspend mode, whatever the snooper is waiting for then.      *)
MainThreadGoesOn == main.pc # "running" ~> main.pc = "running"
=============================================================================
