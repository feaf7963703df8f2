-------------------------- MODULE ProgressDialogs --------------------------
(***************************************************************************)
(* The progress dialogs of copy and move operations (CProgressDialog in    *)
(* src/src/dialogs.cpp) with their workers, sharing the COperationsQueue.  *)
(*                                                                         *)
(* Every dialog has a thread with a queue of posted messages; a message is *)
(* handled whole before the next one, except that a message box and a menu *)
(* run a loop of their own inside a handler, and that CM_RESUMEOPER drives *)
(* the dialog first and the operations queue after it.  The worker of a    *)
(* dialog stops at every point where it waits for WorkerNotSuspended.      *)
(***************************************************************************)
EXTENDS OperationsQueue, FiniteSets

CONSTANTS
    Dlgs,           \* the progress dialogs
    IdleFlags,      \* values Script->StartOnIdle may have
    MaxClicks,      \* bound: clicks of the user (pause, cancel, menu, minimize)
    MayCancel,      \* TRUE: the user may press Cancel
    MayOpenMenu,    \* TRUE: the user may open the drop-down menu
    MayMinimize,    \* TRUE: the user may minimize a dialog
    MayShutDown     \* TRUE: the main window may cancel all operations

ASSUME DialogsAssumption ==
    /\ IsFiniteSet(Dlgs) /\ IdleFlags \subseteq BOOLEAN /\ IdleFlags # {}
    /\ MaxClicks \in Nat
    /\ {MayCancel, MayOpenMenu, MayMinimize, MayShutDown} \subseteq BOOLEAN

VARIABLES
    queue,          \* COperationsQueue
    msgs,           \* messages posted to each dialog
    phase,          \* life of the dialog
    worker,         \* its worker thread
    notSuspended,   \* WorkerNotSuspended, a manual-reset event
    showPause,      \* the button shows Pause: the user sees a running operation
    accept,         \* AcceptCommands: not minimized
    cancel,         \* CancelWorker
    nested,         \* the message loop running inside a handler
    setting,        \* between driving the dialog and OperationsQueue.SetPaused
    lost,           \* history: dialogs whose CM_RESUMEOPER was thrown away
    clicks, shutdown

ui == <<accept, nested, clicks, shutdown>>
vars == <<queue, msgs, phase, worker, notSuspended, showPause, accept, cancel,
          nested, setting, lost, clicks, shutdown>>

Messages == {"start", "pauseresume", "resume", "minimize", "cancelall", "end"}

SeqRange(s) == {s[i] : i \in DOMAIN s}

-----------------------------------------------------------------------------
Init ==
    /\ queue = <<>> /\ msgs = [d \in Dlgs |-> <<>>]
    /\ phase = [d \in Dlgs |-> "new"] /\ worker = [d \in Dlgs |-> "none"]
    /\ notSuspended = [d \in Dlgs |-> TRUE] /\ showPause = [d \in Dlgs |-> TRUE]
    /\ accept = [d \in Dlgs |-> TRUE] /\ cancel = [d \in Dlgs |-> FALSE]
    /\ nested = [d \in Dlgs |-> "none"] /\ setting = [d \in Dlgs |-> FALSE]
    /\ lost = {} /\ clicks = 0 /\ shutdown = FALSE

Post(ms, S, m) == [d \in Dlgs |-> IF d \in S THEN Append(ms[d], m) ELSE ms[d]]

\* the dialog is in a message loop and its worker did not just send IDOK
Idle(d) == ~setting[d] /\ worker[d] # "done"
Handles(d, m) == Idle(d) /\ msgs[d] # <<>> /\ Head(msgs[d]) = m
Taken(d) == [msgs EXCEPT ![d] = Tail(@)]

\* StartProgressDialog: the main thread waits until the operation has started
MainThreadIsFree == \A d \in Dlgs : phase[d] # "opened"

\* the main thread opens a dialog; WM_INITDIALOG posts WM_USER_PROGRDLGSTART
Open(d) ==
    /\ phase[d] = "new" /\ MainThreadIsFree /\ ~shutdown
    /\ phase' = [phase EXCEPT ![d] = "opened"]
    /\ msgs' = Post(msgs, {d}, "start")
    /\ UNCHANGED <<queue, worker, notSuspended, showPause, cancel, setting, lost, ui>>

\* WM_USER_PROGRDLGSTART: into the queue, start the worker, perhaps paused
HandleStart(d) ==
    /\ Handles(d, "start")
    /\ \E idle \in IdleFlags :
          LET paused == StartPaused(queue, idle)
          IN  /\ queue' = AddOperation(queue, d, idle)
              /\ notSuspended' = [notSuspended EXCEPT ![d] = ~paused]
              /\ showPause' = [showPause EXCEPT ![d] = ~paused]
              /\ msgs' = (IF paused THEN Post(Taken(d), {d}, "minimize") ELSE Taken(d))
    /\ phase' = [phase EXCEPT ![d] = "running"]
    /\ worker' = [worker EXCEPT ![d] = "working"]
    /\ UNCHANGED <<cancel, setting, lost, ui>>

\* the worker passes its last wait for WorkerNotSuspended, tells by CancelWorker
\* whether it failed and sends IDOK
WorkerFinishes(d) ==
    /\ worker[d] = "working" /\ notSuspended[d]
    /\ worker' = [worker EXCEPT ![d] = "done"]
    /\ \E error \in BOOLEAN : cancel' = [cancel EXCEPT ![d] = error]
    /\ UNCHANGED <<queue, msgs, phase, notSuspended, showPause, setting, lost, ui>>

\* IDOK from the worker: closes a question above the dialog, posts PROGRDLGEND
HandleIDOK(d) ==
    /\ worker[d] = "done" /\ ~setting[d]
    /\ worker' = [worker EXCEPT ![d] = "none"]
    /\ phase' = [phase EXCEPT ![d] = "ended"]
    /\ nested' = [nested EXCEPT ![d] = IF @ = "question" THEN "none" ELSE @]
    /\ msgs' = Post(msgs, {d}, "end")
    /\ UNCHANGED <<queue, notSuspended, showPause, accept, cancel, setting, lost, clicks,
                   shutdown>>

\* WM_USER_PROGRDLGEND: OperationEnded, the dialog closes
HandleEnd(d) ==
    /\ Handles(d, "end")
    /\ queue' = OperationEnded(queue, d)
    /\ msgs' = Post(Taken(d), ToResume(queue'), "resume")
    /\ phase' = [phase EXCEPT ![d] = "gone"]
    /\ UNCHANGED <<worker, notSuspended, showPause, cancel, setting, lost, ui>>

-----------------------------------------------------------------------------
(* Pause and resume.                                                       *)

\* under a question an automatic resume does not touch the worker
Toggles(d, auto) == ~auto \/ nested[d] # "question"

\* CM_RESUMEOPER and IDB_PAUSERESUME up to the call of SetPaused
Toggle(d, auto) ==
    /\ IF Toggles(d, auto)
       THEN /\ notSuspended' = [notSuspended EXCEPT ![d] = ~showPause[d]]
            /\ showPause' = [showPause EXCEPT ![d] = ~@]
       ELSE UNCHANGED <<notSuspended, showPause>>
    /\ setting' = [setting EXCEPT ![d] = TRUE]

Obeys(d, auto) == phase[d] = "running" /\ (auto \/ accept[d]) /\ ~cancel[d]

HandleResume(d) ==
    \E auto \in BOOLEAN :
       /\ Handles(d, IF auto THEN "resume" ELSE "pauseresume")
       /\ msgs' = Taken(d)
       /\ IF Obeys(d, auto) THEN Toggle(d, auto)
                            ELSE UNCHANGED <<notSuspended, showPause, setting>>
       /\ UNCHANGED <<queue, phase, worker, cancel, lost, ui>>

PausedStatus(d) == IF showPause[d] THEN Running ELSE ManuallyPaused

\* OperationsQueue.SetPaused at the end of the same handler
FinishToggle(d) ==
    /\ setting[d] /\ setting' = [setting EXCEPT ![d] = FALSE]
    /\ queue' = SetPaused(queue, d, PausedStatus(d))
    /\ UNCHANGED <<msgs, phase, worker, notSuspended, showPause, cancel, lost, ui>>

\* Windows hands out posted messages before mouse and keyboard input
Clicked(d) ==
    /\ clicks < MaxClicks /\ clicks' = clicks + 1
    /\ phase[d] = "running" /\ Idle(d) /\ nested[d] = "none" /\ msgs[d] = <<>>

\* the user presses Pause / Resume
ClickPause(d) ==
    /\ Clicked(d) /\ Obeys(d, FALSE) /\ Toggle(d, FALSE)
    /\ UNCHANGED <<queue, msgs, phase, worker, accept, cancel, nested, lost, shutdown>>

-----------------------------------------------------------------------------
(* Cancel: the worker is suspended while the question is open.             *)

ClickCancel(d) ==
    /\ MayCancel /\ Clicked(d) /\ ~cancel[d]
    /\ notSuspended' = [notSuspended EXCEPT ![d] = FALSE]
    /\ nested' = [nested EXCEPT ![d] = "question"]
    /\ UNCHANGED <<queue, msgs, phase, worker, showPause, accept, cancel, setting, lost, shutdown>>

\* fault: Yes leaves a paused worker suspended
ReleasedIfShown(d, yes) == showPause[d]

\* fault: the answer always lets the worker go on
ReleasedAlways(d, yes) == TRUE

\* the worker goes on after Cancel, or if the operation was not paused
ReleasedAfterQuestion(d, yes) == yes \/ showPause[d]

AnswerQuestion(d, yes) ==
    /\ nested[d] = "question" /\ Idle(d) /\ msgs[d] = <<>>
    /\ nested' = [nested EXCEPT ![d] = "none"]
    /\ cancel' = [cancel EXCEPT ![d] = @ \/ yes]
    /\ notSuspended' = [notSuspended EXCEPT ![d] = @ \/ ReleasedAfterQuestion(d, yes)]
    /\ UNCHANGED <<queue, msgs, phase, worker, showPause, accept, setting, lost, clicks, shutdown>>

\* PostCancelToAllDlgs: the program is closing
ShutDown ==
    /\ MayShutDown /\ ~shutdown /\ shutdown' = TRUE /\ MainThreadIsFree
    /\ msgs' = Post(msgs, {d \in Dlgs : phase[d] = "running"}, "cancelall")
    /\ UNCHANGED <<queue, phase, worker, notSuspended, showPause, accept, cancel, nested,
                   setting, lost, clicks>>

\* WM_USER_CANCELPROGRDLG closes a question and cancels without asking
HandleCancelAll(d) ==
    /\ Handles(d, "cancelall") /\ msgs' = Taken(d)
    /\ cancel' = [cancel EXCEPT ![d] = TRUE]
    /\ notSuspended' = [notSuspended EXCEPT ![d] = @ \/ phase[d] = "running"]
    /\ nested' = [nested EXCEPT ![d] = IF @ = "question" THEN "none" ELSE @]
    /\ UNCHANGED <<queue, phase, worker, showPause, accept, setting, lost, clicks, shutdown>>

-----------------------------------------------------------------------------
(* The drop-down menu: Pause/Resume or "Wait Until All Other ... Finished" *)

OpenMenu(d) ==
    /\ MayOpenMenu /\ Clicked(d) /\ accept[d] /\ ~cancel[d]
    /\ notSuspended' = [notSuspended EXCEPT ![d] = @ /\ ~showPause[d]]
    /\ nested' = [nested EXCEPT ![d] = IF Len(queue) > 1 THEN "menuwait" ELSE "menu"]
    /\ UNCHANGED <<queue, msgs, phase, worker, showPause, accept, cancel, setting, lost, shutdown>>

CloseMenu(d) ==
    /\ nested[d] \in {"menu", "menuwait"} /\ Idle(d) /\ msgs[d] = <<>>
    /\ nested' = [nested EXCEPT ![d] = "none"]
    /\ \/ msgs' = Post(msgs, {d}, "pauseresume") /\ UNCHANGED <<queue, showPause>>
       \/ UNCHANGED <<msgs, queue, showPause>>
       \/ /\ nested[d] = "menuwait"
          /\ queue' = AutoPauseOperation(queue, d)
          /\ msgs' = Post(Post(msgs, ToResume(queue'), "resume"), {d}, "minimize")
          /\ showPause' = [showPause EXCEPT ![d] = FALSE]
    /\ notSuspended' = [notSuspended EXCEPT ![d] = @ \/ showPause'[d]]
    /\ UNCHANGED <<phase, worker, accept, cancel, setting, lost, clicks, shutdown>>

-----------------------------------------------------------------------------
(* Minimizing handles everything in the message queue with CanClose FALSE, *)
(* so commands found there are thrown away.                                *)

ClickMinimize(d) ==
    /\ MayMinimize /\ Clicked(d) /\ accept[d]
    /\ msgs' = Post(msgs, {d}, "minimize")
    /\ UNCHANGED <<queue, phase, worker, notSuspended, showPause, accept, cancel, nested,
                   setting, lost, shutdown>>

HandleMinimize(d) ==
    /\ Handles(d, "minimize")
    /\ IF phase[d] = "running" /\ accept[d]
       THEN /\ accept' = [accept EXCEPT ![d] = FALSE]
            /\ notSuspended' = [notSuspended EXCEPT ![d] = showPause[d]]
            /\ msgs' = [msgs EXCEPT ![d] = <<>>]
            /\ lost' = (IF "resume" \in SeqRange(msgs[d]) THEN lost \cup {d} ELSE lost)
       ELSE /\ msgs' = Taken(d)
            /\ UNCHANGED <<accept, notSuspended, lost>>
    /\ UNCHANGED <<queue, phase, worker, showPause, cancel, nested, setting, clicks, shutdown>>

\* the user restores a minimized dialog
Restore(d) ==
    /\ phase[d] = "running" /\ Idle(d) /\ msgs[d] = <<>> /\ ~accept[d]
    /\ accept' = [accept EXCEPT ![d] = TRUE]
    /\ UNCHANGED <<queue, msgs, phase, worker, notSuspended, showPause, cancel, nested,
                   setting, lost, clicks, shutdown>>

-----------------------------------------------------------------------------
\* what a dialog thread and its worker do by themselves
Thread(d) ==
    \/ HandleStart(d) \/ HandleIDOK(d) \/ HandleEnd(d) \/ HandleResume(d)
    \/ FinishToggle(d) \/ HandleCancelAll(d) \/ HandleMinimize(d)

User(d) ==
    \/ Open(d) \/ ClickPause(d) \/ ClickCancel(d) \/ OpenMenu(d) \/ ClickMinimize(d)
    \/ Restore(d)

Answer(d) == CloseMenu(d) \/ \E yes \in BOOLEAN : AnswerQuestion(d, yes)

Next == ShutDown \/ \E d \in Dlgs : Thread(d) \/ User(d) \/ Answer(d) \/ WorkerFinishes(d)

\* Dialog threads run, workers that are not suspended finish, and the user
\* closes a question or a menu that is open; nobody has to click.
Fairness == \A d \in Dlgs : WF_vars(Thread(d)) /\ WF_vars(WorkerFinishes(d)) /\ WF_vars(Answer(d))

Spec == Init /\ [][Next]_vars /\ Fairness

-----------------------------------------------------------------------------
\* Every variable keeps its type; counters and offsets stay in their ranges.
TypeOK ==
    /\ queue \in Seq(Entries(Dlgs)) /\ msgs \in [Dlgs -> Seq(Messages)]
    /\ phase \in [Dlgs -> {"new", "opened", "running", "ended", "gone"}]
    /\ worker \in [Dlgs -> {"none", "working", "done"}]
    /\ nested \in [Dlgs -> {"none", "question", "menu", "menuwait"}]
    /\ {notSuspended, showPause, accept, cancel, setting} \subseteq [Dlgs -> BOOLEAN]
    /\ lost \subseteq Dlgs /\ clicks \in 0..MaxClicks /\ shutdown \in BOOLEAN

\* A worker runs behind a button that says Resume only to finish a cancelled
\* operation, or until the dialog that starts waiting minimizes itself, which
\* is what suspends a worker resumed while its menu was open.
PausedWorkerIsSuspended ==
    \A d \in Dlgs : worker[d] = "working" /\ notSuspended[d] =>
        showPause[d] \/ cancel[d] \/ (accept[d] /\ "minimize" \in SeqRange(msgs[d]))

\* When every operation left was paused automatically, one of them is about to
\* be resumed or to end; only a resume thrown away by minimizing breaks this.
SomebodyWillResume ==
    queue # <<>> /\ AllAutoPaused(queue) =>
        \/ DlgsOf(queue) \cap lost # {}
        \/ \E d \in DlgsOf(queue) :
              \/ setting[d] \/ cancel[d] \/ worker[d] = "done" \/ phase[d] = "ended"
              \/ "resume" \in SeqRange(msgs[d])

\* Comment in WM_USER_CANCELPROGRDLG: "so that Cancel proceeds even after Pause
\* is pressed"; a cancelled operation ends whatever is clicked meanwhile.
CancelGetsThrough == \A d \in Dlgs : cancel[d] ~> phase[d] = "gone"

=============================================================================
