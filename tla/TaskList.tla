------------------------------ MODULE TaskList ------------------------------
(***************************************************************************)
(* CTaskList (src/src/tasklist.cpp): the running instances of the program  *)
(* know of each other through a list in shared memory, and send each other *)
(* commands: show your window, break, take over my command line (the       *)
(* "only one instance" option).  A command is written to the one place     *)
(* Todo under the mutex of the memory; the mutex is released, the event    *)
(* EventProcessed is reset, the event Event wakes the control threads of   *)
(* all instances, and the one it is addressed to sets EventProcessed.      *)
(*                                                                         *)
(* A stay under the mutex, or in CommandLineParamsCS, neither waits nor is *)
(* observed half way, and is one step.  So are the setting of the two      *)
(* events after it, and the end of the wait with the return: who looks at  *)
(* the events in between sees what he may see before or after.  A command  *)
(* is named by its TodoUID.                                                *)
(***************************************************************************)
EXTENDS Integers, Sequences, SequencesExt, Filters

CONSTANTS
    Processes,      \* the instances; a PID is not used again
    First,          \* the one that creates the shared memory
    Leaving,        \* those that may be closed, or crash
    Failing,        \* those that may fail to join
    Watchers,       \* those whose user opens the list of tasks
    MaxItems,       \* MAX_TL_ITEMS
    MaxRequests,    \* bound: commands sent
    None

ASSUME TaskListAssumption ==
    /\ IsFiniteSet(Processes) /\ First \in Processes
    /\ Watchers \subseteq Processes /\ Leaving \union Failing \subseteq Processes
    /\ MaxItems \in Nat \ {0} /\ MaxRequests \in Nat /\ None \notin Processes

VARIABLES
    life,           \* off, joined, starting, running, frozen, ending, gone
    items,          \* Items: [pid, state]
    newer,          \* the lists of tasks whose DisplayedVersion ItemsStateUID has passed
    requests,       \* what Todo, PID and TodoTimestamp have been; the last one is there now
    held,           \* the instance whose Init failed with the mutex in its hands
    event,          \* the manual-reset event Event
    eventProcessed, \* the manual-reset event EventProcessed
    call,           \* FireEvent or ActivateRunningInstance: the place, the TodoUID, and
                    \* (history) whether no other command was on its way
    control,        \* FControlThread: the place and lastTodoUID
    params,         \* CommandLineParams.RequestUID
    processed,      \* the manual-reset event CommandLineParamsProcessed
    activated,      \* activateParamsRequestUID
    tasks,          \* CTaskListDialog: is it open, what it shows, DisplayedVersion
    expired,        \* commands up to this one are older than TASKLIST_TODO_TIMEOUT
    ran             \* history: who has carried out each command

shared == <<items, newer, requests, held>>
handed == <<params, processed, activated>>
vars == <<life, shared, event, eventProcessed, call, control, handed, tasks, expired, ran>>

Item == [pid : Processes, state : {"starting", "running", "ending"}]
UIDs == 1..MaxRequests
TodoUID == Len(requests)
Listed == {items[i].pid : i \in DOMAIN items}
Alive(p) == life[p] \notin {"off", "gone"}
OK(p) == control[p].at # "off"              \* Init has succeeded
MutexIsFree == held = None
MainIsFree(p) == call[p].at = "none"
OpenLists == {p \in Processes : tasks[p].open}
Sending == {"written", "signalled"}

-----------------------------------------------------------------------------
NoCall == [at |-> "none", uid |-> 0, alone |-> FALSE]
NoThread == [at |-> "off", uid |-> 0]
NoTasks == [open |-> FALSE, pids |-> {}]

\* the first instance has created the objects and the list
Init ==
    /\ life = [p \in Processes |-> IF p = First THEN "joined" ELSE "off"]
    /\ items = <<[pid |-> First, state |-> "starting"]>> /\ newer = {}
    /\ requests = <<>> /\ held = None
    /\ event = FALSE /\ eventProcessed = FALSE
    /\ call = [p \in Processes |-> NoCall]
    /\ control = [p \in Processes |-> IF p = First THEN [NoThread EXCEPT !.at = "wait"] ELSE NoThread]
    /\ params = [p \in Processes |-> 0] /\ processed = [p \in Processes |-> FALSE]
    /\ activated = [p \in Processes |-> 0]
    /\ tasks = [p \in Processes |-> NoTasks]
    /\ expired = 0
    /\ ran = [u \in UIDs |-> <<>>]

CallAt(p, place) == call' = [call EXCEPT ![p].at = place]
ControlAt(p, place) == control' = [control EXCEPT ![p].at = place]

-----------------------------------------------------------------------------
\* fault: the instances do not learn that the list has changed
VersionStays(changed) == newer

\* ItemsStateUID++
NewVersion(changed) == IF changed THEN OpenLists ELSE newer

Room == Len(items) < MaxItems

\* CTaskList::Init of a later instance.  In a full list RemoveKilledItems
\* finds OK not yet set and removes nothing.
AddItem(p) ==
    /\ items' = IF Room THEN Append(items, [pid |-> p, state |-> "starting"]) ELSE items
    /\ newer' = NewVersion(Room)

Join(p) ==
    /\ life[p] = "off" /\ MutexIsFree /\ \E q \in Processes : OK(q)
    /\ life' = [life EXCEPT ![p] = "joined"]
    /\ AddItem(p)
    /\ ControlAt(p, "wait")
    /\ UNCHANGED <<requests, held, event, eventProcessed, call, handed, tasks, expired, ran>>

\* the mutex cannot be had, or an object cannot be opened: then Init returns
\* without releasing it; or the item is there, but not the control thread.  The
\* instance goes on without the list.
JoinFails(p) ==
    /\ p \in Failing /\ life[p] = "off" /\ \E q \in Processes : OK(q)
    /\ life' = [life EXCEPT ![p] = "joined"]
    /\ \/ held' = (IF MutexIsFree THEN p ELSE held) /\ UNCHANGED <<items, newer>>
       \/ MutexIsFree /\ AddItem(p) /\ UNCHANGED held
    /\ UNCHANGED <<requests, event, eventProcessed, call, control, handed, tasks, expired, ran>>

\* SetProcessState
ProcessState(p, state) ==
    items' = IF OK(p) /\ MutexIsFree
             THEN [i \in DOMAIN items |->
                    IF items[i].pid = p THEN [items[i] EXCEPT !.state = state] ELSE items[i]]
             ELSE items

\* the option is off, or no instance has taken over: the main window is made
Run(p) ==
    /\ life[p] \in {"joined", "starting"} /\ MainIsFree(p)
    /\ life' = [life EXCEPT ![p] = "running"]
    /\ ProcessState(p, "running")
    /\ UNCHANGED <<newer, requests, held, event, eventProcessed, call, control, handed, tasks,
                   expired, ran>>

\* WM_DESTROY of the main window
Close(p) ==
    /\ p \in Leaving /\ life[p] = "running" /\ MainIsFree(p) /\ ~tasks[p].open
    /\ life' = [life EXCEPT ![p] = "ending"]
    /\ ProcessState(p, "ending")
    /\ UNCHANGED <<newer, requests, held, event, eventProcessed, call, control, handed, tasks,
                   expired, ran>>

Without(pids) == Kept(items, {i \in Item : i.pid \notin pids})

\* the process is gone with its threads and its memory; the system abandons its mutex
Dies(p) ==
    /\ life' = [life EXCEPT ![p] = "gone"]
    /\ control' = [control EXCEPT ![p] = NoThread]
    /\ call' = [call EXCEPT ![p] = NoCall]
    /\ params' = [params EXCEPT ![p] = 0] /\ processed' = [processed EXCEPT ![p] = FALSE]
    /\ activated' = [activated EXCEPT ![p] = 0]
    /\ tasks' = [tasks EXCEPT ![p] = NoTasks]
    /\ held' = IF held = p THEN None ELSE held

\* ~CTaskList: waits for the control thread, which ends in its outer wait
Leave(p) ==
    /\ life[p] = "ending" /\ control[p].at \in {"wait", "off"}
    /\ Dies(p)
    /\ items' = IF OK(p) /\ MutexIsFree THEN Without({p}) ELSE items
    /\ newer' = NewVersion(OK(p) /\ MutexIsFree)
    /\ UNCHANGED <<requests, event, eventProcessed, expired, ran>>

Crash(p) ==
    /\ p \in Leaving /\ Alive(p)
    /\ Dies(p)
    /\ UNCHANGED <<items, newer, requests, event, eventProcessed, expired, ran>>

-----------------------------------------------------------------------------
\* all is silent: no command is on its way
Silence ==
    /\ ~event
    /\ \A p \in Processes : call[p].at \notin Sending /\ control[p].at \in {"off", "wait"}

\* p writes a command for q
Write(p, todo, q) ==
    /\ TodoUID < MaxRequests
    /\ requests' = Append(requests, [todo |-> todo, pid |-> q, by |-> p])
    /\ call' = [r \in Processes |->
                    IF r = p THEN [at |-> "written", uid |-> TodoUID + 1, alone |-> Silence]
                    ELSE [call[r] EXCEPT !.alone = FALSE]]

\* from the list of tasks; TERMINATE ends the addressee as BREAK does
ChosenInTasks(p, todo, q) ==
    tasks[p].open /\ q \in tasks[p].pids /\ (todo = "break" => q # p)

\* the main window was destroyed by somebody else: the instance breaks itself
WindowIsLost(p) == p \in Leaving /\ ~tasks[p].open

FireEvent(p, todo, q) ==
    /\ life[p] = "running" /\ MainIsFree(p) /\ OK(p) /\ MutexIsFree
    /\ ChosenInTasks(p, todo, q) \/ (WindowIsLost(p) /\ todo = "break" /\ q = p)
    /\ Write(p, todo, q)
    /\ UNCHANGED <<life, items, newer, held, event, eventProcessed, control, handed, tasks,
                   expired, ran>>

\* ActivateRunningInstance looks for a running instance of the same class (all
\* are), and waits 200 ms at a time for one that is starting
Others(p, state) == {i \in DOMAIN items : items[i].pid # p /\ items[i].state = state}
FirstOf(indices) == CHOOSE i \in indices : \A j \in indices : i <= j

Looking(p) ==
    /\ OK(p)
    /\ \/ life[p] = "joined" /\ MainIsFree(p)
       \/ call[p].at = "sleeping"

ActivateRunningInstance(p) ==
    /\ Looking(p) /\ MutexIsFree /\ Others(p, "running") # {}
    /\ life' = [life EXCEPT ![p] = "starting"]
    /\ Write(p, "activate", items[FirstOf(Others(p, "running"))].pid)
    /\ UNCHANGED <<items, newer, held, event, eventProcessed, control, handed, tasks, expired,
                   ran>>

WaitForStarting(p) ==
    /\ Looking(p) /\ life[p] = "joined"
    /\ MutexIsFree => Others(p, "running") = {} /\ Others(p, "starting") # {}
    /\ life' = [life EXCEPT ![p] = "starting"]
    /\ CallAt(p, "sleeping")
    /\ UNCHANGED <<shared, event, eventProcessed, control, handed, tasks, expired, ran>>

\* nobody to wait for any more, or five seconds are over
NobodyRuns(p) ==
    /\ call[p].at = "sleeping"
    /\ CallAt(p, "none")
    /\ UNCHANGED <<life, shared, event, eventProcessed, control, handed, tasks, expired, ran>>

\* the common end of both: ResetEvent(EventProcessed), SetEvent(Event), a wait
Signal(p) ==
    /\ call[p].at = "written"
    /\ eventProcessed' = FALSE /\ event' = TRUE
    /\ CallAt(p, "signalled")
    /\ UNCHANGED <<life, shared, control, handed, tasks, expired, ran>>

\* ResetEvent(Event) and the return
Return(p) ==
    /\ event' = FALSE
    /\ call' = [call EXCEPT ![p] = NoCall]
    /\ UNCHANGED <<shared, eventProcessed, control, handed, tasks, expired, ran>>

\* who asked itself to break goes on sleeping
AfterCall(p) ==
    IF requests[call[p].uid].todo = "break" /\ requests[call[p].uid].pid = p
    THEN [life EXCEPT ![p] = "frozen"] ELSE life

\* an instance that was taken over ends
Answered(p) ==
    /\ call[p].at = "signalled" /\ eventProcessed
    /\ Return(p)
    /\ life' = IF life[p] = "starting" THEN [life EXCEPT ![p] = "ending"] ELSE AfterCall(p)

\* one second for FireEvent; TASKLIST_TODO_TIMEOUT + 500 ms for an activation,
\* a reserve in which a control thread whose wait is over gives its answer
TimeIsUp(u) ==
    requests[u].todo = "activate" =>
        /\ u <= expired
        /\ \A q \in Processes : control[q].at = "awaiting" /\ control[q].uid = u => ~processed[q]

NotAnswered(p) ==
    /\ call[p].at = "signalled" /\ ~eventProcessed /\ TimeIsUp(call[p].uid)
    /\ Return(p)
    /\ life' = AfterCall(p)

-----------------------------------------------------------------------------
(* FControlThread *)

\* WaitForMultipleObjects
WakeUp(p) ==
    /\ control[p].at = "wait" /\ event
    /\ ControlAt(p, "woken")
    /\ UNCHANGED <<life, shared, event, eventProcessed, call, handed, tasks, expired, ran>>

\* fault: a command is carried out again while Event is set
OursAgain(p) == TodoUID > 0 /\ requests[TodoUID].pid = p

IsOurs(p) == TodoUID > control[p].uid /\ requests[TodoUID].pid = p

\* five seconds without the mutex, a command carried out already or for another
\* instance (lastTodoUID changes then, but it is passed over again all the same)
LookAway(p) ==
    /\ control[p].at = "woken" /\ (MutexIsFree => ~IsOurs(p))
    /\ ControlAt(p, "wait")
    /\ UNCHANGED <<life, shared, event, eventProcessed, call, handed, tasks, expired, ran>>

\* a command for us: it is copied unless it is too old
LookAtTodo(p) ==
    /\ control[p].at = "woken" /\ MutexIsFree /\ IsOurs(p)
    /\ event' = FALSE
    /\ control' = [control EXCEPT ![p] =
                    [at |-> IF TodoUID <= expired THEN "wait" ELSE "perform", uid |-> TodoUID]]
    /\ UNCHANGED <<life, shared, eventProcessed, call, handed, tasks, expired, ran>>

CarriedOut(p) == ran' = [ran EXCEPT ![control[p].uid] = Append(@, p)]

\* HIGHLIGHT: SetEvent(EventProcessed), and the window flashes
Highlight(p) ==
    /\ control[p].at = "perform" /\ requests[control[p].uid].todo = "highlight"
    /\ eventProcessed' = TRUE
    /\ CarriedOut(p)
    /\ ControlAt(p, "wait")
    /\ UNCHANGED <<life, shared, event, call, handed, tasks, expired>>

\* BREAK and TERMINATE: SetEvent(EventProcessed), and the process ends
Break(p) ==
    /\ control[p].at = "perform" /\ requests[control[p].uid].todo = "break"
    /\ eventProcessed' = TRUE
    /\ CarriedOut(p)
    /\ Dies(p)
    /\ UNCHANGED <<items, newer, requests, event, expired>>

\* ACTIVATE: the command line is handed to the main thread, which is woken
HandOver(p) ==
    /\ control[p].at = "perform" /\ requests[control[p].uid].todo = "activate"
    /\ params' = [params EXCEPT ![p] = control[p].uid]
    /\ processed' = [processed EXCEPT ![p] = FALSE]
    /\ CarriedOut(p)
    /\ ControlAt(p, "awaiting")
    /\ UNCHANGED <<life, shared, event, eventProcessed, call, activated, tasks, expired>>

\* fault: the sender is told that all is done whether it is or not
SayDone(p) == TRUE

Reply(p) == processed[p] \/ eventProcessed

\* the wait for CommandLineParamsProcessed is over, at the latest after five
\* seconds; the main thread may take nothing any more
CloseRequest(p) ==
    /\ control[p].at = "awaiting"
    /\ processed[p] \/ control[p].uid <= expired
    /\ params' = [params EXCEPT ![p] = 0]
    /\ eventProcessed' = Reply(p)
    /\ ControlAt(p, "wait")
    /\ UNCHANGED <<life, shared, event, call, processed, activated, tasks, expired, ran>>

-----------------------------------------------------------------------------
\* fault: the age of the command is not looked at
AnyAge(u) == u # 0

StillWanted(u) == u # 0 /\ u > expired

\* the main thread, when it is idle and not busy
TakeParams(p) ==
    /\ life[p] = "running" /\ MainIsFree(p) /\ ~tasks[p].open
    /\ params[p] > activated[p] /\ StillWanted(params[p])
    /\ activated' = [activated EXCEPT ![p] = params[p]]
    /\ processed' = [processed EXCEPT ![p] = TRUE]
    /\ UNCHANGED <<life, shared, event, eventProcessed, call, control, params, tasks, expired,
                   ran>>

-----------------------------------------------------------------------------
\* GetItems: the processes the system does not know any more leave the list
Killed == {q \in Listed : life[q] = "gone"}

CanGetItems(p) == OK(p) /\ MutexIsFree

\* CTaskListDialog::Refresh after GetItems; when the mutex cannot be had nothing
\* is shown, and DisplayedVersion stays as it was
Refresh(p) ==
    \/ /\ CanGetItems(p)
       /\ items' = Without(Killed) /\ newer' = NewVersion(Killed # {}) \ {p}
       /\ tasks' = [tasks EXCEPT ![p] = [open |-> TRUE, pids |-> Listed \ Killed]]
    \/ /\ ~CanGetItems(p)
       /\ newer' = IF tasks[p].open THEN newer ELSE newer \union {p}
       /\ tasks' = [tasks EXCEPT ![p] = [open |-> TRUE, pids |-> {}]]
       /\ UNCHANGED items

OpenTasks(p) ==
    /\ p \in Watchers /\ life[p] = "running" /\ MainIsFree(p) /\ ~tasks[p].open
    /\ Refresh(p)
    /\ UNCHANGED <<life, requests, held, event, eventProcessed, call, control, handed, expired,
                   ran>>

CloseTasks(p) ==
    /\ tasks[p].open /\ MainIsFree(p)
    /\ tasks' = [tasks EXCEPT ![p] = NoTasks] /\ newer' = newer \ {p}
    /\ UNCHANGED <<life, items, requests, held, event, eventProcessed, call, control, handed,
                   expired, ran>>

\* WM_TIMER every 200 ms: another GetItems finds out whether the list has changed.
\* Without the mutex the version it compares is not set: anything may happen.
Timer(p) ==
    /\ tasks[p].open /\ MainIsFree(p)
    /\ \/ (CanGetItems(p) => p \in NewVersion(Killed # {})) /\ Refresh(p)
       \/ /\ CanGetItems(p) /\ p \notin NewVersion(Killed # {})
          /\ items' = Without(Killed) /\ newer' = NewVersion(Killed # {})
          /\ UNCHANGED tasks
    /\ UNCHANGED <<life, requests, held, event, eventProcessed, call, control, handed, expired,
                   ran>>

\* time passes
Expire ==
    /\ expired < TodoUID
    /\ expired' = expired + 1
    /\ UNCHANGED <<life, shared, event, eventProcessed, call, control, handed, tasks, ran>>

-----------------------------------------------------------------------------
Call(p) ==
    \/ \E todo \in {"highlight", "break"}, q \in Processes : FireEvent(p, todo, q)
    \/ ActivateRunningInstance(p) \/ WaitForStarting(p) \/ NobodyRuns(p)
    \/ Signal(p) \/ Answered(p) \/ NotAnswered(p)

ControlThread(p) ==
    \/ WakeUp(p) \/ LookAway(p) \/ LookAtTodo(p) \/ Highlight(p) \/ Break(p)
    \/ HandOver(p) \/ CloseRequest(p)

Next ==
    \/ \E p \in Processes :
        \/ Join(p) \/ JoinFails(p) \/ Run(p) \/ Close(p) \/ Leave(p) \/ Crash(p)
        \/ Call(p) \/ ControlThread(p) \/ TakeParams(p)
        \/ OpenTasks(p) \/ CloseTasks(p) \/ Timer(p)
    \/ Expire

Spec == Init /\ [][Next]_vars

\* a call that waits for an answer goes on, and an open list gets its timer
FairSpec ==
    /\ Spec
    /\ \A p \in Watchers :
        /\ WF_vars(Signal(p)) /\ WF_vars(Answered(p) \/ NotAnswered(p))
        /\ WF_vars(Timer(p))

-----------------------------------------------------------------------------
(* Types; and a control thread is never ahead of the commands sent. *)
TypeOK ==
    /\ life \in [Processes -> {"off", "joined", "starting", "running", "frozen", "ending", "gone"}]
    /\ items \in Seq(Item)
    /\ Len(items) <= MaxItems /\ IsInjective([i \in DOMAIN items |-> items[i].pid])
    /\ newer \subseteq Processes /\ held \in Processes \union {None}
    /\ requests \in Seq([todo : {"highlight", "break", "activate"}, pid : Processes,
                         by : Processes])
    /\ event \in BOOLEAN /\ eventProcessed \in BOOLEAN
    /\ call \in [Processes -> [at : Sending \union {"none", "sleeping"}, uid : 0..TodoUID,
                            alone : BOOLEAN]]
    /\ control \in [Processes -> [at : {"off", "wait", "woken", "perform", "awaiting"},
                               uid : 0..TodoUID]]
    /\ params \in [Processes -> 0..TodoUID] /\ processed \in [Processes -> BOOLEAN]
    /\ activated \in [Processes -> 0..TodoUID]
    /\ tasks \in [Processes -> [open : BOOLEAN, pids : SUBSET Processes]]
    /\ expired \in 0..TodoUID /\ ran \in [UIDs -> Seq(Processes)]

(* A command is carried out by the instance it was sent to and by no other, and
   once, however often Event is set and however late a control thread gets to
   look: breaking the wrong instance loses somebody's work. *)
OnlyAddresseeOnce ==
    \A u \in UIDs : ran[u] \in {<<>>} \union {<<requests[v].pid>> : v \in {u} \cap DOMAIN requests}

\* p's wait ends with or without an answer; nothing disturbed it, and the
\* instance it was addressed to lives
Ends(p) == call[p].at = "signalled" /\ call'[p] = NoCall
Addressee(p) == requests[call[p].uid].pid
Undisturbed(p) == call[p].alone /\ life[Addressee(p)] # "gone"

(* An instance that ends because it was told that a running one has taken over
   its command line is right: the paths the user gave are not lost.  (Not when
   other commands were on their way: EventProcessed is one for all of them.) *)
AnsweredMeansTaken ==
    [][\A p \in Processes :
        Ends(p) /\ Undisturbed(p) /\ life'[p] = "ending"
            => activated[Addressee(p)] = call[p].uid]_vars

(* An instance that starts because no running one answered is right as well: no
   other has shown the same paths (same exception), or does so later. *)
RefusedMeansNotTaken ==
    [][/\ \A p \in Processes :
            Ends(p) /\ Undisturbed(p) /\ life'[p] = "starting"
                => activated[Addressee(p)] # call[p].uid
       /\ \A q \in Processes : activated'[q] > activated[q] =>
            LET sender == requests[activated'[q]].by
            IN  \/ call[sender].uid = activated'[q]
                \/ life[sender] \in {"ending", "gone"}]_vars

(* An instance that has ended or crashed disappears from an open list of tasks,
   so that no command is sent to it; unless the mutex is held for ever. *)
EndedInstanceDisappears ==
    \A w \in Watchers :
        LET Ended == {p \in tasks[w].pids : life[p] = "gone"}
        IN  tasks[w].open /\ Ended # {} ~> ~tasks[w].open \/ Ended = {} \/ ~MutexIsFree
=============================================================================
