-------------------------- MODULE OperationsQueue --------------------------
(***************************************************************************)
(* COperationsQueue (src/src/worker.cpp): the queue of the running copy    *)
(* and move operations.  Every method runs under QueueCritSect, so each is *)
(* one operator from the old queue to the new one.  OperDlgs and           *)
(* OperPaused change together and are one sequence of records here.        *)
(***************************************************************************)
EXTENDS Integers, Sequences

Running == 0          \* values of OperPaused
AutoPaused == 1
ManuallyPaused == 2

Entries(dlgs) == [dlg : dlgs, paused : {Running, AutoPaused, ManuallyPaused}]

DlgsOf(q) == {q[i].dlg : i \in DOMAIN q}

\* the loop over OperPaused: no operation runs and none was paused by the user
AllAutoPaused(q) == \A i \in DOMAIN q : q[i].paused = AutoPaused

\* AddOperation: startOnIdle waits for the others
StartPaused(q, startOnIdle) == startOnIdle /\ ~AllAutoPaused(q)

AddOperation(q, d, startOnIdle) ==
    IF d \in DlgsOf(q) THEN q
    ELSE Append(q, [dlg |-> d,
                    paused |-> IF StartPaused(q, startOnIdle) THEN AutoPaused ELSE Running])

\* the loop that looks for the dialog from the beginning of OperDlgs
IndexOf(q, d) ==
    CHOOSE i \in DOMAIN q : q[i].dlg = d /\ \A j \in 1..(i - 1) : q[j].dlg # d

\* the entries behind the one that was found move up by one
Without(q, d) ==
    IF d \in DlgsOf(q)
    THEN [j \in 1..(Len(q) - 1) |-> IF j < IndexOf(q, d) THEN q[j] ELSE q[j + 1]]
    ELSE q

\* OperationEnded removes the entry, AutoPauseOperation moves it to the end
OperationEnded(q, d) == Without(q, d)

AutoPauseOperation(q, d) ==
    IF d \in DlgsOf(q) THEN Append(Without(q, d), [dlg |-> d, paused |-> AutoPaused])
                       ELSE q

SetPaused(q, d, p) ==
    [i \in DOMAIN q |-> IF q[i].dlg = d THEN [q[i] EXCEPT !.paused = p] ELSE q[i]]

\* fault: nobody is resumed when an operation ends
ResumeNobody(q) == {}

\* both then post CM_RESUMEOPER to the first operation if nothing else runs
ToResume(q) == IF q # <<>> /\ AllAutoPaused(q) THEN {q[1].dlg} ELSE {}
=============================================================================
