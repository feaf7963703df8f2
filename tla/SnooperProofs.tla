--------------------------- MODULE SnooperProofs ---------------------------
(***************************************************************************)
(* Snooper: the hand-over of the arrays between the snooper thread and the *)
(* main thread (DoWantDataEvent with AddDirectory, ChangeDirectory and     *)
(* DetachDirectory, src/src/snooper.cpp), for any number of panels, and    *)
(* that no change of a directory is lost between the two threads, for any  *)
(* number of events and messages.                                          *)
(*                                                                         *)
(* The invariant of the second part (Inv) says where the reason to read a  *)
(* directory is at every moment: in a signal, with the snooper thread, in  *)
(* a message, in a postponed refresh, or in the steps the main thread      *)
(* still has to do.  Each action has a lemma of its own.                   *)
(***************************************************************************)
EXTENDS Snooper, FiniteSetTheorems, TLAPS

HandingOver == sn.pc \in {"giving", "taking"}

\* the parts of the state the protocol is about
Types ==
    /\ event \in [want : BOOLEAN, continue : BOOLEAN, finished : BOOLEAN, begin : BOOLEAN,
                 end : BOOLEAN]
    /\ {"pc", "back"} \subseteq DOMAIN sn
    /\ sn.pc \in Waiting \union {"giving", "taking", "rearming", "resuming"}
    /\ sn.back \in Waiting
    /\ "pc" \in DOMAIN main
    /\ main.pc \in {"running", "asking", "changing", "waiting", "beginning", "ending"}

\* the four stages of a request for the arrays, one after the other
Asked == mutex = "snooper" /\ ~HandingOver /\ event.want /\ ~event.continue
Offered == mutex = "free" /\ sn.pc = "giving" /\ ~event.want /\ ~event.continue
Taken == \/ sn.pc = "giving" /\ event.want /\ ~event.continue
         \/ sn.pc = "taking" /\ ~event.want /\ ~event.continue
Returned == mutex = "snooper" /\ ~HandingOver /\ ~event.want

Protocol ==
    /\ main.pc = "running" => Returned /\ ~event.continue
    /\ main.pc = "asking" => Asked \/ Offered
    /\ main.pc = "changing" => Taken /\ mutex = "main"
    /\ main.pc = "waiting" => (Taken /\ mutex = "free") \/ Returned
    /\ main.pc \in {"beginning", "ending"} => Returned

\* an order to begin or end suspend mode is one the main thread waits for
Orders ==
    /\ event.begin => main.pc = "beginning" /\ ~event.continue
    /\ event.end => main.pc = "ending" /\ ~event.continue

IInv == Types /\ Protocol /\ Orders

LEMMA InitEstablishes == Init => IInv
<1> SUFFICES ASSUME Init PROVE IInv
  OBVIOUS
<1>1. event = [want |-> FALSE, continue |-> FALSE, finished |-> FALSE, begin |-> FALSE,
               end |-> FALSE]
  BY DEF Init
<1>2. sn.pc = "watching" /\ sn.back = "watching" /\ {"pc", "back"} \subseteq DOMAIN sn
  BY DEF Init
<1>3. main.pc = "running" /\ "pc" \in DOMAIN main /\ mutex = "snooper"
  BY DEF Init
<1>4. Types
  BY <1>1, <1>2, <1>3 DEF Types, Waiting
<1> QED
  BY <1>1, <1>2, <1>3, <1>4 DEF IInv, Protocol, Orders, Returned, HandingOver

LEMMA SnooperKeeps == ASSUME IInv, SnooperStep PROVE IInv'
<1> USE DEF IInv, Types, Waiting
<1>1. CASE GiveData
  BY <1>1 DEF GiveData, Reset, Protocol, Orders, Asked, Offered, Taken, Returned, HandingOver
<1>2. CASE SeeDataTaken
  BY <1>2 DEF SeeDataTaken, DataTaken, Reset, SnooperGoes, SnooperAt, Protocol, Orders, Asked,
              Offered, Taken, Returned, HandingOver
<1>3. CASE TakeDataBack
  BY <1>3 DEF TakeDataBack, Set, SnooperGoes, SnooperAt, Protocol, Orders, Asked, Offered,
              Taken, Returned, HandingOver
<1>4. CASE FindNextChange
  BY <1>4 DEF FindNextChange, SnooperAt, Protocol, Orders, Asked, Offered, Taken, Returned,
              HandingOver
<1>5. ASSUME NEW p \in Panels, NoticeChange(p) PROVE IInv'
  BY <1>5 DEF NoticeChange, SnooperAt, Protocol, Orders, Asked, Offered, Taken, Returned,
              HandingOver
<1>6. ASSUME NEW p \in Panels, NoticeSuspended(p) PROVE IInv'
  BY <1>6 DEF NoticeSuspended, SnooperAt, Protocol, Orders, Asked, Offered, Taken, Returned,
              HandingOver
<1>7. ASSUME NEW e \in EndingRefreshWait, EndRefreshWait(e) PROVE IInv'
  BY <1>7 DEF EndRefreshWait, EndingRefreshWait, SnooperAt, Reset, Protocol, Orders, Asked,
              Offered, Taken, Returned, HandingOver
<1>8. CASE StopIgnoring
  BY <1>8 DEF StopIgnoring, Protocol, Orders, Asked, Offered, Taken, Returned, HandingOver
<1>9. CASE BeginSuspend
  BY <1>9 DEF BeginSuspend, SnooperAt, Protocol, Orders, Asked, Offered, Taken, Returned,
              HandingOver
<1>10. CASE EndSuspend
  BY <1>10 DEF EndSuspend, SnooperAt, SnooperGoes, Protocol, Orders, Asked, Offered, Taken,
               Returned, HandingOver
<1>11. CASE PostAfterSuspend
  BY <1>11 DEF PostAfterSuspend, SnooperAt, Protocol, Orders, Asked, Offered, Taken, Returned,
               HandingOver
<1> QED BY <1>1, <1>2, <1>3, <1>4, <1>5, <1>6, <1>7, <1>8, <1>9, <1>10, <1>11 DEF SnooperStep

LEMMA MainKeeps == ASSUME IInv, MainStep PROVE IInv'
<1> USE DEF IInv, Types, Waiting
<1>1. CASE AskForData
  BY <1>1 DEF AskForData, MainRuns, Set, Protocol, Orders, Asked, Offered, Taken, Returned,
              HandingOver
<1>2. CASE TakeData
  BY <1>2 DEF TakeData, Set, Protocol, Orders, Asked, Offered, Taken, Returned, HandingOver
<1>3. CASE ChangeData
  BY <1>3 DEF ChangeData, Protocol, Orders, Asked, Offered, Taken, Returned, HandingOver
<1>4. CASE DataReturned
  BY <1>4 DEF DataReturned, Reset, StepDone, Protocol, Orders, Asked, Offered, Taken, Returned,
              HandingOver
<1>5. CASE SuspendChanged
  BY <1>5 DEF SuspendChanged, Reset, Protocol, Orders, Asked, Offered, Taken, Returned,
              HandingOver
<1>6. CASE HandleRefresh
  <2>1. main.pc = "running" /\ main'.pc = "running" /\ "pc" \in DOMAIN main'
    BY <1>6 DEF HandleRefresh, MainIsIdle, MainRuns, Todo
  <2>2. UNCHANGED <<mutex, event, sn>>
    BY <1>6 DEF HandleRefresh
  <2> QED
    BY <2>1, <2>2 DEF Protocol, Orders, Asked, Offered, Taken, Returned, HandingOver
<1>7. ASSUME NEW p \in Panels, HandleEndNotify(p) PROVE IInv'
  <2>1. main.pc = "running" /\ main'.pc = "running" /\ "pc" \in DOMAIN main'
    BY <1>7 DEF HandleEndNotify, MainIsIdle, MainRuns, Todo
  <2>2. UNCHANGED <<mutex, event, sn>>
    BY <1>7 DEF HandleEndNotify
  <2> QED
    BY <2>1, <2>2 DEF Protocol, Orders, Asked, Offered, Taken, Returned, HandingOver
<1>8. CASE Stamp
  BY <1>8 DEF Stamp, NextStep, MainRuns, StepDone, Protocol, Orders, Asked, Offered, Taken,
              Returned, HandingOver
<1>9. CASE ReadListing
  BY <1>9 DEF ReadListing, NextStep, MainRuns, StepDone, Protocol, Orders, Asked, Offered,
              Taken, Returned, HandingOver
<1>10. CASE RefreshFinished
  BY <1>10 DEF RefreshFinished, NextStep, MainRuns, StepDone, Set, Protocol, Orders, Asked,
               Offered, Taken, Returned, HandingOver
<1>11. CASE TakenUp
  BY <1>11 DEF TakenUp, NextStep, MainRuns, StepDone, Protocol, Orders, Asked, Offered, Taken,
               Returned, HandingOver
<1> QED BY <1>1, <1>2, <1>3, <1>4, <1>5, <1>6, <1>7, <1>8, <1>9, <1>10, <1>11 DEF MainStep

LEMMA CommandsKeep ==
  ASSUME IInv,
         \/ CommandEnds \/ BeginSuspendMode \/ BeginStopRefresh
         \/ \E p \in Panels : DirectoryChanges(p) \/ LetGo(p)
  PROVE  IInv'
<1> USE DEF IInv, Types, Waiting
<1>1. CASE EndSuspendMode
  BY <1>1 DEF EndSuspendMode, MainIsIdle, MainRuns, Set, Protocol, Orders, Asked, Offered,
              Taken, Returned, HandingOver
<1>2. CASE EndStopRefresh
  BY <1>2 DEF EndStopRefresh, Protocol, Orders, Asked, Offered, Taken, Returned, HandingOver
<1>3. ASSUME NEW p \in Panels, TakeUp(p) PROVE IInv'
  BY <1>3 DEF TakeUp, MainIsIdle, MainRuns, Todo, Protocol, Orders, Asked, Offered, Taken,
              Returned, HandingOver
<1>4. CASE BeginSuspendMode
  BY <1>4 DEF BeginSuspendMode, MainIsIdle, MainRuns, Set, Protocol, Orders, Asked, Offered,
              Taken, Returned, HandingOver
<1>5. CASE BeginStopRefresh
  BY <1>5 DEF BeginStopRefresh, Protocol, Orders, Asked, Offered, Taken, Returned, HandingOver
<1>6. ASSUME NEW p \in Panels, DirectoryChanges(p) PROVE IInv'
  BY <1>6 DEF DirectoryChanges, Protocol, Orders, Asked, Offered, Taken, Returned, HandingOver
<1>7. ASSUME NEW p \in Panels, LetGo(p) PROVE IInv'
  BY <1>7 DEF LetGo, MainIsIdle, MainRuns, Todo, Protocol, Orders, Asked, Offered, Taken,
              Returned, HandingOver
<1> QED BY <1>1, <1>2, <1>3, <1>4, <1>5, <1>6, <1>7 DEF CommandEnds

LEMMA Invariance == Spec => []IInv
<1>1. IInv /\ [Next]_vars => IInv'
  <2> SUFFICES ASSUME IInv, [Next]_vars PROVE IInv'
    OBVIOUS
  <2>1. CASE UNCHANGED vars
    BY <2>1 DEF vars, IInv, Types, Protocol, Orders, Asked, Offered, Taken, Returned,
                HandingOver
  <2> QED BY <2>1, SnooperKeeps, MainKeeps, CommandsKeep DEF Next
<1> QED BY <1>1, InitEstablishes, PTL DEF Spec

(* The hand-over works for every number of panels and handles: while the main  *)
(* thread changes the arrays the snooper is outside of its waits, and a        *)
(* Continue that is set belongs to the request the main thread waits for       *)
(* (DoWantDataEvent, AddDirectory, ChangeDirectory, DetachDirectory).          *)
THEOREM DataIsHandedOver == Spec => []DataHandedOver
<1>1. IInv => DataHandedOver
  BY DEF IInv, Types, Protocol, Asked, Offered, Taken, Returned, HandingOver, DataHandedOver
<1> QED BY <1>1, Invariance, PTL

-----------------------------------------------------------------------------
(* No change is lost *)

Place == IF HandingOver THEN sn.back ELSE sn.pc

IsNewer(m, p) == m.panel = p /\ m.newer
HasMessage(p) == \E i \in DOMAIN msgs : IsNewer(msgs[i], p)
HasNeed(p) == need[p].set /\ need[p].newer
InTodo(do, p, i) == i \in DOMAIN main.todo /\ main.todo[i].do = do /\ main.todo[i].panel = p
Lists(p) == \E i \in DOMAIN main.todo : InTodo("list", p, i)
Posts(p) == \E i \in DOMAIN main.todo : InTodo("post", p, i)

\* the panel is going to be registered anew, and read then
Afresh(p) == \E i, j \in DOMAIN main.todo : i < j /\ InTodo("detach", p, i) /\ InTodo("list", p, j)

\* a refresh that does not need the notification just seen
OnItsWay(p) == HasMessage(p) \/ HasNeed(p) \/ p \in handsOff \/ Posts(p) \/ Afresh(p)

\* what the snooper thread knows besides the signals, and since when
SnooperRemembers ==
    /\ Place \in {"watching", "suspended", "resuming"} => sn.same = None
    /\ Place \notin {"suspended", "resuming"} => sn.refresh = {}
    /\ sn.pc = "rearming" =>
          /\ sn.panel \in Panels /\ watched[sn.panel] # None
          /\ \A q \in Others(sn.panel) : watched[q] # None => sn.same = watched[q]
          /\ OnItsWay(sn.panel)

\* who is to give a handle up reads the directory later, and who is to read it
\* registers it before
StepIsFine(i) ==
    LET p == main.todo[i].panel
        do == main.todo[i].do
    IN  /\ do = "stamp" => InTodo("detach", p, i + 1) /\ InTodo("list", p, i + 3)
        /\ do = "list" /\ i > 1 => InTodo("add", p, i - 1)
        /\ do \in Arrays =>
              \/ \E j \in DOMAIN main.todo : j > i /\ (InTodo("list", p, j) \/ InTodo("post", p, j))
              \/ /\ p \in handsOff \/ HasNeed(p)
                 /\ \A j \in DOMAIN main.todo : main.todo[j].do # "stamp"
TodoIsFine == \A i \in DOMAIN main.todo : StepIsFine(i)

Registered(p) == watched[p] # None \/ p \in sn.refresh \/ HasMessage(p)

MainKnows ==
    /\ main.pc \in {"asking", "changing", "waiting"} => main.todo # <<>> /\ main.todo[1].do \in Arrays
    /\ main.pc \in {"beginning", "ending"} => main.todo = <<>>
    /\ main.todo # <<>> =>
          /\ main.pc = "waiting" /\ main.todo[1].do = "detach" => watched[main.todo[1].panel] = None
          /\ \/ main.pc = "waiting" /\ main.todo[1].do = "add"
             \/ main.todo[1].do = "list"
             => Registered(main.todo[1].panel)

\* a postponed refresh has its end of suspend mode or its timer before it
NeedIsServed ==
    /\ \A p \in Panels : HasNeed(p) => p \in smTimer \/ Busy \/ sn.pc = "resuming"
    /\ main.pc = "ending" /\ event.continue => sn.pc = "resuming" \/ smTimer = Panels

Counted ==
    /\ suspended.snooper + suspended.refresh + (IF main.pc = "beginning" THEN 1 ELSE 0) <= events
    /\ main.pc = "ending" => suspended.snooper > 0

\* WillBeRead without when
Comes(p) ==
    \/ Signalled(p)
    \/ sn.same # None /\ watched[p] = sn.same
    \/ p \in sn.refresh \/ HasMessage(p) \/ HasNeed(p)
    \/ Lists(p) \/ Posts(p) \/ p \in handsOff
AllCome == \A p \in Panels : p \in dirty \/ watched[p] = None => Comes(p)

\* the types
Messages == [panel : Panels, msg : {"refresh", "s_refresh"}, finish : BOOLEAN, newer : BOOLEAN]
WatchTypes ==
    /\ watched \in [Panels -> Handles \union {None}]
    /\ \A p, q \in Panels : watched[p] = watched[q] => p = q \/ watched[p] = None
    /\ signal \in [Handles -> {"no", "yes", "more"}]
    /\ \A h \in Handles : signal[h] # "no" => \E p \in Panels : watched[p] = h
SnoopTypes ==
    sn \in [pc : Waiting \union {"giving", "taking", "rearming", "resuming"},
            back : Waiting, panel : Panels \union {None},
            same : Handles \union {None}, refresh : SUBSET Panels, ignore : BOOLEAN]
MainTypes ==
    /\ main.todo \in Seq(Steps)
    /\ main = [pc |-> main.pc, todo |-> main.todo]
RestTypes ==
    /\ mutex \in {"snooper", "main", "free"}
    /\ smTimer \subseteq Panels /\ handsOff \subseteq Panels /\ dirty \subseteq Panels
    /\ suspended \in [snooper : Nat, refresh : Nat]
    /\ need \in [Panels -> [set : BOOLEAN, newer : BOOLEAN]]
    /\ events \in 0..MaxEvents

Inv ==
    /\ IInv /\ WatchTypes /\ SnoopTypes /\ MainTypes /\ msgs \in Seq(Messages) /\ RestTypes
    /\ SnooperRemembers /\ TodoIsFine /\ MainKnows /\ NeedIsServed /\ Counted /\ AllCome

LEMMA InvIsEnough == ASSUME Inv PROVE NoChangeIsLost /\ TypeOK
<1>1. NoChangeIsLost
  <2> SUFFICES ASSUME NEW p \in Panels, p \in dirty \/ watched[p] = None PROVE WillBeRead(p)
    BY DEF NoChangeIsLost
  <2>1. Comes(p) /\ NeedIsServed
    BY DEF Inv, AllCome
  <2> QED BY <2>1 DEF Comes, WillBeRead, HasMessage, IsNewer, HasNeed, NeedIsServed, Lists, Posts, InTodo
<1>2. watched \in [Panels -> Handles \union {None}]
      /\ (\A p, q \in Panels : watched[p] = watched[q] => p = q \/ watched[p] = None)
      /\ signal \in [Handles -> {"no", "yes", "more"}]
  BY DEF Inv, WatchTypes
<1>3. \A h \in Handles \ Open : signal[h] = "no"
  BY SnooperAssumption DEF Inv, WatchTypes, Open
<1>4. event \in [{"want", "continue", "finished", "begin", "end"} -> BOOLEAN]
  BY DEF Inv, IInv, Types
<1>5. sn \in [pc : Waiting \union {"giving", "taking", "rearming", "resuming"},
               back : Waiting, panel : Panels \union {None},
               same : Handles \union {None}, refresh : SUBSET Panels, ignore : BOOLEAN]
  BY DEF Inv, SnoopTypes
<1>6. main \in [pc : {"running", "asking", "changing", "waiting", "beginning", "ending"},
                 todo : Seq(Steps)]
  <2>1. main.todo \in Seq(Steps) /\ main = [pc |-> main.pc, todo |-> main.todo]
        /\ main.pc \in {"running", "asking", "changing", "waiting", "beginning", "ending"}
    BY DEF Inv, MainTypes, IInv, Types
  <2> DEFINE S == Seq(Steps)
  <2> HIDE DEF S
  <2>2. main.todo \in S BY <2>1 DEF S
  <2>3. main \in [pc : {"running", "asking", "changing", "waiting", "beginning", "ending"}, todo : S]
    BY <2>1, <2>2
  <2> QED BY <2>3 DEF S
<1>7. msgs \in Seq([panel : Panels, msg : {"refresh", "s_refresh"},
                     finish : BOOLEAN, newer : BOOLEAN])
  BY DEF Inv, Messages
<1>8. suspended \in [snooper : 0..MaxEvents, refresh : 0..MaxEvents]
  <2>1. suspended.snooper \in Nat /\ suspended.refresh \in Nat /\ events \in 0..MaxEvents
        /\ suspended = [snooper |-> suspended.snooper, refresh |-> suspended.refresh]
    BY DEF Inv, RestTypes
  <2>2. suspended.snooper + suspended.refresh <= events
    BY <2>1 DEF Inv, Counted
  <2>3. suspended.snooper \in 0..MaxEvents /\ suspended.refresh \in 0..MaxEvents
    BY <2>1, <2>2, SnooperAssumption
  <2> QED BY <2>1, <2>3
<1>9. /\ mutex \in {"snooper", "main", "free"}
      /\ smTimer \subseteq Panels /\ handsOff \subseteq Panels /\ dirty \subseteq Panels
      /\ need \in [Panels -> [set : BOOLEAN, newer : BOOLEAN]]
      /\ events \in 0..MaxEvents
  BY DEF Inv, RestTypes
<1> QED
  BY <1>1, <1>2, <1>3, <1>4, <1>5, <1>6, <1>7, <1>8, <1>9 DEF TypeOK

\* the queue of messages
LEMMA AppendMessage ==
    ASSUME msgs \in Seq(Messages), NEW m \in Messages, msgs' = Append(msgs, m)
    PROVE  msgs' \in Seq(Messages) /\ \A p : HasMessage(p) \/ IsNewer(m, p) => HasMessage(p)'
<1>1. /\ msgs' \in Seq(Messages) /\ Len(msgs) \in Nat /\ Len(msgs') = Len(msgs) + 1
      /\ DOMAIN msgs = 1..Len(msgs) /\ DOMAIN msgs' = 1..(Len(msgs) + 1)
      /\ \A i \in 1..Len(msgs) : msgs'[i] = msgs[i]
      /\ msgs'[Len(msgs) + 1] = m
  OBVIOUS
<1>2. \A i \in DOMAIN msgs : i \in DOMAIN msgs'
  BY <1>1
<1>3. Len(msgs) + 1 \in DOMAIN msgs'
  BY <1>1
<1> QED BY <1>1, <1>2, <1>3 DEF HasMessage, IsNewer

LEMMA ConcatMessages ==
    ASSUME msgs \in Seq(Messages), NEW s \in Seq(Messages), msgs' = msgs \o s
    PROVE  /\ msgs' \in Seq(Messages)
           /\ \A p : HasMessage(p) \/ (\E i \in DOMAIN s : IsNewer(s[i], p)) => HasMessage(p)'
<1> DEFINE n == Len(msgs)
           k == Len(s)
<1>1. /\ msgs' \in Seq(Messages) /\ n \in Nat /\ k \in Nat /\ Len(msgs') = n + k
      /\ DOMAIN msgs = 1..n /\ DOMAIN s = 1..k /\ DOMAIN msgs' = 1..(n + k)
      /\ \A i \in 1..n : msgs'[i] = msgs[i]
      /\ \A i \in 1..k : msgs'[n + i] = s[i]
  OBVIOUS
<1> HIDE DEF n, k
<1>2. \A i \in DOMAIN msgs : i \in DOMAIN msgs'
  BY <1>1
<1>3. \A i \in DOMAIN s : n + i \in DOMAIN msgs'
  BY <1>1
<1> QED BY <1>1, <1>2, <1>3 DEF HasMessage, IsNewer

LEMMA TailMessages ==
    ASSUME msgs \in Seq(Messages), msgs # <<>>, msgs' = Tail(msgs)
    PROVE  /\ msgs' \in Seq(Messages) /\ Head(msgs) \in Messages
           /\ \A p : HasMessage(p) => IsNewer(Head(msgs), p) \/ HasMessage(p)'
<1> DEFINE n == Len(msgs)
<1>1. /\ msgs' \in Seq(Messages) /\ Head(msgs) \in Messages /\ n \in Nat /\ n >= 1
      /\ DOMAIN msgs = 1..n /\ DOMAIN msgs' = 1..(n - 1) /\ msgs[1] = Head(msgs)
      /\ \A i \in 1..(n - 1) : msgs'[i] = msgs[i + 1]
  OBVIOUS
<1> HIDE DEF n
<1>2. ASSUME NEW p, HasMessage(p), ~IsNewer(Head(msgs), p) PROVE HasMessage(p)'
  <2>1. PICK i \in 1..n : IsNewer(msgs[i], p)
    BY <1>1, <1>2 DEF HasMessage
  <2>2. i # 1
    BY <1>1, <1>2, <2>1
  <2>3. i - 1 \in 1..(n - 1) /\ (i - 1) + 1 = i
    BY <1>1, <2>2
  <2>4. msgs'[i - 1] = msgs[i]
    BY <1>1, <2>3
  <2>5. i - 1 \in DOMAIN msgs'
    BY <1>1, <2>3
  <2> QED BY <2>1, <2>4, <2>5 DEF HasMessage, IsNewer
<1> QED BY <1>1, <1>2

\* the steps of the main thread
LEMMA TodoFacts ==
    ASSUME Inv
    PROVE  /\ main.todo \in Seq(Steps) /\ Len(main.todo) \in Nat /\ DOMAIN main.todo = 1..Len(main.todo)
           /\ main.todo = <<>> <=> Len(main.todo) = 0
           /\ main.todo # <<>> => Step = main.todo[1] /\ 1 \in DOMAIN main.todo
           /\ \A i \in DOMAIN main.todo : main.todo[i] \in Steps /\ main.todo[i].panel \in Panels
           /\ MainTypes
<1>1. main.todo \in Seq(Steps) /\ MainTypes
  BY DEF Inv, MainTypes
<1>2. Len(main.todo) \in Nat /\ DOMAIN main.todo = 1..Len(main.todo)
      /\ (main.todo = <<>> <=> Len(main.todo) = 0)
  BY <1>1
<1>3. main.todo # <<>> => Head(main.todo) = main.todo[1] /\ 1 \in DOMAIN main.todo
  BY <1>1, <1>2
<1>4. \A i \in DOMAIN main.todo : main.todo[i] \in Steps
  BY <1>1, <1>2
<1>5. \A s \in Steps : s.panel \in Panels
  BY DEF Steps
<1> QED BY <1>1, <1>2, <1>3, <1>4, <1>5 DEF Step

LEMMA FirstDone ==
    ASSUME Inv, main.todo # <<>>, StepDone
    PROVE  /\ main'.pc = "running" /\ MainTypes'
           /\ DOMAIN main'.todo = 1..(Len(main.todo) - 1)
           /\ \A i \in DOMAIN main'.todo : main'.todo[i] = main.todo[i + 1] /\ i + 1 \in DOMAIN main.todo
           /\ \A do, p, i : i \in DOMAIN main.todo /\ i # 1 =>
                 (InTodo(do, p, i) <=> InTodo(do, p, i - 1)') /\ i - 1 \in DOMAIN main'.todo
           /\ \A do, p, i : i \in DOMAIN main'.todo => (InTodo(do, p, i)' <=> InTodo(do, p, i + 1))
<1> DEFINE t == main.todo
           n == Len(t)
           u == main'.todo
<1>1. t \in Seq(Steps) /\ t # <<>> /\ n \in Nat /\ DOMAIN t = 1..n /\ n >= 1
  BY TodoFacts
<1>2. main' = [pc |-> "running", todo |-> Tail(t)]
  BY DEF StepDone
<1>3. main'.pc = "running" /\ u = Tail(t)
  BY <1>2
<1>4. u \in Seq(Steps) /\ DOMAIN u = 1..(n - 1) /\ \A i \in 1..(n - 1) : u[i] = t[i + 1]
  BY <1>1, <1>3
<1>5. MainTypes'
  BY <1>2, <1>3, <1>4 DEF MainTypes
<1>6. DOMAIN main.todo = DOMAIN t /\ \A i : main.todo[i] = t[i] /\ main'.todo[i] = u[i]
  OBVIOUS
<1> HIDE DEF n
<1>7. \A i \in DOMAIN u : u[i] = t[i + 1] /\ i + 1 \in DOMAIN t
  BY <1>1, <1>4
<1>8. ASSUME NEW i \in DOMAIN t, i # 1 PROVE i - 1 \in DOMAIN u /\ u[i - 1] = t[i]
  <2>1. i - 1 \in 1..(n - 1) /\ (i - 1) + 1 = i
    BY <1>1, <1>8
  <2>2. u[i - 1] = t[(i - 1) + 1]
    BY <2>1, <1>4
  <2> QED BY <2>1, <2>2, <1>4
<1> QED BY <1>3, <1>4, <1>5, <1>7, <1>8 DEF InTodo, n

\* what is left when the first step is done
LEMMA StepDoneKeeps ==
    ASSUME Inv, main.todo # <<>>, StepDone, handsOff' = handsOff,
           main.todo[1].do = "stamp" \/ \A p \in Panels : HasNeed(p) => HasNeed(p)'
    PROVE  /\ TodoIsFine'
           /\ \A p \in Panels :
                 /\ Lists(p) => Lists(p)' \/ InTodo("list", p, 1)
                 /\ Posts(p) => Posts(p)' \/ InTodo("post", p, 1)
                 /\ Afresh(p) => Afresh(p)' \/ InTodo("detach", p, 1)
<1> DEFINE D == DOMAIN main.todo
           E == DOMAIN main'.todo
<1>1. /\ E = 1..(Len(main.todo) - 1)
      /\ \A i \in E : main'.todo[i] = main.todo[i + 1] /\ i + 1 \in D
      /\ \A do, p, i : i \in D /\ i # 1 => (InTodo(do, p, i) <=> InTodo(do, p, i - 1)') /\ i - 1 \in E
      /\ \A do, p, i : i \in E => (InTodo(do, p, i)' <=> InTodo(do, p, i + 1))
  BY FirstDone
<1>2. D = 1..Len(main.todo) /\ Len(main.todo) \in Nat /\ \A i \in D : main.todo[i].panel \in Panels
      /\ TodoIsFine
  BY TodoFacts DEF Inv
<1> HIDE DEF D, E
<1>3. ASSUME NEW i \in E PROVE StepIsFine(i)'
  <2> DEFINE k == i + 1
  <2> HIDE DEF k
  <2>0. PICK p, do : p = main.todo[k].panel /\ do = main.todo[k].do
    OBVIOUS
  <2>1. k \in D /\ main'.todo[i] = main.todo[k] /\ p \in Panels /\ StepIsFine(k)
        /\ i \in Nat /\ i >= 1 /\ k # 1 /\ k > 1 /\ k - 1 = i
    BY <1>1, <1>2, <1>3, <2>0 DEF TodoIsFine, D, k
  <2>2. ASSUME do = "stamp" PROVE InTodo("detach", p, i + 1)' /\ InTodo("list", p, i + 3)'
    <3>1. InTodo("detach", p, k + 1) /\ InTodo("list", p, k + 3)
      BY <2>0, <2>1, <2>2 DEF StepIsFine
    <3>2. k + 1 \in D /\ k + 1 # 1 /\ (k + 1) - 1 = i + 1 /\ k + 3 \in D /\ k + 3 # 1 /\ (k + 3) - 1 = i + 3
      BY <3>1, <2>1, <1>2 DEF InTodo, D
    <3>3. InTodo("detach", p, (k + 1) - 1)' /\ InTodo("list", p, (k + 3) - 1)'
      BY <3>1, <3>2, <1>1
    <3> QED BY <3>2, <3>3
  <2>3. ASSUME do = "list", i > 1 PROVE InTodo("add", p, i - 1)'
    <3>1. InTodo("add", p, k - 1)
      BY <2>0, <2>1, <2>3 DEF StepIsFine
    <3>2. i \in D /\ i # 1
      BY <3>1, <2>1, <2>3 DEF InTodo, D
    <3> QED BY <3>1, <3>2, <2>1, <1>1
  <2>4. ASSUME do \in Arrays
        PROVE  \/ \E j \in E : j > i /\ (InTodo("list", p, j)' \/ InTodo("post", p, j)')
               \/ /\ p \in handsOff' \/ HasNeed(p)'
                  /\ \A j \in E : main'.todo[j].do # "stamp"
    <3>1. CASE \E j \in D : j > k /\ (InTodo("list", p, j) \/ InTodo("post", p, j))
      <4>1. PICK j \in D : j > k /\ (InTodo("list", p, j) \/ InTodo("post", p, j))
        BY <3>1
      <4>2. j # 1 /\ j - 1 > i
        BY <4>1, <2>1, <1>2
      <4>3. j - 1 \in E /\ (InTodo("list", p, j - 1)' \/ InTodo("post", p, j - 1)')
        BY <4>1, <4>2, <1>1
      <4> QED BY <4>2, <4>3
    <3>2. CASE /\ p \in handsOff \/ HasNeed(p)
               /\ \A j \in D : main.todo[j].do # "stamp"
      <4>1. 1 \in D
        BY <2>1, <1>2
      <4>2. \A q \in Panels : HasNeed(q) => HasNeed(q)'
        BY <3>2, <4>1
      <4>3. \A j \in E : main'.todo[j].do # "stamp"
        BY <3>2, <1>1
      <4>4. p \in handsOff' \/ HasNeed(p)'
        BY <3>2, <4>2, <2>1
      <4> QED BY <4>3, <4>4
    <3> QED BY <3>1, <3>2, <2>0, <2>1, <2>4 DEF StepIsFine, D
  <2> QED BY <2>0, <2>1, <2>2, <2>3, <2>4 DEF StepIsFine, E
<1>4. TodoIsFine'
  BY <1>3 DEF TodoIsFine, E
<1>5. ASSUME NEW p \in Panels, Lists(p), ~InTodo("list", p, 1) PROVE Lists(p)'
  <2>1. PICK i \in D : InTodo("list", p, i)
    BY <1>5 DEF Lists, D
  <2> QED BY <2>1, <1>1, <1>5 DEF Lists, E
<1>6. ASSUME NEW p \in Panels, Posts(p), ~InTodo("post", p, 1) PROVE Posts(p)'
  <2>1. PICK i \in D : InTodo("post", p, i)
    BY <1>6 DEF Posts, D
  <2> QED BY <2>1, <1>1, <1>6 DEF Posts, E
<1>7. ASSUME NEW p \in Panels, Afresh(p), ~InTodo("detach", p, 1) PROVE Afresh(p)'
  <2>1. PICK i \in D, j \in D : i < j /\ InTodo("detach", p, i) /\ InTodo("list", p, j)
    BY <1>7 DEF Afresh, D
  <2>2. i # 1 /\ j # 1 /\ i - 1 < j - 1
    BY <2>1, <1>2, <1>7
  <2>3. i - 1 \in E /\ j - 1 \in E /\ InTodo("detach", p, i - 1)' /\ InTodo("list", p, j - 1)'
    BY <2>1, <2>2, <1>1
  <2> QED BY <2>2, <2>3 DEF Afresh, E
<1> QED BY <1>4, <1>5, <1>6, <1>7

-----------------------------------------------------------------------------
(* The snooper thread keeps the invariant *)

\* what no step of the snooper thread touches
LEMMA SnooperFrame ==
    ASSUME Inv, UNCHANGED <<main, need, handsOff, suspended, events>>
    PROVE  TodoIsFine' /\ MainTypes' /\ Counted'
<1>1. TodoIsFine /\ MainTypes /\ Counted
  BY DEF Inv
<1>2. TodoIsFine'
  <2> SUFFICES ASSUME NEW i \in DOMAIN main.todo PROVE StepIsFine(i)'
    BY DEF TodoIsFine
  <2>1. StepIsFine(i)
    BY <1>1 DEF TodoIsFine
  <2> QED BY <2>1 DEF StepIsFine, InTodo, HasNeed
<1>3. MainTypes'
  BY <1>1 DEF MainTypes
<1>4. Counted'
  BY <1>1 DEF Counted
<1> QED BY <1>2, <1>3, <1>4

\* what remains to be proved when only the place of the snooper thread changes
LEMMA OnlySnooperMoves ==
    ASSUME Inv, UNCHANGED <<main, need, handsOff, suspended, events, watched, signal, msgs,
                            smTimer, dirty>>,
           mutex' \in {"snooper", "main", "free"}, IInv', SnoopTypes',
           UNCHANGED <<sn.same, sn.refresh>>, sn'.pc # "rearming",
           Place' = Place \/ (Place \in {"watching", "suspended", "resuming"} /\
                              Place' \in {"watching", "suspended", "resuming"} /\
                              (Place' = "watching" => sn.refresh = {})),
           sn.pc = "resuming" => sn'.pc = "resuming",
           main.pc = "ending" /\ event'.continue => sn'.pc = "resuming" \/ event.continue
    PROVE  Inv'
<1>1. TodoIsFine' /\ MainTypes' /\ Counted'
  BY SnooperFrame
<1>2. WatchTypes' /\ msgs' \in Seq(Messages)
  BY DEF Inv, WatchTypes
<1>3. RestTypes'
  BY DEF Inv, RestTypes
<1>4. SnooperRemembers'
  BY DEF Inv, SnooperRemembers
<1>5. MainKnows'
  BY DEF Inv, MainKnows, Registered, HasMessage, IsNewer
<1>6. NeedIsServed'
  BY DEF Inv, NeedIsServed, HasNeed, Busy
<1>7. AllCome'
  <2> SUFFICES ASSUME NEW p \in Panels, p \in dirty \/ watched[p] = None PROVE Comes(p)'
    BY DEF AllCome
  <2>1. Comes(p)
    BY DEF Inv, AllCome
  <2> QED
    BY <2>1 DEF Comes, Signalled, HasMessage, IsNewer, HasNeed, Lists, Posts, InTodo
<1> QED BY <1>1, <1>2, <1>3, <1>4, <1>5, <1>6, <1>7 DEF Inv

LEMMA GiveDataKeeps == ASSUME Inv, GiveData PROVE Inv'
<1>1. IInv' /\ SnoopTypes /\ IInv /\ SnooperRemembers
  BY SnooperKeeps DEF SnooperStep, Inv
<1>2. /\ sn' = [sn EXCEPT !.back = sn.pc, !.pc = "giving"] /\ sn.pc \in Waiting
      /\ UNCHANGED <<main, need, handsOff, suspended, events, watched, signal, msgs, smTimer, dirty>>
      /\ mutex' = "free" /\ event' = [event EXCEPT !.want = FALSE]
  BY DEF GiveData, Reset, env
<1>3. sn'.pc = "giving" /\ sn'.back = sn.pc /\ SnoopTypes' /\ UNCHANGED <<sn.same, sn.refresh>>
  BY <1>1, <1>2 DEF SnoopTypes
<1>4. Place' = Place /\ sn.pc # "resuming" /\ event'.continue = event.continue
  BY <1>1, <1>2, <1>3 DEF Place, HandingOver, Waiting, IInv, Types
<1> QED BY <1>1, <1>2, <1>3, <1>4, OnlySnooperMoves

LEMMA SeeDataTakenKeeps == ASSUME Inv, SeeDataTaken PROVE Inv'
<1>1. IInv' /\ SnoopTypes /\ IInv
  BY SnooperKeeps DEF SnooperStep, Inv
<1>2. /\ sn' = [sn EXCEPT !.pc = "taking"] /\ sn.pc = "giving"
      /\ UNCHANGED <<main, need, handsOff, suspended, events, watched, signal, msgs, smTimer, dirty>>
      /\ UNCHANGED mutex /\ event' = [event EXCEPT !.want = FALSE]
  BY DEF SeeDataTaken, SnooperAt, SnooperGoes, Reset, env
<1>3. sn'.pc = "taking" /\ sn'.back = sn.back /\ SnoopTypes' /\ UNCHANGED <<sn.same, sn.refresh>>
  BY <1>1, <1>2 DEF SnoopTypes
<1>4. Place' = Place /\ event'.continue = event.continue
  BY <1>1, <1>2, <1>3 DEF Place, HandingOver, IInv, Types
<1>5. mutex' \in {"snooper", "main", "free"}
  BY <1>2 DEF Inv, RestTypes
<1> QED BY <1>1, <1>2, <1>3, <1>4, <1>5, OnlySnooperMoves

LEMMA TakeDataBackKeeps == ASSUME Inv, TakeDataBack PROVE Inv'
<1>1. IInv' /\ SnoopTypes /\ IInv
  BY SnooperKeeps DEF SnooperStep, Inv
<1>2. /\ sn' = [sn EXCEPT !.pc = sn.back] /\ sn.pc = "taking"
      /\ UNCHANGED <<main, need, handsOff, suspended, events, watched, signal, msgs, smTimer, dirty>>
      /\ mutex' = "snooper"
  BY DEF TakeDataBack, SnooperAt, SnooperGoes, env
<1>3. sn'.pc = sn.back /\ sn.back \in Waiting /\ SnoopTypes' /\ UNCHANGED <<sn.same, sn.refresh>>
  BY <1>1, <1>2 DEF SnoopTypes
<1>4. Place' = Place /\ sn'.pc # "rearming"
  BY <1>2, <1>3 DEF Place, HandingOver, Waiting
<1>5. main.pc # "ending"
  BY <1>1, <1>2 DEF IInv, Protocol, Returned, HandingOver
<1> QED BY <1>1, <1>2, <1>3, <1>4, <1>5, OnlySnooperMoves

LEMMA StopIgnoringKeeps == ASSUME Inv, StopIgnoring PROVE Inv'
<1>1. IInv' /\ SnoopTypes /\ IInv
  BY SnooperKeeps DEF SnooperStep, Inv
<1>2. /\ sn' = [sn EXCEPT !.ignore = FALSE] /\ sn.pc \in {"watching", "suspended"}
      /\ UNCHANGED <<main, need, handsOff, suspended, events, watched, signal, msgs, smTimer, dirty>>
      /\ UNCHANGED <<mutex, event>>
  BY DEF StopIgnoring, env
<1>3. sn'.pc = sn.pc /\ sn'.back = sn.back /\ SnoopTypes' /\ UNCHANGED <<sn.same, sn.refresh>>
  BY <1>1, <1>2 DEF SnoopTypes
<1>4. Place' = Place
  BY <1>3 DEF Place, HandingOver
<1>5. mutex' \in {"snooper", "main", "free"}
  BY <1>2 DEF Inv, RestTypes
<1> QED BY <1>1, <1>2, <1>3, <1>4, <1>5, OnlySnooperMoves

LEMMA BeginSuspendKeeps == ASSUME Inv, BeginSuspend PROVE Inv'
<1>1. IInv' /\ SnoopTypes /\ IInv /\ SnooperRemembers
  BY SnooperKeeps DEF SnooperStep, Inv
<1>2. /\ sn' = [sn EXCEPT !.pc = "suspended", !.refresh = {}] /\ sn.pc = "watching" /\ event.begin
      /\ UNCHANGED <<main, need, handsOff, suspended, events, watched, signal, msgs, smTimer, dirty>>
      /\ UNCHANGED mutex
  BY DEF BeginSuspend, SnooperAt, env
<1>3. Place = "watching" /\ sn.refresh = {}
  BY <1>1, <1>2 DEF Place, HandingOver, SnooperRemembers
<1>4. sn'.pc = "suspended" /\ SnoopTypes' /\ UNCHANGED <<sn.same, sn.refresh>>
  BY <1>1, <1>2, <1>3 DEF SnoopTypes, Waiting
<1>5. Place' = "suspended" /\ main.pc # "ending"
  BY <1>1, <1>2, <1>4 DEF Place, HandingOver, IInv, Orders
<1>6. mutex' \in {"snooper", "main", "free"}
  BY <1>2 DEF Inv, RestTypes
<1> QED BY <1>1, <1>2, <1>3, <1>4, <1>5, <1>6, OnlySnooperMoves

LEMMA EndSuspendKeeps == ASSUME Inv, EndSuspend PROVE Inv'
<1>1. IInv' /\ SnoopTypes /\ IInv
  BY SnooperKeeps DEF SnooperStep, Inv
<1>2. /\ sn' = [sn EXCEPT !.pc = "resuming"] /\ sn.pc = "suspended"
      /\ UNCHANGED <<main, need, handsOff, suspended, events, watched, signal, msgs, smTimer, dirty>>
      /\ UNCHANGED mutex
  BY DEF EndSuspend, SnooperAt, SnooperGoes, env
<1>3. sn'.pc = "resuming" /\ SnoopTypes' /\ UNCHANGED <<sn.same, sn.refresh>>
  BY <1>1, <1>2 DEF SnoopTypes
<1>4. Place = "suspended" /\ Place' = "resuming"
  BY <1>2, <1>3 DEF Place, HandingOver
<1>5. mutex' \in {"snooper", "main", "free"}
  BY <1>2 DEF Inv, RestTypes
<1> QED BY <1>1, <1>2, <1>3, <1>4, <1>5, OnlySnooperMoves

\* what remains to be proved of a step of the snooper thread: what it knows, what
\* it has signalled, and what is to come
LEMMA SnooperStepIsFine ==
    ASSUME Inv, UNCHANGED <<main, need, handsOff, suspended, events, mutex, smTimer, dirty>>,
           IInv', SnoopTypes', WatchTypes', msgs' \in Seq(Messages), SnooperRemembers', AllCome',
           UNCHANGED event \/ main.pc # "ending", sn.pc # "resuming",
           \A p \in Panels : Registered(p) => Registered(p)',
           \A p \in Panels : watched[p] = None => watched'[p] = None
    PROVE  Inv'
<1>1. TodoIsFine' /\ MainTypes' /\ Counted'
  BY SnooperFrame
<1>2. RestTypes'
  BY DEF Inv, RestTypes
<1>3. MainKnows'
  <2>1. main.todo # <<>> => main.todo[1].panel \in Panels
    BY TodoFacts
  <2> QED BY <2>1 DEF Inv, MainKnows
<1>4. NeedIsServed'
  BY DEF Inv, NeedIsServed, HasNeed, Busy
<1> QED BY <1>1, <1>2, <1>3, <1>4 DEF Inv

LEMMA NoticeChangeKeeps == ASSUME Inv, NEW p \in Panels, NoticeChange(p) PROVE Inv'
<1> DEFINE m == [panel |-> p, msg |-> "refresh", finish |-> TRUE, newer |-> TRUE]
<1>1. IInv' /\ SnoopTypes /\ IInv /\ SnooperRemembers /\ WatchTypes /\ msgs \in Seq(Messages)
  BY SnooperKeeps DEF SnooperStep, Inv
<1>2. /\ sn' = [sn EXCEPT !.pc = "rearming", !.panel = p, !.same = SameHandle(p)]
      /\ sn.pc = "watching" /\ Signalled(p) /\ msgs' = Append(msgs, m)
      /\ UNCHANGED <<main, need, handsOff, suspended, events, watched, signal, mutex, smTimer,
                     dirty, event>>
  BY DEF NoticeChange, SnooperAt, env
<1>3. m \in Messages /\ IsNewer(m, p)
  BY DEF Messages, IsNewer
<1> HIDE DEF m
<1>4. /\ msgs' \in Seq(Messages) /\ HasMessage(p)'
      /\ \A q : HasMessage(q) => HasMessage(q)'
  BY <1>1, <1>2, <1>3, AppendMessage
<1>5. Place = "watching" /\ sn.same = None /\ sn.refresh = {}
  BY <1>1, <1>2 DEF Place, HandingOver, SnooperRemembers
<1>6. /\ \A q \in Others(p) : watched[q] # None => SameHandle(p) = watched[q]
      /\ SameHandle(p) \in Handles \union {None}
  <2>1. CASE \E q \in Others(p) : watched[q] # None
    <3>1. PICK r \in Others(p) : r = CHOOSE q \in Others(p) : watched[q] # None
      BY <2>1
    <3>2. SameHandle(p) = watched[r] /\ r \in Panels /\ SamePath /\ r # p
      BY <2>1, <3>1 DEF SameHandle, Others
    <3>3. \A q \in Others(p) : q = r
      BY <3>1, <3>2, SnooperAssumption DEF Others
    <3> QED BY <3>2, <3>3, <1>1 DEF WatchTypes
  <2>2. CASE ~\E q \in Others(p) : watched[q] # None
    BY <2>2 DEF SameHandle
  <2> QED BY <2>1, <2>2
<1>7. sn'.pc = "rearming" /\ sn'.panel = p /\ sn'.same = SameHandle(p) /\ sn'.refresh = {}
  BY <1>1, <1>2, <1>5 DEF SnoopTypes
<1>8. SnoopTypes'
  BY <1>1, <1>2, <1>6 DEF SnoopTypes
<1>9. SnooperRemembers'
  <2>1. Place' = "rearming" /\ watched'[p] # None /\ OnItsWay(p)'
    BY <1>2, <1>4, <1>7 DEF Place, HandingOver, OnItsWay, Signalled
  <2> QED BY <2>1, <1>2, <1>6, <1>7 DEF SnooperRemembers, Others
<1>10. AllCome'
  <2> SUFFICES ASSUME NEW q \in Panels, q \in dirty \/ watched[q] = None PROVE Comes(q)'
    BY <1>2 DEF AllCome
  <2>1. Comes(q)
    BY DEF Inv, AllCome
  <2> QED BY <2>1, <1>2, <1>4, <1>5 DEF Comes, Signalled, HasNeed, Lists, Posts, InTodo
<1>11. WatchTypes' /\ \A q \in Panels : Registered(q) => Registered(q)'
  BY <1>1, <1>2, <1>4, <1>5 DEF WatchTypes, Registered
<1> QED BY <1>1, <1>2, <1>4, <1>8, <1>9, <1>10, <1>11, SnooperStepIsFine

LEMMA FindNextChangeKeeps == ASSUME Inv, FindNextChange PROVE Inv'
<1>1. IInv' /\ SnoopTypes /\ IInv /\ SnooperRemembers /\ WatchTypes /\ msgs \in Seq(Messages)
  BY SnooperKeeps DEF SnooperStep, Inv
<1>2. PICK p : p = sn.panel
  OBVIOUS
<1>3. /\ sn' = [sn EXCEPT !.pc = "refreshing", !.panel = None] /\ sn.pc = "rearming"
      /\ signal' \in Clears(p, [signal EXCEPT ![watched[p]] = Rearmed(@)])
      /\ UNCHANGED <<main, need, handsOff, suspended, events, watched, msgs, mutex, smTimer,
                     dirty, event>>
  BY <1>2 DEF FindNextChange, SnooperAt, env
<1>4. /\ p \in Panels /\ watched[p] # None /\ OnItsWay(p)
      /\ \A q \in Others(p) : watched[q] # None => sn.same = watched[q]
      /\ sn.refresh = {}
  BY <1>1, <1>2, <1>3 DEF SnooperRemembers, Place, HandingOver
<1>5. sn'.pc = "refreshing" /\ sn'.same = sn.same /\ sn'.refresh = {} /\ SnoopTypes'
  BY <1>1, <1>3, <1>4 DEF SnoopTypes, Waiting
<1>6. SnooperRemembers'
  BY <1>5 DEF SnooperRemembers, Place, HandingOver
<1>7. /\ signal' \in [Handles -> {"no", "yes", "more"}]
      /\ \A h \in Handles : signal'[h] # "no" => signal[h] # "no"
      /\ \A h \in Handles : h # watched[p] /\ signal'[h] # signal[h] =>
            \E q \in Others(p) : watched[q] = h
  <2>1. watched[p] \in Handles /\ signal \in [Handles -> {"no", "yes", "more"}]
    BY <1>1, <1>4 DEF WatchTypes
  <2> DEFINE s == [signal EXCEPT ![watched[p]] = Rearmed(@)]
  <2>2. /\ s \in [Handles -> {"no", "yes", "more"}]
        /\ \A h \in Handles : s[h] # "no" => signal[h] # "no"
        /\ \A h \in Handles : h # watched[p] => s[h] = signal[h]
    BY <2>1 DEF Rearmed
  <2>3. signal' \in Clears(p, s)
    BY <1>3
  <2> HIDE DEF s
  <2>4. \/ signal' = s
        \/ signal' = [h \in Handles |-> IF \E q \in Others(p) : watched[q] = h THEN "no" ELSE s[h]]
    BY <2>3 DEF Clears
  <2> QED BY <2>2, <2>4
<1>8. WatchTypes'
  BY <1>1, <1>3, <1>7 DEF WatchTypes
<1>9. AllCome'
  <2> SUFFICES ASSUME NEW q \in Panels, q \in dirty \/ watched[q] = None PROVE Comes(q)'
    BY <1>3 DEF AllCome
  <2>1. Comes(q) /\ watched[q] \in Handles \union {None}
    BY <1>1 DEF Inv, AllCome, WatchTypes
  <2>2. OnItsWay(q) => Comes(q)'
    BY <1>3 DEF OnItsWay, Comes, HasMessage, IsNewer, HasNeed, Lists, Posts, Afresh, InTodo
  <2>3. ~Signalled(q) => Comes(q)'
    BY <2>1, <1>3, <1>4, <1>5
    DEF Comes, HasMessage, IsNewer, HasNeed, Lists, Posts, InTodo
  <2>4. ASSUME Signalled(q), q # p PROVE Comes(q)'
    <3>1. watched[q] # None /\ watched[q] # watched[p] /\ watched[q] \in Handles
      BY <2>1, <2>4, <1>1, <1>4 DEF Signalled, WatchTypes
    <3>2. CASE signal'[watched[q]] = signal[watched[q]]
      BY <3>2, <2>4, <1>3 DEF Comes, Signalled
    <3>3. CASE signal'[watched[q]] # signal[watched[q]]
      <4>1. PICK r \in Others(p) : watched[r] = watched[q]
        BY <3>1, <3>3, <1>7
      <4>2. sn.same = watched[q]
        BY <4>1, <3>1, <1>4
      <4> QED BY <4>2, <3>1, <1>3, <1>5 DEF Comes
    <3> QED BY <3>2, <3>3
  <2> QED BY <2>2, <2>3, <2>4, <1>4
<1>10. \A q \in Panels : Registered(q) => Registered(q)'
  BY <1>3, <1>4, <1>5 DEF Registered, HasMessage, IsNewer
<1> QED BY <1>1, <1>3, <1>5, <1>6, <1>8, <1>9, <1>10, SnooperStepIsFine

LEMMA EndRefreshWaitKeeps ==
    ASSUME Inv, NEW e \in EndingRefreshWait, EndRefreshWait(e)
    PROVE  Inv'
<1>1. IInv' /\ SnoopTypes /\ IInv /\ SnooperRemembers /\ WatchTypes /\ msgs \in Seq(Messages)
  BY SnooperKeeps DEF SnooperStep, Inv
<1>2. /\ sn.pc = "refreshing" /\ event[e]
      /\ \/ e = "finished" /\ event' = [event EXCEPT ![e] = FALSE]
         \/ e = "begin" /\ UNCHANGED event
      /\ UNCHANGED <<main, need, handsOff, suspended, events, watched, mutex, smTimer, dirty>>
  BY DEF EndRefreshWait, SnooperAt, Reset, env
<1>3. UNCHANGED event \/ event'.continue = event.continue
  BY <1>1, <1>2 DEF IInv, Types
<1>4. sn.refresh = {}
  BY <1>1, <1>2 DEF SnooperRemembers, Place, HandingOver
<1>5. CASE \E q \in Panels : sn.same # None /\ watched[q] = sn.same
  <2>1. PICK q \in Panels :
           /\ watched[q] = sn.same
           /\ msgs' = Append(msgs, [panel |-> q, msg |-> "refresh", finish |-> TRUE, newer |-> TRUE])
           /\ signal' = [signal EXCEPT ![sn.same] = Rearmed(@)]
           /\ sn' = [sn EXCEPT !.same = None]
    BY <1>5 DEF EndRefreshWait
  <2> DEFINE m == [panel |-> q, msg |-> "refresh", finish |-> TRUE, newer |-> TRUE]
  <2>2. m \in Messages /\ IsNewer(m, q) /\ msgs' = Append(msgs, m)
    BY <2>1 DEF Messages, IsNewer
  <2> HIDE DEF m
  <2>3. /\ msgs' \in Seq(Messages) /\ HasMessage(q)'
        /\ \A r : HasMessage(r) => HasMessage(r)'
    BY <1>1, <2>2, AppendMessage
  <2>4. sn'.pc = "refreshing" /\ sn'.same = None /\ sn'.refresh = {} /\ SnoopTypes'
    BY <1>1, <1>2, <1>4, <2>1 DEF SnoopTypes
  <2>5. SnooperRemembers'
    BY <2>4 DEF SnooperRemembers, Place, HandingOver
  <2>6. /\ signal' \in [Handles -> {"no", "yes", "more"}]
        /\ \A h \in Handles : signal'[h] # "no" => signal[h] # "no"
        /\ \A h \in Handles : h # watched[q] => signal'[h] = signal[h]
    BY <1>1, <1>5, <2>1 DEF WatchTypes, SnoopTypes, Rearmed
  <2>7. WatchTypes'
    BY <1>1, <1>2, <2>6 DEF WatchTypes
  <2>8. AllCome'
    <3> SUFFICES ASSUME NEW r \in Panels, r \in dirty \/ watched[r] = None PROVE Comes(r)'
      BY <1>2 DEF AllCome
    <3>1. Comes(r)
      BY DEF Inv, AllCome
    <3>2. r # q /\ watched[r] # None =>
            watched[r] \in Handles /\ watched[r] # watched[q] /\ signal'[watched[r]] = signal[watched[r]]
      BY <1>1, <2>6 DEF WatchTypes
    <3>3. CASE r = q
      BY <3>3, <2>3 DEF Comes
    <3>4. CASE r # q
      BY <3>1, <3>2, <3>4, <1>2, <1>4, <2>1, <2>3
      DEF Comes, Signalled, HasNeed, Lists, Posts, InTodo
    <3> QED BY <3>3, <3>4
  <2>9. \A r \in Panels : Registered(r) => Registered(r)'
    BY <1>2, <1>4, <2>3, <2>4 DEF Registered
  <2>10. Inv'
    <3>1. NeedIsServed' /\ RestTypes' /\ TodoIsFine' /\ MainTypes' /\ Counted'
      BY <1>2, <1>3, <2>4, SnooperFrame DEF Inv, RestTypes, NeedIsServed, HasNeed, Busy
    <3>2. MainKnows'
      <4>1. main.todo # <<>> => main.todo[1].panel \in Panels
        BY TodoFacts
      <4> QED BY <4>1, <1>2, <2>9 DEF Inv, MainKnows
    <3> QED BY <3>1, <3>2, <1>1, <2>3, <2>4, <2>5, <2>7, <2>8 DEF Inv
  <2> QED BY <2>10
<1>6. CASE ~\E q \in Panels : sn.same # None /\ watched[q] = sn.same
  <2>1. /\ sn' = [sn EXCEPT !.same = None, !.ignore = TRUE, !.pc = "watching"]
        /\ UNCHANGED <<signal, msgs>>
    BY <1>6 DEF EndRefreshWait
  <2>2. sn'.pc = "watching" /\ sn'.same = None /\ sn'.refresh = {} /\ SnoopTypes'
    BY <1>1, <1>4, <2>1 DEF SnoopTypes, Waiting
  <2>3. SnooperRemembers'
    BY <2>2 DEF SnooperRemembers, Place, HandingOver
  <2>4. WatchTypes' /\ msgs' \in Seq(Messages)
    BY <1>1, <1>2, <2>1 DEF WatchTypes
  <2>5. AllCome'
    <3> SUFFICES ASSUME NEW r \in Panels, r \in dirty \/ watched[r] = None PROVE Comes(r)'
      BY <1>2 DEF AllCome
    <3>1. Comes(r)
      BY DEF Inv, AllCome
    <3> QED
      BY <3>1, <1>2, <1>4, <1>6, <2>1 DEF Comes, Signalled, HasMessage, IsNewer, HasNeed, Lists, Posts, InTodo
  <2>6. \A r \in Panels : Registered(r) => Registered(r)'
    BY <1>2, <1>4, <2>1, <2>2 DEF Registered, HasMessage, IsNewer
  <2>7. NeedIsServed' /\ RestTypes' /\ TodoIsFine' /\ MainTypes' /\ Counted'
    BY <1>2, <1>3, <2>2, SnooperFrame DEF Inv, RestTypes, NeedIsServed, HasNeed, Busy
  <2>8. MainKnows'
    <3>1. main.todo # <<>> => main.todo[1].panel \in Panels
      BY TodoFacts
    <3> QED BY <3>1, <1>2, <2>6 DEF Inv, MainKnows
  <2> QED BY <1>1, <2>2, <2>3, <2>4, <2>5, <2>7, <2>8 DEF Inv
<1> QED BY <1>5, <1>6

LEMMA NoticeSuspendedKeeps == ASSUME Inv, NEW p \in Panels, NoticeSuspended(p) PROVE Inv'
<1>1. IInv' /\ SnoopTypes /\ IInv /\ SnooperRemembers /\ WatchTypes /\ msgs \in Seq(Messages)
  BY SnooperKeeps DEF SnooperStep, Inv
<1> DEFINE C == ClosedWith(p)
<1>2. /\ sn.pc = "suspended" /\ Signalled(p) /\ sn' = [sn EXCEPT !.refresh = @ \union C]
      /\ watched' = [q \in Panels |-> IF q \in C THEN None ELSE watched[q]]
      /\ UNCHANGED <<main, need, handsOff, suspended, events, msgs, mutex, smTimer, dirty, event>>
  BY DEF NoticeSuspended, SnooperAt, env
<1>3. PICK s \in Clears(p, signal) :
        signal' = [h \in Handles |-> IF \E q \in Panels : watched'[q] = h THEN s[h] ELSE "no"]
  BY DEF NoticeSuspended
<1>4. PICK c : c = C
  OBVIOUS
<1>5. /\ c \subseteq Panels /\ p \in c
      /\ \A q \in Others(p) : watched[q] # None => q \in c
  BY <1>4 DEF ClosedWith, Others
<1> HIDE DEF C
<1>6. sn.same = None /\ sn'.same = None /\ sn'.pc = "suspended" /\ sn'.refresh = sn.refresh \union c
      /\ SnoopTypes'
  BY <1>1, <1>2, <1>4, <1>5 DEF SnoopTypes, SnooperRemembers, Place, HandingOver, Waiting
<1>7. SnooperRemembers'
  BY <1>6 DEF SnooperRemembers, Place, HandingOver
<1>8. /\ \A q \in Panels : q \in c => watched'[q] = None
      /\ \A q \in Panels : q \notin c => watched'[q] = watched[q]
      /\ watched' \in [Panels -> Handles \union {None}]
  BY <1>1, <1>2, <1>4 DEF WatchTypes
<1>9. /\ s \in [Handles -> {"no", "yes", "more"}]
      /\ \A h \in Handles : s[h] # signal[h] => \E q \in Others(p) : watched[q] = h
  BY <1>1, <1>3 DEF Clears, WatchTypes
<1>10. WatchTypes'
  <2>1. signal' \in [Handles -> {"no", "yes", "more"}]
    BY <1>3, <1>9
  <2>2. \A h \in Handles : signal'[h] # "no" => \E q \in Panels : watched'[q] = h
    BY <1>3
  <2>3. \A q, r \in Panels : watched'[q] = watched'[r] => q = r \/ watched'[q] = None
    BY <1>1, <1>8 DEF WatchTypes
  <2> QED BY <1>8, <2>1, <2>2, <2>3 DEF WatchTypes
<1>11. AllCome'
  <2> SUFFICES ASSUME NEW q \in Panels, q \in dirty \/ watched'[q] = None PROVE Comes(q)'
    BY <1>2 DEF AllCome
  <2>1. CASE q \in c
    BY <2>1, <1>6 DEF Comes
  <2>2. CASE q \notin c
    <3>1. watched'[q] = watched[q] /\ Comes(q)
      BY <2>2, <1>2, <1>8 DEF Inv, AllCome
    <3>2. ASSUME Signalled(q) PROVE Signalled(q)'
      <4>1. watched[q] # None /\ watched[q] \in Handles /\ signal[watched[q]] # "no"
        BY <3>2, <1>1 DEF Signalled, WatchTypes
      <4>2. s[watched[q]] = signal[watched[q]]
        <5> SUFFICES ASSUME NEW r \in Others(p), watched[r] = watched[q] PROVE FALSE
          BY <4>1, <1>9
        <5>1. r \in Panels /\ r \in c
          BY <4>1, <1>5 DEF Others
        <5> QED BY <5>1, <4>1, <2>2, <1>1 DEF WatchTypes
      <4>3. signal'[watched[q]] = s[watched[q]]
        BY <4>1, <3>1, <1>3
      <4> QED BY <4>1, <4>2, <4>3, <3>1 DEF Signalled
    <3> QED
      BY <3>1, <3>2, <1>2, <1>6 DEF Comes, HasMessage, IsNewer, HasNeed, Lists, Posts, InTodo
  <2> QED BY <2>1, <2>2
<1>12. \A q \in Panels : Registered(q) => Registered(q)'
  BY <1>2, <1>6, <1>8 DEF Registered, HasMessage, IsNewer
<1>13. \A q \in Panels : watched[q] = None => watched'[q] = None
  BY <1>8
<1> QED BY <1>1, <1>2, <1>6, <1>7, <1>10, <1>11, <1>12, <1>13, SnooperStepIsFine

\* the messages for the panels that changed in suspend mode
LEMMA SuspendedMessages ==
    ASSUME NEW S \in SUBSET Panels
    PROVE  /\ SuspendedRefreshes(S) \in Seq(Messages)
           /\ \A p \in S : \E i \in DOMAIN SuspendedRefreshes(S) :
                                IsNewer(SuspendedRefreshes(S)[i], p)
<1> DEFINE n == Cardinality(S)
           f == SetToSeq(S)
           r == [i \in 1..n |->
                    [panel |-> f[i], msg |-> "s_refresh", finish |-> FALSE, newer |-> TRUE]]
<1>1. IsFiniteSet(S) /\ n \in Nat /\ ExistsBijection(1..n, S)
  BY FS_Subset, FS_CardinalityType, SnooperAssumption
<1>2. f \in [1..n -> S] /\ IsInjective(f)
  <2>1. PICK g : g \in Bijection(1..n, S)
    BY <1>1 DEF ExistsBijection
  <2>2. g \in [1..n -> S] /\ IsInjective(g)
    BY <2>1 DEF Bijection, Injection
  <2> QED BY <2>2 DEF SetToSeq
<1>3. \A p \in S : \E i \in 1..n : f[i] = p
  <2>1. IsFiniteSet(1..n) /\ Cardinality(1..n) = n
    BY <1>1, FS_Interval
  <2>2. f \in Injection(1..n, S)
    BY <1>2 DEF Injection
  <2>3. f \in Surjection(1..n, S)
    BY <1>1, <2>1, <2>2, FS_Injection
  <2> QED BY <2>3 DEF Surjection
<1>4. r = SuspendedRefreshes(S)
  BY DEF SuspendedRefreshes
<1> HIDE DEF n, f
<1>5. \A i \in 1..n : r[i] \in Messages /\ IsNewer(r[i], f[i])
  BY <1>2 DEF Messages, IsNewer
<1>6. r \in [1..n -> Messages] /\ DOMAIN r = 1..n
  BY <1>5
<1> HIDE DEF r
<1>7. r \in Seq(Messages)
  BY <1>1, <1>6
<1>8. \A p \in S : \E i \in DOMAIN r : IsNewer(r[i], p)
  BY <1>3, <1>5, <1>6
<1> QED BY <1>4, <1>7, <1>8

LEMMA PostAfterSuspendKeeps == ASSUME Inv, PostAfterSuspend PROVE Inv'
<1>1. IInv' /\ SnoopTypes /\ IInv /\ SnooperRemembers /\ WatchTypes /\ msgs \in Seq(Messages)
  BY SnooperKeeps DEF SnooperStep, Inv
<1>2. PICK S : S = sn.refresh
  OBVIOUS
<1>3. /\ sn.pc = "resuming" /\ msgs' = msgs \o SuspendedRefreshes(S) /\ smTimer' = Panels
      /\ sn' = [sn EXCEPT !.pc = "watching", !.ignore = @ \/ S # {}, !.refresh = {}]
      /\ UNCHANGED <<main, need, handsOff, suspended, events, watched, signal, mutex, dirty, event>>
  BY <1>2 DEF PostAfterSuspend, SnooperAt, env
<1>4. S \subseteq Panels
  BY <1>1, <1>2 DEF SnoopTypes
<1>5. /\ msgs' \in Seq(Messages)
      /\ \A p : HasMessage(p) \/ p \in S => HasMessage(p)'
  <2>1. PICK t \in Seq(Messages) : t = SuspendedRefreshes(S)
    BY <1>4, SuspendedMessages
  <2>2. \A p \in S : \E i \in DOMAIN t : IsNewer(t[i], p)
    BY <1>4, <2>1, SuspendedMessages
  <2> QED BY <1>1, <1>3, <2>1, <2>2, ConcatMessages
<1>6. sn.same = None /\ sn'.same = None /\ sn'.pc = "watching" /\ sn'.refresh = {}
  BY <1>1, <1>3 DEF SnoopTypes, SnooperRemembers, Place, HandingOver, Waiting
<1>7. SnoopTypes'
  <2>1. sn.ignore \in BOOLEAN
    BY <1>1 DEF SnoopTypes
  <2>2. PICK b \in BOOLEAN : b = (sn.ignore \/ S # {})
    BY <2>1
  <2>3. sn' = [sn EXCEPT !.pc = "watching", !.ignore = b, !.refresh = {}]
    BY <1>3, <2>1, <2>2
  <2> QED BY <1>1, <2>3 DEF SnoopTypes, Waiting
<1>8. SnooperRemembers'
  BY <1>6 DEF SnooperRemembers, Place, HandingOver
<1>9. WatchTypes' /\ RestTypes'
  BY <1>1, <1>3 DEF WatchTypes, Inv, RestTypes
<1>10. TodoIsFine' /\ MainTypes' /\ Counted'
  BY <1>3, SnooperFrame
<1>11. \A p \in Panels : Registered(p) => Registered(p)'
  BY <1>2, <1>3, <1>5 DEF Registered
<1>12. MainKnows'
  <2>1. main.todo # <<>> => main.todo[1].panel \in Panels
    BY TodoFacts
  <2> QED BY <2>1, <1>3, <1>11 DEF Inv, MainKnows
<1>13. NeedIsServed'
  BY <1>3 DEF NeedIsServed
<1>14. AllCome'
  <2> SUFFICES ASSUME NEW p \in Panels, p \in dirty \/ watched[p] = None PROVE Comes(p)'
    BY <1>3 DEF AllCome
  <2>1. Comes(p)
    BY DEF Inv, AllCome
  <2> QED
    BY <2>1, <1>2, <1>3, <1>5, <1>6 DEF Comes, Signalled, HasNeed, Lists, Posts, InTodo
<1> QED BY <1>1, <1>5, <1>7, <1>8, <1>9, <1>10, <1>12, <1>13, <1>14 DEF Inv

LEMMA SnooperKeepsInv == ASSUME Inv, SnooperStep PROVE Inv'
BY GiveDataKeeps, SeeDataTakenKeeps, TakeDataBackKeeps, FindNextChangeKeeps, NoticeChangeKeeps,
   NoticeSuspendedKeeps, EndRefreshWaitKeeps, StopIgnoringKeeps, BeginSuspendKeeps,
   EndSuspendKeeps, PostAfterSuspendKeeps DEF SnooperStep

-----------------------------------------------------------------------------
(* The main thread keeps the invariant *)

\* what remains to be proved when the main thread is done with a step
LEMMA StepDoneIsFine ==
    ASSUME Inv, IInv', main.todo # <<>>, StepDone,
           UNCHANGED <<watched, signal, sn, handsOff, suspended, events>>,
           RestTypes', msgs' \in Seq(Messages), NeedIsServed', AllCome',
           main.todo[1].do = "stamp" \/ \A p \in Panels : HasNeed(p) => HasNeed(p)',
           main.todo[1].do = "add" =>
               main.pc = "waiting" /\ \A p \in Panels : Registered(p) => Registered(p)',
           sn.pc = "rearming" => OnItsWay(sn.panel)'
    PROVE  Inv'
<1>1. TodoIsFine'
  BY StepDoneKeeps
<1>2. /\ main'.pc = "running" /\ MainTypes'
      /\ DOMAIN main'.todo = 1..(Len(main.todo) - 1)
      /\ \A i \in DOMAIN main'.todo : main'.todo[i] = main.todo[i + 1] /\ i + 1 \in DOMAIN main.todo
  BY FirstDone
<1>3. /\ Len(main.todo) \in Nat /\ main'.todo \in Seq(Steps)
      /\ \A i \in DOMAIN main.todo : main.todo[i].panel \in Panels
      /\ TodoIsFine /\ MainKnows
  BY TodoFacts, <1>2 DEF MainTypes, Inv
<1>4. SnooperRemembers'
  BY DEF Inv, SnooperRemembers, Place, HandingOver, Others
<1>5. Counted'
  BY <1>2, <1>3 DEF Inv, Counted, RestTypes, MainKnows
<1>6. MainKnows'
  <2>1. ASSUME main'.todo # <<>>, main'.todo[1].do = "list" PROVE Registered(main.todo[1].panel)'
    <3>1. 1 \in DOMAIN main'.todo
      BY <1>3, <2>1
    <3>2. main'.todo[1] = main.todo[2] /\ 2 \in DOMAIN main.todo
      BY <1>2, <3>1
    <3>3. StepIsFine(2)
      BY <1>3, <3>2 DEF TodoIsFine
    <3>4. InTodo("add", main.todo[2].panel, 2 - 1)
      BY <3>2, <3>3, <2>1 DEF StepIsFine
    <3>5. main.todo[1].do = "add" /\ main.todo[1].panel = main.todo[2].panel
      BY <3>4 DEF InTodo
    <3>6. Registered(main.todo[2].panel)
      BY <1>3, <3>5 DEF MainKnows
    <3>7. PICK p \in Panels : p = main.todo[2].panel
      BY <3>2, <1>3
    <3>8. Registered(p)'
      BY <3>5, <3>6, <3>7
    <3>9. main'.todo[1].panel = p
      BY <3>2, <3>7
    <3> QED BY <3>8, <3>9 DEF Registered, HasMessage, IsNewer
  <2> QED BY <2>1, <1>2 DEF MainKnows
<1>7. WatchTypes' /\ SnoopTypes'
  BY DEF Inv, WatchTypes, SnoopTypes
<1> QED BY <1>1, <1>2, <1>4, <1>5, <1>6, <1>7 DEF Inv

LEMMA AskForDataKeeps == ASSUME Inv, AskForData PROVE Inv'
<1>1. IInv' /\ IInv /\ MainTypes /\ MainKnows
  BY MainKeeps DEF MainStep, Inv
<1>2. /\ main.pc = "running" /\ main.todo # <<>> /\ Step.do \in Arrays
      /\ main' = [main EXCEPT !.pc = "asking"]
      /\ UNCHANGED <<watched, signal, mutex, sn, msgs, smTimer, suspended, need, dirty, handsOff, events>>
  BY DEF AskForData, MainRuns, env
<1>3. main'.pc = "asking" /\ main'.todo = main.todo /\ MainTypes'
  BY <1>1, <1>2 DEF MainTypes
<1>4. main.todo[1].do \in Arrays
  BY <1>2, TodoFacts
<1>5. WatchTypes' /\ SnoopTypes' /\ RestTypes' /\ msgs' \in Seq(Messages)
  BY <1>2 DEF Inv, WatchTypes, SnoopTypes, RestTypes
<1>6. SnooperRemembers'
  <2>1. sn.pc = "rearming" => OnItsWay(sn.panel)'
    BY <1>2, <1>3
    DEF Inv, SnooperRemembers, OnItsWay, HasMessage, IsNewer, HasNeed, Posts, Afresh, InTodo
  <2> QED BY <2>1, <1>2 DEF Inv, SnooperRemembers, Place, HandingOver, Others
<1>7. TodoIsFine'
  BY <1>2, <1>3 DEF Inv, TodoIsFine, StepIsFine, InTodo, HasNeed
<1>8. MainKnows'
  BY <1>1, <1>2, <1>3, <1>4 DEF MainKnows, Registered, HasMessage, IsNewer
<1>9. NeedIsServed' /\ Counted'
  BY <1>2, <1>3 DEF Inv, NeedIsServed, HasNeed, Busy, Counted
<1>10. AllCome'
  BY <1>2, <1>3 DEF Inv, AllCome, Comes, Signalled, HasMessage, IsNewer, HasNeed, Lists, Posts, InTodo
<1> QED BY <1>1, <1>3, <1>5, <1>6, <1>7, <1>8, <1>9, <1>10 DEF Inv

LEMMA TakeDataKeeps == ASSUME Inv, TakeData PROVE Inv'
<1>1. IInv' /\ IInv /\ MainTypes /\ MainKnows
  BY MainKeeps DEF MainStep, Inv
<1>2. /\ main.pc = "asking" /\ mutex' = "main" /\ main' = [main EXCEPT !.pc = "changing"]
      /\ UNCHANGED <<watched, signal, sn, msgs, smTimer, suspended, need, dirty, handsOff, events>>
  BY DEF TakeData, env
<1>3. main'.pc = "changing" /\ main'.todo = main.todo /\ MainTypes'
  BY <1>1, <1>2 DEF MainTypes
<1>4. main.todo # <<>> /\ main.todo[1].do \in Arrays
  BY <1>1, <1>2 DEF MainKnows
<1>5. WatchTypes' /\ SnoopTypes' /\ RestTypes' /\ msgs' \in Seq(Messages)
  BY <1>2 DEF Inv, WatchTypes, SnoopTypes, RestTypes
<1>6. SnooperRemembers'
  <2>1. sn.pc = "rearming" => OnItsWay(sn.panel)'
    BY <1>2, <1>3
    DEF Inv, SnooperRemembers, OnItsWay, HasMessage, IsNewer, HasNeed, Posts, Afresh, InTodo
  <2> QED BY <2>1, <1>2 DEF Inv, SnooperRemembers, Place, HandingOver, Others
<1>7. TodoIsFine'
  BY <1>2, <1>3 DEF Inv, TodoIsFine, StepIsFine, InTodo, HasNeed
<1>8. MainKnows'
  BY <1>1, <1>2, <1>3, <1>4 DEF MainKnows, Registered, HasMessage, IsNewer
<1>9. NeedIsServed' /\ Counted'
  BY <1>2, <1>3 DEF Inv, NeedIsServed, HasNeed, Busy, Counted
<1>10. AllCome'
  BY <1>2, <1>3 DEF Inv, AllCome, Comes, Signalled, HasMessage, IsNewer, HasNeed, Lists, Posts, InTodo
<1> QED BY <1>1, <1>3, <1>5, <1>6, <1>7, <1>8, <1>9, <1>10 DEF Inv

LEMMA ChangeDataKeeps == ASSUME Inv, ChangeData PROVE Inv'
<1>1. IInv' /\ IInv /\ MainTypes /\ MainKnows /\ WatchTypes
  BY MainKeeps DEF MainStep, Inv
<1>2. /\ main.todo # <<>> /\ Step = main.todo[1] /\ main.todo[1].do \in Arrays
      /\ main.todo[1].panel \in Panels /\ 1 \in DOMAIN main.todo
  BY <1>1, TodoFacts DEF MainKnows, ChangeData
<1>3. PICK p \in Panels : p = main.todo[1].panel
  BY <1>2
<1>4. PICK old : old = watched[p]
  OBVIOUS
<1>5. PICK h \in IF Step.do = "detach" THEN {None} ELSE Handles \ (Open \ {old}) :
         watched' = [watched EXCEPT ![p] = h]
  BY <1>2, <1>3, <1>4 DEF ChangeData
<1>6. /\ main.pc = "changing" /\ mutex' = "free" /\ main' = [main EXCEPT !.pc = "waiting"]
      /\ signal' = [g \in Handles |-> IF g \in {old, watched'[p]} THEN "no" ELSE signal[g]]
      /\ UNCHANGED <<event, sn, msgs, smTimer, suspended, need, dirty, handsOff, events>>
  BY <1>2, <1>3, <1>4 DEF ChangeData, Renewed, env
<1>7. main'.pc = "waiting" /\ main'.todo = main.todo /\ MainTypes'
  BY <1>1, <1>6 DEF MainTypes
<1>8. /\ watched'[p] = h /\ \A q \in Panels : q # p => watched'[q] = watched[q]
      /\ h \in Handles \union {None}
      /\ watched' \in [Panels -> Handles \union {None}]
      /\ \A q \in Panels : q # p /\ watched[q] # None => watched[q] # h /\ watched[q] # old
  BY <1>1, <1>4, <1>5 DEF WatchTypes, Open
<1>9. WatchTypes'
  <2>1. signal' \in [Handles -> {"no", "yes", "more"}]
    BY <1>1, <1>6 DEF WatchTypes
  <2>2. \A q, r \in Panels : watched'[q] = watched'[r] => q = r \/ watched'[q] = None
    BY <1>1, <1>8 DEF WatchTypes
  <2>3. \A g \in Handles : signal'[g] # "no" => \E q \in Panels : watched'[q] = g
    <3> SUFFICES ASSUME NEW g \in Handles, signal'[g] # "no" PROVE \E q \in Panels : watched'[q] = g
      OBVIOUS
    <3>1. g # old /\ signal[g] # "no"
      BY <1>6
    <3>2. PICK q \in Panels : watched[q] = g
      BY <3>1, <1>1 DEF WatchTypes
    <3>3. q # p
      BY <3>1, <3>2, <1>4
    <3> QED BY <3>2, <3>3, <1>8
  <2> QED BY <1>8, <2>1, <2>2, <2>3 DEF WatchTypes
<1>10. SnoopTypes' /\ RestTypes' /\ msgs' \in Seq(Messages)
  BY <1>6 DEF Inv, SnoopTypes, RestTypes
<1>11. SnooperRemembers'
  <2>1. sn.pc # "rearming"
    BY <1>1, <1>6 DEF IInv, Protocol, Taken
  <2> QED BY <2>1, <1>6 DEF Inv, SnooperRemembers, Place, HandingOver
<1>12. TodoIsFine'
  BY <1>6, <1>7 DEF Inv, TodoIsFine, StepIsFine, InTodo, HasNeed
<1>13. MainKnows'
  <2>1. main.todo[1].do # "detach" => watched'[p] # None
    BY <1>2, <1>5, <1>8, SnooperAssumption
  <2>2. main.todo[1].do = "detach" => watched'[p] = None
    BY <1>2, <1>5, <1>8
  <2> QED BY <2>1, <2>2, <1>2, <1>3, <1>7 DEF MainKnows, Registered, Arrays
<1>14. NeedIsServed' /\ Counted'
  BY <1>6, <1>7 DEF Inv, NeedIsServed, HasNeed, Busy, Counted
<1>15. AllCome'
  <2> SUFFICES ASSUME NEW q \in Panels, q \in dirty \/ watched'[q] = None PROVE Comes(q)'
    BY <1>6 DEF AllCome
  <2>1. CASE q = p
    <3>1. StepIsFine(1)
      BY <1>2 DEF Inv, TodoIsFine
    <3>2. Lists(p) \/ Posts(p) \/ p \in handsOff \/ HasNeed(p)
      BY <3>1, <1>2, <1>3 DEF StepIsFine, Lists, Posts
    <3> QED BY <2>1, <3>2, <1>6, <1>7 DEF Comes, Lists, Posts, InTodo, HasNeed
  <2>2. CASE q # p
    <3>1. watched'[q] = watched[q] /\ Comes(q)
      BY <2>2, <1>6, <1>8 DEF Inv, AllCome
    <3>2. Signalled(q) => Signalled(q)'
      BY <3>1, <2>2, <1>1, <1>6, <1>8 DEF Signalled, WatchTypes
    <3> QED
      BY <3>1, <3>2, <1>6, <1>7 DEF Comes, HasMessage, IsNewer, HasNeed, Lists, Posts, InTodo
  <2> QED BY <2>1, <2>2
<1> QED BY <1>1, <1>7, <1>9, <1>10, <1>11, <1>12, <1>13, <1>14, <1>15 DEF Inv

\* what is to come when a step is done that does not read a listing or post
LEMMA StillComes ==
    ASSUME Inv, main.todo # <<>>, StepDone, main.todo[1].do \notin {"list", "post"},
           UNCHANGED <<watched, signal, sn, msgs, handsOff, need>>,
           NEW p \in Panels, Comes(p)
    PROVE  Comes(p)'
<1>1. Lists(p) => Lists(p)'
  BY StepDoneKeeps DEF InTodo, HasNeed
<1>2. Posts(p) => Posts(p)'
  BY StepDoneKeeps DEF InTodo, HasNeed
<1> QED BY <1>1, <1>2 DEF Comes, Signalled, HasMessage, IsNewer, HasNeed

LEMMA DataReturnedKeeps == ASSUME Inv, DataReturned PROVE Inv'
<1>1. IInv' /\ IInv /\ MainKnows
  BY MainKeeps DEF MainStep, Inv
<1>2. /\ main.pc = "waiting" /\ event' = [event EXCEPT !.continue = FALSE] /\ StepDone
      /\ UNCHANGED <<watched, signal, mutex, sn, msgs, smTimer, suspended, need, dirty, handsOff, events>>
  BY DEF DataReturned, Reset, env
<1>3. main.todo # <<>> /\ main.todo[1].do \in Arrays
  BY <1>1, <1>2 DEF MainKnows
<1>4. RestTypes' /\ msgs' \in Seq(Messages)
  BY <1>2 DEF Inv, RestTypes
<1>5. NeedIsServed'
  <2>1. main'.pc = "running"
    BY <1>2, <1>3, FirstDone
  <2> QED BY <2>1, <1>2 DEF Inv, NeedIsServed, HasNeed, Busy
<1>6. AllCome'
  BY <1>2, <1>3, StillComes DEF Inv, AllCome, Arrays
<1>7. \A p \in Panels : (HasNeed(p) => HasNeed(p)') /\ (Registered(p) => Registered(p)')
  BY <1>2 DEF HasNeed, Registered, HasMessage, IsNewer
<1>8. sn.pc = "rearming" => OnItsWay(sn.panel)'
  <2> SUFFICES ASSUME sn.pc = "rearming" PROVE OnItsWay(sn.panel)'
    OBVIOUS
  <2>1. PICK p \in Panels : p = sn.panel
    BY DEF Inv, SnooperRemembers
  <2>2. OnItsWay(p) /\ watched[p] # None
    BY <2>1 DEF Inv, SnooperRemembers
  <2>3. ~InTodo("detach", p, 1)
    BY <1>1, <1>2, <1>3, <2>2 DEF InTodo, MainKnows
  <2>4. (Posts(p) => Posts(p)') /\ (Afresh(p) => Afresh(p)')
    BY <1>2, <1>3, <1>7, <2>3, StepDoneKeeps DEF InTodo, Arrays
  <2>5. OnItsWay(p)'
    BY <2>2, <2>4, <1>2 DEF OnItsWay, HasMessage, IsNewer, HasNeed
  <2> QED BY <2>1, <2>5, <1>2
<1> QED BY <1>1, <1>2, <1>3, <1>4, <1>5, <1>6, <1>7, <1>8, StepDoneIsFine

LEMMA RefreshFinishedKeeps == ASSUME Inv, RefreshFinished PROVE Inv'
<1>1. IInv' /\ IInv /\ MainKnows
  BY MainKeeps DEF MainStep, Inv
<1>2. /\ main.todo # <<>> /\ Step.do = "finished" /\ main.pc = "running" /\ StepDone
      /\ UNCHANGED <<watched, signal, mutex, sn, msgs, smTimer, suspended, need, dirty, handsOff, events>>
  BY DEF RefreshFinished, NextStep, MainRuns, env
<1>3. main.todo[1].do = "finished"
  BY <1>2, TodoFacts
<1>4. RestTypes' /\ msgs' \in Seq(Messages)
  BY <1>2 DEF Inv, RestTypes
<1>5. NeedIsServed'
  <2>1. main'.pc = "running"
    BY <1>2, FirstDone
  <2> QED BY <2>1, <1>2 DEF Inv, NeedIsServed, HasNeed, Busy
<1>6. AllCome'
  BY <1>2, <1>3, StillComes DEF Inv, AllCome
<1>7. \A p \in Panels : HasNeed(p) => HasNeed(p)'
  BY <1>2 DEF HasNeed
<1>8. sn.pc = "rearming" => OnItsWay(sn.panel)'
  <2> SUFFICES ASSUME sn.pc = "rearming" PROVE OnItsWay(sn.panel)'
    OBVIOUS
  <2>1. PICK p \in Panels : p = sn.panel
    BY DEF Inv, SnooperRemembers
  <2>2. OnItsWay(p)
    BY <2>1 DEF Inv, SnooperRemembers
  <2>3. (Posts(p) => Posts(p)') /\ (Afresh(p) => Afresh(p)')
    BY <1>2, <1>3, <1>7, StepDoneKeeps DEF InTodo
  <2>4. OnItsWay(p)'
    BY <2>2, <2>3, <1>2 DEF OnItsWay, HasMessage, IsNewer, HasNeed
  <2> QED BY <2>1, <2>4, <1>2
<1> QED BY <1>1, <1>2, <1>3, <1>4, <1>5, <1>6, <1>7, <1>8, StepDoneIsFine

LEMMA TakenUpKeeps == ASSUME Inv, TakenUp PROVE Inv'
<1>1. IInv' /\ IInv /\ MainKnows /\ msgs \in Seq(Messages)
  BY MainKeeps DEF MainStep, Inv
<1>2. PICK p : p = Step.panel
  OBVIOUS
<1> DEFINE m == [panel |-> p, msg |-> "refresh", finish |-> FALSE, newer |-> TRUE]
<1>3. /\ main.todo # <<>> /\ Step.do = "post" /\ main.pc = "running" /\ StepDone
      /\ msgs' = Append(msgs, m)
      /\ UNCHANGED <<watched, signal, mutex, event, sn, smTimer, suspended, need, dirty, handsOff, events>>
  BY <1>2 DEF TakenUp, NextStep, MainRuns, PostRefresh, env
<1>4. main.todo[1].do = "post" /\ main.todo[1].panel = p /\ p \in Panels
  BY <1>2, <1>3, TodoFacts
<1>5. m \in Messages /\ IsNewer(m, p)
  BY <1>4 DEF Messages, IsNewer
<1> HIDE DEF m
<1>6. msgs' \in Seq(Messages) /\ HasMessage(p)' /\ \A q : HasMessage(q) => HasMessage(q)'
  BY <1>1, <1>3, <1>5, AppendMessage
<1>7. RestTypes' /\ \A q \in Panels : HasNeed(q) <=> HasNeed(q)'
  BY <1>3 DEF Inv, RestTypes, HasNeed
<1>8. NeedIsServed'
  <2>1. main'.pc = "running"
    BY <1>3, FirstDone
  <2> QED BY <2>1, <1>3, <1>7 DEF Inv, NeedIsServed, Busy
<1>9. ASSUME NEW q \in Panels
      PROVE  (Lists(q) => Lists(q)') /\ (Posts(q) => Posts(q)' \/ HasMessage(q)') /\ (Afresh(q) => Afresh(q)')
  BY <1>3, <1>4, <1>6, <1>7, StepDoneKeeps DEF InTodo
<1>10. AllCome'
  <2> SUFFICES ASSUME NEW q \in Panels, q \in dirty \/ watched[q] = None PROVE Comes(q)'
    BY <1>3 DEF AllCome
  <2>1. Comes(q)
    BY DEF Inv, AllCome
  <2> QED BY <2>1, <1>3, <1>6, <1>7, <1>9 DEF Comes, Signalled
<1>11. sn.pc = "rearming" => OnItsWay(sn.panel)'
  <2> SUFFICES ASSUME sn.pc = "rearming" PROVE OnItsWay(sn.panel)'
    OBVIOUS
  <2>1. PICK q \in Panels : q = sn.panel
    BY DEF Inv, SnooperRemembers
  <2>2. OnItsWay(q)
    BY <2>1 DEF Inv, SnooperRemembers
  <2>3. OnItsWay(q)'
    BY <2>2, <1>3, <1>6, <1>7, <1>9 DEF OnItsWay
  <2> QED BY <2>1, <2>3, <1>3
<1> QED BY <1>1, <1>3, <1>4, <1>6, <1>7, <1>8, <1>10, <1>11, StepDoneIsFine

LEMMA ReadListingKeeps == ASSUME Inv, ReadListing PROVE Inv'
<1>1. IInv' /\ IInv /\ MainKnows /\ msgs \in Seq(Messages)
  BY MainKeeps DEF MainStep, Inv
<1>2. PICK p : p = Step.panel
  OBVIOUS
<1>3. /\ main.todo # <<>> /\ Step.do = "list" /\ main.pc = "running" /\ StepDone
      /\ dirty' = dirty \ {p} /\ smTimer' = Panels
      /\ UNCHANGED <<watched, signal, mutex, event, sn, msgs, suspended, need, handsOff, events>>
  BY <1>2 DEF ReadListing, NextStep, MainRuns, env
<1>4. main.todo[1].do = "list" /\ main.todo[1].panel = p /\ p \in Panels
  BY <1>2, <1>3, TodoFacts
<1>5. RestTypes' /\ msgs' \in Seq(Messages)
  BY <1>3 DEF Inv, RestTypes
<1>6. \A q \in Panels : (HasNeed(q) <=> HasNeed(q)') /\ (HasMessage(q) <=> HasMessage(q)')
  BY <1>3 DEF HasNeed, HasMessage, IsNewer
<1>7. NeedIsServed'
  <2>1. main'.pc = "running"
    BY <1>3, FirstDone
  <2> QED BY <2>1, <1>3, <1>6 DEF Inv, NeedIsServed, Busy
<1>8. ASSUME NEW q \in Panels
      PROVE  (Lists(q) => Lists(q)' \/ q = p) /\ (Posts(q) => Posts(q)') /\ (Afresh(q) => Afresh(q)')
  BY <1>3, <1>4, <1>6, StepDoneKeeps DEF InTodo
<1>9. AllCome'
  <2> SUFFICES ASSUME NEW q \in Panels, q \in dirty' \/ watched[q] = None PROVE Comes(q)'
    BY <1>3 DEF AllCome
  <2>1. CASE q = p
    <3>1. watched[p] = None
      BY <2>1, <1>3
    <3>2. p \in sn.refresh \/ HasMessage(p)
      BY <3>1, <1>1, <1>3, <1>4 DEF MainKnows, Registered
    <3> QED BY <2>1, <3>2, <1>3, <1>6 DEF Comes
  <2>2. CASE q # p
    <3>1. Comes(q)
      BY <2>2, <1>3 DEF Inv, AllCome
    <3> QED BY <2>2, <3>1, <1>3, <1>6, <1>8 DEF Comes, Signalled
  <2> QED BY <2>1, <2>2
<1>10. sn.pc = "rearming" => OnItsWay(sn.panel)'
  <2> SUFFICES ASSUME sn.pc = "rearming" PROVE OnItsWay(sn.panel)'
    OBVIOUS
  <2>1. PICK q \in Panels : q = sn.panel
    BY DEF Inv, SnooperRemembers
  <2>2. OnItsWay(q)
    BY <2>1 DEF Inv, SnooperRemembers
  <2>3. OnItsWay(q)'
    BY <2>2, <1>3, <1>6, <1>8 DEF OnItsWay
  <2> QED BY <2>1, <2>3, <1>3
<1> QED BY <1>1, <1>3, <1>4, <1>5, <1>6, <1>7, <1>9, <1>10, StepDoneIsFine

LEMMA StampKeeps == ASSUME Inv, Stamp PROVE Inv'
<1>1. IInv' /\ IInv /\ MainKnows /\ msgs \in Seq(Messages)
  BY MainKeeps DEF MainStep, Inv
<1>2. PICK p : p = Step.panel
  OBVIOUS
<1>3. /\ main.todo # <<>> /\ Step.do = "stamp" /\ main.pc = "running" /\ StepDone
      /\ msgs' = [i \in DOMAIN msgs |-> [msgs[i] EXCEPT !.newer = @ /\ msgs[i].panel # p]]
      /\ need' = [need EXCEPT ![p].newer = FALSE]
      /\ UNCHANGED <<watched, signal, mutex, event, sn, smTimer, suspended, dirty, handsOff, events>>
  BY <1>2 DEF Stamp, NextStep, MainRuns, env
<1>4. main.todo[1].do = "stamp" /\ main.todo[1].panel = p /\ p \in Panels /\ 1 \in DOMAIN main.todo
  BY <1>2, <1>3, TodoFacts
<1>5. msgs' \in Seq(Messages) /\ \A q \in Panels : q # p /\ HasMessage(q) => HasMessage(q)'
  <2>1. Len(msgs) \in Nat /\ DOMAIN msgs = 1..Len(msgs) /\ \A i \in DOMAIN msgs : msgs[i] \in Messages
    BY <1>1
  <2>2. DOMAIN msgs' = DOMAIN msgs
    BY <1>3
  <2>3. ASSUME NEW i \in DOMAIN msgs
        PROVE  /\ msgs'[i] \in Messages /\ msgs'[i].panel = msgs[i].panel
               /\ msgs[i].panel # p => msgs'[i].newer = msgs[i].newer
    <3>1. PICK b \in BOOLEAN : b = (msgs[i].newer /\ msgs[i].panel # p)
      BY <2>1 DEF Messages
    <3>2. msgs'[i] = [msgs[i] EXCEPT !.newer = b]
      BY <1>3, <3>1
    <3>3. msgs[i] \in Messages /\ msgs[i].newer \in BOOLEAN
      BY <2>1 DEF Messages
    <3>4. msgs[i].panel # p => b = msgs[i].newer
      BY <3>1, <3>3
    <3> QED BY <3>2, <3>3, <3>4 DEF Messages
  <2>4. msgs' \in [1..Len(msgs) -> Messages]
    <3>1. \A i \in 1..Len(msgs) : msgs'[i] \in Messages
      BY <2>1, <2>3
    <3> QED BY <2>1, <2>2, <3>1, <1>3
  <2>5. msgs' \in Seq(Messages)
    BY <2>1, <2>4
  <2>6. ASSUME NEW q \in Panels, q # p, HasMessage(q) PROVE HasMessage(q)'
    <3>1. PICK i \in DOMAIN msgs : msgs[i].panel = q /\ msgs[i].newer
      BY <2>6 DEF HasMessage, IsNewer
    <3>2. msgs'[i].panel = q /\ msgs'[i].newer = msgs[i].newer
      BY <2>3, <2>6, <3>1
    <3> QED BY <3>1, <3>2, <2>2 DEF HasMessage, IsNewer
  <2> QED BY <2>5, <2>6
<1>6. /\ need' \in [Panels -> [set : BOOLEAN, newer : BOOLEAN]]
      /\ \A q \in Panels : q # p => need'[q] = need[q]
      /\ ~need'[p].newer
  <2>1. need \in [Panels -> [set : BOOLEAN, newer : BOOLEAN]]
    BY DEF Inv, RestTypes
  <2>2. need' = [need EXCEPT ![p] = [need[p] EXCEPT !.newer = FALSE]]
    BY <1>3
  <2>3. [need[p] EXCEPT !.newer = FALSE] \in [set : BOOLEAN, newer : BOOLEAN]
        /\ ~[need[p] EXCEPT !.newer = FALSE].newer
    BY <2>1, <1>4
  <2> QED BY <2>1, <2>2, <2>3, <1>4
<1>7. RestTypes'
  BY <1>3, <1>6 DEF Inv, RestTypes
<1>8. NeedIsServed'
  <2>1. main'.pc = "running"
    BY <1>3, FirstDone
  <2>2. \A q \in Panels : HasNeed(q)' => HasNeed(q)
    BY <1>6 DEF HasNeed
  <2> QED BY <2>1, <2>2, <1>3 DEF Inv, NeedIsServed, Busy
<1>9. InTodo("list", p, 4) /\ InTodo("detach", p, 2)
  <2>1. StepIsFine(1)
    BY <1>4 DEF Inv, TodoIsFine
  <2> QED BY <2>1, <1>4 DEF StepIsFine
<1>10. Lists(p) /\ Afresh(p)
  BY <1>9 DEF Lists, Afresh, InTodo
<1>11. ASSUME NEW q \in Panels
       PROVE  (Lists(q) => Lists(q)') /\ (Posts(q) => Posts(q)') /\ (Afresh(q) => Afresh(q)')
  BY <1>3, <1>4, StepDoneKeeps DEF InTodo
<1>12. AllCome'
  <2> SUFFICES ASSUME NEW q \in Panels, q \in dirty \/ watched[q] = None PROVE Comes(q)'
    BY <1>3 DEF AllCome
  <2>1. CASE q = p
    BY <2>1, <1>4, <1>10, <1>11 DEF Comes
  <2>2. CASE q # p
    <3>1. Comes(q)
      BY DEF Inv, AllCome
    <3> QED BY <2>2, <3>1, <1>3, <1>5, <1>6, <1>11 DEF Comes, Signalled, HasNeed
  <2> QED BY <2>1, <2>2
<1>13. sn.pc = "rearming" => OnItsWay(sn.panel)'
  <2> SUFFICES ASSUME sn.pc = "rearming" PROVE OnItsWay(sn.panel)'
    OBVIOUS
  <2>1. PICK q \in Panels : q = sn.panel
    BY DEF Inv, SnooperRemembers
  <2>2. OnItsWay(q)
    BY <2>1 DEF Inv, SnooperRemembers
  <2>3. OnItsWay(q)'
    BY <2>2, <1>3, <1>4, <1>5, <1>6, <1>10, <1>11 DEF OnItsWay, HasNeed
  <2> QED BY <2>1, <2>3, <1>3
<1> QED BY <1>1, <1>3, <1>4, <1>5, <1>7, <1>8, <1>12, <1>13, StepDoneIsFine

\* what remains to be proved when the idle main thread gets nothing to do
LEMMA NothingToDo ==
    ASSUME Inv, main.todo = <<>>, main' = [main EXCEPT !.pc = main'.pc],
           main'.pc \in {"running", "beginning", "ending"}, IInv',
           UNCHANGED <<watched, signal, sn, msgs, need, handsOff, dirty>>,
           RestTypes', NeedIsServed', Counted'
    PROVE  Inv'
<1>1. main'.todo = <<>> /\ MainTypes'
  BY DEF Inv, MainTypes
<1>2. WatchTypes' /\ SnoopTypes' /\ msgs' \in Seq(Messages)
  BY DEF Inv, WatchTypes, SnoopTypes
<1>3. SnooperRemembers'
  <2>1. sn.pc = "rearming" => OnItsWay(sn.panel)'
    BY <1>1
    DEF Inv, SnooperRemembers, OnItsWay, HasMessage, IsNewer, HasNeed, Posts, Afresh, InTodo
  <2> QED BY <2>1 DEF Inv, SnooperRemembers, Place, HandingOver, Others
<1>4. TodoIsFine'
  BY <1>1 DEF TodoIsFine
<1>5. MainKnows'
  BY <1>1 DEF MainKnows
<1>6. AllCome'
  BY <1>1 DEF Inv, AllCome, Comes, Signalled, HasMessage, IsNewer, HasNeed, Lists, Posts, InTodo
<1> QED BY <1>1, <1>2, <1>3, <1>4, <1>5, <1>6 DEF Inv

\* what remains to be proved when it gets something to do
LEMMA SomethingToDo ==
    ASSUME Inv, MainIsIdle, NEW t \in Seq(Steps), Todo(t), IInv',
           UNCHANGED <<watched, signal, sn, dirty>>, msgs' \in Seq(Messages), RestTypes',
           NeedIsServed', Counted',
           t # <<>> => t[1].do # "list",
           \A i \in DOMAIN t : StepIsFine(i)',
           \A p \in Panels : HasMessage(p) \/ HasNeed(p) \/ p \in handsOff => OnItsWay(p)'
    PROVE  Inv'
<1>1. /\ main.pc = "running" /\ main.todo = <<>>
      /\ main' = [main EXCEPT !.todo = t] /\ MainTypes
  BY DEF MainIsIdle, MainRuns, Todo, Inv
<1>2. main'.pc = "running" /\ main'.todo = t /\ MainTypes'
  BY <1>1 DEF MainTypes
<1>3. WatchTypes' /\ SnoopTypes'
  BY DEF Inv, WatchTypes, SnoopTypes
<1>4. ASSUME NEW p \in Panels, OnItsWay(p) PROVE OnItsWay(p)'
  BY <1>1, <1>4 DEF OnItsWay, Posts, Afresh, InTodo
<1>5. SnooperRemembers'
  <2>1. sn.pc = "rearming" => OnItsWay(sn.panel)'
    <3> SUFFICES ASSUME sn.pc = "rearming" PROVE OnItsWay(sn.panel)'
      OBVIOUS
    <3>1. PICK p \in Panels : p = sn.panel
      BY DEF Inv, SnooperRemembers
    <3>2. OnItsWay(p)
      BY <3>1 DEF Inv, SnooperRemembers
    <3>3. OnItsWay(p)'
      BY <3>2, <1>4
    <3> QED BY <3>1, <3>3
  <2> QED BY <2>1 DEF Inv, SnooperRemembers, Place, HandingOver, Others
<1>6. TodoIsFine'
  BY <1>2 DEF TodoIsFine
<1>7. MainKnows'
  BY <1>2 DEF MainKnows
<1>8. AllCome'
  <2> SUFFICES ASSUME NEW p \in Panels, p \in dirty \/ watched[p] = None PROVE Comes(p)'
    BY DEF AllCome
  <2>1. Comes(p)
    BY DEF Inv, AllCome
  <2>2. OnItsWay(p)' => Comes(p)'
    BY DEF OnItsWay, Comes, Afresh, Lists
  <2>3. ~Lists(p) /\ ~Posts(p)
    BY <1>1 DEF Lists, Posts, InTodo
  <2> QED BY <2>1, <2>2, <2>3 DEF Comes, Signalled
<1> QED BY <1>2, <1>3, <1>5, <1>6, <1>7, <1>8 DEF Inv

LEMMA OneOrNone ==
    ASSUME NEW x \in Steps, NEW s \in {<<>>, <<x>>}
    PROVE  /\ s \in Seq(Steps) /\ Len(s) \in {0, 1} /\ (s # <<>> <=> Len(s) = 1)
           /\ \A i \in 1..Len(s) : s[i] = x
<1>1. CASE s = <<>>
  BY <1>1
<1>2. CASE s = <<x>>
  BY <1>2
<1> QED BY <1>1, <1>2

LEMMA ConcatFacts ==
    ASSUME NEW s \in Seq(Steps), NEW t \in Seq(Steps), NEW u, u = s \o t
    PROVE  /\ u \in Seq(Steps) /\ Len(u) = Len(s) + Len(t) /\ DOMAIN u = 1..(Len(s) + Len(t))
           /\ Len(s) \in Nat /\ Len(t) \in Nat
           /\ \A i \in 1..Len(s) : u[i] = s[i]
           /\ \A i \in 1..Len(t) : u[Len(s) + i] = t[i]
OBVIOUS

LEMMA RefreshStepsFacts ==
    ASSUME NEW p \in Panels
    PROVE  /\ RefreshSteps(p) \in Seq(Steps) /\ Len(RefreshSteps(p)) = 4
           /\ RefreshSteps(p)[1] = [do |-> "stamp", panel |-> p]
           /\ RefreshSteps(p)[2] = [do |-> "detach", panel |-> p]
           /\ RefreshSteps(p)[3] = [do |-> "add", panel |-> p]
           /\ RefreshSteps(p)[4] = [do |-> "list", panel |-> p]
<1>1. PICK w, x, y, z : /\ w = [do |-> "stamp", panel |-> p] /\ x = [do |-> "detach", panel |-> p]
                        /\ y = [do |-> "add", panel |-> p] /\ z = [do |-> "list", panel |-> p]
  OBVIOUS
<1>2. w \in Steps /\ x \in Steps /\ y \in Steps /\ z \in Steps
  BY <1>1 DEF Steps, Arrays
<1>3. RefreshSteps(p) = <<w, x, y, z>>
  BY <1>1 DEF RefreshSteps
<1>4. /\ <<w, x, y, z>> \in Seq(Steps) /\ Len(<<w, x, y, z>>) = 4
      /\ <<w, x, y, z>>[1] = w /\ <<w, x, y, z>>[2] = x
      /\ <<w, x, y, z>>[3] = y /\ <<w, x, y, z>>[4] = z
  BY <1>2
<1> QED BY <1>1, <1>3, <1>4

\* the steps of a refresh
LEMMA RefreshIsFine ==
    ASSUME NEW p \in Panels, NEW a \in {<<>>, <<[do |-> "change", panel |-> p]>>},
           NEW f \in {<<>>, <<[do |-> "finished", panel |-> p]>>}, NEW t,
           t = a \o RefreshSteps(p) \o f, main'.todo = t
    PROVE  /\ t \in Seq(Steps) /\ t # <<>> /\ t[1].do # "list"
           /\ \A i \in DOMAIN t : StepIsFine(i)'
           /\ Afresh(p)'
<1>0. PICK R : R = RefreshSteps(p)
  OBVIOUS
<1> DEFINE k == Len(a)
           n == Len(f)
<1>1. /\ a \in Seq(Steps) /\ f \in Seq(Steps) /\ R \in Seq(Steps) /\ Len(R) = 4
      /\ k \in {0, 1} /\ n \in {0, 1}
      /\ \A i \in 1..k : a[i] = [do |-> "change", panel |-> p]
      /\ \A i \in 1..n : f[i] = [do |-> "finished", panel |-> p]
      /\ R[1] = [do |-> "stamp", panel |-> p] /\ R[2] = [do |-> "detach", panel |-> p]
      /\ R[3] = [do |-> "add", panel |-> p] /\ R[4] = [do |-> "list", panel |-> p]
  <2>1. PICK c \in Steps : c = [do |-> "change", panel |-> p]
    BY DEF Steps, Arrays
  <2>2. PICK e \in Steps : e = [do |-> "finished", panel |-> p]
    BY DEF Steps, Arrays
  <2>3. a \in {<<>>, <<c>>} /\ f \in {<<>>, <<e>>}
    BY <2>1, <2>2
  <2>4. /\ a \in Seq(Steps) /\ Len(a) \in {0, 1} /\ (a # <<>> <=> Len(a) = 1)
        /\ \A i \in 1..Len(a) : a[i] = c
    BY <2>3, OneOrNone
  <2>5. /\ f \in Seq(Steps) /\ Len(f) \in {0, 1}
        /\ \A i \in 1..Len(f) : f[i] = e
    BY <2>3, OneOrNone
  <2> QED BY <2>1, <2>2, <2>4, <2>5, <1>0, RefreshStepsFacts
<1>2. PICK u : u = a \o R
  OBVIOUS
<1>3. /\ u \in Seq(Steps) /\ Len(u) = k + 4 /\ \A i \in 1..k : u[i] = a[i]
      /\ u[k + 1] = R[1] /\ u[k + 2] = R[2] /\ u[k + 3] = R[3] /\ u[k + 4] = R[4]
  <2>1. R \in Seq(Steps) /\ a \in Seq(Steps) /\ Len(R) = 4
    BY <1>1
  <2>2. /\ u \in Seq(Steps) /\ Len(u) = Len(a) + Len(R) /\ \A i \in 1..Len(a) : u[i] = a[i]
        /\ \A i \in 1..Len(R) : u[Len(a) + i] = R[i]
    <3>1. PICK b \in Seq(Steps) : b = a
      BY <2>1
    <3>2. PICK r \in Seq(Steps) : r = R
      BY <2>1
    <3>3. u = b \o r
      BY <1>2, <3>1, <3>2
    <3>4. /\ u \in Seq(Steps) /\ Len(u) = Len(b) + Len(r) /\ \A i \in 1..Len(b) : u[i] = b[i]
          /\ \A i \in 1..Len(r) : u[Len(b) + i] = r[i]
      BY ONLY <3>3, ConcatFacts
    <3> QED BY <3>1, <3>2, <3>4
  <2> QED BY <2>1, <2>2
<1>4. t = u \o f
  BY <1>0, <1>2
<1>5. /\ t \in Seq(Steps) /\ Len(t) = k + 4 + n /\ DOMAIN t = 1..(k + 4 + n)
      /\ \A i \in 1..(k + 4) : t[i] = u[i]
      /\ \A i \in 1..n : t[k + 4 + i] = f[i]
  <2>1. /\ t \in Seq(Steps) /\ Len(t) = Len(u) + n /\ DOMAIN t = 1..(Len(u) + n)
        /\ \A i \in 1..Len(u) : t[i] = u[i]
        /\ \A i \in 1..n : t[Len(u) + i] = f[i]
    <3>1. u \in Seq(Steps) /\ f \in Seq(Steps)
      BY <1>1, <1>3
    <3> QED BY <3>1, <1>4, ConcatFacts
  <2> QED BY <2>1, <1>3
<1> HIDE DEF k, n
<1>6. /\ \A i \in 1..k : t[i] = [do |-> "change", panel |-> p]
      /\ t[k + 1] = [do |-> "stamp", panel |-> p] /\ t[k + 2] = [do |-> "detach", panel |-> p]
      /\ t[k + 3] = [do |-> "add", panel |-> p] /\ t[k + 4] = [do |-> "list", panel |-> p]
      /\ \A i \in (k + 5)..(k + 4 + n) : t[i] = [do |-> "finished", panel |-> p]
  <2>1. \A i \in 1..k : i \in 1..(k + 4)
    BY <1>1
  <2>2. k + 1 \in 1..(k + 4) /\ k + 2 \in 1..(k + 4) /\ k + 3 \in 1..(k + 4) /\ k + 4 \in 1..(k + 4)
    BY <1>1
  <2>3. ASSUME NEW i \in (k + 5)..(k + 4 + n) PROVE t[i] = [do |-> "finished", panel |-> p]
    <3>1. i = k + 4 + 1 /\ 1 \in 1..n
      BY <1>1
    <3> QED BY <3>1, <1>1, <1>5
  <2> QED BY <2>1, <2>2, <2>3, <1>1, <1>3, <1>5
<1>7. /\ InTodo("stamp", p, k + 1)' /\ InTodo("detach", p, k + 2)' /\ InTodo("add", p, k + 3)'
      /\ InTodo("list", p, k + 4)'
  BY <1>1, <1>5, <1>6 DEF InTodo
<1>8. Afresh(p)'
  <2>1. k + 2 < k + 4 /\ k + 2 \in DOMAIN t /\ k + 4 \in DOMAIN t
    BY <1>1, <1>5
  <2> QED BY <2>1, <1>7 DEF Afresh
<1>9. ASSUME NEW i \in DOMAIN t PROVE StepIsFine(i)'
  <2>1. CASE i \in 1..k
    <3>1. k + 4 > i /\ k + 4 \in DOMAIN t
      BY <2>1, <1>1, <1>5
    <3> QED BY <2>1, <3>1, <1>6, <1>7 DEF StepIsFine, Arrays
  <2>2. CASE i = k + 1
    <3>1. i + 1 = k + 2 /\ i + 3 = k + 4
      BY <2>2, <1>1
    <3> QED BY <2>2, <3>1, <1>6, <1>7 DEF StepIsFine, Arrays
  <2>3. CASE i \in {k + 2, k + 3}
    <3>1. k + 4 > i /\ k + 4 \in DOMAIN t
      BY <2>3, <1>1, <1>5
    <3>2. t[i].do \in Arrays /\ t[i].panel = p
      BY <2>3, <1>6 DEF Arrays
    <3>3. t[i].do # "stamp" /\ t[i].do # "list"
      BY <3>2 DEF Arrays
    <3> QED BY <3>1, <3>2, <3>3, <1>7 DEF StepIsFine
  <2>4. CASE i = k + 4
    <3>1. i - 1 = k + 3
      BY <2>4, <1>1
    <3> QED BY <2>4, <3>1, <1>6, <1>7 DEF StepIsFine, Arrays
  <2>5. CASE i \in (k + 5)..(k + 4 + n)
    BY <2>5, <1>6 DEF StepIsFine, Arrays
  <2>6. i \in 1..k \/ i = k + 1 \/ i \in {k + 2, k + 3} \/ i = k + 4 \/ i \in (k + 5)..(k + 4 + n)
    <3>1. i \in Int /\ i >= 1 /\ i <= k + 4 + n
      BY <1>1, <1>5
    <3> QED BY <3>1, <1>1
  <2> QED BY <2>1, <2>2, <2>3, <2>4, <2>5, <2>6
<1>10. t # <<>> /\ t[1].do # "list"
  <2>1. 1 \in 1..k \/ 1 = k + 1
    BY <1>1
  <2>2. t[1] \in {[do |-> "change", panel |-> p], [do |-> "stamp", panel |-> p]}
    BY <2>1, <1>6
  <2>3. t # <<>>
    BY <1>1, <1>5
  <2> QED BY <2>2, <2>3
<1> QED BY <1>5, <1>8, <1>9, <1>10

\* the steps of a refresh that is put off, or comes too late
LEMMA LittleIsFine ==
    ASSUME NEW p \in Panels, NEW a \in {<<>>, <<[do |-> "change", panel |-> p]>>},
           NEW f \in {<<>>, <<[do |-> "finished", panel |-> p]>>}, NEW t, t = a \o f, main'.todo = t,
           a # <<>> => HasNeed(p)'
    PROVE  /\ t \in Seq(Steps) /\ (t # <<>> => t[1].do # "list")
           /\ \A i \in DOMAIN t : StepIsFine(i)'
<1>1. /\ a \in Seq(Steps) /\ f \in Seq(Steps) /\ Len(a) \in {0, 1} /\ Len(f) \in {0, 1}
      /\ \A i \in 1..Len(a) : a[i] = [do |-> "change", panel |-> p]
      /\ \A i \in 1..Len(f) : f[i] = [do |-> "finished", panel |-> p]
      /\ a # <<>> <=> Len(a) = 1
  <2>1. PICK c \in Steps : c = [do |-> "change", panel |-> p]
    BY DEF Steps, Arrays
  <2>2. PICK e \in Steps : e = [do |-> "finished", panel |-> p]
    BY DEF Steps, Arrays
  <2>3. a \in {<<>>, <<c>>} /\ f \in {<<>>, <<e>>}
    BY <2>1, <2>2
  <2>4. /\ a \in Seq(Steps) /\ Len(a) \in {0, 1} /\ (a # <<>> <=> Len(a) = 1)
        /\ \A i \in 1..Len(a) : a[i] = c
    BY <2>3, OneOrNone
  <2>5. /\ f \in Seq(Steps) /\ Len(f) \in {0, 1}
        /\ \A i \in 1..Len(f) : f[i] = e
    BY <2>3, OneOrNone
  <2> QED BY <2>1, <2>2, <2>4, <2>5
<1> DEFINE k == Len(a)
           n == Len(f)
<1>2. /\ t \in Seq(Steps) /\ DOMAIN t = 1..(k + n) /\ Len(t) = k + n
      /\ \A i \in 1..k : t[i] = a[i]
      /\ \A i \in 1..n : t[k + i] = f[i]
  BY <1>1
<1> HIDE DEF k, n
<1>3. ASSUME NEW i \in DOMAIN t
      PROVE  /\ t[i] \in {[do |-> "change", panel |-> p], [do |-> "finished", panel |-> p]}
             /\ t[i].do = "change" => a # <<>>
  <2>1. CASE i \in 1..k
    BY <2>1, <1>1, <1>2 DEF k
  <2>2. CASE i \notin 1..k
    <3>1. PICK j \in 1..n : i = k + j
      BY <2>2, <1>1, <1>2 DEF k, n
    <3> QED BY <3>1, <1>1, <1>2 DEF n
  <2> QED BY <2>1, <2>2
<1>4. ASSUME NEW i \in DOMAIN t PROVE StepIsFine(i)'
  <2>1. t[i].do \notin {"stamp", "list"} /\ t[i].panel = p
        /\ (t[i].do \in Arrays => a # <<>>)
    BY <1>3 DEF Arrays
  <2>2. \A j \in DOMAIN t : t[j].do # "stamp"
    BY <1>3
  <2> QED BY <2>1, <2>2 DEF StepIsFine
<1>5. t # <<>> => t[1].do # "list"
  <2> SUFFICES ASSUME t # <<>> PROVE t[1].do # "list"
    OBVIOUS
  <2>1. 1 \in DOMAIN t
    BY <1>2
  <2> QED BY <2>1, <1>3
<1> QED BY <1>2, <1>4, <1>5

LEMMA SuspendChangedKeeps == ASSUME Inv, SuspendChanged PROVE Inv'
<1>1. IInv' /\ IInv /\ MainKnows /\ MainTypes /\ RestTypes
  BY MainKeeps DEF MainStep, Inv
<1>2. /\ main.pc \in {"beginning", "ending"} /\ event.continue
      /\ event' = [event EXCEPT !.continue = FALSE] /\ main' = [main EXCEPT !.pc = "running"]
      /\ suspended' = [suspended EXCEPT !.snooper = IF main.pc = "beginning" THEN @ + 1 ELSE @ - 1]
      /\ UNCHANGED <<watched, signal, mutex, sn, msgs, smTimer, need, dirty, handsOff, events>>
  BY DEF SuspendChanged, Reset, env
<1>3. main.todo = <<>> /\ main'.pc = "running" /\ main' = [main EXCEPT !.pc = main'.pc]
  BY <1>1, <1>2 DEF MainKnows, MainTypes
<1>4. main.pc = "ending" => suspended.snooper > 0
  BY DEF Inv, Counted
<1>5. /\ suspended' \in [snooper : Nat, refresh : Nat] /\ suspended'.refresh = suspended.refresh
      /\ main.pc = "beginning" => suspended'.snooper = suspended.snooper + 1
      /\ main.pc = "ending" => suspended'.snooper = suspended.snooper - 1
  BY <1>1, <1>2, <1>4 DEF RestTypes
<1>6. RestTypes'
  BY <1>1, <1>2, <1>5 DEF RestTypes
<1>7. Counted'
  BY <1>1, <1>2, <1>3, <1>5 DEF Inv, Counted, RestTypes
<1>8. NeedIsServed'
  <2>1. CASE main.pc = "beginning"
    <3>1. suspended'.snooper > 0
      BY <2>1, <1>1, <1>5 DEF RestTypes
    <3> QED BY <3>1, <1>3 DEF NeedIsServed, Busy
  <2>2. CASE main.pc = "ending"
    <3>1. sn.pc = "resuming" \/ smTimer = Panels
      BY <2>2, <1>2 DEF Inv, NeedIsServed
    <3> QED BY <3>1, <1>2, <1>3 DEF NeedIsServed
  <2> QED BY <2>1, <2>2, <1>2
<1> QED BY <1>1, <1>2, <1>3, <1>6, <1>7, <1>8, NothingToDo

LEMMA HandleRefreshKeeps == ASSUME Inv, HandleRefresh PROVE Inv'
<1>1. IInv' /\ IInv /\ MainTypes /\ RestTypes /\ msgs \in Seq(Messages)
  BY MainKeeps DEF MainStep, Inv
<1>2. /\ MainIsIdle /\ msgs # <<>> /\ msgs' = Tail(msgs)
      /\ UNCHANGED <<watched, signal, mutex, event, sn, smTimer, suspended, dirty, handsOff, events>>
  BY DEF HandleRefresh, env
<1>3. /\ msgs' \in Seq(Messages) /\ Head(msgs) \in Messages
      /\ \A q : HasMessage(q) => IsNewer(Head(msgs), q) \/ HasMessage(q)'
  BY <1>1, <1>2, TailMessages
<1>4. PICK m \in Messages : m = Head(msgs)
  BY <1>3
<1>5. PICK p \in Panels : p = m.panel
  BY DEF Messages
<1>6. PICK a : a = IF m.msg = "s_refresh" THEN Reregister(p, m.newer) ELSE <<>>
  OBVIOUS
<1>7. PICK f : f = Finish(m)
  OBVIOUS
<1>8. a \in {<<>>, <<[do |-> "change", panel |-> p]>>} /\ (a # <<>> => m.newer)
  BY <1>6 DEF Reregister
<1>9. f \in {<<>>, <<[do |-> "finished", panel |-> p]>>}
  BY <1>5, <1>7 DEF Finish
<1>10. IF Busy THEN PutOff(p, m.newer) /\ Todo(a \o f)
       ELSE Todo(a \o (IF m.newer THEN RefreshSteps(p) ELSE <<>>) \o f) /\ UNCHANGED need
  BY <1>4, <1>5, <1>6, <1>7 DEF HandleRefresh
<1>11. main.pc = "running" /\ main.todo = <<>>
  BY <1>2 DEF MainIsIdle, MainRuns
<1>12. ASSUME NEW t, Todo(t) PROVE main'.todo = t /\ main'.pc = "running"
  BY <1>1, <1>11, <1>12 DEF Todo, MainTypes
<1>13. CASE Busy
  <2>1. Todo(a \o f) /\ need' = [need EXCEPT ![p] = [set |-> TRUE, newer |-> @.newer \/ m.newer]]
    BY <1>10, <1>13 DEF PutOff
  <2>2. /\ need' \in [Panels -> [set : BOOLEAN, newer : BOOLEAN]]
        /\ \A q \in Panels : HasNeed(q) => HasNeed(q)'
        /\ m.newer => HasNeed(p)'
    <3>1. need \in [Panels -> [set : BOOLEAN, newer : BOOLEAN]] /\ need[p].newer \in BOOLEAN
      BY <1>1 DEF RestTypes
    <3>2. m.newer \in BOOLEAN
      BY DEF Messages
    <3>3. PICK b \in BOOLEAN : b = (need[p].newer \/ m.newer)
      BY <3>1, <3>2
    <3>4. need' = [need EXCEPT ![p] = [set |-> TRUE, newer |-> b]]
      BY <2>1, <3>3
    <3> QED BY <3>1, <3>3, <3>4 DEF HasNeed
  <2>3. PICK t : t = a \o f
    OBVIOUS
  <2>4. Todo(t) /\ main'.todo = t /\ main'.pc = "running"
    BY <2>1, <2>3, <1>12
  <2>5. t \in Seq(Steps) /\ (t # <<>> => t[1].do # "list") /\ \A i \in DOMAIN t : StepIsFine(i)'
    BY <1>8, <1>9, <2>2, <2>3, <2>4, LittleIsFine
  <2>6. RestTypes'
    BY <1>1, <1>2, <2>2 DEF RestTypes
  <2>7. NeedIsServed'
    BY <1>2, <1>13, <2>4 DEF NeedIsServed, Busy
  <2>8. Counted'
    BY <1>1, <1>2, <1>11, <2>4 DEF Inv, Counted
  <2>9. ASSUME NEW q \in Panels, HasMessage(q) \/ HasNeed(q) \/ q \in handsOff PROVE OnItsWay(q)'
    <3>1. IsNewer(m, q) => HasNeed(q)'
      BY <1>5, <2>2 DEF IsNewer
    <3> QED BY <3>1, <1>2, <1>3, <1>4, <2>2, <2>9 DEF OnItsWay
  <2> QED BY <1>1, <1>2, <1>3, <2>4, <2>5, <2>6, <2>7, <2>8, <2>9, SomethingToDo
<1>14. CASE ~Busy
  <2>1. UNCHANGED need /\ Todo(a \o (IF m.newer THEN RefreshSteps(p) ELSE <<>>) \o f)
    BY <1>10, <1>14
  <2>2. PICK t : /\ Todo(t) /\ main'.todo = t /\ main'.pc = "running"
                 /\ t \in Seq(Steps) /\ (t # <<>> => t[1].do # "list")
                 /\ \A i \in DOMAIN t : StepIsFine(i)'
                 /\ m.newer => Afresh(p)'
    <3>1. CASE m.newer
      <4>1. PICK t : t = a \o RefreshSteps(p) \o f
        OBVIOUS
      <4>2. Todo(t)
        BY <2>1, <3>1, <4>1
      <4>3. main'.todo = t /\ main'.pc = "running"
        BY <4>2, <1>12
      <4>4. /\ t \in Seq(Steps) /\ t # <<>> /\ t[1].do # "list"
            /\ \A i \in DOMAIN t : StepIsFine(i)'
            /\ Afresh(p)'
        BY <1>8, <1>9, <4>1, <4>3, RefreshIsFine
      <4> QED BY <4>2, <4>3, <4>4
    <3>2. CASE ~m.newer
      <4>1. a = <<>>
        BY <3>2, <1>8
      <4>2. PICK t : t = a \o f
        OBVIOUS
      <4>3. f \in Seq(Steps)
        <5>1. PICK e \in Steps : e = [do |-> "finished", panel |-> p]
          BY DEF Steps, Arrays
        <5>2. f \in {<<>>, <<e>>}
          BY <5>1, <1>9
        <5> QED BY <5>2, OneOrNone
      <4>4. a \o <<>> \o f = a \o f
        BY <4>1, <4>3
      <4>5. Todo(t)
        BY <2>1, <3>2, <4>2, <4>4
      <4>6. main'.todo = t /\ main'.pc = "running"
        BY <4>5, <1>12
      <4>7. /\ t \in Seq(Steps) /\ (t # <<>> => t[1].do # "list")
            /\ \A i \in DOMAIN t : StepIsFine(i)'
        BY <1>8, <1>9, <4>1, <4>2, <4>6, LittleIsFine
      <4> QED BY <4>5, <4>6, <4>7, <3>2
    <3> QED BY <3>1, <3>2
  <2>3. RestTypes'
    BY <1>1, <1>2, <2>1 DEF RestTypes
  <2>4. NeedIsServed'
    BY <1>2, <2>1, <2>2 DEF Inv, NeedIsServed, HasNeed, Busy
  <2>5. Counted'
    BY <1>1, <1>2, <1>11, <2>2 DEF Inv, Counted
  <2>6. ASSUME NEW q \in Panels, HasMessage(q) \/ HasNeed(q) \/ q \in handsOff PROVE OnItsWay(q)'
    <3>1. IsNewer(m, q) => Afresh(q)'
      BY <1>5, <2>2 DEF IsNewer
    <3> QED BY <3>1, <1>2, <1>3, <1>4, <2>1, <2>6 DEF OnItsWay, HasNeed
  <2> QED BY <1>1, <1>2, <1>3, <2>2, <2>3, <2>4, <2>5, <2>6, SomethingToDo
<1> QED BY <1>13, <1>14

LEMMA HandleEndNotifyKeeps == ASSUME Inv, NEW p \in Panels, HandleEndNotify(p) PROVE Inv'
<1>1. IInv' /\ IInv /\ MainTypes /\ RestTypes /\ msgs \in Seq(Messages)
  BY MainKeeps DEF MainStep, Inv
<1>2. /\ MainIsIdle /\ p \in smTimer /\ smTimer' = smTimer \ {p}
      /\ UNCHANGED <<watched, signal, mutex, event, sn, msgs, suspended, dirty, handsOff, events>>
  BY DEF HandleEndNotify, env
<1>3. main.pc = "running" /\ main.todo = <<>>
  BY <1>2 DEF MainIsIdle, MainRuns
<1>4. need \in [Panels -> [set : BOOLEAN, newer : BOOLEAN]] /\ smTimer \subseteq Panels
  BY <1>1 DEF RestTypes
<1>5. CASE ~Busy /\ need[p].set
  <2>1. need' = [need EXCEPT ![p].set = FALSE]
        /\ Todo(IF need[p].newer THEN <<[do |-> "change", panel |-> p]>> \o RefreshSteps(p) ELSE <<>>)
    BY <1>5 DEF HandleEndNotify
  <2>2. /\ need' \in [Panels -> [set : BOOLEAN, newer : BOOLEAN]]
        /\ \A q \in Panels : q # p => need'[q] = need[q]
        /\ ~need'[p].set
    <3>1. need' = [need EXCEPT ![p] = [need[p] EXCEPT !.set = FALSE]]
      BY <2>1
    <3>2. [need[p] EXCEPT !.set = FALSE] \in [set : BOOLEAN, newer : BOOLEAN]
          /\ ~[need[p] EXCEPT !.set = FALSE].set
      BY <1>4
    <3> QED BY <3>1, <3>2, <1>4
  <2>3. PICK t : /\ Todo(t) /\ main'.todo = t /\ main'.pc = "running"
                 /\ t \in Seq(Steps) /\ (t # <<>> => t[1].do # "list")
                 /\ \A i \in DOMAIN t : StepIsFine(i)'
                 /\ HasNeed(p) => Afresh(p)'
    <3>1. ASSUME NEW t, Todo(t) PROVE main'.todo = t /\ main'.pc = "running"
      BY <1>1, <1>3, <3>1 DEF Todo, MainTypes
    <3>2. CASE need[p].newer
      <4>1. PICK a, f : a = <<[do |-> "change", panel |-> p]>> /\ f = <<>>
        OBVIOUS
      <4>2. a \o RefreshSteps(p) \o f = a \o RefreshSteps(p)
        <5>1. PICK c \in Steps : c = [do |-> "change", panel |-> p]
          BY DEF Steps, Arrays
        <5>2. PICK R \in Seq(Steps) : R = RefreshSteps(p)
          BY RefreshStepsFacts
        <5>3. <<c>> \o R \o <<>> = <<c>> \o R
          OBVIOUS
        <5> QED BY <5>1, <5>2, <5>3, <4>1
      <4>3. PICK t : t = a \o RefreshSteps(p) \o f
        OBVIOUS
      <4>4. Todo(t)
        BY <2>1, <3>2, <4>1, <4>2, <4>3
      <4>5. main'.todo = t /\ main'.pc = "running"
        BY <4>4, <3>1
      <4>6. /\ t \in Seq(Steps) /\ t # <<>> /\ t[1].do # "list"
            /\ \A i \in DOMAIN t : StepIsFine(i)'
            /\ Afresh(p)'
        BY <4>1, <4>3, <4>5, RefreshIsFine
      <4> QED BY <4>4, <4>5, <4>6
    <3>3. CASE ~need[p].newer
      <4>1. PICK t : t = <<>>
        OBVIOUS
      <4>2. Todo(t)
        BY <2>1, <3>3, <4>1
      <4>3. main'.todo = t /\ main'.pc = "running"
        BY <4>2, <3>1
      <4>4. t \in Seq(Steps) /\ DOMAIN t = {}
        BY <4>1
      <4> QED BY <4>1, <4>2, <4>3, <4>4, <3>3 DEF HasNeed
    <3> QED BY <3>2, <3>3
  <2>4. RestTypes'
    BY <1>1, <1>2, <2>2 DEF RestTypes
  <2>5. NeedIsServed'
    BY <1>2, <2>2, <2>3 DEF Inv, NeedIsServed, HasNeed, Busy
  <2>6. Counted'
    BY <1>2, <1>3, <2>3 DEF Inv, Counted
  <2>7. ASSUME NEW q \in Panels, HasMessage(q) \/ HasNeed(q) \/ q \in handsOff PROVE OnItsWay(q)'
    BY <2>7, <1>2, <2>2, <2>3 DEF OnItsWay, HasNeed, HasMessage, IsNewer
  <2> QED BY <1>1, <1>2, <2>3, <2>4, <2>5, <2>6, <2>7, SomethingToDo
<1>6. CASE ~(~Busy /\ need[p].set)
  <2>1. UNCHANGED <<need, main>>
    BY <1>6 DEF HandleEndNotify
  <2>2. main' = [main EXCEPT !.pc = main'.pc]
    BY <2>1, <1>1 DEF MainTypes
  <2>3. RestTypes'
    BY <1>1, <1>2, <2>1 DEF RestTypes
  <2>4. NeedIsServed'
    BY <1>2, <1>3, <1>6, <2>1 DEF Inv, NeedIsServed, HasNeed, Busy
  <2>5. Counted'
    BY <1>2, <2>1 DEF Inv, Counted
  <2> QED BY <1>1, <1>2, <1>3, <2>1, <2>2, <2>3, <2>4, <2>5, NothingToDo
<1> QED BY <1>5, <1>6

LEMMA MainKeepsInv == ASSUME Inv, MainStep PROVE Inv'
BY AskForDataKeeps, TakeDataKeeps, ChangeDataKeeps, DataReturnedKeeps, SuspendChangedKeeps,
   HandleRefreshKeeps, HandleEndNotifyKeeps, StampKeeps, ReadListingKeeps, RefreshFinishedKeeps,
   TakenUpKeeps DEF MainStep

-----------------------------------------------------------------------------
(* The commands of the user and the changes of the directories keep the invariant *)

LEMMA EndSuspendModeKeeps == ASSUME Inv, EndSuspendMode PROVE Inv'
<1>1. IInv' /\ IInv /\ MainTypes /\ RestTypes
  BY CommandsKeep DEF CommandEnds, Inv
<1>2. /\ main.pc = "running" /\ main.todo = <<>> /\ suspended.snooper > 0
      /\ UNCHANGED <<watched, signal, mutex, sn, msgs, smTimer, need, dirty, handsOff, events>>
  BY DEF EndSuspendMode, MainIsIdle, MainRuns, env
<1>3. suspended \in [snooper : Nat, refresh : Nat]
  BY <1>1 DEF RestTypes
<1>4. CASE suspended.snooper = 1
  <2>1. /\ event' = [event EXCEPT !.end = TRUE] /\ main' = [main EXCEPT !.pc = "ending"]
        /\ UNCHANGED suspended
    BY <1>4 DEF EndSuspendMode, Set
  <2>2. main'.pc = "ending" /\ main' = [main EXCEPT !.pc = main'.pc]
    BY <2>1, <1>1 DEF MainTypes
  <2>3. ~event'.continue
    BY <2>1, <1>1, <1>2 DEF IInv, Types, Protocol
  <2>4. RestTypes' /\ Counted'
    BY <1>1, <1>2, <2>1, <2>2 DEF Inv, Counted, RestTypes
  <2>5. NeedIsServed'
    BY <1>2, <2>1, <2>3 DEF Inv, NeedIsServed, HasNeed, Busy
  <2> QED BY <1>1, <1>2, <2>2, <2>4, <2>5, NothingToDo
<1>5. CASE suspended.snooper # 1
  <2>1. UNCHANGED <<event, main>> /\ suspended' = [suspended EXCEPT !.snooper = @ - 1]
    BY <1>5 DEF EndSuspendMode
  <2>2. main' = [main EXCEPT !.pc = main'.pc]
    BY <2>1, <1>1 DEF MainTypes
  <2>3. /\ suspended'.snooper = suspended.snooper - 1 /\ suspended'.refresh = suspended.refresh
        /\ suspended'.snooper > 0 /\ suspended' \in [snooper : Nat, refresh : Nat]
    BY <2>1, <1>2, <1>3, <1>5
  <2>4. RestTypes' /\ Counted'
    BY <1>1, <1>2, <1>3, <2>1, <2>3 DEF Inv, Counted, RestTypes
  <2>5. NeedIsServed'
    BY <1>2, <2>1, <2>3 DEF NeedIsServed, Busy
  <2> QED BY <1>1, <1>2, <2>1, <2>2, <2>4, <2>5, NothingToDo
<1> QED BY <1>4, <1>5

LEMMA BeginSuspendModeKeeps == ASSUME Inv, BeginSuspendMode PROVE Inv'
<1>1. IInv' /\ IInv /\ MainTypes /\ RestTypes
  BY CommandsKeep DEF Inv
<1>2. /\ main.pc = "running" /\ main.todo = <<>> /\ events < MaxEvents /\ events' = events + 1
      /\ UNCHANGED <<watched, signal, mutex, sn, msgs, smTimer, need, dirty, handsOff>>
  BY DEF BeginSuspendMode, MainIsIdle, MainRuns
<1>3. suspended \in [snooper : Nat, refresh : Nat] /\ events \in 0..MaxEvents
      /\ events' \in 0..MaxEvents
  BY <1>1, <1>2, SnooperAssumption DEF RestTypes
<1>4. CASE suspended.snooper = 0
  <2>1. main' = [main EXCEPT !.pc = "beginning"] /\ UNCHANGED suspended
    BY <1>4 DEF BeginSuspendMode, Set
  <2>2. main'.pc = "beginning" /\ main' = [main EXCEPT !.pc = main'.pc]
    BY <2>1, <1>1 DEF MainTypes
  <2>3. RestTypes'
    BY <1>1, <1>2, <1>3, <2>1 DEF RestTypes
  <2>4. Counted'
    BY <1>2, <1>3, <2>1, <2>2 DEF Inv, Counted
  <2>5. NeedIsServed'
    BY <1>2, <2>1, <2>2 DEF Inv, NeedIsServed, HasNeed, Busy
  <2> QED BY <1>1, <1>2, <2>2, <2>3, <2>4, <2>5, NothingToDo
<1>5. CASE suspended.snooper # 0
  <2>1. UNCHANGED <<event, main>> /\ suspended' = [suspended EXCEPT !.snooper = @ + 1]
    BY <1>5 DEF BeginSuspendMode
  <2>2. main' = [main EXCEPT !.pc = main'.pc]
    BY <2>1, <1>1 DEF MainTypes
  <2>3. /\ suspended'.snooper = suspended.snooper + 1 /\ suspended'.refresh = suspended.refresh
        /\ suspended' \in [snooper : Nat, refresh : Nat]
    BY <2>1, <1>3
  <2>4. RestTypes'
    BY <1>1, <1>2, <1>3, <2>3 DEF RestTypes
  <2>5. Counted'
    BY <1>2, <1>3, <2>1, <2>3 DEF Inv, Counted
  <2>6. NeedIsServed'
    <3>1. suspended'.snooper > 0
      BY <1>3, <2>3
    <3> QED BY <3>1, <1>2, <2>1 DEF NeedIsServed, Busy
  <2> QED BY <1>1, <1>2, <2>1, <2>2, <2>4, <2>5, <2>6, NothingToDo
<1> QED BY <1>4, <1>5

LEMMA BeginStopRefreshKeeps == ASSUME Inv, BeginStopRefresh PROVE Inv'
<1>1. IInv' /\ IInv /\ MainTypes /\ RestTypes
  BY CommandsKeep DEF Inv
<1>2. /\ main.pc = "running" /\ main.todo = <<>> /\ events < MaxEvents /\ events' = events + 1
      /\ suspended' = [suspended EXCEPT !.refresh = @ + 1]
      /\ UNCHANGED <<watched, signal, mutex, event, sn, main, msgs, smTimer, need, dirty, handsOff>>
  BY DEF BeginStopRefresh, MainIsIdle, MainRuns
<1>3. suspended \in [snooper : Nat, refresh : Nat] /\ events \in 0..MaxEvents
      /\ events' \in 0..MaxEvents
  BY <1>1, <1>2, SnooperAssumption DEF RestTypes
<1>4. /\ suspended'.refresh = suspended.refresh + 1 /\ suspended'.snooper = suspended.snooper
      /\ suspended' \in [snooper : Nat, refresh : Nat] /\ suspended'.refresh > 0
  BY <1>2, <1>3
<1>5. RestTypes'
  BY <1>1, <1>2, <1>3, <1>4 DEF RestTypes
<1>6. Counted'
  BY <1>2, <1>3, <1>4 DEF Inv, Counted
<1>7. NeedIsServed'
  BY <1>2, <1>4 DEF NeedIsServed, Busy
<1>8. main' = [main EXCEPT !.pc = main'.pc]
  BY <1>1, <1>2 DEF MainTypes
<1> QED BY <1>1, <1>2, <1>5, <1>6, <1>7, <1>8, NothingToDo

LEMMA EndStopRefreshKeeps == ASSUME Inv, EndStopRefresh PROVE Inv'
<1>1. IInv' /\ IInv /\ MainTypes /\ RestTypes
  BY CommandsKeep DEF CommandEnds, Inv
<1>2. /\ main.pc = "running" /\ main.todo = <<>> /\ suspended.refresh > 0
      /\ suspended' = [suspended EXCEPT !.refresh = @ - 1] /\ smTimer' = EndNotify
      /\ UNCHANGED <<watched, signal, mutex, event, sn, main, msgs, need, dirty, handsOff, events>>
  BY DEF EndStopRefresh, MainIsIdle, MainRuns, env
<1>3. suspended \in [snooper : Nat, refresh : Nat] /\ smTimer' \subseteq Panels
  BY <1>1, <1>2 DEF RestTypes, EndNotify
<1>4. /\ suspended'.refresh = suspended.refresh - 1 /\ suspended'.snooper = suspended.snooper
      /\ suspended' \in [snooper : Nat, refresh : Nat]
  BY <1>2, <1>3
<1>5. RestTypes' /\ Counted'
  BY <1>1, <1>2, <1>3, <1>4 DEF Inv, Counted, RestTypes
<1>6. NeedIsServed'
  <2>1. CASE suspended.refresh = 1
    BY <2>1, <1>2 DEF NeedIsServed, EndNotify
  <2>2. CASE suspended.refresh # 1
    <3>1. suspended'.refresh > 0
      BY <2>2, <1>2, <1>3, <1>4
    <3> QED BY <3>1, <1>2 DEF NeedIsServed, Busy
  <2> QED BY <2>1, <2>2
<1>7. main' = [main EXCEPT !.pc = main'.pc]
  BY <1>1, <1>2 DEF MainTypes
<1> QED BY <1>1, <1>2, <1>5, <1>6, <1>7, NothingToDo

LEMMA TakeUpKeeps == ASSUME Inv, NEW p \in Panels, TakeUp(p) PROVE Inv'
<1>1. IInv' /\ IInv /\ MainTypes /\ RestTypes /\ msgs \in Seq(Messages)
  BY CommandsKeep DEF CommandEnds, Inv
<1>2. /\ MainIsIdle /\ handsOff' = handsOff \ {p}
      /\ Todo(<<[do |-> "change", panel |-> p], [do |-> "post", panel |-> p]>>)
      /\ UNCHANGED <<watched, signal, mutex, event, sn, msgs, smTimer, suspended, need, dirty, events>>
  BY DEF TakeUp
<1>3. PICK t : t = <<[do |-> "change", panel |-> p], [do |-> "post", panel |-> p]>>
  OBVIOUS
<1>4. /\ t \in Seq(Steps) /\ DOMAIN t = {1, 2}
      /\ t[1] = [do |-> "change", panel |-> p] /\ t[2] = [do |-> "post", panel |-> p]
  <2>1. PICK c \in Steps, d \in Steps : c = [do |-> "change", panel |-> p] /\ d = [do |-> "post", panel |-> p]
    BY DEF Steps, Arrays
  <2>2. <<c, d>> \in Seq(Steps) /\ DOMAIN <<c, d>> = {1, 2} /\ <<c, d>>[1] = c /\ <<c, d>>[2] = d
    OBVIOUS
  <2>3. t = <<c, d>>
    BY <1>3, <2>1
  <2> QED BY <2>1, <2>2, <2>3
<1>5. Todo(t) /\ main.pc = "running" /\ main.todo = <<>>
  BY <1>2, <1>3 DEF MainIsIdle, MainRuns
<1>6. main'.todo = t /\ main'.pc = "running"
  BY <1>1, <1>5 DEF Todo, MainTypes
<1>7. InTodo("post", p, 2)' /\ Posts(p)'
  BY <1>4, <1>6 DEF InTodo, Posts
<1>8. \A i \in DOMAIN t : StepIsFine(i)'
  <2>1. StepIsFine(1)'
    BY <1>4, <1>6, <1>7 DEF StepIsFine
  <2>2. StepIsFine(2)'
    BY <1>4, <1>6 DEF StepIsFine, Arrays
  <2> QED BY <2>1, <2>2, <1>4
<1>9. RestTypes' /\ Counted' /\ NeedIsServed'
  BY <1>1, <1>2, <1>5, <1>6 DEF Inv, RestTypes, Counted, NeedIsServed, HasNeed, Busy
<1>10. ASSUME NEW q \in Panels, HasMessage(q) \/ HasNeed(q) \/ q \in handsOff PROVE OnItsWay(q)'
  BY <1>10, <1>2, <1>7 DEF OnItsWay, HasMessage, IsNewer, HasNeed
<1>11. t # <<>> => t[1].do # "list"
  BY <1>4
<1> QED BY <1>1, <1>2, <1>4, <1>5, <1>8, <1>9, <1>10, <1>11, SomethingToDo

LEMMA LetGoKeeps == ASSUME Inv, NEW p \in Panels, LetGo(p) PROVE Inv'
<1>1. IInv' /\ IInv /\ MainTypes /\ RestTypes /\ msgs \in Seq(Messages)
  BY CommandsKeep DEF Inv
<1>2. /\ MainIsIdle /\ handsOff' = handsOff \union {p} /\ events < MaxEvents /\ events' = events + 1
      /\ Todo(<<[do |-> "detach", panel |-> p]>>)
      /\ UNCHANGED <<watched, signal, mutex, event, sn, msgs, smTimer, suspended, need, dirty>>
  BY DEF LetGo
<1>3. PICK t : t = <<[do |-> "detach", panel |-> p]>>
  OBVIOUS
<1>4. t \in Seq(Steps) /\ DOMAIN t = {1} /\ t[1] = [do |-> "detach", panel |-> p]
  <2>1. PICK c \in Steps : c = [do |-> "detach", panel |-> p]
    BY DEF Steps, Arrays
  <2>2. <<c>> \in Seq(Steps) /\ DOMAIN <<c>> = {1} /\ <<c>>[1] = c
    OBVIOUS
  <2>3. t = <<c>>
    BY <1>3, <2>1
  <2> QED BY <2>1, <2>2, <2>3
<1>5. Todo(t) /\ main.pc = "running" /\ main.todo = <<>>
  BY <1>2, <1>3 DEF MainIsIdle, MainRuns
<1>6. main'.todo = t /\ main'.pc = "running"
  BY <1>1, <1>5 DEF Todo, MainTypes
<1>7. \A i \in DOMAIN t : StepIsFine(i)'
  <2>1. StepIsFine(1)'
    BY <1>2, <1>4, <1>6 DEF StepIsFine
  <2> QED BY <2>1, <1>4
<1>8. events \in 0..MaxEvents /\ events' \in 0..MaxEvents /\ events' = events + 1
  BY <1>1, <1>2, SnooperAssumption DEF RestTypes
<1>9. RestTypes'
  BY <1>1, <1>2, <1>8 DEF RestTypes
<1>10. Counted'
  BY <1>1, <1>2, <1>5, <1>6, <1>8 DEF Inv, Counted, RestTypes
<1>11. NeedIsServed'
  BY <1>2, <1>5, <1>6 DEF Inv, NeedIsServed, HasNeed, Busy
<1>12. ASSUME NEW q \in Panels, HasMessage(q) \/ HasNeed(q) \/ q \in handsOff PROVE OnItsWay(q)'
  BY <1>12, <1>2 DEF OnItsWay, HasMessage, IsNewer, HasNeed
<1>13. t # <<>> => t[1].do # "list"
  BY <1>4
<1> QED BY <1>1, <1>2, <1>4, <1>5, <1>7, <1>9, <1>10, <1>11, <1>12, <1>13, SomethingToDo

LEMMA DirectoryChangesKeeps == ASSUME Inv, NEW p \in Panels, DirectoryChanges(p) PROVE Inv'
<1>1. IInv' /\ IInv /\ MainTypes /\ RestTypes /\ WatchTypes
  BY CommandsKeep DEF Inv
<1>2. PICK P : P = {p} \union Others(p)
  OBVIOUS
<1>3. /\ events < MaxEvents /\ events' = events + 1 /\ dirty' = dirty \union P /\ P \subseteq Panels
      /\ signal' = [h \in Handles |-> IF \E q \in P : watched[q] = h THEN Raised(signal[h]) ELSE signal[h]]
      /\ UNCHANGED <<watched, mutex, event, sn, main, msgs, smTimer, suspended, need, handsOff>>
  BY <1>2 DEF DirectoryChanges, Others
<1>4. events \in 0..MaxEvents /\ events' \in 0..MaxEvents
  BY <1>1, <1>3, SnooperAssumption DEF RestTypes
<1>5. RestTypes'
  BY <1>1, <1>3, <1>4 DEF RestTypes
<1>6. Counted'
  BY <1>1, <1>3, <1>4 DEF Inv, Counted, RestTypes
<1>7. /\ signal' \in [Handles -> {"no", "yes", "more"}]
      /\ \A h \in Handles : signal[h] # "no" => signal'[h] # "no"
      /\ \A h \in Handles : signal'[h] # "no" => signal[h] # "no" \/ \E q \in P : watched[q] = h
      /\ \A h \in Handles : (\E q \in P : watched[q] = h) => signal'[h] # "no"
  BY <1>1, <1>3 DEF WatchTypes, Raised
<1>8. WatchTypes'
  BY <1>1, <1>3, <1>7 DEF WatchTypes
<1>9. /\ SnoopTypes' /\ MainTypes' /\ msgs' \in Seq(Messages) /\ NeedIsServed'
  BY <1>3 DEF Inv, SnoopTypes, MainTypes, NeedIsServed, HasNeed, Busy
<1>10. TodoIsFine'
  BY <1>3 DEF Inv, TodoIsFine, StepIsFine, InTodo, HasNeed
<1>11. MainKnows'
  BY <1>3 DEF Inv, MainKnows, Registered, HasMessage, IsNewer
<1>12. SnooperRemembers'
  <2>1. sn.pc = "rearming" => OnItsWay(sn.panel)'
    BY <1>3
    DEF Inv, SnooperRemembers, OnItsWay, HasMessage, IsNewer, HasNeed, Posts, Afresh, InTodo
  <2> QED BY <2>1, <1>3 DEF Inv, SnooperRemembers, Place, HandingOver, Others
<1>13. AllCome'
  <2> SUFFICES ASSUME NEW q \in Panels, q \in dirty' \/ watched[q] = None PROVE Comes(q)'
    BY <1>3 DEF AllCome
  <2>1. watched[q] # None => watched[q] \in Handles
    BY <1>1 DEF WatchTypes
  <2>2. CASE q \in P /\ watched[q] # None
    BY <2>1, <2>2, <1>3, <1>7 DEF Comes, Signalled
  <2>3. CASE ~(q \in P /\ watched[q] # None)
    <3>1. Comes(q)
      BY <2>3, <1>3 DEF Inv, AllCome
    <3>2. Signalled(q) => Signalled(q)'
      BY <2>1, <1>3, <1>7 DEF Signalled
    <3> QED BY <3>1, <3>2, <1>3 DEF Comes, HasMessage, IsNewer, HasNeed, Lists, Posts, InTodo
  <2> QED BY <2>2, <2>3
<1> QED BY <1>1, <1>5, <1>6, <1>8, <1>9, <1>10, <1>11, <1>12, <1>13 DEF Inv

LEMMA InitIsFine == Init => Inv
<1> SUFFICES ASSUME Init PROVE Inv
  OBVIOUS
<1>1. IInv
  BY InitEstablishes
<1>2. /\ watched \in [Panels -> Handles] /\ \A p, q \in Panels : watched[p] = watched[q] => p = q
      /\ signal = [h \in Handles |-> "no"] /\ mutex = "snooper"
      /\ sn = [pc |-> "watching", back |-> "watching", panel |-> None, same |-> None,
               refresh |-> {}, ignore |-> FALSE]
      /\ main = [pc |-> "running", todo |-> <<>>] /\ msgs = <<>> /\ smTimer = {}
      /\ suspended = [snooper |-> 0, refresh |-> 0]
      /\ need = [p \in Panels |-> [set |-> FALSE, newer |-> FALSE]]
      /\ handsOff = {} /\ dirty = {} /\ events = 0
  BY DEF Init
<1>3. WatchTypes /\ SnoopTypes
  BY <1>2 DEF WatchTypes, SnoopTypes, Waiting
<1>4. main.pc = "running" /\ main.todo = <<>> /\ MainTypes
  BY <1>2 DEF MainTypes
<1>5. msgs \in Seq(Messages) /\ DOMAIN msgs = {}
  BY <1>2
<1>6. RestTypes
  BY <1>2, SnooperAssumption DEF RestTypes
<1>7. SnooperRemembers
  BY <1>2 DEF SnooperRemembers, Place, HandingOver
<1>8. TodoIsFine /\ MainKnows
  BY <1>4 DEF TodoIsFine, MainKnows
<1>9. NeedIsServed /\ Counted
  BY <1>2, <1>4 DEF NeedIsServed, HasNeed, Counted
<1>10. AllCome
  BY <1>2, SnooperAssumption DEF AllCome
<1> QED BY <1>1, <1>3, <1>4, <1>5, <1>6, <1>7, <1>8, <1>9, <1>10 DEF Inv

LEMMA StutterKeeps == ASSUME Inv, UNCHANGED vars PROVE Inv'
<1>1. UNCHANGED <<watched, signal, mutex, event, sn, main, msgs, smTimer, suspended,
                  need, handsOff, events, dirty>>
  BY DEF vars
<1>2. IInv'
  BY <1>1 DEF Inv, IInv, Types, Protocol, Orders, Asked, Offered, Taken, Returned, HandingOver
<1>3. SnoopTypes' /\ mutex' \in {"snooper", "main", "free"}
  BY <1>1 DEF Inv, SnoopTypes, RestTypes
<1>4. Place' = Place
  BY <1>1 DEF Place, HandingOver
<1>5. CASE sn.pc # "rearming"
  BY <1>1, <1>2, <1>3, <1>4, <1>5, OnlySnooperMoves
<1>6. CASE sn.pc = "rearming"
  <2>1. /\ WatchTypes' /\ msgs' \in Seq(Messages)
    BY <1>1 DEF Inv, WatchTypes
  <2>2. SnooperRemembers'
    <3>1. OnItsWay(sn.panel)'
      BY <1>1, <1>6
      DEF Inv, SnooperRemembers, OnItsWay, HasMessage, IsNewer, HasNeed, Posts, Afresh, InTodo
    <3> QED BY <3>1, <1>1 DEF Inv, SnooperRemembers, Place, HandingOver, Others
  <2>3. AllCome'
    BY <1>1 DEF Inv, AllCome, Comes, Signalled, HasMessage, IsNewer, HasNeed, Lists, Posts, InTodo
  <2>4. \A p \in Panels : Registered(p) => Registered(p)'
    BY <1>1 DEF Registered, HasMessage, IsNewer
  <2> QED BY <1>1, <1>2, <1>3, <1>6, <2>1, <2>2, <2>3, <2>4, SnooperStepIsFine
<1> QED BY <1>5, <1>6

LEMMA InvIsInvariant == Spec => []Inv
<1>1. Inv /\ [Next]_vars => Inv'
  BY SnooperKeepsInv, MainKeepsInv, EndSuspendModeKeeps, EndStopRefreshKeeps, TakeUpKeeps,
     BeginSuspendModeKeeps, BeginStopRefreshKeeps, DirectoryChangesKeeps, LetGoKeeps, StutterKeeps
  DEF Next, CommandEnds
<1> QED BY <1>1, InitIsFine, PTL DEF Spec

(* Every variable keeps its type, for all handles and any number of events: no *)
(* two panels share a notification handle, a handle nobody watches is not      *)
(* signalled, and the counters of suspend mode stay within the commands that   *)
(* raised them (SnooperSuspended, StopRefresh).                                *)
THEOREM TypeCorrect == Spec => []TypeOK
<1>1. Inv => TypeOK
  BY InvIsEnough
<1> QED BY <1>1, InvIsInvariant, PTL

(* No change of a directory is lost, for every number of events and messages:  *)
(* a panel that shows an old listing, or that nobody watches, has something on *)
(* its way that makes it read its directory and that the comparison with       *)
(* LastRefreshTime will not drop (WM_USER_REFRESH_DIR, WM_USER_S_REFRESH_DIR,  *)
(* NeedRefreshAfterEndOfSM, HandsOff).                                         *)
THEOREM NothingIsMissed == Spec => []NoChangeIsLost
<1>1. Inv => NoChangeIsLost
  BY InvIsEnough
<1> QED BY <1>1, InvIsInvariant, PTL

(* Every step of the watcher is a step or a stutter of PanelView: a listing    *)
(* gets older only by a change of the directory, for the panels that show it,  *)
(* and newer only when the panel reads it.                                     *)
THEOREM StepsAsPromised == Spec => View!Init /\ [][View!Next]_dirty
<1>1. Init => View!Init
  BY DEF Init, View!Init
<1>2. Inv /\ [Next]_vars => [View!Next]_dirty
  <2> SUFFICES ASSUME Inv, [Next]_vars PROVE View!Next \/ UNCHANGED dirty
    OBVIOUS
  <2>1. CASE ReadListing
    <3>1. Step.panel \in Panels
      BY <2>1, TodoFacts DEF ReadListing, NextStep
    <3> QED BY <2>1, <3>1 DEF ReadListing, View!Next, View!Read
  <2>2. ASSUME NEW p \in Panels, DirectoryChanges(p) PROVE View!Next
    <3>1. dirty \subseteq Panels /\ Others(p) \subseteq Panels
      BY DEF Inv, RestTypes, Others
    <3> QED BY <2>2, <3>1 DEF DirectoryChanges, View!Next, View!Change
  <2>3. CASE SnooperStep
    BY <2>3 DEF SnooperStep, GiveData, SeeDataTaken, TakeDataBack, FindNextChange, NoticeChange,
       NoticeSuspended, EndRefreshWait, StopIgnoring, BeginSuspend, EndSuspend, PostAfterSuspend
  <2>4. CASE MainStep
    BY <2>1, <2>4 DEF MainStep, AskForData, TakeData, ChangeData, DataReturned, SuspendChanged,
       HandleRefresh, HandleEndNotify, Stamp, RefreshFinished, TakenUp
  <2>5. CASE CommandEnds \/ BeginSuspendMode \/ BeginStopRefresh \/ \E p \in Panels : LetGo(p)
    BY <2>5 DEF CommandEnds, EndSuspendMode, EndStopRefresh, TakeUp, BeginSuspendMode,
       BeginStopRefresh, LetGo
  <2>6. CASE UNCHANGED vars
    BY <2>6 DEF vars
  <2> QED BY <2>2, <2>3, <2>4, <2>5, <2>6 DEF Next
<1> QED BY <1>1, <1>2, InvIsInvariant, PTL DEF Spec
=============================================================================
