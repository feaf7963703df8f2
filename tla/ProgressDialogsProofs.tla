----------------------- MODULE ProgressDialogsProofs -----------------------
(***************************************************************************)
(* ProgressDialogs, for any number of dialogs and clicks (CProgressDialog  *)
(* in src/src/dialogs.cpp, COperationsQueue in src/src/worker.cpp): a      *)
(* paused operation does not run on behind the user's back, and the queue  *)
(* never waits for nobody.                                                 *)
(***************************************************************************)
EXTENDS ProgressDialogs, TLAPS

Phases == {"new", "opened", "running", "ended", "gone"}

Types ==
    /\ msgs \in [Dlgs -> Seq(Messages)]
    /\ phase \in [Dlgs -> Phases]
    /\ worker \in [Dlgs -> {"none", "working", "done"}]
    /\ nested \in [Dlgs -> {"none", "question", "menu", "menuwait"}]
    /\ notSuspended \in [Dlgs -> BOOLEAN] /\ showPause \in [Dlgs -> BOOLEAN]
    /\ accept \in [Dlgs -> BOOLEAN] /\ cancel \in [Dlgs -> BOOLEAN]

Once(s) == \A i, j \in DOMAIN s : s[i] = "start" /\ s[j] = "start" => i = j

\* a dialog starts once and ends after its worker
LifeInOrder(d) ==
    /\ Once(msgs[d])
    /\ "start" \in SeqRange(msgs[d]) => phase[d] = "opened"
    /\ "end" \in SeqRange(msgs[d]) => phase[d] \in {"ended", "gone"}
    /\ worker[d] # "none" => phase[d] = "running"

\* a menu opens over a dialog that is not minimized, nor about to be
MenuIsOnScreen(d) ==
    nested[d] \in {"menu", "menuwait"} =>
        /\ phase[d] \notin {"new", "opened"}
        /\ accept[d] /\ "minimize" \notin SeqRange(msgs[d])

\* the worker runs behind Resume only if it is cancelled or will be minimized
Suspended(d) ==
    worker[d] = "working" /\ notSuspended[d] =>
        showPause[d] \/ cancel[d] \/ (accept[d] /\ "minimize" \in SeqRange(msgs[d]))

DlgOK(d) == LifeInOrder(d) /\ MenuIsOnScreen(d) /\ Suspended(d)

IInv == Types /\ \A d \in Dlgs : DlgOK(d)

-----------------------------------------------------------------------------
(* Queues of messages *)

LEMMA Appended ==
    ASSUME NEW s \in Seq(Messages), NEW m \in Messages
    PROVE  /\ Append(s, m) \in Seq(Messages)
           /\ SeqRange(Append(s, m)) = SeqRange(s) \union {m}
           /\ m # "start" /\ Once(s) => Once(Append(s, m))
           /\ "start" \notin SeqRange(s) => Once(Append(s, m))
<1> DEFINE t == Append(s, m)
<1>1. /\ t \in Seq(Messages) /\ Len(t) = Len(s) + 1 /\ Len(s) \in Nat
      /\ DOMAIN s = 1..Len(s) /\ DOMAIN t = 1..Len(s) + 1
      /\ t[Len(s) + 1] = m /\ \A i \in 1..Len(s) : t[i] = s[i]
  OBVIOUS
<1> HIDE DEF t
<1>2. SeqRange(t) = SeqRange(s) \union {m}
  BY <1>1 DEF SeqRange
<1>3. m # "start" /\ Once(s) => Once(t)
  BY <1>1 DEF Once
<1>4. "start" \notin SeqRange(s) => Once(t)
  BY <1>1 DEF Once, SeqRange
<1> QED
  BY <1>1, <1>2, <1>3, <1>4 DEF t

LEMMA TakenFrom ==
    ASSUME NEW s \in Seq(Messages), s # <<>>
    PROVE  /\ Tail(s) \in Seq(Messages)
           /\ SeqRange(Tail(s)) \subseteq SeqRange(s)
           /\ SeqRange(s) \subseteq SeqRange(Tail(s)) \union {Head(s)}
           /\ Head(s) \in SeqRange(s)
           /\ Once(s) => Once(Tail(s))
           /\ Once(s) /\ Head(s) = "start" => "start" \notin SeqRange(Tail(s))
<1> DEFINE t == Tail(s)
<1>1. /\ t \in Seq(Messages) /\ Len(s) \in Nat \ {0} /\ Len(t) = Len(s) - 1
      /\ DOMAIN s = 1..Len(s) /\ DOMAIN t = 1..Len(s) - 1
      /\ Head(s) = s[1] /\ \A i \in 1..Len(s) - 1 : t[i] = s[i + 1]
  OBVIOUS
<1> HIDE DEF t
<1>2. \A i \in DOMAIN t : i + 1 \in DOMAIN s /\ t[i] = s[i + 1]
  BY <1>1
<1>3. SeqRange(t) \subseteq SeqRange(s) /\ Head(s) \in SeqRange(s)
  BY <1>1, <1>2 DEF SeqRange
<1>4. \A i \in DOMAIN s : i = 1 \/ (i - 1 \in DOMAIN t /\ t[i - 1] = s[i])
  BY <1>1
<1>5. SeqRange(s) \subseteq SeqRange(t) \union {Head(s)}
  BY <1>1, <1>4 DEF SeqRange
<1>6. Once(s) => Once(t)
  BY <1>1, <1>2 DEF Once
<1>7. Once(s) /\ Head(s) = "start" => "start" \notin SeqRange(t)
  BY <1>1, <1>2 DEF Once, SeqRange
<1> QED
  BY <1>1, <1>3, <1>5, <1>6, <1>7 DEF t

LEMMA Posted ==
    ASSUME NEW ms \in [Dlgs -> Seq(Messages)], NEW S, NEW m \in Messages
    PROVE  /\ Post(ms, S, m) \in [Dlgs -> Seq(Messages)]
           /\ \A d \in Dlgs : /\ d \notin S => Post(ms, S, m)[d] = ms[d]
                              /\ d \in S => Post(ms, S, m)[d] = Append(ms[d], m)
<1>1. \A d \in Dlgs : Append(ms[d], m) \in Seq(Messages)
  BY Appended
<1> QED
  BY <1>1 DEF Post

LEMMA PostedTo ==
    ASSUME NEW ms \in [Dlgs -> Seq(Messages)], NEW d \in Dlgs, NEW m \in Messages
    PROVE  /\ Post(ms, {d}, m) \in [Dlgs -> Seq(Messages)]
           /\ Post(ms, {d}, m)[d] = Append(ms[d], m)
           /\ \A e \in Dlgs \ {d} : Post(ms, {d}, m)[e] = ms[e]
<1>1. Post(ms, {d}, m) \in [Dlgs -> Seq(Messages)]
  BY Posted
<1> QED
  BY <1>1 DEF Post

LEMMA PostedSome ==
    ASSUME NEW ms \in [Dlgs -> Seq(Messages)], NEW S, NEW m \in Messages
    PROVE  /\ Post(ms, S, m) \in [Dlgs -> Seq(Messages)]
           /\ \A e \in Dlgs : Post(ms, S, m)[e] = ms[e] \/ Post(ms, S, m)[e] = Append(ms[e], m)
<1>1. Post(ms, S, m) \in [Dlgs -> Seq(Messages)]
  BY Posted
<1> QED
  BY <1>1 DEF Post

-----------------------------------------------------------------------------
(* What others do to a dialog: they post to it *)

Fixed(d) ==
    /\ phase'[d] = phase[d] /\ worker'[d] = worker[d] /\ nested'[d] = nested[d]
    /\ notSuspended'[d] = notSuspended[d] /\ showPause'[d] = showPause[d]
    /\ accept'[d] = accept[d] /\ cancel'[d] = cancel[d]

Grown(d) ==
    \/ msgs'[d] = msgs[d]
    \/ \E m \in Messages \ {"start", "end", "minimize"} : msgs'[d] = Append(msgs[d], m)

LEMMA OthersPost ==
    ASSUME IInv, NEW d \in Dlgs, Fixed(d), Grown(d)
    PROVE  DlgOK(d)'
<1>1. DlgOK(d) /\ msgs[d] \in Seq(Messages)
  BY DEF IInv, Types
<1>2. CASE msgs'[d] = msgs[d]
  BY <1>1, <1>2 DEF DlgOK, LifeInOrder, MenuIsOnScreen, Suspended, Fixed
<1>3. ASSUME NEW m \in Messages \ {"start", "end", "minimize"},
             msgs'[d] = Append(msgs[d], m)
      PROVE  DlgOK(d)'
  <2>1. SeqRange(msgs'[d]) = SeqRange(msgs[d]) \union {m} /\ (Once(msgs[d]) => Once(msgs'[d]))
    BY <1>1, <1>3, Appended
  <2> QED
    BY <1>1, <2>1 DEF DlgOK, LifeInOrder, MenuIsOnScreen, Suspended, Fixed
<1> QED
  BY <1>2, <1>3 DEF Grown

\* what a step of dialog d has to show
Changes(d) ==
    Types' /\ DlgOK(d)' /\ \A e \in Dlgs \ {d} : Fixed(e) /\ Grown(e)

LEMMA ChangeKeeps ==
    ASSUME IInv, NEW d \in Dlgs, Changes(d)
    PROVE  IInv'
<1>1. \A e \in Dlgs \ {d} : DlgOK(e)'
  BY OthersPost DEF Changes
<1> QED
  BY <1>1 DEF Changes, IInv

LEMMA InitEstablishes == Init => IInv
<1> SUFFICES ASSUME Init PROVE IInv
  OBVIOUS
<1>1. Types
  BY DEF Init, Types, Phases
<1>2. \A d \in Dlgs : msgs[d] = <<>> /\ worker[d] = "none" /\ nested[d] = "none"
  BY DEF Init
<1>3. \A d \in Dlgs : DOMAIN msgs[d] = {}
  BY <1>2
<1>4. \A d \in Dlgs : SeqRange(msgs[d]) = {} /\ Once(msgs[d])
  BY <1>3 DEF SeqRange, Once
<1>5. \A d \in Dlgs : DlgOK(d)
  BY <1>2, <1>4 DEF DlgOK, LifeInOrder, MenuIsOnScreen, Suspended
<1> QED
  BY <1>1, <1>5 DEF IInv

-----------------------------------------------------------------------------
(* The messages of a dialog's thread *)

\* the message is gone, and nothing else was before it
LEMMA Handling ==
    ASSUME IInv, NEW d \in Dlgs, NEW m \in Messages, Handles(d, m)
    PROVE  /\ DlgOK(d) /\ msgs[d] \in Seq(Messages) /\ m \in SeqRange(msgs[d])
           /\ Taken(d) \in [Dlgs -> Seq(Messages)] /\ Taken(d)[d] = Tail(msgs[d])
           /\ \A e \in Dlgs \ {d} : Taken(d)[e] = msgs[e]
           /\ Once(Taken(d)[d])
           /\ SeqRange(Taken(d)[d]) \subseteq SeqRange(msgs[d])
           /\ SeqRange(msgs[d]) \subseteq SeqRange(Taken(d)[d]) \union {m}
           /\ m = "start" => "start" \notin SeqRange(Taken(d)[d])
<1>1. DlgOK(d) /\ msgs \in [Dlgs -> Seq(Messages)] /\ msgs[d] # <<>> /\ Head(msgs[d]) = m
  BY DEF IInv, Types, Handles
<1>2. Once(msgs[d])
  BY <1>1 DEF DlgOK, LifeInOrder
<1>3. /\ Tail(msgs[d]) \in Seq(Messages)
      /\ SeqRange(Tail(msgs[d])) \subseteq SeqRange(msgs[d])
      /\ SeqRange(msgs[d]) \subseteq SeqRange(Tail(msgs[d])) \union {m}
      /\ m \in SeqRange(msgs[d]) /\ Once(Tail(msgs[d]))
      /\ m = "start" => "start" \notin SeqRange(Tail(msgs[d]))
  BY <1>1, <1>2, TakenFrom
<1>4. /\ Taken(d) \in [Dlgs -> Seq(Messages)] /\ Taken(d)[d] = Tail(msgs[d])
      /\ \A e \in Dlgs \ {d} : Taken(d)[e] = msgs[e]
  BY <1>1, <1>3 DEF Taken
<1> QED
  BY <1>1, <1>3, <1>4

LEMMA StartChanges == ASSUME IInv, NEW d \in Dlgs, HandleStart(d) PROVE Changes(d)
<1>1. PICK paused \in BOOLEAN :
         /\ notSuspended' = [notSuspended EXCEPT ![d] = ~paused]
         /\ showPause' = [showPause EXCEPT ![d] = ~paused]
         /\ msgs' = (IF paused THEN Post(Taken(d), {d}, "minimize") ELSE Taken(d))
  <2>1. PICK idle \in IdleFlags :
           LET paused == StartPaused(queue, idle)
           IN  /\ notSuspended' = [notSuspended EXCEPT ![d] = ~paused]
               /\ showPause' = [showPause EXCEPT ![d] = ~paused]
               /\ msgs' = (IF paused THEN Post(Taken(d), {d}, "minimize") ELSE Taken(d))
    BY DEF HandleStart
  <2>2. StartPaused(queue, idle) \in BOOLEAN
    BY DEF StartPaused, AllAutoPaused
  <2> QED
    BY <2>1, <2>2
<1>2. /\ phase' = [phase EXCEPT ![d] = "running"]
      /\ worker' = [worker EXCEPT ![d] = "working"]
      /\ UNCHANGED <<cancel, accept, nested>> /\ Handles(d, "start")
  BY DEF HandleStart, ui
<1>3. /\ DlgOK(d) /\ "start" \in SeqRange(msgs[d])
      /\ Taken(d) \in [Dlgs -> Seq(Messages)] /\ Once(Taken(d)[d])
      /\ SeqRange(Taken(d)[d]) \subseteq SeqRange(msgs[d]) /\ "start" \notin SeqRange(Taken(d)[d])
      /\ \A e \in Dlgs \ {d} : Taken(d)[e] = msgs[e]
  BY <1>2, Handling DEF Messages
<1>4. phase[d] = "opened" /\ "end" \notin SeqRange(msgs[d])
  BY <1>3 DEF DlgOK, LifeInOrder
<1>5. /\ msgs' \in [Dlgs -> Seq(Messages)] /\ Once(msgs'[d])
      /\ SeqRange(msgs'[d]) \subseteq SeqRange(Taken(d)[d]) \union {"minimize"}
      /\ \A e \in Dlgs \ {d} : msgs'[e] = msgs[e]
  <2>1. "minimize" \in Messages /\ "minimize" # "start"
    BY DEF Messages
  <2>2. /\ Append(Taken(d)[d], "minimize") \in Seq(Messages)
        /\ Once(Append(Taken(d)[d], "minimize"))
        /\ SeqRange(Append(Taken(d)[d], "minimize")) = SeqRange(Taken(d)[d]) \union {"minimize"}
    <3>1. Taken(d)[d] \in Seq(Messages) /\ "start" \notin SeqRange(Taken(d)[d])
      BY <1>3
    <3> HIDE DEF Taken
    <3> QED
      BY <2>1, <3>1, Appended
  <2>3. /\ Post(Taken(d), {d}, "minimize") \in [Dlgs -> Seq(Messages)]
        /\ Post(Taken(d), {d}, "minimize")[d] = Append(Taken(d)[d], "minimize")
        /\ \A e \in Dlgs \ {d} : Post(Taken(d), {d}, "minimize")[e] = Taken(d)[e]
    <3>1. Taken(d) \in [Dlgs -> Seq(Messages)]
      BY <1>3
    <3>2. \A e \in Dlgs : /\ e \notin {d} => Post(Taken(d), {d}, "minimize")[e] = Taken(d)[e]
                          /\ e \in {d} => Post(Taken(d), {d}, "minimize")[e]
                                             = Append(Taken(d)[e], "minimize")
      BY <2>1, <3>1, Posted
    <3>3. Post(Taken(d), {d}, "minimize") \in [Dlgs -> Seq(Messages)]
      BY <2>1, <3>1, Posted
    <3> QED
      BY <3>2, <3>3
  <2> QED
    BY <1>1, <1>3, <2>2, <2>3
<1>6. /\ phase'[d] = "running" /\ worker'[d] = "working"
      /\ notSuspended'[d] = ~paused /\ showPause'[d] = ~paused /\ nested'[d] = nested[d]
  BY <1>1, <1>2 DEF IInv, Types
<1>7. DlgOK(d)'
  BY <1>3, <1>4, <1>5, <1>6 DEF DlgOK, LifeInOrder, MenuIsOnScreen, Suspended
<1>8. Types'
  BY <1>1, <1>2, <1>5 DEF IInv, Types, Phases
<1>9. \A e \in Dlgs \ {d} : Fixed(e) /\ Grown(e)
  BY <1>1, <1>2, <1>5 DEF IInv, Types, Fixed, Grown
<1> QED
  BY <1>7, <1>8, <1>9 DEF Changes

LEMMA EndChanges == ASSUME IInv, NEW d \in Dlgs, HandleEnd(d) PROVE Changes(d)
<1>1. /\ msgs' = Post(Taken(d), ToResume(queue'), "resume")
      /\ phase' = [phase EXCEPT ![d] = "gone"] /\ Handles(d, "end")
      /\ UNCHANGED <<worker, notSuspended, showPause, cancel, accept, nested>>
  BY DEF HandleEnd, ui
<1>2. /\ DlgOK(d) /\ "end" \in SeqRange(msgs[d])
      /\ Taken(d) \in [Dlgs -> Seq(Messages)] /\ Once(Taken(d)[d])
      /\ SeqRange(Taken(d)[d]) \subseteq SeqRange(msgs[d])
      /\ SeqRange(msgs[d]) \subseteq SeqRange(Taken(d)[d]) \union {"end"}
      /\ \A e \in Dlgs \ {d} : Taken(d)[e] = msgs[e]
  BY <1>1, Handling DEF Messages
<1>3. phase[d] \in {"ended", "gone"} /\ worker[d] = "none" /\ "start" \notin SeqRange(msgs[d])
  BY <1>2 DEF DlgOK, LifeInOrder, IInv, Types
<1>4. /\ msgs' \in [Dlgs -> Seq(Messages)]
      /\ \A e \in Dlgs : \/ msgs'[e] = Taken(d)[e]
                         \/ msgs'[e] = Append(Taken(d)[e], "resume")
  <2>1. "resume" \in Messages
    BY DEF Messages
  <2> QED
    BY <1>1, <1>2, <2>1, Posted
<1>5. /\ SeqRange(msgs'[d]) \subseteq SeqRange(Taken(d)[d]) \union {"resume"}
      /\ Once(msgs'[d])
  <2>1. CASE msgs'[d] = Taken(d)[d]
    BY <1>2, <2>1
  <2>2. CASE msgs'[d] = Append(Taken(d)[d], "resume")
    <3>1. "resume" \in Messages /\ "resume" # "start" /\ Taken(d)[d] \in Seq(Messages)
      BY <1>2 DEF Messages
    <3>2. /\ Once(Append(Taken(d)[d], "resume"))
          /\ SeqRange(Append(Taken(d)[d], "resume")) = SeqRange(Taken(d)[d]) \union {"resume"}
      BY <3>1, <1>2, Appended
    <3> QED
      BY <2>2, <3>2
  <2> QED
    BY <1>4, <2>1, <2>2
<1>6. phase'[d] = "gone" /\ worker'[d] = "none"
  BY <1>1, <1>3 DEF IInv, Types
<1>7. DlgOK(d)'
  BY <1>1, <1>2, <1>3, <1>5, <1>6 DEF DlgOK, LifeInOrder, MenuIsOnScreen, Suspended
<1>8. Types'
  BY <1>1, <1>4 DEF IInv, Types, Phases
<1>9. \A e \in Dlgs \ {d} : Fixed(e) /\ Grown(e)
  BY <1>1, <1>2, <1>4 DEF IInv, Types, Fixed, Grown, Messages
<1> QED
  BY <1>7, <1>8, <1>9 DEF Changes

LEMMA ResumeChanges == ASSUME IInv, NEW d \in Dlgs, HandleResume(d) PROVE Changes(d)
<1>1. PICK m \in {"resume", "pauseresume"} :
         /\ Handles(d, m) /\ msgs' = Taken(d)
         /\ \/ /\ notSuspended' = [notSuspended EXCEPT ![d] = ~showPause[d]]
               /\ showPause' = [showPause EXCEPT ![d] = ~@]
            \/ UNCHANGED <<notSuspended, showPause>>
         /\ UNCHANGED <<phase, worker, cancel, accept, nested>>
  <2>1. PICK auto \in BOOLEAN :
           /\ Handles(d, IF auto THEN "resume" ELSE "pauseresume")
           /\ msgs' = Taken(d)
           /\ \/ /\ notSuspended' = [notSuspended EXCEPT ![d] = ~showPause[d]]
                 /\ showPause' = [showPause EXCEPT ![d] = ~@]
              \/ UNCHANGED <<notSuspended, showPause>>
           /\ UNCHANGED <<phase, worker, cancel, accept, nested>>
    BY DEF HandleResume, Toggle, ui
  <2> QED
    BY <2>1
<1>2. /\ DlgOK(d) /\ msgs'[d] \in Seq(Messages) /\ Once(msgs'[d])
      /\ msgs' \in [Dlgs -> Seq(Messages)]
      /\ SeqRange(msgs'[d]) \subseteq SeqRange(msgs[d])
      /\ SeqRange(msgs[d]) \subseteq SeqRange(msgs'[d]) \union {m}
      /\ \A e \in Dlgs \ {d} : msgs'[e] = msgs[e]
  BY <1>1, Handling DEF Messages
<1>3. \/ notSuspended'[d] = showPause'[d]
      \/ notSuspended'[d] = notSuspended[d] /\ showPause'[d] = showPause[d]
  BY <1>1 DEF IInv, Types
<1>4. Types'
  BY <1>1, <1>2 DEF IInv, Types
<1>5. DlgOK(d)'
  BY <1>1, <1>2, <1>3 DEF DlgOK, LifeInOrder, MenuIsOnScreen, Suspended
<1>6. \A e \in Dlgs \ {d} : Fixed(e) /\ Grown(e)
  BY <1>1, <1>2 DEF IInv, Types, Fixed, Grown
<1> QED
  BY <1>4, <1>5, <1>6 DEF Changes

LEMMA CancelAllChanges == ASSUME IInv, NEW d \in Dlgs, HandleCancelAll(d) PROVE Changes(d)
<1>1. /\ Handles(d, "cancelall") /\ msgs' = Taken(d)
      /\ cancel' = [cancel EXCEPT ![d] = TRUE]
      /\ notSuspended' = [notSuspended EXCEPT ![d] = @ \/ phase[d] = "running"]
      /\ nested' = [nested EXCEPT ![d] = IF @ = "question" THEN "none" ELSE @]
      /\ UNCHANGED <<phase, worker, showPause, accept>>
  BY DEF HandleCancelAll
<1>2. /\ DlgOK(d) /\ Once(msgs'[d]) /\ msgs' \in [Dlgs -> Seq(Messages)]
      /\ SeqRange(msgs'[d]) \subseteq SeqRange(msgs[d])
      /\ \A e \in Dlgs \ {d} : msgs'[e] = msgs[e]
  BY <1>1, Handling DEF Messages
<1>3. cancel'[d] = TRUE /\ (nested'[d] = "none" \/ nested'[d] = nested[d])
  BY <1>1 DEF IInv, Types
<1>4. Types'
  BY <1>1, <1>2 DEF IInv, Types
<1>5. DlgOK(d)'
  BY <1>1, <1>2, <1>3 DEF DlgOK, LifeInOrder, MenuIsOnScreen, Suspended
<1>6. \A e \in Dlgs \ {d} : Fixed(e) /\ Grown(e)
  BY <1>1, <1>2 DEF IInv, Types, Fixed, Grown
<1> QED
  BY <1>4, <1>5, <1>6 DEF Changes

LEMMA MinimizeChanges == ASSUME IInv, NEW d \in Dlgs, HandleMinimize(d) PROVE Changes(d)
<1>1. Handles(d, "minimize") /\ UNCHANGED <<phase, worker, showPause, cancel, nested>>
  BY DEF HandleMinimize
<1>2. /\ DlgOK(d) /\ "minimize" \in SeqRange(msgs[d])
      /\ Taken(d) \in [Dlgs -> Seq(Messages)] /\ Once(Taken(d)[d])
      /\ SeqRange(Taken(d)[d]) \subseteq SeqRange(msgs[d])
      /\ \A e \in Dlgs \ {d} : Taken(d)[e] = msgs[e]
  BY <1>1, Handling DEF Messages
<1>3. nested[d] \notin {"menu", "menuwait"}
  BY <1>2 DEF DlgOK, MenuIsOnScreen
<1>4. CASE phase[d] = "running" /\ accept[d]
  <2>1. /\ accept' = [accept EXCEPT ![d] = FALSE]
        /\ notSuspended' = [notSuspended EXCEPT ![d] = showPause[d]]
        /\ msgs' = [msgs EXCEPT ![d] = <<>>]
    BY <1>4 DEF HandleMinimize
  <2>2. Types'
    BY <1>1, <2>1 DEF IInv, Types
  <2>3. msgs'[d] = <<>> /\ notSuspended'[d] = showPause'[d]
    BY <1>1, <2>1 DEF IInv, Types
  <2>4. SeqRange(msgs'[d]) = {} /\ Once(msgs'[d])
    BY <2>3 DEF SeqRange, Once
  <2>5. DlgOK(d)'
    BY <1>1, <1>2, <1>3, <2>3, <2>4 DEF DlgOK, LifeInOrder, MenuIsOnScreen, Suspended
  <2>6. \A e \in Dlgs \ {d} : Fixed(e) /\ Grown(e)
    BY <1>1, <2>1 DEF IInv, Types, Fixed, Grown
  <2> QED
    BY <2>2, <2>5, <2>6 DEF Changes
<1>5. CASE ~(phase[d] = "running" /\ accept[d])
  <2>1. msgs' = Taken(d) /\ UNCHANGED <<accept, notSuspended>>
    BY <1>5 DEF HandleMinimize
  <2>2. Types'
    BY <1>1, <1>2, <2>1 DEF IInv, Types
  <2>3. worker[d] = "none" \/ ~accept[d]
    BY <1>2, <1>5 DEF DlgOK, LifeInOrder, IInv, Types
  <2>4. LifeInOrder(d)' /\ MenuIsOnScreen(d)'
    BY <1>1, <1>2, <1>3, <2>1 DEF DlgOK, LifeInOrder, MenuIsOnScreen
  <2>5. Suspended(d)'
    BY <1>1, <1>2, <2>1, <2>3 DEF DlgOK, Suspended
  <2>6. \A e \in Dlgs \ {d} : Fixed(e) /\ Grown(e)
    BY <1>1, <1>2, <2>1 DEF Fixed, Grown
  <2> QED
    BY <2>2, <2>4, <2>5, <2>6 DEF Changes, DlgOK
<1> QED
  BY <1>4, <1>5

-----------------------------------------------------------------------------
(* The worker *)

LEMMA WorkerChanges ==
    ASSUME IInv, NEW d \in Dlgs, WorkerFinishes(d) \/ HandleIDOK(d) \/ FinishToggle(d)
    PROVE  Changes(d)
<1>1. DlgOK(d) /\ msgs \in [Dlgs -> Seq(Messages)]
  BY DEF IInv, Types
<1>2. CASE WorkerFinishes(d)
  <2>1. PICK error \in BOOLEAN : cancel' = [cancel EXCEPT ![d] = error]
    BY <1>2 DEF WorkerFinishes
  <2>2. /\ worker[d] = "working" /\ worker' = [worker EXCEPT ![d] = "done"]
        /\ UNCHANGED <<msgs, phase, notSuspended, showPause, accept, nested>>
    BY <1>2 DEF WorkerFinishes, ui
  <2>3. Types' /\ worker'[d] = "done"
    BY <2>1, <2>2 DEF IInv, Types
  <2>4. DlgOK(d)'
    BY <1>1, <2>2, <2>3 DEF DlgOK, LifeInOrder, MenuIsOnScreen, Suspended
  <2>5. \A e \in Dlgs \ {d} : Fixed(e) /\ Grown(e)
    BY <2>1, <2>2 DEF IInv, Types, Fixed, Grown
  <2> QED
    BY <2>3, <2>4, <2>5 DEF Changes
<1>3. CASE HandleIDOK(d)
  <2>1. /\ worker[d] = "done" /\ worker' = [worker EXCEPT ![d] = "none"]
        /\ phase' = [phase EXCEPT ![d] = "ended"]
        /\ nested' = [nested EXCEPT ![d] = IF @ = "question" THEN "none" ELSE @]
        /\ msgs' = Post(msgs, {d}, "end")
        /\ UNCHANGED <<notSuspended, showPause, accept, cancel>>
    BY <1>3 DEF HandleIDOK
  <2>2. "end" \in Messages /\ msgs[d] \in Seq(Messages)
    BY <1>1 DEF Messages
  <2>3. /\ msgs' \in [Dlgs -> Seq(Messages)] /\ msgs'[d] = Append(msgs[d], "end")
        /\ \A e \in Dlgs \ {d} : msgs'[e] = msgs[e]
    <3>1. msgs \in [Dlgs -> Seq(Messages)] /\ d \in Dlgs /\ "end" \in Messages
      BY <1>1, <2>2
    <3>2. /\ Post(msgs, {d}, "end") \in [Dlgs -> Seq(Messages)]
          /\ Post(msgs, {d}, "end")[d] = Append(msgs[d], "end")
          /\ \A e \in Dlgs \ {d} : Post(msgs, {d}, "end")[e] = msgs[e]
      BY ONLY <3>1, PostedTo
    <3> QED
      BY <2>1, <3>2
  <2>4. /\ SeqRange(msgs'[d]) = SeqRange(msgs[d]) \union {"end"}
        /\ Once(msgs[d]) => Once(msgs'[d])
    BY <2>2, <2>3, Appended
  <2>5. /\ phase[d] = "running" /\ "start" \notin SeqRange(msgs[d])
    BY <1>1, <2>1 DEF DlgOK, LifeInOrder
  <2>6. Types' /\ worker'[d] = "none" /\ phase'[d] = "ended"
    BY <2>1, <2>3 DEF IInv, Types, Phases
  <2>7. nested'[d] \in {nested[d], "none"}
    BY <2>1 DEF IInv, Types
  <2>8. DlgOK(d)'
    BY <1>1, <2>1, <2>4, <2>5, <2>6, <2>7 DEF DlgOK, LifeInOrder, MenuIsOnScreen, Suspended
  <2>9. \A e \in Dlgs \ {d} : Fixed(e) /\ Grown(e)
    BY <2>1, <2>3 DEF IInv, Types, Fixed, Grown
  <2> QED
    BY <2>6, <2>8, <2>9 DEF Changes
<1>4. CASE FinishToggle(d)
  <2>1. UNCHANGED <<msgs, phase, worker, notSuspended, showPause, cancel, accept, nested>>
    BY <1>4 DEF FinishToggle, ui
  <2>2. Types' /\ DlgOK(d)'
    BY <1>1, <2>1 DEF IInv, Types, DlgOK, LifeInOrder, MenuIsOnScreen, Suspended
  <2>3. \A e \in Dlgs \ {d} : Fixed(e) /\ Grown(e)
    BY <2>1 DEF Fixed, Grown
  <2> QED
    BY <2>2, <2>3 DEF Changes
<1> QED
  BY <1>2, <1>3, <1>4

-----------------------------------------------------------------------------
(* The user and the main window *)

\* a dialog in whose window something can be clicked
LEMMA Clickable ==
    ASSUME IInv, NEW d \in Dlgs, Clicked(d) \/ Restore(d)
    PROVE  /\ DlgOK(d) /\ phase[d] = "running" /\ msgs[d] = <<>> /\ SeqRange(msgs[d]) = {}
           /\ Clicked(d) => nested[d] = "none"
<1>1. DlgOK(d) /\ phase[d] = "running" /\ msgs[d] = <<>>
  BY DEF IInv, Clicked, Restore
<1>2. SeqRange(msgs[d]) = {}
  BY <1>1 DEF SeqRange
<1> QED
  BY <1>1, <1>2 DEF Clicked

LEMMA OpenChanges == ASSUME IInv, NEW d \in Dlgs, Open(d) PROVE Changes(d)
<1>1. /\ phase[d] = "new" /\ phase' = [phase EXCEPT ![d] = "opened"]
      /\ msgs' = Post(msgs, {d}, "start")
      /\ UNCHANGED <<worker, notSuspended, showPause, cancel, accept, nested>>
  BY DEF Open, ui
<1>2. DlgOK(d) /\ msgs \in [Dlgs -> Seq(Messages)] /\ msgs[d] \in Seq(Messages)
  BY DEF IInv, Types
<1>3. "start" \in Messages
  BY DEF Messages
<1>4. /\ msgs' \in [Dlgs -> Seq(Messages)] /\ msgs'[d] = Append(msgs[d], "start")
      /\ \A e \in Dlgs \ {d} : msgs'[e] = msgs[e]
  <2>1. msgs \in [Dlgs -> Seq(Messages)] /\ d \in Dlgs /\ "start" \in Messages
    BY <1>2, <1>3
  <2>2. /\ Post(msgs, {d}, "start") \in [Dlgs -> Seq(Messages)]
        /\ Post(msgs, {d}, "start")[d] = Append(msgs[d], "start")
        /\ \A e \in Dlgs \ {d} : Post(msgs, {d}, "start")[e] = msgs[e]
    BY ONLY <2>1, PostedTo
  <2> QED
    BY <1>1, <2>2
<1>5. "start" \notin SeqRange(msgs[d]) /\ "end" \notin SeqRange(msgs[d]) /\ worker[d] = "none"
  BY <1>1, <1>2 DEF DlgOK, LifeInOrder, IInv, Types
<1>6. SeqRange(msgs'[d]) = SeqRange(msgs[d]) \union {"start"} /\ Once(msgs'[d])
  BY <1>2, <1>3, <1>4, <1>5, Appended
<1>7. Types' /\ phase'[d] = "opened"
  BY <1>1, <1>4 DEF IInv, Types, Phases
<1>8. DlgOK(d)'
  BY <1>1, <1>2, <1>5, <1>6, <1>7 DEF DlgOK, LifeInOrder, MenuIsOnScreen, Suspended
<1>9. \A e \in Dlgs \ {d} : Fixed(e) /\ Grown(e)
  BY <1>1, <1>4 DEF IInv, Types, Fixed, Grown
<1> QED
  BY <1>7, <1>8, <1>9 DEF Changes

LEMMA ClickPauseChanges == ASSUME IInv, NEW d \in Dlgs, ClickPause(d) PROVE Changes(d)
<1>1. /\ Clicked(d)
      /\ \/ /\ notSuspended' = [notSuspended EXCEPT ![d] = ~showPause[d]]
            /\ showPause' = [showPause EXCEPT ![d] = ~@]
         \/ UNCHANGED <<notSuspended, showPause>>
      /\ UNCHANGED <<msgs, phase, worker, accept, cancel, nested>>
  BY DEF ClickPause, Toggle
<1>2. DlgOK(d)
  BY <1>1, Clickable
<1>3. \/ notSuspended'[d] = showPause'[d]
      \/ notSuspended'[d] = notSuspended[d] /\ showPause'[d] = showPause[d]
  BY <1>1 DEF IInv, Types
<1>4. Types'
  BY <1>1 DEF IInv, Types
<1>5. DlgOK(d)'
  BY <1>1, <1>2, <1>3 DEF DlgOK, LifeInOrder, MenuIsOnScreen, Suspended
<1>6. \A e \in Dlgs \ {d} : Fixed(e) /\ Grown(e)
  BY <1>1 DEF IInv, Types, Fixed, Grown
<1> QED
  BY <1>4, <1>5, <1>6 DEF Changes

LEMMA ClickCancelChanges == ASSUME IInv, NEW d \in Dlgs, ClickCancel(d) PROVE Changes(d)
<1>1. /\ Clicked(d)
      /\ notSuspended' = [notSuspended EXCEPT ![d] = FALSE]
      /\ nested' = [nested EXCEPT ![d] = "question"]
      /\ UNCHANGED <<msgs, phase, worker, showPause, accept, cancel>>
  BY DEF ClickCancel
<1>2. DlgOK(d)
  BY <1>1, Clickable
<1>3. Types' /\ notSuspended'[d] = FALSE /\ nested'[d] = "question"
  BY <1>1 DEF IInv, Types
<1>4. DlgOK(d)'
  BY <1>1, <1>2, <1>3 DEF DlgOK, LifeInOrder, MenuIsOnScreen, Suspended
<1>5. \A e \in Dlgs \ {d} : Fixed(e) /\ Grown(e)
  BY <1>1 DEF IInv, Types, Fixed, Grown
<1> QED
  BY <1>3, <1>4, <1>5 DEF Changes

LEMMA AnswerChanges ==
    ASSUME IInv, NEW d \in Dlgs, NEW yes \in BOOLEAN, AnswerQuestion(d, yes)
    PROVE  Changes(d)
<1>1. /\ nested' = [nested EXCEPT ![d] = "none"]
      /\ cancel' = [cancel EXCEPT ![d] = @ \/ yes]
      /\ notSuspended' = [notSuspended EXCEPT ![d] = @ \/ (yes \/ showPause[d])]
      /\ UNCHANGED <<msgs, phase, worker, showPause, accept>>
  BY DEF AnswerQuestion, ReleasedAfterQuestion
<1>2. DlgOK(d)
  BY DEF IInv
<1>3. Types'
  BY <1>1 DEF IInv, Types
<1>4. /\ nested'[d] = "none" /\ cancel'[d] = (cancel[d] \/ yes)
      /\ notSuspended'[d] = (notSuspended[d] \/ yes \/ showPause[d])
  BY <1>1 DEF IInv, Types
<1>5. DlgOK(d)'
  BY <1>1, <1>2, <1>4 DEF DlgOK, LifeInOrder, MenuIsOnScreen, Suspended
<1>6. \A e \in Dlgs \ {d} : Fixed(e) /\ Grown(e)
  BY <1>1 DEF IInv, Types, Fixed, Grown
<1> QED
  BY <1>3, <1>5, <1>6 DEF Changes

LEMMA OpenMenuChanges == ASSUME IInv, NEW d \in Dlgs, OpenMenu(d) PROVE Changes(d)
<1>1. /\ Clicked(d) /\ accept[d]
      /\ notSuspended' = [notSuspended EXCEPT ![d] = @ /\ ~showPause[d]]
      /\ nested' = [nested EXCEPT ![d] = IF Len(queue) > 1 THEN "menuwait" ELSE "menu"]
      /\ UNCHANGED <<msgs, phase, worker, showPause, accept, cancel>>
  BY DEF OpenMenu
<1>2. DlgOK(d) /\ phase[d] = "running" /\ SeqRange(msgs[d]) = {}
  BY <1>1, Clickable
<1>3. Types' /\ (notSuspended'[d] => notSuspended[d])
  BY <1>1 DEF IInv, Types
<1>4. DlgOK(d)'
  BY <1>1, <1>2, <1>3 DEF DlgOK, LifeInOrder, MenuIsOnScreen, Suspended
<1>5. \A e \in Dlgs \ {d} : Fixed(e) /\ Grown(e)
  BY <1>1 DEF IInv, Types, Fixed, Grown
<1> QED
  BY <1>3, <1>4, <1>5 DEF Changes

\* "Wait Until All Other Operations Are Finished" leaves the worker of a menu
\* that was opened over a paused operation as it is, and minimizes the dialog
LEMMA CloseMenuChanges == ASSUME IInv, NEW d \in Dlgs, CloseMenu(d) PROVE Changes(d)
<1>1. /\ nested[d] \in {"menu", "menuwait"} /\ msgs[d] = <<>>
      /\ nested' = [nested EXCEPT ![d] = "none"]
      /\ notSuspended' = [notSuspended EXCEPT ![d] = @ \/ showPause'[d]]
      /\ UNCHANGED <<phase, worker, accept, cancel>>
  BY DEF CloseMenu
<1>2. DlgOK(d) /\ msgs \in [Dlgs -> Seq(Messages)] /\ msgs[d] \in Seq(Messages)
  BY DEF IInv, Types
<1>3. SeqRange(msgs[d]) = {} /\ Once(msgs[d])
  BY <1>1, <1>2 DEF SeqRange, DlgOK, LifeInOrder
<1>4. accept[d] /\ phase[d] \notin {"new", "opened"}
  BY <1>1, <1>2 DEF DlgOK, MenuIsOnScreen
<1>5. "pauseresume" \in Messages /\ "minimize" \in Messages /\ "resume" \in Messages
  BY DEF Messages
<1>6. CASE UNCHANGED <<msgs, showPause>>
  <2>1. /\ Types' /\ nested'[d] = "none" /\ (notSuspended'[d] => notSuspended[d] \/ showPause'[d])
    BY <1>1, <1>6 DEF IInv, Types
  <2>2. DlgOK(d)'
    BY <1>1, <1>2, <1>6, <2>1 DEF DlgOK, LifeInOrder, MenuIsOnScreen, Suspended
  <2>3. \A e \in Dlgs \ {d} : Fixed(e) /\ Grown(e)
    BY <1>1, <1>6 DEF IInv, Types, Fixed, Grown
  <2> QED
    BY <2>1, <2>2, <2>3 DEF Changes
<1>7. CASE msgs' = Post(msgs, {d}, "pauseresume") /\ UNCHANGED showPause
  <2>1. /\ msgs' \in [Dlgs -> Seq(Messages)] /\ msgs'[d] = Append(msgs[d], "pauseresume")
        /\ \A e \in Dlgs \ {d} : msgs'[e] = msgs[e]
    <3>1. msgs \in [Dlgs -> Seq(Messages)] /\ d \in Dlgs /\ "pauseresume" \in Messages
      BY <1>2, <1>5
    <3>2. /\ Post(msgs, {d}, "pauseresume") \in [Dlgs -> Seq(Messages)]
          /\ Post(msgs, {d}, "pauseresume")[d] = Append(msgs[d], "pauseresume")
          /\ \A e \in Dlgs \ {d} : Post(msgs, {d}, "pauseresume")[e] = msgs[e]
      BY ONLY <3>1, PostedTo
    <3> QED
      BY <1>7, <3>2
  <2>2. SeqRange(msgs'[d]) = {"pauseresume"} /\ Once(msgs'[d])
    BY <1>2, <1>3, <1>5, <2>1, Appended
  <2>3. /\ Types' /\ nested'[d] = "none" /\ (notSuspended'[d] => notSuspended[d] \/ showPause'[d])
    BY <1>1, <1>7, <2>1 DEF IInv, Types
  <2>4. DlgOK(d)'
    BY <1>1, <1>2, <1>3, <1>7, <2>2, <2>3 DEF DlgOK, LifeInOrder, MenuIsOnScreen, Suspended
  <2>5. \A e \in Dlgs \ {d} : Fixed(e) /\ Grown(e)
    BY <1>1, <1>7, <2>1 DEF IInv, Types, Fixed, Grown
  <2> QED
    BY <2>3, <2>4, <2>5 DEF Changes
<1>8. ASSUME NEW S, msgs' = Post(Post(msgs, S, "resume"), {d}, "minimize"),
             showPause' = [showPause EXCEPT ![d] = FALSE]
      PROVE  Changes(d)
  <2> DEFINE ms == Post(msgs, S, "resume")
  <2>1. /\ ms \in [Dlgs -> Seq(Messages)]
        /\ \A e \in Dlgs : ms[e] = msgs[e] \/ ms[e] = Append(msgs[e], "resume")
    BY <1>2, <1>5, PostedSome
  <2>2. Once(ms[d]) /\ SeqRange(ms[d]) \subseteq {"resume"} /\ "start" # "resume"
    BY <1>2, <1>3, <1>5, <2>1, Appended
  <2>3. msgs' = Post(ms, {d}, "minimize")
    BY <1>8
  <2> HIDE DEF ms
  <2>4. /\ msgs' \in [Dlgs -> Seq(Messages)] /\ msgs'[d] = Append(ms[d], "minimize")
        /\ \A e \in Dlgs \ {d} : msgs'[e] = ms[e]
    <3>1. ms \in [Dlgs -> Seq(Messages)] /\ d \in Dlgs /\ "minimize" \in Messages
      BY <1>5, <2>1
    <3>2. /\ Post(ms, {d}, "minimize") \in [Dlgs -> Seq(Messages)]
          /\ Post(ms, {d}, "minimize")[d] = Append(ms[d], "minimize")
          /\ \A e \in Dlgs \ {d} : Post(ms, {d}, "minimize")[e] = ms[e]
      BY ONLY <3>1, PostedTo
    <3> QED
      BY <2>3, <3>2
  <2>5. /\ SeqRange(msgs'[d]) \subseteq {"resume", "minimize"}
        /\ "minimize" \in SeqRange(msgs'[d]) /\ Once(msgs'[d])
    BY <1>5, <2>1, <2>2, <2>4, Appended
  <2>6. Types' /\ nested'[d] = "none"
    BY <1>1, <1>8, <2>4 DEF IInv, Types
  <2>7. DlgOK(d)'
    BY <1>1, <1>2, <1>4, <2>5, <2>6 DEF DlgOK, LifeInOrder, MenuIsOnScreen, Suspended
  <2>8. \A e \in Dlgs \ {d} : Fixed(e)
    BY <1>1, <1>8 DEF IInv, Types, Fixed
  <2>9. \A e \in Dlgs \ {d} : Grown(e)
    BY <2>1, <2>4 DEF Grown, Messages
  <2> QED
    BY <2>6, <2>7, <2>8, <2>9 DEF Changes
<1>9. \/ UNCHANGED <<msgs, showPause>>
      \/ msgs' = Post(msgs, {d}, "pauseresume") /\ UNCHANGED showPause
      \/ /\ msgs' = Post(Post(msgs, ToResume(queue'), "resume"), {d}, "minimize")
         /\ showPause' = [showPause EXCEPT ![d] = FALSE]
  BY DEF CloseMenu
<1> QED
  BY <1>6, <1>7, <1>8, <1>9

LEMMA ClickMinimizeChanges == ASSUME IInv, NEW d \in Dlgs, ClickMinimize(d) PROVE Changes(d)
<1>1. /\ Clicked(d) /\ msgs' = Post(msgs, {d}, "minimize")
      /\ UNCHANGED <<phase, worker, notSuspended, showPause, accept, cancel, nested>>
  BY DEF ClickMinimize
<1>2. DlgOK(d) /\ nested[d] = "none" /\ SeqRange(msgs[d]) = {}
  BY <1>1, Clickable
<1>3. "minimize" \in Messages /\ msgs \in [Dlgs -> Seq(Messages)] /\ msgs[d] \in Seq(Messages)
  BY DEF Messages, IInv, Types
<1>4. /\ msgs' \in [Dlgs -> Seq(Messages)] /\ msgs'[d] = Append(msgs[d], "minimize")
      /\ \A e \in Dlgs \ {d} : msgs'[e] = msgs[e]
  <2>1. msgs \in [Dlgs -> Seq(Messages)] /\ d \in Dlgs /\ "minimize" \in Messages
    BY <1>3
  <2>2. /\ Post(msgs, {d}, "minimize") \in [Dlgs -> Seq(Messages)]
        /\ Post(msgs, {d}, "minimize")[d] = Append(msgs[d], "minimize")
        /\ \A e \in Dlgs \ {d} : Post(msgs, {d}, "minimize")[e] = msgs[e]
    BY ONLY <2>1, PostedTo
  <2> QED
    BY <1>1, <2>2
<1>5. SeqRange(msgs'[d]) = {"minimize"} /\ Once(msgs'[d])
  BY <1>2, <1>3, <1>4, Appended DEF DlgOK, LifeInOrder
<1>6. Types'
  BY <1>1, <1>4 DEF IInv, Types
<1>7. DlgOK(d)'
  BY <1>1, <1>2, <1>5 DEF DlgOK, LifeInOrder, MenuIsOnScreen, Suspended
<1>8. \A e \in Dlgs \ {d} : Fixed(e) /\ Grown(e)
  BY <1>1, <1>4 DEF Fixed, Grown
<1> QED
  BY <1>6, <1>7, <1>8 DEF Changes

LEMMA RestoreChanges == ASSUME IInv, NEW d \in Dlgs, Restore(d) PROVE Changes(d)
<1>1. /\ accept' = [accept EXCEPT ![d] = TRUE] /\ ~accept[d]
      /\ UNCHANGED <<msgs, phase, worker, notSuspended, showPause, cancel, nested>>
  BY DEF Restore
<1>2. DlgOK(d)
  BY Clickable
<1>3. Types' /\ accept'[d] = TRUE
  BY <1>1 DEF IInv, Types
<1>4. DlgOK(d)'
  BY <1>1, <1>2, <1>3 DEF DlgOK, LifeInOrder, MenuIsOnScreen, Suspended
<1>5. \A e \in Dlgs \ {d} : Fixed(e) /\ Grown(e)
  BY <1>1 DEF IInv, Types, Fixed, Grown
<1> QED
  BY <1>3, <1>4, <1>5 DEF Changes

LEMMA ShutDownChanges ==
    ASSUME IInv, ShutDown
    PROVE  IInv' /\ \A d \in Dlgs : Fixed(d) /\ Grown(d)
<1>1. /\ msgs' = Post(msgs, {d \in Dlgs : phase[d] = "running"}, "cancelall")
      /\ UNCHANGED <<phase, worker, notSuspended, showPause, accept, cancel, nested>>
  BY DEF ShutDown
<1>2. "cancelall" \in Messages \ {"start", "end", "minimize"}
  BY DEF Messages
<1>3. msgs \in [Dlgs -> Seq(Messages)]
  BY DEF IInv, Types
<1>4. /\ msgs' \in [Dlgs -> Seq(Messages)]
      /\ \A d \in Dlgs : msgs'[d] = msgs[d] \/ msgs'[d] = Append(msgs[d], "cancelall")
  <2> DEFINE S == {d \in Dlgs : phase[d] = "running"}
  <2>1. "cancelall" \in Messages
    BY <1>2
  <2> HIDE DEF S
  <2>2. /\ Post(msgs, S, "cancelall") \in [Dlgs -> Seq(Messages)]
        /\ \A d \in Dlgs : \/ Post(msgs, S, "cancelall")[d] = msgs[d]
                           \/ Post(msgs, S, "cancelall")[d] = Append(msgs[d], "cancelall")
    BY ONLY <2>1, <1>3, PostedSome
  <2> QED
    BY <1>1, <2>2 DEF S
<1>5. Types'
  BY <1>1, <1>4 DEF IInv, Types
<1>6. \A d \in Dlgs : Fixed(d) /\ Grown(d)
  BY <1>1, <1>2, <1>4 DEF Fixed, Grown
<1>7. \A d \in Dlgs : DlgOK(d)'
  BY <1>6, OthersPost
<1> QED
  BY <1>5, <1>6, <1>7 DEF IInv

-----------------------------------------------------------------------------
LEMMA NextKeeps == IInv /\ [Next]_vars => IInv'
<1> SUFFICES ASSUME IInv, [Next]_vars PROVE IInv'
  OBVIOUS
<1>1. CASE ShutDown
  BY <1>1, ShutDownChanges
<1>2. ASSUME NEW d \in Dlgs, Thread(d) PROVE IInv'
  BY <1>2, StartChanges, WorkerChanges, EndChanges, ResumeChanges, CancelAllChanges, MinimizeChanges,
     ChangeKeeps
     DEF Thread
<1>3. ASSUME NEW d \in Dlgs, User(d) PROVE IInv'
  BY <1>3, OpenChanges, ClickPauseChanges, ClickCancelChanges, OpenMenuChanges, ClickMinimizeChanges,
     RestoreChanges, ChangeKeeps DEF User
<1>4. ASSUME NEW d \in Dlgs, Answer(d) PROVE IInv'
  BY <1>4, CloseMenuChanges, AnswerChanges, ChangeKeeps DEF Answer
<1>5. ASSUME NEW d \in Dlgs, WorkerFinishes(d) PROVE IInv'
  BY <1>5, WorkerChanges, ChangeKeeps
<1>6. CASE UNCHANGED vars
  BY <1>6 DEF vars, IInv, Types, DlgOK, LifeInOrder, MenuIsOnScreen, Suspended
<1> QED
  BY <1>1, <1>2, <1>3, <1>4, <1>5, <1>6 DEF Next

(* While the button of a dialog says Resume, its worker is suspended, unless   *)
(* the operation is cancelled or the dialog is about to be minimized, whatever *)
(* the user, the other dialogs and the main window do (CProgressDialog in      *)
(* src/src/dialogs.cpp).                                                       *)
THEOREM PausedIsSuspended == Spec => []PausedWorkerIsSuspended
<1>1. IInv => PausedWorkerIsSuspended
  BY DEF IInv, DlgOK, Suspended, PausedWorkerIsSuspended
<1> QED
  BY <1>1, InitEstablishes, NextKeeps, PTL DEF Spec
-----------------------------------------------------------------------------
(* The operations queue *)

\* no dialog is in the queue twice
OnlyOnce(q) == \A i, j \in DOMAIN q : q[i].dlg = q[j].dlg => i = j

LEMMA Entered ==
    ASSUME NEW q \in Seq(Entries(Dlgs)), NEW e \in Entries(Dlgs)
    PROVE  /\ Append(q, e) \in Seq(Entries(Dlgs))
           /\ DlgsOf(Append(q, e)) = DlgsOf(q) \union {e.dlg}
           /\ OnlyOnce(q) /\ e.dlg \notin DlgsOf(q) => OnlyOnce(Append(q, e))
           /\ ~AllAutoPaused(q) \/ e.paused # AutoPaused => ~AllAutoPaused(Append(q, e))
<1> DEFINE t == Append(q, e)
<1>1. /\ t \in Seq(Entries(Dlgs)) /\ Len(q) \in Nat
      /\ DOMAIN q = 1..Len(q) /\ DOMAIN t = 1..Len(q) + 1
      /\ t[Len(q) + 1] = e /\ \A i \in 1..Len(q) : t[i] = q[i]
  OBVIOUS
<1> HIDE DEF t
<1>2. DlgsOf(t) = DlgsOf(q) \union {e.dlg}
  BY <1>1 DEF DlgsOf
<1>3. OnlyOnce(q) /\ e.dlg \notin DlgsOf(q) => OnlyOnce(t)
  BY <1>1 DEF OnlyOnce, DlgsOf
<1>4. ~AllAutoPaused(q) \/ e.paused # AutoPaused => ~AllAutoPaused(t)
  BY <1>1 DEF AllAutoPaused
<1> QED
  BY <1>1, <1>2, <1>3, <1>4 DEF t

LEMMA FoundAt ==
    ASSUME NEW q \in Seq(Entries(Dlgs)), OnlyOnce(q), NEW d \in DlgsOf(q)
    PROVE  IndexOf(q, d) \in DOMAIN q /\ q[IndexOf(q, d)].dlg = d
<1>1. PICK i \in DOMAIN q : q[i].dlg = d
  BY DEF DlgsOf
<1>2. \A j \in 1..(i - 1) : q[j].dlg # d
  BY <1>1 DEF OnlyOnce
<1> QED
  BY <1>1, <1>2 DEF IndexOf

LEMMA TakenOut ==
    ASSUME NEW q \in Seq(Entries(Dlgs)), OnlyOnce(q), NEW d
    PROVE  /\ Without(q, d) \in Seq(Entries(Dlgs)) /\ OnlyOnce(Without(q, d))
           /\ DlgsOf(Without(q, d)) = DlgsOf(q) \ {d}
<1>1. CASE d \notin DlgsOf(q)
  BY <1>1 DEF Without
<1>2. CASE d \in DlgsOf(q)
  <2>1. PICK i \in DOMAIN q : q[i].dlg = d /\ i = IndexOf(q, d)
    BY <1>2, FoundAt
  <2>2. Len(q) \in Nat /\ DOMAIN q = 1..Len(q) /\ \A j \in 1..Len(q) : q[j] \in Entries(Dlgs)
    OBVIOUS
  <2>3. PICK t : t = [j \in 1..(Len(q) - 1) |-> IF j < i THEN q[j] ELSE q[j + 1]]
    OBVIOUS
  <2>4. Without(q, d) = t
    BY <1>2, <2>1, <2>3 DEF Without
  <2>5. /\ DOMAIN t = 1..(Len(q) - 1) /\ Len(q) - 1 \in Nat
        /\ \A j \in 1..(Len(q) - 1) : t[j] = q[IF j < i THEN j ELSE j + 1]
    BY <2>1, <2>2, <2>3
  <2>6. \A j \in DOMAIN t : (IF j < i THEN j ELSE j + 1) \in DOMAIN q \ {i}
    BY <2>1, <2>2, <2>5
  <2>7. \A j \in DOMAIN t : t[j] \in Entries(Dlgs)
    BY <2>2, <2>5, <2>6
  <2>8. t \in Seq(Entries(Dlgs))
    BY <2>3, <2>5, <2>7
  <2>9. OnlyOnce(t)
    BY <2>1, <2>2, <2>5, <2>6 DEF OnlyOnce
  <2>10. \A k \in DOMAIN q \ {i} : (IF k < i THEN k ELSE k - 1) \in DOMAIN t
                                  /\ t[IF k < i THEN k ELSE k - 1] = q[k]
    BY <2>1, <2>2, <2>5
  <2>11. DlgsOf(t) \subseteq DlgsOf(q) \ {d}
    BY <2>1, <2>2, <2>5, <2>6 DEF DlgsOf, OnlyOnce
  <2>12. DlgsOf(q) \ {d} \subseteq DlgsOf(t)
    BY <2>1, <2>10 DEF DlgsOf
  <2> QED
    BY <2>4, <2>8, <2>9, <2>11, <2>12
<1> QED
  BY <1>1, <1>2

LEMMA Repaused ==
    ASSUME NEW q \in Seq(Entries(Dlgs)), OnlyOnce(q), NEW d,
           NEW p \in {Running, ManuallyPaused}
    PROVE  /\ SetPaused(q, d, p) \in Seq(Entries(Dlgs)) /\ OnlyOnce(SetPaused(q, d, p))
           /\ DlgsOf(SetPaused(q, d, p)) = DlgsOf(q)
           /\ d \in DlgsOf(q) => ~AllAutoPaused(SetPaused(q, d, p))
           /\ d \notin DlgsOf(q) => SetPaused(q, d, p) = q
<1>1. PICK t : t = SetPaused(q, d, p)
  OBVIOUS
<1>2. Len(q) \in Nat /\ DOMAIN q = 1..Len(q) /\ \A j \in 1..Len(q) : q[j] \in Entries(Dlgs)
  OBVIOUS
<1>3. /\ DOMAIN t = 1..Len(q)
      /\ \A i \in 1..Len(q) : /\ q[i].dlg # d => t[i] = q[i]
                              /\ q[i].dlg = d => t[i] = [q[i] EXCEPT !.paused = p]
  BY <1>1, <1>2 DEF SetPaused
<1>4. \A i \in 1..Len(q) : /\ t[i] \in Entries(Dlgs) /\ t[i].dlg = q[i].dlg
                           /\ q[i].dlg = d => t[i].paused = p
  BY <1>2, <1>3 DEF Entries
<1>5. t \in Seq(Entries(Dlgs))
  <2>1. t = [i \in 1..Len(q) |-> t[i]]
    BY <1>1, <1>2 DEF SetPaused
  <2> QED
    BY <1>2, <1>4, <2>1
<1>6. OnlyOnce(t) /\ DlgsOf(t) = DlgsOf(q)
  BY <1>2, <1>3, <1>4 DEF OnlyOnce, DlgsOf
<1>7. d \in DlgsOf(q) => ~AllAutoPaused(t)
  BY <1>2, <1>3, <1>4 DEF DlgsOf, AllAutoPaused, Running, ManuallyPaused, AutoPaused
<1>8. d \notin DlgsOf(q) => t = q
  <2> SUFFICES ASSUME d \notin DlgsOf(q) PROVE t = q
    OBVIOUS
  <2>1. t = [i \in 1..Len(q) |-> q[i]]
    BY <1>1, <1>2 DEF SetPaused, DlgsOf
  <2>2. q = [i \in 1..Len(q) |-> q[i]]
    BY <1>2
  <2> QED
    BY <2>1, <2>2
<1> QED
  BY <1>1, <1>5, <1>6, <1>7, <1>8

LEMMA FirstIsIn ==
    ASSUME NEW q \in Seq(Entries(Dlgs))
    PROVE  q # <<>> => q[1].dlg \in DlgsOf(q) /\ q[1].dlg \in Dlgs
<1>1. Len(q) \in Nat /\ DOMAIN q = 1..Len(q) /\ \A j \in 1..Len(q) : q[j] \in Entries(Dlgs)
  OBVIOUS
<1>2. q # <<>> => 1 \in DOMAIN q
  BY <1>1
<1> QED
  BY <1>1, <1>2 DEF DlgsOf, Entries

LEMMA InQueueAreDlgs ==
    ASSUME NEW q \in Seq(Entries(Dlgs)) PROVE DlgsOf(q) \subseteq Dlgs
<1>1. \A i \in DOMAIN q : q[i] \in Entries(Dlgs)
  OBVIOUS
<1> QED
  BY <1>1 DEF DlgsOf, Entries

-----------------------------------------------------------------------------
(* Somebody will resume.  Hope(d) is what keeps the queue going: dialog d   *)
(* will still look at the queue.                                            *)

Hope(d) ==
    \/ setting[d] \/ cancel[d] \/ worker[d] = "done" \/ phase[d] = "ended"
    \/ "resume" \in SeqRange(msgs[d])

Entrants ==
    /\ queue \in Seq(Entries(Dlgs)) /\ OnlyOnce(queue)
    /\ \A d \in DlgsOf(queue) : phase[d] \in {"running", "ended"}

OtherTypes ==
    /\ setting \in [Dlgs -> BOOLEAN] /\ lost \subseteq Dlgs
    /\ clicks \in 0..MaxClicks /\ shutdown \in BOOLEAN

Resumed ==
    queue # <<>> /\ AllAutoPaused(queue) =>
        DlgsOf(queue) \cap lost # {} \/ \E d \in DlgsOf(queue) : Hope(d)

QInv == Entrants /\ OtherTypes /\ Resumed

LEMMA ResumedIsSomebody == Resumed <=> SomebodyWillResume
BY DEF Resumed, SomebodyWillResume, Hope

\* what dialog d leaves alone in the state of the others
Alone(d) == \A e \in Dlgs \ {d} : setting'[e] = setting[e]

LEMMA OthersHope ==
    ASSUME IInv, NEW d \in Dlgs, Changes(d), Alone(d), NEW e \in Dlgs \ {d}
    PROVE  (Hope(e) => Hope(e)') /\ phase'[e] = phase[e]
<1>1. Fixed(e) /\ Grown(e) /\ setting'[e] = setting[e] /\ msgs[e] \in Seq(Messages)
  BY DEF Changes, Alone, IInv, Types
<1>2. SeqRange(msgs[e]) \subseteq SeqRange(msgs'[e])
  BY <1>1, Appended DEF Grown
<1> QED
  BY <1>1, <1>2 DEF Fixed, Hope

\* a step that does not change the queue
LEMMA SameQueue ==
    ASSUME IInv, QInv, NEW d \in Dlgs, Changes(d), Alone(d), OtherTypes',
           queue' = queue, lost \subseteq lost',
           d \in DlgsOf(queue) =>
               /\ phase'[d] \in {"running", "ended"}
               /\ Hope(d) => Hope(d)' \/ d \in lost'
    PROVE  QInv'
<1>1. DlgsOf(queue) \subseteq Dlgs
  BY InQueueAreDlgs DEF QInv, Entrants
<1>2. \A e \in DlgsOf(queue) \ {d} : (Hope(e) => Hope(e)') /\ phase'[e] = phase[e]
  BY <1>1, OthersHope
<1>3. Entrants'
  BY <1>2 DEF QInv, Entrants
<1>4. \A e \in DlgsOf(queue) : Hope(e) => Hope(e)' \/ e \in lost'
  BY <1>2
<1>5. Resumed'
  <2> SUFFICES ASSUME queue # <<>>, AllAutoPaused(queue),
                      DlgsOf(queue) \cap lost # {} \/ \E e \in DlgsOf(queue) : Hope(e)
               PROVE  DlgsOf(queue) \cap lost' # {} \/ \E e \in DlgsOf(queue) : Hope(e)'
    BY DEF QInv, Resumed
  <2> QED
    BY <1>4
<1> QED
  BY <1>3, <1>5 DEF QInv

\* a step after which an operation runs or was paused by the user
LEMMA SomebodyRuns ==
    ASSUME IInv, QInv, NEW d \in Dlgs, Changes(d), OtherTypes',
           queue' \in Seq(Entries(Dlgs)), OnlyOnce(queue'),
           DlgsOf(queue') \subseteq DlgsOf(queue) \union {d},
           d \in DlgsOf(queue') => phase'[d] \in {"running", "ended"},
           ~AllAutoPaused(queue')
    PROVE  QInv'
<1>1. DlgsOf(queue) \subseteq Dlgs
  BY InQueueAreDlgs DEF QInv, Entrants
<1>2. \A e \in DlgsOf(queue') \ {d} : phase'[e] \in {"running", "ended"}
  BY <1>1 DEF QInv, Entrants, Changes, Fixed
<1>3. Entrants'
  BY <1>2 DEF Entrants
<1>4. Resumed'
  BY DEF Resumed
<1> QED
  BY <1>3, <1>4 DEF QInv

\* a step that has looked at the queue it leaves
LEMMA LookedAtQueue ==
    ASSUME IInv, QInv, NEW d \in Dlgs, Changes(d), OtherTypes',
           queue' \in Seq(Entries(Dlgs)), OnlyOnce(queue'),
           DlgsOf(queue') \subseteq DlgsOf(queue) \union {d},
           d \in DlgsOf(queue') => phase'[d] \in {"running", "ended"},
           \A e \in ToResume(queue') : "resume" \in SeqRange(msgs'[e])
    PROVE  QInv'
<1>1. DlgsOf(queue) \subseteq Dlgs
  BY InQueueAreDlgs DEF QInv, Entrants
<1>2. \A e \in DlgsOf(queue') \ {d} : phase'[e] \in {"running", "ended"}
  BY <1>1 DEF QInv, Entrants, Changes, Fixed
<1>3. Entrants'
  BY <1>2 DEF Entrants
<1>4. ASSUME queue' # <<>>, AllAutoPaused(queue')
      PROVE  \E e \in DlgsOf(queue') : Hope(e)'
  <2>1. PICK q \in Seq(Entries(Dlgs)) : q = queue'
    OBVIOUS
  <2>2. q[1].dlg \in DlgsOf(q) /\ q[1].dlg \in ToResume(q)
    <3>1. q # <<>> /\ AllAutoPaused(q)
      BY <1>4, <2>1
    <3> QED
      BY <3>1, FirstIsIn DEF ToResume
  <2>3. q[1].dlg \in DlgsOf(queue') /\ "resume" \in SeqRange(msgs'[q[1].dlg])
    BY <2>1, <2>2
  <2> QED
    BY <2>3 DEF Hope
<1>5. Resumed'
  BY <1>4 DEF Resumed
<1> QED
  BY <1>3, <1>5 DEF QInv

LEMMA InitEntersNobody == Init => QInv
<1> SUFFICES ASSUME Init PROVE QInv
  OBVIOUS
<1>1. queue = <<>> /\ DOMAIN queue = {}
  BY DEF Init
<1>2. DlgsOf(queue) = {} /\ OnlyOnce(queue) /\ queue \in Seq(Entries(Dlgs))
  BY <1>1 DEF DlgsOf, OnlyOnce
<1>3. OtherTypes
  <2>1. MaxClicks \in Nat
    BY DialogsAssumption
  <2>2. clicks = 0 /\ lost = {} /\ shutdown = FALSE /\ setting = [d \in Dlgs |-> FALSE]
    BY DEF Init
  <2>3. setting \in [Dlgs -> BOOLEAN]
    BY <2>2
  <2>4. clicks \in 0..MaxClicks
    BY <2>1, <2>2
  <2> QED
    BY <2>2, <2>3, <2>4 DEF OtherTypes
<1>4. Entrants
  BY <1>2 DEF Entrants
<1>5. Resumed
  BY <1>1 DEF Resumed
<1> QED
  BY <1>3, <1>4, <1>5 DEF QInv

-----------------------------------------------------------------------------
(* The steps *)

\* entering: a new operation runs, or another one does
LEMMA StartEnters ==
    ASSUME IInv, QInv, NEW d \in Dlgs, HandleStart(d) PROVE QInv'
<1>1. Changes(d)
  BY StartChanges
<1>2. /\ Handles(d, "start") /\ phase' = [phase EXCEPT ![d] = "running"]
      /\ UNCHANGED <<setting, lost, clicks, shutdown>>
  BY DEF HandleStart, ui
<1>3. PICK idle \in IdleFlags : queue' = AddOperation(queue, d, idle)
  BY DEF HandleStart
<1>4. phase[d] = "opened" /\ phase'[d] = "running"
  <2>1. "start" \in Messages
    BY DEF Messages
  <2>2. DlgOK(d) /\ "start" \in SeqRange(msgs[d])
    BY <1>2, <2>1, Handling
  <2> QED
    BY <1>2, <2>2 DEF DlgOK, LifeInOrder, IInv, Types
<1>5. queue \in Seq(Entries(Dlgs)) /\ OnlyOnce(queue) /\ d \notin DlgsOf(queue)
  BY <1>4 DEF QInv, Entrants
<1>6. PICK e \in Entries(Dlgs) :
         /\ queue' = Append(queue, e) /\ e.dlg = d
         /\ ~AllAutoPaused(queue) \/ e.paused # AutoPaused
  <2>1. CASE StartPaused(queue, idle)
    <3>1. queue' = Append(queue, [dlg |-> d, paused |-> AutoPaused]) /\ ~AllAutoPaused(queue)
      BY <1>3, <1>5, <2>1 DEF AddOperation, StartPaused
    <3>2. [dlg |-> d, paused |-> AutoPaused] \in Entries(Dlgs)
      BY DEF Entries
    <3> QED
      BY <3>1, <3>2
  <2>2. CASE ~StartPaused(queue, idle)
    <3>1. queue' = Append(queue, [dlg |-> d, paused |-> Running])
      BY <1>3, <1>5, <2>2 DEF AddOperation
    <3>2. [dlg |-> d, paused |-> Running] \in Entries(Dlgs) /\ Running # AutoPaused
      BY DEF Entries, Running, AutoPaused
    <3> QED
      BY <3>1, <3>2
  <2> QED
    BY <2>1, <2>2
<1>7. /\ queue' \in Seq(Entries(Dlgs)) /\ OnlyOnce(queue')
      /\ DlgsOf(queue') = DlgsOf(queue) \union {d} /\ ~AllAutoPaused(queue')
  BY <1>5, <1>6, Entered
<1>8. OtherTypes'
  BY <1>2 DEF QInv, OtherTypes
<1> QED
  BY <1>1, <1>4, <1>7, <1>8, SomebodyRuns

\* those to be resumed get the message
LEMMA ResumePosted ==
    ASSUME NEW ms \in [Dlgs -> Seq(Messages)], NEW q \in Seq(Entries(Dlgs)),
           NEW e \in ToResume(q)
    PROVE  /\ e \in Dlgs /\ Post(ms, ToResume(q), "resume") \in [Dlgs -> Seq(Messages)]
           /\ "resume" \in SeqRange(Post(ms, ToResume(q), "resume")[e])
<1>1. e \in Dlgs
  BY FirstIsIn DEF ToResume
<1>2. "resume" \in Messages /\ ms[e] \in Seq(Messages)
  BY <1>1 DEF Messages
<1>3. /\ Post(ms, ToResume(q), "resume") \in [Dlgs -> Seq(Messages)]
      /\ Post(ms, ToResume(q), "resume")[e] = Append(ms[e], "resume")
  BY <1>1, <1>2, Posted
<1>4. SeqRange(Append(ms[e], "resume")) = SeqRange(ms[e]) \union {"resume"}
  BY <1>2, Appended
<1> QED
  BY <1>1, <1>3, <1>4

\* leaving: OperationEnded has looked at those who are left
LEMMA EndLeaves ==
    ASSUME IInv, QInv, NEW d \in Dlgs, HandleEnd(d) PROVE QInv'
<1>1. Changes(d)
  BY EndChanges
<1>2. /\ Handles(d, "end") /\ queue' = Without(queue, d)
      /\ msgs' = Post(Taken(d), ToResume(queue'), "resume")
      /\ UNCHANGED <<setting, lost, clicks, shutdown>>
  BY DEF HandleEnd, ui, OperationEnded
<1>3. /\ queue' \in Seq(Entries(Dlgs)) /\ OnlyOnce(queue')
      /\ DlgsOf(queue') = DlgsOf(queue) \ {d}
  BY <1>2, TakenOut DEF QInv, Entrants
<1>4. Taken(d) \in [Dlgs -> Seq(Messages)]
  BY <1>2, Handling DEF Messages
<1>5. \A e \in ToResume(queue') : "resume" \in SeqRange(msgs'[e])
  <2>1. PICK q \in Seq(Entries(Dlgs)) : q = queue'
    BY <1>3
  <2>2. PICK ms \in [Dlgs -> Seq(Messages)] : ms = Taken(d)
    BY <1>4
  <2>3. \A e \in ToResume(q) : "resume" \in SeqRange(Post(ms, ToResume(q), "resume")[e])
    BY ResumePosted
  <2> QED
    BY <1>2, <2>1, <2>2, <2>3
<1>6. OtherTypes'
  BY <1>2 DEF QInv, OtherTypes
<1> QED
  BY <1>1, <1>3, <1>5, <1>6, LookedAtQueue

\* the handler has driven the dialog: SetPaused will enter it
LEMMA ToggleHopes ==
    ASSUME IInv, QInv, NEW d \in Dlgs, HandleResume(d) PROVE QInv'
<1>1. Changes(d)
  BY ResumeChanges
<1>2. PICK auto \in BOOLEAN :
         /\ Handles(d, IF auto THEN "resume" ELSE "pauseresume") /\ msgs' = Taken(d)
         /\ Obeys(d, auto) => setting' = [setting EXCEPT ![d] = TRUE]
         /\ ~Obeys(d, auto) => setting' = setting
         /\ UNCHANGED <<queue, phase, worker, cancel, lost, clicks, shutdown>>
  BY DEF HandleResume, Toggle, ui
<1>3. PICK m \in Messages : m = IF auto THEN "resume" ELSE "pauseresume"
  BY DEF Messages
<1>4. SeqRange(msgs[d]) \subseteq SeqRange(msgs'[d]) \union {m}
  <2>1. Handles(d, m)
    BY <1>2, <1>3
  <2> QED
    BY <1>2, <2>1, Handling
<1>5. Alone(d) /\ OtherTypes' /\ (setting[d] => setting'[d])
      /\ (Obeys(d, auto) => setting'[d])
  BY <1>2 DEF QInv, OtherTypes, Alone
<1>6. ASSUME d \in DlgsOf(queue), Hope(d)
      PROVE  Hope(d)'
  <2>1. phase[d] \in {"running", "ended"}
    BY <1>6 DEF QInv, Entrants
  <2>2. CASE setting[d] \/ cancel[d] \/ worker[d] = "done" \/ phase[d] = "ended"
    BY <1>2, <1>5, <2>2 DEF Hope
  <2>3. CASE "resume" \in SeqRange(msgs'[d])
    BY <2>3 DEF Hope
  <2>4. CASE auto /\ phase[d] = "running" /\ ~cancel[d]
    BY <1>5, <2>4 DEF Hope, Obeys
  <2> QED
    BY <1>3, <1>4, <1>6, <2>1, <2>2, <2>3, <2>4 DEF Hope
<1>7. d \in DlgsOf(queue) => phase'[d] \in {"running", "ended"}
  BY <1>2 DEF QInv, Entrants
<1> QED
  BY <1>1, <1>2, <1>5, <1>6, <1>7, SameQueue

\* SetPaused: the operation runs or was paused by the user
LEMMA FinishEnters ==
    ASSUME IInv, QInv, NEW d \in Dlgs, FinishToggle(d) PROVE QInv'
<1>1. Changes(d)
  BY WorkerChanges
<1>2. /\ setting' = [setting EXCEPT ![d] = FALSE]
      /\ queue' = SetPaused(queue, d, PausedStatus(d))
      /\ UNCHANGED <<msgs, phase, worker, cancel, lost, clicks, shutdown>>
  BY DEF FinishToggle, ui
<1>3. PICK p \in {Running, ManuallyPaused} : p = PausedStatus(d)
  BY DEF PausedStatus
<1>4. OtherTypes' /\ Alone(d)
  BY <1>2 DEF QInv, OtherTypes, Alone
<1>5. queue \in Seq(Entries(Dlgs)) /\ OnlyOnce(queue)
  BY DEF QInv, Entrants
<1>6. /\ queue' \in Seq(Entries(Dlgs)) /\ OnlyOnce(queue')
      /\ DlgsOf(queue') = DlgsOf(queue)
      /\ d \in DlgsOf(queue) => ~AllAutoPaused(queue')
      /\ d \notin DlgsOf(queue) => queue' = queue
  BY <1>2, <1>3, <1>5, Repaused
<1>7. d \in DlgsOf(queue') => phase'[d] \in {"running", "ended"}
  BY <1>2, <1>6 DEF QInv, Entrants
<1>8. CASE d \in DlgsOf(queue)
  BY <1>1, <1>4, <1>6, <1>7, <1>8, SomebodyRuns
<1>9. CASE d \notin DlgsOf(queue)
  BY <1>1, <1>2, <1>4, <1>6, <1>7, <1>9, SameQueue
<1> QED
  BY <1>8, <1>9

\* WorkerFinishes, HandleIDOK
LEMMA WorkerHopes ==
    ASSUME IInv, QInv, NEW d \in Dlgs, WorkerFinishes(d) \/ HandleIDOK(d) PROVE QInv'
<1>1. Changes(d)
  BY WorkerChanges
<1>2. UNCHANGED <<queue, setting, lost, clicks, shutdown>>
  BY DEF WorkerFinishes, HandleIDOK, ui
<1>3. OtherTypes' /\ Alone(d)
  BY <1>2 DEF QInv, OtherTypes, Alone
<1>4. \/ worker'[d] = "done" /\ phase' = phase
      \/ phase'[d] = "ended"
  BY DEF WorkerFinishes, HandleIDOK, IInv, Types
<1>5. Hope(d)'
  BY <1>4 DEF Hope
<1>6. d \in DlgsOf(queue) => phase'[d] \in {"running", "ended"}
  BY <1>4 DEF QInv, Entrants
<1> QED
  BY <1>1, <1>2, <1>3, <1>5, <1>6, SameQueue

LEMMA CancelAllHopes ==
    ASSUME IInv, QInv, NEW d \in Dlgs, HandleCancelAll(d) PROVE QInv'
<1>1. Changes(d)
  BY CancelAllChanges
<1>2. /\ cancel' = [cancel EXCEPT ![d] = TRUE]
      /\ UNCHANGED <<queue, phase, setting, lost, clicks, shutdown>>
  BY DEF HandleCancelAll
<1>3. OtherTypes' /\ Alone(d)
  BY <1>2 DEF QInv, OtherTypes, Alone
<1>4. Hope(d)'
  BY <1>2 DEF Hope, IInv, Types
<1>5. d \in DlgsOf(queue) => phase'[d] \in {"running", "ended"}
  BY <1>2 DEF QInv, Entrants
<1> QED
  BY <1>1, <1>2, <1>3, <1>4, <1>5, SameQueue

\* a command that is thrown away is remembered in lost
LEMMA MinimizeHopes ==
    ASSUME IInv, QInv, NEW d \in Dlgs, HandleMinimize(d) PROVE QInv'
<1>1. Changes(d)
  BY MinimizeChanges
<1>2. /\ Handles(d, "minimize")
      /\ UNCHANGED <<queue, phase, worker, cancel, setting, clicks, shutdown>>
      /\ \/ lost' = (IF "resume" \in SeqRange(msgs[d]) THEN lost \cup {d} ELSE lost)
         \/ msgs' = Taken(d) /\ lost' = lost
  BY DEF HandleMinimize
<1>3. OtherTypes' /\ Alone(d) /\ lost \subseteq lost'
  BY <1>2 DEF QInv, OtherTypes, Alone
<1>4. "resume" \in SeqRange(msgs[d]) => d \in lost' \/ "resume" \in SeqRange(msgs'[d])
  <2>1. SeqRange(msgs[d]) \subseteq SeqRange(Taken(d)[d]) \union {"minimize"}
    BY <1>2, Handling DEF Messages
  <2> QED
    BY <1>2, <2>1
<1>5. Hope(d) => Hope(d)' \/ d \in lost'
  BY <1>2, <1>4 DEF Hope
<1>6. d \in DlgsOf(queue) => phase'[d] \in {"running", "ended"}
  BY <1>2 DEF QInv, Entrants
<1> QED
  BY <1>1, <1>2, <1>3, <1>5, <1>6, SameQueue

LEMMA OpenHopes ==
    ASSUME IInv, QInv, NEW d \in Dlgs, Open(d) PROVE QInv'
<1>1. Changes(d)
  BY OpenChanges
<1>2. phase[d] = "new" /\ UNCHANGED <<queue, setting, lost, clicks, shutdown>>
  BY DEF Open, ui
<1>3. OtherTypes' /\ Alone(d)
  BY <1>2 DEF QInv, OtherTypes, Alone
<1>4. d \notin DlgsOf(queue)
  BY <1>2 DEF QInv, Entrants
<1> QED
  BY <1>1, <1>2, <1>3, <1>4, SameQueue

\* the other steps of the user
LEMMA UserHopes ==
    ASSUME IInv, QInv, NEW d \in Dlgs, Changes(d), NEW yes \in BOOLEAN,
           \/ ClickPause(d) \/ ClickCancel(d) \/ OpenMenu(d) \/ ClickMinimize(d)
           \/ Restore(d) \/ AnswerQuestion(d, yes)
    PROVE  QInv'
<1>1. UNCHANGED <<queue, phase, worker, lost, shutdown>>
  BY DEF ClickPause, ClickCancel, OpenMenu, ClickMinimize, Restore, AnswerQuestion
<1>2. setting' = setting \/ setting' = [setting EXCEPT ![d] = TRUE]
  BY DEF ClickPause, Toggle, ClickCancel, OpenMenu, ClickMinimize, Restore, AnswerQuestion
<1>3. clicks' = clicks \/ (clicks < MaxClicks /\ clicks' = clicks + 1)
  BY DEF ClickPause, ClickCancel, OpenMenu, ClickMinimize, Restore, AnswerQuestion, Clicked
<1>4. cancel' = cancel \/ cancel' = [cancel EXCEPT ![d] = @ \/ yes]
  BY DEF ClickPause, ClickCancel, OpenMenu, ClickMinimize, Restore, AnswerQuestion
<1>5. msgs' = msgs \/ msgs' = Post(msgs, {d}, "minimize")
  BY DEF ClickPause, ClickCancel, OpenMenu, ClickMinimize, Restore, AnswerQuestion
<1>6. OtherTypes' /\ Alone(d) /\ (setting[d] => setting'[d])
  <2>1. MaxClicks \in Nat
    BY DialogsAssumption
  <2>2. setting' \in [Dlgs -> BOOLEAN] /\ Alone(d) /\ (setting[d] => setting'[d])
    BY <1>2 DEF QInv, OtherTypes, Alone
  <2>3. clicks' \in 0..MaxClicks
    BY <1>3, <2>1 DEF QInv, OtherTypes
  <2> QED
    BY <1>1, <2>2, <2>3 DEF QInv, OtherTypes
<1>7. cancel[d] => cancel'[d]
  BY <1>4 DEF IInv, Types
<1>8. SeqRange(msgs[d]) \subseteq SeqRange(msgs'[d])
  <2>1. msgs \in [Dlgs -> Seq(Messages)] /\ "minimize" \in Messages
    BY DEF IInv, Types, Messages
  <2>2. Post(msgs, {d}, "minimize")[d] = Append(msgs[d], "minimize")
    BY <2>1, PostedTo
  <2>3. SeqRange(Append(msgs[d], "minimize")) = SeqRange(msgs[d]) \union {"minimize"}
    BY <2>1, Appended
  <2> QED
    BY <1>5, <2>2, <2>3
<1>9. Hope(d) => Hope(d)'
  BY <1>1, <1>6, <1>7, <1>8 DEF Hope
<1>10. d \in DlgsOf(queue) => phase'[d] \in {"running", "ended"}
  BY <1>1 DEF QInv, Entrants
<1> QED
  BY <1>1, <1>6, <1>9, <1>10, SameQueue

\* "Wait Until All Other Operations Are Finished": AutoPauseOperation has looked
\* at the queue it leaves
LEMMA CloseMenuHopes ==
    ASSUME IInv, QInv, NEW d \in Dlgs, CloseMenu(d) PROVE QInv'
<1>1. Changes(d)
  BY CloseMenuChanges
<1>2. UNCHANGED <<phase, worker, cancel, setting, lost, clicks, shutdown>>
  BY DEF CloseMenu
<1>3. OtherTypes' /\ Alone(d)
  BY <1>2 DEF QInv, OtherTypes, Alone
<1>4. d \in DlgsOf(queue) => phase'[d] \in {"running", "ended"}
  BY <1>2 DEF QInv, Entrants
<1>5. msgs \in [Dlgs -> Seq(Messages)] /\ {"pauseresume", "resume", "minimize"} \subseteq Messages
  BY DEF IInv, Types, Messages
<1>6. CASE queue' = queue /\ (msgs' = msgs \/ msgs' = Post(msgs, {d}, "pauseresume"))
  <2>1. Post(msgs, {d}, "pauseresume")[d] = Append(msgs[d], "pauseresume")
    BY <1>5, PostedTo
  <2>2. SeqRange(Append(msgs[d], "pauseresume")) = SeqRange(msgs[d]) \union {"pauseresume"}
    BY <1>5, Appended
  <2>3. SeqRange(msgs[d]) \subseteq SeqRange(msgs'[d])
    BY <1>6, <2>1, <2>2
  <2>4. Hope(d) => Hope(d)'
    BY <1>2, <2>3 DEF Hope
  <2> QED
    BY <1>1, <1>2, <1>3, <1>4, <1>6, <2>4, SameQueue
<1>7. CASE /\ queue' = AutoPauseOperation(queue, d)
           /\ msgs' = Post(Post(msgs, ToResume(queue'), "resume"), {d}, "minimize")
  <2>1. queue \in Seq(Entries(Dlgs)) /\ OnlyOnce(queue)
    BY DEF QInv, Entrants
  <2>2. /\ Without(queue, d) \in Seq(Entries(Dlgs)) /\ OnlyOnce(Without(queue, d))
        /\ DlgsOf(Without(queue, d)) = DlgsOf(queue) \ {d}
    BY <2>1, TakenOut
  <2>3. PICK w \in Seq(Entries(Dlgs)) : w = Without(queue, d)
    BY <2>2
  <2>4. PICK e \in Entries(Dlgs) : e = [dlg |-> d, paused |-> AutoPaused]
    BY DEF Entries
  <2>5. /\ Append(w, e) \in Seq(Entries(Dlgs)) /\ OnlyOnce(Append(w, e))
        /\ DlgsOf(Append(w, e)) = DlgsOf(w) \union {d}
    <3>1. e.dlg = d /\ OnlyOnce(w) /\ d \notin DlgsOf(w)
      BY <2>2, <2>3, <2>4
    <3> QED
      BY <3>1, Entered
  <2>6. /\ queue' \in Seq(Entries(Dlgs)) /\ OnlyOnce(queue')
        /\ DlgsOf(queue') = DlgsOf(queue)
    BY <1>7, <2>1, <2>2, <2>3, <2>4, <2>5 DEF AutoPauseOperation
  <2>7. \A g \in ToResume(queue') : "resume" \in SeqRange(msgs'[g])
    <3>1. PICK q \in Seq(Entries(Dlgs)) : q = queue'
      BY <2>6
    <3>2. ASSUME NEW g \in ToResume(q)
          PROVE  "resume" \in SeqRange(msgs'[g])
      <4>1. PICK ms : ms = Post(msgs, ToResume(q), "resume")
        OBVIOUS
      <4>2. g \in Dlgs /\ ms \in [Dlgs -> Seq(Messages)] /\ "resume" \in SeqRange(ms[g])
        BY <1>5, <4>1, ResumePosted
      <4>3. msgs' = Post(ms, {d}, "minimize")
        BY <1>7, <3>1, <4>1
      <4>4. msgs'[g] = ms[g] \/ msgs'[g] = Append(ms[g], "minimize")
        <5>1. "minimize" \in Messages
          BY <1>5
        <5>2. PICK S : S = {d}
          OBVIOUS
        <5>3. \/ Post(ms, S, "minimize")[g] = ms[g]
              \/ Post(ms, S, "minimize")[g] = Append(ms[g], "minimize")
          BY ONLY <4>2, <5>1, PostedSome
        <5> QED
          BY <4>3, <5>2, <5>3
      <4>5. SeqRange(Append(ms[g], "minimize")) = SeqRange(ms[g]) \union {"minimize"}
        BY <1>5, <4>2, Appended
      <4> QED
        BY <4>2, <4>4, <4>5
    <3> QED
      BY <3>1, <3>2
  <2>8. d \in DlgsOf(queue') => phase'[d] \in {"running", "ended"}
    BY <1>4, <2>6
  <2> QED
    BY <1>1, <1>3, <2>6, <2>7, <2>8, LookedAtQueue
<1> QED
  BY <1>6, <1>7 DEF CloseMenu

LEMMA ShutDownHopes ==
    ASSUME IInv, QInv, ShutDown PROVE QInv'
<1>1. \A d \in Dlgs : Fixed(d) /\ Grown(d)
  BY ShutDownChanges
<1>2. UNCHANGED <<queue, phase, setting, lost, clicks>> /\ shutdown' = TRUE
  BY DEF ShutDown
<1>3. Entrants' /\ OtherTypes'
  BY <1>2 DEF QInv, Entrants, OtherTypes
<1>4. \A d \in Dlgs : Hope(d) => Hope(d)'
  <2> SUFFICES ASSUME NEW d \in Dlgs, Hope(d) PROVE Hope(d)'
    OBVIOUS
  <2>1. msgs[d] \in Seq(Messages)
    BY DEF IInv, Types
  <2>2. SeqRange(msgs[d]) \subseteq SeqRange(msgs'[d])
    BY <1>1, <2>1, Appended DEF Grown
  <2> QED
    BY <1>1, <1>2, <2>2 DEF Fixed, Hope
<1>5. DlgsOf(queue) \subseteq Dlgs
  BY InQueueAreDlgs DEF QInv, Entrants
<1>6. Resumed'
  <2> SUFFICES ASSUME queue # <<>>, AllAutoPaused(queue),
                      DlgsOf(queue) \cap lost # {} \/ \E e \in DlgsOf(queue) : Hope(e)
               PROVE  DlgsOf(queue) \cap lost # {} \/ \E e \in DlgsOf(queue) : Hope(e)'
    BY <1>2 DEF QInv, Resumed
  <2> QED
    BY <1>4, <1>5
<1> QED
  BY <1>3, <1>6 DEF QInv

LEMMA NextKeepsQueue == IInv /\ QInv /\ [Next]_vars => QInv'
<1> SUFFICES ASSUME IInv, QInv, [Next]_vars PROVE QInv'
  OBVIOUS
<1>1. CASE ShutDown
  BY <1>1, ShutDownHopes
<1>2. ASSUME NEW d \in Dlgs, Thread(d) PROVE QInv'
  BY <1>2, StartEnters, WorkerHopes, EndLeaves, ToggleHopes, FinishEnters, CancelAllHopes,
     MinimizeHopes DEF Thread
<1>3. ASSUME NEW d \in Dlgs, User(d) PROVE QInv'
  <2>1. CASE Open(d)
    BY <2>1, OpenHopes
  <2>2. CASE \/ ClickPause(d) \/ ClickCancel(d) \/ OpenMenu(d) \/ ClickMinimize(d)
             \/ Restore(d)
    <3>1. Changes(d)
      BY <2>2, ClickPauseChanges, ClickCancelChanges, OpenMenuChanges, ClickMinimizeChanges,
         RestoreChanges
    <3> QED
      BY <2>2, <3>1, UserHopes
  <2> QED
    BY <1>3, <2>1, <2>2 DEF User
<1>4. ASSUME NEW d \in Dlgs, Answer(d) PROVE QInv'
  <2>1. ASSUME NEW yes \in BOOLEAN, AnswerQuestion(d, yes) PROVE QInv'
    <3>1. Changes(d)
      BY <2>1, AnswerChanges
    <3> QED
      BY <2>1, <3>1, UserHopes
  <2> QED
    BY <1>4, <2>1, CloseMenuHopes DEF Answer
<1>5. ASSUME NEW d \in Dlgs, WorkerFinishes(d) PROVE QInv'
  BY <1>5, WorkerHopes
<1>6. CASE UNCHANGED vars
  BY <1>6 DEF vars, ui, QInv, Entrants, OtherTypes, Resumed, Hope
<1> QED
  BY <1>1, <1>2, <1>3, <1>4, <1>5, <1>6 DEF Next

(* Every variable keeps its type: the queue holds dialogs that were opened,    *)
(* each button, event and message queue what the code puts there.              *)
THEOREM TypeCorrect == Spec => []TypeOK
<1>1. IInv /\ QInv => TypeOK
  BY DEF IInv, Types, Phases, QInv, Entrants, OtherTypes, TypeOK
<1> QED
  BY <1>1, InitEstablishes, InitEntersNobody, NextKeeps, NextKeepsQueue, PTL DEF Spec

(* When every operation left in the queue was paused automatically, one of     *)
(* them still has a handler, a message or its end ahead that looks at the      *)
(* queue, whatever the order in which the dialog threads come to it; only      *)
(* CM_RESUMEOPER thrown away by minimizing breaks this (COperationsQueue in    *)
(* src/src/worker.cpp and CProgressDialog in src/src/dialogs.cpp).             *)
THEOREM SomebodyGoesOn == Spec => []SomebodyWillResume
<1>1. QInv => SomebodyWillResume
  BY ResumedIsSomebody DEF QInv
<1> QED
  BY <1>1, InitEstablishes, InitEntersNobody, NextKeeps, NextKeepsQueue, PTL DEF Spec
=============================================================================
