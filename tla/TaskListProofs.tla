--------------------------- MODULE TaskListProofs ---------------------------
(***************************************************************************)
(* The list of instances and the commands between them                     *)
(* (src/src/tasklist.cpp), for any number of instances and commands, with  *)
(* or without the mutex, with any timeouts and crashes:                    *)
(*                                                                         *)
(*   IInv      a command is carried out by its addressee, once;            *)
(*   ItemsOK   no instance is listed twice, and only those that joined;    *)
(*   Answers   where a command line is between the control thread, the     *)
(*             main thread and the sender, so that what the sender learns  *)
(*             is true.                                                    *)
(*                                                                         *)
(* Each of them rests on the ones before it.  The first section proves the *)
(* induction that facts about the shortened list need.                     *)
(***************************************************************************)
EXTENDS TaskList, SequenceTheorems, WellFoundedInduction, TLAPS

-----------------------------------------------------------------------------
(* Induction *)

\* every set of natural numbers that has an element has a least one
LEMMA LeastElement ==
    ASSUME NEW T, T \subseteq Nat, T # {}
    PROVE  \E x \in T : \A y \in T : x <= y
<1> DEFINE R == {ss \in Nat \X Nat : ss[1] < ss[2]}
<1>1. IsWellFoundedOn(R, Nat)
  BY NatLessThanWellFounded DEF OpToRel
<1> HIDE DEF R
<1>2. PICK x \in T : \A y \in T : <<y, x>> \notin R
  BY <1>1, WFMin
<1>3. ASSUME NEW y \in T PROVE x <= y
  <2>1. <<y, x>> \notin R /\ y \in Nat /\ x \in Nat
    BY <1>2
  <2>2. ~(y < x)
    BY <2>1 DEF R
  <2> QED BY <2>1, <2>2
<1> QED BY <1>3

\* what holds of 0 and of the successor of each i it holds of, holds up to n
LEMMA SetInduction ==
    ASSUME NEW n \in Nat, NEW T, 0 \in T,
           \A i \in 0..n : i \in T /\ i # n => i + 1 \in T
    PROVE  0..n \subseteq T
<1> SUFFICES ASSUME ~(0..n \subseteq T) PROVE FALSE
  OBVIOUS
<1> DEFINE U == (0..n) \ T
<1>1. PICK x \in U : \A y \in U : x <= y
  <2>1. U \subseteq Nat /\ U # {}
    OBVIOUS
  <2> HIDE DEF U
  <2> QED BY <2>1, LeastElement
<1>2. x # 0 /\ x - 1 \in 0..n /\ x - 1 # n /\ ~(x <= x - 1)
  BY <1>1
<1>3. x - 1 \in T
  BY <1>1, <1>2
<1>4. (x - 1) + 1 \in T
  BY <1>2, <1>3
<1>5. (x - 1) + 1 = x
  BY <1>1
<1> QED BY <1>1, <1>4, <1>5

\* a function may be defined by its first value and a step from each to the next
LEMMA RecursionExists ==
    ASSUME NEW V, NEW v \in V, NEW n \in Nat, NEW step \in [1..n -> [V -> V]]
    PROVE  \E f \in [0..n -> V] : f[0] = v /\ \A i \in 1..n : f[i] = step[i][f[i - 1]]
<1> DEFINE Good(m) == \E f \in [0..m -> V] : f[0] = v /\ \A i \in 1..m : f[i] = step[i][f[i - 1]]
<1> DEFINE T == {m \in 0..n : Good(m)}
<1>1. 0 \in T
  <2> DEFINE f == [i \in 0..0 |-> v]
  <2>1. f \in [0..0 -> V] /\ f[0] = v /\ \A i \in 1..0 : f[i] = step[i][f[i - 1]]
    OBVIOUS
  <2> HIDE DEF f
  <2>2. Good(0) BY <2>1
  <2> QED BY <2>2
<1>2. ASSUME NEW m \in 0..n, m \in T, m # n PROVE m + 1 \in T
  <2>1. PICK f \in [0..m -> V] : f[0] = v /\ \A i \in 1..m : f[i] = step[i][f[i - 1]]
    BY <1>2
  <2> DEFINE g == [i \in 0..(m + 1) |-> IF i = m + 1 THEN step[i][f[m]] ELSE f[i]]
  <2>2. f[m] \in V /\ m + 1 \in 1..n
    BY <2>1, <1>2
  <2>3. g \in [0..(m + 1) -> V]
    <3>1. step[m + 1][f[m]] \in V
      BY <2>2
    <3> QED BY <3>1, <2>1
  <2>4. g[0] = v
    BY <2>1
  <2>5. ASSUME NEW i \in 1..(m + 1) PROVE g[i] = step[i][g[i - 1]]
    BY <2>1
  <2> HIDE DEF g
  <2>6. Good(m + 1)
    BY <2>3, <2>4, <2>5
  <2> QED BY <2>6, <2>2
<1>3. 0..n \subseteq T
  <2> HIDE DEF T
  <2> QED BY <1>1, <1>2, SetInduction
<1> QED BY <1>3

-----------------------------------------------------------------------------
(* Kept *)

\* f[i] is what is kept of the first i elements
KeepsStepwise(f, q, S, V) ==
    /\ f \in [0..Len(q) -> Seq(V)] /\ Kept(q, S) = f[Len(q)]
    /\ f[0] = <<>>
    /\ \A i \in 1..Len(q) :
          f[i] = IF q[i] \in S THEN Append(f[i - 1], q[i]) ELSE f[i - 1]

\* the definition of Kept defines something, and by sequences over V
LEMMA KeptIsRecursive ==
    ASSUME NEW V, NEW q \in Seq(V), NEW S
    PROVE  \E f : KeepsStepwise(f, q, S, V)
<1> DEFINE n == Len(q)
           Step == [i \in 1..n |-> [s \in Seq(V) |->
                       IF q[i] \in S THEN Append(s, q[i]) ELSE s]]
           Fits(g) == g = [i \in 0..n |->
                        IF i = 0 THEN <<>>
                        ELSE IF q[i] \in S THEN Append(g[i - 1], q[i]) ELSE g[i - 1]]
           c == CHOOSE g : Fits(g)
<1>1. n \in Nat /\ <<>> \in Seq(V)
  OBVIOUS
<1>2. Step \in [1..n -> [Seq(V) -> Seq(V)]]
  <2>1. \A i \in 1..n : q[i] \in V
    OBVIOUS
  <2>2. \A i \in 1..n, s \in Seq(V) : Append(s, q[i]) \in Seq(V)
    BY <2>1
  <2> QED BY <2>2
<1>3. PICK f \in [0..n -> Seq(V)] : f[0] = <<>> /\ \A i \in 1..n : f[i] = Step[i][f[i - 1]]
  <2> DEFINE W == Seq(V)
             e == <<>>
  <2>1. n \in Nat /\ e \in W /\ Step \in [1..n -> [W -> W]]
    BY <1>1, <1>2
  <2> HIDE DEF Step, n, W, e
  <2>2. \E f \in [0..n -> W] : f[0] = e /\ \A i \in 1..n : f[i] = Step[i][f[i - 1]]
    BY <2>1, RecursionExists
  <2> USE DEF W, e
  <2> QED BY <2>2
<1>4. \A i \in 1..n : i - 1 \in 0..n /\ f[i - 1] \in Seq(V)
  BY <1>3, <1>1
<1>5. \A i \in 1..n : f[i] = IF q[i] \in S THEN Append(f[i - 1], q[i]) ELSE f[i - 1]
  BY <1>3, <1>4
<1>6. Fits(f)
  <2>1. ASSUME NEW i \in 0..n
        PROVE  f[i] = IF i = 0 THEN <<>>
                      ELSE IF q[i] \in S THEN Append(f[i - 1], q[i]) ELSE f[i - 1]
    <3>1. CASE i = 0 BY <3>1, <1>3
    <3>2. CASE i # 0
      <4>1. i \in 1..n BY <3>2, <1>1
      <4> QED BY <4>1, <3>2, <1>5
    <3> QED BY <3>1, <3>2
  <2> QED BY <2>1
<1>7. Fits(c)
  BY <1>6
<1>8. Kept(q, S) = c[n]
  BY DEF Kept
<1>9. DOMAIN c = 0..n /\ c[0] = <<>>
      /\ \A i \in 1..n : c[i] = IF q[i] \in S THEN Append(c[i - 1], q[i]) ELSE c[i - 1]
  <2> HIDE DEF c
  <2>1. DOMAIN c = 0..n /\ \A i \in 0..n : c[i] =
                        IF i = 0 THEN <<>>
                        ELSE IF q[i] \in S THEN Append(c[i - 1], q[i]) ELSE c[i - 1]
    BY <1>7
  <2>2. 0 \in 0..n /\ \A i \in 1..n : i \in 0..n /\ i # 0
    BY <1>1
  <2> HIDE DEF n
  <2> QED BY <2>1, <2>2
<1>10. c \in [0..n -> Seq(V)]
  <2> HIDE DEF c
  <2> DEFINE T == {i \in 0..n : c[i] \in Seq(V)}
  <2>1. 0 \in T
    <3> DEFINE e == <<>>
               W == Seq(V)
    <3>1. c[0] = e /\ e \in W /\ 0 \in 0..n
      BY <1>9, <1>1
    <3> HIDE DEF e, n
    <3> QED BY <3>1
  <2>2. ASSUME NEW i \in 0..n, i \in T, i # n PROVE i + 1 \in T
    <3>1. i + 1 \in 1..n /\ (i + 1) - 1 = i
      BY <2>2, <1>1
    <3>2. q[i + 1] \in V
      BY <3>1
    <3>3. c[i + 1] = IF q[i + 1] \in S THEN Append(c[i], q[i + 1]) ELSE c[i]
      <4>1. \A k \in 1..n : c[k] = IF q[k] \in S THEN Append(c[k - 1], q[k]) ELSE c[k - 1]
        BY <1>9
      <4> HIDE DEF n
      <4> QED BY <4>1, <3>1
    <3>4. c[i + 1] \in Seq(V)
      BY <3>3, <3>2, <2>2
    <3> QED BY <3>4, <3>1
  <2>3. 0..n \subseteq T
    <3> HIDE DEF T, n
    <3> QED BY <2>1, <2>2, <1>1, SetInduction
  <2>4. c = [i \in 0..n |-> c[i]]
    BY <1>7
  <2> QED BY <2>3, <2>4, <1>9
<1> HIDE DEF c
<1>11. KeepsStepwise(c, q, S, V)
  BY <1>8, <1>9, <1>10 DEF KeepsStepwise
<1> QED BY <1>11

\* one more element at the end
LEMMA AppendFacts ==
    ASSUME NEW V, NEW s \in Seq(V), NEW x \in V
    PROVE  /\ Append(s, x) \in Seq(V)
           /\ ToSet(Append(s, x)) = ToSet(s) \union {x}
           /\ IsInjective(s) /\ x \notin ToSet(s) => IsInjective(Append(s, x))
<1>1. /\ Append(s, x) \in Seq(V) /\ Len(Append(s, x)) = Len(s) + 1
      /\ \A i \in 1..Len(s) : Append(s, x)[i] = s[i]
      /\ Append(s, x)[Len(s) + 1] = x
      /\ Len(s) \in Nat
      /\ DOMAIN s = 1..Len(s) /\ DOMAIN Append(s, x) = 1..(Len(s) + 1)
  OBVIOUS
<1> DEFINE a == Append(s, x)
           n == Len(s)
<1>2. a \in Seq(V) /\ Len(a) = n + 1 /\ (\A i \in 1..n : a[i] = s[i]) /\ a[n + 1] = x
      /\ n \in Nat /\ DOMAIN s = 1..n /\ DOMAIN a = 1..(n + 1)
  BY <1>1
<1> HIDE DEF a, n
<1>3. ToSet(a) = ToSet(s) \union {x}
  <2>1. \A y \in ToSet(a) : y \in ToSet(s) \union {x}
    <3> TAKE y \in ToSet(a)
    <3>1. PICK i \in 1..(n + 1) : y = a[i]
      BY <1>2 DEF ToSet
    <3>2. CASE i = n + 1 BY <3>1, <3>2, <1>2
    <3>3. CASE i # n + 1
      <4>1. i \in 1..n BY <3>3, <1>2
      <4> QED BY <4>1, <3>1, <1>2 DEF ToSet
    <3> QED BY <3>2, <3>3
  <2>2. \A y \in ToSet(s) : y \in ToSet(a)
    BY <1>2 DEF ToSet
  <2>3. x \in ToSet(a)
    BY <1>2 DEF ToSet
  <2> QED BY <2>1, <2>2, <2>3
<1>4. ASSUME IsInjective(s), x \notin ToSet(s) PROVE IsInjective(a)
  <2> SUFFICES ASSUME NEW i \in DOMAIN a, NEW j \in DOMAIN a, a[i] = a[j] PROVE i = j
    BY DEF IsInjective
  <2>1. i \in 1..(n + 1) /\ j \in 1..(n + 1) BY <1>2
  <2>2. \A k \in 1..(n + 1) : k # n + 1 => k \in 1..n BY <1>2
  <2>3. \A k \in 1..n : a[k] = s[k] /\ s[k] # x BY <1>2, <1>4 DEF ToSet
  <2>4. CASE i \in 1..n /\ j \in 1..n
    BY <2>4, <2>3, <1>2, <1>4 DEF IsInjective
  <2>5. CASE i = n + 1 \/ j = n + 1
    BY <2>1, <2>2, <2>3, <2>5, <1>2
  <2> QED BY <2>1, <2>2, <2>4, <2>5
<1> QED BY <1>2, <1>3, <1>4 DEF a

\* Kept has the elements of q that are in S, each as often as q if q repeats none
LEMMA KeptElements ==
    ASSUME NEW V, NEW q \in Seq(V), NEW S
    PROVE  /\ Kept(q, S) \in Seq(V)
           /\ ToSet(Kept(q, S)) = ToSet(q) \cap S /\ Len(Kept(q, S)) <= Len(q)
           /\ IsInjective(q) => IsInjective(Kept(q, S))
<1>2. Len(q) \in Nat /\ DOMAIN q = 1..Len(q) /\ \A i \in 1..Len(q) : q[i] \in V
  OBVIOUS
<1>0. PICK f : KeepsStepwise(f, q, S, V)
  BY KeptIsRecursive
<1> DEFINE n == Len(q)
<1> HIDE DEF n
<1>8. n = Len(q) BY DEF n
<1>1. /\ f \in [0..n -> Seq(V)] /\ Kept(q, S) = f[n]
      /\ f[0] = <<>>
      /\ \A i \in 1..n : f[i] = IF q[i] \in S THEN Append(f[i - 1], q[i]) ELSE f[i - 1]
  BY <1>0, <1>8 DEF KeepsStepwise
<1>7. n \in Nat /\ DOMAIN q = 1..n /\ \A i \in 1..n : q[i] \in V
  BY <1>2, <1>8
<1> DEFINE Upto(i) == {q[k] : k \in 1..i}
           Good(i) == /\ ToSet(f[i]) = Upto(i) \cap S /\ Len(f[i]) <= i
                      /\ IsInjective(q) => IsInjective(f[i])
           T == {i \in 0..n : Good(i)}
<1>3. 0 \in T
  <2>1. ToSet(f[0]) = {} /\ IsInjective(f[0]) /\ Len(f[0]) = 0
    BY <1>1 DEF ToSet, IsInjective
  <2>2. Upto(0) = {} OBVIOUS
  <2> QED BY <2>1, <2>2, <1>7
<1>4. ASSUME NEW i \in 0..n, i \in T, i # n PROVE i + 1 \in T
  <2> DEFINE j == i + 1
             s == f[i]
             x == q[j]
  <2>1. j \in 1..n /\ j \in 0..n /\ j - 1 = i /\ x \in V
    BY <1>7, <1>4
  <2>2. f[j] = IF x \in S THEN Append(s, x) ELSE s
    BY <1>1, <2>1
  <2>3. s \in Seq(V) /\ ToSet(s) = Upto(i) \cap S /\ (IsInjective(q) => IsInjective(s))
    BY <1>4, <1>1
  <2>4. Upto(j) = Upto(i) \union {x}
    BY <2>1, <1>7
  <2>8. Len(s) \in Nat /\ Len(s) <= i /\ i \in Nat /\ Len(Append(s, x)) = Len(s) + 1
    BY <2>1, <2>3, <1>4, <1>7
  <2>5. IsInjective(q) => x \notin Upto(i)
    <3>1. \A k \in 1..i : k \in 1..n /\ k # j
      BY <2>1, <1>7
    <3> HIDE DEF j
    <3>2. IsInjective(q) => \A k \in 1..i : q[k] # q[j]
      BY <3>1, <2>1, <1>7 DEF IsInjective
    <3> QED BY <3>2
  <2> HIDE DEF j, s, x, Upto
  <2>6. CASE x \in S
    <3>1. f[j] = Append(s, x) BY <2>2, <2>6
    <3>2. ToSet(f[j]) = ToSet(s) \union {x} BY <3>1, AppendFacts, <2>1, <2>3
    <3>3. IsInjective(q) => IsInjective(f[j])
      BY <3>1, AppendFacts, <2>1, <2>3, <2>5
    <3>4. Len(f[j]) <= j
      BY <3>1, <2>8 DEF j
    <3> QED BY <3>2, <3>3, <3>4, <2>1, <2>3, <2>4, <2>6 DEF j
  <2>7. CASE x \notin S
    <3>1. Len(f[j]) <= j
      BY <2>7, <2>2, <2>8 DEF j
    <3> QED BY <3>1, <2>7, <2>2, <2>3, <2>4, <2>1 DEF j
  <2> QED BY <2>6, <2>7
<1>5. n \in T
  <2> HIDE DEF T
  <2>1. 0..n \subseteq T BY <1>7, <1>3, <1>4, SetInduction
  <2> QED BY <2>1, <1>7
<1>6. Upto(n) = ToSet(q)
  BY <1>7 DEF ToSet
<1> HIDE DEF Upto
<1> QED BY <1>1, <1>7, <1>8, <1>5, <1>6

-----------------------------------------------------------------------------
(* A command is carried out by its addressee, once *)

Sent == {requests[u] : u \in DOMAIN requests}

Types ==
    /\ life \in [Processes -> {"off", "joined", "starting", "running", "frozen", "ending", "gone"}]
    /\ requests \in Seq(Sent) /\ Len(requests) <= MaxRequests
    /\ call \in [Processes -> [at : Sending \union {"none", "sleeping"}, uid : Nat,
                               alone : BOOLEAN]]
    /\ control \in [Processes -> [at : {"off", "wait", "woken", "perform", "awaiting"},
                                  uid : Nat]]
    /\ ran \in [UIDs -> Seq(Processes)]

\* nothing is left of an instance that is gone
GoneIsGone ==
    \A p \in Processes : life[p] = "gone" => call[p].at = "none" /\ control[p].at = "off"

\* lastTodoUID is a command sent; what a control thread is about to carry out
\* is addressed to it, and nobody has done it
ControlsKnow ==
    \A p \in Processes :
        /\ control[p].uid <= TodoUID
        /\ control[p].at = "perform" =>
              /\ control[p].uid \in UIDs
              /\ requests[control[p].uid].pid = p /\ ran[control[p].uid] = <<>>

\* what was carried out was carried out by its addressee, whose lastTodoUID
\* has passed it
DoneIsPassed ==
    \A u \in UIDs :
        \/ ran[u] = <<>>
        \/ /\ u <= TodoUID
           /\ \E p \in Processes :
                 /\ requests[u].pid = p /\ ran[u] = <<p>>
                 /\ control[p].uid >= u \/ life[p] = "gone"

IInv == Types /\ GoneIsGone /\ ControlsKnow /\ DoneIsPassed

-----------------------------------------------------------------------------
\* a sequence grows by one element, whatever it is
LEMMA Appended ==
    ASSUME NEW s, NEW e, NEW t, s \in Seq({s[i] : i \in DOMAIN s}), t = Append(s, e)
    PROVE  /\ Len(t) = Len(s) + 1 /\ Len(s) \in Nat
           /\ \A i \in 1..Len(s) : t[i] = s[i]
           /\ t \in Seq({t[i] : i \in DOMAIN t})
<1> DEFINE S == {s[i] : i \in DOMAIN s}
           T == S \union {e}
<1>1. s \in Seq(T) /\ e \in T
  BY SeqMonotonic
<1> HIDE DEF T
<1>2. /\ t \in Seq(T) /\ Len(t) = Len(s) + 1
      /\ \A i \in 1..Len(s) : t[i] = s[i]
  BY <1>1, AppendProperties
<1>3. Len(s) \in Nat /\ Len(t) \in Nat /\ DOMAIN t = 1..Len(t) /\ t \in [1..Len(t) -> T]
  BY <1>1, <1>2, LenProperties
<1> DEFINE U == {t[i] : i \in DOMAIN t}
<1>4. t \in [1..Len(t) -> U]
  BY <1>3
<1> HIDE DEF U
<1>5. t \in Seq(U)
  <2>1. Seq(U) = UNION {[1..n -> U] : n \in Nat}
    BY SeqDef
  <2>2. [1..Len(t) -> U] \in {[1..n -> U] : n \in Nat}
    BY <1>3
  <2> QED BY <1>4, <2>1, <2>2
<1> QED BY <1>2, <1>3, <1>5 DEF U

CallTypes == [at : Sending \union {"none", "sleeping"}, uid : Nat, alone : BOOLEAN]
ControlTypes == [at : {"off", "wait", "woken", "perform", "awaiting"}, uid : Nat]

\* what CallAt and ControlAt change
LEMMA CallMoves ==
    ASSUME call \in [Processes -> CallTypes], NEW p \in Processes,
           NEW place \in Sending \union {"none", "sleeping"}, CallAt(p, place)
    PROVE  /\ call' \in [Processes -> CallTypes] /\ call'[p].at = place
           /\ \A q \in Processes \ {p} : call'[q] = call[q]
<1>1. [call[p] EXCEPT !.at = place] \in CallTypes
  BY DEF CallTypes
<1>2. call' = [call EXCEPT ![p] = [call[p] EXCEPT !.at = place]]
  BY DEF CallAt
<1>3. [call[p] EXCEPT !.at = place].at = place
  BY DEF CallTypes
<1> QED BY <1>1, <1>2, <1>3

LEMMA ControlMoves ==
    ASSUME control \in [Processes -> ControlTypes], NEW p \in Processes,
           NEW place \in {"off", "wait", "woken", "perform", "awaiting"}, ControlAt(p, place)
    PROVE  /\ control' \in [Processes -> ControlTypes] /\ control'[p].at = place
           /\ control'[p].uid = control[p].uid
           /\ \A q \in Processes \ {p} : control'[q] = control[q]
<1>1. [control[p] EXCEPT !.at = place] \in ControlTypes
  BY DEF ControlTypes
<1>2. control' = [control EXCEPT ![p] = [control[p] EXCEPT !.at = place]]
  BY DEF ControlAt
<1>3. /\ [control[p] EXCEPT !.at = place].at = place
      /\ [control[p] EXCEPT !.at = place].uid = control[p].uid
  BY DEF ControlTypes
<1> QED BY <1>1, <1>2, <1>3

\* the invariant holds at the beginning
LEMMA InitEstablishes == ASSUME Init PROVE IInv
<1> USE DEF Init, NoCall, NoThread, TodoUID, UIDs, Sending
<1>1. requests = <<>> /\ Len(requests) = 0 /\ requests \in Seq(Sent)
  BY DEF Sent
<1>2. MaxRequests \in Nat
  BY TaskListAssumption
<1>3. Types
  BY <1>1, <1>2 DEF Types
<1>4. GoneIsGone /\ ControlsKnow /\ DoneIsPassed
  BY <1>1 DEF GoneIsGone, ControlsKnow, DoneIsPassed
<1> QED BY <1>3, <1>4 DEF IInv

\* writing a command: no command is forgotten, and none is carried out yet
LEMMA WriteKeeps ==
    ASSUME IInv, NEW p \in Processes, NEW todo, NEW q, Write(p, todo, q),
           control[p].at # "off" \/ call[p].at # "none",
           life' = life \/ life' = [life EXCEPT ![p] = "starting"],
           UNCHANGED <<control, ran>>
    PROVE  IInv'
<1> USE DEF IInv, Types, Write, TodoUID, Sending
<1> DEFINE e == [todo |-> todo, pid |-> q, by |-> p]
<1>1. /\ Len(requests') = Len(requests) + 1 /\ Len(requests) \in Nat
      /\ \A u \in 1..Len(requests) : requests'[u] = requests[u]
      /\ requests' \in Seq(Sent')
  <2>1. requests \in Seq({requests[u] : u \in DOMAIN requests})
    BY DEF Sent
  <2>2. requests' = Append(requests, e)
    OBVIOUS
  <2> HIDE DEF e, IInv, Types, Write, TodoUID, Sending
  <2>3. Sent' = {requests'[u] : u \in DOMAIN requests'}
    BY DEF Sent
  <2> QED BY ONLY <2>1, <2>2, <2>3, Appended
<1>2. MaxRequests \in Nat
  BY TaskListAssumption
<1>3. Types'
  <2>1. Silence \in BOOLEAN
    BY DEF Silence
  <2>2. call' \in [Processes -> [at : Sending \union {"none", "sleeping"}, uid : Nat,
                                 alone : BOOLEAN]]
    <3> DEFINE C == [at : Sending \union {"none", "sleeping"}, uid : Nat, alone : BOOLEAN]
    <3>1. [at |-> "written", uid |-> TodoUID + 1, alone |-> Silence] \in C
      <4> HIDE DEF Silence
      <4> QED BY <1>1, <2>1
    <3>2. ASSUME NEW r \in Processes PROVE [call[r] EXCEPT !.alone = FALSE] \in C
      <4>1. call[r] \in C
        OBVIOUS
      <4> QED BY ONLY <4>1
    <3>3. call' = [r \in Processes |->
                    IF r = p THEN [at |-> "written", uid |-> TodoUID + 1, alone |-> Silence]
                    ELSE [call[r] EXCEPT !.alone = FALSE]]
      OBVIOUS
    <3> QED BY ONLY <3>1, <3>2, <3>3
  <2> QED BY <1>1, <1>2, <2>2
<1>4. GoneIsGone'
  BY DEF GoneIsGone
<1>5. ControlsKnow'
  BY <1>1, <1>2 DEF ControlsKnow, UIDs
<1>6. DoneIsPassed'
  BY <1>1, <1>2 DEF DoneIsPassed, GoneIsGone, UIDs
<1> QED BY <1>3, <1>4, <1>5, <1>6

\* what is carried out has been waiting for it
LEMMA CarriedOutOnce ==
    ASSUME IInv, NEW p \in Processes, control[p].at = "perform", CarriedOut(p)
    PROVE  /\ control[p].uid \in UIDs /\ control[p].uid <= TodoUID
           /\ requests[control[p].uid].pid = p
           /\ ran' = [ran EXCEPT ![control[p].uid] = <<p>>]
           /\ ran' \in [UIDs -> Seq(Processes)]
<1>1. /\ control[p].uid \in UIDs /\ control[p].uid <= TodoUID
      /\ requests[control[p].uid].pid = p /\ ran[control[p].uid] = <<>>
  BY DEF IInv, ControlsKnow
<1>2. Append(<<>>, p) = <<p>> /\ <<p>> \in Seq(Processes)
  OBVIOUS
<1>3. ran' = [ran EXCEPT ![control[p].uid] = <<p>>]
  BY <1>1, <1>2 DEF CarriedOut
<1> QED BY <1>1, <1>2, <1>3 DEF IInv, Types

\* an instance dies; its last act may be to carry out a command
LEMMA DiesKeeps ==
    ASSUME IInv, NEW p \in Processes, Dies(p), UNCHANGED requests,
           \/ UNCHANGED ran
           \/ control[p].at = "perform" /\ CarriedOut(p)
    PROVE  IInv'
<1> USE DEF IInv, Types, Dies, TodoUID, Sending, NoCall, NoThread
<1>1. Types'
  <2>1. CASE UNCHANGED ran
    BY <2>1 DEF Sent
  <2>2. CASE control[p].at = "perform" /\ CarriedOut(p)
    BY <2>2, CarriedOutOnce DEF Sent
  <2> QED BY <2>1, <2>2
<1>2. GoneIsGone'
  BY DEF GoneIsGone
<1>3. ControlsKnow'
  <2>1. CASE UNCHANGED ran
    BY <2>1 DEF ControlsKnow
  <2>2. CASE control[p].at = "perform" /\ CarriedOut(p)
    BY <2>2, CarriedOutOnce DEF ControlsKnow
  <2> QED BY <2>1, <2>2
<1>4. DoneIsPassed'
  <2>1. CASE UNCHANGED ran
    BY <2>1 DEF DoneIsPassed
  <2>2. CASE control[p].at = "perform" /\ CarriedOut(p)
    <3>1. PICK u \in UIDs : /\ u <= TodoUID /\ requests[u].pid = p
                            /\ ran' = [ran EXCEPT ![u] = <<p>>]
      BY <2>2, CarriedOutOnce
    <3>2. life'[p] = "gone" /\ requests' = requests
          /\ \A q \in Processes \ {p} : life'[q] = life[q] /\ control'[q] = control[q]
      OBVIOUS
    <3>3. ran'[u] = <<p>> /\ \A v \in UIDs \ {u} : ran'[v] = ran[v]
      BY <3>1
    <3> QED BY ONLY <3>1, <3>2, <3>3, DoneIsPassed, p \in Processes DEF DoneIsPassed, TodoUID
  <2> QED BY <2>1, <2>2
<1> QED BY <1>1, <1>2, <1>3, <1>4

-----------------------------------------------------------------------------
\* only a call changes, of an instance that is not gone
LEMMA CallChangeKeeps ==
    ASSUME IInv, NEW p \in Processes, life[p] # "gone", life'[p] # "gone",
           life' \in [Processes -> {"off", "joined", "starting", "running", "frozen", "ending", "gone"}],
           call' \in [Processes -> CallTypes],
           \A q \in Processes \ {p} : life'[q] = life[q] /\ call'[q] = call[q],
           UNCHANGED <<requests, control, ran>>
    PROVE  IInv'
<1>1. Types'
  BY DEF IInv, Types, Sent, CallTypes, Sending
<1>2. GoneIsGone'
  BY DEF IInv, GoneIsGone
<1>3. ControlsKnow'
  BY DEF IInv, ControlsKnow, TodoUID
<1>4. DoneIsPassed'
  <2>1. \A q \in Processes : life[q] = "gone" => life'[q] = "gone"
    OBVIOUS
  <2> QED BY <2>1 DEF IInv, DoneIsPassed, TodoUID
<1> QED BY <1>1, <1>2, <1>3, <1>4 DEF IInv

\* steps that are about the list, the main thread or the time
LEMMA OthersKeep ==
    ASSUME IInv,
           \/ Expire
           \/ \E p \in Processes : TakeParams(p) \/ OpenTasks(p) \/ CloseTasks(p) \/ Timer(p)
           \/ UNCHANGED vars
    PROVE  IInv'
<1>1. UNCHANGED <<life, requests, call, control, ran>>
  BY DEF Expire, TakeParams, OpenTasks, CloseTasks, Timer, vars, shared, handed
<1> QED
  BY <1>1 DEF IInv, Types, Sent, GoneIsGone, ControlsKnow, DoneIsPassed, TodoUID

\* the life of an instance
LEMMA LifeKeeps ==
    ASSUME IInv, NEW p \in Processes,
           Join(p) \/ JoinFails(p) \/ Run(p) \/ Close(p) \/ Leave(p) \/ Crash(p)
    PROVE  IInv'
<1>1. CASE Join(p)
  <2>0. /\ life \in [Processes -> {"off", "joined", "starting", "running", "frozen", "ending", "gone"}]
        /\ control \in [Processes -> ControlTypes] /\ life[p] = "off"
    BY <1>1 DEF Join, IInv, Types, ControlTypes
  <2>1. /\ control' \in [Processes -> ControlTypes] /\ control'[p].at = "wait"
        /\ control'[p].uid = control[p].uid
        /\ \A q \in Processes \ {p} : control'[q] = control[q]
    BY <1>1, <2>0, ControlMoves DEF Join
  <2>2. /\ life' \in [Processes -> {"off", "joined", "starting", "running", "frozen", "ending", "gone"}]
        /\ life'[p] = "joined" /\ UNCHANGED <<requests, call, ran>>
        /\ \A q \in Processes \ {p} : life'[q] = life[q]
    BY <1>1, <2>0 DEF Join
  <2>3. Types'
    BY <2>1, <2>2 DEF IInv, Types, Sent, ControlTypes
  <2>4. GoneIsGone'
    BY <2>1, <2>2 DEF IInv, GoneIsGone
  <2>5. ControlsKnow'
    BY <2>1, <2>2 DEF IInv, ControlsKnow, TodoUID
  <2>6. DoneIsPassed'
    <3>1. \A q \in Processes : life[q] = "gone" => life'[q] = "gone"
      BY <2>0, <2>2
    <3>2. \A q \in Processes : control'[q].uid = control[q].uid
      BY <2>1
    <3> QED BY <2>2, <3>1, <3>2 DEF IInv, DoneIsPassed, TodoUID
  <2> QED BY <2>3, <2>4, <2>5, <2>6 DEF IInv
<1> USE DEF IInv, Types, Sent, GoneIsGone, ControlsKnow, DoneIsPassed, TodoUID
<1>2. CASE JoinFails(p)
  BY <1>2 DEF JoinFails, shared, handed
<1>3. CASE Run(p)
  BY <1>3 DEF Run, shared, handed
<1>4. CASE Close(p)
  BY <1>4 DEF Close, shared, handed
<1>5. CASE Leave(p)
  <2>1. Dies(p) /\ UNCHANGED <<requests, ran>>
    BY <1>5 DEF Leave
  <2> QED BY <2>1, DiesKeeps
<1>6. CASE Crash(p)
  <2>1. Dies(p) /\ UNCHANGED <<requests, ran>>
    BY <1>6 DEF Crash
  <2> QED BY <2>1, DiesKeeps
<1> QED BY <1>1, <1>2, <1>3, <1>4, <1>5, <1>6

\* who was in a call stays alive; who asked itself to break is frozen
LEMMA AfterCallFacts ==
    ASSUME IInv, NEW p \in Processes, Answered(p) \/ NotAnswered(p)
    PROVE  /\ life' \in [Processes -> {"off", "joined", "starting", "running", "frozen", "ending", "gone"}]
           /\ \A q \in Processes \ {p} : life'[q] = life[q]
           /\ \/ Answered(p) /\ life[p] = "starting" /\ life'[p] = "ending"
              \/ /\ NotAnswered(p) \/ life[p] # "starting"
                 /\ \/ life'[p] = life[p]
                    \/ life'[p] = "frozen" /\ requests[call[p].uid].todo = "break"
<1>1. life \in [Processes -> {"off", "joined", "starting", "running", "frozen", "ending", "gone"}]
  BY DEF IInv, Types
<1>2. \/ Answered(p) /\ life[p] = "starting" /\ life' = [life EXCEPT ![p] = "ending"]
      \/ /\ NotAnswered(p) \/ life[p] # "starting"
         /\ \/ life' = life
            \/ life' = [life EXCEPT ![p] = "frozen"] /\ requests[call[p].uid].todo = "break"
  BY DEF Answered, NotAnswered, AfterCall
<1> QED BY ONLY <1>1, <1>2, p \in Processes

\* a call of FireEvent or ActivateRunningInstance
LEMMA CallKeeps == ASSUME IInv, NEW p \in Processes, Call(p) PROVE IInv'
<1>1. CASE \E todo \in {"highlight", "break"}, q \in Processes : FireEvent(p, todo, q)
  <2>1. PICK todo, q : FireEvent(p, todo, q)
    BY <1>1
  <2>2. Write(p, todo, q) /\ control[p].at # "off" /\ UNCHANGED <<life, control, ran>>
    BY <2>1 DEF FireEvent, OK
  <2> QED BY <2>2, WriteKeeps
<1>2. CASE ActivateRunningInstance(p)
  <2>1. PICK q : Write(p, "activate", q)
    BY <1>2 DEF ActivateRunningInstance
  <2>2. control[p].at # "off" /\ life' = [life EXCEPT ![p] = "starting"]
        /\ UNCHANGED <<control, ran>>
    BY <1>2 DEF ActivateRunningInstance, Looking, OK
  <2> QED BY <2>1, <2>2, WriteKeeps
<1>0. /\ life \in [Processes -> {"off", "joined", "starting", "running", "frozen", "ending", "gone"}]
      /\ call \in [Processes -> CallTypes]
      /\ life[p] = "gone" => call[p].at = "none" /\ control[p].at = "off"
  BY DEF IInv, Types, GoneIsGone, CallTypes
<1> USE DEF Sending
<1>3. CASE WaitForStarting(p)
  <2>1. /\ call' \in [Processes -> CallTypes] /\ call'[p].at = "sleeping"
        /\ \A q \in Processes \ {p} : call'[q] = call[q]
    BY <1>0, <1>3, CallMoves DEF WaitForStarting
  <2> QED BY <1>0, <1>3, <2>1, CallChangeKeeps DEF WaitForStarting, Looking, OK, shared
<1>4. CASE NobodyRuns(p)
  <2>1. /\ call' \in [Processes -> CallTypes] /\ call'[p].at = "none"
        /\ \A q \in Processes \ {p} : call'[q] = call[q]
    BY <1>0, <1>4, CallMoves DEF NobodyRuns
  <2> QED BY <1>0, <1>4, <2>1, CallChangeKeeps DEF NobodyRuns, shared
<1>5. CASE Signal(p)
  <2>1. /\ call' \in [Processes -> CallTypes] /\ call'[p].at = "signalled"
        /\ \A q \in Processes \ {p} : call'[q] = call[q]
    BY <1>0, <1>5, CallMoves DEF Signal
  <2> QED BY <1>0, <1>5, <2>1, CallChangeKeeps DEF Signal, shared
<1>6. CASE Answered(p)
  <2>1. call' \in [Processes -> CallTypes] /\ \A q \in Processes \ {p} : call'[q] = call[q]
    BY <1>0, <1>6 DEF Answered, Return, NoCall, CallTypes
  <2>2. life[p] # "gone" /\ UNCHANGED <<requests, control, ran>>
    BY <1>0, <1>6 DEF Answered, Return, shared
  <2>3. /\ life' \in [Processes -> {"off", "joined", "starting", "running", "frozen", "ending", "gone"}]
        /\ life'[p] # "gone" /\ \A q \in Processes \ {p} : life'[q] = life[q]
    BY <1>6, <2>2, AfterCallFacts
  <2> QED BY <2>1, <2>2, <2>3, CallChangeKeeps
<1>7. CASE NotAnswered(p)
  <2>1. call' \in [Processes -> CallTypes] /\ \A q \in Processes \ {p} : call'[q] = call[q]
    BY <1>0, <1>7 DEF NotAnswered, Return, NoCall, CallTypes
  <2>2. life[p] # "gone" /\ UNCHANGED <<requests, control, ran>>
    BY <1>0, <1>7 DEF NotAnswered, Return, shared
  <2>3. /\ life' \in [Processes -> {"off", "joined", "starting", "running", "frozen", "ending", "gone"}]
        /\ life'[p] # "gone" /\ \A q \in Processes \ {p} : life'[q] = life[q]
    BY <1>7, <2>2, AfterCallFacts
  <2> QED BY <2>1, <2>2, <2>3, CallChangeKeeps
<1> QED BY <1>1, <1>2, <1>3, <1>4, <1>5, <1>6, <1>7 DEF Call

\* a command is carried out, and the control thread is somewhere else
LEMMA CarryingOutKeeps ==
    ASSUME IInv, NEW p \in Processes, control[p].at = "perform", CarriedOut(p),
           NEW place \in {"wait", "awaiting"}, ControlAt(p, place),
           UNCHANGED <<life, requests, call>>
    PROVE  IInv'
<1>0. /\ control' \in [Processes -> ControlTypes] /\ control'[p].at = place
      /\ control'[p].uid = control[p].uid
      /\ \A q \in Processes \ {p} : control'[q] = control[q]
  BY ControlMoves DEF IInv, Types, ControlTypes
<1> DEFINE u == control[p].uid
<1>5. /\ u \in UIDs /\ u <= TodoUID /\ requests[u].pid = p
      /\ ran' = [ran EXCEPT ![u] = <<p>>] /\ ran' \in [UIDs -> Seq(Processes)]
  BY CarriedOutOnce
<1>6. ran'[u] = <<p>> /\ \A v \in UIDs \ {u} : ran'[v] = ran[v]
  BY <1>5 DEF IInv, Types
<1>7. u \in Nat
  BY DEF IInv, Types
<1> HIDE DEF u
<1> USE DEF IInv, TodoUID
<1>1. Types'
  BY <1>0, <1>5 DEF Types, Sent, ControlTypes
<1>2. GoneIsGone'
  BY <1>0 DEF GoneIsGone
<1>3. ControlsKnow'
  <2>1. ASSUME NEW q \in Processes \ {p}, control[q].at = "perform"
        PROVE  control[q].uid # u
    BY <1>5, <2>1 DEF ControlsKnow
  <2> QED BY <1>0, <1>6, <2>1 DEF ControlsKnow
<1>4. DoneIsPassed'
  <2>1. control'[p].uid = u /\ u >= u
    BY <1>0, <1>7 DEF u
  <2>2. \A q \in Processes : control'[q].uid = control[q].uid
    BY <1>0
  <2> QED BY <1>5, <1>6, <2>1, <2>2 DEF DoneIsPassed
<1> QED BY <1>1, <1>2, <1>3, <1>4

\* a control thread is somewhere else, and knows what it knew
LEMMA MovingKeeps ==
    ASSUME IInv, NEW p \in Processes, NEW place \in {"wait", "woken"}, ControlAt(p, place),
           control[p].at # "off", UNCHANGED <<life, requests, call, ran>>
    PROVE  IInv'
<1>0. /\ control' \in [Processes -> ControlTypes] /\ control'[p].at = place
      /\ control'[p].uid = control[p].uid
      /\ \A q \in Processes \ {p} : control'[q] = control[q]
  BY ControlMoves DEF IInv, Types, ControlTypes
<1>1. Types'
  BY <1>0 DEF IInv, Types, Sent, ControlTypes
<1>2. GoneIsGone'
  BY <1>0 DEF IInv, GoneIsGone
<1>3. ControlsKnow'
  BY <1>0 DEF IInv, ControlsKnow, TodoUID
<1>4. DoneIsPassed'
  <2>1. \A q \in Processes : control'[q].uid = control[q].uid
    BY <1>0
  <2> QED BY <2>1 DEF IInv, DoneIsPassed, TodoUID
<1> QED BY <1>1, <1>2, <1>3, <1>4 DEF IInv

LEMMA ControlThreadKeeps == ASSUME IInv, NEW p \in Processes, ControlThread(p) PROVE IInv'
<1>1. CASE Highlight(p)
  <2>1. /\ control[p].at = "perform" /\ CarriedOut(p) /\ ControlAt(p, "wait")
        /\ UNCHANGED <<life, requests, call>>
    BY <1>1 DEF Highlight, shared
  <2> QED BY <2>1, CarryingOutKeeps
<1>2. CASE HandOver(p)
  <2>1. /\ control[p].at = "perform" /\ CarriedOut(p) /\ ControlAt(p, "awaiting")
        /\ UNCHANGED <<life, requests, call>>
    BY <1>2 DEF HandOver, shared
  <2> QED BY <2>1, CarryingOutKeeps
<1>3. CASE Break(p)
  <2>1. control[p].at = "perform" /\ CarriedOut(p) /\ Dies(p) /\ UNCHANGED requests
    BY <1>3 DEF Break
  <2> QED BY <2>1, DiesKeeps
<1>4. CASE WakeUp(p)
  <2>1. /\ control[p].at = "wait" /\ ControlAt(p, "woken")
        /\ UNCHANGED <<life, requests, call, ran>>
    BY <1>4 DEF WakeUp, shared
  <2> QED BY <2>1, MovingKeeps
<1>5. CASE LookAway(p)
  <2>1. /\ control[p].at = "woken" /\ ControlAt(p, "wait")
        /\ UNCHANGED <<life, requests, call, ran>>
    BY <1>5 DEF LookAway, shared
  <2> QED BY <2>1, MovingKeeps
<1>6. CASE LookAtTodo(p)
  <2>1. PICK place \in {"wait", "perform"} :
            control' = [control EXCEPT ![p] = [at |-> place, uid |-> TodoUID]]
    BY <1>6 DEF LookAtTodo
  <2>2. /\ control[p].at = "woken" /\ TodoUID > control[p].uid /\ requests[TodoUID].pid = p
        /\ UNCHANGED <<life, requests, call, ran>>
    BY <1>6 DEF LookAtTodo, IsOurs, shared
  <2>3. TodoUID \in Nat /\ TodoUID <= MaxRequests /\ control \in [Processes -> ControlTypes]
    BY LenProperties DEF IInv, Types, TodoUID, ControlTypes
  <2>4. /\ control' \in [Processes -> ControlTypes]
        /\ control'[p] = [at |-> place, uid |-> TodoUID]
        /\ \A q \in Processes \ {p} : control'[q] = control[q]
    BY <2>1, <2>3 DEF ControlTypes
  <2>5. TodoUID \in UIDs /\ ran[TodoUID] = <<>>
    <3>1. TodoUID \in UIDs
      BY <2>2, <2>3, TaskListAssumption DEF UIDs, ControlTypes
    <3>2. control[p].uid < TodoUID /\ life[p] # "gone"
      BY <2>2, <2>3 DEF IInv, GoneIsGone, ControlTypes
    <3> QED BY <3>1, <3>2, <2>2, <2>3 DEF IInv, DoneIsPassed, ControlTypes
  <2>6. Types'
    BY <2>2, <2>4 DEF IInv, Types, Sent, ControlTypes
  <2>7. GoneIsGone'
    BY <2>2, <2>4 DEF IInv, GoneIsGone
  <2>8. ControlsKnow'
    BY <2>2, <2>3, <2>4, <2>5 DEF IInv, ControlsKnow, TodoUID
  <2>9. DoneIsPassed'
    <3>1. \A q \in Processes, u \in UIDs : control[q].uid >= u => control'[q].uid >= u
      BY <2>2, <2>3, <2>4 DEF UIDs, ControlTypes
    <3> QED BY <3>1, <2>2 DEF IInv, DoneIsPassed, TodoUID
  <2> QED BY <2>6, <2>7, <2>8, <2>9 DEF IInv
<1>7. CASE CloseRequest(p)
  <2>1. /\ control[p].at = "awaiting" /\ ControlAt(p, "wait")
        /\ UNCHANGED <<life, requests, call, ran>>
    BY <1>7 DEF CloseRequest, shared
  <2> QED BY <2>1, MovingKeeps
<1> QED BY <1>1, <1>2, <1>3, <1>4, <1>5, <1>6, <1>7 DEF ControlThread

\* the strengthened invariant holds in every state
LEMMA Invariance == Spec => []IInv
<1>1. Init => IInv
  BY InitEstablishes
<1>2. IInv /\ [Next]_vars => IInv'
  BY OthersKeep, LifeKeeps, CallKeeps, ControlThreadKeeps DEF Next
<1> QED BY <1>1, <1>2, PTL DEF Spec

-----------------------------------------------------------------------------
(* A command is carried out by the instance it was sent to and by no other, *)
(* and once, however often and however late control threads look at it.     *)
THEOREM CommandsReachOnlyTheirAddressee == Spec => []OnlyAddresseeOnce
<1>1. IInv => OnlyAddresseeOnce
  <2> SUFFICES ASSUME IInv, NEW u \in UIDs
               PROVE  ran[u] \in {<<>>} \union
                                {<<requests[v].pid>> : v \in {u} \cap DOMAIN requests}
    BY DEF OnlyAddresseeOnce
  <2>1. CASE ran[u] = <<>>
    BY <2>1
  <2>2. CASE ran[u] # <<>>
    <3>1. u \in 1..TodoUID /\ ran[u] = <<requests[u].pid>>
      BY <2>2 DEF IInv, DoneIsPassed, UIDs
    <3>2. DOMAIN requests = 1..TodoUID
      BY LenProperties DEF IInv, Types, TodoUID
    <3> QED BY <3>1, <3>2
  <2> QED BY <2>1, <2>2
<1> QED BY <1>1, Invariance, PTL

-----------------------------------------------------------------------------
(* The list of instances *)

\* no instance is listed twice
Listing(s) ==
    /\ s \in Seq(Item) /\ Len(s) <= MaxItems
    /\ \A i, j \in 1..Len(s) : s[i].pid = s[j].pid => i = j

Joined(s) == \A i \in 1..Len(s) : life[s[i].pid] # "off"

ItemsOK == Listing(items) /\ Joined(items)

LEMMA ShorterListing ==
    ASSUME Listing(items), NEW pids
    PROVE  /\ Listing(Without(pids))
           /\ ToSet(Without(pids)) \subseteq ToSet(items)
<1> DEFINE S == {i \in Item : i.pid \notin pids}
           k == Kept(items, S)
<1>1. items \in Seq(Item) /\ Len(items) <= MaxItems
      /\ \A i, j \in 1..Len(items) : items[i].pid = items[j].pid => i = j
  BY DEF Listing
<1>2. IsInjective(items)
  BY <1>1 DEF IsInjective
<1> HIDE DEF S
<1>3. /\ k \in Seq(Item) /\ ToSet(k) \subseteq ToSet(items) /\ Len(k) <= Len(items)
      /\ IsInjective(k)
  BY <1>1, <1>2, KeptElements
<1> HIDE DEF k
<1>4. Len(k) <= MaxItems
  BY <1>1, <1>3, TaskListAssumption
<1>5. ASSUME NEW i \in 1..Len(k), NEW j \in 1..Len(k), k[i].pid = k[j].pid PROVE i = j
  <2>1. DOMAIN k = 1..Len(k) /\ DOMAIN items = 1..Len(items)
    BY <1>1, <1>3
  <2>2. PICK m \in 1..Len(items) : items[m] = k[i]
    BY <1>3, <2>1 DEF ToSet
  <2>3. PICK n \in 1..Len(items) : items[n] = k[j]
    BY <1>3, <2>1 DEF ToSet
  <2>4. m = n
    BY <1>1, <1>5, <2>2, <2>3
  <2> QED BY <1>3, <2>1, <2>2, <2>3, <2>4 DEF IsInjective
<1> QED BY <1>3, <1>4, <1>5 DEF Listing, Without, k, S

\* nobody joins a second time
LEMMA StillJoined ==
    ASSUME NEW s, Listing(s), ToSet(s) \subseteq ToSet(items), ItemsOK,
           \A q \in Processes : life'[q] = "off" => life[q] = "off", items' = s
    PROVE  ItemsOK'
<1>1. s \in Seq(Item) /\ items \in Seq(Item)
  BY DEF Listing, ItemsOK
<1>2. DOMAIN s = 1..Len(s) /\ DOMAIN items = 1..Len(items)
  BY <1>1
<1>3. ASSUME NEW i \in 1..Len(s) PROVE life'[s[i].pid] # "off"
  <2>1. PICK m \in 1..Len(items) : items[m] = s[i]
    BY <1>2 DEF ToSet
  <2>2. s[i].pid \in Processes
    <3>1. s[i] \in Item
      BY <1>1
    <3> QED BY <3>1 DEF Item
  <2>3. life[items[m].pid] # "off"
    BY ONLY ItemsOK, m \in 1..Len(items) DEF ItemsOK, Joined
  <2>4. life[s[i].pid] # "off"
    BY ONLY <2>1, <2>3
  <2> QED BY <2>2, <2>4
<1> QED BY <1>3 DEF ItemsOK, Listing, Joined

LEMMA SameListKeeps ==
    ASSUME ItemsOK, \A q \in Processes : life'[q] = "off" => life[q] = "off", items' = items
    PROVE  ItemsOK'
BY StillJoined DEF ItemsOK

LEMMA AddItemKeeps ==
    ASSUME IInv, ItemsOK, NEW p \in Processes, AddItem(p), life[p] = "off",
           life' = [life EXCEPT ![p] = "joined"]
    PROVE  ItemsOK'
<1>0. /\ items \in Seq(Item) /\ Len(items) \in Nat
      /\ \A i \in 1..Len(items) : items[i].pid \in Processes
      /\ MaxItems \in Nat
  <2>1. items \in Seq(Item)
    BY DEF ItemsOK, Listing
  <2>2. \A i \in 1..Len(items) : items[i] \in Item
    BY ONLY <2>1
  <2> QED BY <2>1, <2>2, TaskListAssumption DEF Item
<1>1. CASE Room
  <2> DEFINE e == [pid |-> p, state |-> "starting"]
  <2>1. items' = Append(items, e) /\ Len(items) < MaxItems
    BY <1>1 DEF AddItem, Room
  <2>2. e \in Item /\ e.pid = p
    BY DEF Item
  <2> HIDE DEF e
  <2>3. /\ items' \in Seq(Item) /\ Len(items') = Len(items) + 1
        /\ \A i \in 1..Len(items) : items'[i] = items[i]
        /\ items'[Len(items) + 1] = e
    BY <1>0, <2>1, <2>2
  <2>4. \A i \in 1..Len(items') : i \in 1..Len(items) \/ i = Len(items) + 1
    BY <1>0, <2>3
  <2>5. \A i \in 1..Len(items) : items[i].pid # p
    BY DEF ItemsOK, Joined
  <2>6. \A i, j \in 1..Len(items) : items[i].pid = items[j].pid => i = j
    BY DEF ItemsOK, Listing
  <2>7. Listing(items')
    BY <1>0, <2>1, <2>2, <2>3, <2>4, <2>5, <2>6 DEF Listing
  <2>8. \A q \in Processes : life'[q] = "off" => life[q] = "off" /\ q # p
    BY DEF IInv, Types
  <2>9. Joined(items)'
    BY <1>0, <2>2, <2>3, <2>4, <2>8 DEF Joined, ItemsOK
  <2> QED BY <2>7, <2>9 DEF ItemsOK, Listing
<1>2. CASE ~Room
  BY <1>2, SameListKeeps DEF AddItem, IInv, Types
<1> QED BY <1>1, <1>2

\* an item changes its state
LEMMA ProcessStateKeeps ==
    ASSUME ItemsOK, NEW p \in Processes, NEW state \in {"starting", "running", "ending"},
           ProcessState(p, state), \A q \in Processes : life'[q] = "off" => life[q] = "off"
    PROVE  ItemsOK'
<1>1. CASE items' = items
  BY <1>1, SameListKeeps
<1>2. CASE items' = [i \in DOMAIN items |->
                    IF items[i].pid = p THEN [items[i] EXCEPT !.state = state] ELSE items[i]]
  <2>1. /\ items \in Seq(Item) /\ Len(items) \in Nat /\ DOMAIN items = 1..Len(items)
        /\ \A i \in 1..Len(items) : items[i] \in Item
    BY DEF ItemsOK, Listing
  <2>2. \A i \in 1..Len(items) : items'[i] \in Item /\ items'[i].pid = items[i].pid
    BY <1>2, <2>1 DEF Item
  <2>3. items' \in Seq(Item) /\ Len(items') = Len(items)
    BY <1>2, <2>1, <2>2
  <2>4. \A i \in 1..Len(items) : items[i].pid \in Processes
    BY <2>1 DEF Item
  <2>5. Listing(items')
    BY <2>1, <2>2, <2>3 DEF Listing, ItemsOK
  <2>6. Joined(items)'
    BY <2>1, <2>2, <2>3, <2>4 DEF Joined, ItemsOK
  <2> QED BY <2>5, <2>6 DEF ItemsOK, Listing
<1> QED BY <1>1, <1>2 DEF ProcessState

LEMMA ItemsOKAtFirst == ASSUME Init PROVE ItemsOK
<1>1. items = <<[pid |-> First, state |-> "starting"]>> /\ life[First] = "joined"
  BY TaskListAssumption DEF Init
<1>2. items \in Seq(Item) /\ Len(items) = 1 /\ items[1].pid = First
  BY <1>1, TaskListAssumption DEF Item
<1> QED BY <1>1, <1>2, TaskListAssumption DEF ItemsOK, Listing, Joined

LEMMA ItemsStay == ASSUME IInv, ItemsOK, [Next]_vars PROVE ItemsOK'
<1> USE DEF shared
<1>0. life \in [Processes -> {"off", "joined", "starting", "running", "frozen", "ending", "gone"}]
  BY DEF IInv, Types
<1>1. ASSUME NEW p \in Processes, Join(p) PROVE ItemsOK'
  BY <1>1, AddItemKeeps DEF Join
<1>2. ASSUME NEW p \in Processes, JoinFails(p) PROVE ItemsOK'
  <2>1. life' = [life EXCEPT ![p] = "joined"] /\ life[p] = "off"
    BY <1>2 DEF JoinFails
  <2>2. AddItem(p) \/ items' = items
    BY <1>2 DEF JoinFails
  <2>3. \A q \in Processes : life'[q] = "off" => life[q] = "off"
    BY <1>0, <2>1
  <2> QED BY <2>1, <2>2, <2>3, AddItemKeeps, SameListKeeps
<1>3. ASSUME NEW p \in Processes, Run(p) PROVE ItemsOK'
  <2>1. \A q \in Processes : life'[q] = "off" => life[q] = "off"
    BY <1>0, <1>3 DEF Run
  <2> QED BY <1>3, <2>1, ProcessStateKeeps DEF Run
<1>4. ASSUME NEW p \in Processes, Close(p) PROVE ItemsOK'
  <2>1. \A q \in Processes : life'[q] = "off" => life[q] = "off"
    BY <1>0, <1>4 DEF Close
  <2> QED BY <1>4, <2>1, ProcessStateKeeps DEF Close
<1>5. ASSUME NEW p \in Processes, Leave(p) PROVE ItemsOK'
  <2>1. \A q \in Processes : life'[q] = "off" => life[q] = "off"
    BY <1>0, <1>5 DEF Leave, Dies
  <2>2. items' = Without({p}) \/ items' = items
    BY <1>5 DEF Leave
  <2> QED BY <2>1, <2>2, ShorterListing, StillJoined, SameListKeeps DEF ItemsOK
<1>6. ASSUME NEW p \in Processes, Crash(p) \/ Break(p) PROVE ItemsOK'
  <2>1. \A q \in Processes : life'[q] = "off" => life[q] = "off"
    BY <1>0, <1>6 DEF Crash, Break, Dies
  <2>2. items' = items
    BY <1>6 DEF Crash, Break
  <2> QED BY <2>1, <2>2, SameListKeeps
<1>7. ASSUME NEW p \in Processes, OpenTasks(p) \/ Timer(p) PROVE ItemsOK'
  <2>1. \A q \in Processes : life'[q] = "off" => life[q] = "off"
    BY <1>7 DEF OpenTasks, Timer
  <2>2. items' = Without(Killed) \/ items' = items
    BY <1>7 DEF OpenTasks, Timer, Refresh
  <2> QED BY <2>1, <2>2, ShorterListing, StillJoined, SameListKeeps DEF ItemsOK
<1>8. ASSUME NEW p \in Processes, Call(p) PROVE ItemsOK'
  <2>1. \A q \in Processes : life'[q] = "off" => life[q] = "off"
    BY <1>0, <1>8, AfterCallFacts DEF Call, FireEvent, ActivateRunningInstance, WaitForStarting,
       NobodyRuns, Signal
  <2>2. items' = items
    BY <1>8 DEF Call, FireEvent, ActivateRunningInstance, WaitForStarting, NobodyRuns,
          Signal, Answered, NotAnswered, Return
  <2> QED BY <2>1, <2>2, SameListKeeps
<1>9. ASSUME NEW p \in Processes,
             \/ WakeUp(p) \/ LookAway(p) \/ LookAtTodo(p) \/ Highlight(p)
             \/ HandOver(p) \/ CloseRequest(p) \/ TakeParams(p) \/ CloseTasks(p)
      PROVE  ItemsOK'
  <2>1. life' = life /\ items' = items
    BY <1>9 DEF WakeUp, LookAway, LookAtTodo, Highlight, HandOver, CloseRequest, TakeParams,
          CloseTasks
  <2> QED BY <2>1, SameListKeeps
<1>10. CASE Expire \/ UNCHANGED vars
  <2>1. life' = life /\ items' = items
    BY <1>10 DEF Expire, vars
  <2> QED BY <2>1, SameListKeeps
<1> QED
  BY <1>1, <1>2, <1>3, <1>4, <1>5, <1>6, <1>7, <1>8, <1>9, <1>10 DEF Next, ControlThread

-----------------------------------------------------------------------------
(* What the threads agree on *)

Hands ==
    /\ params \in [Processes -> Nat] /\ activated \in [Processes -> Nat]
    /\ processed \in [Processes -> BOOLEAN]
    /\ event \in BOOLEAN /\ eventProcessed \in BOOLEAN /\ expired \in Nat
    /\ DOMAIN tasks = Processes
    /\ \A u \in 1..TodoUID : requests[u].by \in Processes /\ requests[u].pid \in Processes

\* the control thread and the main thread of q agree on the command line that
\* is between them, and the main thread is never ahead
ThreadsAgree(q) ==
    /\ life[q] = "off" => control[q].at = "off"
    /\ activated[q] <= control[q].uid
    /\ control[q].at = "perform" => activated[q] < control[q].uid
    /\ control[q].at # "awaiting" => params[q] = 0
    /\ control[q].at = "awaiting" =>
          /\ params[q] = control[q].uid /\ control[q].uid \in 1..TodoUID
          /\ requests[control[q].uid].pid = q /\ requests[control[q].uid].todo = "activate"
          /\ processed[q] <=> activated[q] = control[q].uid

\* who is in a call runs, or starts and asks to be taken over
CallsAgree(p) ==
    /\ call[p].at \in Sending =>
          /\ call[p].uid \in 1..TodoUID /\ life[p] \in {"starting", "running"}
          /\ life[p] = "starting" => requests[call[p].uid].todo = "activate"
    /\ call[p].at = "sleeping" => life[p] = "starting"
    /\ tasks[p].open => life[p] \in {"running", "frozen"}

\* the sender of an activation waits until it is too old
SenderWaits(u) ==
    LET p == requests[u].by
    IN  \/ call[p].at \in Sending /\ call[p].uid = u /\ life[p] = "starting"
        \/ life[p] \in {"ending", "gone"}

YoungIsAwaited ==
    \A u \in 1..TodoUID : requests[u].todo = "activate" /\ u > expired => SenderWaits(u)

\* while only the last command is on its way, its addressee has taken it just
\* when EventProcessed says so, or is about to
AnswerAgrees(q) ==
    \/ life[q] = "gone"
    \/ /\ eventProcessed => activated[q] = TodoUID
       /\ activated[q] = TodoUID => eventProcessed \/ control[q].at = "awaiting"

AllAtRest ==
    /\ ~event
    /\ \A q \in Processes : control[q].at \in {"off", "wait"} /\ control[q].uid < TodoUID

LastIsOnItsWay ==
    /\ \A q \in Processes : control[q].at \in {"perform", "awaiting"} => control[q].uid = TodoUID
    /\ requests[TodoUID].todo = "activate" => AnswerAgrees(requests[TodoUID].pid)

Only(p) ==
    /\ call[p].uid = TodoUID
    /\ \A r \in Processes \ {p} : call[r].at \notin Sending
    /\ call[p].at = "written" => AllAtRest
    /\ call[p].at = "signalled" => LastIsOnItsWay

AloneIsOnly == \A p \in Processes : call[p].at \in Sending /\ call[p].alone => Only(p)

Answers ==
    /\ Hands
    /\ \A p \in Processes : ThreadsAgree(p)
    /\ \A p \in Processes : CallsAgree(p)
    /\ YoungIsAwaited
    /\ AloneIsOnly

LEMMA AnswersAtFirst == ASSUME Init PROVE Answers
<1>1. requests = <<>> /\ Len(requests) = 0
  BY DEF Init
<1>2. Hands /\ YoungIsAwaited
  <2>1. YoungIsAwaited
    BY ONLY <1>1 DEF YoungIsAwaited, TodoUID
  <2>2. /\ params \in [Processes -> Nat] /\ activated \in [Processes -> Nat]
        /\ processed \in [Processes -> BOOLEAN]
    BY DEF Init
  <2>3. /\ event \in BOOLEAN /\ eventProcessed \in BOOLEAN /\ expired \in Nat
        /\ DOMAIN tasks = Processes
    BY DEF Init
  <2>4. \A u \in 1..TodoUID : requests[u].by \in Processes /\ requests[u].pid \in Processes
    BY ONLY <1>1 DEF TodoUID
  <2> QED BY <2>1, <2>2, <2>3, <2>4 DEF Hands
<1>3. \A p \in Processes : ThreadsAgree(p) /\ CallsAgree(p)
  BY <1>1 DEF Init, ThreadsAgree, CallsAgree, TodoUID, NoThread, NoCall, NoTasks, Sending
<1>4. AloneIsOnly
  BY DEF Init, AloneIsOnly, NoCall, Sending
<1> QED BY <1>2, <1>3, <1>4 DEF Answers

-----------------------------------------------------------------------------
(* What the steps leave alone *)

Lives == {"off", "joined", "starting", "running", "frozen", "ending", "gone"}

LEMMA TodoIsNat == ASSUME IInv PROVE TodoUID \in Nat /\ DOMAIN requests = 1..TodoUID
BY LenProperties DEF IInv, Types, TodoUID

\* p is neither sending nor does a thread of it take part: a call is not about to
\* be sent, or stays as it is
Bystands(p) ==
    /\ DOMAIN tasks' = Processes
    /\ \A q \in Processes \ {p} : /\ life'[q] = life[q] /\ call'[q] = call[q]
                                  /\ control'[q] = control[q] /\ tasks'[q] = tasks[q]
    /\ \/ control'[p] = control[p]
       \/ control[p].at = "off" /\ control'[p].at = "wait" /\ control'[p].uid = control[p].uid
    /\ life[p] = "gone" => life'[p] = "gone"
    /\ life'[p] = "off" => life[p] = "off" /\ control'[p] = control[p]
    /\ \/ call'[p] = call[p] /\ (life'[p] = life[p] \/ call[p].at \notin Sending)
       \/ call[p].at \notin Sending /\ call'[p].at \notin Sending
    /\ life[p] = "ending" => life'[p] = "ending"
    /\ CallsAgree(p)'

LEMMA BystandersKeepAnswers ==
    ASSUME IInv, Answers, NEW p \in Processes, Bystands(p),
           life' \in [Processes -> Lives], call' \in [Processes -> CallTypes],
           control' \in [Processes -> ControlTypes],
           expired' \in Nat, expired <= expired',
           UNCHANGED <<requests, event, eventProcessed, handed>>
    PROVE  Answers'
<1> USE DEF Bystands
<1>0. TodoUID \in Nat /\ TodoUID' = TodoUID /\ UNCHANGED <<params, processed, activated>>
  BY TodoIsNat DEF TodoUID, handed
<1>1. Hands'
  BY <1>0 DEF Answers, Hands
<1>2. ASSUME NEW q \in Processes PROVE ThreadsAgree(q)'
  <2>1. ThreadsAgree(q)
    BY DEF Answers
  <2> QED BY <1>0, <2>1 DEF ThreadsAgree
<1>3. ASSUME NEW q \in Processes PROVE CallsAgree(q)'
  <2>1. CallsAgree(q)
    BY DEF Answers
  <2> QED BY <1>0, <2>1 DEF CallsAgree
<1>4. YoungIsAwaited'
  <2> SUFFICES ASSUME NEW u \in 1..TodoUID, requests[u].todo = "activate", u > expired'
               PROVE  SenderWaits(u)'
    BY <1>0 DEF YoungIsAwaited
  <2>1. SenderWaits(u)
    BY <1>0 DEF Answers, YoungIsAwaited, Hands
  <2>2. requests[u].by \in Processes
    BY <1>0 DEF Answers, Hands
  <2>3. requests'[u].by = requests[u].by
    OBVIOUS
  <2> DEFINE b == requests[u].by
  <2> HIDE DEF b
  <2>4. \/ call[b].at \in Sending /\ call[b].uid = u /\ life[b] = "starting"
        \/ life[b] \in {"ending", "gone"}
    BY <2>1 DEF SenderWaits, b
  <2>5. CASE b = p
    BY <2>4, <2>5, <2>3 DEF SenderWaits, b
  <2>6. CASE b # p
    BY <2>2, <2>4, <2>6, <2>3 DEF SenderWaits, b
  <2> QED BY <2>5, <2>6
<1>5. AloneIsOnly'
  <2> SUFFICES ASSUME NEW r \in Processes, call'[r].at \in Sending, call'[r].alone
               PROVE  Only(r)'
    BY DEF AloneIsOnly
  <2>1. call'[r] = call[r]
    OBVIOUS
  <2>2. Only(r)
    BY <2>1 DEF Answers, AloneIsOnly
  <2>3. \A q \in Processes \ {r} : call'[q].at \notin Sending
    BY <2>2 DEF Only
  <2>4. AllAtRest => AllAtRest'
    BY <1>0 DEF AllAtRest
  <2>5. LastIsOnItsWay /\ TodoUID # 0 => LastIsOnItsWay'
    <3> SUFFICES ASSUME LastIsOnItsWay, TodoUID # 0 PROVE LastIsOnItsWay'
      OBVIOUS
    <3>1. requests[TodoUID].pid \in Processes
      BY <1>0 DEF Answers, Hands
    <3>2. \A q \in Processes :
             control'[q].at \in {"perform", "awaiting"} => control'[q] = control[q]
      OBVIOUS
    <3>3. \A q \in Processes : control[q].at = "awaiting" => control'[q].at = "awaiting"
      OBVIOUS
    <3>4. \A q \in Processes : AnswerAgrees(q) => AnswerAgrees(q)'
      BY <1>0, <3>3 DEF AnswerAgrees
    <3>5. requests'[TodoUID'] = requests[TodoUID]
      BY <1>0
    <3> QED BY <1>0, <3>1, <3>2, <3>4, <3>5 DEF LastIsOnItsWay
  <2>6. TodoUID # 0
    BY <1>0, <2>1 DEF Answers, CallsAgree
  <2> QED BY <1>0, <2>1, <2>2, <2>3, <2>4, <2>5, <2>6 DEF Only
<1> QED BY <1>1, <1>2, <1>3, <1>4, <1>5 DEF Answers

\* the command that is alone on its way was sent
LEMMA OnlySent ==
    ASSUME IInv, Answers, NEW r \in Processes, call[r].at \in Sending, call[r].alone
    PROVE  /\ Only(r) /\ TodoUID \in Nat \ {0}
           /\ requests[TodoUID].pid \in Processes
<1>1. Only(r) /\ CallsAgree(r) /\ TodoUID \in Nat
  BY TodoIsNat DEF Answers, AloneIsOnly
<1>2. TodoUID \in Nat \ {0}
  BY <1>1 DEF CallsAgree
<1> QED BY <1>1, <1>2 DEF Answers, Hands

\* who has a young activation of its own is gone, ending or sending
LEMMA YoungStays ==
    ASSUME IInv, Answers, NEW p \in Processes,
           life' \in [Processes -> Lives],
           \A q \in Processes \ {p} : /\ life'[q] = life[q]
                                      /\ call'[q].at = call[q].at /\ call'[q].uid = call[q].uid,
           UNCHANGED <<requests, expired>>,
           life[p] \in {"ending", "gone"} => life'[p] \in {"ending", "gone"},
           call[p].at \in Sending /\ life[p] = "starting" =>
               \/ life'[p] \in {"ending", "gone"}
               \/ life'[p] = "starting" /\ call'[p].at \in Sending /\ call'[p].uid = call[p].uid
               \/ call[p].uid <= expired
    PROVE  YoungIsAwaited'
<1>0. TodoUID \in Nat /\ TodoUID' = TodoUID
  BY TodoIsNat DEF TodoUID
<1> SUFFICES ASSUME NEW u \in 1..TodoUID, requests[u].todo = "activate", u > expired
             PROVE  SenderWaits(u)'
  BY <1>0 DEF YoungIsAwaited
<1>1. SenderWaits(u) /\ requests[u].by \in Processes /\ expired \in Nat /\ u \in Nat
  BY <1>0 DEF Answers, YoungIsAwaited, Hands
<1> DEFINE b == requests[u].by
<1> HIDE DEF b
<1>2. \/ call[b].at \in Sending /\ call[b].uid = u /\ life[b] = "starting"
      \/ life[b] \in {"ending", "gone"}
  BY <1>1 DEF SenderWaits, b
<1>3. /\ b \in Processes
      /\ SenderWaits(u)' <=> \/ call'[b].at \in Sending /\ call'[b].uid = u /\ life'[b] = "starting"
                             \/ life'[b] \in {"ending", "gone"}
  BY <1>1 DEF SenderWaits, b, Sending
<1>4. CASE b # p
  BY <1>2, <1>3, <1>4
<1>5. CASE b = p
  <2>1. ~(u <= expired)
    BY <1>1
  <2> QED BY <1>2, <1>3, <1>5, <2>1
<1> QED BY <1>4, <1>5

-----------------------------------------------------------------------------
(* One lemma for each step *)

\* an instance dies; its last act may be to carry out a command
LEMMA DyingKeepsAnswers ==
    ASSUME IInv, Answers, NEW p \in Processes, Dies(p), UNCHANGED <<requests, event, expired>>,
           \/ UNCHANGED eventProcessed
           \/ /\ eventProcessed' = TRUE
              /\ control[p].at = "perform" /\ requests[control[p].uid].todo # "activate"
    PROVE  Answers'
<1>0. /\ TodoUID \in Nat /\ TodoUID' = TodoUID
      /\ life \in [Processes -> Lives] /\ call \in [Processes -> CallTypes]
      /\ control \in [Processes -> ControlTypes]
  BY TodoIsNat DEF TodoUID, IInv, Types, Lives, CallTypes, ControlTypes
<1>1. /\ life'[p] = "gone" /\ control'[p] = NoThread /\ call'[p] = NoCall
      /\ params'[p] = 0 /\ activated'[p] = 0 /\ tasks'[p] = NoTasks
      /\ \A q \in Processes \ {p} :
            /\ life'[q] = life[q] /\ control'[q] = control[q] /\ call'[q] = call[q]
            /\ params'[q] = params[q] /\ processed'[q] = processed[q]
            /\ activated'[q] = activated[q] /\ tasks'[q] = tasks[q]
  BY <1>0 DEF Dies, Answers, Hands
<1>2. Hands'
  BY <1>0 DEF Answers, Hands, Dies
<1>3. ASSUME NEW q \in Processes PROVE ThreadsAgree(q)' /\ CallsAgree(q)'
  <2>1. CASE q = p
    BY <1>1, <2>1 DEF ThreadsAgree, CallsAgree, NoThread, NoCall, NoTasks, Sending
  <2>2. CASE q # p
    <3>1. ThreadsAgree(q) /\ CallsAgree(q)
      BY DEF Answers
    <3> QED BY <1>0, <1>1, <2>2, <3>1 DEF ThreadsAgree, CallsAgree
  <2> QED BY <2>1, <2>2
<1>4. YoungIsAwaited'
  <2>1. life' \in [Processes -> Lives]
    BY <1>0 DEF Dies, Lives
  <2> QED BY <1>1, <2>1, YoungStays
<1>5. AloneIsOnly'
  <2> SUFFICES ASSUME NEW r \in Processes, call'[r].at \in Sending, call'[r].alone
               PROVE  Only(r)'
    BY DEF AloneIsOnly
  <2>1. r # p /\ call'[r] = call[r]
    BY <1>1 DEF NoCall, Sending
  <2>2. Only(r) /\ TodoUID \in Nat \ {0} /\ requests[TodoUID].pid \in Processes
    BY <2>1, OnlySent
  <2>3. \A q \in Processes \ {r} : call'[q].at \notin Sending
    BY <1>1, <2>2 DEF Only, NoCall, Sending
  <2>4. AllAtRest => AllAtRest'
    BY <1>0, <1>1, <2>2 DEF AllAtRest, NoThread
  <2>5. ASSUME LastIsOnItsWay PROVE LastIsOnItsWay'
    <3>1. \A q \in Processes :
             control'[q].at \in {"perform", "awaiting"} => control'[q].uid = TodoUID'
      BY <1>0, <1>1, <2>5 DEF LastIsOnItsWay, NoThread
    <3>2. requests[TodoUID].todo = "activate" => UNCHANGED eventProcessed
      BY <2>5 DEF LastIsOnItsWay
    <3>3. requests[TodoUID].todo = "activate" => AnswerAgrees(requests[TodoUID].pid)
      BY <2>5 DEF LastIsOnItsWay
    <3>4. ASSUME UNCHANGED eventProcessed, NEW q \in Processes, AnswerAgrees(q)
          PROVE  AnswerAgrees(q)'
      <4>1. CASE q = p
        BY <1>1, <4>1 DEF AnswerAgrees
      <4>2. CASE q # p
        BY <1>0, <1>1, <3>4, <4>2 DEF AnswerAgrees
      <4> QED BY <4>1, <4>2
    <3>5. requests'[TodoUID'] = requests[TodoUID]
      BY <1>0
    <3> QED BY <2>2, <3>1, <3>2, <3>3, <3>4, <3>5 DEF LastIsOnItsWay
  <2> QED BY <1>0, <2>1, <2>2, <2>3, <2>4, <2>5 DEF Only
<1> QED BY <1>2, <1>3, <1>4, <1>5 DEF Answers

\* a command is written: it is alone only if all is silent
LEMMA WritingKeepsAnswers ==
    ASSUME IInv, Answers, NEW p \in Processes, NEW todo, NEW q \in Processes,
           Write(p, todo, q), call[p].at \notin Sending,
           life[p] \notin {"ending", "gone"},
           life'[p] \in {"starting", "running"},
           life' \in [Processes -> Lives], \A r \in Processes \ {p} : life'[r] = life[r],
           todo = "activate" <=> life'[p] = "starting",
           ~tasks[p].open \/ life'[p] = "running",
           UNCHANGED <<event, eventProcessed, control, handed, tasks, expired>>
    PROVE  Answers'
<1> DEFINE e == [todo |-> todo, pid |-> q, by |-> p]
<1>0. /\ TodoUID \in Nat /\ TodoUID' = TodoUID + 1
      /\ \A u \in 1..TodoUID : requests'[u] = requests[u]
      /\ requests'[TodoUID + 1] = e
      /\ e.todo = todo /\ e.pid = q /\ e.by = p
      /\ UNCHANGED <<params, processed, activated>>
  <2>1. requests \in Seq(Sent \union {e})
    BY SeqMonotonic DEF IInv, Types
  <2>2. requests' = Append(requests, e) /\ e \in Sent \union {e}
    BY DEF Write
  <2> HIDE DEF e
  <2>3. /\ Len(requests) \in Nat /\ Len(requests') = Len(requests) + 1
        /\ \A u \in 1..Len(requests) : requests'[u] = requests[u]
        /\ requests'[Len(requests) + 1] = e
    BY ONLY <2>1, <2>2
  <2>4. e.todo = todo /\ e.pid = q /\ e.by = p
    BY DEF e
  <2> QED BY <2>3, <2>4 DEF TodoUID, handed
<1> HIDE DEF e
<1>1. /\ call'[p].at = "written" /\ call'[p].uid = TodoUID + 1 /\ (call'[p].alone => Silence)
      /\ \A r \in Processes \ {p} :
            /\ call'[r].at = call[r].at /\ call'[r].uid = call[r].uid /\ ~call'[r].alone
  <2>1. call \in [Processes -> CallTypes]
    BY DEF IInv, Types, CallTypes
  <2>2. call' = [r \in Processes |->
                    IF r = p THEN [at |-> "written", uid |-> TodoUID + 1, alone |-> Silence]
                    ELSE [call[r] EXCEPT !.alone = FALSE]]
    BY DEF Write
  <2>3. ASSUME NEW r \in Processes \ {p}
        PROVE  call'[r].at = call[r].at /\ call'[r].uid = call[r].uid /\ call'[r].alone = FALSE
    <3>1. call[r] \in CallTypes /\ call'[r] = [call[r] EXCEPT !.alone = FALSE]
      BY <2>1, <2>2
    <3> QED BY <3>1 DEF CallTypes
  <2> QED BY <2>2, <2>3
<1>2. Hands'
  BY <1>0 DEF Answers, Hands
<1>3. ASSUME NEW r \in Processes PROVE ThreadsAgree(r)' /\ CallsAgree(r)'
  <2>1. ThreadsAgree(r) /\ CallsAgree(r)
    BY DEF Answers
  <2>2. ThreadsAgree(r)'
    BY <1>0, <2>1 DEF ThreadsAgree
  <2>3. CASE r = p
    BY <1>0, <1>1, <2>2, <2>3 DEF CallsAgree, Sending
  <2>4. CASE r # p
    BY <1>0, <1>1, <2>1, <2>2, <2>4 DEF CallsAgree
  <2> QED BY <2>3, <2>4
<1>4. YoungIsAwaited'
  <2> SUFFICES ASSUME NEW u \in 1..(TodoUID + 1), requests'[u].todo = "activate", u > expired
               PROVE  SenderWaits(u)'
    BY <1>0 DEF YoungIsAwaited
  <2>1. CASE u = TodoUID + 1
    <3>1. requests'[u].by = p /\ life'[p] = "starting"
      BY <1>0, <2>1
    <3> QED BY <1>1, <2>1, <3>1 DEF SenderWaits, Sending
  <2>2. CASE u \in 1..TodoUID
    <3>1. requests'[u] = requests[u] /\ SenderWaits(u) /\ requests[u].by \in Processes
      BY <1>0, <2>2 DEF Answers, YoungIsAwaited, Hands
    <3> DEFINE b == requests[u].by
    <3> HIDE DEF b
    <3>2. \/ call[b].at \in Sending /\ call[b].uid = u /\ life[b] = "starting"
          \/ life[b] \in {"ending", "gone"}
      BY <3>1 DEF SenderWaits, b
    <3>3. b \in Processes \ {p}
      BY <3>1, <3>2 DEF b
    <3>4. \/ call'[b].at \in Sending /\ call'[b].uid = u /\ life'[b] = "starting"
          \/ life'[b] \in {"ending", "gone"}
      BY <1>1, <3>2, <3>3
    <3> QED BY <3>1, <3>4 DEF SenderWaits, b, Sending
  <2> QED BY <1>0, <2>1, <2>2
<1>5. AloneIsOnly'
  <2> SUFFICES ASSUME NEW r \in Processes, call'[r].at \in Sending, call'[r].alone
               PROVE  Only(r)'
    BY DEF AloneIsOnly
  <2>1. r = p /\ Silence
    BY <1>1
  <2>2. \A s \in Processes \ {r} : call'[s].at \notin Sending'
    BY <1>1, <2>1 DEF Silence, Sending
  <2>3. \A s \in Processes : control[s].uid <= TodoUID /\ control[s].uid \in Nat
    BY DEF IInv, ControlsKnow, Types
  <2>4. AllAtRest'
    BY <1>0, <2>1, <2>3 DEF AllAtRest, Silence
  <2> QED BY <1>0, <1>1, <2>1, <2>2, <2>4 DEF Only
<1> QED BY <1>2, <1>3, <1>4, <1>5 DEF Answers

\* a step of a control thread or of a main thread between two calls
LEMMA ThreadStepKeepsAnswers ==
    ASSUME IInv, Answers, NEW p \in Processes,
           UNCHANGED <<life, call, tasks, requests, expired>>,
           \A q \in Processes \ {p} : /\ control'[q] = control[q] /\ params'[q] = params[q]
                                      /\ processed'[q] = processed[q]
                                      /\ activated'[q] = activated[q],
           Hands', ThreadsAgree(p)',
           AllAtRest => AllAtRest',
           LastIsOnItsWay /\ TodoUID # 0 /\ requests[TodoUID].pid \in Processes => LastIsOnItsWay'
    PROVE  Answers'
<1>0. TodoUID \in Nat /\ TodoUID' = TodoUID
  BY TodoIsNat DEF TodoUID
<1>1. ASSUME NEW q \in Processes PROVE ThreadsAgree(q)' /\ CallsAgree(q)'
  <2>1. ThreadsAgree(q) /\ CallsAgree(q)
    BY DEF Answers
  <2>2. CallsAgree(q)'
    BY <1>0, <2>1 DEF CallsAgree
  <2>3. CASE q = p
    BY <2>2, <2>3
  <2>4. CASE q # p
    BY <1>0, <2>1, <2>2, <2>4 DEF ThreadsAgree
  <2> QED BY <2>3, <2>4
<1>2. YoungIsAwaited'
  BY <1>0 DEF Answers, YoungIsAwaited, SenderWaits
<1>3. AloneIsOnly'
  <2> SUFFICES ASSUME NEW r \in Processes, call[r].at \in Sending, call[r].alone
               PROVE  Only(r)'
    BY DEF AloneIsOnly
  <2>1. Only(r) /\ TodoUID \in Nat \ {0} /\ requests[TodoUID].pid \in Processes
    BY OnlySent
  <2> QED BY <1>0, <2>1 DEF Only
<1> QED BY <1>1, <1>2, <1>3 DEF Answers

LEMMA WakingKeepsAnswers ==
    ASSUME IInv, Answers, NEW p \in Processes, WakeUp(p) \/ LookAway(p)
    PROVE  Answers'
<1>0. /\ UNCHANGED <<life, call, tasks, requests, expired, params, processed, activated, event,
                     eventProcessed>>
      /\ TodoUID' = TodoUID
  BY DEF WakeUp, LookAway, shared, handed, TodoUID
<1>1. /\ control[p].at \in {"wait", "woken"}
      /\ control' \in [Processes -> ControlTypes] /\ control'[p].at \in {"wait", "woken"}
      /\ control'[p].uid = control[p].uid
      /\ \A q \in Processes \ {p} : control'[q] = control[q]
  <2>1. control \in [Processes -> ControlTypes]
    BY DEF IInv, Types, ControlTypes
  <2>2. CASE WakeUp(p)
    BY <2>1, <2>2, ControlMoves DEF WakeUp
  <2>3. CASE LookAway(p)
    BY <2>1, <2>3, ControlMoves DEF LookAway
  <2> QED BY <2>2, <2>3
<1>2. Hands'
  BY <1>0 DEF Answers, Hands
<1>3. ThreadsAgree(p)'
  BY <1>0, <1>1 DEF Answers, ThreadsAgree
<1>4. AllAtRest => AllAtRest'
  <2>1. AllAtRest => ~WakeUp(p) /\ ~LookAway(p)
    BY DEF AllAtRest, WakeUp, LookAway
  <2> QED BY <2>1
<1>5. LastIsOnItsWay /\ requests[TodoUID].pid \in Processes => LastIsOnItsWay'
  <2> SUFFICES ASSUME LastIsOnItsWay, requests[TodoUID].pid \in Processes PROVE LastIsOnItsWay'
    OBVIOUS
  <2>1. \A q \in Processes :
           control'[q].at \in {"perform", "awaiting"} => control'[q].uid = TodoUID'
    BY <1>0, <1>1 DEF LastIsOnItsWay
  <2>2. \A q \in Processes : control[q].at = "awaiting" => control'[q].at = "awaiting"
    BY <1>1
  <2>3. requests[TodoUID].todo = "activate" => AnswerAgrees(requests[TodoUID].pid)
    BY DEF LastIsOnItsWay
  <2> QED BY <1>0, <2>1, <2>2, <2>3 DEF LastIsOnItsWay, AnswerAgrees
<1> QED BY <1>0, <1>1, <1>2, <1>3, <1>4, <1>5, ThreadStepKeepsAnswers

LEMMA LookingKeepsAnswers ==
    ASSUME IInv, Answers, NEW p \in Processes, LookAtTodo(p) PROVE Answers'
<1>0. /\ UNCHANGED <<life, call, tasks, requests, expired, params, processed, activated,
                     eventProcessed>>
      /\ event' = FALSE /\ control[p].at = "woken"
      /\ TodoUID' = TodoUID /\ TodoUID \in Nat /\ TodoUID > control[p].uid
  BY TodoIsNat DEF LookAtTodo, IsOurs, shared, handed, TodoUID
<1>1. /\ control'[p].at \in {"wait", "perform"} /\ control'[p].uid = TodoUID
      /\ \A q \in Processes \ {p} : control'[q] = control[q]
  BY DEF LookAtTodo, IInv, Types
<1>2. Hands'
  BY <1>0 DEF Answers, Hands
<1>3. ThreadsAgree(p)'
  <2>1. ThreadsAgree(p) /\ activated[p] \in Nat /\ control[p].uid \in Nat
    BY DEF Answers, Hands, IInv, Types
  <2> QED BY <1>0, <1>1, <2>1 DEF ThreadsAgree
<1>4. AllAtRest => AllAtRest'
  BY <1>0 DEF AllAtRest
<1>5. LastIsOnItsWay /\ requests[TodoUID].pid \in Processes => LastIsOnItsWay'
  <2> SUFFICES ASSUME LastIsOnItsWay, requests[TodoUID].pid \in Processes PROVE LastIsOnItsWay'
    OBVIOUS
  <2>1. \A q \in Processes :
           control'[q].at \in {"perform", "awaiting"} => control'[q].uid = TodoUID'
    BY <1>0, <1>1 DEF LastIsOnItsWay
  <2>2. \A q \in Processes : control[q].at = "awaiting" => control'[q].at = "awaiting"
    BY <1>0, <1>1
  <2> QED BY <1>0, <2>1, <2>2 DEF LastIsOnItsWay, AnswerAgrees
<1> QED BY <1>0, <1>1, <1>2, <1>3, <1>4, <1>5, ThreadStepKeepsAnswers

LEMMA HighlightKeepsAnswers ==
    ASSUME IInv, Answers, NEW p \in Processes, Highlight(p) PROVE Answers'
<1>0. /\ UNCHANGED <<life, call, tasks, requests, expired, params, processed, activated, event>>
      /\ eventProcessed' = TRUE /\ TodoUID' = TodoUID
      /\ control[p].at = "perform" /\ requests[control[p].uid].todo = "highlight"
  BY DEF Highlight, shared, handed, TodoUID
<1>1. /\ control'[p].at = "wait" /\ control'[p].uid = control[p].uid
      /\ \A q \in Processes \ {p} : control'[q] = control[q]
  BY ControlMoves DEF Highlight, IInv, Types, ControlTypes
<1>2. Hands'
  BY <1>0 DEF Answers, Hands
<1>3. ThreadsAgree(p)'
  BY <1>0, <1>1 DEF Answers, ThreadsAgree
<1>4. AllAtRest => AllAtRest'
  BY <1>0, <1>1 DEF AllAtRest
<1>5. LastIsOnItsWay => LastIsOnItsWay'
  BY <1>0, <1>1 DEF LastIsOnItsWay
<1> QED BY <1>0, <1>1, <1>2, <1>3, <1>4, <1>5, ThreadStepKeepsAnswers

LEMMA HandingOverKeepsAnswers ==
    ASSUME IInv, Answers, NEW p \in Processes, HandOver(p) PROVE Answers'
<1>0. /\ UNCHANGED <<life, call, tasks, requests, expired, activated, event, eventProcessed>>
      /\ TodoUID' = TodoUID /\ TodoUID \in Nat
      /\ control[p].at = "perform" /\ requests[control[p].uid].todo = "activate"
  BY TodoIsNat DEF HandOver, shared, TodoUID
<1>1. /\ control'[p].at = "awaiting" /\ control'[p].uid = control[p].uid
      /\ \A q \in Processes \ {p} : control'[q] = control[q]
  BY ControlMoves DEF HandOver, IInv, Types, ControlTypes
<1>2. /\ control[p].uid \in 1..TodoUID /\ requests[control[p].uid].pid = p
  <2>1. /\ control[p].uid \in UIDs /\ control[p].uid <= TodoUID
        /\ requests[control[p].uid].pid = p /\ control[p].uid \in Nat
    BY <1>0 DEF IInv, ControlsKnow, Types
  <2> QED BY <1>0, <2>1 DEF UIDs
<1>3. /\ params' = [params EXCEPT ![p] = control[p].uid]
      /\ processed' = [processed EXCEPT ![p] = FALSE]
  BY DEF HandOver
<1>4. /\ params'[p] = control[p].uid /\ processed'[p] = FALSE
      /\ \A q \in Processes \ {p} : params'[q] = params[q] /\ processed'[q] = processed[q]
  BY <1>3 DEF Answers, Hands
<1>5. Hands'
  BY <1>0, <1>2, <1>3 DEF Answers, Hands
<1>6. ThreadsAgree(p)'
  <2>1. ThreadsAgree(p) /\ activated[p] \in Nat /\ control[p].uid \in Nat
    BY DEF Answers, Hands, IInv, Types
  <2> QED BY <1>0, <1>1, <1>2, <1>4, <2>1 DEF ThreadsAgree
<1>7. AllAtRest => AllAtRest'
  BY <1>0 DEF AllAtRest
<1>8. LastIsOnItsWay /\ requests[TodoUID].pid \in Processes => LastIsOnItsWay'
  <2> SUFFICES ASSUME LastIsOnItsWay, requests[TodoUID].pid \in Processes PROVE LastIsOnItsWay'
    OBVIOUS
  <2>1. \A q \in Processes :
           control'[q].at \in {"perform", "awaiting"} => control'[q].uid = TodoUID'
    BY <1>0, <1>1 DEF LastIsOnItsWay
  <2>2. \A q \in Processes : control[q].at = "awaiting" => control'[q].at = "awaiting"
    BY <1>0, <1>1
  <2> QED BY <1>0, <2>1, <2>2 DEF LastIsOnItsWay, AnswerAgrees
<1> QED BY <1>0, <1>1, <1>4, <1>5, <1>6, <1>7, <1>8, ThreadStepKeepsAnswers

\* the answer is true just when the main thread has taken the command line
LEMMA ClosingKeepsAnswers ==
    ASSUME IInv, Answers, NEW p \in Processes, CloseRequest(p) PROVE Answers'
<1>0. /\ UNCHANGED <<life, call, tasks, requests, expired, activated, processed, event>>
      /\ TodoUID' = TodoUID /\ TodoUID \in Nat
      /\ control[p].at = "awaiting"
      /\ eventProcessed' = (processed[p] \/ eventProcessed)
  BY TodoIsNat DEF CloseRequest, Reply, shared, TodoUID
<1>1. /\ control'[p].at = "wait" /\ control'[p].uid = control[p].uid
      /\ \A q \in Processes \ {p} : control'[q] = control[q]
  BY ControlMoves DEF CloseRequest, IInv, Types, ControlTypes
<1>2. /\ params' = [params EXCEPT ![p] = 0] /\ params'[p] = 0
      /\ \A q \in Processes \ {p} : params'[q] = params[q]
  BY DEF CloseRequest, Answers, Hands
<1>3. Hands'
  BY <1>0, <1>2 DEF Answers, Hands
<1>4. /\ processed[p] <=> activated[p] = control[p].uid
      /\ requests[control[p].uid].pid = p
  BY <1>0 DEF Answers, ThreadsAgree
<1>5. ThreadsAgree(p)'
  BY <1>0, <1>1, <1>2 DEF Answers, ThreadsAgree
<1>6. AllAtRest => AllAtRest'
  BY <1>0 DEF AllAtRest
<1>7. LastIsOnItsWay => LastIsOnItsWay'
  <2> SUFFICES ASSUME LastIsOnItsWay PROVE LastIsOnItsWay'
    OBVIOUS
  <2>1. \A q \in Processes :
           control'[q].at \in {"perform", "awaiting"} => control'[q].uid = TodoUID'
    BY <1>0, <1>1 DEF LastIsOnItsWay
  <2>2. control[p].uid = TodoUID
    BY <1>0 DEF LastIsOnItsWay
  <2>3. AnswerAgrees(p) => AnswerAgrees(p)'
    BY <1>0, <1>4, <2>2 DEF AnswerAgrees
  <2> QED BY <1>0, <1>4, <2>1, <2>2, <2>3 DEF LastIsOnItsWay
<1> QED BY <1>0, <1>1, <1>2, <1>3, <1>5, <1>6, <1>7, ThreadStepKeepsAnswers

LEMMA TakingKeepsAnswers ==
    ASSUME IInv, Answers, NEW p \in Processes, TakeParams(p) PROVE Answers'
<1>0. /\ UNCHANGED <<life, call, tasks, requests, expired, params, control, event, eventProcessed>>
      /\ TodoUID' = TodoUID /\ TodoUID \in Nat
      /\ params[p] # 0
      /\ activated' = [activated EXCEPT ![p] = params[p]]
      /\ processed' = [processed EXCEPT ![p] = TRUE]
  BY TodoIsNat DEF TakeParams, StillWanted, shared, TodoUID
<1>1. /\ activated'[p] = params[p] /\ processed'[p] = TRUE
      /\ \A q \in Processes \ {p} : activated'[q] = activated[q] /\ processed'[q] = processed[q]
  BY <1>0 DEF Answers, Hands
<1>2. Hands'
  BY <1>0 DEF Answers, Hands
<1>3. /\ control[p].at = "awaiting" /\ params[p] = control[p].uid
      /\ requests[control[p].uid].pid = p /\ control[p].uid \in Nat
  BY <1>0 DEF Answers, ThreadsAgree, IInv, Types
<1>4. ThreadsAgree(p)'
  BY <1>0, <1>1, <1>3 DEF Answers, ThreadsAgree
<1>5. AllAtRest => AllAtRest'
  BY <1>0 DEF AllAtRest
<1>6. LastIsOnItsWay => LastIsOnItsWay'
  <2> SUFFICES ASSUME LastIsOnItsWay PROVE LastIsOnItsWay'
    OBVIOUS
  <2>2. control[p].uid = TodoUID
    BY <1>3 DEF LastIsOnItsWay
  <2>3. AnswerAgrees(p)'
    BY <1>0, <1>1, <1>3, <2>2 DEF AnswerAgrees
  <2> QED BY <1>0, <1>3, <2>2, <2>3 DEF LastIsOnItsWay
<1> QED BY <1>0, <1>1, <1>2, <1>4, <1>5, <1>6, ThreadStepKeepsAnswers

\* EventProcessed is reset and Event set: of the last command nothing is done yet
LEMMA SignallingKeepsAnswers ==
    ASSUME IInv, Answers, NEW p \in Processes, Signal(p) PROVE Answers'
<1>0. /\ UNCHANGED <<life, control, tasks, requests, expired, params, processed, activated>>
      /\ TodoUID' = TodoUID /\ TodoUID \in Nat
      /\ eventProcessed' = FALSE /\ event' = TRUE /\ call[p].at = "written"
  BY TodoIsNat DEF Signal, shared, handed, TodoUID
<1>1. /\ call'[p].at = "signalled" /\ call'[p].uid = call[p].uid
      /\ call'[p].alone = call[p].alone
      /\ \A q \in Processes \ {p} : call'[q] = call[q]
  <2>1. call \in [Processes -> CallTypes] /\ call' = [call EXCEPT ![p].at = "signalled"]
    BY DEF IInv, Types, CallTypes, Signal, CallAt
  <2>2. call[p] \in CallTypes /\ call'[p] = [call[p] EXCEPT !.at = "signalled"]
    BY <2>1
  <2> QED BY <2>1, <2>2 DEF CallTypes
<1>2. Hands'
  BY <1>0 DEF Answers, Hands
<1>3. ASSUME NEW q \in Processes PROVE ThreadsAgree(q)' /\ CallsAgree(q)'
  <2>1. ThreadsAgree(q) /\ CallsAgree(q)
    BY DEF Answers
  <2>2. ThreadsAgree(q)'
    BY <1>0, <2>1 DEF ThreadsAgree
  <2>3. CallsAgree(q)'
    BY <1>0, <1>1, <2>1 DEF CallsAgree, Sending
  <2> QED BY <2>2, <2>3
<1>4. YoungIsAwaited'
  <2>1. life' \in [Processes -> Lives]
    BY <1>0 DEF IInv, Types, Lives
  <2> QED BY <1>0, <1>1, <2>1, YoungStays DEF Sending
<1>5. AloneIsOnly'
  <2> SUFFICES ASSUME NEW r \in Processes, call'[r].at \in Sending, call'[r].alone
               PROVE  Only(r)'
    BY DEF AloneIsOnly
  <2>1. call[r].at \in Sending /\ call[r].alone
    BY <1>0, <1>1 DEF Sending
  <2>2. Only(r) /\ TodoUID \in Nat \ {0} /\ requests[TodoUID].pid \in Processes
    BY <2>1, OnlySent
  <2>3. r = p
    BY <1>0, <2>2 DEF Only, Sending
  <2>4. AllAtRest
    BY <1>0, <2>2, <2>3 DEF Only
  <2>5. activated[requests[TodoUID].pid] < TodoUID
    <3>1. ThreadsAgree(requests[TodoUID].pid)
      BY <2>2 DEF Answers
    <3>2. control[requests[TodoUID].pid].uid < TodoUID
      BY <2>2, <2>4 DEF AllAtRest
    <3>3. /\ activated[requests[TodoUID].pid] \in Nat /\ control[requests[TodoUID].pid].uid \in Nat
      BY <2>2 DEF Answers, Hands, IInv, Types
    <3> QED BY <2>2, <3>1, <3>2, <3>3 DEF ThreadsAgree
  <2>6. activated[requests[TodoUID].pid] \in Nat
    BY <2>2 DEF Answers, Hands
  <2>7. LastIsOnItsWay'
    BY <1>0, <2>2, <2>4, <2>5, <2>6 DEF LastIsOnItsWay, AllAtRest, AnswerAgrees
  <2>8. \A q \in Processes \ {r} : call'[q].at \notin Sending
    BY <1>1, <2>2, <2>3 DEF Only
  <2> QED BY <1>0, <1>1, <2>2, <2>3, <2>7, <2>8 DEF Only
<1> QED BY <1>2, <1>3, <1>4, <1>5 DEF Answers

LEMMA ReturningKeepsAnswers ==
    ASSUME IInv, Answers, NEW p \in Processes, Answered(p) \/ NotAnswered(p) PROVE Answers'
<1>0. /\ UNCHANGED <<control, tasks, requests, expired, params, processed, activated,
                     eventProcessed>>
      /\ TodoUID' = TodoUID /\ TodoUID \in Nat
      /\ event' = FALSE /\ call[p].at = "signalled"
  BY TodoIsNat DEF Answered, NotAnswered, Return, shared, handed, TodoUID
<1>1. /\ call'[p] = NoCall /\ \A q \in Processes \ {p} : call'[q] = call[q]
  BY DEF Answered, NotAnswered, Return, IInv, Types
<1>3. CallsAgree(p)
  BY DEF Answers
<1>2. /\ life' \in [Processes -> Lives] /\ \A q \in Processes \ {p} : life'[q] = life[q]
      /\ \/ Answered(p) /\ life[p] = "starting" /\ life'[p] = "ending"
         \/ (NotAnswered(p) \/ life[p] # "starting") /\ life'[p] = life[p]
         \/ life[p] = "running" /\ life'[p] = "frozen"
  BY <1>0, <1>3, AfterCallFacts DEF CallsAgree, Sending, Lives
<1>4. Hands'
  BY <1>0 DEF Answers, Hands
<1>5. ASSUME NEW q \in Processes PROVE ThreadsAgree(q)' /\ CallsAgree(q)'
  <2>1. ThreadsAgree(q) /\ CallsAgree(q)
    BY DEF Answers
  <2>2. ThreadsAgree(q)'
    <3>1. life'[q] = "off" => life[q] = "off"
      BY <1>2
    <3> QED BY <1>0, <2>1, <3>1 DEF ThreadsAgree
  <2>3. CASE q = p
    BY <1>0, <1>1, <1>2, <2>1, <2>2, <2>3 DEF CallsAgree, NoCall, Sending
  <2>4. CASE q # p
    BY <1>0, <1>1, <1>2, <2>1, <2>2, <2>4 DEF CallsAgree
  <2> QED BY <2>3, <2>4
<1>6. YoungIsAwaited'
  <2>1. life[p] = "starting" /\ NotAnswered(p) => call[p].uid <= expired
    BY <1>0, <1>3 DEF NotAnswered, TimeIsUp, CallsAgree, Sending
  <2>2. life[p] \notin {"ending", "gone"}
    BY <1>0, <1>3 DEF CallsAgree, Sending
  <2> QED BY <1>0, <1>1, <1>2, <2>1, <2>2, YoungStays
<1>7. AloneIsOnly'
  <2> SUFFICES ASSUME NEW r \in Processes, call'[r].at \in Sending, call'[r].alone
               PROVE  Only(r)'
    BY DEF AloneIsOnly
  <2>1. r # p /\ call[r].at \in Sending /\ call[r].alone
    BY <1>1 DEF NoCall, Sending
  <2>2. Only(r)
    BY <2>1, OnlySent
  <2> QED BY <1>0, <2>1, <2>2 DEF Only, Sending
<1> QED BY <1>4, <1>5, <1>6, <1>7 DEF Answers

-----------------------------------------------------------------------------
\* the life of an instance, the list of tasks, the time
LEMMA LivingKeepsAnswers ==
    ASSUME IInv, IInv', Answers, NEW p \in Processes,
           \/ Join(p) \/ JoinFails(p) \/ Run(p) \/ Close(p)
           \/ WaitForStarting(p) \/ NobodyRuns(p)
           \/ OpenTasks(p) \/ CloseTasks(p) \/ Timer(p)
    PROVE  Answers'
<1>0. /\ life \in [Processes -> Lives] /\ life' \in [Processes -> Lives]
      /\ call \in [Processes -> CallTypes] /\ call' \in [Processes -> CallTypes]
      /\ control \in [Processes -> ControlTypes] /\ control' \in [Processes -> ControlTypes]
      /\ DOMAIN tasks = Processes /\ expired \in Nat /\ expired <= expired /\ CallsAgree(p)
  BY DEF IInv, Types, Lives, CallTypes, ControlTypes, Answers, Hands, Sending
<1>A. /\ UNCHANGED <<requests, event, eventProcessed, params, processed, activated, expired>>
      /\ UNCHANGED handed /\ TodoUID' = TodoUID
  BY DEF Join, JoinFails, Run, Close, WaitForStarting, NobodyRuns, OpenTasks, CloseTasks, Timer,
         shared, handed, TodoUID
<1> USE DEF Bystands
<1>1. ASSUME Join(p) PROVE Bystands(p)
  <2>1. /\ control[p].at = "off"
        /\ control'[p].at = "wait" /\ control'[p].uid = control[p].uid
        /\ \A q \in Processes \ {p} : control'[q] = control[q]
    BY <1>0, <1>1, ControlMoves DEF Join, Answers, ThreadsAgree
  <2> QED BY <1>0, <1>A, <1>1, <2>1 DEF Join, CallsAgree
<1>2. ASSUME JoinFails(p) PROVE Bystands(p)
  BY <1>0, <1>A, <1>2 DEF JoinFails, CallsAgree
<1>3. ASSUME Run(p) PROVE Bystands(p)
  BY <1>0, <1>A, <1>3 DEF Run, CallsAgree, MainIsFree, Sending
<1>4. ASSUME Close(p) PROVE Bystands(p)
  BY <1>0, <1>A, <1>4 DEF Close, CallsAgree, MainIsFree, Sending
<1>5. ASSUME WaitForStarting(p) PROVE Bystands(p)
  <2>1. call'[p].at = "sleeping" /\ \A q \in Processes \ {p} : call'[q] = call[q]
    BY <1>0, <1>5, CallMoves DEF WaitForStarting, Sending
  <2> QED BY <1>0, <1>A, <1>5, <2>1 DEF WaitForStarting, Looking, CallsAgree, MainIsFree, Sending
<1>6. ASSUME NobodyRuns(p) PROVE Bystands(p)
  <2>1. call'[p].at = "none" /\ \A q \in Processes \ {p} : call'[q] = call[q]
    BY <1>0, <1>6, CallMoves DEF NobodyRuns, Sending
  <2> QED BY <1>0, <1>A, <1>6, <2>1 DEF NobodyRuns, CallsAgree, Sending
<1>7. ASSUME OpenTasks(p) \/ CloseTasks(p) \/ Timer(p) PROVE Bystands(p)
  BY <1>0, <1>A, <1>7 DEF OpenTasks, CloseTasks, Timer, Refresh, NoTasks, CallsAgree
<1>8. expired' \in Nat /\ expired <= expired'
  BY <1>0, <1>A
<1>9. Bystands(p)
  BY <1>1, <1>2, <1>3, <1>4, <1>5, <1>6, <1>7
<1>10. UNCHANGED <<requests, event, eventProcessed, handed>>
  BY <1>A
<1> HIDE DEF Bystands
<1> QED BY <1>0, <1>8, <1>9, <1>10, BystandersKeepAnswers

\* the running instance found is one of the processes
LEMMA ActivatedExists ==
    ASSUME ItemsOK, NEW p, Others(p, "running") # {}
    PROVE  items[FirstOf(Others(p, "running"))].pid \in Processes
<1> DEFINE Running == Others(p, "running")
<1>1. items \in Seq(Item) /\ Running \subseteq 1..Len(items)
  BY DEF ItemsOK, Listing, Others
<1> HIDE DEF Running
<1>2. \E i \in Running : \A j \in Running : i <= j
  <2>1. Running \subseteq Nat /\ Running # {}
    BY <1>1 DEF Running
  <2> QED BY <2>1, LeastElement
<1>3. FirstOf(Running) \in 1..Len(items)
  BY <1>1, <1>2 DEF FirstOf
<1>4. items[FirstOf(Running)] \in Item
  BY <1>1, <1>3
<1> QED BY <1>4 DEF Item, Running

LEMMA SendingKeepsAnswers ==
    ASSUME IInv, IInv', ItemsOK, Answers, NEW p \in Processes,
           \/ \E todo \in {"highlight", "break"}, q \in Processes : FireEvent(p, todo, q)
           \/ ActivateRunningInstance(p)
    PROVE  Answers'
<1>0. /\ CallsAgree(p) /\ life' \in [Processes -> Lives] /\ life \in [Processes -> Lives]
  BY DEF Answers, IInv, Types, Lives
<1>1. CASE \E todo \in {"highlight", "break"}, q \in Processes : FireEvent(p, todo, q)
  <2>1. PICK todo \in {"highlight", "break"}, q \in Processes : FireEvent(p, todo, q)
    BY <1>1
  <2>2. /\ Write(p, todo, q) /\ call[p].at \notin Sending /\ life[p] = "running"
        /\ UNCHANGED <<life, event, eventProcessed, control, handed, tasks, expired>>
    BY <2>1 DEF FireEvent, MainIsFree, Sending
  <2>3. life[p] \notin {"ending", "gone"} /\ life'[p] = "running" /\ todo # "activate"
    BY <2>2
  <2> QED BY <1>0, <2>2, <2>3, WritingKeepsAnswers
<1>2. CASE ActivateRunningInstance(p)
  <2> DEFINE Running == Others(p, "running")
  <2>1. /\ Running # {} /\ life' = [life EXCEPT ![p] = "starting"]
        /\ Write(p, "activate", items[FirstOf(Running)].pid)
        /\ UNCHANGED <<event, eventProcessed, control, handed, tasks, expired>>
    BY <1>2 DEF ActivateRunningInstance
  <2>5. items[FirstOf(Running)].pid \in Processes
    BY <2>1, ActivatedExists
  <2> HIDE DEF Running
  <2>6. /\ call[p].at \notin Sending /\ life[p] \in {"joined", "starting"}
        /\ ~tasks[p].open
    BY <1>0, <1>2 DEF ActivateRunningInstance, Looking, MainIsFree, Sending, CallsAgree
  <2>7. /\ life'[p] = "starting" /\ \A r \in Processes \ {p} : life'[r] = life[r]
        /\ life[p] \notin {"ending", "gone"}
    BY <1>0, <2>1, <2>6
  <2> QED BY <1>0, <2>1, <2>5, <2>6, <2>7, WritingKeepsAnswers
<1> QED BY <1>1, <1>2

LEMMA TimeKeepsAnswers ==
    ASSUME IInv, IInv', Answers, Expire \/ UNCHANGED vars PROVE Answers'
<1>1. /\ UNCHANGED <<life, call, control, tasks, requests, event, eventProcessed, handed>>
      /\ UNCHANGED <<requests, event, eventProcessed, handed>>
      /\ TodoUID' = TodoUID
  BY DEF Expire, vars, shared, TodoUID
<1>2. expired' \in Nat /\ expired <= expired'
  BY DEF Expire, vars, Answers, Hands
<1>3. /\ life' \in [Processes -> Lives] /\ call' \in [Processes -> CallTypes]
      /\ control' \in [Processes -> ControlTypes]
  BY DEF IInv, Types, Lives, CallTypes, ControlTypes, Sending
<1>4. First \in Processes
  BY TaskListAssumption
<1>5. CallsAgree(First)'
  BY <1>1, <1>4 DEF Answers, CallsAgree
<1>6. Bystands(First)
  BY <1>1, <1>5 DEF Bystands, Answers, Hands
<1> QED BY <1>1, <1>2, <1>3, <1>4, <1>6, BystandersKeepAnswers

LEMMA AnswersStay ==
    ASSUME IInv, IInv', ItemsOK, Answers, [Next]_vars PROVE Answers'
<1>1. CASE Expire \/ UNCHANGED vars
  BY <1>1, TimeKeepsAnswers
<1>2. ASSUME NEW p \in Processes,
             \/ Join(p) \/ JoinFails(p) \/ Run(p) \/ Close(p) \/ Leave(p) \/ Crash(p)
             \/ Call(p) \/ ControlThread(p) \/ TakeParams(p)
             \/ OpenTasks(p) \/ CloseTasks(p) \/ Timer(p)
      PROVE  Answers'
  <2>1. CASE Join(p) \/ JoinFails(p) \/ Run(p) \/ Close(p)
             \/ OpenTasks(p) \/ CloseTasks(p) \/ Timer(p)
    BY <2>1, LivingKeepsAnswers
  <2>2. CASE Leave(p) \/ Crash(p)
    <3>1. Dies(p) /\ UNCHANGED <<requests, event, expired>> /\ UNCHANGED eventProcessed
      BY <2>2 DEF Leave, Crash
    <3> QED BY <3>1, DyingKeepsAnswers
  <2>3. CASE TakeParams(p)
    BY <2>3, TakingKeepsAnswers
  <2>4. CASE Call(p)
    BY <2>4, SendingKeepsAnswers, LivingKeepsAnswers, SignallingKeepsAnswers,
       ReturningKeepsAnswers DEF Call
  <2>5. CASE Break(p)
    <3>1. /\ Dies(p) /\ UNCHANGED <<requests, event, expired>> /\ eventProcessed' = TRUE
          /\ control[p].at = "perform" /\ requests[control[p].uid].todo # "activate"
      BY <2>5 DEF Break
    <3> QED BY <3>1, DyingKeepsAnswers
  <2>6. CASE ControlThread(p)
    BY <2>5, <2>6, WakingKeepsAnswers, LookingKeepsAnswers, HighlightKeepsAnswers,
       HandingOverKeepsAnswers, ClosingKeepsAnswers DEF ControlThread
  <2> QED BY <1>2, <2>1, <2>2, <2>3, <2>4, <2>6
<1> QED BY <1>1, <1>2 DEF Next

LEMMA AnswersAreKept == Spec => []Answers
<1>1. Init => ItemsOK /\ Answers
  BY ItemsOKAtFirst, AnswersAtFirst
<1>2. IInv /\ IInv' /\ ItemsOK /\ Answers /\ [Next]_vars => (ItemsOK /\ Answers)'
  BY ItemsStay, AnswersStay
<1> QED BY <1>1, <1>2, Invariance, PTL DEF Spec

-----------------------------------------------------------------------------
(* What the senders learn *)

\* a wait ends with an answer or without one, unless the instance dies
LEMMA EndsOnlySo ==
    ASSUME IInv, [Next]_vars, NEW p \in Processes, Ends(p), life'[p] # "gone"
    PROVE  Answered(p) \/ NotAnswered(p)
<1>0. /\ call \in [Processes -> CallTypes] /\ life \in [Processes -> Lives]
      /\ call[p].at = "signalled" /\ call'[p].at = "none"
  BY DEF IInv, Types, CallTypes, Lives, Ends, NoCall
<1>1. CASE Expire \/ UNCHANGED vars
  BY <1>0, <1>1 DEF Expire, vars
<1>2. ASSUME NEW q \in Processes, UNCHANGED call PROVE FALSE
  BY <1>0, <1>2
<1>3. ASSUME NEW q \in Processes, Dies(q) PROVE FALSE
  BY <1>0, <1>3 DEF Dies
<1>4. ASSUME NEW q \in Processes, Call(q) PROVE Answered(p) \/ NotAnswered(p)
  <2>1. ASSUME NEW todo, NEW r, Write(q, todo, r) PROVE FALSE
    <3>1. call'[p] = IF p = q THEN [at |-> "written", uid |-> TodoUID + 1, alone |-> Silence]
                     ELSE [call[p] EXCEPT !.alone = FALSE]
      BY <2>1 DEF Write
    <3>2. call[p] \in CallTypes
      BY <1>0
    <3>3. [call[p] EXCEPT !.alone = FALSE].at = call[p].at
      BY <3>2 DEF CallTypes
    <3> QED BY <1>0, <3>1, <3>3
  <2>2. CASE WaitForStarting(q)
    BY <1>0, <2>2, CallMoves DEF WaitForStarting, Sending
  <2>3. CASE NobodyRuns(q)
    BY <1>0, <2>3, CallMoves DEF NobodyRuns, Sending
  <2>4. CASE Signal(q)
    BY <1>0, <2>4, CallMoves DEF Signal, Sending
  <2>5. CASE Answered(q) \/ NotAnswered(q)
    <3>1. q = p
      BY <1>0, <2>5 DEF Answered, NotAnswered, Return
    <3> QED BY <2>5, <3>1
  <2> QED BY <1>4, <2>1, <2>2, <2>3, <2>4, <2>5 DEF Call, FireEvent, ActivateRunningInstance
<1>5. ASSUME NEW q \in Processes,
             \/ Join(q) \/ JoinFails(q) \/ Run(q) \/ Close(q) \/ TakeParams(q)
             \/ OpenTasks(q) \/ CloseTasks(q) \/ Timer(q)
             \/ WakeUp(q) \/ LookAway(q) \/ LookAtTodo(q) \/ Highlight(q)
             \/ HandOver(q) \/ CloseRequest(q)
      PROVE  FALSE
  <2>1. UNCHANGED call
    BY <1>5 DEF Join, JoinFails, Run, Close, TakeParams, OpenTasks, CloseTasks, Timer, WakeUp,
         LookAway, LookAtTodo, Highlight, HandOver, CloseRequest
  <2> QED BY <1>2, <2>1
<1> QED
  BY <1>1, <1>3, <1>4, <1>5 DEF Next, ControlThread, Leave, Crash, Break

\* the call that ends undisturbed
LEMMA UndisturbedEnd ==
    ASSUME IInv, Answers, [Next]_vars, NEW p \in Processes, Ends(p), Undisturbed(p),
           life'[p] \in {"starting", "ending"}
    PROVE  /\ life[p] = "starting"
           /\ life'[p] = "ending" <=> Answered(p)
           /\ life'[p] = "starting" <=> NotAnswered(p)
           /\ call[p].uid = TodoUID /\ requests[TodoUID].todo = "activate"
           /\ Addressee(p) = requests[TodoUID].pid /\ Addressee(p) \in Processes
           /\ LastIsOnItsWay /\ AnswerAgrees(Addressee(p)) /\ life[Addressee(p)] # "gone"
<1>1. /\ call[p].at \in Sending /\ call[p].at = "signalled" /\ call[p].alone
      /\ life \in [Processes -> Lives] /\ life[Addressee(p)] # "gone"
  BY DEF Ends, Undisturbed, Sending, IInv, Types, Lives
<1>2. Only(p) /\ TodoUID \in Nat \ {0} /\ requests[TodoUID].pid \in Processes /\ CallsAgree(p)
  BY <1>1, OnlySent DEF Answers
<1>3. Answered(p) \/ NotAnswered(p)
  BY EndsOnlySo
<1>4. /\ life[p] = "starting"
      /\ life'[p] = "ending" <=> Answered(p)
      /\ life'[p] = "starting" <=> NotAnswered(p)
  <2>1. life'[p] \in {life[p], "ending", "frozen"}
    BY <1>3, AfterCallFacts
  <2>2. life[p] \in {"starting", "running"}
    BY <1>1, <1>2 DEF CallsAgree
  <2>3. life[p] = "starting"
    BY <1>3, <2>2, AfterCallFacts
  <2>4. requests[call[p].uid].todo # "break"
    BY <1>1, <1>2, <2>3 DEF CallsAgree
  <2>5. ~(Answered(p) /\ NotAnswered(p))
    BY DEF Answered, NotAnswered
  <2>6. Answered(p) => life'[p] = "ending"
    BY <1>1, <2>3 DEF Answered
  <2> QED BY <1>3, <2>3, <2>4, <2>5, <2>6, AfterCallFacts
<1> QED BY <1>1, <1>2, <1>4 DEF Only, CallsAgree, Addressee, LastIsOnItsWay

\* only the main thread that takes a command line goes on to a later one
LEMMA TakenOnlySo ==
    ASSUME IInv, Answers, [Next]_vars, NEW q \in Processes, activated'[q] > activated[q]
    PROVE  TakeParams(q)
<1>0. activated \in [Processes -> Nat]
  BY DEF Answers, Hands
<1>1. activated'[q] # activated[q]
  BY <1>0
<1>2. ASSUME NEW r \in Processes, Dies(r) PROVE FALSE
  <2>1. activated'[q] \in {0, activated[q]} /\ activated[q] \in Nat
    BY <1>0, <1>2 DEF Dies
  <2> QED BY <2>1
<1>3. CASE Expire \/ UNCHANGED vars
  BY <1>1, <1>3 DEF Expire, vars, handed
<1>4. ASSUME NEW r \in Processes, TakeParams(r) PROVE TakeParams(q)
  <2>1. q = r
    BY <1>0, <1>1, <1>4 DEF TakeParams
  <2> QED BY <1>4, <2>1
<1>5. ASSUME NEW r \in Processes,
             \/ Join(r) \/ JoinFails(r) \/ Run(r) \/ Close(r) \/ Call(r)
             \/ OpenTasks(r) \/ CloseTasks(r) \/ Timer(r)
             \/ WakeUp(r) \/ LookAway(r) \/ LookAtTodo(r) \/ Highlight(r)
             \/ HandOver(r) \/ CloseRequest(r)
      PROVE  FALSE
  <2>1. UNCHANGED activated
    BY <1>5 DEF Join, JoinFails, Run, Close, OpenTasks, CloseTasks, Timer, WakeUp, LookAway,
         LookAtTodo, Highlight, HandOver, CloseRequest, Call, FireEvent, ActivateRunningInstance,
         WaitForStarting, NobodyRuns, Signal, Answered, NotAnswered, Return, handed
  <2> QED BY <1>1, <2>1
<1> QED
  BY <1>2, <1>3, <1>4, <1>5 DEF Next, ControlThread, Leave, Crash, Break

\* who takes a command line takes one that is waited for
LEMMA TakenIsAwaited ==
    ASSUME IInv, Answers, NEW q \in Processes, TakeParams(q)
    PROVE  /\ activated'[q] \in 1..TodoUID
           /\ \/ call[requests[activated'[q]].by].uid = activated'[q]
              \/ life[requests[activated'[q]].by] \in {"ending", "gone"}
<1>1. activated'[q] = params[q] /\ params[q] # 0 /\ params[q] > expired
  BY DEF TakeParams, StillWanted, Answers, Hands
<1>2. /\ params[q] \in 1..TodoUID /\ requests[params[q]].todo = "activate"
  BY <1>1 DEF Answers, ThreadsAgree
<1>3. SenderWaits(params[q])
  BY <1>1, <1>2 DEF Answers, YoungIsAwaited
<1> QED BY <1>1, <1>2, <1>3 DEF SenderWaits

(* An instance that ends because it was told that a running one has taken   *)
(* over its command line is right, whatever happens to Event in between.    *)
THEOREM AnswersAreTrue == Spec => AnsweredMeansTaken
<1> DEFINE Right == \A p \in Processes :
               Ends(p) /\ Undisturbed(p) /\ life'[p] = "ending"
                   => activated[Addressee(p)] = call[p].uid
<1>1. ASSUME IInv, Answers, [Next]_vars PROVE Right
  <2> SUFFICES ASSUME NEW p \in Processes, Ends(p), Undisturbed(p), life'[p] = "ending"
               PROVE  activated[Addressee(p)] = call[p].uid
    OBVIOUS
  <2>1. /\ Answered(p) /\ call[p].uid = TodoUID /\ life[Addressee(p)] # "gone"
        /\ AnswerAgrees(Addressee(p))
    <3>1. life'[p] \in {"starting", "ending"}
      OBVIOUS
    <3> QED BY <1>1, <3>1, UndisturbedEnd
  <2> QED BY <2>1 DEF AnswerAgrees, Answered
<1>2. IInv /\ Answers /\ [Next]_vars => [Right]_vars
  BY <1>1
<1> QED BY <1>2, Invariance, AnswersAreKept, PTL DEF Spec, AnsweredMeansTaken

(* An instance that starts because no running one answered is right as      *)
(* well: none has shown its paths, and none takes a command line whose      *)
(* sender does not wait for it any more.                                    *)
THEOREM RefusalsAreTrue == Spec => RefusedMeansNotTaken
<1> DEFINE Right ==
        /\ \A p \in Processes :
            Ends(p) /\ Undisturbed(p) /\ life'[p] = "starting"
                => activated[Addressee(p)] # call[p].uid
        /\ \A q \in Processes : activated'[q] > activated[q] =>
            LET sender == requests[activated'[q]].by
            IN  \/ call[sender].uid = activated'[q]
                \/ life[sender] \in {"ending", "gone"}
<1>1. ASSUME IInv, Answers, [Next]_vars PROVE Right
  <2>1. ASSUME NEW p \in Processes, Ends(p), Undisturbed(p), life'[p] = "starting"
        PROVE  activated[Addressee(p)] # call[p].uid
    <3> DEFINE q == Addressee(p)
    <3>1. /\ NotAnswered(p) /\ call[p].uid = TodoUID /\ life[q] # "gone"
          /\ AnswerAgrees(q) /\ LastIsOnItsWay /\ q \in Processes
          /\ requests[TodoUID].todo = "activate"
      <4>1. life'[p] \in {"starting", "ending"}
        BY <2>1
      <4> QED BY <1>1, <2>1, <4>1, UndisturbedEnd
    <3> HIDE DEF q
    <3>2. ASSUME activated[q] = TodoUID PROVE FALSE
      <4>1. control[q].at = "awaiting" /\ control[q].uid = TodoUID
        <5>1. control[q].at = "awaiting"
          BY <3>1, <3>2 DEF AnswerAgrees, NotAnswered
        <5> QED BY <3>1, <5>1 DEF LastIsOnItsWay
      <4>2. processed[q]
        BY <1>1, <3>1, <3>2, <4>1 DEF Answers, ThreadsAgree
      <4>3. ~processed[q]
        BY <3>1, <4>1 DEF NotAnswered, TimeIsUp
      <4> QED BY <4>2, <4>3
    <3> QED BY <3>1, <3>2 DEF q
  <2>2. ASSUME NEW q \in Processes, activated'[q] > activated[q]
        PROVE  \/ call[requests[activated'[q]].by].uid = activated'[q]
               \/ life[requests[activated'[q]].by] \in {"ending", "gone"}
    <3>1. TakeParams(q)
      BY <1>1, <2>2, TakenOnlySo
    <3> QED BY <1>1, <3>1, TakenIsAwaited
  <2> QED BY <2>1, <2>2
<1>2. IInv /\ Answers /\ [Next]_vars => [Right]_vars
  BY <1>1
<1> QED BY <1>2, Invariance, AnswersAreKept, PTL DEF Spec, RefusedMeansNotTaken

-----------------------------------------------------------------------------
(* Types *)

Request == [todo : {"highlight", "break", "activate"}, pid : Processes, by : Processes]

RestOfTypes ==
    /\ newer \subseteq Processes /\ held \in Processes \union {None}
    /\ requests \in Seq(Request)
    /\ tasks \in [Processes -> [open : BOOLEAN, pids : SUBSET Processes]]
    /\ expired <= TodoUID
    /\ \A p \in Processes : call[p].uid <= TodoUID

LEMMA RestAtFirst == ASSUME Init PROVE RestOfTypes
<1>1. requests = <<>> /\ Len(requests) = 0 /\ expired = 0
  BY DEF Init
<1>2. requests \in Seq(Request)
  BY <1>1
<1>3. tasks \in [Processes -> [open : BOOLEAN, pids : SUBSET Processes]]
  BY DEF Init, NoTasks
<1>4. \A p \in Processes : call[p].uid = 0
  BY DEF Init, NoCall
<1>5. newer \subseteq Processes /\ held \in Processes \union {None}
  BY DEF Init
<1> QED BY <1>1, <1>2, <1>3, <1>4, <1>5 DEF RestOfTypes, TodoUID

LEMMA ListedAreProcesses ==
    ASSUME ItemsOK PROVE Listed \subseteq Processes
<1>1. items \in Seq(Item)
  BY DEF ItemsOK, Listing
<1>2. \A i \in DOMAIN items : items[i] \in Item
  BY <1>1
<1> QED BY <1>2 DEF Listed, Item

LEMMA WritingKeepsRest ==
    ASSUME IInv, Answers, RestOfTypes, NEW p \in Processes,
           NEW todo \in {"highlight", "break", "activate"}, NEW q \in Processes,
           Write(p, todo, q), UNCHANGED <<newer, held, tasks, expired>>
    PROVE  RestOfTypes'
<1> DEFINE e == [todo |-> todo, pid |-> q, by |-> p]
<1>1. requests' = Append(requests, e) /\ e \in Request /\ requests \in Seq(Request)
  BY DEF Write, Request, RestOfTypes
<1> HIDE DEF e
<1>2. requests' \in Seq(Request) /\ Len(requests') = Len(requests) + 1 /\ Len(requests) \in Nat
  BY ONLY <1>1
<1>3. \A r \in Processes : call'[r].uid <= TodoUID'
  <2>1. call' = [r \in Processes |->
                    IF r = p THEN [at |-> "written", uid |-> TodoUID + 1, alone |-> Silence]
                    ELSE [call[r] EXCEPT !.alone = FALSE]]
    BY DEF Write
  <2>2. ASSUME NEW r \in Processes \ {p} PROVE call'[r].uid = call[r].uid
    <3>1. call[r] \in CallTypes /\ call'[r] = [call[r] EXCEPT !.alone = FALSE]
      BY <2>1 DEF IInv, Types, CallTypes
    <3> QED BY <3>1 DEF CallTypes
  <2>3. call'[p].uid = TodoUID + 1
    BY <2>1
  <2>4. \A r \in Processes : call[r].uid \in Nat /\ call[r].uid <= TodoUID
    BY DEF RestOfTypes, IInv, Types
  <2> QED BY <1>2, <2>2, <2>3, <2>4 DEF TodoUID
<1>4. expired' <= TodoUID'
  BY <1>2 DEF RestOfTypes, TodoUID, Answers, Hands
<1> QED BY <1>2, <1>3, <1>4 DEF RestOfTypes

LEMMA RestStays ==
    ASSUME IInv, IInv', ItemsOK, Answers, RestOfTypes, [Next]_vars PROVE RestOfTypes'
<1>0. call \in [Processes -> CallTypes] /\ None \notin Processes
  BY TaskListAssumption DEF IInv, Types, CallTypes
<1>1. CASE Expire
  BY <1>1, TodoIsNat DEF Expire, shared, RestOfTypes, TodoUID, Answers, Hands
<1>2. CASE UNCHANGED vars
  BY <1>2 DEF vars, shared, RestOfTypes, TodoUID
<1>3. ASSUME NEW p \in Processes, UNCHANGED <<requests, expired>>,
             newer' \subseteq Processes, held' \in Processes \union {None},
             tasks' \in [Processes -> [open : BOOLEAN, pids : SUBSET Processes]],
             \A q \in Processes : call'[q].uid \in {0, call[q].uid}
      PROVE  RestOfTypes'
  <2>1. \A q \in Processes : call'[q].uid <= TodoUID
    BY <1>3, TodoIsNat DEF RestOfTypes
  <2> QED BY <1>3, <2>1 DEF RestOfTypes, TodoUID
<1>4. ASSUME NEW p \in Processes, Dies(p), UNCHANGED <<requests, expired>>,
             newer' \subseteq Processes
      PROVE  RestOfTypes'
  <2>1. \A q \in Processes : call'[q].uid \in {0, call[q].uid}
    BY <1>0, <1>4 DEF Dies, NoCall
  <2>2. tasks' \in [Processes -> [open : BOOLEAN, pids : SUBSET Processes]]
    BY <1>4 DEF Dies, NoTasks, RestOfTypes
  <2>3. held' \in Processes \union {None}
    BY <1>4 DEF Dies, RestOfTypes
  <2> QED BY <1>3, <1>4, <2>1, <2>2, <2>3
<1>5. \A changed \in BOOLEAN : NewVersion(changed) \subseteq Processes
  BY DEF NewVersion, OpenLists, RestOfTypes
<1>6. ASSUME NEW p \in Processes, Leave(p) \/ Crash(p) \/ Break(p) PROVE RestOfTypes'
  <2>1. Dies(p) /\ UNCHANGED <<requests, expired>>
    BY <1>6 DEF Leave, Crash, Break
  <2>2. newer' \subseteq Processes
    <3>1. (OK(p) /\ MutexIsFree) \in BOOLEAN
      BY DEF OK, MutexIsFree
    <3> QED BY <1>5, <1>6, <3>1 DEF Leave, Crash, Break, RestOfTypes
  <2> QED BY <1>4, <2>1, <2>2
<1>7. ASSUME NEW p \in Processes, Join(p) \/ JoinFails(p) PROVE RestOfTypes'
  <2>1. Room \in BOOLEAN
    BY DEF Room
  <2>2. newer' \subseteq Processes
    BY <1>5, <1>7, <2>1 DEF Join, JoinFails, AddItem, RestOfTypes
  <2>3. /\ UNCHANGED <<requests, expired>> /\ held' \in Processes \union {None}
        /\ tasks' = tasks /\ call' = call
    BY <1>7 DEF Join, JoinFails, RestOfTypes
  <2> QED BY <1>3, <2>2, <2>3 DEF RestOfTypes
<1>8. ASSUME NEW p \in Processes, OpenTasks(p) \/ CloseTasks(p) \/ Timer(p) PROVE RestOfTypes'
  <2>1. (Killed # {}) \in BOOLEAN
    OBVIOUS
  <2>2. UNCHANGED <<requests, expired, held, call>>
    BY <1>8 DEF OpenTasks, CloseTasks, Timer
  <2>3. newer' \subseteq Processes
    BY <1>5, <1>8, <2>1 DEF OpenTasks, CloseTasks, Timer, Refresh, RestOfTypes
  <2>4. \/ tasks' = tasks
        \/ \E pids \in SUBSET Processes :
              tasks' = [tasks EXCEPT ![p] = [open |-> TRUE, pids |-> pids]]
        \/ tasks' = [tasks EXCEPT ![p] = NoTasks]
    BY <1>8, ListedAreProcesses DEF OpenTasks, CloseTasks, Timer, Refresh
  <2>5. tasks' \in [Processes -> [open : BOOLEAN, pids : SUBSET Processes]]
    <3> DEFINE T == [open : BOOLEAN, pids : SUBSET Processes]
    <3>1. tasks \in [Processes -> T]
      BY DEF RestOfTypes
    <3>2. NoTasks \in T /\ \A pids \in SUBSET Processes : [open |-> TRUE, pids |-> pids] \in T
      BY DEF NoTasks
    <3> HIDE DEF T
    <3>3. tasks' \in [Processes -> T]
      BY <2>4, <3>1, <3>2
    <3> QED BY <3>3 DEF T
  <2> QED BY <1>3, <2>2, <2>3, <2>5 DEF RestOfTypes
<1>9. ASSUME NEW p \in Processes, Call(p) PROVE RestOfTypes'
  <2>1. CASE \E todo \in {"highlight", "break"}, q \in Processes : FireEvent(p, todo, q)
    BY <2>1, WritingKeepsRest DEF FireEvent
  <2>2. CASE ActivateRunningInstance(p)
    <3> DEFINE q == items[FirstOf(Others(p, "running"))].pid
    <3>1. Write(p, "activate", q) /\ UNCHANGED <<newer, held, tasks, expired>>
      BY <2>2 DEF ActivateRunningInstance
    <3>2. q \in Processes
      BY <2>2, ActivatedExists DEF ActivateRunningInstance
    <3> HIDE DEF q
    <3> QED BY <3>1, <3>2, WritingKeepsRest
  <2>3. CASE WaitForStarting(p) \/ NobodyRuns(p) \/ Signal(p)
    <3>1. UNCHANGED <<requests, newer, held, tasks, expired>>
      BY <2>3 DEF WaitForStarting, NobodyRuns, Signal, shared
    <3>2. ASSUME NEW place, CallAt(p, place) PROVE \A q \in Processes : call'[q].uid = call[q].uid
      <4>1. call[p] \in CallTypes /\ call' = [call EXCEPT ![p] = [call[p] EXCEPT !.at = place]]
        BY <1>0, <3>2 DEF CallAt
      <4>2. [call[p] EXCEPT !.at = place].uid = call[p].uid
        BY <4>1 DEF CallTypes
      <4> QED BY <1>0, <4>1, <4>2
    <3>3. \A q \in Processes : call'[q].uid = call[q].uid
      BY <2>3, <3>2 DEF WaitForStarting, NobodyRuns, Signal
    <3> QED BY <1>3, <3>1, <3>3 DEF RestOfTypes
  <2>4. CASE Answered(p) \/ NotAnswered(p)
    <3>1. UNCHANGED <<requests, newer, held, tasks, expired>>
      BY <2>4 DEF Answered, NotAnswered, Return, shared
    <3>2. \A q \in Processes : call'[q].uid \in {0, call[q].uid}
      BY <1>0, <2>4 DEF Answered, NotAnswered, Return, NoCall
    <3> QED BY <1>3, <3>1, <3>2 DEF RestOfTypes
  <2> QED BY <1>9, <2>1, <2>2, <2>3, <2>4 DEF Call
<1>10. ASSUME NEW p \in Processes,
              \/ Run(p) \/ Close(p) \/ TakeParams(p)
              \/ WakeUp(p) \/ LookAway(p) \/ LookAtTodo(p) \/ Highlight(p)
              \/ HandOver(p) \/ CloseRequest(p)
      PROVE  RestOfTypes'
  <2>1. UNCHANGED <<requests, newer, held, tasks, expired, call>>
    BY <1>10 DEF Run, Close, TakeParams, WakeUp, LookAway, LookAtTodo, Highlight, HandOver,
          CloseRequest, shared
  <2> QED BY <2>1 DEF RestOfTypes, TodoUID
<1> QED
  BY <1>1, <1>2, <1>6, <1>7, <1>8, <1>9, <1>10 DEF Next, ControlThread

(* Every part of the state keeps its type, no instance is listed twice, and *)
(* no thread knows of a command that has not been sent.                     *)
THEOREM TypeCorrect == Spec => []TypeOK
<1>1. Init => ItemsOK /\ Answers /\ RestOfTypes
  BY ItemsOKAtFirst, AnswersAtFirst, RestAtFirst
<1>2. IInv /\ IInv' /\ ItemsOK /\ Answers /\ RestOfTypes /\ [Next]_vars
         => (ItemsOK /\ Answers /\ RestOfTypes)'
  BY ItemsStay, AnswersStay, RestStays
<1>3. IInv /\ ItemsOK /\ Answers /\ RestOfTypes => TypeOK
  <2> SUFFICES ASSUME IInv, ItemsOK, Answers, RestOfTypes PROVE TypeOK
    OBVIOUS
  <2>1. TodoUID \in Nat
    BY TodoIsNat
  <2>2. IsInjective([i \in DOMAIN items |-> items[i].pid])
    <3>1. items \in Seq(Item) /\ \A i, j \in 1..Len(items) : items[i].pid = items[j].pid => i = j
      BY DEF ItemsOK, Listing
    <3> QED BY <3>1 DEF IsInjective
  <2>3. /\ life \in [Processes -> {"off", "joined", "starting", "running", "frozen", "ending", "gone"}]
        /\ items \in Seq(Item) /\ Len(items) <= MaxItems
        /\ newer \subseteq Processes /\ held \in Processes \union {None}
        /\ requests \in Seq([todo : {"highlight", "break", "activate"}, pid : Processes,
                             by : Processes])
        /\ event \in BOOLEAN /\ eventProcessed \in BOOLEAN
        /\ processed \in [Processes -> BOOLEAN]
        /\ tasks \in [Processes -> [open : BOOLEAN, pids : SUBSET Processes]]
        /\ ran \in [UIDs -> Seq(Processes)]
    BY DEF IInv, Types, ItemsOK, Listing, Answers, Hands, RestOfTypes, Request
  <2>4. call \in [Processes -> [at : Sending \union {"none", "sleeping"}, uid : 0..TodoUID,
                                alone : BOOLEAN]]
    <3>1. call \in [Processes -> CallTypes] /\ \A p \in Processes : call[p].uid <= TodoUID
      BY DEF IInv, Types, CallTypes, RestOfTypes
    <3> QED BY <2>1, <3>1 DEF CallTypes
  <2>5. control \in [Processes -> [at : {"off", "wait", "woken", "perform", "awaiting"},
                                   uid : 0..TodoUID]]
    <3>1. control \in [Processes -> ControlTypes] /\ \A p \in Processes : control[p].uid <= TodoUID
      BY DEF IInv, Types, ControlTypes, ControlsKnow
    <3> QED BY <2>1, <3>1 DEF ControlTypes
  <2>6. params \in [Processes -> 0..TodoUID] /\ activated \in [Processes -> 0..TodoUID]
    <3>1. /\ params \in [Processes -> Nat] /\ activated \in [Processes -> Nat]
      BY DEF Answers, Hands
    <3>2. ASSUME NEW p \in Processes PROVE params[p] <= TodoUID /\ activated[p] <= TodoUID
      <4>1. ThreadsAgree(p) /\ control[p].uid \in 0..TodoUID
        BY <2>5 DEF Answers
      <4>2. params[p] = 0 \/ params[p] = control[p].uid
        BY <4>1 DEF ThreadsAgree
      <4> QED BY <2>1, <3>1, <4>1, <4>2 DEF ThreadsAgree
    <3> QED BY <2>1, <3>1, <3>2
  <2>7. expired \in 0..TodoUID
    BY <2>1 DEF Answers, Hands, RestOfTypes
  <2> QED BY <2>2, <2>3, <2>4, <2>5, <2>6, <2>7 DEF TypeOK
<1> QED BY <1>1, <1>2, <1>3, Invariance, PTL DEF Spec
=============================================================================
