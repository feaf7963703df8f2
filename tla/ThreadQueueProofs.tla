-------------------------- MODULE ThreadQueueProofs --------------------------
(***************************************************************************)
(* What TLAPS proves of the queue of plug-in threads.  The list is          *)
(* shortened by a recursive function, so the first section proves, by       *)
(* least counterexample, the induction its facts need; the second one the   *)
(* facts about Kept; the third one the inductive invariant.                 *)
(***************************************************************************)
EXTENDS ThreadQueue, FiniteSetTheorems, WellFoundedInduction, TLAPS

-----------------------------------------------------------------------------
(* Induction *)

\* every set of natural numbers that has an element has a least one
LEMMA LeastElement ==
    ASSUME NEW T, T \subseteq Nat, T # {}
    PROVE  \E x \in T : \A y \in T : x <= y
<1> DEFINE R == {ss \in Nat \X Nat : ss[1] < ss[2]}
<1>1. IsWellFoundedOn(R, Nat)
  BY NatLessThanWellFounded DEF OpToRel
<1> HIDE DEF R
<1>2. PICK x \in T : \A y \in T : <<y, x>> \notin R
  BY <1>1, WFMin
<1>3. ASSUME NEW y \in T PROVE x <= y
  <2>1. <<y, x>> \notin R /\ y \in Nat /\ x \in Nat
    BY <1>2
  <2>2. ~(y < x)
    BY <2>1 DEF R
  <2> QED BY <2>1, <2>2
<1> QED BY <1>3

\* what holds of 0 and of the successor of each i it holds of, holds up to n
LEMMA SetInduction ==
    ASSUME NEW n \in Nat, NEW T, 0 \in T,
           \A i \in 0..n : i \in T /\ i # n => i + 1 \in T
    PROVE  0..n \subseteq T
<1> SUFFICES ASSUME ~(0..n \subseteq T) PROVE FALSE
  OBVIOUS
<1> DEFINE U == (0..n) \ T
<1>1. PICK x \in U : \A y \in U : x <= y
  <2>1. U \subseteq Nat /\ U # {}
    OBVIOUS
  <2> HIDE DEF U
  <2> QED BY <2>1, LeastElement
<1>2. x # 0 /\ x - 1 \in 0..n /\ x - 1 # n /\ ~(x <= x - 1)
  BY <1>1
<1>3. x - 1 \in T
  BY <1>1, <1>2
<1>4. (x - 1) + 1 \in T
  BY <1>2, <1>3
<1>5. (x - 1) + 1 = x
  BY <1>1
<1> QED BY <1>1, <1>4, <1>5

\* a function may be defined by its first value and a step from each to the next
LEMMA RecursionExists ==
    ASSUME NEW V, NEW v \in V, NEW n \in Nat, NEW step \in [1..n -> [V -> V]]
    PROVE  \E f \in [0..n -> V] : f[0] = v /\ \A i \in 1..n : f[i] = step[i][f[i - 1]]
<1> DEFINE Good(m) == \E f \in [0..m -> V] : f[0] = v /\ \A i \in 1..m : f[i] = step[i][f[i - 1]]
<1> DEFINE T == {m \in 0..n : Good(m)}
<1>1. 0 \in T
  <2> DEFINE f == [i \in 0..0 |-> v]
  <2>1. f \in [0..0 -> V] /\ f[0] = v /\ \A i \in 1..0 : f[i] = step[i][f[i - 1]]
    OBVIOUS
  <2> HIDE DEF f
  <2>2. Good(0) BY <2>1
  <2> QED BY <2>2
<1>2. ASSUME NEW m \in 0..n, m \in T, m # n PROVE m + 1 \in T
  <2>1. PICK f \in [0..m -> V] : f[0] = v /\ \A i \in 1..m : f[i] = step[i][f[i - 1]]
    BY <1>2
  <2> DEFINE g == [i \in 0..(m + 1) |-> IF i = m + 1 THEN step[i][f[m]] ELSE f[i]]
  <2>2. f[m] \in V /\ m + 1 \in 1..n
    BY <2>1, <1>2
  <2>3. g \in [0..(m + 1) -> V]
    <3>1. step[m + 1][f[m]] \in V
      BY <2>2
    <3> QED BY <3>1, <2>1
  <2>4. g[0] = v
    BY <2>1
  <2>5. ASSUME NEW i \in 1..(m + 1) PROVE g[i] = step[i][g[i - 1]]
    BY <2>1
  <2> HIDE DEF g
  <2>6. Good(m + 1)
    BY <2>3, <2>4, <2>5
  <2> QED BY <2>6, <2>2
<1>3. 0..n \subseteq T
  <2> HIDE DEF T
  <2> QED BY <1>1, <1>2, SetInduction
<1> QED BY <1>3

-----------------------------------------------------------------------------
(* Kept *)

\* f[i] is what is kept of the first i elements
KeepsStepwise(f, q, S, V) ==
    /\ f \in [0..Len(q) -> Seq(V)] /\ Kept(q, S) = f[Len(q)]
    /\ f[0] = <<>>
    /\ \A i \in 1..Len(q) :
          f[i] = IF q[i] \in S THEN Append(f[i - 1], q[i]) ELSE f[i - 1]

\* the definition of Kept defines something, and by sequences over V
LEMMA KeptIsRecursive ==
    ASSUME NEW V, NEW q \in Seq(V), NEW S
    PROVE  \E f : KeepsStepwise(f, q, S, V)
<1> DEFINE n == Len(q)
           Step == [i \in 1..n |-> [s \in Seq(V) |->
                       IF q[i] \in S THEN Append(s, q[i]) ELSE s]]
           Fits(g) == g = [i \in 0..n |->
                        IF i = 0 THEN <<>>
                        ELSE IF q[i] \in S THEN Append(g[i - 1], q[i]) ELSE g[i - 1]]
           c == CHOOSE g : Fits(g)
<1>1. n \in Nat /\ <<>> \in Seq(V)
  OBVIOUS
<1>2. Step \in [1..n -> [Seq(V) -> Seq(V)]]
  <2>1. \A i \in 1..n : q[i] \in V
    OBVIOUS
  <2>2. \A i \in 1..n, s \in Seq(V) : Append(s, q[i]) \in Seq(V)
    BY <2>1
  <2> QED BY <2>2
<1>3. PICK f \in [0..n -> Seq(V)] : f[0] = <<>> /\ \A i \in 1..n : f[i] = Step[i][f[i - 1]]
  <2> DEFINE W == Seq(V)
             e == <<>>
  <2>1. n \in Nat /\ e \in W /\ Step \in [1..n -> [W -> W]]
    BY <1>1, <1>2
  <2> HIDE DEF Step, n, W, e
  <2>2. \E f \in [0..n -> W] : f[0] = e /\ \A i \in 1..n : f[i] = Step[i][f[i - 1]]
    BY <2>1, RecursionExists
  <2> USE DEF W, e
  <2> QED BY <2>2
<1>4. \A i \in 1..n : i - 1 \in 0..n /\ f[i - 1] \in Seq(V)
  BY <1>3, <1>1
<1>5. \A i \in 1..n : f[i] = IF q[i] \in S THEN Append(f[i - 1], q[i]) ELSE f[i - 1]
  BY <1>3, <1>4
<1>6. Fits(f)
  <2>1. ASSUME NEW i \in 0..n
        PROVE  f[i] = IF i = 0 THEN <<>>
                      ELSE IF q[i] \in S THEN Append(f[i - 1], q[i]) ELSE f[i - 1]
    <3>1. CASE i = 0 BY <3>1, <1>3
    <3>2. CASE i # 0
      <4>1. i \in 1..n BY <3>2, <1>1
      <4> QED BY <4>1, <3>2, <1>5
    <3> QED BY <3>1, <3>2
  <2> QED BY <2>1
<1>7. Fits(c)
  BY <1>6
<1>8. Kept(q, S) = c[n]
  BY DEF Kept
<1>9. DOMAIN c = 0..n /\ c[0] = <<>>
      /\ \A i \in 1..n : c[i] = IF q[i] \in S THEN Append(c[i - 1], q[i]) ELSE c[i - 1]
  <2> HIDE DEF c
  <2>1. DOMAIN c = 0..n /\ \A i \in 0..n : c[i] =
                        IF i = 0 THEN <<>>
                        ELSE IF q[i] \in S THEN Append(c[i - 1], q[i]) ELSE c[i - 1]
    BY <1>7
  <2>2. 0 \in 0..n /\ \A i \in 1..n : i \in 0..n /\ i # 0
    BY <1>1
  <2> HIDE DEF n
  <2> QED BY <2>1, <2>2
<1>10. c \in [0..n -> Seq(V)]
  <2> HIDE DEF c
  <2> DEFINE T == {i \in 0..n : c[i] \in Seq(V)}
  <2>1. 0 \in T
    <3> DEFINE e == <<>>
               W == Seq(V)
    <3>1. c[0] = e /\ e \in W /\ 0 \in 0..n
      BY <1>9, <1>1
    <3> HIDE DEF e, n
    <3> QED BY <3>1
  <2>2. ASSUME NEW i \in 0..n, i \in T, i # n PROVE i + 1 \in T
    <3>1. i + 1 \in 1..n /\ (i + 1) - 1 = i
      BY <2>2, <1>1
    <3>2. q[i + 1] \in V
      BY <3>1
    <3>3. c[i + 1] = IF q[i + 1] \in S THEN Append(c[i], q[i + 1]) ELSE c[i]
      <4>1. \A k \in 1..n : c[k] = IF q[k] \in S THEN Append(c[k - 1], q[k]) ELSE c[k - 1]
        BY <1>9
      <4> HIDE DEF n
      <4> QED BY <4>1, <3>1
    <3>4. c[i + 1] \in Seq(V)
      BY <3>3, <3>2, <2>2
    <3> QED BY <3>4, <3>1
  <2>3. 0..n \subseteq T
    <3> HIDE DEF T, n
    <3> QED BY <2>1, <2>2, <1>1, SetInduction
  <2>4. c = [i \in 0..n |-> c[i]]
    BY <1>7
  <2> QED BY <2>3, <2>4, <1>9
<1> HIDE DEF c
<1>11. KeepsStepwise(c, q, S, V)
  BY <1>8, <1>9, <1>10 DEF KeepsStepwise
<1> QED BY <1>11

\* one more element at the end
LEMMA AppendFacts ==
    ASSUME NEW V, NEW s \in Seq(V), NEW x \in V
    PROVE  /\ Append(s, x) \in Seq(V)
           /\ ToSet(Append(s, x)) = ToSet(s) \union {x}
           /\ IsInjective(s) /\ x \notin ToSet(s) => IsInjective(Append(s, x))
<1>1. /\ Append(s, x) \in Seq(V) /\ Len(Append(s, x)) = Len(s) + 1
      /\ \A i \in 1..Len(s) : Append(s, x)[i] = s[i]
      /\ Append(s, x)[Len(s) + 1] = x
      /\ Len(s) \in Nat
      /\ DOMAIN s = 1..Len(s) /\ DOMAIN Append(s, x) = 1..(Len(s) + 1)
  OBVIOUS
<1> DEFINE a == Append(s, x)
           n == Len(s)
<1>2. a \in Seq(V) /\ Len(a) = n + 1 /\ (\A i \in 1..n : a[i] = s[i]) /\ a[n + 1] = x
      /\ n \in Nat /\ DOMAIN s = 1..n /\ DOMAIN a = 1..(n + 1)
  BY <1>1
<1> HIDE DEF a, n
<1>3. ToSet(a) = ToSet(s) \union {x}
  <2>1. \A y \in ToSet(a) : y \in ToSet(s) \union {x}
    <3> TAKE y \in ToSet(a)
    <3>1. PICK i \in 1..(n + 1) : y = a[i]
      BY <1>2 DEF ToSet
    <3>2. CASE i = n + 1 BY <3>1, <3>2, <1>2
    <3>3. CASE i # n + 1
      <4>1. i \in 1..n BY <3>3, <1>2
      <4> QED BY <4>1, <3>1, <1>2 DEF ToSet
    <3> QED BY <3>2, <3>3
  <2>2. \A y \in ToSet(s) : y \in ToSet(a)
    BY <1>2 DEF ToSet
  <2>3. x \in ToSet(a)
    BY <1>2 DEF ToSet
  <2> QED BY <2>1, <2>2, <2>3
<1>4. ASSUME IsInjective(s), x \notin ToSet(s) PROVE IsInjective(a)
  <2> SUFFICES ASSUME NEW i \in DOMAIN a, NEW j \in DOMAIN a, a[i] = a[j] PROVE i = j
    BY DEF IsInjective
  <2>1. i \in 1..(n + 1) /\ j \in 1..(n + 1) BY <1>2
  <2>2. \A k \in 1..(n + 1) : k # n + 1 => k \in 1..n BY <1>2
  <2>3. \A k \in 1..n : a[k] = s[k] /\ s[k] # x BY <1>2, <1>4 DEF ToSet
  <2>4. CASE i \in 1..n /\ j \in 1..n
    BY <2>4, <2>3, <1>2, <1>4 DEF IsInjective
  <2>5. CASE i = n + 1 \/ j = n + 1
    BY <2>1, <2>2, <2>3, <2>5, <1>2
  <2> QED BY <2>1, <2>2, <2>4, <2>5
<1> QED BY <1>2, <1>3, <1>4 DEF a

\* Kept has the elements of q that are in S, each as often as q if q repeats none
LEMMA KeptElements ==
    ASSUME NEW V, NEW q \in Seq(V), NEW S
    PROVE  /\ Kept(q, S) \in Seq(V)
           /\ ToSet(Kept(q, S)) = ToSet(q) \cap S
           /\ IsInjective(q) => IsInjective(Kept(q, S))
<1>2. Len(q) \in Nat /\ DOMAIN q = 1..Len(q) /\ \A i \in 1..Len(q) : q[i] \in V
  OBVIOUS
<1>0. PICK f : KeepsStepwise(f, q, S, V)
  BY KeptIsRecursive
<1> DEFINE n == Len(q)
<1> HIDE DEF n
<1>8. n = Len(q) BY DEF n
<1>1. /\ f \in [0..n -> Seq(V)] /\ Kept(q, S) = f[n]
      /\ f[0] = <<>>
      /\ \A i \in 1..n : f[i] = IF q[i] \in S THEN Append(f[i - 1], q[i]) ELSE f[i - 1]
  BY <1>0, <1>8 DEF KeepsStepwise
<1>7. n \in Nat /\ DOMAIN q = 1..n /\ \A i \in 1..n : q[i] \in V
  BY <1>2, <1>8
<1> DEFINE Upto(i) == {q[k] : k \in 1..i}
           Good(i) == /\ ToSet(f[i]) = Upto(i) \cap S
                      /\ IsInjective(q) => IsInjective(f[i])
           T == {i \in 0..n : Good(i)}
<1>3. 0 \in T
  <2>1. ToSet(f[0]) = {} /\ IsInjective(f[0])
    BY <1>1 DEF ToSet, IsInjective
  <2>2. Upto(0) = {} OBVIOUS
  <2> QED BY <2>1, <2>2, <1>7
<1>4. ASSUME NEW i \in 0..n, i \in T, i # n PROVE i + 1 \in T
  <2> DEFINE j == i + 1
             s == f[i]
             x == q[j]
  <2>1. j \in 1..n /\ j \in 0..n /\ j - 1 = i /\ x \in V
    BY <1>7, <1>4
  <2>2. f[j] = IF x \in S THEN Append(s, x) ELSE s
    BY <1>1, <2>1
  <2>3. s \in Seq(V) /\ ToSet(s) = Upto(i) \cap S /\ (IsInjective(q) => IsInjective(s))
    BY <1>4, <1>1
  <2>4. Upto(j) = Upto(i) \union {x}
    BY <2>1, <1>7
  <2>5. IsInjective(q) => x \notin Upto(i)
    <3>1. \A k \in 1..i : k \in 1..n /\ k # j
      BY <2>1, <1>7
    <3> HIDE DEF j
    <3>2. IsInjective(q) => \A k \in 1..i : q[k] # q[j]
      BY <3>1, <2>1, <1>7 DEF IsInjective
    <3> QED BY <3>2
  <2> HIDE DEF j, s, x, Upto
  <2>6. CASE x \in S
    <3>1. f[j] = Append(s, x) BY <2>2, <2>6
    <3>2. ToSet(f[j]) = ToSet(s) \union {x} BY <3>1, AppendFacts, <2>1, <2>3
    <3>3. IsInjective(q) => IsInjective(f[j])
      BY <3>1, AppendFacts, <2>1, <2>3, <2>5
    <3> QED BY <3>2, <3>3, <2>1, <2>3, <2>4, <2>6 DEF j
  <2>7. CASE x \notin S
    BY <2>7, <2>2, <2>3, <2>4, <2>1 DEF j
  <2> QED BY <2>6, <2>7
<1>5. n \in T
  <2> HIDE DEF T
  <2>1. 0..n \subseteq T BY <1>7, <1>3, <1>4, SetInduction
  <2> QED BY <2>1, <1>7
<1>6. Upto(n) = ToSet(q)
  BY <1>7 DEF ToSet
<1> HIDE DEF Upto
<1> QED BY <1>1, <1>7, <1>8, <1>5, <1>6

\* as long as nothing is left out, nothing moves
LEMMA KeptPrefix ==
    ASSUME NEW V, NEW q \in Seq(V), NEW S, NEW p \in 0..Len(q),
           \A k \in 1..p : q[k] \in S
    PROVE  /\ Len(Kept(q, S)) >= p
           /\ \A k \in 1..p : Kept(q, S)[k] = q[k]
<1>2. Len(q) \in Nat /\ DOMAIN q = 1..Len(q) /\ \A i \in 1..Len(q) : q[i] \in V
  OBVIOUS
<1>0. PICK f : KeepsStepwise(f, q, S, V)
  BY KeptIsRecursive
<1> DEFINE n == Len(q)
<1> HIDE DEF n
<1>8. n = Len(q) /\ p \in 0..n BY DEF n
<1>1. /\ f \in [0..n -> Seq(V)] /\ Kept(q, S) = f[n]
      /\ f[0] = <<>>
      /\ \A i \in 1..n : f[i] = IF q[i] \in S THEN Append(f[i - 1], q[i]) ELSE f[i - 1]
  BY <1>0, <1>8 DEF KeepsStepwise
<1>7. n \in Nat /\ DOMAIN q = 1..n /\ (\A i \in 1..n : q[i] \in V) /\ p \in 0..n
  BY <1>2, <1>8
<1> DEFINE Good(i) == /\ i <= p => Len(f[i]) = i
                      /\ i >= p => Len(f[i]) >= p
                      /\ \A k \in 1..p : k <= i => f[i][k] = q[k]
           T == {i \in 0..n : Good(i)}
<1>3. 0 \in T
  <2>1. Len(f[0]) = 0 BY <1>1
  <2>2. 0 <= p /\ (0 >= p => p = 0) /\ \A k \in 1..p : ~(k <= 0) BY <1>7
  <2> QED BY <2>1, <2>2, <1>7
<1>4. ASSUME NEW i \in 0..n, i \in T, i # n PROVE i + 1 \in T
  <2> DEFINE j == i + 1
             s == f[i]
             x == q[j]
  <2>1. j \in 1..n /\ j \in 0..n /\ j - 1 = i /\ x \in V /\ i \in Nat
    BY <1>7, <1>4
  <2>2. f[j] = IF x \in S THEN Append(s, x) ELSE s
    BY <1>1, <2>1
  <2>3. s \in Seq(V) /\ Len(s) \in Nat
    BY <1>1
  <2>4. (i <= p => Len(s) = i) /\ (i >= p => Len(s) >= p) /\ \A k \in 1..p : k <= i => s[k] = q[k]
    BY <1>4
  <2>5. j <= p => x \in S
    BY <2>1, <1>7
  <2>6. /\ Len(Append(s, x)) = Len(s) + 1
        /\ \A k \in 1..Len(s) : Append(s, x)[k] = s[k]
        /\ Append(s, x)[Len(s) + 1] = x
    BY <2>1, <2>3
  <2>7. \A k \in 1..p : k <= j => k <= i \/ k = j
    BY <2>1, <1>7
  <2>8. j > i /\ (j <= p => i <= p) /\ (j >= p => i >= p \/ j = p)
    BY <2>1, <1>7 
  <2>9. j = i + 1 OBVIOUS
  <2>10. x = q[j] OBVIOUS
  <2> HIDE DEF j, s, x
  <2>11. CASE x \in S
    <3> DEFINE b == Append(s, x)
    <3>1. f[j] = b BY <2>2, <2>11
    <3>2. Len(b) = Len(s) + 1 /\ (\A k \in 1..Len(s) : b[k] = s[k]) /\ b[Len(s) + 1] = x
      BY <2>6
    <3> HIDE DEF b
    <3>3. j <= p => Len(b) = j BY <2>1, <2>3, <2>4, <2>8, <2>9, <3>2, <1>7
    <3>4. j >= p => Len(b) >= p BY <2>1, <2>3, <2>4, <2>8, <2>9, <3>2, <1>7
    <3>5. ASSUME NEW k \in 1..p, k <= j PROVE b[k] = q[k]
      <4>1. CASE k <= i
        <5>1. k \in 1..Len(s)
          BY <4>1, <2>1, <2>3, <2>4, <1>7
        <5> QED BY <5>1, <4>1, <3>2, <2>4
      <4>2. CASE k = j
        <5>1. Len(s) + 1 = k
          BY <4>2, <2>1, <2>3, <2>4, <2>8, <2>9, <1>7
        <5> QED BY <5>1, <4>2, <3>2, <2>10
      <4> QED BY <4>1, <4>2, <3>5, <2>7
    <3> QED BY <3>1, <3>3, <3>4, <3>5, <2>1, <2>9
  <2>12. CASE x \notin S
    <3>1. f[j] = s BY <2>2, <2>12
    <3>2. ~(j <= p) BY <2>5, <2>12
    <3>3. i >= p BY <3>2, <2>9, <2>1, <1>7
    <3> QED BY <3>1, <3>2, <3>3, <2>1, <2>4, <2>7, <2>9, <1>7
  <2> QED BY <2>11, <2>12
<1>5. n \in T
  <2> HIDE DEF T
  <2>1. 0..n \subseteq T BY <1>7, <1>3, <1>4, SetInduction
  <2> QED BY <2>1, <1>7
<1> QED BY <1>1, <1>7, <1>8, <1>5
\* one more element at the front
LEMMA FrontFacts ==
    ASSUME NEW V, NEW s \in Seq(V), NEW x \in V
    PROVE  /\ <<x>> \o s \in Seq(V)
           /\ ToSet(<<x>> \o s) = ToSet(s) \union {x}
           /\ IsInjective(s) /\ x \notin ToSet(s) => IsInjective(<<x>> \o s)
<1> DEFINE a == <<x>> \o s
           n == Len(s)
<1>1. a \in Seq(V) /\ Len(a) = n + 1 /\ a[1] = x /\ (\A i \in 2..(n + 1) : a[i] = s[i - 1])
      /\ n \in Nat /\ DOMAIN s = 1..n /\ DOMAIN a = 1..(n + 1)
  OBVIOUS
<1> HIDE DEF a, n
<1>2. \A i \in 1..(n + 1) : i # 1 => i \in 2..(n + 1) /\ i - 1 \in 1..n
  BY <1>1
<1>3. \A i \in 1..n : i + 1 \in 2..(n + 1) /\ i + 1 \in 1..(n + 1) /\ (i + 1) - 1 = i
  BY <1>1
<1>4. 1 \in 1..(n + 1)
  BY <1>1
<1>5. ToSet(a) = ToSet(s) \union {x}
  <2>1. \A y \in ToSet(a) : y \in ToSet(s) \union {x}
    <3> TAKE y \in ToSet(a)
    <3>1. PICK i \in 1..(n + 1) : y = a[i]
      BY <1>1 DEF ToSet
    <3>2. CASE i = 1 BY <3>1, <3>2, <1>1
    <3>3. CASE i # 1 BY <3>1, <3>3, <1>1, <1>2 DEF ToSet
    <3> QED BY <3>2, <3>3
  <2>2. ASSUME NEW y \in ToSet(s) PROVE y \in ToSet(a)
    <3>1. PICK i \in 1..n : y = s[i]
      BY <1>1 DEF ToSet
    <3>2. y = a[i + 1] /\ i + 1 \in DOMAIN a BY <3>1, <1>1, <1>3
    <3> QED BY <3>2 DEF ToSet
  <2>3. x \in ToSet(a)
    BY <1>1, <1>4 DEF ToSet
  <2> QED BY <2>1, <2>2, <2>3
<1>6. ASSUME IsInjective(s), x \notin ToSet(s) PROVE IsInjective(a)
  <2> SUFFICES ASSUME NEW i \in 1..(n + 1), NEW j \in 1..(n + 1), a[i] = a[j] PROVE i = j
    BY <1>1 DEF IsInjective
  <2>1. \A k \in 1..(n + 1) : k # 1 => a[k] = s[k - 1] /\ k - 1 \in 1..n /\ s[k - 1] # x
    BY <1>1, <1>2, <1>6 DEF ToSet
  <2>2. CASE i # 1 /\ j # 1
    <3>1. i - 1 = j - 1 BY <2>1, <2>2, <1>1, <1>6 DEF IsInjective
    <3> QED BY <3>1
  <2>3. CASE i = 1 \/ j = 1
    BY <2>1, <2>3, <1>1
  <2> QED BY <2>2, <2>3
<1> QED BY <1>1, <1>5, <1>6 DEF a

-----------------------------------------------------------------------------
(* The inductive invariant *)

Holding == {"waiting", "killing", "releasing"}

HandlesAreOpen ==
    \A t \in Queued : /\ handle[t] \in Handles
                      /\ \A u \in Queued : handle[u] = handle[t] => u = t

RunningIsQueued ==
    \A t \in Threads : /\ Running(t) => t \in Queued
                       /\ life[t] = "unborn" => t \notin Queued

HoldersKnown ==
    \A a \in Actors :
        /\ pc[a] \in Holding <=> held[a] # None
        /\ held[a] # None => held[a] \in Queued /\ handle[held[a]] = arg[a]

Holders(t) == {a \in Actors : held[a] = t}

LocksCounted == \A t \in Threads : locks[t] = Cardinality(Holders(t))

DeletesEndedOnly == \A a \in Actors : deleteIt[a] => held[a] # None /\ ~Running(held[a])

SectionOwned ==
    /\ \A a \in Actors : pc[a] = "handing over" => cs = a
    /\ pc[Main] = "walking" => cs = Main

\* KillAll has left behind only items whose thread has ended
WalkedHaveEnded ==
    pc[Main] = "walking" => \A i \in 1..(kill.item - 1) : ~Running(queue[i])

Inv ==
    /\ TypeOK /\ HandlesAreOpen /\ RunningIsQueued /\ HoldersKnown
    /\ LocksCounted /\ DeletesEndedOnly /\ SectionOwned /\ WalkedHaveEnded

LEMMA ActorsAreFinite == IsFiniteSet(Actors) /\ Main \in Actors /\ Threads \subseteq Actors
  BY ThreadQueueAssumption, FS_AddElement DEF Actors

LEMMA HoldersAreFinite ==
    ASSUME NEW t PROVE IsFiniteSet(Holders(t)) /\ Cardinality(Holders(t)) \in Nat
<1>1. Holders(t) \subseteq Actors BY DEF Holders
<1> QED BY <1>1, ActorsAreFinite, FS_Subset, FS_CardinalityType

\* who holds an item has it locked
LEMMA HeldIsLocked ==
    ASSUME LocksCounted, NEW a \in Actors, held[a] \in Threads
    PROVE  locks[held[a]] > 0
<1>1. a \in Holders(held[a]) BY DEF Holders
<1>2. Cardinality(Holders(held[a])) # 0
  BY <1>1, HoldersAreFinite, FS_EmptySet
<1> QED BY <1>2, HoldersAreFinite DEF LocksCounted

LEMMA ItemIsHeld ==
    ASSUME HandlesAreOpen, HoldersKnown, NEW a \in Actors, held[a] # None
    PROVE  ItemOf(arg[a]) = {held[a]}
BY DEF HandlesAreOpen, HoldersKnown, ItemOf

LEMMA QueuedAreThreads == ASSUME TypeOK PROVE Queued \subseteq Threads
<1>1. queue \in Seq(Threads) BY DEF TypeOK
<1>2. \A i \in DOMAIN queue : queue[i] \in Threads BY <1>1
<1> QED BY <1>2 DEF Queued, ToSet

\* the list without the items outside of S
LEMMA ShortenFacts ==
    ASSUME TypeOK, NEW S, Shorten(Kept(queue, S))
    PROVE  /\ queue' \in Seq(Threads) /\ IsInjective(queue')
           /\ Queued' = Queued \cap S
           /\ handle' \in [Threads -> Handles \union {None}]
           /\ \A t \in Queued' : handle'[t] = handle[t]
<1>1. queue \in Seq(Threads) /\ IsInjective(queue) BY DEF TypeOK
<1>2. /\ Kept(queue, S) \in Seq(Threads)
      /\ ToSet(Kept(queue, S)) = ToSet(queue) \cap S
      /\ IsInjective(Kept(queue, S))
  BY <1>1, KeptElements
<1>3. queue' = Kept(queue, S)
      /\ handle' = [t \in Threads |-> IF t \in ToSet(Kept(queue, S)) THEN handle[t] ELSE None]
  BY DEF Shorten
<1>4. Queued' = Queued \cap S
  BY <1>2, <1>3 DEF Queued
<1>5. Queued \subseteq Threads
  BY QueuedAreThreads
<1> HIDE DEF Queued
<1>6. handle' \in [Threads -> Handles \union {None}]
  BY <1>3 DEF TypeOK
<1>7. \A t \in Queued' : handle'[t] = handle[t]
  <2>1. ToSet(Kept(queue, S)) = Queued' BY <1>2, <1>4 DEF Queued
  <2> QED BY <2>1, <1>3, <1>4, <1>5
<1> QED BY <1>2, <1>3, <1>4, <1>6, <1>7

\* the items KillAll has left behind are items
LEMMA WalkedAreThreads ==
    ASSUME TypeOK, pc[Main] = "walking", NEW i \in 1..(kill.item - 1)
    PROVE  i \in 1..Len(queue) /\ queue[i] \in Threads
<1>1. queue \in Seq(Threads) /\ kill.item \in 1..(Len(queue) + 1) BY DEF TypeOK
<1>2. Len(queue) \in Nat BY <1>1
<1>3. i \in 1..Len(queue) BY <1>1, <1>2
<1> QED BY <1>1, <1>3

LEMMA InitInv == Init => Inv
<1> SUFFICES ASSUME Init PROVE Inv
  OBVIOUS
<1> USE ThreadQueueAssumption DEF Init
<1>1. Queued = {} BY DEF Queued, ToSet
<1>2. TypeOK
  <2>1. queue \in Seq(Threads) /\ IsInjective(queue) BY DEF IsInjective
  <2>2. kill \in [force : BOOLEAN, endless : BOOLEAN, left : 0..Sleeps, item : Nat, answer : BOOLEAN]
    OBVIOUS
  <2>3. pc[Main] # "walking" BY ActorsAreFinite
  <2> QED BY <2>1, <2>2, <2>3 DEF TypeOK
<1>3. \A t \in Threads : Holders(t) = {} BY DEF Holders, Actors
<1>4. LocksCounted BY <1>3, FS_EmptySet DEF LocksCounted
<1>5. HandlesAreOpen /\ RunningIsQueued BY <1>1 DEF HandlesAreOpen, RunningIsQueued, Running
<1>6. HoldersKnown /\ DeletesEndedOnly /\ SectionOwned /\ WalkedHaveEnded
  BY ActorsAreFinite DEF HoldersKnown, Holding, DeletesEndedOnly, SectionOwned, WalkedHaveEnded
<1> QED BY <1>2, <1>4, <1>5, <1>6 DEF Inv

\* a stay in the section while KillAll does not walk
NotWalking == pc[Main] # "walking" /\ pc'[Main] # "walking"

LEMMA StartThreadKeeps ==
    ASSUME Inv, NEW a \in Actors, NEW t \in Threads, StartThread(a, t)
    PROVE  Inv'
<1> USE DEF Inv
<1> DEFINE S == {u \in Threads : locks[u] > 0 \/ Running(u)}
           q == Kept(queue, S)
<1>1. queue \in Seq(Threads) /\ IsInjective(queue) BY DEF TypeOK
<1>2. q \in Seq(Threads) /\ ToSet(q) = Queued \cap S /\ IsInjective(q)
  BY <1>1, KeptElements DEF Queued
<1>3. queue' = <<t>> \o q /\ Add(t) = <<t>> \o q
  BY DEF StartThread, Add, ClearFinishedThreads
<1>4. t \notin Queued /\ life[t] = "unborn" BY DEF StartThread, RunningIsQueued
<1>5. /\ queue' \in Seq(Threads) /\ IsInjective(queue')
      /\ Queued' = (Queued \cap S) \union {t} /\ ToSet(Add(t)) = Queued'
  <2> HIDE DEF q, S
  <2> QED BY <1>2, <1>3, <1>4, FrontFacts DEF Queued
<1>6. PICK h \in Handles : /\ h \notin {handle[u] : u \in Queued}
                           /\ handle' = [u \in Threads |-> IF u = t THEN h
                                         ELSE IF u \in ToSet(Add(t)) THEN handle[u] ELSE None]
  BY DEF StartThread
<1>7. Queued \subseteq Threads BY QueuedAreThreads
<1> HIDE DEF q
<1>8. handle'[t] = h /\ \A u \in Queued \cap S : handle'[u] = handle[u]
  BY <1>4, <1>5, <1>6, <1>7
<1>9. life' = [life EXCEPT ![t] = "resumed"] /\ cs = None /\ cs' = a /\ pc[a] = "out"
      /\ pc' = [pc EXCEPT ![a] = "handing over"]
      /\ UNCHANGED <<locks, continue, arg, deleteIt, held, kill>>
  BY DEF StartThread, Goto
<1>10. pc[Main] # "walking" /\ pc'[Main] # "walking"
  <2>1. pc[Main] # "walking"
    BY <1>9, ThreadQueueAssumption, ActorsAreFinite DEF SectionOwned, Actors
  <2> QED BY <2>1, <1>9, ActorsAreFinite DEF TypeOK
<1>11. TypeOK'
  <2>1. handle' \in [Threads -> Handles \union {None}]
    BY <1>6 DEF TypeOK
  <2>2. life' \in [Threads -> {"unborn", "resumed", "running", "ended"}] BY <1>9 DEF TypeOK
  <2>3. pc' \in [Actors -> {"out", "handing over", "waiting", "killing", "releasing"}
                          \union InKillAll] BY <1>9 DEF TypeOK
  <2> QED BY <1>5, <2>1, <2>2, <2>3, <1>9, <1>10 DEF TypeOK
<1>12. HandlesAreOpen'
  <2>1. \A u \in Queued' : u = t \/ (u \in Queued \cap S /\ u # t) BY <1>5, <1>4
  <2> QED BY <2>1, <1>8, <1>6 DEF HandlesAreOpen
<1>13. \A u \in Threads : u # t => life'[u] = life[u]
  BY <1>9 DEF TypeOK
<1>14. life'[t] = "resumed" BY <1>9 DEF TypeOK
<1>15. RunningIsQueued'
  BY <1>5, <1>13, <1>14, <1>4 DEF RunningIsQueued, Running
<1>16. ASSUME NEW b \in Actors, held[b] # None
       PROVE  held[b] \in Queued \cap S /\ held[b] # t
  <2>1. held[b] \in Queued /\ held[b] \in Threads BY <1>16, <1>7 DEF HoldersKnown
  <2> QED BY <2>1, HeldIsLocked, <1>4
<1>17. HoldersKnown'
  <2>1. \A b \in Actors : b # a => pc'[b] = pc[b] BY <1>9 DEF TypeOK
  <2>2. pc'[a] = "handing over" BY <1>9 DEF TypeOK
  <2> QED BY <2>1, <2>2, <1>16, <1>8, <1>9, <1>5 DEF HoldersKnown, Holding
<1>18. LocksCounted' BY <1>9 DEF LocksCounted, Holders
<1>19. DeletesEndedOnly'
  <2>1. \A b \in Actors : held[b] # None => held[b] \in Threads /\ held[b] # t BY <1>16, <1>7
  <2> QED BY <2>1, <1>9, <1>13 DEF DeletesEndedOnly, Running
<1>20. SectionOwned'
  <2>1. \A b \in Actors : pc[b] # "handing over"
    BY <1>9, ThreadQueueAssumption DEF SectionOwned, Actors
  <2> QED BY <2>1, <1>9, <1>10 DEF SectionOwned, TypeOK
<1>21. WalkedHaveEnded' BY <1>10 DEF WalkedHaveEnded
<1> QED BY <1>11, <1>12, <1>15, <1>17, <1>18, <1>19, <1>20, <1>21

\* a thread goes on or ends
LEMMA ThreadKeeps ==
    ASSUME Inv, NEW t \in Threads, ThreadBase(t) \/ ThreadEnds(t)
    PROVE  Inv'
<1> USE DEF Inv
<1>1. UNCHANGED <<queue, handle, locks, cs, pc, arg, deleteIt, held, kill>> /\ continue' \in BOOLEAN
  BY DEF ThreadBase, ThreadEnds, TypeOK
<1>2. \/ life' = [life EXCEPT ![t] = "running"] /\ life[t] = "resumed"
      \/ life' = [life EXCEPT ![t] = "ended"] /\ life[t] = "running"
  BY DEF ThreadBase, ThreadEnds
<1>3. life' \in [Threads -> {"unborn", "resumed", "running", "ended"}]
      /\ \A u \in Threads : /\ Running(u)' => Running(u)
                            /\ life'[u] = "unborn" => life[u] = "unborn"
  BY <1>2 DEF Running, TypeOK
<1>4. Queued' = Queued /\ Queued \subseteq Threads /\ \A u : Holders(u)' = Holders(u)
  BY <1>1, QueuedAreThreads DEF Queued, Holders
<1>5. TypeOK' BY <1>1, <1>3 DEF TypeOK
<1>6. HandlesAreOpen' /\ HoldersKnown' /\ LocksCounted' /\ SectionOwned'
  BY <1>1, <1>4 DEF HandlesAreOpen, HoldersKnown, LocksCounted, SectionOwned
<1>9. RunningIsQueued'
  BY <1>3, <1>4 DEF RunningIsQueued
<1>7. DeletesEndedOnly'
  <2>1. \A a \in Actors : held[a] # None => held[a] \in Threads
    BY <1>4 DEF HoldersKnown
  <2> QED BY <2>1, <1>1, <1>3 DEF DeletesEndedOnly
<1>8. WalkedHaveEnded'
  BY <1>1, <1>3, WalkedAreThreads DEF WalkedHaveEnded
<1> QED BY <1>5, <1>6, <1>7, <1>8, <1>9

LEMMA StartThreadReturnsKeeps ==
    ASSUME Inv, NEW a \in Actors, StartThreadReturns(a)
    PROVE  Inv'
<1> USE DEF Inv
<1>1. UNCHANGED <<queue, handle, locks, life, arg, deleteIt, held, kill>>
      /\ continue' = FALSE /\ cs' = None /\ pc[a] = "handing over" /\ pc' = [pc EXCEPT ![a] = "out"]
  BY DEF StartThreadReturns, Goto
<1>2. Queued' = Queued /\ \A u : Holders(u)' = Holders(u)
  BY <1>1 DEF Queued, Holders
<1>3. cs = a /\ a # None
  BY <1>1, ThreadQueueAssumption DEF SectionOwned
<1>4. pc[Main] # "walking" /\ pc'[Main] # "walking"
  BY <1>1, <1>3, ActorsAreFinite DEF SectionOwned, TypeOK
<1>5. \A b \in Actors : pc'[b] # "handing over"
  BY <1>1, <1>3 DEF SectionOwned, TypeOK
<1>6. TypeOK' BY <1>1, <1>4 DEF TypeOK
<1>7. HandlesAreOpen' /\ RunningIsQueued' /\ LocksCounted' /\ SectionOwned' /\ WalkedHaveEnded'
      /\ DeletesEndedOnly'
  BY <1>1, <1>2, <1>4, <1>5 DEF HandlesAreOpen, RunningIsQueued, LocksCounted, SectionOwned,
     WalkedHaveEnded, DeletesEndedOnly, Running
<1>8. HoldersKnown'
  BY <1>1, <1>2 DEF HoldersKnown, Holding, TypeOK
<1> QED BY <1>6, <1>7, <1>8

\* nobody's place in StartThread, and KillAll's walk, are concerned
LEMMA FindAndLockItemKeeps ==
    ASSUME Inv, NEW a \in Actors, NEW h \in Handles, NEW method \in {"waiting", "killing"},
           FindAndLockItem(a, h, method)
    PROVE  Inv'
<1> USE DEF Inv
<1>1. /\ pc[a] = "out" /\ cs = None /\ arg' = [arg EXCEPT ![a] = h]
      /\ pc' = [pc EXCEPT ![a] = method]
      /\ UNCHANGED <<queue, handle, life, cs, continue, deleteIt, kill>>
  BY DEF FindAndLockItem, Goto
<1>2. PICK t \in Queued : /\ handle[t] = h /\ locks' = [locks EXCEPT ![t] = @ + 1]
                          /\ held' = [held EXCEPT ![a] = t]
  BY DEF FindAndLockItem, ItemOf, Lock
<1>3. t \in Threads /\ t # None /\ Queued' = Queued
  BY <1>1, QueuedAreThreads, ThreadQueueAssumption DEF Queued, Actors
<1>4. held[a] = None
  BY <1>1 DEF HoldersKnown, Holding
<1>5. pc[Main] # "walking" /\ pc'[Main] # "walking"
  <2>1. pc[Main] # "walking"
    BY <1>1, ThreadQueueAssumption DEF SectionOwned, Actors
  <2> QED BY <2>1, <1>1, ActorsAreFinite DEF TypeOK
<1>6. TypeOK'
  <2>1. locks' \in [Threads -> Nat]
    <3>1. locks \in [Threads -> Nat] BY DEF TypeOK
    <3>2. locks[t] + 1 \in Nat BY <3>1, <1>3
    <3> QED BY <3>1, <3>2, <1>2
  <2>2. held' \in [Actors -> Threads \union {None}] BY <1>2, <1>3 DEF TypeOK
  <2>3. pc' \in [Actors -> {"out", "handing over", "waiting", "killing", "releasing"}
                          \union InKillAll] BY <1>1 DEF TypeOK
  <2>4. arg' \in [Actors -> Handles \union {None}] BY <1>1 DEF TypeOK
  <2> QED BY <2>1, <2>2, <2>3, <2>4, <1>1, <1>5 DEF TypeOK
<1>7. HandlesAreOpen' /\ RunningIsQueued' /\ WalkedHaveEnded'
  BY <1>1, <1>3, <1>5 DEF HandlesAreOpen, RunningIsQueued, WalkedHaveEnded, Running
<1>8. HoldersKnown'
  <2>1. \A b \in Actors : b # a => pc'[b] = pc[b] /\ held'[b] = held[b] /\ arg'[b] = arg[b]
    BY <1>1, <1>2 DEF TypeOK
  <2>2. pc'[a] = method /\ held'[a] = t /\ arg'[a] = h
    BY <1>1, <1>2 DEF TypeOK
  <2> QED BY <2>1, <2>2, <1>1, <1>2, <1>3 DEF HoldersKnown, Holding
<1>9. LocksCounted'
  <2>1. \A u \in Threads : u # t => Holders(u)' = Holders(u) /\ locks'[u] = locks[u]
    <3>1. \A u : t # u /\ u # None => Holders(u)' = Holders(u)
      BY <1>2, <1>4 DEF Holders, TypeOK
    <3>2. \A u \in Threads : u # t => locks'[u] = locks[u]
      BY <1>2 DEF TypeOK
    <3> QED BY <3>1, <3>2, ThreadQueueAssumption DEF Actors
  <2>2. Holders(t)' = Holders(t) \union {a} /\ a \notin Holders(t)
    BY <1>2, <1>3, <1>4 DEF Holders, TypeOK
  <2>3. Cardinality(Holders(t)') = Cardinality(Holders(t)) + 1
    BY <2>2, HoldersAreFinite, FS_AddElement
  <2>4. locks'[t] = locks[t] + 1 BY <1>2, <1>3 DEF TypeOK
  <2> QED BY <2>1, <2>3, <2>4, <1>3 DEF LocksCounted
<1>10. DeletesEndedOnly'
  <2>1. \A b \in Actors : deleteIt[b] => b # a BY <1>4 DEF DeletesEndedOnly
  <2>2. \A b \in Actors : b # a => held'[b] = held[b] BY <1>2 DEF TypeOK
  <2> QED BY <2>1, <2>2, <1>1 DEF DeletesEndedOnly, Running
<1>11. SectionOwned'
  <2>1. \A b \in Actors : pc'[b] = "handing over" => pc[b] = "handing over"
    BY <1>1 DEF TypeOK
  <2> QED BY <2>1, <1>1, <1>5 DEF SectionOwned
<1> QED BY <1>6, <1>7, <1>8, <1>9, <1>10, <1>11

\* the wait is over, or TerminateThread has been called
LEMMA ReleaseKeeps ==
    ASSUME Inv, NEW a \in Actors, WaitIsOver(a) \/ WaitTimesOut(a) \/ Terminate(a)
    PROVE  Inv'
<1> USE DEF Inv
<1> DEFINE t == held[a]
<1>1. /\ pc[a] \in {"waiting", "killing"} /\ pc' = [pc EXCEPT ![a] = "releasing"]
      /\ UNCHANGED <<queue, handle, locks, continue, arg, held, kill>>
      /\ \/ cs' = cs
         \/ cs = None /\ cs' \in ItemOf(arg[a])
  BY DEF WaitIsOver, WaitTimesOut, Terminate, Release, Goto, MayBeInside
<1>2. t # None /\ t \in Queued
  BY <1>1 DEF HoldersKnown, Holding
<1>3. ItemOf(arg[a]) = {t}
  BY <1>2, ItemIsHeld
<1>4. PICK delete \in BOOLEAN : deleteIt' = [deleteIt EXCEPT ![a] = delete]
                                /\ (delete => ~Running(t)')
  <2>1. CASE WaitIsOver(a)
    BY <2>1, <1>3 DEF WaitIsOver, Release, Running
  <2>2. CASE WaitTimesOut(a)
    BY <2>2 DEF WaitTimesOut, Release
  <2>3. CASE Terminate(a)
    <3>1. life'[t] = "ended"
      BY <2>3, <1>2, <1>3, QueuedAreThreads DEF Terminate
    <3>2. ~Running(t)'
      <4>1. held' = held BY <1>1
      <4> QED BY <4>1, <3>1 DEF Running
    <3> QED BY <2>3, <3>2 DEF Terminate, Release
  <2> QED BY <2>1, <2>2, <2>3
<1>5. /\ life' \in [Threads -> {"unborn", "resumed", "running", "ended"}]
      /\ \A u \in Threads : /\ Running(u)' => Running(u)
                            /\ life'[u] = "unborn" => life[u] = "unborn"
  <2>1. CASE life' = life BY <2>1 DEF Running, TypeOK
  <2>2. CASE Terminate(a) BY <2>2 DEF Terminate, Running, TypeOK
  <2> QED BY <2>1, <2>2 DEF WaitIsOver, WaitTimesOut
<1>6. Queued' = Queued /\ Queued \subseteq Threads /\ \A u : Holders(u)' = Holders(u)
  BY <1>1, QueuedAreThreads DEF Queued, Holders
<1>7. \A b \in Actors : b # a => pc'[b] = pc[b] /\ deleteIt'[b] = deleteIt[b]
  BY <1>1, <1>4 DEF TypeOK
<1>8. pc'[a] = "releasing" /\ (deleteIt'[a] => ~Running(t)')
  BY <1>1, <1>4 DEF TypeOK
<1>9. pc'[Main] = "walking" => pc[Main] = "walking"
  BY <1>7, <1>8, ActorsAreFinite
<1>10. TypeOK'
  <2>1. deleteIt' \in [Actors -> BOOLEAN] BY <1>4 DEF TypeOK
  <2>2. pc' \in [Actors -> {"out", "handing over", "waiting", "killing", "releasing"}
                          \union InKillAll] BY <1>1 DEF TypeOK
  <2>3. cs' \in Actors \union {None}
    <3>1. \/ cs' = cs
          \/ cs' = t
      BY <1>1, <1>3
    <3> QED BY <3>1, <1>2, <1>6, ActorsAreFinite DEF TypeOK
  <2> QED BY <2>1, <2>2, <2>3, <1>1, <1>5, <1>9 DEF TypeOK
<1>11. HandlesAreOpen' /\ LocksCounted'
  BY <1>1, <1>6 DEF HandlesAreOpen, LocksCounted
<1>12. RunningIsQueued'
  BY <1>5, <1>6 DEF RunningIsQueued
<1>13. HoldersKnown'
  BY <1>1, <1>2, <1>6, <1>7, <1>8 DEF HoldersKnown, Holding
<1>14. DeletesEndedOnly'
  <2>1. \A b \in Actors : held[b] # None => held[b] \in Threads
    BY <1>6 DEF HoldersKnown
  <2>2. \A b \in Actors : b # a /\ deleteIt'[b] => ~Running(held[b])'
    <3>1. \A u \in Threads : Running(u)' => Running(u) BY <1>5
    <3> QED BY <2>1, <1>1, <1>7, <3>1 DEF DeletesEndedOnly, Running
  <2>3. held' = held BY <1>1
  <2> QED BY <2>2, <2>3, <1>2, <1>7, <1>8 DEF DeletesEndedOnly
<1>15. SectionOwned'
  <2>1. cs = None => pc[Main] # "walking" /\ \A b \in Actors : pc[b] # "handing over"
    BY ThreadQueueAssumption DEF SectionOwned, Actors
  <2>2. CASE cs' = cs
    BY <2>2, <1>7, <1>8, <1>9 DEF SectionOwned
  <2>3. CASE cs = None
    BY <2>3, <2>1, <1>7, <1>8, <1>9 DEF SectionOwned
  <2> QED BY <2>2, <2>3, <1>1
<1>16. WalkedHaveEnded'
  BY <1>1, <1>5, <1>9, WalkedAreThreads DEF WalkedHaveEnded
<1> QED BY <1>10, <1>11, <1>12, <1>13, <1>14, <1>15, <1>16

\* an item without a lock, whose thread has ended, may be deleted
LEMMA ShortenKeeps ==
    ASSUME Inv, NEW S, Shorten(Kept(queue, S)),
           life' \in [Threads -> {"unborn", "resumed", "running", "ended"}],
           \A u \in Threads : /\ Running(u)' => Running(u)
                              /\ life'[u] = "unborn" => life[u] = "unborn",
           \A u \in Queued : u \notin S => ~Running(u)'
    PROVE  /\ queue' \in Seq(Threads) /\ IsInjective(queue')
           /\ handle' \in [Threads -> Handles \union {None}]
           /\ Queued' = Queued \cap S
           /\ \A u \in Queued' : handle'[u] = handle[u]
           /\ HandlesAreOpen' /\ RunningIsQueued'
<1> USE DEF Inv
<1>1. /\ queue' \in Seq(Threads) /\ IsInjective(queue')
      /\ Queued' = Queued \cap S
      /\ handle' \in [Threads -> Handles \union {None}]
      /\ \A u \in Queued' : handle'[u] = handle[u]
  BY ShortenFacts
<1>2. HandlesAreOpen'
  BY <1>1 DEF HandlesAreOpen
<1>3. RunningIsQueued'
  BY <1>1 DEF RunningIsQueued
<1> QED BY <1>1, <1>2, <1>3

LEMMA UnlockItemKeeps ==
    ASSUME Inv, NEW a \in Actors, UnlockItem(a)
    PROVE  Inv'
<1> USE DEF Inv
<1>1. /\ pc[a] = "releasing" /\ cs = None
      /\ held' = [held EXCEPT ![a] = None] /\ arg' = [arg EXCEPT ![a] = None]
      /\ deleteIt' = [deleteIt EXCEPT ![a] = FALSE] /\ pc' = [pc EXCEPT ![a] = "out"]
      /\ UNCHANGED <<life, cs, continue, kill>>
  BY DEF UnlockItem, Goto
<1>0. PICK t : t = held[a]
  OBVIOUS
<1>2. t \in Queued /\ t \in Threads /\ t # None
  BY <1>0, <1>1, QueuedAreThreads DEF HoldersKnown, Holding
<1>3. ItemOf(arg[a]) = {t}
  BY <1>0, <1>2, ItemIsHeld
<1>4. /\ locks' = [locks EXCEPT ![t] = @ - 1]
      /\ Shorten(IF DeletesItem(a, t) THEN Without(t) ELSE queue)
  BY <1>3 DEF UnlockItem
<1>5. /\ a \in Holders(t) /\ Holders(t)' = Holders(t) \ {a}
      /\ \A u \in Threads : u # t => Holders(u)' = Holders(u)
  <2>1. held' = [held EXCEPT ![a] = None] /\ DOMAIN held = Actors
    BY <1>1 DEF TypeOK
  <2>2. held'[a] = None /\ \A b \in Actors : b # a => held'[b] = held[b]
    BY <2>1
  <2>3. t # None BY <1>2
  <2>4. ASSUME NEW u \in Threads PROVE {b \in Actors : held'[b] = u} = {b \in Actors : held[b] = u} \ {a}
    <3>1. u # None BY ThreadQueueAssumption DEF Actors
    <3> QED BY <3>1, <2>2
  <2>5. a \in Holders(t) BY <1>0 DEF Holders
  <2> QED BY <2>4, <2>5, <1>2 DEF Holders
<1>6. Cardinality(Holders(t)') = locks[t] - 1 /\ locks[t] - 1 \in Nat
  <2>1. Cardinality(Holders(t) \ {a}) = Cardinality(Holders(t)) - 1
    BY <1>5, HoldersAreFinite, FS_RemoveElement
  <2>2. locks[t] = Cardinality(Holders(t)) BY <1>2 DEF LocksCounted
  <2>3. locks[t] \in Nat /\ locks[t] > 0
    BY <1>0, <1>2, HeldIsLocked DEF TypeOK
  <2> QED BY <2>1, <2>2, <2>3, <1>5
<1>7. locks' \in [Threads -> Nat] /\ LocksCounted'
  <2>1. locks' \in [Threads -> Nat] /\ locks'[t] = locks[t] - 1
        /\ \A u \in Threads : u # t => locks'[u] = locks[u]
    BY <1>2, <1>4, <1>6 DEF TypeOK
  <2>2. ASSUME NEW u \in Threads PROVE locks'[u] = Cardinality(Holders(u)')
    <3>1. CASE u = t BY <3>1, <2>1, <1>6
    <3>2. CASE u # t BY <3>2, <2>1, <1>5 DEF LocksCounted
    <3> QED BY <3>1, <3>2
  <2> QED BY <2>1, <2>2 DEF LocksCounted
<1> DEFINE S == IF DeletesItem(a, t) THEN Threads \ {t} ELSE Threads
<1>8. /\ queue' \in Seq(Threads) /\ IsInjective(queue')
      /\ handle' \in [Threads -> Handles \union {None}]
      /\ Queued' = Queued \cap S
      /\ \A u \in Queued' : handle'[u] = handle[u]
      /\ HandlesAreOpen' /\ RunningIsQueued'
  <2>1. /\ life' \in [Threads -> {"unborn", "resumed", "running", "ended"}]
        /\ \A u \in Threads : /\ Running(u)' => Running(u)
                              /\ life'[u] = "unborn" => life[u] = "unborn"
    BY <1>1 DEF TypeOK, Running
  <2>2. CASE DeletesItem(a, t)
    <3>1. Shorten(Kept(queue, S)) BY <1>4, <2>2 DEF Without
    <3>2. ~Running(t) BY <1>0, <2>2 DEF DeletesItem, DeletesEndedOnly
    <3>3. \A u \in Queued : u \notin S => ~Running(u)'
      <4>1. \A u \in Queued : u \notin S => u = t
        BY <2>2, QueuedAreThreads
      <4> QED BY <4>1, <3>2, <1>1 DEF Running
    <3> HIDE DEF S
    <3> QED BY <2>1, <3>1, <3>3, ShortenKeeps
  <2>3. CASE ~DeletesItem(a, t)
    <3>1. queue' = queue /\ handle' = [u \in Threads |-> IF u \in ToSet(queue) THEN handle[u] ELSE None]
      BY <1>4, <2>3 DEF Shorten
    <3>2. Queued' = Queued /\ Queued = Queued \cap S
      BY <3>1, <2>3, QueuedAreThreads DEF Queued
    <3>3. ToSet(queue) = Queued BY DEF Queued
    <3> HIDE DEF S, Queued
    <3>4. handle' \in [Threads -> Handles \union {None}]
      BY <3>1 DEF TypeOK
    <3>5. \A u \in Queued' : handle'[u] = handle[u]
      BY <3>1, <3>2, <3>3, QueuedAreThreads
    <3>6. HandlesAreOpen' BY <3>2, <3>5 DEF HandlesAreOpen
    <3>7. RunningIsQueued' BY <3>2, <1>1 DEF RunningIsQueued, Running
    <3> QED BY <3>1, <3>2, <3>4, <3>5, <3>6, <3>7 DEF TypeOK
  <2> QED BY <2>2, <2>3
<1>9. \A b \in Actors : b # a /\ held[b] # None => held[b] \in S
  <2> SUFFICES ASSUME NEW b \in Actors, b # a, held[b] # None, held[b] \notin S PROVE FALSE
    OBVIOUS
  <2>1. held[b] = t /\ locks[t] = 1
    <3>1. held[b] \in Threads BY QueuedAreThreads DEF HoldersKnown
    <3> QED BY <3>1 DEF DeletesItem
  <2>2. b \in Holders(t)' BY <2>1, <1>5 DEF Holders
  <2>3. Cardinality(Holders(t)') = 0 BY <2>1, <1>6
  <2>4. Holders(t)' \subseteq Holders(t) BY <1>5
  <2>5. IsFiniteSet(Holders(t)') BY <2>4, HoldersAreFinite, FS_Subset
  <2> QED BY <2>2, <2>3, <2>5, FS_EmptySet
<1>10. /\ \A b \in Actors : b # a => /\ pc'[b] = pc[b] /\ held'[b] = held[b]
                                    /\ arg'[b] = arg[b] /\ deleteIt'[b] = deleteIt[b]
       /\ pc'[a] = "out" /\ held'[a] = None /\ ~deleteIt'[a]
  BY <1>1 DEF TypeOK
<1> HIDE DEF S
<1>11. pc[Main] # "walking" /\ pc'[Main] # "walking"
  <2>1. pc[Main] # "walking"
    BY <1>1, ThreadQueueAssumption DEF SectionOwned, Actors
  <2> QED BY <2>1, <1>10, ActorsAreFinite
<1>12. TypeOK'
  <2>1. pc' \in [Actors -> {"out", "handing over", "waiting", "killing", "releasing"}
                          \union InKillAll]
        /\ held' \in [Actors -> Threads \union {None}] /\ arg' \in [Actors -> Handles \union {None}]
        /\ deleteIt' \in [Actors -> BOOLEAN]
    BY <1>1 DEF TypeOK
  <2> QED BY <2>1, <1>1, <1>7, <1>8, <1>11 DEF TypeOK
<1>13. HoldersKnown'
  BY <1>8, <1>9, <1>10 DEF HoldersKnown, Holding
<1>14. DeletesEndedOnly'
  BY <1>1, <1>10 DEF DeletesEndedOnly, Running
<1>15. SectionOwned'
  BY <1>1, <1>10, <1>11 DEF SectionOwned
<1>16. WalkedHaveEnded'
  BY <1>11 DEF WalkedHaveEnded
<1> QED BY <1>7, <1>8, <1>12, <1>13, <1>14, <1>15, <1>16

-----------------------------------------------------------------------------
(* KillAll *)

PlacesOfMain == {"out"} \union InKillAll

\* what KillAll does to the list leaves alone whatever somebody has locked
LEMMA KillAllFrame ==
    ASSUME Inv, NEW place \in PlacesOfMain, pc' = [pc EXCEPT ![Main] = place],
           pc[Main] \in PlacesOfMain,
           UNCHANGED <<locks, arg, deleteIt, held>>,
           NEW S, Queued' = Queued \cap S,
           \A u \in Queued' : handle'[u] = handle[u],
           \A u \in Queued : u \notin S => locks[u] = 0,
           \A u \in Threads : Running(u)' => Running(u)
    PROVE  /\ HoldersKnown' /\ LocksCounted' /\ DeletesEndedOnly'
           /\ pc' \in [Actors -> {"out", "handing over", "waiting", "killing", "releasing"}
                                 \union InKillAll]
           /\ pc'[Main] = place /\ \A b \in Actors : b # Main => pc'[b] = pc[b]
<1> USE DEF Inv
<1>1. /\ pc'[Main] = place
      /\ \A b \in Actors : b # Main => pc'[b] = pc[b]
      /\ pc' \in [Actors -> {"out", "handing over", "waiting", "killing", "releasing"}
                            \union InKillAll]
  BY ActorsAreFinite DEF TypeOK, PlacesOfMain
<1>2. place \notin Holding /\ pc[Main] \notin Holding
  BY DEF PlacesOfMain, InKillAll, Holding
<1>3. \A b \in Actors : held[b] # None => held[b] \in Threads /\ held[b] \in Queued'
  <2> TAKE b \in Actors
  <2> HAVE held[b] # None
  <2>1. held[b] \in Queued /\ held[b] \in Threads BY QueuedAreThreads DEF HoldersKnown
  <2>2. locks[held[b]] # 0
    <3>1. locks[held[b]] > 0 BY <2>1, HeldIsLocked
    <3> QED BY <3>1
  <2> QED BY <2>1, <2>2
<1>4. HoldersKnown'
  BY <1>1, <1>2, <1>3 DEF HoldersKnown
<1>5. LocksCounted' BY DEF LocksCounted, Holders
<1>6. DeletesEndedOnly'
  <2>1. \A b \in Actors : Running(held[b])' = (life'[held[b]] \in {"resumed", "running"})
    BY DEF Running
  <2>2. \A b \in Actors : deleteIt[b] => life'[held[b]] \notin {"resumed", "running"}
    BY <1>3 DEF DeletesEndedOnly, Running
  <2> QED BY <2>1, <2>2 DEF DeletesEndedOnly
<1> QED BY <1>1, <1>4, <1>5, <1>6

\* KillAll is alone in the section when it walks
LEMMA WalkerIsAlone ==
    ASSUME Inv, pc[Main] = "walking"
    PROVE  cs = Main /\ \A b \in Actors : pc[b] # "handing over"
BY DEF Inv, SectionOwned

LEMMA ListStands ==
    ASSUME Inv, UNCHANGED <<queue, handle, life>>
    PROVE  /\ Queued' = Queued /\ HandlesAreOpen' /\ RunningIsQueued'
           /\ \A u \in Queued' : handle'[u] = handle[u]
           /\ \A u \in Threads : Running(u)' = Running(u)
BY DEF Inv, Queued, HandlesAreOpen, RunningIsQueued, Running

LEMMA KillAllStarts ==
    ASSUME Inv, NEW force \in BOOLEAN, NEW endless \in BOOLEAN,
           KillAll(force, endless) \/ EnterSection \/ LetThemEnd \/ AllEnded
    PROVE  Inv'
<1> USE DEF Inv
<1>1. UNCHANGED <<queue, handle, locks, life, continue, arg, deleteIt, held>>
  BY DEF KillAll, EnterSection, LetThemEnd, AllEnded
<1>2. PICK place \in PlacesOfMain : pc' = [pc EXCEPT ![Main] = place]
                                    /\ (place = "walking" => EnterSection)
  <2> USE DEF Goto, PlacesOfMain, InKillAll
  <2>1. CASE KillAll(force, endless) BY <2>1 DEF KillAll
  <2>2. CASE EnterSection BY <2>2 DEF EnterSection
  <2>3. CASE LetThemEnd BY <2>3 DEF LetThemEnd
  <2>4. CASE AllEnded BY <2>4 DEF AllEnded, Answer
  <2> QED BY <2>1, <2>2, <2>3, <2>4
<1>3. pc[Main] \in PlacesOfMain
  BY DEF KillAll, EnterSection, LetThemEnd, AllEnded, AtItem, PlacesOfMain, InKillAll
<1>4. /\ Queued' = Queued /\ HandlesAreOpen' /\ RunningIsQueued'
      /\ \A u \in Queued' : handle'[u] = handle[u]
      /\ \A u \in Threads : Running(u)' = Running(u)
  BY <1>1, ListStands
<1>5. /\ HoldersKnown' /\ LocksCounted' /\ DeletesEndedOnly'
      /\ pc' \in [Actors -> {"out", "handing over", "waiting", "killing", "releasing"}
                            \union InKillAll]
      /\ pc'[Main] = place /\ \A b \in Actors : b # Main => pc'[b] = pc[b]
  <2>1. Queued' = Queued \cap Threads BY <1>4, QueuedAreThreads
  <2> QED BY <2>1, <1>1, <1>2, <1>3, <1>4, QueuedAreThreads, KillAllFrame
<1>6. kill' \in [force : BOOLEAN, endless : BOOLEAN, left : 0..Sleeps, item : Nat, answer : BOOLEAN]
      /\ (EnterSection => kill'.item = 1)
  <2>1. kill \in [force : BOOLEAN, endless : BOOLEAN, left : 0..Sleeps, item : Nat, answer : BOOLEAN] BY DEF TypeOK
  <2>2. CASE KillAll(force, endless)
    <3>1. (IF endless THEN 0 ELSE Sleeps) \in 0..Sleeps BY ThreadQueueAssumption
    <3>2. ~EnterSection BY <2>2 DEF KillAll, EnterSection
    <3> QED BY <2>2, <3>1, <3>2 DEF KillAll
  <2>3. CASE EnterSection BY <2>3, <2>1 DEF EnterSection, WalkFrom
  <2>4. CASE LetThemEnd
    <3>1. PICK left \in 0..kill.left : kill' = [kill EXCEPT !.left = left]
      BY <2>1, <2>4, ThreadQueueAssumption DEF LetThemEnd, TimeLeft
    <3>2. left \in 0..Sleeps BY <2>1, ThreadQueueAssumption
    <3> QED BY <2>1, <2>4, <3>1, <3>2 DEF LetThemEnd, EnterSection, AtItem
  <2>5. CASE AllEnded
    <3>1. kill' = [kill EXCEPT !.endless = FALSE, !.left = 0, !.item = 1, !.answer = TRUE] /\ ~EnterSection
      BY <2>5 DEF AllEnded, Answer, EnterSection
    <3>2. 0 \in 0..Sleeps BY ThreadQueueAssumption
    <3> QED BY <2>1, <3>1, <3>2
  <2> QED BY <2>2, <2>3, <2>4, <2>5
<1>7. cs' \in Actors \union {None}
  BY ActorsAreFinite DEF KillAll, EnterSection, LetThemEnd, AllEnded, Answer, TypeOK
<1>8. pc'[Main] = "walking" => kill'.item = 1
  BY <1>2, <1>5, <1>6
<1>9. TypeOK'
  <2>1. queue \in Seq(Threads) BY DEF TypeOK
  <2>2. 1 \in 1..(Len(queue) + 1) BY <2>1
  <2> QED BY <2>2, <1>1, <1>5, <1>6, <1>7, <1>8 DEF TypeOK
<1>10. WalkedHaveEnded'
  BY <1>8 DEF WalkedHaveEnded
<1>11. SectionOwned'
  <2>1. CASE KillAll(force, endless)
    BY <2>1, <1>2, <1>5 DEF KillAll, SectionOwned, PlacesOfMain, InKillAll, EnterSection
  <2>2. CASE EnterSection
    <3>1. cs = None /\ cs' = Main BY <2>2 DEF EnterSection
    <3>2. \A b \in Actors : pc[b] # "handing over"
      BY <3>1, ThreadQueueAssumption DEF SectionOwned, Actors
    <3> QED BY <3>1, <3>2, <1>5 DEF SectionOwned, PlacesOfMain, InKillAll
  <2>3. CASE LetThemEnd \/ AllEnded
    <3>1. pc[Main] = "walking" /\ ~EnterSection
      BY <2>3 DEF LetThemEnd, AllEnded, AtItem, EnterSection
    <3> QED BY <3>1, <1>2, <1>5, WalkerIsAlone DEF SectionOwned, PlacesOfMain, InKillAll
  <2> QED BY <2>1, <2>2, <2>3
<1> QED BY <1>4, <1>5, <1>9, <1>10, <1>11

LEMMA GiveUpKeeps == ASSUME Inv, GiveUp PROVE Inv'
<1> USE DEF Inv
<1> DEFINE S == {u \in Threads : locks[u] > 0 \/ Running(u)}
<1>1. /\ pc[Main] = "walking" /\ pc' = [pc EXCEPT ![Main] = "out"] /\ cs' = None
      /\ kill' = [kill EXCEPT !.endless = FALSE, !.left = 0, !.item = 1, !.answer = FALSE]
      /\ UNCHANGED <<locks, life, continue, arg, deleteIt, held>>
      /\ Shorten(Kept(queue, S))
  BY DEF GiveUp, AtItem, Answer, Goto, ClearFinishedThreads
<1>2. \A u \in Queued : u \notin S => ~Running(u) /\ locks[u] = 0
  <2> SUFFICES ASSUME NEW u \in Queued, u \notin S PROVE ~Running(u) /\ locks[u] = 0
    OBVIOUS
  <2>1. u \in Threads BY QueuedAreThreads
  <2>2. locks[u] \in Nat BY <2>1 DEF TypeOK
  <2> QED BY <2>1, <2>2
<1>3. \A u \in Threads : Running(u)' = Running(u)
  BY <1>1 DEF Running
<1>4. life' = life /\ life' \in [Threads -> {"unborn", "resumed", "running", "ended"}]
  BY <1>1 DEF TypeOK
<1> HIDE DEF S
<1>5. /\ queue' \in Seq(Threads) /\ IsInjective(queue')
      /\ handle' \in [Threads -> Handles \union {None}]
      /\ Queued' = Queued \cap S
      /\ \A u \in Queued' : handle'[u] = handle[u]
      /\ HandlesAreOpen' /\ RunningIsQueued'
  <2>1. \A u \in Queued : u \notin S => ~Running(u)'
    BY <1>2, <1>4 DEF Running
  <2> QED BY <2>1, <1>1, <1>3, <1>4, ShortenKeeps
<1>6. /\ HoldersKnown' /\ LocksCounted' /\ DeletesEndedOnly'
      /\ pc' \in [Actors -> {"out", "handing over", "waiting", "killing", "releasing"}
                            \union InKillAll]
      /\ pc'[Main] = "out" /\ \A b \in Actors : b # Main => pc'[b] = pc[b]
  <2>1. "out" \in PlacesOfMain /\ pc[Main] \in PlacesOfMain
    BY <1>1 DEF PlacesOfMain, InKillAll
  <2> QED BY <2>1, <1>1, <1>2, <1>3, <1>5, KillAllFrame
<1>7. kill' \in [force : BOOLEAN, endless : BOOLEAN, left : 0..Sleeps, item : Nat, answer : BOOLEAN]
  <2>1. 0 \in 0..Sleeps BY ThreadQueueAssumption
  <2>2. kill \in [force : BOOLEAN, endless : BOOLEAN, left : 0..Sleeps, item : Nat, answer : BOOLEAN] BY DEF TypeOK
  <2> QED BY <2>1, <2>2, <1>1
<1>8. TypeOK'
  BY <1>1, <1>4, <1>5, <1>6, <1>7 DEF TypeOK
<1>9. SectionOwned' /\ WalkedHaveEnded'
  BY <1>1, <1>6, WalkerIsAlone DEF SectionOwned, WalkedHaveEnded
<1> QED BY <1>5, <1>6, <1>8, <1>9

\* the item at the position is deleted, or passed if somebody has it locked
LEMMA DeleteKeeps ==
    ASSUME Inv, pc[Main] = "walking", kill.item <= Len(queue),
           NEW t \in Threads, t = queue[kill.item], Delete(t),
           NEW place \in {"walking", "sleeping"}, pc' = [pc EXCEPT ![Main] = place],
           cs' = IF place = "walking" THEN cs ELSE None,
           UNCHANGED <<locks, continue, arg, deleteIt, held>>,
           life' \in [Threads -> {"unborn", "resumed", "running", "ended"}],
           \A u \in Threads : /\ Running(u)' => Running(u)
                              /\ life'[u] = "unborn" => life[u] = "unborn",
           life'[t] \notin {"resumed", "running"}
    PROVE  Inv'
<1> USE DEF Inv
<1> DEFINE S == IF locks[t] = 0 THEN Threads \ {t} ELSE Threads
<1>1. queue \in Seq(Threads) /\ IsInjective(queue) /\ Len(queue) \in Nat
      /\ kill.item \in 1..Len(queue)
  <2>1. queue \in Seq(Threads) /\ IsInjective(queue) /\ kill.item \in 1..(Len(queue) + 1)
    BY DEF TypeOK
  <2>2. Len(queue) \in Nat BY <2>1
  <2> QED BY <2>1, <2>2
<1>2. /\ queue' \in Seq(Threads) /\ IsInjective(queue')
      /\ handle' \in [Threads -> Handles \union {None}]
      /\ Queued' = Queued \cap S
      /\ \A u \in Queued' : handle'[u] = handle[u]
      /\ HandlesAreOpen' /\ RunningIsQueued'
  <2>1. CASE locks[t] = 0
    <3>1. Shorten(Kept(queue, S)) BY <2>1 DEF Delete, Without
    <3>2. \A u \in Queued : u \notin S => ~Running(u)'
      <4>1. \A u \in Queued : u \notin S => u = t BY QueuedAreThreads, <2>1
      <4> QED BY <4>1 DEF Running
    <3> HIDE DEF S
    <3> QED BY <3>1, <3>2, ShortenKeeps
  <2>2. CASE locks[t] # 0
    <3>1. UNCHANGED <<queue, handle>> BY <2>2 DEF Delete
    <3>2. Queued' = Queued /\ Queued = Queued \cap S
      BY <3>1, <2>2, QueuedAreThreads DEF Queued
    <3>3. HandlesAreOpen' BY <3>1, <3>2 DEF HandlesAreOpen
    <3>4. RunningIsQueued' BY <3>2 DEF RunningIsQueued
    <3> HIDE DEF S
    <3> QED BY <3>1, <3>2, <3>3, <3>4, <1>1 DEF TypeOK
  <2> QED BY <2>1, <2>2
<1>3. /\ HoldersKnown' /\ LocksCounted' /\ DeletesEndedOnly'
      /\ pc' \in [Actors -> {"out", "handing over", "waiting", "killing", "releasing"}
                            \union InKillAll]
      /\ pc'[Main] = place /\ \A b \in Actors : b # Main => pc'[b] = pc[b]
  <2>1. place \in PlacesOfMain /\ pc[Main] \in PlacesOfMain
    BY DEF PlacesOfMain, InKillAll
  <2>2. \A u \in Queued : u \notin S => locks[u] = 0
    BY QueuedAreThreads
  <2> HIDE DEF S
  <2> QED BY <2>1, <2>2, <1>2, KillAllFrame
\* the items behind the walk stay where they are; the one at the position is
\* gone or has ended
<1>4. /\ kill' \in [force : BOOLEAN, endless : BOOLEAN, left : 0..Sleeps, item : Nat, answer : BOOLEAN]
      /\ kill'.item \in 1..(Len(queue') + 1)
      /\ \A i \in 1..(kill'.item - 1) :
            /\ queue'[i] = queue[i] /\ queue[i] \in Threads
            /\ i \in 1..(kill.item - 1) \/ queue[i] = t
  <2>0. kill \in [force : BOOLEAN, endless : BOOLEAN, left : 0..Sleeps, item : Nat, answer : BOOLEAN] BY DEF TypeOK
  <2>1. CASE locks[t] = 0
    <3> DEFINE p == kill.item - 1
    <3>1. queue' = Kept(queue, S) /\ kill' = kill BY <2>1 DEF Delete, Without, Shorten
    <3>2. p \in 0..Len(queue) /\ p \in Nat BY <1>1
    <3>3. \A k \in 1..p : k \in 1..Len(queue) /\ k # kill.item BY <1>1
    <3>4. \A k \in 1..p : queue[k] \in Threads /\ queue[k] # t
      BY <3>3, <1>1 DEF IsInjective
    <3>5. \A k \in 1..p : queue[k] \in S BY <3>4, <2>1
    <3> HIDE DEF S, p
    <3>6. Len(queue') >= p /\ \A k \in 1..p : queue'[k] = queue[k]
      BY <3>1, <3>2, <3>5, <1>1, KeptPrefix
    <3>7. Len(queue') \in Nat BY <1>2
    <3>8. kill.item \in 1..(Len(queue') + 1)
      BY <3>6, <3>7, <3>2, <1>1 DEF p
    <3> QED BY <2>0, <3>1, <3>4, <3>6, <3>8 DEF p
  <2>2. CASE locks[t] # 0
    <3>1. queue' = queue /\ kill' = [kill EXCEPT !.item = @ + 1] BY <2>2 DEF Delete
    <3>2. kill'.item = kill.item + 1
          /\ kill' \in [force : BOOLEAN, endless : BOOLEAN, left : 0..Sleeps, item : Nat, answer : BOOLEAN]
      BY <2>0, <3>1
    <3>3. \A i \in 1..kill.item : i \in 1..Len(queue) /\ (i \in 1..(kill.item - 1) \/ i = kill.item)
      BY <1>1
    <3>4. \A i \in 1..Len(queue) : queue[i] \in Threads BY <1>1
    <3>5. (kill.item + 1) - 1 = kill.item BY <1>1
    <3>6. kill'.item \in 1..(Len(queue') + 1) BY <3>1, <3>2, <1>1
    <3> QED BY <3>1, <3>2, <3>3, <3>4, <3>5, <3>6
  <2> QED BY <2>1, <2>2
<1>5. WalkedHaveEnded'
  <2>1. \A i \in 1..(kill.item - 1) : ~Running(queue[i]) BY DEF WalkedHaveEnded
  <2>2. \A i \in 1..(kill'.item - 1) : life'[queue'[i]] \notin {"resumed", "running"}
    <3> TAKE i \in 1..(kill'.item - 1)
    <3>1. CASE queue[i] = t BY <3>1, <1>4
    <3>2. CASE i \in 1..(kill.item - 1)
      BY <3>2, <2>1, <1>4 DEF Running
    <3> QED BY <3>1, <3>2, <1>4
  <2> QED BY <2>2 DEF WalkedHaveEnded, Running
<1>6. cs = Main /\ \A b \in Actors : pc[b] # "handing over"
  BY WalkerIsAlone
<1>7. TypeOK'
  BY <1>2, <1>3, <1>4, <1>6, ActorsAreFinite DEF TypeOK
<1>8. SectionOwned'
  BY <1>3, <1>6 DEF SectionOwned
<1> QED BY <1>2, <1>3, <1>5, <1>7, <1>8

LEMMA KillItemKeeps == ASSUME Inv, KillItem PROVE Inv'
<1> DEFINE t == queue[kill.item]
<1>1. /\ pc[Main] = "walking" /\ kill.item <= Len(queue)
      /\ life' = [life EXCEPT ![t] = "ended"] /\ Delete(t)
      /\ UNCHANGED <<locks, continue, arg, deleteIt, held>>
      /\ IF LetsOthersIn(t) THEN cs' = None /\ Goto(Main, "sleeping") ELSE UNCHANGED <<cs, pc>>
  BY DEF KillItem, AtItem
<1>2. TypeOK BY DEF Inv
<1>3. t \in Threads
  <2>1. queue \in Seq(Threads) /\ kill.item \in 1..(Len(queue) + 1) BY <1>1, <1>2 DEF TypeOK
  <2>2. Len(queue) \in Nat BY <2>1
  <2>3. kill.item \in 1..Len(queue) BY <2>1, <2>2, <1>1
  <2> QED BY <2>1, <2>3
<1>4. PICK place \in {"walking", "sleeping"} :
          /\ pc' = [pc EXCEPT ![Main] = place]
          /\ cs' = IF place = "walking" THEN cs ELSE None
  <2>1. pc = [pc EXCEPT ![Main] = "walking"] BY <1>1, <1>2 DEF TypeOK
  <2>2. "walking" # "sleeping" OBVIOUS
  <2> QED BY <2>1, <2>2, <1>1 DEF Goto
<1>5. /\ life' \in [Threads -> {"unborn", "resumed", "running", "ended"}]
      /\ \A u \in Threads : /\ Running(u)' => Running(u)
                            /\ life'[u] = "unborn" => life[u] = "unborn"
      /\ life'[t] = "ended"
  BY <1>1, <1>2, <1>3 DEF TypeOK, Running
<1>6. PICK s : s = t OBVIOUS
<1> HIDE DEF t
<1>7. s = queue[kill.item] /\ life'[s] \notin {"resumed", "running"} /\ Delete(s) /\ s \in Threads
  BY <1>6, <1>5, <1>1, <1>3 DEF t
<1> QED BY <1>1, <1>4, <1>5, <1>7, DeleteKeeps

LEMMA PassItemKeeps == ASSUME Inv, PassItem PROVE Inv'
<1>1. PICK t : t = queue[kill.item] OBVIOUS
<1>2. /\ pc[Main] = "walking" /\ kill.item <= Len(queue) /\ ~Running(t) /\ Delete(t)
      /\ UNCHANGED <<locks, life, cs, continue, pc, arg, deleteIt, held>>
  BY <1>1 DEF PassItem, AtItem
<1>3. TypeOK BY DEF Inv
<1>4. t \in Threads
  <2>1. queue \in Seq(Threads) /\ kill.item \in 1..(Len(queue) + 1) BY <1>2, <1>3 DEF TypeOK
  <2>2. Len(queue) \in Nat BY <2>1
  <2>3. kill.item \in 1..Len(queue) BY <2>1, <2>2, <1>2
  <2> QED BY <2>1, <2>3, <1>1
<1>5. pc' = [pc EXCEPT ![Main] = "walking"] BY <1>2, <1>3 DEF TypeOK
<1>6. /\ life' \in [Threads -> {"unborn", "resumed", "running", "ended"}]
      /\ \A u \in Threads : /\ Running(u)' => Running(u)
                            /\ life'[u] = "unborn" => life[u] = "unborn"
      /\ life'[t] \notin {"resumed", "running"}
  BY <1>2, <1>3, <1>4 DEF TypeOK, Running
<1> QED BY <1>1, <1>2, <1>4, <1>5, <1>6, DeleteKeeps

-----------------------------------------------------------------------------
(* The theorems *)

LEMMA NextKeepsInv == Inv /\ [Next]_vars => Inv'
<1> SUFFICES ASSUME Inv, [Next]_vars PROVE Inv'
  OBVIOUS
<1>1. CASE UNCHANGED vars
  <2>1. UNCHANGED <<queue, handle, locks, life, cs, continue, pc, arg, deleteIt, held, kill>>
    BY <1>1 DEF vars
  <2>2. Queued' = Queued /\ \A t : Holders(t)' = Holders(t) BY <2>1 DEF Queued, Holders
  <2> QED BY <2>1, <2>2 DEF Inv, TypeOK, HandlesAreOpen, RunningIsQueued, HoldersKnown,
       LocksCounted, DeletesEndedOnly, SectionOwned, WalkedHaveEnded, Running
<1>2. ASSUME NEW a \in Actors, NEW t \in Threads, StartThread(a, t) PROVE Inv'
  BY <1>2, StartThreadKeeps
<1>3. ASSUME NEW a \in Actors, WaitForExit(a) \/ KillThread(a) PROVE Inv'
  BY <1>3, FindAndLockItemKeeps DEF WaitForExit, KillThread
<1>4. ASSUME NEW a \in Actors, WaitTimesOut(a) \/ MethodStep(a) PROVE Inv'
  BY <1>4, ReleaseKeeps, StartThreadReturnsKeeps, UnlockItemKeeps DEF MethodStep
<1>5. ASSUME NEW t \in Threads, ThreadBase(t) \/ ThreadEnds(t) PROVE Inv'
  BY <1>5, ThreadKeeps
<1>6. ASSUME NEW force \in BOOLEAN, NEW endless \in BOOLEAN, KillAll(force, endless) PROVE Inv'
  BY <1>6, KillAllStarts
<1>7. CASE KillAllStep
  <2>1. TRUE \in BOOLEAN OBVIOUS
  <2> QED BY <1>7, <2>1, KillAllStarts, GiveUpKeeps, KillItemKeeps, PassItemKeeps DEF KillAllStep
<1> QED BY <1>1, <1>2, <1>3, <1>4, <1>5, <1>6, <1>7 DEF Next

\* what TypeOK says of the variables, in every reachable state
THEOREM TypeCorrect == Spec => []TypeOK
<1>1. Inv => TypeOK BY DEF Inv
<1> QED BY <1>1, InitInv, NextKeepsInv, PTL DEF Spec

\* whoever has locked an item of the list, by FindAndLockItem, finds in its
\* handle the thread it found, whatever StartThread, UnlockItem and KillAll do
THEOREM LocksProtect == Spec => []LockedHandleIsKept
<1>1. Inv => LockedHandleIsKept
  BY ItemIsHeld DEF Inv, LockedHandleIsKept
<1> QED BY <1>1, InitInv, NextKeepsInv, PTL DEF Spec

\* KillAll answers TRUE only when the last thread has ended: the items it has
\* passed have ended, it has passed all, and no thread runs that has no item
THEOREM UnloadingIsSafeAlways == Spec => UnloadingIsSafe
<1> DEFINE A == kill'.answer /\ ~kill.answer => \A t \in Threads : ~Running(t)'
<1>1. Inv /\ [Next]_vars => [A]_vars
  <2> SUFFICES ASSUME Inv, Next, kill'.answer, ~kill.answer, NEW t \in Threads
               PROVE  ~Running(t)'
    BY DEF A
  <2>1. AllEnded
    <3>1. kill \in [force : BOOLEAN, endless : BOOLEAN, left : 0..Sleeps, item : Nat, answer : BOOLEAN]
      BY DEF Inv, TypeOK
    <3>2. ASSUME NEW a \in Actors, NEW u \in Threads, StartThread(a, u) PROVE FALSE
      BY <3>2 DEF StartThread
    <3>3. ASSUME NEW a \in Actors, WaitForExit(a) \/ KillThread(a) PROVE FALSE
      BY <3>3 DEF WaitForExit, KillThread, FindAndLockItem
    <3>4. ASSUME NEW a \in Actors, WaitTimesOut(a) \/ MethodStep(a) PROVE FALSE
      BY <3>4 DEF WaitTimesOut, MethodStep, WaitIsOver, Terminate, UnlockItem, StartThreadReturns,
         Release
    <3>5. ASSUME NEW u \in Threads, ThreadBase(u) \/ ThreadEnds(u) PROVE FALSE
      BY <3>5 DEF ThreadBase, ThreadEnds
    <3>6. ASSUME NEW force \in BOOLEAN, NEW endless \in BOOLEAN, KillAll(force, endless) PROVE FALSE
      BY <3>6 DEF KillAll
    <3>7. CASE KillAllStep
      BY <3>7, <3>1 DEF KillAllStep, EnterSection, LetThemEnd, GiveUp, KillItem, PassItem,
         Answer, Delete
    <3> QED BY <3>2, <3>3, <3>4, <3>5, <3>6, <3>7 DEF Next
  <2>2. pc[Main] = "walking" /\ kill.item > Len(queue) /\ life' = life
    BY <2>1 DEF AllEnded
  <2>3. queue \in Seq(Threads) /\ kill.item \in Nat BY DEF Inv, TypeOK
  <2>4. \A i \in 1..Len(queue) : i \in 1..(kill.item - 1) BY <2>2, <2>3
  <2>5. \A u \in Queued : ~Running(u)
    BY <2>2, <2>3, <2>4 DEF Inv, WalkedHaveEnded, Queued, ToSet
  <2>6. ~Running(t) BY <2>5 DEF Inv, RunningIsQueued
  <2> QED BY <2>2, <2>6 DEF Running
<1>2. Spec => [][A]_vars
  BY <1>1, InitInv, NextKeepsInv, PTL DEF Spec
<1> QED BY <1>2 DEF UnloadingIsSafe
=============================================================================
