--------------------------- MODULE ConvertProofs ---------------------------
(***************************************************************************)
(* Convert and SafeReplace, for every file, every size of the buffer and   *)
(* any number of steps of other programs: the conversion written block by  *)
(* block is the conversion of the file as a whole, the target is never     *)
(* part of a file, nothing is lost wherever the program dies, and the      *)
(* answer of SalReplaceWithTempW is true.  The parts: induction over the   *)
(* numbers (from well-founded minima), what Kept gives for two pieces,     *)
(* multiples of BlockSize, the conversion, and one lemma for each step.    *)
(***************************************************************************)
EXTENDS Convert, WellFoundedInduction, TLAPS

-----------------------------------------------------------------------------
(* Induction *)

\* every set of natural numbers that has an element has a least one
LEMMA LeastElement ==
    ASSUME NEW T, T \subseteq Nat, T # {}
    PROVE  \E x \in T : \A y \in T : x <= y
<1> DEFINE R == {ss \in Nat \X Nat : ss[1] < ss[2]}
<1>1. IsWellFoundedOn(R, Nat)
  BY NatLessThanWellFounded DEF OpToRel
<1> HIDE DEF R
<1>2. PICK x \in T : \A y \in T : <<y, x>> \notin R
  BY <1>1, WFMin
<1>3. ASSUME NEW y \in T PROVE x <= y
  <2>1. <<y, x>> \notin R /\ y \in Nat /\ x \in Nat
    BY <1>2
  <2>2. ~(y < x)
    BY <2>1 DEF R
  <2> QED BY <2>1, <2>2
<1> QED BY <1>3

\* what holds of 0 and of the successor of each i it holds of, holds up to n
LEMMA SetInduction ==
    ASSUME NEW n \in Nat, NEW T, 0 \in T,
           \A i \in 0..n : i \in T /\ i # n => i + 1 \in T
    PROVE  0..n \subseteq T
<1> SUFFICES ASSUME ~(0..n \subseteq T) PROVE FALSE
  OBVIOUS
<1> DEFINE U == (0..n) \ T
<1>1. PICK x \in U : \A y \in U : x <= y
  <2>1. U \subseteq Nat /\ U # {}
    OBVIOUS
  <2> HIDE DEF U
  <2> QED BY <2>1, LeastElement
<1>2. x # 0 /\ x - 1 \in 0..n /\ x - 1 # n /\ ~(x <= x - 1)
  BY <1>1
<1>3. x - 1 \in T
  BY <1>1, <1>2
<1>4. (x - 1) + 1 \in T
  BY <1>2, <1>3
<1>5. (x - 1) + 1 = x
  BY <1>1
<1> QED BY <1>1, <1>4, <1>5

\* a function may be defined by its first value and a step from each to the next
LEMMA RecursionExists ==
    ASSUME NEW V, NEW v \in V, NEW n \in Nat, NEW step \in [1..n -> [V -> V]]
    PROVE  \E f \in [0..n -> V] : f[0] = v /\ \A i \in 1..n : f[i] = step[i][f[i - 1]]
<1> DEFINE Good(m) == \E f \in [0..m -> V] : f[0] = v /\ \A i \in 1..m : f[i] = step[i][f[i - 1]]
<1> DEFINE T == {m \in 0..n : Good(m)}
<1>1. 0 \in T
  <2> DEFINE f == [i \in 0..0 |-> v]
  <2>1. f \in [0..0 -> V] /\ f[0] = v /\ \A i \in 1..0 : f[i] = step[i][f[i - 1]]
    OBVIOUS
  <2> HIDE DEF f
  <2>2. Good(0) BY <2>1
  <2> QED BY <2>2
<1>2. ASSUME NEW m \in 0..n, m \in T, m # n PROVE m + 1 \in T
  <2>1. PICK f \in [0..m -> V] : f[0] = v /\ \A i \in 1..m : f[i] = step[i][f[i - 1]]
    BY <1>2
  <2> DEFINE g == [i \in 0..(m + 1) |-> IF i = m + 1 THEN step[i][f[m]] ELSE f[i]]
  <2>2. f[m] \in V /\ m + 1 \in 1..n
    BY <2>1, <1>2
  <2>3. g \in [0..(m + 1) -> V]
    <3>1. step[m + 1][f[m]] \in V
      BY <2>2
    <3> QED BY <3>1, <2>1
  <2>4. g[0] = v
    BY <2>1
  <2>5. ASSUME NEW i \in 1..(m + 1) PROVE g[i] = step[i][g[i - 1]]
    BY <2>1
  <2> HIDE DEF g
  <2>6. Good(m + 1)
    BY <2>3, <2>4, <2>5
  <2> QED BY <2>6, <2>2
<1>3. 0..n \subseteq T
  <2> HIDE DEF T
  <2> QED BY <1>1, <1>2, SetInduction
<1> QED BY <1>3

-----------------------------------------------------------------------------
(* Kept *)

\* f[i] is what is kept of the first i elements
KeepsStepwise(f, q, S, V) ==
    /\ f \in [0..Len(q) -> Seq(V)] /\ Kept(q, S) = f[Len(q)]
    /\ f[0] = <<>>
    /\ \A i \in 1..Len(q) :
          f[i] = IF q[i] \in S THEN Append(f[i - 1], q[i]) ELSE f[i - 1]

\* the definition of Kept defines something, and by sequences over V
LEMMA KeptIsRecursive ==
    ASSUME NEW V, NEW q \in Seq(V), NEW S
    PROVE  \E f : KeepsStepwise(f, q, S, V)
<1> DEFINE n == Len(q)
           Step == [i \in 1..n |-> [s \in Seq(V) |->
                       IF q[i] \in S THEN Append(s, q[i]) ELSE s]]
           Fits(g) == g = [i \in 0..n |->
                        IF i = 0 THEN <<>>
                        ELSE IF q[i] \in S THEN Append(g[i - 1], q[i]) ELSE g[i - 1]]
           c == CHOOSE g : Fits(g)
<1>1. n \in Nat /\ <<>> \in Seq(V)
  OBVIOUS
<1>2. Step \in [1..n -> [Seq(V) -> Seq(V)]]
  <2>1. \A i \in 1..n : q[i] \in V
    OBVIOUS
  <2>2. \A i \in 1..n, s \in Seq(V) : Append(s, q[i]) \in Seq(V)
    BY <2>1
  <2> QED BY <2>2
<1>3. PICK f \in [0..n -> Seq(V)] : f[0] = <<>> /\ \A i \in 1..n : f[i] = Step[i][f[i - 1]]
  <2> DEFINE W == Seq(V)
             e == <<>>
  <2>1. n \in Nat /\ e \in W /\ Step \in [1..n -> [W -> W]]
    BY <1>1, <1>2
  <2> HIDE DEF Step, n, W, e
  <2>2. \E f \in [0..n -> W] : f[0] = e /\ \A i \in 1..n : f[i] = Step[i][f[i - 1]]
    BY <2>1, RecursionExists
  <2> USE DEF W, e
  <2> QED BY <2>2
<1>4. \A i \in 1..n : i - 1 \in 0..n /\ f[i - 1] \in Seq(V)
  BY <1>3, <1>1
<1>5. \A i \in 1..n : f[i] = IF q[i] \in S THEN Append(f[i - 1], q[i]) ELSE f[i - 1]
  BY <1>3, <1>4
<1>6. Fits(f)
  <2>1. ASSUME NEW i \in 0..n
        PROVE  f[i] = IF i = 0 THEN <<>>
                      ELSE IF q[i] \in S THEN Append(f[i - 1], q[i]) ELSE f[i - 1]
    <3>1. CASE i = 0 BY <3>1, <1>3
    <3>2. CASE i # 0
      <4>1. i \in 1..n BY <3>2, <1>1
      <4> QED BY <4>1, <3>2, <1>5
    <3> QED BY <3>1, <3>2
  <2> QED BY <2>1
<1>7. Fits(c)
  BY <1>6
<1>8. Kept(q, S) = c[n]
  BY DEF Kept
<1>9. DOMAIN c = 0..n /\ c[0] = <<>>
      /\ \A i \in 1..n : c[i] = IF q[i] \in S THEN Append(c[i - 1], q[i]) ELSE c[i - 1]
  <2> HIDE DEF c
  <2>1. DOMAIN c = 0..n /\ \A i \in 0..n : c[i] =
                        IF i = 0 THEN <<>>
                        ELSE IF q[i] \in S THEN Append(c[i - 1], q[i]) ELSE c[i - 1]
    BY <1>7
  <2>2. 0 \in 0..n /\ \A i \in 1..n : i \in 0..n /\ i # 0
    BY <1>1
  <2> HIDE DEF n
  <2> QED BY <2>1, <2>2
<1>10. c \in [0..n -> Seq(V)]
  <2> HIDE DEF c
  <2> DEFINE T == {i \in 0..n : c[i] \in Seq(V)}
  <2>1. 0 \in T
    <3> DEFINE e == <<>>
               W == Seq(V)
    <3>1. c[0] = e /\ e \in W /\ 0 \in 0..n
      BY <1>9, <1>1
    <3> HIDE DEF e, n
    <3> QED BY <3>1
  <2>2. ASSUME NEW i \in 0..n, i \in T, i # n PROVE i + 1 \in T
    <3>1. i + 1 \in 1..n /\ (i + 1) - 1 = i
      BY <2>2, <1>1
    <3>2. q[i + 1] \in V
      BY <3>1
    <3>3. c[i + 1] = IF q[i + 1] \in S THEN Append(c[i], q[i + 1]) ELSE c[i]
      <4>1. \A k \in 1..n : c[k] = IF q[k] \in S THEN Append(c[k - 1], q[k]) ELSE c[k - 1]
        BY <1>9
      <4> HIDE DEF n
      <4> QED BY <4>1, <3>1
    <3>4. c[i + 1] \in Seq(V)
      BY <3>3, <3>2, <2>2
    <3> QED BY <3>4, <3>1
  <2>3. 0..n \subseteq T
    <3> HIDE DEF T, n
    <3> QED BY <2>1, <2>2, <1>1, SetInduction
  <2>4. c = [i \in 0..n |-> c[i]]
    BY <1>7
  <2> QED BY <2>3, <2>4, <1>9
<1> HIDE DEF c
<1>11. KeepsStepwise(c, q, S, V)
  BY <1>8, <1>9, <1>10 DEF KeepsStepwise
<1> QED BY <1>11

\* two sequences of V with the same elements at the same places are the same
LEMMA SameSequence ==
    ASSUME NEW V, NEW s \in Seq(V), NEW t \in Seq(V), Len(s) = Len(t),
           \A i \in 1..Len(s) : s[i] = t[i]
    PROVE  s = t
OBVIOUS

\* stated as a predicate: with \o and Append in a hypothesis the prover is lost
AppendsLast(a, b, x) == Append(a \o b, x) = a \o Append(b, x)

LEMMA AppendConcat ==
    ASSUME NEW V, NEW a \in Seq(V), NEW b \in Seq(V), NEW x \in V
    PROVE  AppendsLast(a, b, x)
BY DEF AppendsLast

\* what is kept of two pieces is what is kept of each
LEMMA KeptConcat ==
    ASSUME NEW V, NEW s \in Seq(V), NEW t \in Seq(V), NEW S
    PROVE  Kept(s \o t, S) = Kept(s, S) \o Kept(t, S)
<1> DEFINE w == s \o t
           n == Len(s)
           m == Len(t)
<1>1. /\ w \in Seq(V) /\ Len(w) = n + m /\ n \in Nat /\ m \in Nat
      /\ \A i \in 1..n : w[i] = s[i]
      /\ \A i \in 1..m : w[n + i] = t[i] /\ t[i] \in V
  OBVIOUS
<1>2. n = Len(s) /\ m = Len(t)
  OBVIOUS
<1> HIDE DEF w, n, m
<1>3. PICK f : KeepsStepwise(f, w, S, V)
  BY <1>1, KeptIsRecursive
<1>4. PICK g : KeepsStepwise(g, s, S, V)
  BY KeptIsRecursive
<1>5. PICK h : KeepsStepwise(h, t, S, V)
  BY KeptIsRecursive
<1>6. /\ f \in [0..(n + m) -> Seq(V)] /\ Kept(w, S) = f[n + m] /\ f[0] = <<>>
      /\ \A i \in 1..(n + m) :
            f[i] = IF w[i] \in S THEN Append(f[i - 1], w[i]) ELSE f[i - 1]
  BY <1>3, <1>1 DEF KeepsStepwise
<1>7. /\ g \in [0..n -> Seq(V)] /\ Kept(s, S) = g[n] /\ g[0] = <<>>
      /\ \A i \in 1..n : g[i] = IF s[i] \in S THEN Append(g[i - 1], s[i]) ELSE g[i - 1]
  BY <1>4, <1>2 DEF KeepsStepwise
<1>8. /\ h \in [0..m -> Seq(V)] /\ Kept(t, S) = h[m] /\ h[0] = <<>>
      /\ \A i \in 1..m : h[i] = IF t[i] \in S THEN Append(h[i - 1], t[i]) ELSE h[i - 1]
  BY <1>5, <1>2 DEF KeepsStepwise
<1>9. f[n] = g[n]
  <2> DEFINE T == {i \in 0..n : f[i] = g[i]}
  <2>1. 0 \in T BY <1>1, <1>6, <1>7
  <2>2. ASSUME NEW i \in 0..n, i \in T, i # n PROVE i + 1 \in T
    <3> DEFINE j == i + 1
    <3>1. j \in 1..n /\ j \in 1..(n + m) /\ j \in 0..n /\ j - 1 = i BY <2>2, <1>1
    <3> HIDE DEF j
    <3>2. f[j] = (IF w[j] \in S THEN Append(f[i], w[j]) ELSE f[i]) BY <3>1, <1>6
    <3>3. g[j] = (IF s[j] \in S THEN Append(g[i], s[j]) ELSE g[i]) BY <3>1, <1>7
    <3>4. w[j] = s[j] /\ f[i] = g[i] BY <3>1, <1>1, <2>2
    <3>5. f[j] = g[j] BY <3>2, <3>3, <3>4
    <3> QED BY <3>1, <3>5 DEF j
  <2> HIDE DEF T
  <2>3. 0..n \subseteq T BY <2>1, <2>2, <1>1, SetInduction
  <2>4. n \in T BY <2>3, <1>1
  <2> QED BY <2>4 DEF T
<1>10. f[n + m] = g[n] \o h[m]
  <2> DEFINE a == g[n]
             T == {i \in 0..m : f[n + i] = a \o h[i]}
  <2>0. a \in Seq(V) BY <1>7, <1>1
  <2> HIDE DEF a
  <2>1. 0 \in T
    <3>1. a \o <<>> = a BY <2>0
    <3>2. n + 0 = n BY <1>1
    <3>3. f[n] = a BY <1>9 DEF a
    <3> DEFINE e == <<>>
    <3>4. a \o e = a /\ h[0] = e BY <3>1, <1>8
    <3> HIDE DEF e
    <3>5. f[n + 0] = a \o h[0] BY <3>2, <3>3, <3>4
    <3> QED BY <3>5, <1>1
  <2>2. ASSUME NEW i \in 0..m, i \in T, i # m PROVE i + 1 \in T
    <3> DEFINE j == i + 1
               k == n + j
    <3>1. j \in 1..m /\ j \in 0..m /\ j - 1 = i /\ k \in 1..(n + m) /\ k - 1 = n + i
      BY <2>2, <1>1
    <3>2. w[k] = t[j] /\ t[j] \in V BY <3>1, <1>1
    <3> DEFINE x == t[j]
               b == h[i]
    <3>3. x \in V /\ b \in Seq(V) BY <3>1, <3>2, <1>8
    <3>4. f[k] = IF w[k] \in S THEN Append(f[k - 1], w[k]) ELSE f[k - 1]
      BY <3>1, <1>6
    <3>5. f[k - 1] = a \o b
      <4> HIDE DEF k, j
      <4>1. f[n + i] = a \o b BY <2>2
      <4> QED BY <3>1, <4>1
    <3>6. h[j] = IF x \in S THEN Append(b, x) ELSE b
      <4> HIDE DEF k, j
      <4>1. h[j] = IF t[j] \in S THEN Append(h[j - 1], t[j]) ELSE h[j - 1] BY <3>1, <1>8
      <4> QED BY <3>1, <4>1
    <3>7. w[k] = x BY <3>2
    <3> HIDE DEF x, b, k, j
    <3>8. Append(a \o b, x) = a \o Append(b, x)
      <4>1. AppendsLast(a, b, x) BY <2>0, <3>3, AppendConcat
      <4> QED BY <4>1 DEF AppendsLast
    <3>9. f[k] = a \o h[j] BY <3>4, <3>5, <3>6, <3>7, <3>8
    <3> QED BY <3>9, <3>1 DEF k, j
  <2> HIDE DEF T
  <2>3. 0..m \subseteq T BY <2>1, <2>2, <1>1, SetInduction
  <2>4. m \in T BY <2>3, <1>1
  <2> QED BY <2>4 DEF T, a
<1> QED BY <1>6, <1>7, <1>8, <1>10 DEF w

-----------------------------------------------------------------------------
(* Multiples of the size of a block *)

\* between -b and b there is one multiple of b
LEMMA DivUnique == ASSUME NEW b \in Nat \ {0}, NEW x \in Int, b * x < b, -b < b * x PROVE x = 0
<1>1. CASE x >= 1
  <2>1. b * x >= b BY <1>1
  <2> QED BY <2>1
<1>2. CASE x <= -1
  <2>1. b * x <= -b BY <1>2
  <2> QED BY <2>1
<1> QED BY <1>1, <1>2

LEMMA ModOfMultiple == ASSUME NEW b \in Nat \ {0}, NEW k \in Nat PROVE (b * k) % b = 0
OBVIOUS

LEMMA Quotient == ASSUME NEW b \in Nat \ {0}, NEW n \in Nat
  PROVE n \div b \in Nat /\ n % b \in 0..(b - 1) /\ n = b * (n \div b) + (n % b)
<1>1. n % b \in 0..(b - 1) OBVIOUS
<1>2. n = b * (n \div b) + (n % b) OBVIOUS
<1>3. n \div b \in Int OBVIOUS
<1>4. n \div b >= 0
  <2> SUFFICES ASSUME n \div b <= -1 PROVE FALSE BY <1>3
  <2>1. b * (n \div b) <= -b BY <1>3
  <2> QED BY <2>1, <1>1, <1>2
<1> QED BY <1>1, <1>2, <1>3, <1>4

\* the next block begins a block further on
LEMMA NextMultiple == ASSUME NEW b \in Nat \ {0}, NEW n \in Nat, n % b = 0 PROVE (n + b) % b = 0
<1>1. n \div b \in Nat /\ n = b * (n \div b) BY Quotient
<1>2. n + b = b * (n \div b + 1) BY <1>1
<1>3. n \div b + 1 \in Nat BY <1>1
<1> QED BY <1>2, <1>3, ModOfMultiple

\* and its first character is the first of a block
LEMMA AfterMultiple == ASSUME NEW b \in Nat \ {0}, NEW n \in Nat, n % b = 0 PROVE (n + 1) % b = 1 % b
<1>0. n \div b \in Nat /\ n = b * (n \div b) BY Quotient
<1>1. PICK q \in Nat : n = b * q BY <1>0
<1>2. PICK q1 \in Nat, r \in 0..(b-1) : r = (n + 1) % b /\ n + 1 = b * q1 + r
  <2>1. PICK m \in Nat : m = n + 1 OBVIOUS
  <2>2. m \div b \in Nat /\ m % b \in 0..(b - 1) /\ m = b * (m \div b) + (m % b) BY Quotient
  <2> QED BY <2>1, <2>2
<1>3. PICK q2 \in Nat, s \in 0..(b-1) : s = 1 % b /\ 1 = b * q2 + s
  <2>1. 1 \in Nat OBVIOUS
  <2> QED BY <2>1, Quotient
<1>4. PICK x \in Int : x = (q1 - q) - q2 OBVIOUS
<1>5. b * x = s - r
  <2>1. b * x = b * q1 - b * q - b * q2
    <3>1. \A u, v, w \in Int : b * ((u - v) - w) = b * u - b * v - b * w OBVIOUS
    <3> QED BY <3>1, <1>4
  <2> QED BY <2>1, <1>1, <1>2, <1>3
<1>6. b * x < b /\ -b < b * x BY <1>5
<1>7. x = 0 BY <1>6, DivUnique
<1>8. b * x = 0 BY <1>7
<1>9. s = r BY <1>5, <1>8
<1> QED BY <1>2, <1>3, <1>9

-----------------------------------------------------------------------------
(* The inductive invariant *)

\* what is written of the whole file, and of its first n characters
Outs == [i \in DOMAIN source |->
           OutOf(source[i], source[i] = "lf" /\ i > 1 /\ source[i-1] = "cr")]
OutputOf(n) == Kept(SubSeq(Outs, 1, n), Emitted)

SourceOK ==
    /\ source \in Seq(Letters) /\ convertEnds \in BOOLEAN
    /\ caller \in {"convert", "export"}
    /\ pc = "write" => caller = "convert"
    /\ pc = "move" => caller = "convert" /\ existed

\* who has not seen a target replaces it in one step, and only a free place
NewPlaces ==
    ~existed =>
        /\ caller = "export" /\ pc # "move"
        /\ replace.pc \in {"idle", "place", "done", "failedKept"}

Writing == {"open", "temp", "copy", "write", "flush"}

TargetAsFound ==
    IF existed THEN Holds("target", Old) /\ disk["target"].readOnly = wasReadOnly
               ELSE ~There("target")

\* until the temporary file is complete nothing happens to the target
TargetWaits ==
    /\ pc \in Writing => /\ ReplacerAt("idle")
                         /\ There("target") => disk["target"].data \in {Old, Foreign}
                         /\ others = {} => TargetAsFound
    /\ pc = "replacing" => ~ReplacerAt("idle")
    /\ pc = "move" => replace.pc \in Results
    /\ pc = "end" => replace.pc \in {"idle"} \union Results

Begins == pc = "temp" => offset = 0 /\ crlfBreak = FALSE

\* crlfBreak is set if the block before ended in CR, and only if some block did
SplitIsKnown ==
    pc \in {"copy", "write"} =>
        /\ offset < Len(source) => offset % BlockSize = 0
        /\ convertEnds /\ offset > 0 /\ source[offset] = "cr" => crlfBreak
        /\ crlfBreak /\ offset < Len(source) =>
              \E i \in 1..offset : i % BlockSize = 0 /\ source[i] = "cr"

\* the temporary file has the conversion of what has been read
DataIsConverted ==
    ~Spoilt =>
        /\ pc = "copy" => disk["temp"].data = IF caller = "convert" THEN OutputOf(offset) ELSE <<>>
        /\ pc = "write" => disk["temp"].data \o buffer = OutputOf(offset)
        /\ pc = "flush" => disk["temp"].data = Wanted
        /\ pc \in {"replacing", "move"} /\ There("temp") => disk["temp"].data = Wanted

Complete == Holds("temp", Wanted)
\* the target has its attribute again, or it could not be put back
Returned ==
    \/ disk["target"].readOnly = wasReadOnly
    \/ NotRestored /\ ~disk["target"].readOnly
ReadOnlyKnown ==
    /\ replace.cleared => wasReadOnly /\ ~disk["target"].readOnly
    /\ ~replace.cleared => Returned

\* the old content is there, or it is gone and nobody has noticed
AsFound == Holds("target", Old) /\ ReadOnlyKnown
KeptOrGone ==
    /\ There("target") => AsFound
    /\ ~There("target") => Misread

\* where SalReplaceWithTempW is, and what the two files are there
ReplaceIsFine ==
    pc = "replacing" /\ others = {} /\ ~Spoilt =>
        /\ ReplacerAt("place") => ~existed /\ ~There("target") /\ Complete
        /\ replace.pc \in {"attributes", "clear", "replace", "fallback", "keep"} =>
              existed /\ Complete /\ KeptOrGone
        /\ replace.pc \in {"attributes", "clear"} => ~replace.cleared
        /\ ReplacerAt("clear") /\ replace.readOnly => wasReadOnly
        /\ replace.pc \in {"look", "lookTemp"} =>
              existed /\ Complete /\ (There("target") => AsFound)
        /\ ReplacerAt("lookTemp") =>
              /\ There("target") => replace.targetThere
              /\ replace.targetThere /\ ~There("target") => Misread
        /\ ReplacerAt("finish") => ~There("target") /\ Complete
        /\ ReplacerAt("failedKept") =>
              /\ Complete
              /\ existed /\ There("target") => Holds("target", Old) /\ Returned
              /\ existed /\ ~There("target") => Misread
              /\ ~existed => ~There("target")

MoveIsFine == pc = "move" /\ others = {} /\ ~Spoilt => ~There("target") /\ Complete

IInv ==
    /\ TypeOK /\ SourceOK /\ NewPlaces /\ TargetWaits /\ Begins /\ SplitIsKnown
    /\ DataIsConverted /\ ReplaceIsFine /\ MoveIsFine /\ TargetIsWhole /\ NothingLost /\ ResultIsTrue

-----------------------------------------------------------------------------
(* The conversion, block by block *)

LEMMA OutsType ==
    ASSUME SourceOK
    PROVE  /\ Outs \in Seq(Emitted \union {Dropped}) /\ Len(Outs) = Len(source)
           /\ Len(source) \in Nat
           /\ \A i \in 1..Len(source) :
                 /\ source[i] \in Letters
                 /\ Outs[i] \in Emitted \union {Dropped}
                 /\ Outs[i] = OutOf(source[i], source[i] = "lf" /\ i > 1 /\ source[i-1] = "cr")
<1>1. source \in Seq(Letters) BY DEF SourceOK
<1>2. Len(source) \in Nat /\ DOMAIN source = 1..Len(source)
      /\ \A i \in 1..Len(source) : source[i] \in Letters
  BY <1>1
<1>3. \A c \in Letters : \A r : OutOf(c, r) \in Emitted \union {Dropped}
  BY DEF OutOf, Emitted
<1> DEFINE n == Len(source)
           E == Emitted \union {Dropped}
<1>4. Outs = [i \in 1..n |-> OutOf(source[i], source[i] = "lf" /\ i > 1 /\ source[i-1] = "cr")]
  BY <1>2 DEF Outs
<1>5. \A i \in 1..n : /\ Outs[i] = OutOf(source[i], source[i] = "lf" /\ i > 1 /\ source[i-1] = "cr")
                      /\ Outs[i] \in E
  BY <1>2, <1>3, <1>4
<1>6. Outs \in [1..n -> E]
  BY <1>4, <1>5
<1>7. Outs \in Seq(E) /\ Len(Outs) = n
  BY <1>6, <1>2
<1> QED BY <1>2, <1>5, <1>7

LEMMA PiecesOfOuts ==
    ASSUME SourceOK, NEW k \in 1..(Len(source) + 1), NEW n \in 0..Len(source), k <= n + 1
    PROVE  /\ SubSeq(Outs, k, n) \in Seq(Emitted \union {Dropped})
           /\ Len(SubSeq(Outs, k, n)) = n - k + 1
           /\ \A i \in 1..(n - k + 1) : SubSeq(Outs, k, n)[i] = Outs[k + i - 1]
<1>1. Outs \in Seq(Emitted \union {Dropped}) /\ Len(Outs) = Len(source) /\ Len(source) \in Nat
  BY OutsType
<1> DEFINE E == Emitted \union {Dropped}
           s == Outs
           m == Len(source)
<1>2. s \in Seq(E) /\ Len(s) = m /\ m \in Nat /\ k \in 1..(m + 1) /\ n \in 0..m BY <1>1
<1> HIDE DEF E, s, m
<1>3. SubSeq(s, k, n) \in Seq(E)
  BY <1>2
<1>4. Len(SubSeq(s, k, n)) = n - k + 1
  BY <1>2
<1>5. \A i \in 1..(n - k + 1) : SubSeq(s, k, n)[i] = s[k + i - 1]
  BY <1>2
<1> QED BY <1>3, <1>4, <1>5 DEF E, s

LEMMA NothingKept == ASSUME NEW S PROVE Kept(<<>>, S) = <<>>
<1>1. <<>> \in Seq(S) /\ Len(<<>>) = 0 OBVIOUS
<1>2. PICK f : KeepsStepwise(f, <<>>, S, S)
  BY <1>1, KeptIsRecursive
<1> QED BY <1>1, <1>2 DEF KeepsStepwise

LEMMA OutputEnds ==
    ASSUME SourceOK
    PROVE  OutputOf(0) = <<>> /\ OutputOf(Len(source)) = Converted
<1>1. Outs \in Seq(Emitted \union {Dropped}) /\ Len(Outs) = Len(source) /\ Len(source) \in Nat
  BY OutsType
<1>2. SubSeq(Outs, 1, 0) = <<>>
  BY <1>1
<1>3. OutputOf(0) = <<>>
  BY <1>2, NothingKept DEF OutputOf
<1>4. SubSeq(Outs, 1, Len(source)) = Outs
  <2> DEFINE s == SubSeq(Outs, 1, Len(source))
             n == Len(source)
  <2>1. s \in Seq(Emitted \union {Dropped}) /\ Len(s) = n - 1 + 1
        /\ \A i \in 1..(n - 1 + 1) : s[i] = Outs[1 + i - 1]
    <3>1. 1 \in 1..(Len(source) + 1) /\ Len(source) \in 0..Len(source) /\ 1 <= Len(source) + 1
      BY <1>1
    <3> QED BY <3>1, PiecesOfOuts
  <2>2. n \in Nat /\ Len(Outs) = n BY <1>1
  <2> HIDE DEF s, n
  <2>3. Len(s) = Len(Outs) /\ \A i \in 1..Len(s) : s[i] = Outs[i] BY <2>1, <2>2
  <2>4. s = Outs BY <2>1, <2>3, <1>1, SameSequence
  <2> QED BY <2>4 DEF s, n
<1>5. OutputOf(Len(source)) = Kept(Outs, Emitted)
  BY <1>4 DEF OutputOf
<1> QED BY <1>3, <1>5 DEF Converted, Outs

\* the next block, up to e
BlockUpTo(e) ==
    /\ e \in (offset + 1)..Len(source)
    /\ e = offset + BlockSize \/ e = Len(source)
    /\ NextBlock \in Seq(Letters) /\ Len(NextBlock) = e - offset
    /\ \A i \in 1..(e - offset) : NextBlock[i] = source[offset + i]

LEMMA BlockFacts ==
    ASSUME SourceOK, offset \in 0..Len(source), offset # Len(source)
    PROVE  \E e : BlockUpTo(e)
<1> DEFINE n == Len(source)
           e == Min({offset + BlockSize, n})
<1>1. source \in Seq(Letters) /\ n \in Nat /\ BlockSize \in Nat \ {0} /\ offset \in 0..n /\ offset # n
  BY OutsType, ConvertAssumption DEF SourceOK
<1>2. n = Len(source) OBVIOUS
<1> HIDE DEF n
<1>3. e \in {offset + BlockSize, n} /\ e <= offset + BlockSize /\ e <= n
  <2> DEFINE S == {offset + BlockSize, n}
  <2>1. \E x \in S : \A y \in S : x <= y
    <3>1. CASE offset + BlockSize <= n BY <3>1, <1>1
    <3>2. CASE n <= offset + BlockSize BY <3>2, <1>1
    <3> QED BY <3>1, <3>2, <1>1
  <2>2. e = CHOOSE x \in S : \A y \in S : x <= y BY DEF Min
  <2>3. e \in S /\ \A y \in S : e <= y
    <3> HIDE DEF e, S
    <3> QED BY <2>1, <2>2
  <2> HIDE DEF e
  <2> QED BY <2>3
<1> HIDE DEF e
<1>4. e \in (offset + 1)..n /\ (e = offset + BlockSize \/ e = n)
  BY <1>1, <1>3
<1> DEFINE k == offset + 1
<1>5. k \in 1..n /\ k \in Nat /\ e \in k..n /\ e \in Nat BY <1>1, <1>4
<1>6. NextBlock = SubSeq(source, k, e) BY <1>2 DEF NextBlock, e
<1>7. k = offset + 1 OBVIOUS
<1> HIDE DEF k
<1>8. /\ SubSeq(source, k, e) \in Seq(Letters)
      /\ Len(SubSeq(source, k, e)) = e - k + 1
      /\ \A i \in 1..(e - k + 1) : SubSeq(source, k, e)[i] = source[k + i - 1]
  BY <1>1, <1>2, <1>5
<1>9. e - k + 1 = e - offset /\ \A i \in Int : k + i - 1 = offset + i
  BY <1>1, <1>5, <1>7
<1>10. BlockUpTo(e)
  BY <1>2, <1>4, <1>6, <1>8, <1>9 DEF BlockUpTo
<1> QED BY <1>10

\* with crlfBreak right, a block gives what the whole file gives in its place
LEMMA BlockOutput ==
    ASSUME SourceOK, offset \in 0..Len(source), offset # Len(source), NEW e, BlockUpTo(e),
           NEW split \in BOOLEAN,
           convertEnds /\ source[offset + 1] = "lf" =>
               (split <=> offset > 0 /\ source[offset] = "cr")
    PROVE  OutputOf(e) = OutputOf(offset) \o Translated(NextBlock, split)
<1> DEFINE b == NextBlock
           m == e - offset
           E == Emitted \union {Dropped}
           t == [i \in DOMAIN b |-> OutOf(b[i], IsRest(b, i, split))]
<1>1. /\ Outs \in Seq(E) /\ Len(Outs) = Len(source) /\ Len(source) \in Nat
      /\ \A i \in 1..Len(source) :
            /\ source[i] \in Letters /\ Outs[i] \in E
            /\ Outs[i] = OutOf(source[i], source[i] = "lf" /\ i > 1 /\ source[i-1] = "cr")
  BY OutsType
<1>2. /\ e \in (offset + 1)..Len(source) /\ m \in Nat /\ m >= 1
      /\ b \in Seq(Letters) /\ DOMAIN b = 1..m
      /\ \A i \in 1..m : b[i] = source[offset + i] /\ offset + i \in 1..Len(source)
  BY <1>1 DEF BlockUpTo
<1>3. ASSUME NEW i \in 1..m
      PROVE  OutOf(b[i], IsRest(b, i, split)) = Outs[offset + i]
  <2> DEFINE j == offset + i
             c == source[j]
  <2>1. b[i] = c /\ j \in 1..Len(source)
        /\ Outs[j] = OutOf(c, c = "lf" /\ j > 1 /\ source[j-1] = "cr")
    BY <1>1, <1>2
  <2>2. CASE ~convertEnds \/ c \notin {"cr", "lf"}
    BY <2>1, <2>2 DEF OutOf
  <2>3. CASE convertEnds /\ c = "cr"
    BY <2>1, <2>3 DEF OutOf, IsRest
  <2>4. CASE convertEnds /\ c = "lf"
    <3>1. IsRest(b, i, split) <=> j > 1 /\ source[j-1] = "cr"
      <4>1. CASE i = 1
        <5>1. j = offset + 1 /\ j - 1 = offset /\ (j > 1 <=> offset > 0)
          BY <4>1, <1>1
        <5>2. split <=> j > 1 /\ source[j - 1] = "cr"
          BY <5>1, <2>4
        <5>3. IsRest(b, i, split) <=> split
          BY <4>1, <2>1, <2>4 DEF IsRest
        <5> QED BY <5>2, <5>3
      <4>2. CASE i # 1
        <5>1. i - 1 \in 1..m /\ offset + (i - 1) = j - 1 /\ j > 1
          BY <4>2, <1>1, <1>2
        <5>2. b[i - 1] = source[j - 1]
          BY <5>1, <1>2
        <5> QED BY <4>2, <5>1, <5>2, <2>1, <2>4 DEF IsRest
      <4> QED BY <4>1, <4>2
    <3>2. (c = "lf" /\ j > 1 /\ source[j-1] = "cr") <=> IsRest(b, i, split)
      BY <3>1, <2>4
    <3> QED BY <2>1, <2>4, <3>2 DEF OutOf
  <2> QED BY <2>2, <2>3, <2>4, <2>1
<1>4. t \in Seq(E) /\ Len(t) = m /\ \A i \in 1..m : t[i] = Outs[offset + i]
  <2>1. t = [i \in 1..m |-> OutOf(b[i], IsRest(b, i, split))] BY <1>2
  <2>2. \A i \in 1..m : t[i] = Outs[offset + i] /\ t[i] \in E
    BY <2>1, <1>1, <1>2, <1>3
  <2>3. t \in [1..m -> E] BY <2>1, <2>2
  <2> HIDE DEF t, m
  <2> QED BY <2>2, <2>3, <1>2
<1>5. Translated(b, split) = Kept(t, Emitted)
  BY DEF Translated
<1>6. SubSeq(Outs, 1, e) = SubSeq(Outs, 1, offset) \o t
  <2> DEFINE u == SubSeq(Outs, 1, e)
             v == SubSeq(Outs, 1, offset)
  <2>0. e \in 0..Len(source) /\ offset \in 0..Len(source) /\ 1 \in 1..(Len(source) + 1)
        /\ 1 <= e + 1 /\ 1 <= offset + 1
    BY <1>1, <1>2
  <2>1. u \in Seq(E) /\ Len(u) = e - 1 + 1 /\ \A i \in 1..(e - 1 + 1) : u[i] = Outs[1 + i - 1]
    BY <2>0, PiecesOfOuts
  <2>2. v \in Seq(E) /\ Len(v) = offset - 1 + 1 /\ \A i \in 1..(offset - 1 + 1) : v[i] = Outs[1 + i - 1]
    BY <2>0, PiecesOfOuts
  <2>3. m = e - offset /\ e \in Nat /\ offset \in Nat BY <2>0, <1>1
  <2> HIDE DEF u, v, t, m, E
  <2>4. Len(u) = e /\ Len(v) = offset /\ e = offset + m /\ m \in Nat
    BY <2>1, <2>2, <2>3, <2>0, <1>2
  <2>5. (\A i \in 1..e : u[i] = Outs[i]) /\ \A i \in 1..offset : v[i] = Outs[i]
    BY <2>1, <2>2, <2>0
  <2>10. v \in Seq(E) /\ t \in Seq(E) /\ Len(v) = offset /\ Len(t) = m
    BY <2>2, <2>4, <1>4
  <2>6. v \o t \in Seq(E) /\ Len(v \o t) = e
        /\ (\A i \in 1..offset : (v \o t)[i] = v[i])
        /\ \A i \in 1..m : (v \o t)[offset + i] = t[i]
    BY <2>4, <2>10, <2>3
  <2> DEFINE w == v \o t
  <2> HIDE DEF w
  <2>7. w \in Seq(E) /\ Len(w) = e /\ (\A i \in 1..offset : w[i] = v[i])
        /\ \A i \in 1..m : w[offset + i] = t[i]
    BY <2>6 DEF w
  <2>8. ASSUME NEW i \in 1..e PROVE u[i] = w[i]
    <3>1. CASE i <= offset BY <3>1, <2>0, <2>5, <2>7
    <3>2. CASE i > offset
      <4>1. i - offset \in 1..m /\ offset + (i - offset) = i BY <3>2, <2>0, <2>4
      <4> QED BY <4>1, <2>5, <2>7, <1>4
    <3> QED BY <3>1, <3>2, <2>0
  <2>9. u = w BY <2>1, <2>4, <2>7, <2>8, SameSequence
  <2> QED BY <2>9 DEF u, w, v
<1>7. Kept(SubSeq(Outs, 1, offset) \o t, Emitted)
        = Kept(SubSeq(Outs, 1, offset), Emitted) \o Kept(t, Emitted)
  <2>1. SubSeq(Outs, 1, offset) \in Seq(E)
    <3>1. 1 \in 1..(Len(source) + 1) /\ 1 <= offset + 1 BY <1>1
    <3> QED BY <3>1, PiecesOfOuts
  <2> DEFINE v == SubSeq(Outs, 1, offset)
  <2> HIDE DEF t, v, E
  <2>2. v \in Seq(E) BY <2>1 DEF v
  <2>3. Kept(v \o t, Emitted) = Kept(v, Emitted) \o Kept(t, Emitted)
    BY <2>2, <1>4, KeptConcat
  <2> QED BY <2>3 DEF v
<1>8. OutputOf(e) = OutputOf(offset) \o Translated(b, split)
  BY <1>5, <1>6, <1>7 DEF OutputOf
<1> QED BY <1>8

-----------------------------------------------------------------------------
(* The steps keep the invariant *)

LEMMA FileWith == ASSUME NEW d, NEW r
  PROVE  [FileOf(d) EXCEPT !.readOnly = r] = [there |-> TRUE, data |-> d, readOnly |-> r]
<1> DEFINE g == FileOf(d)
           h == [g EXCEPT !.readOnly = r]
<1>1. DOMAIN g = {"there", "data", "readOnly"} /\ g.there = TRUE /\ g.data = d
  BY DEF FileOf
<1>2. h = [x \in DOMAIN g |-> IF x = "readOnly" THEN r ELSE g[x]]
  <2> HIDE DEF g
  <2> QED OBVIOUS
<1> HIDE DEF g, h
<1>3. DOMAIN h = {"there", "data", "readOnly"} /\ h.there = TRUE /\ h.data = d /\ h.readOnly = r
  BY <1>1, <1>2
<1>4. h = [x \in {"there", "data", "readOnly"} |-> h[x]]
  BY <1>1, <1>2
<1>5. h = [there |-> TRUE, data |-> d, readOnly |-> r]
  BY <1>3, <1>4
<1> QED
  BY <1>5 DEF h, g

LEMMA InitEstablishes == Init => IInv
<1> SUFFICES ASSUME Init PROVE IInv
  OBVIOUS
<1>1. /\ pc = "open" /\ offset = 0 /\ crlfBreak = FALSE /\ partly = FALSE
      /\ existed \in BOOLEAN /\ wasReadOnly \in BOOLEAN /\ convertEnds \in BOOLEAN
      /\ (caller = "convert" => existed) /\ (~existed => ~wasReadOnly)
      /\ caller \in {"convert", "export"}
  BY ConvertAssumption DEF Init
<1>2. /\ replace.pc = "idle" /\ others = {} /\ meddling = 0 /\ mishaps = {}
      /\ replace = [pc |-> "idle", clearReadOnly |-> FALSE, readOnly |-> FALSE, cleared |-> FALSE,
                    fallback |-> FALSE, unsupported |-> FALSE, targetThere |-> FALSE]
  BY DEF Init, ReplaceInit
<1>3. source \in Seq(Letters) /\ Len(source) \in Nat
  <2>1. source = <<>> \/ \E m \in 0..MaxLength : source \in [1..m -> Letters]
    BY DEF Init, SeqOf
  <2>2. ASSUME NEW m \in 0..MaxLength, source \in [1..m -> Letters]
        PROVE  source \in Seq(Letters)
    BY <2>2, ConvertAssumption
  <2>3. source \in Seq(Letters)
    <3>1. <<>> \in Seq(Letters) OBVIOUS
    <3>2. CASE source = <<>> BY <3>1, <3>2
    <3>3. CASE \E m \in 0..MaxLength : source \in [1..m -> Letters] BY <2>2, <3>3
    <3> QED BY <2>1, <3>2, <3>3
  <2> QED BY <2>3
<1>4. /\ disk["temp"] = Absent /\ DOMAIN disk = {"target", "temp"}
      /\ disk["target"] = IF existed THEN [FileOf(Old) EXCEPT !.readOnly = wasReadOnly] ELSE Absent
  BY DEF Init
<1>5. FileTypeOK(disk["target"]) /\ FileTypeOK(disk["temp"]) /\ TargetAsFound
  <2>1. FileTypeOK(Absent) /\ ~Absent.there
    BY DEF FileTypeOK, Absent
  <2> DEFINE f == [FileOf(Old) EXCEPT !.readOnly = wasReadOnly]
  <2>2. f = [there |-> TRUE, data |-> Old, readOnly |-> wasReadOnly]
    <3>1. f = [FileOf(Old) EXCEPT !.readOnly = wasReadOnly] OBVIOUS
    <3> HIDE DEF f
    <3> QED BY <3>1, FileWith
  <2> HIDE DEF f
  <2>3. FileTypeOK(f) /\ f.there /\ f.data = Old /\ f.readOnly = wasReadOnly
    BY <2>2, <1>1 DEF FileTypeOK
  <2>4. disk["target"] = IF existed THEN f ELSE Absent
    BY <1>4 DEF f
  <2> QED BY <1>4, <2>1, <2>3, <2>4 DEF TargetAsFound, Holds, There
<1>6. TypeOK
  <2>1. ReplaceTypeOK
    <3>1. replace \in [pc : {"idle", "place", "attributes", "clear", "replace", "look", "lookTemp",
                          "fallback", "finish", "keep"} \union Results,
                    clearReadOnly : BOOLEAN, readOnly : BOOLEAN, cleared : BOOLEAN,
                    fallback : BOOLEAN, unsupported : BOOLEAN, targetThere : BOOLEAN]
      BY <1>2
    <3>2. /\ others \subseteq {"removed", "created"} /\ meddling \in 0..MaxMeddling
          /\ mishaps \subseteq {"misread", "notRestored"}
      BY <1>2, MeddlingAssumption
    <3> QED BY <1>4, <1>5, <3>1, <3>2 DEF ReplaceTypeOK
  <2>2. offset \in 0..Len(source)
    BY <1>1, <1>3
  <2> QED BY <1>1, <2>1, <2>2 DEF TypeOK
<1>7. SourceOK /\ NewPlaces /\ Begins /\ SplitIsKnown /\ DataIsConverted /\ ReplaceIsFine /\ MoveIsFine
      /\ ResultIsTrue
  BY <1>1, <1>2, <1>3 DEF SourceOK, NewPlaces, Begins, SplitIsKnown, DataIsConverted, ReplaceIsFine,
     MoveIsFine, ResultIsTrue, At
<1>8. TargetWaits /\ TargetIsWhole /\ NothingLost
  BY <1>1, <1>2, <1>4, <1>5 DEF TargetWaits, TargetIsWhole, NothingLost, LineEndsAreConverted,
     TargetAsFound, Holds, ReplacerAt, There, FileOf, Absent
<1> QED
  BY <1>6, <1>7, <1>8 DEF IInv

\* what depends on the file to convert only does not change
SameFile ==
    /\ UNCHANGED <<source, convertEnds, caller, existed, wasReadOnly>>
    /\ Outs' = Outs /\ Wanted' = Wanted /\ (StrayLineFeed' <=> StrayLineFeed)

LEMMA FileIsFixed == ASSUME UNCHANGED fixed PROVE SameFile
<1>1. UNCHANGED <<source, convertEnds, caller, existed, wasReadOnly>>
  BY DEF fixed
<1>2. Outs' = Outs /\ Converted' = Converted
  BY <1>1 DEF Outs, Converted, OutOf
<1>3. StrayLineFeed' <=> StrayLineFeed
  BY <1>1 DEF StrayLineFeed
<1> QED
  BY <1>1, <1>2, <1>3 DEF SameFile, Wanted

\* what happens to the temporary file and its writer is all the same to the target
LEMMA WritingKeeps ==
    ASSUME IInv, UNCHANGED <<fixed, replace, others, meddling, mishaps>>,
           disk'["target"] = disk["target"], pc \in Writing, pc' \in Writing \union {"end"},
           pc' = "write" => caller = "convert"
    PROVE  /\ SourceOK' /\ NewPlaces' /\ TargetWaits' /\ ReplaceIsFine' /\ MoveIsFine'
           /\ TargetIsWhole' /\ NothingLost' /\ ResultIsTrue'
<1>1. SameFile
  BY FileIsFixed
<1>2. SourceOK' /\ NewPlaces'
  BY <1>1 DEF IInv, SourceOK, NewPlaces, SameFile, Writing
<1>3. ReplaceIsFine' /\ MoveIsFine' /\ ResultIsTrue'
  BY DEF Writing, ReplaceIsFine, MoveIsFine, ResultIsTrue, At
<1>4. TargetWaits'
  BY <1>1 DEF IInv, TargetWaits, Writing, SameFile, TargetAsFound, Holds, There, ReplacerAt
<1>5. TargetIsWhole' /\ NothingLost'
  BY <1>1 DEF IInv, TargetWaits, Writing, SameFile, TargetAsFound, Holds, There, TargetIsWhole,
     NothingLost, LineEndsAreConverted
<1> QED
  BY <1>2, <1>3, <1>4, <1>5

\* what a step does to the temporary file and its writer
WriterOK ==
    /\ FileTypeOK(disk["temp"])
    /\ offset \in 0..Len(source) /\ crlfBreak \in BOOLEAN /\ partly \in BOOLEAN
    /\ pc \in {"copy", "write", "flush"} => There("temp")
    /\ Begins /\ SplitIsKnown /\ DataIsConverted

LEMMA WriterStep ==
    ASSUME IInv, UNCHANGED <<fixed, replace, others, meddling, mishaps>>,
           DOMAIN disk' = DOMAIN disk, disk'["target"] = disk["target"],
           pc \in Writing, pc' \in Writing \union {"end"},
           pc' = "write" => caller = "convert", WriterOK'
    PROVE  IInv'
<1>1. SameFile
  BY FileIsFixed
<1>2. TypeOK'
  BY <1>1 DEF IInv, TypeOK, ReplaceTypeOK, SameFile, WriterOK, Writing, FileTypeOK
<1> QED
  BY <1>2, WritingKeeps DEF IInv, WriterOK

LEMMA OpenKeeps == ASSUME IInv, Open PROVE IInv'
<1>1. UNCHANGED <<fixed, disk, replace, others, meddling, mishaps>>
  BY DEF Open, NoReplace
<1>2. pc = "open" /\ pc' \in {"temp", "end"} /\ offset' = 0 /\ crlfBreak' = FALSE /\ partly' = FALSE
  BY DEF Open, At, GoTo
<1>3. WriterOK'
  <2>1. Len(source) \in Nat /\ source' = source
    BY <1>1, OutsType DEF IInv, fixed
  <2>2. FileTypeOK(disk'["temp"])
    BY <1>1 DEF IInv, TypeOK, ReplaceTypeOK
  <2>3. Begins' /\ SplitIsKnown' /\ DataIsConverted'
    BY <1>2 DEF Begins, SplitIsKnown, DataIsConverted
  <2>4. offset' \in 0..Len(source')
    BY <1>2, <2>1
  <2> QED BY <1>2, <2>2, <2>3, <2>4 DEF WriterOK
<1> QED
  BY <1>1, <1>2, <1>3, WriterStep DEF Writing

LEMMA CreateTempKeeps == ASSUME IInv, CreateTemp PROVE IInv'
<1>1. UNCHANGED <<fixed, replace, others, meddling, mishaps, partly, offset, buffer, crlfBreak>>
  BY DEF CreateTemp, NoReplace
<1>2. pc = "temp" /\ DOMAIN disk' = DOMAIN disk /\ disk'["target"] = disk["target"]
  BY DEF CreateTemp, At, IInv, TypeOK, ReplaceTypeOK
<1>3. SameFile /\ SourceOK /\ TypeOK
  BY <1>1, FileIsFixed DEF IInv
<1>4. CASE pc' = "copy" /\ disk' = [disk EXCEPT !["temp"] = FileOf(<<>>)]
  <2>1. disk'["temp"] = FileOf(<<>>)
    BY <1>4, <1>3 DEF TypeOK, ReplaceTypeOK
  <2>2. FileTypeOK(FileOf(<<>>)) /\ FileOf(<<>>).there /\ FileOf(<<>>).data = <<>>
    BY DEF FileTypeOK, FileOf
  <2>3. offset' = 0 /\ crlfBreak' = FALSE
    BY <1>1, <1>2 DEF IInv, Begins
  <2>4. Begins' /\ SplitIsKnown'
    BY <1>4, <2>3, <1>3, ConvertAssumption DEF Begins, SplitIsKnown, SameFile
  <2>5. OutputOf(0) = <<>>
    BY <1>3, OutputEnds
  <2>6. DataIsConverted'
    BY <1>4, <1>3, <2>1, <2>2, <2>3, <2>5 DEF DataIsConverted, SameFile, OutputOf
  <2>7. WriterOK'
    BY <1>1, <1>3, <1>4, <2>1, <2>2, <2>4, <2>6 DEF WriterOK, SameFile, TypeOK, There
  <2> QED BY <1>1, <1>2, <1>4, <2>7, WriterStep DEF Writing
<1>5. CASE pc' = "end" /\ UNCHANGED disk
  <2>1. WriterOK'
    <3>1. Begins' /\ SplitIsKnown' /\ DataIsConverted'
      BY <1>5 DEF Begins, SplitIsKnown, DataIsConverted
    <3> QED BY <1>1, <1>3, <1>5, <3>1 DEF WriterOK, SameFile, TypeOK, ReplaceTypeOK
  <2> QED BY <1>1, <1>2, <1>5, <2>1, WriterStep DEF Writing
<1> QED BY <1>4, <1>5 DEF CreateTemp, GoTo

\* a step after which there is nothing to know about the temporary file
LEMMA NoWriter ==
    ASSUME IInv, UNCHANGED <<fixed, offset, crlfBreak, partly>>, pc' \in {"open", "end"},
           DOMAIN disk' = DOMAIN disk, FileTypeOK(disk'["temp"])
    PROVE  WriterOK'
<1>1. Begins' /\ SplitIsKnown' /\ DataIsConverted'
  BY DEF Begins, SplitIsKnown, DataIsConverted
<1> QED
  BY <1>1 DEF WriterOK, IInv, TypeOK, fixed

LEMMA GiveUpKeeps == ASSUME IInv, GiveUp \/ FlushFails PROVE IInv'
<1>1. /\ UNCHANGED <<fixed, replace, others, meddling, mishaps, partly, offset, buffer, crlfBreak>>
      /\ RemoveTemp /\ pc \in {"copy", "write", "flush"} /\ pc' \in {"open", "end"}
  BY DEF GiveUp, FlushFails, NoReplace, At, GoTo
<1>2. DOMAIN disk' = DOMAIN disk /\ disk'["target"] = disk["target"]
      /\ disk'["temp"] \in {Absent, disk["temp"]} /\ FileTypeOK(disk["temp"])
  BY <1>1 DEF RemoveTemp, IInv, TypeOK, ReplaceTypeOK
<1>3. FileTypeOK(Absent)
  BY DEF FileTypeOK, Absent
<1>4. WriterOK'
  BY <1>1, <1>2, <1>3, NoWriter
<1> QED
  BY <1>1, <1>2, <1>4, WriterStep DEF Writing

\* AppendToTemp
Appended(b) ==
    /\ DOMAIN disk' = DOMAIN disk /\ disk'["target"] = disk["target"]
    /\ FileTypeOK(disk'["temp"]) /\ disk'["temp"].there
    /\ disk'["temp"].data = disk["temp"].data \o b

LEMMA AppendAppends ==
    ASSUME IInv, NEW b, There("temp"), AppendToTemp(b) PROVE Appended(b)
<1> DEFINE f == disk["temp"]
           g == [f EXCEPT !.data = @ \o b]
<1>1. f.there /\ DOMAIN f = {"there", "data", "readOnly"} /\ f.readOnly \in BOOLEAN
  BY DEF There, IInv, TypeOK, ReplaceTypeOK, FileTypeOK
<1>2. disk' = [disk EXCEPT !["temp"] = g]
  BY DEF AppendToTemp
<1>3. DOMAIN disk = {"target", "temp"}
  BY DEF IInv, TypeOK, ReplaceTypeOK
<1>4. DOMAIN g = DOMAIN f /\ g.data = f.data \o b /\ g.there = f.there /\ g.readOnly = f.readOnly
  BY <1>1
<1> HIDE DEF f, g
<1>5. DOMAIN disk' = DOMAIN disk /\ disk'["target"] = disk["target"] /\ disk'["temp"] = g
  BY <1>2, <1>3
<1>6. FileTypeOK(g) /\ g.there
  BY <1>1, <1>4 DEF FileTypeOK
<1> QED
  BY <1>4, <1>5, <1>6 DEF Appended, f

LEMMA WriteShortKeeps == ASSUME IInv, WriteShort PROVE IInv'
<1>1. /\ UNCHANGED <<fixed, replace, others, meddling, mishaps, pc, offset, buffer, crlfBreak>>
      /\ pc = "write" /\ partly' = TRUE
  BY DEF WriteShort, NoReplace, At
<1>2. PICK n \in 1..Len(buffer) - 1 : AppendToTemp(SubSeq(buffer, 1, n))
  BY DEF WriteShort
<1>3. Appended(SubSeq(buffer, 1, n))
  BY <1>1, <1>2, AppendAppends DEF IInv, TypeOK
<1>4. Begins' /\ SplitIsKnown' /\ DataIsConverted'
  BY <1>1 DEF IInv, fixed, Begins, SplitIsKnown, DataIsConverted, Spoilt
<1>5. WriterOK'
  BY <1>1, <1>3, <1>4 DEF WriterOK, Appended, IInv, TypeOK, fixed, There
<1> QED
  BY <1>1, <1>3, <1>5, WriterStep DEF Writing, Appended, IInv, SourceOK

LEMMA WriteBlockKeeps == ASSUME IInv, WriteBlock PROVE IInv'
<1>1. /\ UNCHANGED <<fixed, replace, others, meddling, mishaps, partly, offset, buffer, crlfBreak>>
      /\ pc = "write" /\ pc' = "copy" /\ AppendToTemp(buffer)
  BY DEF WriteBlock, NoReplace, At, GoTo
<1>2. Appended(buffer)
  BY <1>1, AppendAppends DEF IInv, TypeOK
<1>3. SameFile /\ caller = "convert"
  BY <1>1, FileIsFixed DEF IInv, SourceOK
<1>4. Begins' /\ SplitIsKnown'
  BY <1>1 DEF IInv, fixed, Begins, SplitIsKnown
<1>5. DataIsConverted'
  <2> SUFFICES ASSUME ~Spoilt' PROVE DataIsConverted'
    BY DEF DataIsConverted
  <2>1. ~Spoilt
    BY <1>1, <1>3 DEF Spoilt, SameFile
  <2>2. disk["temp"].data \o buffer = OutputOf(offset)
    BY <1>1, <2>1 DEF IInv, DataIsConverted
  <2>3. disk'["temp"].data = OutputOf(offset)'
    BY <1>1, <1>2, <1>3, <2>2 DEF Appended, SameFile, OutputOf
  <2> QED BY <1>1, <1>3, <2>3 DEF DataIsConverted, SameFile
<1>6. WriterOK'
  BY <1>1, <1>2, <1>4, <1>5 DEF WriterOK, Appended, IInv, TypeOK, fixed, There
<1> QED
  BY <1>1, <1>2, <1>6, WriterStep DEF Writing, Appended

LEMMA WriteExportKeeps == ASSUME IInv, WriteExport PROVE IInv'
<1>1. /\ UNCHANGED <<fixed, replace, others, meddling, mishaps, partly, offset, buffer, crlfBreak>>
      /\ pc = "copy" /\ pc' = "flush" /\ AppendToTemp(Exported) /\ caller = "export"
  BY DEF WriteExport, NoReplace, At, GoTo
<1>2. Appended(Exported)
  BY <1>1, AppendAppends DEF IInv, TypeOK
<1>3. SameFile
  BY <1>1, FileIsFixed
<1>4. Begins' /\ SplitIsKnown'
  BY <1>1 DEF Begins, SplitIsKnown
<1>5. DataIsConverted'
  <2> SUFFICES ASSUME ~Spoilt' PROVE DataIsConverted'
    BY DEF DataIsConverted
  <2>1. ~Spoilt
    BY <1>1, <1>3 DEF Spoilt, SameFile
  <2>2. disk["temp"].data = <<>>
    BY <1>1, <2>1 DEF IInv, DataIsConverted
  <2>3. <<>> \o Exported = Exported
    BY DEF Exported
  <2>4. disk'["temp"].data = Wanted'
    BY <1>1, <1>2, <1>3, <2>2, <2>3 DEF Appended, SameFile, Wanted
  <2> QED BY <1>1, <2>4 DEF DataIsConverted
<1>6. WriterOK'
  BY <1>1, <1>2, <1>4, <1>5 DEF WriterOK, Appended, IInv, TypeOK, fixed, There
<1> QED
  BY <1>1, <1>2, <1>6, WriterStep DEF Writing, Appended

LEMMA ReadBlockKeeps == ASSUME IInv, ReadBlock PROVE IInv'
<1>1. /\ UNCHANGED <<fixed, replace, others, meddling, mishaps, disk, partly>>
      /\ pc = "copy" /\ caller = "convert" /\ offset \in 0..Len(source)
  BY DEF ReadBlock, NoReplace, At, IInv, TypeOK
<1>2. SameFile /\ SourceOK /\ TypeOK /\ DataIsConverted /\ SplitIsKnown
  BY <1>1, FileIsFixed DEF IInv
<1>3. FileTypeOK(disk["temp"]) /\ There("temp")
  BY <1>1, <1>2 DEF TypeOK, ReplaceTypeOK
<1>4. CASE offset = Len(source)
  <2>1. pc' = "flush" /\ UNCHANGED <<buffer, crlfBreak, offset>>
    BY <1>4 DEF ReadBlock, GoTo
  <2>2. Begins' /\ SplitIsKnown'
    BY <2>1 DEF Begins, SplitIsKnown
  <2>3. DataIsConverted'
    <3> SUFFICES ASSUME ~Spoilt' PROVE DataIsConverted'
      BY DEF DataIsConverted
    <3>1. ~Spoilt
      BY <1>1, <1>2 DEF Spoilt, SameFile
    <3>2. disk["temp"].data = OutputOf(Len(source))
      BY <1>1, <1>2, <1>4, <3>1 DEF DataIsConverted
    <3>3. disk'["temp"].data = Wanted'
      BY <1>1, <1>2, <3>2, OutputEnds DEF Wanted, SameFile
    <3> QED BY <2>1, <3>3 DEF DataIsConverted
  <2>4. WriterOK'
    BY <1>1, <1>2, <1>3, <2>1, <2>2, <2>3 DEF WriterOK, SameFile, TypeOK, There
  <2> QED BY <1>1, <2>1, <2>4, WriterStep DEF Writing
<1>5. CASE offset # Len(source)
  <2>1. PICK e : BlockUpTo(e)
    BY <1>1, <1>2, <1>5, BlockFacts
  <2>2. e \in (offset + 1)..Len(source) /\ Len(source) \in Nat /\ offset \in Nat
        /\ (e = offset + BlockSize \/ e = Len(source)) /\ BlockSize \in Nat \ {0}
    BY <2>1, <1>1, <1>2, OutsType, ConvertAssumption DEF BlockUpTo
  <2>3. /\ buffer' = Translated(NextBlock, crlfBreak)
        /\ crlfBreak' = SplitAfter(NextBlock, crlfBreak)
        /\ offset' = e /\ pc' = "write"
    <3>1. offset' = offset + Len(NextBlock) /\ Len(NextBlock) = e - offset
      BY <1>5, <2>1 DEF ReadBlock, Advance, BlockUpTo
    <3>2. offset' = e
      BY <3>1, <2>2
    <3> QED BY <1>5, <3>2 DEF ReadBlock, GoTo
  <2>4. offset % BlockSize = 0
    BY <1>1, <1>2, <1>5, <2>2 DEF SplitIsKnown
  <2> DEFINE b == NextBlock
             m == e - offset
  <2>5. b[1] = source[offset + 1] /\ Last(b) = source[e] /\ m >= 1
    <3>1. m \in 1..m /\ 1 \in 1..m /\ offset + m = e
      BY <2>2
    <3>2. b[1] = source[offset + 1] /\ b[m] = source[e] /\ Len(b) = m
      BY <2>1, <3>1 DEF BlockUpTo
    <3> QED BY <3>1, <3>2 DEF Last
  <2>6. SplitIsKnown'
    <3>1. offset' < Len(source) => offset' % BlockSize = 0
      <4>1. ASSUME e < Len(source) PROVE e % BlockSize = 0
        <5>1. e = offset + BlockSize
          BY <4>1, <2>2
        <5>2. (offset + BlockSize) % BlockSize = 0
          BY <2>2, <2>4, NextMultiple
        <5> QED BY <5>1, <5>2
      <4> QED BY <4>1, <2>3
    <3>2. convertEnds /\ source[e] = "cr" => crlfBreak'
      BY <2>3, <2>5 DEF SplitAfter
    <3>3. crlfBreak' /\ e < Len(source) => \E i \in 1..e : i % BlockSize = 0 /\ source[i] = "cr"
      <4> SUFFICES ASSUME crlfBreak', e < Len(source)
                   PROVE \E i \in 1..e : i % BlockSize = 0 /\ source[i] = "cr"
        OBVIOUS
      <4>1. source[e] = "cr" \/ crlfBreak
        BY <2>3, <2>5 DEF SplitAfter
      <4>2. CASE source[e] = "cr"
        BY <4>2, <3>1, <2>2, <2>3
      <4>3. CASE crlfBreak
        <5>1. PICK i \in 1..offset : i % BlockSize = 0 /\ source[i] = "cr"
          BY <4>3, <1>1, <1>2, <1>5, <2>2 DEF SplitIsKnown
        <5>2. i \in 1..e
          BY <2>2
        <5> QED BY <5>1, <5>2
      <4> QED BY <4>1, <4>2, <4>3
    <3> QED BY <1>2, <2>3, <3>1, <3>2, <3>3 DEF SplitIsKnown, SameFile
  <2>7. Begins'
    BY <2>3 DEF Begins
  <2>8. DataIsConverted'
    <3> SUFFICES ASSUME ~Spoilt' PROVE DataIsConverted'
      BY DEF DataIsConverted
    <3>1. ~Spoilt
      BY <1>1, <1>2 DEF Spoilt, SameFile
    <3>2. disk["temp"].data = OutputOf(offset)
      BY <1>1, <1>2, <3>1 DEF DataIsConverted
    <3>3. convertEnds /\ source[offset + 1] = "lf" =>
               (crlfBreak <=> offset > 0 /\ source[offset] = "cr")
      <4> SUFFICES ASSUME convertEnds, source[offset + 1] = "lf"
                   PROVE  crlfBreak <=> offset > 0 /\ source[offset] = "cr"
        OBVIOUS
      <4>1. ASSUME offset > 0, source[offset] = "cr" PROVE crlfBreak
        BY <4>1, <1>1, <1>2 DEF SplitIsKnown
      <4>2. ASSUME crlfBreak PROVE offset > 0 /\ source[offset] = "cr"
        <5>1. PICK i \in 1..offset : i % BlockSize = 0 /\ source[i] = "cr"
          BY <4>2, <1>1, <1>2, <1>5, <2>2 DEF SplitIsKnown
        <5>2. offset > 0 /\ i \in Nat /\ i <= offset
          BY <2>2
        <5>3. CASE i = offset
          BY <5>1, <5>2, <5>3
        <5>4. CASE i # offset
          <6> DEFINE j == offset + 1
          <6>1. i + 1 < j /\ i \in 1..Len(source) /\ j \in 1..Len(source) /\ j - 1 = offset
            BY <5>2, <5>4, <2>2
          <6>2. j % BlockSize = 1 % BlockSize
            BY <2>2, <2>4, AfterMultiple
          <6>3. DOMAIN source = 1..Len(source)
            BY <1>2 DEF SourceOK
          <6>4. source[j] = "lf" OBVIOUS
          <6> HIDE DEF j
          <6>5. source[j - 1] = "cr"
            BY <3>1, <5>1, <6>1, <6>2, <6>3, <6>4 DEF Spoilt, StrayLineFeed
          <6> QED BY <5>2, <6>1, <6>5
        <5> QED BY <5>3, <5>4
      <4> QED BY <4>1, <4>2
    <3>4. crlfBreak \in BOOLEAN
      BY <1>2 DEF TypeOK
    <3>5. OutputOf(e) = OutputOf(offset) \o Translated(NextBlock, crlfBreak)
      BY <1>1, <1>2, <1>5, <2>1, <3>3, <3>4, BlockOutput
    <3>7. OutputOf(offset)' = OutputOf(e)
      BY <1>2, <2>3 DEF OutputOf, SameFile
    <3>8. disk'["temp"].data \o buffer' = OutputOf(offset)'
      BY <1>1, <2>3, <3>2, <3>5, <3>7
    <3> QED BY <2>3, <3>8 DEF DataIsConverted
  <2>9. WriterOK'
    <3>1. offset' \in 0..Len(source')
      BY <1>2, <2>2, <2>3 DEF SameFile
    <3>2. crlfBreak' \in BOOLEAN
      BY <2>3, <1>2 DEF SplitAfter, SourceOK, TypeOK
    <3> QED BY <1>1, <1>2, <1>3, <2>3, <2>6, <2>7, <2>8, <3>1, <3>2 DEF WriterOK, SameFile, TypeOK, There
  <2> QED BY <1>1, <2>3, <2>9, WriterStep DEF Writing, fixed
<1> QED
  BY <1>4, <1>5

\* SalReplaceWithTempW works only while the caller waits for it
Replacers == [pc : {"idle", "place", "attributes", "clear", "replace", "look", "lookTemp",
                          "fallback", "finish", "keep"} \union Results,
              clearReadOnly : BOOLEAN, readOnly : BOOLEAN, cleared : BOOLEAN,
              fallback : BOOLEAN, unsupported : BOOLEAN, targetThere : BOOLEAN]

LEMMA FlushKeeps == ASSUME IInv, Flush PROVE IInv'
<1>1. /\ UNCHANGED <<fixed, disk, others, meddling, mishaps, partly, offset, buffer, crlfBreak>>
      /\ pc = "flush" /\ pc' = "replacing"
      /\ \/ IF caller = "convert" THEN Call(TRUE, TRUE) ELSE Call(existed, FALSE)
         \/ caller = "convert" /\ Goes("failedKept")
  BY DEF Flush, CallReplace, At, GoTo, Unmeddled, NoMishap
<1>2. SameFile /\ SourceOK /\ TypeOK /\ TargetWaits /\ DataIsConverted /\ NewPlaces
  BY <1>1, FileIsFixed DEF IInv
<1>3. There("temp") /\ (~Spoilt => disk["temp"].data = Wanted) /\ existed \in BOOLEAN
      /\ (Spoilt' <=> Spoilt) /\ (caller = "convert" => existed)
  BY <1>1, <1>2 DEF TypeOK, DataIsConverted, Spoilt, SameFile, NewPlaces
<1>4. /\ replace' \in Replacers
      /\ \/ replace'.pc = (IF existed THEN "attributes" ELSE "place") /\ replace'.cleared = FALSE
         \/ replace'.pc = "failedKept" /\ existed
  <2>1. replace \in Replacers
    BY <1>2 DEF TypeOK, ReplaceTypeOK, Replacers
  <2>2. ASSUME NEW e \in BOOLEAN, NEW c \in BOOLEAN, Call(e, c)
        PROVE  replace' \in Replacers /\ replace'.pc = (IF e THEN "attributes" ELSE "place")
               /\ replace'.cleared = FALSE
    BY <2>1, <2>2 DEF Call, Replacers
  <2>3. Goes("failedKept") => replace' \in Replacers /\ replace'.pc = "failedKept"
    BY <2>1 DEF Goes, Replacers, Results
  <2> QED BY <1>1, <1>3, <2>2, <2>3
<1>5. TypeOK' /\ SourceOK' /\ NewPlaces' /\ Begins' /\ SplitIsKnown'
  BY <1>1, <1>2, <1>4 DEF TypeOK, ReplaceTypeOK, SourceOK, NewPlaces, SameFile, Begins,
     SplitIsKnown, FileTypeOK, Replacers
<1>6. TargetWaits' /\ DataIsConverted'
  BY <1>1, <1>2, <1>3, <1>4 DEF TargetWaits, DataIsConverted, Writing, ReplacerAt, SameFile
<1>7. ReplaceIsFine' /\ MoveIsFine' /\ ResultIsTrue'
  BY <1>1, <1>2, <1>3, <1>4 DEF ReplaceIsFine, MoveIsFine, ResultIsTrue, TargetWaits, Writing,
     ReplacerAt, SameFile, Complete, KeptOrGone, AsFound, Returned, Misread, NotRestored, ReadOnlyKnown, TargetAsFound, Holds, There, At
<1>8. TargetIsWhole' /\ NothingLost'
  BY <1>1, <1>2, <1>3 DEF TargetWaits, Writing, SameFile, TargetIsWhole, NothingLost,
     LineEndsAreConverted, TargetAsFound, Holds, There
<1> QED
  BY <1>5, <1>6, <1>7, <1>8 DEF IInv

\* what a step of the replacer may do
ReplacerOK ==
    /\ DOMAIN disk = {"target", "temp"} /\ FileTypeOK(disk["target"]) /\ FileTypeOK(disk["temp"])
    /\ replace \in Replacers /\ ~ReplacerAt("idle") /\ mishaps \subseteq {"misread", "notRestored"}
    /\ ~existed => replace.pc \in {"place", "done", "failedKept"}
    /\ ~Spoilt /\ There("temp") => disk["temp"].data = Wanted
    /\ ~Spoilt /\ There("target") => disk["target"].data \in {Old, Foreign, Wanted}
    /\ ReplaceIsFine /\ ResultIsTrue

LEMMA ReplacingKeeps ==
    ASSUME IInv, UNCHANGED <<callerVars, others, meddling>>, pc = "replacing", ReplacerOK'
    PROVE  IInv'
<1>1. /\ UNCHANGED <<fixed, pc, partly, offset, buffer, crlfBreak, others, meddling>>
      /\ SameFile
  BY FileIsFixed DEF callerVars, fixed
<1>2. TypeOK' /\ SourceOK' /\ NewPlaces' /\ Begins' /\ SplitIsKnown'
  BY <1>1 DEF IInv, TypeOK, ReplaceTypeOK, SourceOK, NewPlaces, SameFile, Begins, SplitIsKnown,
              ReplacerOK, Replacers
<1>3. TargetWaits' /\ DataIsConverted' /\ TargetIsWhole' /\ MoveIsFine'
  BY <1>1 DEF TargetWaits, DataIsConverted, Writing, ReplacerOK, TargetIsWhole, MoveIsFine,
              LineEndsAreConverted, SameFile
<1>4. NothingLost'
  <2> SUFFICES ASSUME existed', others' = {}, ~Spoilt'
               PROVE  (Holds("target", Old) \/ Holds("target", Wanted) \/ Holds("temp", Wanted))'
    BY DEF NothingLost
  <2>1. pc' = "replacing" /\ replace'.pc \in ({"place", "attributes", "clear", "replace", "look",
           "lookTemp", "fallback", "finish", "keep"} \union Results)
    BY <1>1 DEF ReplacerOK, Replacers, ReplacerAt
  <2>2. CASE replace'.pc \in Results
    BY <1>1, <2>1, <2>2 DEF ReplacerOK, ResultIsTrue, ReplacerAt, At, Results
  <2>3. CASE replace'.pc \notin Results
    BY <1>1, <2>1, <2>3 DEF ReplacerOK, ReplaceIsFine, ReplacerAt, Complete, KeptOrGone, AsFound, Returned, Misread, NotRestored, ReadOnlyKnown
  <2> QED BY <2>2, <2>3
<1> QED
  BY <1>2, <1>3, <1>4 DEF IInv, ReplacerOK

LEMMA ReplacerIsOK == ASSUME IInv, pc = "replacing" PROVE ReplacerOK
BY DEF IInv, TypeOK, ReplaceTypeOK, ReplacerOK, Replacers, NewPlaces, TargetWaits, Writing,
       ReplacerAt, DataIsConverted, TargetIsWhole, LineEndsAreConverted

LEMMA ReplaceStarts ==
    ASSUME IInv, ReplaceStep PROVE pc = "replacing" /\ UNCHANGED <<others, meddling>>
<1>1. replace.pc \notin {"idle"} \union Results /\ UNCHANGED <<others, meddling>>
  BY DEF ReplaceStep, PlaceNew, ReadAttributes, ClearReadOnly, ReplaceFile, LookForTarget,
         LookForTemp, FallbackMove, FinishMove, KeepTarget, Unmeddled, ReplacerAt, Results
<1> QED
  BY <1>1 DEF IInv, TypeOK, TargetWaits, Writing, ReplacerAt

\* where the replacer goes
LEMMA Going ==
    ASSUME ReplacerOK, NEW place \in {"idle", "place", "attributes", "clear", "replace", "look",
           "lookTemp", "fallback", "finish", "keep"} \union Results, Goes(place)
    PROVE  /\ replace' \in Replacers /\ replace'.pc = place
           /\ replace'.readOnly = replace.readOnly /\ replace'.cleared = replace.cleared
           /\ replace'.targetThere = replace.targetThere
BY DEF ReplacerOK, Goes, Replacers

\* while the caller waits
Waiting ==
    /\ UNCHANGED <<callerVars, others, meddling>> /\ pc = "replacing"
    /\ ReplacerOK

\* what is to be shown of a step, when no other program has touched the files
StepIsFine ==
    /\ SameFile /\ pc' = "replacing" /\ others' = others /\ (Spoilt' <=> Spoilt)

LEMMA WaitingKeeps == ASSUME Waiting PROVE StepIsFine
<1>1. SameFile
  BY FileIsFixed DEF Waiting, callerVars, fixed
<1> QED
  BY <1>1 DEF Waiting, StepIsFine, callerVars, Spoilt, SameFile

\* the temporary file has gone to the place of the target
LEMMA MovedIsDone ==
    ASSUME Waiting, There("temp"), disk' = Moved, Goes("done"), UNCHANGED mishaps
    PROVE  ReplacerOK'
<1>1. StepIsFine /\ UNCHANGED mishaps
  BY WaitingKeeps
<1>2. /\ replace' \in Replacers /\ replace'.pc = "done"
  <2>1. "done" \in Results BY DEF Results
  <2> QED BY <2>1, Going DEF Waiting
<1>3. DOMAIN disk' = {"target", "temp"} /\ disk'["target"] = disk["temp"] /\ disk'["temp"] = Absent
  BY DEF Moved
<1>4. FileTypeOK(Absent) /\ ~Absent.there
  BY DEF FileTypeOK, Absent
<1>5. ReplaceIsFine' /\ ResultIsTrue'
  BY <1>1, <1>2, <1>3, <1>4 DEF StepIsFine, ReplaceIsFine, ResultIsTrue, ReplacerAt, There, Holds,
     Waiting, ReplacerOK, SameFile, At
<1> QED
  BY <1>1, <1>2, <1>3, <1>4, <1>5 DEF Waiting, ReplacerOK, StepIsFine, SameFile, ReplacerAt, There

LEMMA PlaceNewKeeps == ASSUME Waiting, PlaceNew PROVE ReplacerOK'
<1>1. StepIsFine /\ ReplacerOK /\ replace.pc = "place" /\ UNCHANGED mishaps
  BY WaitingKeeps DEF Waiting, PlaceNew, ReplacerAt, NoMishap
<1>2. CASE There("temp") /\ disk' = Moved /\ Goes("done")
  BY <1>1, <1>2, MovedIsDone
<1>3. CASE Goes("failedKept") /\ UNCHANGED disk
  <2>1. replace' \in Replacers /\ replace'.pc = "failedKept"
    <3>1. "failedKept" \in Results BY DEF Results
    <3> QED BY <1>1, <1>3, <3>1, Going
  <2> QED BY <1>1, <1>3, <2>1 DEF StepIsFine, ReplacerOK, ReplaceIsFine, ResultIsTrue, ReplacerAt,
     There, Holds, SameFile, At, Complete, TargetAsFound, Waiting
<1> QED
  BY <1>2, <1>3 DEF PlaceNew

LEMMA ReadAttributesKeeps == ASSUME Waiting, ReadAttributes PROVE ReplacerOK'
<1>1. StepIsFine /\ ReplacerOK /\ replace.pc = "attributes" /\ UNCHANGED disk
  BY WaitingKeeps DEF Waiting, ReadAttributes, ReplacerAt
<1>2. /\ replace' \in Replacers /\ replace'.pc = "clear" /\ replace'.cleared = replace.cleared
      /\ replace'.readOnly => disk["target"].readOnly
  BY <1>1 DEF ReadAttributes, Replacers, ReplacerOK, FileTypeOK, Unmeddled, NoMishap
<1>3. UNCHANGED mishaps /\ (~There("target") => ~disk["target"].readOnly)
  BY <1>1 DEF ReadAttributes, NoMishap, ReplacerOK, FileTypeOK, There, Absent
<1> QED
  BY <1>1, <1>2, <1>3 DEF StepIsFine, ReplacerOK, ReplaceIsFine, ResultIsTrue, ReplacerAt,
     There, Holds, SameFile, At, Complete, KeptOrGone, AsFound, Returned, Misread, NotRestored, ReadOnlyKnown, TargetAsFound, Waiting

LEMMA ClearReadOnlyKeeps == ASSUME Waiting, ClearReadOnly PROVE ReplacerOK'
<1>1. StepIsFine /\ ReplacerOK /\ replace.pc = "clear" /\ UNCHANGED mishaps
  BY WaitingKeeps DEF Waiting, ClearReadOnly, ReplacerAt, NoMishap
<1>2. CASE /\ replace.readOnly /\ There("target")
           /\ disk' = [disk EXCEPT !["target"].readOnly = FALSE]
           /\ replace' = [replace EXCEPT !.pc = "replace", !.cleared = TRUE]
  <2> DEFINE f == disk["target"]
             g == [f EXCEPT !.readOnly = FALSE]
  <2>1. DOMAIN g = DOMAIN f /\ g.there = f.there /\ g.data = f.data /\ g.readOnly = FALSE /\ FileTypeOK(g)
    <3>1. DOMAIN f = {"there", "data", "readOnly"} /\ f.there = TRUE
      BY <1>1, <1>2 DEF ReplacerOK, FileTypeOK, There
    <3>2. DOMAIN g = DOMAIN f /\ g.there = f.there /\ g.data = f.data /\ g.readOnly = FALSE
      BY <3>1
    <3> HIDE DEF f, g
    <3> QED BY <3>1, <3>2 DEF FileTypeOK
  <2>2. disk' = [disk EXCEPT !["target"] = g]
    BY <1>2
  <2> HIDE DEF g
  <2>3. DOMAIN disk' = {"target", "temp"} /\ disk'["target"] = g /\ disk'["temp"] = disk["temp"]
    BY <1>1, <2>2 DEF ReplacerOK
  <2>4. replace' \in Replacers /\ replace'.pc = "replace" /\ replace'.cleared = TRUE
    BY <1>1, <1>2 DEF ReplacerOK, Replacers
  <2> QED BY <1>1, <1>2, <2>1, <2>3, <2>4 DEF StepIsFine, ReplacerOK, ReplaceIsFine, ResultIsTrue, ReplacerAt,
     There, Holds, SameFile, At, Complete, KeptOrGone, AsFound, Returned, Misread, NotRestored, ReadOnlyKnown, Waiting
<1>3. CASE Goes("replace") /\ UNCHANGED disk
  <2>1. replace' \in Replacers /\ replace'.pc = "replace" /\ replace'.cleared = replace.cleared
    BY <1>1, <1>3, Going
  <2>2. replace.cleared \in BOOLEAN
    BY <1>1 DEF ReplacerOK, Replacers
  <2> QED BY <1>1, <1>3, <2>1, <2>2 DEF StepIsFine, ReplacerOK, ReplaceIsFine, ResultIsTrue, ReplacerAt,
     There, Holds, SameFile, At, Complete, KeptOrGone, AsFound, Returned, Misread, NotRestored, ReadOnlyKnown, Waiting
<1> QED
  BY <1>2, <1>3 DEF ClearReadOnly

LEMMA LookForTargetKeeps == ASSUME Waiting, LookForTarget PROVE ReplacerOK'
<1>1. StepIsFine /\ ReplacerOK /\ replace.pc = "look" /\ UNCHANGED disk
  BY WaitingKeeps DEF Waiting, LookForTarget, ReplacerAt
<1>2. PICK answer \in BOOLEAN :
        /\ There("target") => answer
        /\ replace' = [replace EXCEPT !.pc = "lookTemp", !.targetThere = answer]
        /\ mishaps' = mishaps \union (IF answer /\ ~There("target") THEN {"misread"} ELSE {})
  BY DEF LookForTarget, LooksThere
<1>3. /\ replace' \in Replacers /\ replace'.pc = "lookTemp" /\ replace'.cleared = replace.cleared
      /\ replace'.targetThere = answer
  BY <1>1, <1>2 DEF Replacers, ReplacerOK
<1>4. /\ mishaps' \subseteq {"misread", "notRestored"} /\ (NotRestored' <=> NotRestored)
      /\ answer /\ ~There("target") => Misread'
  BY <1>1, <1>2 DEF ReplacerOK, Misread, NotRestored
<1> QED
  BY <1>1, <1>2, <1>3, <1>4 DEF StepIsFine, ReplacerOK, ReplaceIsFine, ResultIsTrue, ReplacerAt,
     There, Holds, SameFile, At, Complete, KeptOrGone, AsFound, Returned, ReadOnlyKnown, Waiting

LEMMA LookForTempKeeps == ASSUME Waiting, LookForTemp PROVE ReplacerOK'
<1>1. StepIsFine /\ ReplacerOK /\ replace.pc = "lookTemp" /\ UNCHANGED disk
  BY WaitingKeeps DEF Waiting, LookForTemp, ReplacerAt
<1>0. PICK answer \in BOOLEAN :
        LooksThere("temp", answer) /\ Goes(FailureNext(replace.targetThere, answer))
  BY DEF LookForTemp
<1> DEFINE place == FailureNext(replace.targetThere, answer)
<1>2. /\ place \in {"finish", "bothGone", "fallback", "keep"}
      /\ replace.targetThere => place \in {"fallback", "keep"}
      /\ ~replace.targetThere /\ There("temp") => place = "finish"
  BY <1>0, <1>1 DEF FailureNext, LooksThere
<1>3. Goes(place) /\ UNCHANGED mishaps
  BY <1>0 DEF LookForTemp, NoMishap
<1> HIDE DEF place
<1>4. replace' \in Replacers /\ replace'.pc = place /\ replace'.cleared = replace.cleared
  <2>1. place \in {"idle", "place", "attributes", "clear", "replace", "look",
           "lookTemp", "fallback", "finish", "keep"} \union Results
    BY <1>2 DEF Results
  <2> QED BY <1>1, <1>3, <2>1, Going
<1>5. replace.targetThere \in BOOLEAN
  BY <1>1 DEF ReplacerOK, Replacers
<1> QED
  BY <1>1, <1>2, <1>3, <1>4, <1>5 DEF StepIsFine, ReplacerOK, ReplaceIsFine, ResultIsTrue, ReplacerAt,
     There, Holds, SameFile, At, Complete, KeptOrGone, AsFound, Returned, Misread, NotRestored, ReadOnlyKnown, Waiting

LEMMA ReplaceFails ==
    ASSUME Waiting, NEW u \in BOOLEAN, ReplaceFailed(u), replace.pc = "replace",
           UNCHANGED mishaps,
           \/ disk' = [disk EXCEPT !["target"] = Absent]
           \/ UNCHANGED disk
    PROVE  ReplacerOK'
<1>1. StepIsFine /\ ReplacerOK /\ UNCHANGED mishaps
  BY WaitingKeeps DEF Waiting
<1>2. /\ replace' \in Replacers /\ replace'.pc = "look" /\ replace'.cleared = replace.cleared
  BY <1>1 DEF ReplaceFailed, Replacers, ReplacerOK
<1>3. FileTypeOK(Absent) /\ ~Absent.there
  BY DEF FileTypeOK, Absent
<1>4. /\ DOMAIN disk' = {"target", "temp"} /\ disk'["temp"] = disk["temp"]
      /\ disk'["target"] = Absent \/ disk'["target"] = disk["target"]
  BY <1>1 DEF ReplacerOK
<1>5. CASE disk'["target"] = Absent
  BY <1>1, <1>2, <1>3, <1>4, <1>5 DEF StepIsFine, ReplacerOK, ReplaceIsFine, ResultIsTrue, ReplacerAt,
     There, Holds, SameFile, At, Complete, KeptOrGone, AsFound, Returned, Misread, NotRestored, ReadOnlyKnown, Waiting
<1>6. CASE disk'["target"] = disk["target"]
  BY <1>1, <1>2, <1>4, <1>6 DEF StepIsFine, ReplacerOK, ReplaceIsFine, ResultIsTrue, ReplacerAt,
     There, Holds, SameFile, At, Complete, KeptOrGone, AsFound, Returned, Misread, NotRestored, ReadOnlyKnown, Waiting
<1> QED
  BY <1>4, <1>5, <1>6

LEMMA ReplaceFileKeeps == ASSUME Waiting, ReplaceFile PROVE ReplacerOK'
<1>1. StepIsFine /\ ReplacerOK /\ replace.pc = "replace" /\ UNCHANGED mishaps
  BY WaitingKeeps DEF Waiting, ReplaceFile, ReplacerAt, NoMishap
<1>2. CASE /\ There("target") /\ There("temp") /\ ~disk["target"].readOnly
           /\ disk' = [target |-> [FileOf(disk["temp"].data) EXCEPT
                                     !.readOnly = disk["target"].readOnly],
                       temp |-> Absent]
           /\ Goes("done")
  <2>1. /\ replace' \in Replacers /\ replace'.pc = "done"
    <3>1. "done" \in Results BY DEF Results
    <3> QED BY <1>1, <1>2, <3>1, Going
  <2> DEFINE d == disk["temp"].data
             r == disk["target"].readOnly
             f == [there |-> TRUE, data |-> d, readOnly |-> r]
  <2>2. [FileOf(d) EXCEPT !.readOnly = r] = f
    BY FileWith
  <2>3. disk' = [target |-> f, temp |-> Absent]
    BY <1>2, <2>2
  <2>4. r \in BOOLEAN
    BY <1>1 DEF ReplacerOK, FileTypeOK
  <2>5. FileTypeOK(f) /\ f.there /\ f.data = d
    BY <2>4 DEF FileTypeOK
  <2> HIDE DEF f
  <2>6. DOMAIN disk' = {"target", "temp"} /\ disk'["target"] = f /\ disk'["temp"] = Absent
    BY <2>3
  <2>7. FileTypeOK(Absent) /\ ~Absent.there
    BY DEF FileTypeOK, Absent
  <2> QED BY <1>1, <1>2, <2>1, <2>5, <2>6, <2>7 DEF StepIsFine, ReplacerOK, ReplaceIsFine, ResultIsTrue,
     ReplacerAt, There, Holds, SameFile, At, Waiting
<1>3. CASE disk' = [disk EXCEPT !["target"] = Absent] /\ ReplaceFailed(FALSE)
  BY <1>1, <1>3, ReplaceFails
<1>4. ASSUME NEW u \in BOOLEAN, ReplaceFailed(u), UNCHANGED disk PROVE ReplacerOK'
  BY <1>1, <1>4, ReplaceFails
<1> QED
  BY <1>2, <1>3, <1>4 DEF ReplaceFile

LEMMA FallbackMoveKeeps == ASSUME Waiting, FallbackMove PROVE ReplacerOK'
<1>1. StepIsFine /\ ReplacerOK /\ replace.pc = "fallback" /\ UNCHANGED mishaps
  BY WaitingKeeps DEF Waiting, FallbackMove, ReplacerAt, NoMishap
<1>2. CASE There("temp") /\ disk' = Moved /\ Goes("done")
  BY <1>1, <1>2, MovedIsDone
<1>3. CASE replace' = [replace EXCEPT !.pc = "look", !.fallback = TRUE] /\ UNCHANGED disk
  <2>1. replace' \in Replacers /\ replace'.pc = "look" /\ replace'.cleared = replace.cleared
    BY <1>1, <1>3 DEF ReplacerOK, Replacers
  <2> QED BY <1>1, <1>3, <2>1 DEF StepIsFine, ReplacerOK, ReplaceIsFine, ResultIsTrue, ReplacerAt,
     There, Holds, SameFile, At, Complete, KeptOrGone, AsFound, Returned, Misread, NotRestored, ReadOnlyKnown, Waiting
<1> QED
  BY <1>2, <1>3 DEF FallbackMove

LEMMA FinishMoveKeeps == ASSUME Waiting, FinishMove PROVE ReplacerOK'
<1>1. StepIsFine /\ ReplacerOK /\ replace.pc = "finish" /\ UNCHANGED mishaps
  BY WaitingKeeps DEF Waiting, FinishMove, ReplacerAt, NoMishap
<1>2. CASE There("temp") /\ disk' = Moved /\ Goes("done")
  BY <1>1, <1>2, MovedIsDone
<1>3. CASE Goes("leftAtTemp") /\ UNCHANGED disk
  <2>1. replace' \in Replacers /\ replace'.pc = "leftAtTemp"
    <3>1. "leftAtTemp" \in Results BY DEF Results
    <3> QED BY <1>1, <1>3, <3>1, Going
  <2> QED BY <1>1, <1>3, <2>1 DEF StepIsFine, ReplacerOK, ReplaceIsFine, ResultIsTrue, ReplacerAt,
     There, Holds, SameFile, At, Complete, Waiting
<1> QED
  BY <1>2, <1>3 DEF FinishMove

LEMMA KeepTargetKeeps == ASSUME Waiting, KeepTarget PROVE ReplacerOK'
<1>1. StepIsFine /\ ReplacerOK /\ replace.pc = "keep" /\ RestoreReadOnly /\ Goes("failedKept")
  BY WaitingKeeps DEF Waiting, KeepTarget, ReplacerAt
<1>2. /\ replace' \in Replacers /\ replace'.pc = "failedKept" /\ replace'.cleared = replace.cleared
  <2>1. "failedKept" \in Results BY DEF Results
  <2> QED BY <1>1, <2>1, Going
<1>3. CASE /\ replace.cleared /\ There("target")
           /\ disk' = [disk EXCEPT !["target"].readOnly = TRUE] /\ UNCHANGED mishaps
  <2> DEFINE f == disk["target"]
             g == [f EXCEPT !.readOnly = TRUE]
  <2>1. DOMAIN g = DOMAIN f /\ g.there = f.there /\ g.data = f.data /\ g.readOnly = TRUE /\ FileTypeOK(g)
    <3>1. DOMAIN f = {"there", "data", "readOnly"} /\ f.there = TRUE
      BY <1>1, <1>3 DEF ReplacerOK, FileTypeOK, There
    <3>2. DOMAIN g = DOMAIN f /\ g.there = f.there /\ g.data = f.data /\ g.readOnly = TRUE
      BY <3>1
    <3> HIDE DEF f, g
    <3> QED BY <3>1, <3>2 DEF FileTypeOK
  <2>2. disk' = [disk EXCEPT !["target"] = g]
    BY <1>3
  <2> HIDE DEF g
  <2>3. DOMAIN disk' = {"target", "temp"} /\ disk'["target"] = g /\ disk'["temp"] = disk["temp"]
    BY <1>1, <2>2 DEF ReplacerOK
  <2> QED BY <1>1, <1>2, <1>3, <2>1, <2>3 DEF StepIsFine, ReplacerOK, ReplaceIsFine, ResultIsTrue, ReplacerAt,
     There, Holds, SameFile, At, Complete, KeptOrGone, AsFound, Returned, Misread, NotRestored,
     ReadOnlyKnown, Waiting
<1>4. CASE /\ UNCHANGED disk
           /\ \/ UNCHANGED mishaps /\ ~replace.cleared
              \/ mishaps' = mishaps \union {"notRestored"}
  <2>1. /\ mishaps' \subseteq {"misread", "notRestored"} /\ (Misread' <=> Misread)
        /\ replace.cleared => NotRestored'
        /\ NotRestored => NotRestored'
    BY <1>1, <1>4 DEF ReplacerOK, Misread, NotRestored
  <2> QED BY <1>1, <1>2, <1>4, <2>1 DEF StepIsFine, ReplacerOK, ReplaceIsFine, ResultIsTrue, ReplacerAt,
     There, Holds, SameFile, At, Complete, KeptOrGone, AsFound, Returned, ReadOnlyKnown, Waiting
<1> QED
  BY <1>1, <1>3, <1>4 DEF RestoreReadOnly

LEMMA ReplaceKeeps == ASSUME IInv, ReplaceStep, UNCHANGED callerVars PROVE IInv'
<1>1. Waiting
  BY ReplaceStarts, ReplacerIsOK DEF Waiting
<1>2. ReplacerOK'
  BY <1>1, PlaceNewKeeps, ReadAttributesKeeps, ClearReadOnlyKeeps, ReplaceFileKeeps,
     LookForTargetKeeps, LookForTempKeeps, FallbackMoveKeeps, FinishMoveKeeps, KeepTargetKeeps
     DEF ReplaceStep
<1> QED
  BY <1>1, <1>2, ReplacingKeeps DEF Waiting

\* SetReadOnly changes the attribute of a file only
LEMMA SetReadOnlyChanges ==
    ASSUME IInv, NEW name \in {"target", "temp"}, SetReadOnly(name)
    PROVE  /\ DOMAIN disk' = {"target", "temp"}
           /\ FileTypeOK(disk'["target"]) /\ FileTypeOK(disk'["temp"])
           /\ disk'["target"].there = disk["target"].there
           /\ disk'["target"].data = disk["target"].data
           /\ disk'["temp"].there = disk["temp"].there
           /\ disk'["temp"].data = disk["temp"].data
<1>1. /\ DOMAIN disk = {"target", "temp"} /\ wasReadOnly \in BOOLEAN
      /\ FileTypeOK(disk["target"]) /\ FileTypeOK(disk["temp"])
  BY DEF IInv, TypeOK, ReplaceTypeOK
<1>2. CASE /\ caller = "convert" /\ There(name)
           /\ disk' = [disk EXCEPT ![name].readOnly = wasReadOnly]
  <2> DEFINE f == disk[name]
             g == [f EXCEPT !.readOnly = wasReadOnly]
  <2>1. DOMAIN g = DOMAIN f /\ g.there = f.there /\ g.data = f.data /\ FileTypeOK(g)
    <3>1. DOMAIN f = {"there", "data", "readOnly"} /\ f.there = TRUE
      BY <1>1, <1>2 DEF FileTypeOK, There
    <3>2. DOMAIN g = DOMAIN f /\ g.there = f.there /\ g.data = f.data /\ g.readOnly = wasReadOnly
      BY <3>1
    <3> HIDE DEF f, g
    <3> QED BY <3>1, <3>2, <1>1 DEF FileTypeOK
  <2>2. disk' = [disk EXCEPT ![name] = g]
    BY <1>2
  <2> HIDE DEF g
  <2>3. DOMAIN disk' = {"target", "temp"} /\ disk'[name] = g
        /\ \A other \in {"target", "temp"} \ {name} : disk'[other] = disk[other]
    BY <1>1, <2>2
  <2> QED BY <1>1, <2>1, <2>3
<1>3. CASE UNCHANGED disk
  BY <1>1, <1>3
<1> QED
  BY <1>2, <1>3 DEF SetReadOnly

\* the end of a replacement
LEMMA EndKeeps ==
    ASSUME IInv, UNCHANGED <<fixed, partly, offset, buffer, crlfBreak, replace, others, meddling, mishaps>>,
           pc \in {"replacing", "move"}, pc' = "end", replace.pc \in Results,
           DOMAIN disk' = {"target", "temp"},
           FileTypeOK(disk'["target"]), FileTypeOK(disk'["temp"]),
           TargetIsWhole', NothingLost'
    PROVE  IInv'
<1>1. SameFile
  BY FileIsFixed
<1>2. TypeOK' /\ SourceOK' /\ NewPlaces' /\ TargetWaits'
  BY <1>1 DEF IInv, TypeOK, ReplaceTypeOK, SourceOK, NewPlaces, SameFile, TargetWaits, Writing
<1>3. Begins' /\ SplitIsKnown' /\ DataIsConverted' /\ ReplaceIsFine' /\ MoveIsFine' /\ ResultIsTrue'
  BY DEF Begins, SplitIsKnown, DataIsConverted, ReplaceIsFine, MoveIsFine, ResultIsTrue, At
<1> QED
  BY <1>2, <1>3 DEF IInv

LEMMA ReplacedKeeps == ASSUME IInv, Replaced PROVE IInv'
<1>1. /\ UNCHANGED <<fixed, partly, offset, buffer, crlfBreak, replace, others, meddling, mishaps>>
      /\ pc = "replacing" /\ pc' = "end" /\ replace.pc = "done" /\ SetReadOnly("target")
  BY DEF Replaced, NoReplace, At, GoTo, ReplacerAt
<1>2. SameFile /\ (Spoilt' <=> Spoilt)
  BY <1>1, FileIsFixed DEF Spoilt, SameFile
<1>3. /\ DOMAIN disk' = {"target", "temp"}
      /\ FileTypeOK(disk'["target"]) /\ FileTypeOK(disk'["temp"])
      /\ disk'["target"].there = disk["target"].there
      /\ disk'["target"].data = disk["target"].data
  BY <1>1, SetReadOnlyChanges
<1>4. TargetIsWhole'
  BY <1>2, <1>3 DEF IInv, TargetIsWhole, LineEndsAreConverted, There, SameFile
<1>5. NothingLost'
  BY <1>1, <1>2, <1>3 DEF IInv, NothingLost, ResultIsTrue, Holds, There, SameFile, At, ReplacerAt, Misread
<1> QED
  BY <1>1, <1>3, <1>4, <1>5, EndKeeps DEF Results

LEMMA LeftAtTempKeeps == ASSUME IInv, LeftAtTemp PROVE IInv'
<1>1. /\ UNCHANGED <<fixed, partly, offset, buffer, crlfBreak, replace, others, meddling, mishaps>>
      /\ pc = "replacing" /\ pc' = (IF caller = "convert" THEN "move" ELSE "end")
      /\ replace.pc = "leftAtTemp" /\ SetReadOnly("temp")
  BY DEF LeftAtTemp, NoReplace, At, GoTo, ReplacerAt
<1>2. SameFile /\ (Spoilt' <=> Spoilt)
  BY <1>1, FileIsFixed DEF Spoilt, SameFile
<1>3. /\ DOMAIN disk' = {"target", "temp"}
      /\ FileTypeOK(disk'["target"]) /\ FileTypeOK(disk'["temp"])
      /\ disk'["target"].there = disk["target"].there
      /\ disk'["target"].data = disk["target"].data
      /\ disk'["temp"].there = disk["temp"].there
      /\ disk'["temp"].data = disk["temp"].data
  BY <1>1, SetReadOnlyChanges
<1>4. TargetIsWhole'
  BY <1>2, <1>3 DEF IInv, TargetIsWhole, LineEndsAreConverted, There, SameFile
<1>5. NothingLost'
  BY <1>1, <1>2, <1>3 DEF IInv, NothingLost, Holds, There, SameFile, At, Misread
<1>6. CASE caller = "convert"
  <2>1. existed
    BY <1>1 DEF IInv, NewPlaces, SourceOK
  <2>2. TypeOK' /\ SourceOK' /\ NewPlaces' /\ TargetWaits' /\ Begins' /\ SplitIsKnown'
    BY <1>1, <1>2, <1>3, <1>6, <2>1 DEF IInv, TypeOK, ReplaceTypeOK, SourceOK, NewPlaces, SameFile,
       TargetWaits, Writing, Begins, SplitIsKnown, Results
  <2>3. DataIsConverted'
    BY <1>1, <1>2, <1>3, <1>6 DEF IInv, DataIsConverted, SameFile, There
  <2>4. ReplaceIsFine' /\ MoveIsFine' /\ ResultIsTrue'
    BY <1>1, <1>2, <1>3, <1>6 DEF IInv, ReplaceIsFine, MoveIsFine, ResultIsTrue, At, ReplacerAt,
       Complete, Holds, There, SameFile
  <2> QED BY <2>2, <2>3, <2>4, <1>4, <1>5 DEF IInv
<1>7. CASE caller # "convert"
  BY <1>1, <1>3, <1>4, <1>5, <1>7, EndKeeps DEF Results
<1> QED
  BY <1>6, <1>7

LEMMA MoveTempKeeps == ASSUME IInv, MoveTemp PROVE IInv'
<1>1. /\ UNCHANGED <<fixed, partly, offset, buffer, crlfBreak, replace, others, meddling, mishaps>>
      /\ pc = "move" /\ pc' = "end"
      /\ \/ There("temp") /\ disk' = Moved
         \/ UNCHANGED disk
  BY DEF MoveTemp, NoReplace, At, GoTo
<1>2. SameFile /\ (Spoilt' <=> Spoilt)
  BY <1>1, FileIsFixed DEF Spoilt, SameFile
<1>3. /\ replace.pc \in Results
      /\ ~Spoilt /\ There("temp") => disk["temp"].data = Wanted
  BY <1>1 DEF IInv, TargetWaits, DataIsConverted
<1>4. CASE There("temp") /\ disk' = Moved
  <2>1. DOMAIN disk' = {"target", "temp"} /\ disk'["target"] = disk["temp"] /\ disk'["temp"] = Absent
    BY <1>4 DEF Moved
  <2>2. FileTypeOK(disk'["target"]) /\ FileTypeOK(disk'["temp"])
    BY <2>1 DEF IInv, TypeOK, ReplaceTypeOK, FileTypeOK, Absent
  <2>3. TargetIsWhole' /\ NothingLost'
    BY <1>2, <1>3, <1>4, <2>1 DEF TargetIsWhole, LineEndsAreConverted, There, SameFile, NothingLost, Holds, At, Misread
  <2> QED BY <1>1, <1>3, <2>1, <2>2, <2>3, EndKeeps
<1>5. CASE UNCHANGED disk
  <2>1. TargetIsWhole' /\ NothingLost'
    BY <1>1, <1>2, <1>5 DEF IInv, TargetIsWhole, LineEndsAreConverted, There, SameFile, NothingLost, Holds, At, Misread
  <2>2. DOMAIN disk' = {"target", "temp"} /\ FileTypeOK(disk'["target"]) /\ FileTypeOK(disk'["temp"])
    BY <1>5 DEF IInv, TypeOK, ReplaceTypeOK
  <2> QED BY <1>1, <1>3, <2>1, <2>2, EndKeeps
<1> QED
  BY <1>1, <1>4, <1>5

LEMMA NotReplacedKeeps == ASSUME IInv, NotReplaced PROVE IInv'
<1>1. /\ UNCHANGED <<fixed, partly, offset, buffer, crlfBreak, others, meddling, mishaps>>
      /\ pc = "replacing" /\ replace.pc \in {"failedKept", "bothGone"}
      /\ \/ /\ caller = "convert" /\ UNCHANGED <<disk, pc>>
            /\ Call(TRUE, TRUE) \/ Goes("failedKept")
         \/ RemoveTemp /\ pc' = "end" /\ UNCHANGED replace
  BY DEF NotReplaced, CallReplace, NoReplace, At, GoTo, Useless, Unmeddled, NoMishap
<1>2. SameFile /\ (Spoilt' <=> Spoilt)
  BY <1>1, FileIsFixed DEF Spoilt, SameFile
<1>3. CASE caller = "convert" /\ (Call(TRUE, TRUE) \/ Goes("failedKept")) /\ UNCHANGED <<disk, pc>>
  <2>1. ReplacerOK /\ existed
    BY <1>1, <1>3, ReplacerIsOK DEF IInv, NewPlaces, SourceOK
  <2>2. /\ replace' \in Replacers
        /\ \/ replace'.pc = "attributes" /\ replace'.cleared = FALSE
           \/ replace'.pc = "failedKept"
    BY <1>3, <2>1 DEF Call, Goes, ReplacerOK, Replacers, Results
  <2>3. ReplacerOK'
    BY <1>1, <1>2, <1>3, <2>1, <2>2 DEF ReplacerOK, SameFile, ReplacerAt, ReplaceIsFine, ResultIsTrue,
       KeptOrGone, AsFound, Returned, Misread, NotRestored, ReadOnlyKnown, TargetAsFound, Complete, Holds, There, At
  <2> QED BY <1>1, <1>3, <2>3, ReplacingKeeps DEF callerVars, fixed
<1>4. CASE RemoveTemp /\ pc' = "end" /\ UNCHANGED replace
  <2>1. DOMAIN disk' = {"target", "temp"} /\ disk'["target"] = disk["target"]
        /\ disk'["temp"] \in {Absent, disk["temp"]}
    BY <1>4 DEF RemoveTemp, IInv, TypeOK, ReplaceTypeOK
  <2>2. FileTypeOK(disk'["target"]) /\ FileTypeOK(disk'["temp"])
    <3>1. FileTypeOK(Absent)
      BY DEF FileTypeOK, Absent
    <3> QED BY <2>1, <3>1 DEF IInv, TypeOK, ReplaceTypeOK
  <2>3. TargetIsWhole'
    BY <1>2, <2>1 DEF IInv, TargetIsWhole, LineEndsAreConverted, There, SameFile
  <2>4. NothingLost'
    BY <1>1, <1>2, <1>4, <2>1 DEF IInv, NothingLost, ResultIsTrue, At, ReplacerAt, Holds, There, SameFile, Misread
  <2> QED BY <1>1, <1>4, <2>1, <2>2, <2>3, <2>4, EndKeeps DEF Results
<1> QED
  BY <1>1, <1>3, <1>4

LEMMA OthersKeep == ASSUME IInv, OtherPrograms PROVE IInv'
<1>1. /\ UNCHANGED <<callerVars, fixed, pc, partly, offset, buffer, crlfBreak, replace, mishaps>>
      /\ SameFile /\ (Spoilt' <=> Spoilt)
  <2>1. UNCHANGED <<callerVars, replace, mishaps>>
    BY DEF OtherPrograms, OthersRemove, OthersCreate, Meddle
  <2>2. SameFile
    BY <2>1, FileIsFixed DEF callerVars, fixed
  <2> QED BY <2>1, <2>2 DEF callerVars, fixed, Spoilt, SameFile
<1>2. pc \notin {"open", "end"} /\ others' # {} /\ others' \subseteq {"removed", "created"}
      /\ meddling' \in 0..MaxMeddling
  <2>1. PICK what \in {"removed", "created"} : Meddle(what)
    BY DEF OtherPrograms, OthersRemove, OthersCreate
  <2>2. others \subseteq {"removed", "created"} /\ meddling \in 0..MaxMeddling
    BY DEF IInv, TypeOK, ReplaceTypeOK
  <2>3. pc \notin {"open", "end"}
    BY DEF OtherPrograms
  <2>4. others' = others \union {what}
    BY <2>1 DEF Meddle
  <2>5. meddling' \in 0..MaxMeddling
    BY <2>1, <2>2, MeddlingAssumption DEF Meddle
  <2> QED BY <2>2, <2>3, <2>4, <2>5
<1>3. /\ DOMAIN disk' = {"target", "temp"}
      /\ disk'["target"] \in {disk["target"], Absent, FileOf(Foreign)}
      /\ disk'["temp"] \in {disk["temp"], Absent}
      /\ pc \in {"copy", "write", "flush"} => disk'["temp"] = disk["temp"]
  BY DEF OtherPrograms, OthersRemove, OthersCreate, Held, IInv, TypeOK, ReplaceTypeOK
<1>4. /\ FileTypeOK(Absent) /\ ~Absent.there
      /\ FileTypeOK(FileOf(Foreign)) /\ FileOf(Foreign).data = Foreign
  BY DEF FileTypeOK, Absent, FileOf
<1>5. FileTypeOK(disk'["target"]) /\ FileTypeOK(disk'["temp"])
  BY <1>3, <1>4 DEF IInv, TypeOK, ReplaceTypeOK
<1>6. TypeOK'
  BY <1>1, <1>2, <1>3, <1>5 DEF IInv, TypeOK, ReplaceTypeOK, SameFile, There
<1>7. SourceOK' /\ NewPlaces' /\ Begins' /\ SplitIsKnown'
  BY <1>1 DEF IInv, SourceOK, NewPlaces, Begins, SplitIsKnown, SameFile
<1>8. DataIsConverted'
  BY <1>1, <1>3, <1>4 DEF IInv, DataIsConverted, SameFile, OutputOf, There
<1>9. TargetWaits'
  BY <1>1, <1>2, <1>3, <1>4 DEF IInv, TargetWaits, Writing, There, ReplacerAt
<1>10. TargetIsWhole'
  BY <1>1, <1>3, <1>4 DEF IInv, TargetIsWhole, LineEndsAreConverted, There, SameFile
<1>11. NothingLost' /\ ResultIsTrue' /\ ReplaceIsFine' /\ MoveIsFine'
  BY <1>2 DEF NothingLost, ResultIsTrue, ReplaceIsFine, MoveIsFine
<1> QED
  BY <1>6, <1>7, <1>8, <1>9, <1>10, <1>11 DEF IInv

LEMMA StutterKeeps == ASSUME IInv, UNCHANGED vars PROVE IInv'
<1>1. UNCHANGED <<disk, replace, others, meddling, mishaps, fixed, pc, partly, offset, buffer, crlfBreak>> /\ SameFile
      /\ (Spoilt' <=> Spoilt)
  <2>1. UNCHANGED <<disk, replace, others, meddling, mishaps, fixed, pc, partly, offset, buffer, crlfBreak>>
    BY DEF vars, replaceVars, callerVars, fixed
  <2>2. SameFile
    BY <2>1, FileIsFixed
  <2> QED BY <2>1, <2>2 DEF Spoilt, SameFile
<1>2. TypeOK' /\ SourceOK' /\ NewPlaces' /\ Begins' /\ SplitIsKnown'
  BY <1>1 DEF IInv, TypeOK, ReplaceTypeOK, SourceOK, NewPlaces, Begins, SplitIsKnown, SameFile, There
<1>3. DataIsConverted' /\ TargetWaits' /\ TargetIsWhole'
  BY <1>1 DEF IInv, DataIsConverted, SameFile, OutputOf, There, TargetWaits, Writing, TargetAsFound, Holds,
     ReplacerAt, TargetIsWhole, LineEndsAreConverted
<1>4. NothingLost' /\ ResultIsTrue' /\ MoveIsFine'
  BY <1>1 DEF IInv, NothingLost, ResultIsTrue, MoveIsFine, Holds, There, SameFile, At, ReplacerAt, Complete,
     Misread, NotRestored
<1>5. ReplaceIsFine'
  BY <1>1 DEF IInv, ReplaceIsFine, KeptOrGone, AsFound, Returned, Misread, NotRestored, ReadOnlyKnown, TargetAsFound, Holds, There, SameFile,
     ReplacerAt, Complete
<1> QED
  BY <1>2, <1>3, <1>4, <1>5 DEF IInv

LEMMA NextKeeps == IInv /\ [Next]_vars => IInv'
<1> SUFFICES ASSUME IInv, [Next]_vars PROVE IInv'
  OBVIOUS
<1>1. CASE Next
  BY <1>1, OpenKeeps, CreateTempKeeps, ReadBlockKeeps, WriteBlockKeeps, WriteShortKeeps,
     WriteExportKeeps, GiveUpKeeps, FlushKeeps, ReplaceKeeps, ReplacedKeeps, LeftAtTempKeeps,
     MoveTempKeeps, NotReplacedKeeps, OthersKeep DEF Next
<1>2. CASE UNCHANGED vars
  BY <1>2, StutterKeeps
<1> QED
  BY <1>1, <1>2

LEMMA Invariance == Spec => []IInv
BY InitEstablishes, NextKeeps, PTL DEF Spec

(* The type invariant. *)
THEOREM TypeCorrect == Spec => []TypeOK
<1>1. IInv => TypeOK
  BY DEF IInv
<1> QED
  BY <1>1, Invariance, PTL

(* The target of a conversion is never part of a file: whatever fails, and     *)
(* whatever other programs do, it has its old content or the conversion of the *)
(* whole file, block by block the same as in one piece (but for Spoilt).       *)
THEOREM TargetStaysWhole == Spec => []TargetIsWhole
<1>1. IInv => TargetIsWhole
  BY DEF IInv
<1> QED
  BY <1>1, Invariance, PTL

(* Whenever the program dies, and however SalReplaceWithTempW fails, the old   *)
(* content or the whole of the new one is in one of the two files, unless the  *)
(* attributes of a target that ReplaceFileW had moved away could not be read:  *)
(* then it is so until the caller has ended.                                   *)
THEOREM NothingIsLost == Spec => []NothingLost
<1>1. IInv => NothingLost
  BY DEF IInv
<1> QED
  BY <1>1, Invariance, PTL

(* What SalReplaceWithTempW answers to its caller is what has become of the    *)
(* two files; "kept" means no less than ResultIsTrue says when the read-only   *)
(* attribute could not be put back or the target's attributes not be read.     *)
THEOREM AnswerIsTrue == Spec => []ResultIsTrue
<1>1. IInv => ResultIsTrue
  BY DEF IInv
<1> QED
  BY <1>1, Invariance, PTL

\* what UnseenFileIsKept says of a step
TargetStays == ~existed /\ There("target") /\ meddling' = meddling => disk'["target"] = disk["target"]

LEMMA UnseenStays == ASSUME IInv, Next PROVE TargetStays
<1> SUFFICES ASSUME ~existed, There("target"), meddling' = meddling
             PROVE  disk'["target"] = disk["target"]
  BY DEF TargetStays
<1>1. /\ DOMAIN disk = {"target", "temp"} /\ caller = "export" /\ pc # "move"
      /\ replace.pc \in {"idle", "place", "done", "failedKept"} /\ meddling \in Nat
  BY MeddlingAssumption DEF IInv, TypeOK, ReplaceTypeOK, NewPlaces
<1>2. CASE ReplaceStep
  <2>1. PlaceNew
    BY <1>1, <1>2 DEF ReplaceStep, ReplacerAt, ReadAttributes, ClearReadOnly, ReplaceFile,
                      LookForTarget, LookForTemp, FallbackMove, FinishMove, KeepTarget
  <2> QED BY <2>1 DEF PlaceNew, Free
<1>3. CASE Open \/ CreateTemp \/ ReadBlock \/ WriteBlock \/ WriteShort \/ WriteExport
           \/ GiveUp \/ FlushFails \/ Flush
  BY <1>1, <1>3 DEF Open, CreateTemp, ReadBlock, WriteBlock, WriteShort, WriteExport, GiveUp,
                    FlushFails, Flush, RemoveTemp, AppendToTemp
<1>4. CASE Replaced \/ LeftAtTemp
  BY <1>1, <1>4 DEF Replaced, LeftAtTemp, SetReadOnly
<1>5. CASE MoveTemp
  BY <1>1, <1>5 DEF MoveTemp, At
<1>6. CASE NotReplaced
  BY <1>1, <1>6 DEF NotReplaced, RemoveTemp
<1>7. CASE OtherPrograms
  BY <1>1, <1>7 DEF OtherPrograms, OthersRemove, OthersCreate, Meddle
<1> QED
  BY <1>2, <1>3, <1>4, <1>5, <1>6, <1>7 DEF Next

(* A file that another program has created since the caller looked is never    *)
(* overwritten: neither while the temporary file is written nor when it is put *)
(* in place, after an error or not.                                            *)
THEOREM UnseenIsKept == Spec => UnseenFileIsKept
<1>1. IInv /\ [Next]_vars =>
         [~existed /\ There("target") /\ meddling' = meddling =>
             disk'["target"] = disk["target"]]_vars
  BY UnseenStays DEF TargetStays
<1> QED
  BY <1>1, Invariance, PTL DEF Spec, UnseenFileIsKept
=============================================================================
