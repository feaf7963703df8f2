-------------------------- MODULE DiskCacheProofs --------------------------
(***************************************************************************)
(* Theorems about the cache of temporary copies, for any number of names,  *)
(* threads, panels and viewers.                                            *)
(***************************************************************************)
EXTENDS DiskCache, TLAPS, FiniteSetTheorems

-----------------------------------------------------------------------------
(* The inductive invariant                                                 *)

\* The links of a record, which does not exist without them.
NewOf(recs, n) == IF recs[n] = None THEN 0 ELSE recs[n].new
LocksOf(recs, n) == IF recs[n] = None THEN {} ELSE recs[n].locks
HolderOf(recs, n) == IF recs[n] = None THEN None ELSE recs[n].holder

\* The pairs (lock, name) that the records hold.
Links(recs) == {p \in Pair : p[1] \in LocksOf(recs, p[2])}

Elements(s) == {s[i] : i \in 1..Len(s)}

\* The pairs in the arrays of the watching thread.
WatchedPairs == Elements(watched)

\* What is true of one record between two steps: its type, the invariant of
\* the edit pin, and that the mark of a flush is not lost.
RecordOK(r) ==
    /\ r \in Rec
    /\ r.edits > 0 => ~ r.outOfDate
    /\ r.stale => r.edits > 0
    /\ r.old /\ r.edits = 0 => r.outOfDate /\ ~ r.cached
    /\ r.old /\ r.edits > 0 => r.stale

AllOK(recs) == \A n \in Name : recs[n] # None => RecordOK(recs[n])

\* Part 2 of the invariant: every record is consistent.
RecordsAreOK == AllOK(rec)

\* Part 3: NewCount is the number of clients that have a request.
NewCountIsRight ==
    \A n \in Name : NewOf(rec, n) = Cardinality(Requests(n))

\* A client has a request exactly when it is in one of these places.
Requesting == {"blocked", "entering", "filling", "using", "boxing"}

\* Part 4: a client has a request exactly between its look-up and its release.
RequestsArePlaced ==
    \A c \in Client : at[c] \in Requesting <=> name[c] # None

\* Part 5: a client that fills a copy owns its mutex.
PreparersHold ==
    \A c \in Client :
        at[c] \in {"entering", "filling"} => HolderOf(rec, name[c]) = c

\* Part 6: the box is a lock: one client is in it, or a pair, or nothing.
BoxIsExclusive ==
    /\ boxFree => inBox = None
    /\ \A c \in Client : at[c] = "boxing" => ~ boxFree /\ inBox = None
    /\ \A c, d \in Client : at[c] = "boxing" /\ at[d] = "boxing" => c = d

\* Part 7: the hand is full while the watching thread is about to enter the
\* monitor, and once it has dropped a pair and stands still.
HandIsUsed == hand # None <=> watcher \in {"satisfied", "stuck"}

\* Part 8: each lock of a record is on its way through the box, the arrays or the
\* hand of the watching thread (where a dropped one stays), and nothing else is.
LinksAreWatched == Links(rec) = WatchedPairs \cup InTransit

\* Part 9: no pair is in two places, nor twice in the arrays.
PairsAreDistinct ==
    /\ \A i, j \in 1..Len(watched) : watched[i] = watched[j] => i = j
    /\ \A i \in 1..Len(watched) : watched[i] # inBox /\ watched[i] # hand
    /\ inBox # None => inBox # hand

\* The inductive invariant.
IInv ==
    /\ TypeOK
    /\ RecordsAreOK
    /\ NewCountIsRight
    /\ RequestsArePlaced
    /\ PreparersHold
    /\ BoxIsExclusive
    /\ HandIsUsed
    /\ LinksAreWatched
    /\ PairsAreDistinct

-----------------------------------------------------------------------------
(* Records                                                                 *)

\* A new record is one.
LEMMA NewRecordOK ==
    ASSUME NEW n \in Name, NEW c \in Client
    PROVE  /\ RecordOK(NewRecord(n, c))
           /\ NewRecord(n, c).new = 1
           /\ NewRecord(n, c).locks = {}
           /\ NewRecord(n, c).holder = c
  BY DEF RecordOK, NewRecord, Rec

\* Counting a request leaves a record good, ...
LEMMA CountOK ==
    ASSUME NEW r, RecordOK(r), NEW k \in Nat
    PROVE  /\ RecordOK([r EXCEPT !.new = k])
           /\ [r EXCEPT !.new = k].new = k
           /\ [r EXCEPT !.new = k].locks = r.locks
           /\ [r EXCEPT !.new = k].holder = r.holder
  BY DEF RecordOK, Rec

\* ... and so does taking or leaving the mutex.
LEMMA HolderOK ==
    ASSUME NEW r, RecordOK(r), NEW h \in Client \cup {None}
    PROVE  /\ RecordOK([r EXCEPT !.holder = h])
           /\ [r EXCEPT !.holder = h].new = r.new
           /\ [r EXCEPT !.holder = h].locks = r.locks
           /\ [r EXCEPT !.holder = h].holder = h
  BY DEF RecordOK, Rec

\* CleanFromDisk touches the file only.
LEMMA CleanFromDiskOK ==
    ASSUME NEW r, RecordOK(r)
    PROVE  /\ RecordOK(CleanFromDisk(r))
           /\ CleanFromDisk(r).new = r.new
           /\ CleanFromDisk(r).locks = r.locks
           /\ CleanFromDisk(r).holder = r.holder
  <1>1. r.own \in {"no", "plugin", "done"}
    BY DEF RecordOK, Rec
  <1>2. CASE r.own = "no"
    BY <1>2 DEF RecordOK, Rec, CleanFromDisk
  <1>3. CASE r.own = "plugin"
    BY <1>3 DEF RecordOK, Rec, CleanFromDisk
  <1>4. CASE r.own = "done"
    BY <1>4 DEF RecordOK, Rec, CleanFromDisk
  <1> QED  BY <1>1, <1>2, <1>3, <1>4

\* A good record is in no need of Normalize.
LEMMA NormalizeOK ==
    ASSUME NEW r, RecordOK(r)
    PROVE  Normalize(r) = r
  BY DEF RecordOK, Rec, Normalize

\* The first edit lock turns a mark into the deferred one.
LEMMA OnEditLockAddedOK ==
    ASSUME NEW r, RecordOK(r)
    PROVE  /\ RecordOK(OnEditLockAdded(r))
           /\ OnEditLockAdded(r).new = r.new
           /\ OnEditLockAdded(r).locks = r.locks
           /\ OnEditLockAdded(r).holder = r.holder
  <1> DEFINE s == OnEditLockAdded(r)
  <1>1. s \in Rec /\ s.edits > 0
    <2> DEFINE e == r.edits + 1
    <2>1. e \in Nat /\ e > 0
      BY DEF RecordOK, Rec
    <2>2. s.edits = e
      BY DEF RecordOK, Rec, OnEditLockAdded
    <2>3. s \in Rec
      BY <2>1 DEF RecordOK, Rec, OnEditLockAdded
    <2> QED  BY <2>1, <2>2, <2>3
  <1>2. ~ s.outOfDate /\ (r.old => s.stale) /\ s.old = r.old
    BY DEF RecordOK, Rec, OnEditLockAdded
  <1>3. s.new = r.new /\ s.locks = r.locks /\ s.holder = r.holder
    BY DEF RecordOK, Rec, OnEditLockAdded
  <1> HIDE DEF s
  <1>4. RecordOK(s)
    BY <1>1, <1>2 DEF RecordOK, Rec
  <1> QED  BY <1>3, <1>4 DEF s

\* The last one that goes turns it back.
LEMMA OnLockRemovedOK ==
    ASSUME NEW r, RecordOK(r), NEW edit \in BOOLEAN
    PROVE  /\ RecordOK(OnLockRemoved(r, edit))
           /\ OnLockRemoved(r, edit).new = r.new
           /\ OnLockRemoved(r, edit).locks = r.locks
           /\ OnLockRemoved(r, edit).holder = r.holder
  <1> DEFINE e == IF edit /\ r.edits > 0 THEN r.edits - 1 ELSE r.edits
  <1>1. /\ e \in Nat
        /\ r.edits \in Nat
        /\ ~ edit => e = r.edits
        /\ edit /\ r.edits > 0 => e = r.edits - 1
        /\ edit /\ r.edits = 0 => e = 0
    BY DEF RecordOK, Rec
  <1> HIDE DEF e
  <1> DEFINE s == OnLockRemoved(r, edit)
  <1>2. /\ s \in Rec
        /\ s.edits = e
        /\ s.old = r.old
        /\ s.new = r.new
        /\ s.locks = r.locks
        /\ s.holder = r.holder
    BY <1>1 DEF RecordOK, Rec, OnLockRemoved, SetOutOfDate, e
  <1>3. IF edit /\ e = 0 /\ r.stale
        THEN s.outOfDate /\ ~ s.cached /\ ~ s.stale
        ELSE s.outOfDate = r.outOfDate /\ s.cached = r.cached
             /\ s.stale = r.stale
    BY <1>1 DEF RecordOK, Rec, OnLockRemoved, SetOutOfDate, e
  <1> HIDE DEF s
  <1>4. RecordOK(s)
    BY <1>1, <1>2, <1>3 DEF RecordOK, Rec
  <1> QED  BY <1>2, <1>4 DEF s

\* A flush of a record in use leaves its links alone.
LEMMA FlushInUseOK ==
    ASSUME NEW r, RecordOK(r)
    PROVE  /\ RecordOK(FlushInUse(r))
           /\ FlushInUse(r).new = r.new
           /\ FlushInUse(r).locks = r.locks
           /\ FlushInUse(r).holder = r.holder
  <1> DEFINE s == FlushInUse(r)
  <1>1. s \in Rec /\ s.edits = r.edits
    BY DEF RecordOK, Rec, FlushInUse, SetOutOfDate
  <1>2. IF r.edits > 0 THEN s.stale /\ s.outOfDate = r.outOfDate
                       ELSE s.outOfDate /\ ~ s.cached /\ s.stale = r.stale
    BY DEF RecordOK, Rec, FlushInUse, SetOutOfDate
  <1>3. s.new = r.new /\ s.locks = r.locks /\ s.holder = r.holder
    BY DEF RecordOK, Rec, FlushInUse, SetOutOfDate
  <1> HIDE DEF s
  <1>4. RecordOK(s)
    BY <1>1, <1>2 DEF RecordOK, Rec
  <1> QED  BY <1>3, <1>4 DEF s

-----------------------------------------------------------------------------
(* The records of the cache                                                *)

Records == [Name -> Rec \cup {None}]

\* g is f after the deletion of some records without links.
Cleaned(f, g) ==
    /\ f \in Records /\ AllOK(f)
    /\ g \in Records
    /\ \A m \in Name :
          \/ g[m] = f[m]
          \/ g[m] = None /\ f[m] # None /\ IsLocked(f[m])

\* A deletion changes no count and no lock, and nothing that somebody has
\* a request for.
LEMMA CleanedLinks ==
    ASSUME NEW f, NEW g, Cleaned(f, g), NEW m \in Name
    PROVE  /\ NewOf(g, m) = NewOf(f, m)
           /\ LocksOf(g, m) = LocksOf(f, m)
           /\ NewOf(f, m) # 0 => HolderOf(g, m) = HolderOf(f, m)
  BY RecordAssumption DEF Cleaned, Records, NewOf, LocksOf, HolderOf, IsLocked

\* Deleting records without links keeps the remaining ones consistent.
LEMMA CleanedOK ==
    ASSUME NEW f, NEW g, Cleaned(f, g)
    PROVE  AllOK(g)
  BY DEF Cleaned, AllOK

\* g is f with the good record r for n, but for deletions.
Replaced(f, g, n, r) ==
    /\ g \in Records /\ AllOK(g)
    /\ NewOf(g, n) = r.new
    /\ LocksOf(g, n) = r.locks
    /\ r.new # 0 => HolderOf(g, n) = r.holder
    /\ \A m \in Name \ {n} :
          /\ NewOf(g, m) = NewOf(f, m)
          /\ LocksOf(g, m) = LocksOf(f, m)
          /\ NewOf(f, m) # 0 => HolderOf(g, m) = HolderOf(f, m)

\* Writing a record changes that name alone.
LEMMA PutReplaces ==
    ASSUME NEW f \in Records, AllOK(f), NEW n \in Name, NEW r, RecordOK(r),
           NEW g, g = [f EXCEPT ![n] = r]
    PROVE  Replaced(f, g, n, r)
  <1>1. r \in Rec /\ r # None
    BY RecordAssumption DEF RecordOK
  <1> QED
    BY <1>1 DEF Replaced, Records, AllOK, NewOf, LocksOf, HolderOf

\* Settle puts the record in its place and deletes records without links.
LEMMA SettleCleans ==
    ASSUME rec \in Records, AllOK(rec),
           NEW n \in Name, NEW r, RecordOK(r), Settle(n, r)
    PROVE  Cleaned([rec EXCEPT ![n] = r], rec')
  <1> DEFINE f == [rec EXCEPT ![n] = r]
  <1>1. f \in Records /\ AllOK(f) /\ f[n] = r /\ r # None
    <2>1. f \in Records /\ AllOK(f)
      BY PutReplaces DEF Replaced
    <2> QED  BY <2>1, RecordAssumption DEF RecordOK, Records
  <1>2. CASE ~ IsLocked(r)
    <2>1. rec' = f
      BY <1>2 DEF Settle
    <2> QED  BY <1>1, <2>1 DEF Cleaned
  <1>3. CASE IsLocked(r) /\ ~ r.cached
    <2>1. rec' = [rec EXCEPT ![n] = None]
      BY <1>3 DEF Settle
    <2> QED  BY <1>1, <1>3, <2>1 DEF Cleaned, Records
  <1>4. CASE IsLocked(r) /\ r.cached
    <2>1. PICK E \in SUBSET Name :
             /\ E \subseteq Victims(f)
             /\ rec' = [m \in Name |-> IF m \in E THEN None ELSE f[m]]
      BY <1>4 DEF Settle, Evicted
    <2>2. \A m \in E : f[m] # None /\ IsLocked(f[m])
      BY <2>1 DEF Victims
    <2> HIDE DEF f
    <2>3. Cleaned(f, rec')
      BY <1>1, <2>1, <2>2 DEF Cleaned, Records
    <2> QED  BY <2>3 DEF f
  <1> QED  BY <1>2, <1>3, <1>4

\* Writing a record and then settling it, with the check for room, changes that name and deletes others.
LEMMA SettleReplaces ==
    ASSUME rec \in Records, AllOK(rec),
           NEW n \in Name, NEW r, RecordOK(r), Settle(n, r)
    PROVE  Replaced(rec, rec', n, r)
  <1> DEFINE f == [rec EXCEPT ![n] = r]
  <1>1. Cleaned(f, rec')
    BY SettleCleans
  <1>2. Replaced(rec, f, n, r)
    BY PutReplaces
  <1>3. rec' \in Records /\ AllOK(rec')
    BY <1>1, CleanedOK DEF Cleaned
  <1> HIDE DEF f
  <1>4. \A m \in Name :
           /\ NewOf(rec', m) = NewOf(f, m)
           /\ LocksOf(rec', m) = LocksOf(f, m)
           /\ NewOf(f, m) # 0 => HolderOf(rec', m) = HolderOf(f, m)
    BY <1>1, CleanedLinks
  <1> QED  BY <1>2, <1>3, <1>4 DEF Replaced

-----------------------------------------------------------------------------
(* The counts                                                              *)

LEMMA RequestsAreFinite ==
    \A n : IsFiniteSet(Requests(n)) /\ Cardinality(Requests(n)) \in Nat
  <1> SUFFICES ASSUME NEW n
               PROVE  /\ IsFiniteSet(Requests(n))
                      /\ Cardinality(Requests(n)) \in Nat
    OBVIOUS
  <1>1. Requests(n) \in SUBSET Client
    BY DEF Requests
  <1>2. IsFiniteSet(Requests(n))
    BY <1>1, FS_Subset, ClientAssumption
  <1> QED  BY <1>2, FS_CardinalityType

\* A requested name has a count above zero.
LEMMA NewCountIsNotZero ==
    ASSUME NewCountIsRight', NEW c \in Client, NEW n \in Name, name'[c] = n
    PROVE  NewOf(rec', n) # 0
  <1>1. c \in Requests(n)'
    BY DEF Requests
  <1>2. IsFiniteSet(Requests(n)')
    BY ClientAssumption, FS_Subset DEF Requests
  <1>3. Cardinality(Requests(n)') # 0
    BY <1>1, <1>2, FS_EmptySet
  <1> QED  BY <1>3 DEF NewCountIsRight

\* Who has a request has a good record.
LEMMA RequestedIsLive ==
    ASSUME IInv, NEW c \in Client, at[c] \in Requesting
    PROVE  /\ name[c] \in Name
           /\ rec[name[c]] # None
           /\ RecordOK(rec[name[c]])
           /\ rec[name[c]].new \in Nat \ {0}
  <1>1. name[c] \in Name /\ c \in Requests(name[c])
    BY DEF IInv, TypeOK, RequestsArePlaced, Requests
  <1>2. Cardinality(Requests(name[c])) # 0
    BY <1>1, RequestsAreFinite, FS_EmptySet
  <1>3. rec[name[c]] # None /\ rec[name[c]].new # 0
    BY <1>1, <1>2 DEF IInv, NewCountIsRight, NewOf
  <1>4. RecordOK(rec[name[c]])
    BY <1>1, <1>3 DEF IInv, RecordsAreOK, AllOK
  <1> QED
    BY <1>1, <1>3, <1>4 DEF RecordOK, Rec

\* A step that moves no client keeps the set of requesters.
LEMMA SameRequests ==
    ASSUME NewCountIsRight, name' = name,
           \A m \in Name : NewOf(rec', m) = NewOf(rec, m)
    PROVE  NewCountIsRight'
  BY DEF NewCountIsRight, Requests

\* A request is made and counted.
LEMMA RequestMade ==
    ASSUME NewCountIsRight, name \in [Client -> Name \cup {None}],
           NEW c \in Client, NEW n \in Name,
           name[c] = None,
           name' = [name EXCEPT ![c] = n],
           NewOf(rec', n) = NewOf(rec, n) + 1,
           \A m \in Name \ {n} : NewOf(rec', m) = NewOf(rec, m)
    PROVE  NewCountIsRight'
  <1> SUFFICES ASSUME NEW m \in Name
               PROVE  NewOf(rec', m) = Cardinality(Requests(m)')
    BY DEF NewCountIsRight
  <1>1. NewOf(rec, m) = Cardinality(Requests(m))
    BY DEF NewCountIsRight
  <1>2. CASE m = n
    <2>1. c \notin Requests(m) /\ Requests(m)' = Requests(m) \cup {c}
      BY <1>2, NoneAssumption DEF Requests
    <2>2. Cardinality(Requests(m)') = Cardinality(Requests(m)) + 1
      BY <2>1, RequestsAreFinite, FS_AddElement
    <2> QED  BY <1>1, <1>2, <2>2
  <1>3. CASE m # n
    <2>1. Requests(m)' = Requests(m)
      BY <1>3, NoneAssumption DEF Requests
    <2> QED  BY <1>1, <1>3, <2>1
  <1> QED  BY <1>2, <1>3

\* A request is over and taken off the count.
LEMMA RequestOver ==
    ASSUME NewCountIsRight, name \in [Client -> Name \cup {None}],
           NEW c \in Client, NEW n \in Name,
           name[c] = n,
           name' = [name EXCEPT ![c] = None],
           NewOf(rec', n) = NewOf(rec, n) - 1,
           \A m \in Name \ {n} : NewOf(rec', m) = NewOf(rec, m)
    PROVE  NewCountIsRight'
  <1> SUFFICES ASSUME NEW m \in Name
               PROVE  NewOf(rec', m) = Cardinality(Requests(m)')
    BY DEF NewCountIsRight
  <1>1. NewOf(rec, m) = Cardinality(Requests(m))
    BY DEF NewCountIsRight
  <1>2. CASE m = n
    <2>1. c \in Requests(m) /\ Requests(m)' = Requests(m) \ {c}
      BY <1>2, NoneAssumption DEF Requests
    <2>2. Cardinality(Requests(m)') = Cardinality(Requests(m)) - 1
      BY <2>1, RequestsAreFinite, FS_RemoveElement
    <2> QED  BY <1>1, <1>2, <2>2
  <1>3. CASE m # n
    <2>1. Requests(m)' = Requests(m)
      BY <1>3, NoneAssumption DEF Requests
    <2> QED  BY <1>1, <1>3, <2>1
  <1> QED  BY <1>2, <1>3

-----------------------------------------------------------------------------
(* The way of a lock                                                       *)

\* No pair is moved and no link changes.
LEMMA SameLinks ==
    ASSUME LinksAreWatched, PairsAreDistinct,
           watched' = watched, inBox' = inBox, hand' = hand,
           \A m \in Name : LocksOf(rec', m) = LocksOf(rec, m)
    PROVE  LinksAreWatched' /\ PairsAreDistinct'
  <1>1. Links(rec') = Links(rec)
    BY DEF Links, Pair
  <1>2. WatchedPairs' = WatchedPairs /\ InTransit' = InTransit
    BY DEF WatchedPairs, InTransit
  <1> QED
    BY <1>1, <1>2 DEF LinksAreWatched, PairsAreDistinct

\* Nobody enters the box.
LEMMA SameBox ==
    ASSUME BoxIsExclusive, boxFree' = boxFree, inBox' = inBox,
           \A c \in Client : at'[c] = "boxing" => at[c] = "boxing"
    PROVE  BoxIsExclusive'
  BY DEF BoxIsExclusive

-----------------------------------------------------------------------------
(* The times                                                               *)

LEMMA ForgetType ==
    ASSUME NEW la \in [Name -> Nat], NEW n \in Name
    PROVE  Forget(la, n) \in [Name -> Nat]
  <1> SUFFICES ASSUME NEW m \in Name
               PROVE  Forget(la, n)[m] \in Nat
    BY DEF Forget
  <1>1. la[n] \in Nat /\ la[m] \in Nat
    OBVIOUS
  <1> QED  BY <1>1 DEF Forget

\* Touching a copy keeps the ranks of LastAccess typed.
LEMMA TouchType ==
    ASSUME NEW la \in [Name -> Nat], NEW n \in Name
    PROVE  Touch(la, n) \in [Name -> Nat]
  <1> DEFINE S == {m \in Name \ {n} : la[m] > 0}
  <1>1. S \in SUBSET Name
    OBVIOUS
  <1>2. Cardinality(S) \in Nat
    BY <1>1, NameAssumption, FS_Subset, FS_CardinalityType
  <1> HIDE DEF S
  <1>3. 1 + Cardinality(S) \in Nat
    BY <1>2
  <1> QED  BY <1>3, ForgetType DEF Touch, S

-----------------------------------------------------------------------------
(* The steps of a client                                                   *)

\* The change of one record: a client that goes on keeps the mutex it has,
\* one that does not is where its request allows it to be.
LEMMA RecordChange ==
    ASSUME IInv, TypeOK', NewCountIsRight',
           NEW n \in Name, NEW r, Replaced(rec, rec', n, r),
           \A d \in Client :
              \/ /\ at'[d] = at[d] /\ name'[d] = name[d]
                 /\ HolderOf(rec, n) = d => r.holder = d
              \/ /\ at'[d] \in Requesting <=> name'[d] # None
                 /\ at'[d] \in {"entering", "filling"}
                       => name'[d] = n /\ r.holder = d
    PROVE  RecordsAreOK' /\ RequestsArePlaced' /\ PreparersHold'
  <1>1. RecordsAreOK'
    BY DEF RecordsAreOK, Replaced
  <1>2. RequestsArePlaced'
    BY DEF IInv, RequestsArePlaced
  <1>3. ASSUME NEW d \in Client, at'[d] \in {"entering", "filling"}
        PROVE  HolderOf(rec', name'[d]) = d
    <2>1. PICK m \in Name : name'[d] = m
      BY <1>2, <1>3 DEF TypeOK, RequestsArePlaced, Requesting
    <2>2. NewOf(rec', m) # 0
      BY <2>1, NewCountIsNotZero
    <2>3. CASE m = n /\ r.holder = d
      BY <2>1, <2>2, <2>3 DEF Replaced
    <2>4. CASE at'[d] = at[d] /\ name'[d] = name[d]
               /\ (HolderOf(rec, n) = d => r.holder = d)
      <3>1. HolderOf(rec, m) = d
        BY <1>3, <2>1, <2>4 DEF IInv, PreparersHold
      <3>2. CASE m = n
        BY <2>1, <2>2, <2>4, <3>1, <3>2 DEF Replaced
      <3>3. CASE m # n
        BY <2>1, <2>2, <3>1, <3>3 DEF Replaced
      <3> QED  BY <3>2, <3>3
    <2> QED  BY <1>3, <2>1, <2>3, <2>4
  <1> QED  BY <1>1, <1>2, <1>3 DEF PreparersHold

\* A step of c that changes one record, but none of its locks, and moves no
\* pair; c may take or leave the mutex of the record.
LEMMA RecordStep ==
    ASSUME IInv, TypeOK', NewCountIsRight',
           NEW c \in Client, NEW n \in Name, NEW r,
           Replaced(rec, rec', n, r),
           r.locks = LocksOf(rec, n),
           HolderOf(rec, n) \in {r.holder, c, None},
           UNCHANGED <<boxFree, inBox, watched, watcher, hand>>,
           \A d \in Client \ {c} : at'[d] = at[d] /\ name'[d] = name[d],
           at'[c] # "boxing",
           at'[c] \in Requesting <=> name'[c] # None,
           at'[c] \in {"entering", "filling"} => name'[c] = n /\ r.holder = c
    PROVE  IInv'
  <1>1. RecordsAreOK' /\ RequestsArePlaced' /\ PreparersHold'
    <2>1. \A d \in Client \ {c} : HolderOf(rec, n) = d => r.holder = d
      BY NoneAssumption
    <2> QED  BY <2>1, RecordChange
  <1>2. BoxIsExclusive'
    BY SameBox DEF IInv
  <1>3. LinksAreWatched' /\ PairsAreDistinct'
    <2>1. \A m \in Name : LocksOf(rec', m) = LocksOf(rec, m)
      BY DEF Replaced
    <2> QED  BY <2>1, SameLinks DEF IInv
  <1>4. HandIsUsed'
    BY DEF IInv, HandIsUsed
  <1> QED  BY <1>1, <1>2, <1>3, <1>4 DEF IInv

\* No record changes and no request.
LEMMA SameRecords ==
    ASSUME IInv, rec' = rec, name' = name,
           \A d \in Client :
              /\ at'[d] \in Requesting <=> at[d] \in Requesting
              /\ at'[d] \in {"entering", "filling"} => at'[d] = at[d]
    PROVE  RecordsAreOK' /\ NewCountIsRight' /\ RequestsArePlaced'
           /\ PreparersHold'
  <1>1. NewCountIsRight'
    BY SameRequests DEF IInv
  <1>2. RequestsArePlaced'
    BY DEF IInv, RequestsArePlaced
  <1>3. PreparersHold'
    BY DEF IInv, PreparersHold
  <1> QED  BY <1>1, <1>2, <1>3 DEF IInv, RecordsAreOK

\* A step that changes only the signaled locks and the idle protocol keeps the invariant.
LEMMA QuietStep ==
    ASSUME IInv, TypeOK', BoxIsExclusive', HandIsUsed',
           UNCHANGED <<rec, name, watched, inBox, hand>>,
           \A d \in Client :
              /\ at'[d] \in Requesting <=> at[d] \in Requesting
              /\ at'[d] \in {"entering", "filling"} => at'[d] = at[d]
    PROVE  IInv'
  <1>1. RecordsAreOK' /\ NewCountIsRight' /\ RequestsArePlaced'
        /\ PreparersHold'
    BY SameRecords
  <1>2. LinksAreWatched' /\ PairsAreDistinct'
    BY SameLinks DEF IInv
  <1> QED  BY <1>1, <1>2 DEF IInv

\* GetName of a name without a record.
LEMMA GetNewNameKeeps ==
    ASSUME IInv, NEW c \in Client, NEW n \in Name, GetNewName(c, n)
    PROVE  IInv'
  <1> DEFINE r == NewRecord(n, c)
  <1> USE DEF GetNewName, Goto, boxVars, threadVars, watcherVars
  <1>1. Replaced(rec, rec', n, r)
    BY NewRecordOK, PutReplaces DEF IInv, TypeOK, Records, RecordsAreOK
  <1>2. NewOf(rec, n) = 0 /\ LocksOf(rec, n) = {} /\ HolderOf(rec, n) = None
    BY DEF NewOf, LocksOf, HolderOf
  <1>3. name[c] = None
    BY DEF IInv, RequestsArePlaced, Requesting
  <1>4. TypeOK'
    <2>1. lastAccess' \in [Name -> Nat]
      BY ForgetType DEF IInv, TypeOK
    <2> QED  BY <1>1, <2>1 DEF IInv, TypeOK, Replaced, Records
  <1>5. NewCountIsRight'
    <2>1. /\ NewCountIsRight /\ name \in [Client -> Name \cup {None}]
          /\ name' = [name EXCEPT ![c] = n]
      BY DEF IInv, TypeOK
    <2>2. r.new = NewOf(rec, n) + 1
      BY <1>2, NewRecordOK
    <2>3. /\ NewOf(rec', n) = NewOf(rec, n) + 1
          /\ \A m \in Name \ {n} : NewOf(rec', m) = NewOf(rec, m)
      BY <1>1, <2>2 DEF Replaced
    <2> QED  BY <1>3, <2>1, <2>3, RequestMade
  <1>6. /\ at'[c] = "filling" /\ name'[c] = n
        /\ \A d \in Client \ {c} : at'[d] = at[d] /\ name'[d] = name[d]
    BY DEF IInv, TypeOK
  <1> QED
    BY <1>1, <1>2, <1>4, <1>5, <1>6, RecordStep, NewRecordOK, NoneAssumption
    DEF Requesting

\* GetName of a copy somebody fills: the request is counted, the monitor left.
LEMMA GetNameAndWaitKeeps ==
    ASSUME IInv, NEW c \in Client, NEW n \in Name, GetNameAndWait(c, n)
    PROVE  IInv'
  <1> DEFINE r == [rec[n] EXCEPT !.new = rec[n].new + 1]
  <1> USE DEF GetNameAndWait, Goto, boxVars, threadVars, watcherVars
  <1>1. RecordOK(rec[n]) /\ rec[n].new \in Nat
    BY DEF IInv, RecordsAreOK, AllOK, RecordOK, Rec
  <1>2. /\ RecordOK(r)
        /\ r.new = rec[n].new + 1
        /\ r.locks = rec[n].locks
        /\ r.holder = rec[n].holder
    <2>1. rec[n].new + 1 \in Nat
      BY <1>1
    <2> QED  BY <1>1, <2>1, CountOK
  <1>3. rec' = [rec EXCEPT ![n] = r]
    BY DEF IInv, TypeOK
  <1> HIDE DEF r
  <1>4. Replaced(rec, rec', n, r)
    BY <1>2, <1>3, PutReplaces DEF IInv, TypeOK, Records, RecordsAreOK
  <1>5. name[c] = None
    BY DEF IInv, RequestsArePlaced, Requesting
  <1>6. TypeOK'
    BY <1>4 DEF IInv, TypeOK, Replaced, Records
  <1>7. NewCountIsRight'
    <2>1. /\ NewCountIsRight /\ name \in [Client -> Name \cup {None}]
          /\ name' = [name EXCEPT ![c] = n]
      BY DEF IInv, TypeOK
    <2>2. /\ NewOf(rec', n) = NewOf(rec, n) + 1
          /\ \A m \in Name \ {n} : NewOf(rec', m) = NewOf(rec, m)
      BY <1>2, <1>4 DEF Replaced, NewOf
    <2> QED  BY <1>5, <2>1, <2>2, RequestMade
  <1>8. /\ at'[c] = "blocked" /\ name'[c] = n
        /\ \A d \in Client \ {c} : at'[d] = at[d] /\ name'[d] = name[d]
    BY DEF IInv, TypeOK
  <1>9. LocksOf(rec, n) = r.locks /\ HolderOf(rec, n) = r.holder
    BY <1>2 DEF LocksOf, HolderOf
  <1> QED
    BY <1>4, <1>6, <1>7, <1>8, <1>9, RecordStep, NoneAssumption
    DEF Requesting

\* The waiting client gets the mutex Preparing.
LEMMA PreparingAcquiredKeeps ==
    ASSUME IInv, NEW c \in Client, PreparingAcquired(c)
    PROVE  IInv'
  <1> DEFINE n == name[c]
             r == [rec[n] EXCEPT !.holder = c]
  <1> USE DEF PreparingAcquired, boxVars, threadVars, watcherVars
  <1>1. n \in Name /\ RecordOK(rec[n]) /\ rec[n] # None
    BY RequestedIsLive DEF Requesting
  <1>2. RecordOK(r) /\ r.new = rec[n].new /\ r.locks = rec[n].locks
                    /\ r.holder = c
    BY <1>1, HolderOK
  <1>3. rec' = [rec EXCEPT ![n] = r]
    BY DEF IInv, TypeOK
  <1> HIDE DEF r
  <1>4. Replaced(rec, rec', n, r)
    BY <1>1, <1>2, <1>3, PutReplaces DEF IInv, TypeOK, Records, RecordsAreOK
  <1>5. TypeOK'
    BY <1>4 DEF IInv, TypeOK, Replaced, Records
  <1>6. NewOf(rec, n) = r.new /\ LocksOf(rec, n) = r.locks
        /\ HolderOf(rec, n) = None
    BY <1>1, <1>2 DEF NewOf, LocksOf, HolderOf
  <1>7. NewCountIsRight'
    BY <1>4, <1>6, SameRequests DEF IInv, Replaced
  <1>8. /\ at'[c] = "entering" /\ name'[c] = n
        /\ \A d \in Client \ {c} : at'[d] = at[d] /\ name'[d] = name[d]
    BY DEF IInv, TypeOK
  <1> HIDE DEF PreparingAcquired
  <1> QED
    BY <1>1, <1>2, <1>4, <1>5, <1>6, <1>7, <1>8, RecordStep, NoneAssumption
    DEF Requesting, PreparingAcquired

\* NamePrepared: the copy is valid, the mutex released.
LEMMA NamePreparedKeeps ==
    ASSUME IInv, NEW c \in Client, NamePrepared(c)
    PROVE  IInv'
  <1> DEFINE n == name[c]
             r == [rec[n] EXCEPT !.size = 1, !.prepared = TRUE,
                                 !.holder = None, !.onDisk = TRUE]
  <1> USE DEF NamePrepared, boxVars, threadVars, watcherVars
  <1>1. n \in Name /\ RecordOK(rec[n]) /\ rec[n] # None
    BY RequestedIsLive DEF Requesting
  <1>2. RecordOK(r) /\ r.new = rec[n].new /\ r.locks = rec[n].locks
                    /\ r.holder = None
    BY <1>1 DEF RecordOK, Rec
  <1>3. rec' = [rec EXCEPT ![n] = r]
    BY DEF IInv, TypeOK
  <1> HIDE DEF r
  <1>4. Replaced(rec, rec', n, r)
    BY <1>1, <1>2, <1>3, PutReplaces DEF IInv, TypeOK, Records, RecordsAreOK
  <1>5. TypeOK'
    BY <1>4 DEF IInv, TypeOK, Replaced, Records
  <1>6. NewOf(rec, n) = r.new /\ LocksOf(rec, n) = r.locks
        /\ HolderOf(rec, n) = c
    BY <1>1, <1>2 DEF NewOf, LocksOf, HolderOf, IInv, PreparersHold
  <1>7. NewCountIsRight'
    BY <1>4, <1>6, SameRequests DEF IInv, Replaced
  <1>8. /\ at'[c] = "using" /\ name'[c] = n
        /\ \A d \in Client \ {c} : at'[d] = at[d] /\ name'[d] = name[d]
    BY DEF IInv, TypeOK
  <1> QED
    BY <1>1, <1>2, <1>4, <1>5, <1>6, <1>7, <1>8, RecordStep, NoneAssumption
    DEF Requesting

\* What GetName does for a caller that owns the mutex: it hands the copy
\* out, gives up, or keeps the mutex to fill the copy.
LookedUp(c, n, r0, onlyAdd, r) ==
    /\ RecordOK(r)
    /\ r.locks = r0.locks
    /\ rec' = [rec EXCEPT ![n] = r]
    /\ \/ Goto(c, "using", n) /\ r.new = r0.new /\ r.holder = None
       \/ /\ Goto(c, "out", None) /\ onlyAdd = TRUE
          /\ r.new = r0.new - 1 /\ r.holder = None
       \/ Goto(c, "filling", n) /\ r.new = r0.new /\ r.holder = c

\* A look-up keeps the record consistent.
LEMMA LookUpOK ==
    ASSUME NEW c \in Client, NEW n \in Name, NEW r0, RecordOK(r0),
           r0.new # 0, r0.holder = c, NEW onlyAdd \in BOOLEAN,
           LookUp(c, n, r0, onlyAdd)
    PROVE  \E r : LookedUp(c, n, r0, onlyAdd, r)
  <1> DEFINE s == [r0 EXCEPT !.holder = None]
             t == [r0 EXCEPT !.holder = None, !.new = r0.new - 1]
             f == [r0 EXCEPT !.prepared = FALSE, !.outOfDate = FALSE,
                             !.old = FALSE]
             u == CleanFromDisk(f)
  <1>1. (IF r0.prepared THEN Normalize(r0) ELSE r0) = r0
    BY NormalizeOK
  <1>2. \/ rec' = [rec EXCEPT ![n] = s] /\ Goto(c, "using", n)
        \/ rec' = [rec EXCEPT ![n] = t] /\ Goto(c, "out", None)
                                      /\ onlyAdd = TRUE
        \/ rec' = [rec EXCEPT ![n] = u] /\ Goto(c, "filling", n)
    BY <1>1, Zenon DEF LookUp
  <1>3. RecordOK(s) /\ s.new = r0.new /\ s.locks = r0.locks
        /\ s.holder = None
    BY HolderOK
  <1>4. RecordOK(t) /\ t.new = r0.new - 1 /\ t.locks = r0.locks
        /\ t.holder = None
    <2>1. r0.new - 1 \in Nat
      BY DEF RecordOK, Rec
    <2> QED  BY <2>1 DEF RecordOK, Rec
  <1>5. RecordOK(u) /\ u.new = r0.new /\ u.locks = r0.locks /\ u.holder = c
    <2>1. f \in Rec /\ f.edits = r0.edits /\ f.stale = r0.stale
          /\ ~ f.outOfDate /\ ~ f.old
      BY DEF RecordOK, Rec
    <2>2. f.new = r0.new /\ f.locks = r0.locks /\ f.holder = c
      BY DEF RecordOK, Rec
    <2> HIDE DEF f
    <2>3. RecordOK(f)
      BY <2>1 DEF RecordOK
    <2> QED  BY <2>2, <2>3, CleanFromDiskOK
  <1> HIDE DEF s, t, u
  <1> QED  BY <1>2, <1>3, <1>4, <1>5 DEF LookedUp

\* The second half of GetName, after the wait.
LEMMA GetNameAfterWaitKeeps ==
    ASSUME IInv, NEW c \in Client, GetNameAfterWait(c)
    PROVE  IInv'
  <1> DEFINE n == name[c]
  <1>1. /\ n \in Name /\ RecordOK(rec[n]) /\ rec[n] # None
        /\ rec[n].new # 0
    BY RequestedIsLive DEF GetNameAfterWait, Requesting
  <1>2. rec[n].holder = c
    BY <1>1 DEF GetNameAfterWait, IInv, PreparersHold, HolderOf
  <1>3. PICK r : /\ RecordOK(r)
                 /\ r.locks = rec[n].locks
                 /\ r.new = rec[n].new
                 /\ rec' = [rec EXCEPT ![n] = r]
                 /\ \/ Goto(c, "using", n) /\ r.holder = None
                    \/ Goto(c, "filling", n) /\ r.holder = c
    <2>1. LookUp(c, n, rec[n], FALSE)
      BY DEF GetNameAfterWait
    <2>2. \E r : LookedUp(c, n, rec[n], FALSE, r)
      BY <1>1, <1>2, <2>1, LookUpOK
    <2> QED  BY <2>2 DEF LookedUp
  <1> USE DEF Goto, boxVars, threadVars, watcherVars
  <1>4. Replaced(rec, rec', n, r)
    BY <1>1, <1>3, PutReplaces DEF IInv, TypeOK, Records, RecordsAreOK
  <1>5. TypeOK'
    BY <1>1, <1>3, <1>4
    DEF GetNameAfterWait, IInv, TypeOK, Replaced, Records
  <1>6. NewOf(rec, n) = r.new /\ LocksOf(rec, n) = r.locks
        /\ HolderOf(rec, n) = c
    BY <1>1, <1>2, <1>3 DEF NewOf, LocksOf, HolderOf
  <1>7. name' = name
    BY <1>3 DEF IInv, TypeOK
  <1>8. NewCountIsRight'
    BY <1>4, <1>6, <1>7, SameRequests DEF IInv, Replaced
  <1>9. /\ \/ at'[c] = "using"
           \/ at'[c] = "filling" /\ r.holder = c
        /\ name'[c] = n
        /\ \A d \in Client \ {c} : at'[d] = at[d] /\ name'[d] = name[d]
    BY <1>3, <1>7 DEF IInv, TypeOK
  <1>10. UNCHANGED <<boxFree, inBox, watched, watcher, hand>>
    BY DEF GetNameAfterWait
  <1> QED
    BY <1>1, <1>4, <1>5, <1>6, <1>8, <1>9, <1>10, RecordStep, NoneAssumption
    DEF Requesting

\* GetName of a copy whose mutex is free.
LEMMA GetNameAtOnceKeeps ==
    ASSUME IInv, NEW c \in Client, NEW n \in Name, NEW onlyAdd \in BOOLEAN,
           GetNameAtOnce(c, n, onlyAdd)
    PROVE  IInv'
  <1> DEFINE k == rec[n].new + 1
             r1 == [rec[n] EXCEPT !.new = k]
             r0 == [r1 EXCEPT !.holder = c]
  <1>1. RecordOK(rec[n]) /\ rec[n].new \in Nat /\ rec[n].holder = None
    BY DEF GetNameAtOnce, IInv, RecordsAreOK, AllOK, RecordOK, Rec
  <1>2. k \in Nat /\ k # 0
    BY <1>1
  <1> HIDE DEF k
  <1>3. RecordOK(r0) /\ r0.new = k /\ r0.locks = rec[n].locks
        /\ r0.holder = c
    <2>1. RecordOK(r1) /\ r1.new = k /\ r1.locks = rec[n].locks
      BY <1>1, <1>2, CountOK
    <2> HIDE DEF r1
    <2> QED  BY <2>1, HolderOK
  <1>4. LookUp(c, n, r0, onlyAdd)
    BY DEF GetNameAtOnce, k
  <1> HIDE DEF r0
  <1>5. PICK r : /\ RecordOK(r)
                 /\ r.locks = rec[n].locks
                 /\ rec' = [rec EXCEPT ![n] = r]
                 /\ \/ Goto(c, "using", n) /\ r.new = k /\ r.holder = None
                    \/ Goto(c, "out", None) /\ r.new = k - 1
                                            /\ r.holder = None
                    \/ Goto(c, "filling", n) /\ r.new = k /\ r.holder = c
    <2>1. \E r : LookedUp(c, n, r0, onlyAdd, r)
      BY <1>2, <1>3, <1>4, LookUpOK
    <2> QED  BY <1>3, <2>1 DEF LookedUp
  <1> USE DEF Goto, boxVars, threadVars, watcherVars
  <1>6. Replaced(rec, rec', n, r)
    BY <1>5, PutReplaces DEF IInv, TypeOK, Records, RecordsAreOK
  <1>7. TypeOK'
    BY <1>5, <1>6 DEF GetNameAtOnce, IInv, TypeOK, Replaced, Records
  <1>8. /\ NewOf(rec, n) \in Nat /\ NewOf(rec, n) + 1 = k
        /\ LocksOf(rec, n) = r.locks
        /\ HolderOf(rec, n) = None
    BY <1>1, <1>5 DEF k, GetNameAtOnce, NewOf, LocksOf, HolderOf
  <1>9. name[c] = None /\ name \in [Client -> Name \cup {None}]
    BY DEF GetNameAtOnce, IInv, TypeOK, RequestsArePlaced, Requesting
  <1>10. NewCountIsRight'
    <2>1. CASE name' = [name EXCEPT ![c] = n] /\ r.new = k
      BY <1>6, <1>8, <1>9, <2>1, RequestMade DEF IInv, Replaced
    <2>2. CASE name' = [name EXCEPT ![c] = None] /\ r.new = k - 1
      <3>1. name' = name
        BY <1>9, <2>2
      <3>2. NewOf(rec', n) = NewOf(rec, n)
        BY <1>1, <1>6, <1>8, <2>2 DEF Replaced
      <3> QED  BY <1>6, <3>1, <3>2, SameRequests DEF IInv, Replaced
    <2> QED  BY <1>5, <2>1, <2>2
  <1>11. /\ \/ at'[c] = "using" /\ name'[c] = n
            \/ at'[c] = "out" /\ name'[c] = None
            \/ at'[c] = "filling" /\ name'[c] = n /\ r.holder = c
         /\ \A d \in Client \ {c} : at'[d] = at[d] /\ name'[d] = name[d]
    BY <1>5 DEF IInv, TypeOK
  <1>12. UNCHANGED <<boxFree, inBox, watched, watcher, hand>>
    BY DEF GetNameAtOnce
  <1> QED
    BY <1>6, <1>7, <1>8, <1>10, <1>11, <1>12, RecordStep, NoneAssumption
    DEF Requesting

\* ReleaseName takes the request off; the record may go.
LEMMA ReleaseNameKeeps ==
    ASSUME IInv, NEW c \in Client, NEW storeInCache \in BOOLEAN,
           ReleaseName(c, storeInCache)
    PROVE  IInv'
  <1> DEFINE n == name[c]
             k == rec[n].new - 1
             h == IF ~ rec[n].prepared /\ rec[n].holder = c THEN None
                                                           ELSE rec[n].holder
             r1 == [rec[n] EXCEPT !.new = k]
             r == [r1 EXCEPT !.holder = h]
             store == /\ IsLocked(r)
                      /\ r.prepared
                      /\ storeInCache
                      /\ ~ r.outOfDate
             q == [r EXCEPT !.cached = r.cached \/ store]
  <1>1. /\ n \in Name /\ RecordOK(rec[n]) /\ rec[n] # None
        /\ rec[n].new \in Nat \ {0}
    BY RequestedIsLive DEF ReleaseName, Requesting
  <1>2. k \in Nat /\ k + 1 = rec[n].new /\ h \in Client \cup {None}
        /\ h \in {rec[n].holder, None} /\ rec[n].holder \in {h, c}
    BY <1>1 DEF RecordOK, Rec
  <1>3. /\ lastAccess' = IF store THEN Touch(lastAccess, n) ELSE lastAccess
        /\ Settle(n, q)
        /\ at' = [at EXCEPT ![c] = "out"]
        /\ name' = [name EXCEPT ![c] = None]
        /\ UNCHANGED <<signaled, boxVars, threadVars>>
    BY DEF ReleaseName, Goto
  <1> HIDE DEF k, h
  <1>4. RecordOK(r) /\ r.new = k /\ r.locks = rec[n].locks /\ r.holder = h
    <2>1. RecordOK(r1) /\ r1.new = k /\ r1.locks = rec[n].locks
      BY <1>1, <1>2, CountOK
    <2> HIDE DEF r1
    <2> QED  BY <1>2, <2>1, HolderOK
  <1> HIDE DEF r
  <1>5. store => ~ r.outOfDate
    OBVIOUS
  <1>6. store \in BOOLEAN
    OBVIOUS
  <1> HIDE DEF store
  <1>7. RecordOK(q) /\ q.new = k /\ q.locks = rec[n].locks /\ q.holder = h
    BY <1>4, <1>5, <1>6 DEF RecordOK, Rec
  <1> HIDE DEF q
  <1>8. rec \in Records /\ AllOK(rec)
    BY DEF IInv, TypeOK, Records, RecordsAreOK
  <1>9. Replaced(rec, rec', n, q)
    BY <1>1, <1>3, <1>7, <1>8, SettleReplaces
  <1>10. TypeOK'
    <2>1. lastAccess' \in [Name -> Nat]
      BY <1>1, <1>3, TouchType DEF IInv, TypeOK
    <2> QED
      BY <1>3, <1>9, <2>1
      DEF IInv, TypeOK, Replaced, Records, boxVars, threadVars, watcherVars
  <1>11. NewOf(rec, n) = k + 1 /\ LocksOf(rec, n) = q.locks
         /\ HolderOf(rec, n) \in {q.holder, c}
    BY <1>1, <1>2, <1>7 DEF NewOf, LocksOf, HolderOf
  <1>12. NewCountIsRight'
    <2>1. NewOf(rec', n) = NewOf(rec, n) - 1
      BY <1>2, <1>7, <1>9, <1>11 DEF Replaced
    <2> QED
      BY <1>1, <1>3, <1>9, <2>1, RequestOver DEF IInv, TypeOK, Replaced
  <1>13. /\ at'[c] = "out" /\ name'[c] = None
         /\ \A d \in Client \ {c} : at'[d] = at[d] /\ name'[d] = name[d]
    BY <1>3 DEF IInv, TypeOK
  <1>14. UNCHANGED <<boxFree, inBox, watched, watcher, hand>>
    BY <1>3 DEF boxVars, threadVars, watcherVars
  <1> QED
    BY <1>1, <1>9, <1>10, <1>11, <1>12, <1>13, <1>14, RecordStep
    DEF Requesting

\* AssignName waits for the box.
LEMMA WaitForBoxKeeps ==
    ASSUME IInv, NEW c \in Client, WaitForBox(c)
    PROVE  IInv'
  <1> USE DEF WaitForBox, threadVars, watcherVars
  <1>1. TypeOK'
    BY DEF IInv, TypeOK
  <1>2. BoxIsExclusive'
    BY DEF IInv, TypeOK, BoxIsExclusive
  <1>3. HandIsUsed'
    BY DEF IInv, HandIsUsed
  <1>4. \A d \in Client :
           /\ at'[d] \in Requesting <=> at[d] \in Requesting
           /\ at'[d] \in {"entering", "filling"} => at'[d] = at[d]
    BY DEF IInv, TypeOK, Requesting
  <1> QED  BY <1>1, <1>2, <1>3, <1>4, QuietStep

\* WaitForIdle touches neither records nor pairs.
LEMMA UnlockKeeps ==
    ASSUME IInv, NEW c \in Client,
           \/ \E l \in Shared(c) : SetSharedLock(c, l)
           \/ Ask(c) \/ WakeWatcher(c) \/ IdleAnswered(c)
    PROVE  IInv'
  <1> USE DEF boxVars, threadVars, watcherVars
  <1>1. Shared(c) \subseteq Lock
    BY DEF Lock
  <1>2. TypeOK'
    <2>1. ASSUME NEW l \in Shared(c), SetSharedLock(c, l)
          PROVE  TypeOK'
      <3>1. signaled' \subseteq Lock
        BY <1>1, <2>1 DEF SetSharedLock, IInv, TypeOK
      <3> QED  BY <2>1, <3>1 DEF SetSharedLock, IInv, TypeOK
    <2>2. CASE Ask(c)
      BY <2>2 DEF Ask, IInv, TypeOK
    <2>3. CASE WakeWatcher(c)
      BY <2>3 DEF WakeWatcher, IInv, TypeOK
    <2>4. CASE IdleAnswered(c)
      BY <2>4 DEF IdleAnswered, IInv, TypeOK
    <2> QED  BY <2>1, <2>2, <2>3, <2>4
  <1> USE DEF SetSharedLock, Ask, WakeWatcher, IdleAnswered
  <1>3. \A d \in Client :
           /\ at'[d] \in Requesting <=> at[d] \in Requesting
           /\ at'[d] \in {"entering", "filling", "boxing"} => at'[d] = at[d]
    BY DEF IInv, TypeOK, Requesting
  <1>4. BoxIsExclusive'
    BY <1>3, SameBox DEF IInv
  <1>5. HandIsUsed'
    BY DEF IInv, HandIsUsed
  <1> QED  BY <1>2, <1>3, <1>4, <1>5, QuietStep

-----------------------------------------------------------------------------
(* The steps of the watching thread and of others                          *)

LEMMA PassKeeps ==
    ASSUME IInv, BeginPass \/ NextPart \/ EndPass
    PROVE  IInv'
  <1> USE DEF BeginPass, NextPart, EndPass, boxVars, idleVars
  <1>1. TypeOK'
    <2>1. offset' \in Nat /\ idle' \in 0..3
      BY BoundAssumption DEF IInv, TypeOK
    <2>2. isIdle' \in BOOLEAN
      BY DEF IInv, TypeOK
    <2>3. watcher' \in {"begin", "pass", "end"}
      OBVIOUS
    <2> QED  BY <2>1, <2>2, <2>3 DEF IInv, TypeOK
  <1>2. BoxIsExclusive'
    BY SameBox DEF IInv
  <1>3. HandIsUsed'
    BY DEF IInv, HandIsUsed
  <1> QED  BY <1>1, <1>2, <1>3, QuietStep

\* A viewer signals its lock.
LEMMA CloseViewerKeeps ==
    ASSUME IInv, NEW l \in Viewer, CloseViewer(l)
    PROVE  IInv'
  <1> USE DEF CloseViewer, boxVars, threadVars, watcherVars
  <1>1. l \in Lock
    BY DEF Lock
  <1>2. TypeOK'
    BY <1>1 DEF IInv, TypeOK
  <1>3. BoxIsExclusive'
    BY SameBox DEF IInv
  <1>4. HandIsUsed'
    BY DEF IInv, HandIsUsed
  <1> QED  BY <1>2, <1>3, <1>4, QuietStep

\* Records change, but no link of any and no mutex of one in use.
LEMMA LinksKept ==
    ASSUME IInv, TypeOK', RecordsAreOK',
           \A m \in Name :
              /\ NewOf(rec', m) = NewOf(rec, m)
              /\ LocksOf(rec', m) = LocksOf(rec, m)
              /\ NewOf(rec, m) # 0 => HolderOf(rec', m) = HolderOf(rec, m),
           UNCHANGED <<at, name, boxVars, watched, watcher, hand>>
    PROVE  IInv'
  <1> USE DEF boxVars
  <1>1. NewCountIsRight' /\ RequestsArePlaced'
    BY SameRequests DEF IInv, RequestsArePlaced
  <1>2. PreparersHold'
    <2> SUFFICES ASSUME NEW d \in Client, at[d] \in {"entering", "filling"}
                 PROVE  HolderOf(rec', name[d]) = d
      BY DEF PreparersHold
    <2>1. HolderOf(rec, name[d]) = d
      BY DEF IInv, PreparersHold
    <2>2. name[d] \in Name /\ NewOf(rec, name[d]) # 0
      BY RequestedIsLive DEF Requesting, NewOf
    <2> QED  BY <2>1, <2>2
  <1>3. BoxIsExclusive'
    BY SameBox DEF IInv
  <1>4. LinksAreWatched' /\ PairsAreDistinct'
    BY SameLinks DEF IInv
  <1>5. HandIsUsed'
    BY DEF IInv, HandIsUsed
  <1> QED  BY <1>1, <1>2, <1>3, <1>4, <1>5 DEF IInv

\* A copy may lose its file at any time.
LEMMA FileGoneKeeps ==
    ASSUME IInv, NEW n \in Name, RemoveCopy(n) \/ DeleteTmpCopy(n)
    PROVE  IInv'
  <1> DEFINE r == [rec[n] EXCEPT !.onDisk = FALSE]
             q == [rec[n] EXCEPT !.queued = FALSE, !.onDisk = FALSE]
  <1> USE DEF boxVars, threadVars, watcherVars
  <1>1. rec[n] # None /\ RecordOK(rec[n])
    BY DEF RemoveCopy, DeleteTmpCopy, Live, IInv, RecordsAreOK, AllOK
  <1>2. /\ \E s \in {r, q} : rec' = [rec EXCEPT ![n] = s]
        /\ UNCHANGED <<lastAccess, at, name, signaled, boxVars, threadVars>>
    BY DEF RemoveCopy, DeleteTmpCopy
  <1>3. /\ RecordOK(r)
        /\ r.new = rec[n].new
        /\ r.locks = rec[n].locks
        /\ r.holder = rec[n].holder
    BY <1>1 DEF RecordOK, Rec
  <1>4. /\ RecordOK(q)
        /\ q.new = rec[n].new
        /\ q.locks = rec[n].locks
        /\ q.holder = rec[n].holder
    BY <1>1 DEF RecordOK, Rec
  <1> HIDE DEF r, q
  <1>5. PICK s \in {r, q} : rec' = [rec EXCEPT ![n] = s]
    BY <1>2
  <1>6. Replaced(rec, rec', n, s)
    <2>1. RecordOK(s)
      BY <1>3, <1>4
    <2>2. rec \in Records /\ AllOK(rec)
      BY DEF IInv, TypeOK, Records, RecordsAreOK
    <2> QED  BY <1>5, <2>1, <2>2, PutReplaces
  <1>7. TypeOK' /\ RecordsAreOK'
    BY <1>2, <1>6 DEF IInv, TypeOK, Replaced, Records, RecordsAreOK
  <1>8. \A m \in Name :
           /\ NewOf(rec', m) = NewOf(rec, m)
           /\ LocksOf(rec', m) = LocksOf(rec, m)
           /\ NewOf(rec, m) # 0 => HolderOf(rec', m) = HolderOf(rec, m)
    <2>1. NewOf(rec, n) = s.new /\ LocksOf(rec, n) = s.locks
          /\ HolderOf(rec, n) = s.holder
      BY <1>1, <1>3, <1>4 DEF NewOf, LocksOf, HolderOf
    <2> QED  BY <1>6, <2>1 DEF Replaced
  <1> QED  BY <1>2, <1>7, <1>8, LinksKept

\* FlushCache deletes the copies without links and marks the others.
LEMMA FlushCacheKeeps ==
    ASSUME IInv, NEW c \in Client, NEW names \in SUBSET Name,
           FlushCache(c, names)
    PROVE  IInv'
  <1> USE DEF threadVars, watcherVars
  <1>1. ASSUME NEW m \in Name
        PROVE  /\ rec'[m] \in Rec \cup {None}
               /\ rec'[m] # None => RecordOK(rec'[m])
               /\ NewOf(rec', m) = NewOf(rec, m)
               /\ LocksOf(rec', m) = LocksOf(rec, m)
               /\ NewOf(rec, m) # 0 => HolderOf(rec', m) = HolderOf(rec, m)
    <2>1. rec[m] # None => RecordOK(rec[m])
      BY DEF IInv, RecordsAreOK, AllOK
    <2>2. CASE m \notin names \cap Live
      <3>1. rec'[m] = rec[m]
        BY <2>2 DEF FlushCache
      <3> QED  BY <2>1, <3>1 DEF NewOf, LocksOf, HolderOf, IInv, TypeOK
    <2>3. CASE m \in names \cap Live /\ IsLocked(rec[m])
      <3>1. rec'[m] = None
        BY <2>3 DEF FlushCache, Flush
      <3> QED  BY <2>3, <3>1 DEF NewOf, LocksOf, HolderOf, IsLocked
    <2>4. CASE m \in names \cap Live /\ ~ IsLocked(rec[m])
      <3>1. rec'[m] = FlushInUse(rec[m])
        BY <2>4 DEF FlushCache, Flush
      <3>2. rec[m] # None
        BY <2>4 DEF Live
      <3>3. /\ RecordOK(rec'[m]) /\ rec'[m].new = rec[m].new
            /\ rec'[m].locks = rec[m].locks
            /\ rec'[m].holder = rec[m].holder
        BY <2>1, <3>1, <3>2, FlushInUseOK
      <3>4. rec'[m] \in Rec /\ rec'[m] # None
        BY <3>3, RecordAssumption DEF RecordOK
      <3> QED  BY <3>2, <3>3, <3>4 DEF NewOf, LocksOf, HolderOf
    <2> QED  BY <2>2, <2>3, <2>4
  <1>2. rec' \in Records
    <2>1. rec' = [m \in Name |-> rec'[m]]
      BY DEF FlushCache
    <2> QED  BY <1>1, <2>1 DEF Records
  <1>3. RecordsAreOK'
    BY <1>1 DEF RecordsAreOK, AllOK
  <1>4. TypeOK'
    BY <1>2 DEF FlushCache, boxVars, IInv, TypeOK, Records
  <1>5. UNCHANGED <<at, name, boxVars, watched, watcher, hand>>
    BY DEF FlushCache
  <1> QED  BY <1>1, <1>3, <1>4, <1>5, LinksKept

-----------------------------------------------------------------------------
(* The steps that move a pair                                              *)

LEMMA AssignNameKeeps ==
    ASSUME IInv, NEW c \in Client, NEW l \in Lock, NEW cache \in BOOLEAN,
           AssignName(c, l, cache)
    PROVE  IInv'
  <1> DEFINE n == name[c]
             k == rec[n].new - 1
             b == rec[n].cached \/ (cache /\ ~ rec[n].outOfDate)
             r1 == [rec[n] EXCEPT !.new = k]
             r2 == [r1 EXCEPT !.locks = rec[n].locks \cup {l}]
             r == [r2 EXCEPT !.cached = b]
             q == IF IsEdit(l) THEN OnEditLockAdded(r) ELSE r
  <1>1. /\ n \in Name /\ RecordOK(rec[n]) /\ rec[n] # None
        /\ rec[n].new \in Nat \ {0}
    BY RequestedIsLive DEF AssignName, Requesting
  <1>2. k \in Nat /\ k + 1 = rec[n].new
    BY <1>1
  <1>3. b \in BOOLEAN /\ (b => rec[n].cached \/ ~ rec[n].outOfDate)
    OBVIOUS
  <1>4. /\ l \notin rec[n].locks
        /\ rec' = [rec EXCEPT ![n] = q]
        /\ inBox' = <<l, n>>
        /\ at' = [at EXCEPT ![c] = "out"]
        /\ name' = [name EXCEPT ![c] = None]
        /\ at[c] = "boxing"
        /\ UNCHANGED <<lastAccess, signaled, boxFree, threadVars>>
    <2>1. l \notin rec[n].locks
      BY <1>1 DEF AssignName, Assignable, Live
    <2> QED  BY <1>1, <2>1 DEF AssignName, Goto, IInv, TypeOK
  <1> HIDE DEF k, b
  <1>5. RecordOK(q) /\ q.new = k /\ q.locks = rec[n].locks \cup {l}
        /\ q.holder = rec[n].holder
    <2>1. RecordOK(r1) /\ r1.new = k /\ r1.locks = rec[n].locks
          /\ r1.holder = rec[n].holder /\ r1.cached = rec[n].cached
          /\ r1.outOfDate = rec[n].outOfDate
      BY <1>1, <1>2 DEF RecordOK, Rec
    <2> HIDE DEF r1
    <2>2. RecordOK(r2) /\ r2.new = k /\ r2.locks = rec[n].locks \cup {l}
          /\ r2.holder = rec[n].holder /\ r2.cached = rec[n].cached
          /\ r2.outOfDate = rec[n].outOfDate
      <3>1. rec[n].locks \cup {l} \in SUBSET Lock
        BY <1>1 DEF RecordOK, Rec
      <3> QED  BY <2>1, <3>1 DEF RecordOK, Rec
    <2> HIDE DEF r2
    <2>3. RecordOK(r) /\ r.new = k /\ r.locks = rec[n].locks \cup {l}
          /\ r.holder = rec[n].holder
      BY <1>3, <2>2 DEF RecordOK, Rec
    <2> HIDE DEF r
    <2> QED  BY <2>3, OnEditLockAddedOK
  <1> HIDE DEF q
  <1>6. Replaced(rec, rec', n, q)
    BY <1>1, <1>4, <1>5, PutReplaces DEF IInv, TypeOK, Records, RecordsAreOK
  <1>7. TypeOK'
    BY <1>1, <1>4, <1>6
    DEF IInv, TypeOK, Replaced, Records, threadVars, watcherVars, Pair
  <1>8. /\ NewOf(rec, n) = k + 1
        /\ LocksOf(rec, n) = rec[n].locks
        /\ HolderOf(rec, n) = q.holder
    BY <1>1, <1>2, <1>5 DEF NewOf, LocksOf, HolderOf
  <1>9. NewCountIsRight'
    <2>1. NewOf(rec', n) = NewOf(rec, n) - 1
      BY <1>2, <1>5, <1>6, <1>8 DEF Replaced
    <2> QED
      BY <1>1, <1>4, <1>6, <2>1, RequestOver DEF IInv, TypeOK, Replaced
  <1>10. RecordsAreOK' /\ RequestsArePlaced' /\ PreparersHold'
    <2>1. /\ at'[c] = "out" /\ name'[c] = None
          /\ \A d \in Client \ {c} : at'[d] = at[d] /\ name'[d] = name[d]
      BY <1>4 DEF IInv, TypeOK
    <2> QED
      BY <1>1, <1>6, <1>7, <1>8, <1>9, <2>1, RecordChange DEF Requesting
  <1>11. BoxIsExclusive'
    BY <1>4 DEF IInv, TypeOK, BoxIsExclusive
  <1>12. HandIsUsed'
    BY <1>4 DEF IInv, HandIsUsed, threadVars, watcherVars
  <1>13. UNCHANGED <<watched, hand>> /\ inBox = None
    BY <1>4 DEF IInv, BoxIsExclusive, threadVars, watcherVars
  <1>14. <<l, n>> \in Pair /\ <<l, n>> \notin Links(rec) /\ <<l, n>> # None
    BY <1>1, <1>4, <1>8, RecordAssumption DEF Links, Pair
  <1>15. LinksAreWatched'
    <2>1. Links(rec') = Links(rec) \cup {<<l, n>>}
      <3>1. ASSUME NEW x \in Lock, NEW m \in Name
            PROVE  x \in LocksOf(rec', m)
                      <=> x \in LocksOf(rec, m) \/ <<x, m>> = <<l, n>>
        BY <1>5, <1>6, <1>8 DEF Replaced
      <3> QED  BY <1>1, <3>1 DEF Links, Pair
    <2>2. WatchedPairs' = WatchedPairs
      BY <1>13 DEF WatchedPairs
    <2>3. InTransit' = InTransit \cup {<<l, n>>}
      BY <1>4, <1>13, <1>14 DEF InTransit
    <2> QED  BY <2>1, <2>2, <2>3 DEF IInv, LinksAreWatched
  <1>16. PairsAreDistinct'
    <2>1. <<l, n>> \notin WatchedPairs \cup InTransit
      BY <1>14 DEF IInv, LinksAreWatched
    <2>2. hand # <<l, n>> /\ \A i \in 1..Len(watched) : watched[i] # <<l, n>>
      BY <1>14, <2>1 DEF WatchedPairs, Elements, InTransit
    <2> QED  BY <1>4, <1>13, <2>2 DEF IInv, PairsAreDistinct
  <1> QED
    BY <1>7, <1>9, <1>10, <1>11, <1>12, <1>15, <1>16 DEF IInv

\* AssignName when the array of locks cannot grow.
LEMMA AssignNameFailsKeeps ==
    ASSUME IInv, NEW c \in Client, AssignNameFails(c)
    PROVE  IInv'
  <1> DEFINE n == name[c]
             k == rec[n].new - 1
             r == [rec[n] EXCEPT !.new = k]
  <1> USE DEF AssignNameFails, Goto, threadVars, watcherVars
  <1>1. /\ n \in Name /\ RecordOK(rec[n]) /\ rec[n] # None
        /\ rec[n].new \in Nat \ {0}
    BY RequestedIsLive DEF Requesting
  <1>2. k \in Nat /\ k + 1 = rec[n].new
    BY <1>1
  <1>3. rec' = [rec EXCEPT ![n] = r]
    BY DEF IInv, TypeOK
  <1> HIDE DEF k
  <1>4. RecordOK(r) /\ r.new = k /\ r.locks = rec[n].locks
        /\ r.holder = rec[n].holder
    BY <1>1, <1>2, CountOK
  <1> HIDE DEF r
  <1>5. Replaced(rec, rec', n, r)
    BY <1>1, <1>3, <1>4, PutReplaces DEF IInv, TypeOK, Records, RecordsAreOK
  <1>6. TypeOK'
    BY <1>5 DEF IInv, TypeOK, Replaced, Records
  <1>7. /\ NewOf(rec, n) = k + 1
        /\ LocksOf(rec, n) = r.locks
        /\ HolderOf(rec, n) = r.holder
    BY <1>1, <1>2, <1>4 DEF NewOf, LocksOf, HolderOf
  <1>8. NewCountIsRight'
    <2>1. NewOf(rec', n) = NewOf(rec, n) - 1
      BY <1>2, <1>4, <1>5, <1>7 DEF Replaced
    <2> QED
      BY <1>1, <1>5, <2>1, RequestOver DEF IInv, TypeOK, Replaced
  <1>9. RecordsAreOK' /\ RequestsArePlaced' /\ PreparersHold'
    <2>1. /\ at'[c] = "out" /\ name'[c] = None
          /\ \A d \in Client \ {c} : at'[d] = at[d] /\ name'[d] = name[d]
      BY DEF IInv, TypeOK
    <2>2. \A d \in Client :
             \/ /\ at'[d] = at[d] /\ name'[d] = name[d]
                /\ HolderOf(rec, n) = d => r.holder = d
             \/ /\ at'[d] \in Requesting <=> name'[d] # None
                /\ at'[d] \in {"entering", "filling"}
                      => name'[d] = n /\ r.holder = d
      BY <1>7, <2>1 DEF Requesting
    <2> HIDE DEF AssignNameFails
    <2> QED  BY <1>1, <1>5, <1>6, <1>8, <2>2, RecordChange
  <1>10. BoxIsExclusive'
    BY DEF IInv, TypeOK, BoxIsExclusive
  <1>11. HandIsUsed'
    BY DEF IInv, HandIsUsed
  <1>12. LinksAreWatched' /\ PairsAreDistinct'
    <2>1. \A m \in Name : LocksOf(rec', m) = LocksOf(rec, m)
      BY <1>5, <1>7 DEF Replaced
    <2> QED  BY <2>1, SameLinks DEF IInv
  <1> QED
    BY <1>6, <1>8, <1>9, <1>10, <1>11, <1>12 DEF IInv

\* The arrays without one of their pairs.
LEMMA RemovePositionOK ==
    ASSUME NEW S, NEW s \in Seq(S), NEW k \in 1..Len(s),
           \A i, j \in 1..Len(s) : s[i] = s[j] => i = j
    PROVE  \A t : t = RemovePosition(s, k) =>
              /\ t \in Seq(S)
              /\ Elements(t) = Elements(s) \ {s[k]}
              /\ \A i, j \in 1..Len(t) : t[i] = t[j] => i = j
  <1> TAKE t
  <1> HAVE t = RemovePosition(s, k)
  <1> DEFINE m == Len(s) - 1
  <1>1. Len(s) \in Nat /\ m \in Nat /\ \A i \in 1..Len(s) : s[i] \in S
    OBVIOUS
  <1>2. t = [j \in 1..m |-> IF j < k THEN s[j] ELSE s[j + 1]]
    BY DEF RemovePosition
  <1>3. \A j \in 1..m : /\ j \in 1..Len(s) /\ j + 1 \in 1..Len(s)
                        /\ t[j] = IF j < k THEN s[j] ELSE s[j + 1]
    BY <1>1, <1>2
  <1>4. t \in [1..m -> S]
    BY <1>1, <1>2, <1>3
  <1>5. t \in Seq(S) /\ Len(t) = m
    BY <1>1, <1>4
  <1>6. \A i \in 1..Len(t) : \E j \in 1..Len(s) : t[i] = s[j] /\ j # k
    <2> SUFFICES ASSUME NEW i \in 1..m
                 PROVE  \E j \in 1..Len(s) : t[i] = s[j] /\ j # k
      BY <1>5
    <2>1. CASE i < k
      BY <1>3, <2>1
    <2>2. CASE ~ (i < k)
      <3>1. t[i] = s[i + 1] /\ i + 1 \in 1..Len(s) /\ i + 1 # k
        BY <1>3, <2>2
      <3> QED  BY <3>1
    <2> QED  BY <2>1, <2>2
  <1>7. \A j \in 1..Len(s) : j # k => \E i \in 1..Len(t) : t[i] = s[j]
    <2> SUFFICES ASSUME NEW j \in 1..Len(s), j # k
                 PROVE  \E i \in 1..m : t[i] = s[j]
      BY <1>5
    <2>1. CASE j < k
      <3>1. j \in 1..m /\ t[j] = s[j]
        BY <1>1, <1>3, <2>1
      <3> QED  BY <3>1
    <2>2. CASE ~ (j < k)
      <3>1. j - 1 \in 1..m /\ ~ (j - 1 < k) /\ (j - 1) + 1 = j
        BY <1>1, <2>2
      <3>2. t[j - 1] = s[j]
        BY <1>3, <3>1
      <3> QED  BY <3>1, <3>2
    <2> QED  BY <2>1, <2>2
  <1>8. Elements(t) = Elements(s) \ {s[k]}
    <2>1. \A j \in 1..Len(s) : j # k => s[j] # s[k]
      OBVIOUS
    <2>2. \A x \in Elements(t) : x \in Elements(s) \ {s[k]}
      BY <1>6, <2>1 DEF Elements
    <2>3. \A x \in Elements(s) \ {s[k]} : x \in Elements(t)
      BY <1>7 DEF Elements
    <2> QED  BY <2>2, <2>3
  <1>9. \A i, j \in 1..Len(t) : t[i] = t[j] => i = j
    <2> SUFFICES ASSUME NEW i \in 1..m, NEW j \in 1..m, t[i] = t[j]
                 PROVE  i = j
      BY <1>5
    <2> DEFINE u == IF i < k THEN i ELSE i + 1
               v == IF j < k THEN j ELSE j + 1
    <2>1. u \in 1..Len(s) /\ v \in 1..Len(s) /\ s[u] = s[v]
      BY <1>3
    <2>2. u = v
      BY <2>1
    <2> QED  BY <2>2
  <1> QED  BY <1>5, <1>8, <1>9

\* A pass finds a signaled handle: the box is taken over, or a pair goes into the hand.
LEMMA HandleFoundKeeps ==
    ASSUME IInv, HandleFound
    PROVE  IInv'
  <1>1. /\ watcher = "pass"
        /\ idle' = AnswerNo
        /\ UNCHANGED <<rec, lastAccess, at, name, signaled, offset, isIdle,
                       asker>>
    BY DEF HandleFound
  <1>2. hand = None /\ watched \in Seq(Pair) /\ inBox \in Pair \cup {None}
    BY <1>1 DEF IInv, TypeOK, HandIsUsed
  <1>3. idle' \in 0..3
    BY <1>1 DEF AnswerNo, IInv, TypeOK
  <1>4. RecordsAreOK' /\ NewCountIsRight' /\ RequestsArePlaced'
        /\ PreparersHold'
    BY <1>1, SameRecords
  <1>5. Links(rec') = Links(rec)
    BY <1>1
  <1>6. CASE /\ inBox # None
             /\ watched' = Append(watched, inBox)
             /\ inBox' = None
             /\ boxFree' = TRUE
             /\ watcher' = "begin"
             /\ UNCHANGED <<hand, testIdle>>
    <2>1. /\ watched' \in Seq(Pair) /\ Len(watched') = Len(watched) + 1
          /\ Len(watched) \in Nat
          /\ \A i \in 1..Len(watched) : watched'[i] = watched[i]
          /\ watched'[Len(watched) + 1] = inBox
      BY <1>2, <1>6
    <2>2. TypeOK'
      BY <1>1, <1>3, <1>6, <2>1 DEF IInv, TypeOK
    <2>3. BoxIsExclusive'
      BY <1>1, <1>6 DEF IInv, BoxIsExclusive
    <2>4. HandIsUsed'
      BY <1>1, <1>2, <1>6 DEF HandIsUsed
    <2>5. LinksAreWatched'
      <3>1. WatchedPairs' = WatchedPairs \cup {inBox}
        BY <2>1 DEF WatchedPairs, Elements
      <3>2. InTransit = {inBox} /\ InTransit' = {}
        BY <1>2, <1>6 DEF InTransit
      <3> QED  BY <1>5, <3>1, <3>2 DEF IInv, LinksAreWatched
    <2>6. PairsAreDistinct'
      <3>1. \A i \in 1..Len(watched) :
               watched[i] \in Pair /\ watched[i] # inBox
        BY <1>2 DEF IInv, PairsAreDistinct
      <3>2. \A i \in 1..Len(watched') :
               i \in 1..Len(watched) \/ i = Len(watched) + 1
        BY <2>1
      <3>3. \A i \in 1..Len(watched') : watched'[i] \in Pair
        BY <2>1
      <3>4. \A i, j \in 1..Len(watched') : watched'[i] = watched'[j] => i = j
        BY <2>1, <3>1, <3>2 DEF IInv, PairsAreDistinct
      <3> QED
        BY <1>2, <1>6, <3>3, <3>4, RecordAssumption DEF PairsAreDistinct
    <2> QED
      BY <1>4, <2>2, <2>3, <2>4, <2>5, <2>6 DEF IInv
  <1>7. CASE /\ testIdle' = FALSE
             /\ watcher' = "begin"
             /\ UNCHANGED <<watched, boxVars, hand>>
    <2>1. TypeOK'
      BY <1>1, <1>3, <1>7 DEF IInv, TypeOK, boxVars
    <2>2. BoxIsExclusive'
      BY <1>1, <1>7, SameBox DEF IInv, boxVars
    <2>3. HandIsUsed'
      BY <1>1, <1>2, <1>7 DEF HandIsUsed
    <2> QED
      BY <1>1, <1>7, <2>1, <2>2, <2>3, QuietStep DEF boxVars
  <1>8. ASSUME NEW k \in 1..Len(watched),
               hand' = watched[k],
               watched' = RemovePosition(watched, k),
               watcher' = "satisfied",
               UNCHANGED <<boxVars, testIdle>>
        PROVE  IInv'
    <2>1. /\ watched' \in Seq(Pair)
          /\ WatchedPairs' = WatchedPairs \ {watched[k]}
          /\ \A i, j \in 1..Len(watched') : watched'[i] = watched'[j] => i = j
      <3>1. \A i, j \in 1..Len(watched) : watched[i] = watched[j] => i = j
        BY DEF IInv, PairsAreDistinct
      <3>2. watched \in Seq(Pair) /\ k \in 1..Len(watched)
        BY <1>2
      <3>3. /\ watched' \in Seq(Pair)
            /\ Elements(watched') = Elements(watched) \ {watched[k]}
            /\ \A i, j \in 1..Len(watched') :
                  watched'[i] = watched'[j] => i = j
        BY <1>8, <3>1, <3>2, RemovePositionOK
      <3> QED  BY <3>3 DEF WatchedPairs
    <2>2. watched[k] \in Pair /\ watched[k] # None /\ watched[k] # inBox
          /\ watched[k] \in WatchedPairs
      BY <1>2, RecordAssumption
      DEF WatchedPairs, Elements, IInv, PairsAreDistinct
    <2>3. TypeOK'
      BY <1>1, <1>3, <1>8, <2>1, <2>2 DEF IInv, TypeOK, boxVars
    <2>4. BoxIsExclusive'
      BY <1>1, <1>8, SameBox DEF IInv, boxVars
    <2>5. HandIsUsed'
      BY <1>8, <2>2 DEF HandIsUsed
    <2>6. LinksAreWatched'
      <3>1. InTransit' = InTransit \cup {watched[k]}
        BY <1>2, <1>8, <2>2 DEF InTransit, boxVars
      <3> QED  BY <1>5, <2>1, <2>2, <3>1 DEF IInv, LinksAreWatched
    <2>7. PairsAreDistinct'
      <3>1. inBox' = inBox
        BY <1>8 DEF boxVars
      <3>2. inBox \notin WatchedPairs
        BY DEF WatchedPairs, Elements, IInv, PairsAreDistinct
      <3>3. \A i \in 1..Len(watched') : watched'[i] \in WatchedPairs'
        BY DEF WatchedPairs, Elements
      <3>4. \A i \in 1..Len(watched') :
               watched'[i] # inBox' /\ watched'[i] # hand'
        BY <1>8, <2>1, <3>1, <3>2, <3>3
      <3> QED  BY <1>8, <2>1, <2>2, <3>1, <3>4 DEF PairsAreDistinct
    <2> QED
      BY <1>4, <2>3, <2>4, <2>5, <2>6, <2>7 DEF IInv
  <1> QED
    <2>1. PICK i \in Part :
             /\ HandleSignaled(i)
             /\ CASE i = 1 ->
                       /\ watched' = Append(watched, inBox)
                       /\ inBox' = None
                       /\ boxFree' = TRUE
                       /\ watcher' = "begin"
                       /\ UNCHANGED <<hand, testIdle>>
                  [] i = 2 ->
                       /\ testIdle' = FALSE
                       /\ watcher' = "begin"
                       /\ UNCHANGED <<watched, boxVars, hand>>
                  [] OTHER ->
                       /\ hand' = watched[i - 2]
                       /\ watched' = RemovePosition(watched, i - 2)
                       /\ watcher' = "satisfied"
                       /\ UNCHANGED <<boxVars, testIdle>>
      BY Zenon DEF HandleFound
    <2>2. CASE i = 1
      <3>1. inBox # None
        BY <2>1, <2>2 DEF HandleSignaled
      <3>2. /\ watched' = Append(watched, inBox)
            /\ inBox' = None
            /\ boxFree' = TRUE
            /\ watcher' = "begin"
            /\ UNCHANGED <<hand, testIdle>>
        BY <2>1, <2>2
      <3> QED  BY <1>6, <3>1, <3>2
    <2>3. CASE i = 2
      <3>1. /\ testIdle' = FALSE
            /\ watcher' = "begin"
            /\ UNCHANGED <<watched, boxVars, hand>>
        BY <2>1, <2>3
      <3> QED  BY <1>7, <3>1
    <2>4. CASE i # 1 /\ i # 2
      <3>1. i - 2 \in 1..Len(watched)
        BY <1>2, <2>4 DEF Part, HandleCount
      <3>2. /\ hand' = watched[i - 2]
            /\ watched' = RemovePosition(watched, i - 2)
            /\ watcher' = "satisfied"
            /\ UNCHANGED <<boxVars, testIdle>>
        BY <2>1, <2>4
      <3> QED  BY <1>8, <3>1, <3>2
    <2> QED  BY <2>2, <2>3, <2>4

\* The box is emptied and its pair dropped: the thread never moves again.
LEMMA ReceiveBoxFailsKeeps ==
    ASSUME IInv, ReceiveBoxFails
    PROVE  IInv'
  <1>1. /\ watcher = "pass" /\ watcher' = "stuck"
        /\ idle' = AnswerNo
        /\ hand' = inBox /\ inBox' = None /\ boxFree' = TRUE
        /\ UNCHANGED <<rec, lastAccess, at, name, signaled, watched, offset,
                       testIdle, isIdle, asker>>
    BY DEF ReceiveBoxFails
  <1>2. /\ hand = None /\ inBox # None /\ inBox \in Pair
        /\ watched \in Seq(Pair)
    BY <1>1 DEF ReceiveBoxFails, HandleSignaled, IInv, TypeOK, HandIsUsed
  <1>3. TypeOK'
    <2>1. idle' \in 0..3
      BY <1>1 DEF AnswerNo, IInv, TypeOK
    <2> QED  BY <1>1, <1>2, <2>1 DEF IInv, TypeOK
  <1>4. RecordsAreOK' /\ NewCountIsRight' /\ RequestsArePlaced'
        /\ PreparersHold'
    BY <1>1, SameRecords
  <1>5. BoxIsExclusive'
    BY <1>1, <1>2, RecordAssumption DEF IInv, BoxIsExclusive
  <1>6. HandIsUsed'
    BY <1>1, <1>2 DEF HandIsUsed
  <1>7. LinksAreWatched'
    <2>1. Links(rec') = Links(rec) /\ WatchedPairs' = WatchedPairs
      BY <1>1 DEF WatchedPairs, Elements
    <2>2. InTransit = {inBox} /\ InTransit' = {inBox}
      BY <1>1, <1>2 DEF InTransit
    <2> QED  BY <2>1, <2>2 DEF IInv, LinksAreWatched
  <1>8. PairsAreDistinct'
    <2>1. \A i \in 1..Len(watched) : watched[i] # None
      BY <1>2, RecordAssumption
    <2> QED  BY <1>1, <2>1 DEF IInv, PairsAreDistinct
  <1> QED
    BY <1>3, <1>4, <1>5, <1>6, <1>7, <1>8 DEF IInv

\* WaitSatisfied: the owner loses the lock; the record may go.
LEMMA WaitSatisfiedKeeps ==
    ASSUME IInv, WaitSatisfied
    PROVE  IInv'
  <1> DEFINE l == hand[1]
             n == hand[2]
             s == [rec[n] EXCEPT !.locks = rec[n].locks \ {l}]
             q == OnLockRemoved(s, IsEdit(l))
  <1>1. /\ watcher = "satisfied"
        /\ lastAccess' = IF IsLocked(q) THEN Touch(lastAccess, n)
                                        ELSE lastAccess
        /\ Settle(n, q)
        /\ signaled' = signaled \ ({l} \cap Viewer)
        /\ hand' = None
        /\ watcher' = "begin"
        /\ UNCHANGED <<at, name, boxVars, watched, offset, idleVars>>
    BY DEF WaitSatisfied
  <1>2. hand \in Pair /\ hand # None
    BY <1>1, RecordAssumption DEF IInv, TypeOK, HandIsUsed
  <1>3. l \in Lock /\ n \in Name /\ hand = <<l, n>>
    BY <1>2 DEF Pair
  <1>4. l \in LocksOf(rec, n)
    <2>1. hand \in Links(rec)
      BY <1>2 DEF IInv, LinksAreWatched, InTransit
    <2> QED  BY <2>1 DEF Links
  <1>5. rec[n] # None /\ RecordOK(rec[n])
    BY <1>3, <1>4 DEF LocksOf, IInv, RecordsAreOK, AllOK
  <1>6. RecordOK(q) /\ q.new = rec[n].new /\ q.locks = rec[n].locks \ {l}
        /\ q.holder = rec[n].holder
    <2>1. rec[n].locks \ {l} \in SUBSET Lock
      BY <1>5 DEF RecordOK, Rec
    <2>2. RecordOK(s) /\ s.new = rec[n].new /\ s.locks = rec[n].locks \ {l}
          /\ s.holder = rec[n].holder
      BY <1>5, <2>1 DEF RecordOK, Rec
    <2>3. IsEdit(l) \in BOOLEAN
      BY DEF IsEdit
    <2> HIDE DEF s
    <2> QED  BY <2>2, <2>3, OnLockRemovedOK
  <1> HIDE DEF q
  <1>7. Replaced(rec, rec', n, q)
    BY <1>1, <1>3, <1>6, SettleReplaces
    DEF IInv, TypeOK, Records, RecordsAreOK
  <1>8. TypeOK'
    <2>1. lastAccess' \in [Name -> Nat]
      BY <1>1, <1>3, TouchType DEF IInv, TypeOK
    <2> QED
      BY <1>1, <1>7, <2>1
      DEF IInv, TypeOK, Replaced, Records, boxVars, idleVars
  <1>9. /\ NewOf(rec, n) = q.new
        /\ LocksOf(rec, n) = rec[n].locks
        /\ HolderOf(rec, n) = q.holder
    BY <1>5, <1>6 DEF NewOf, LocksOf, HolderOf
  <1>10. NewCountIsRight'
    BY <1>1, <1>7, <1>9, SameRequests DEF IInv, Replaced
  <1>11. RecordsAreOK' /\ RequestsArePlaced' /\ PreparersHold'
    BY <1>1, <1>3, <1>7, <1>8, <1>9, <1>10, RecordChange
  <1>12. BoxIsExclusive'
    BY <1>1, SameBox DEF IInv, boxVars
  <1>13. HandIsUsed'
    BY <1>1 DEF HandIsUsed
  <1>14. LinksAreWatched'
    <2>1. Links(rec') = Links(rec) \ {hand}
      <3>1. ASSUME NEW x \in Lock, NEW m \in Name
            PROVE  x \in LocksOf(rec', m)
                      <=> x \in LocksOf(rec, m) /\ <<x, m>> # <<l, n>>
        BY <1>6, <1>7, <1>9 DEF Replaced
      <3> QED  BY <1>3, <3>1 DEF Links, Pair
    <2>2. WatchedPairs' = WatchedPairs /\ hand \notin WatchedPairs
      BY <1>1 DEF WatchedPairs, Elements, IInv, PairsAreDistinct
    <2>3. InTransit' = InTransit \ {hand}
      BY <1>1, <1>2 DEF InTransit, boxVars, IInv, PairsAreDistinct
    <2> QED  BY <2>1, <2>2, <2>3 DEF IInv, LinksAreWatched
  <1>15. PairsAreDistinct'
    <2>1. \A i \in 1..Len(watched) : watched[i] # None
      BY RecordAssumption DEF IInv, TypeOK
    <2> QED
      BY <1>1, <2>1 DEF IInv, PairsAreDistinct, boxVars
  <1> QED
    BY <1>8, <1>10, <1>11, <1>12, <1>13, <1>14, <1>15 DEF IInv

-----------------------------------------------------------------------------
(* The invariant                                                           *)

LEMMA InitEstablishes == Init => IInv
  <1> SUFFICES ASSUME Init
               PROVE  IInv
    OBVIOUS
  <1> USE DEF Init
  <1>1. TypeOK
    <2>1. watched \in Seq(Pair)
      OBVIOUS
    <2>2. /\ rec \in [Name -> Rec \cup {None}]
          /\ lastAccess \in [Name -> Nat]
          /\ name \in [Client -> Name \cup {None}]
      OBVIOUS
    <2>3. /\ at \in [Client -> {"out", "blocked", "entering", "filling",
                               "using", "boxing", "unlocking", "asking",
                               "waiting"}]
          /\ signaled \subseteq Lock
      OBVIOUS
    <2>4. boxFree \in BOOLEAN /\ testIdle \in BOOLEAN /\ isIdle \in BOOLEAN
      OBVIOUS
    <2>5. offset \in Nat /\ idle \in 0..3
      OBVIOUS
    <2> QED
      BY <2>1, <2>2, <2>3, <2>4, <2>5, Zenon DEF TypeOK
  <1>2. RecordsAreOK
    BY DEF RecordsAreOK, AllOK
  <1>3. NewCountIsRight
    <2> SUFFICES ASSUME NEW n \in Name
                 PROVE  NewOf(rec, n) = Cardinality(Requests(n))
      BY DEF NewCountIsRight
    <2>1. Requests(n) = {}
      BY NoneAssumption DEF Requests
    <2> QED  BY <2>1, FS_EmptySet DEF NewOf
  <1>4. RequestsArePlaced /\ PreparersHold
    BY DEF RequestsArePlaced, PreparersHold, Requesting
  <1>5. BoxIsExclusive /\ HandIsUsed
    BY DEF BoxIsExclusive, HandIsUsed
  <1>6. LinksAreWatched
    BY DEF LinksAreWatched, Links, LocksOf, WatchedPairs, Elements,
           InTransit, Pair
  <1>7. PairsAreDistinct
    BY DEF PairsAreDistinct
  <1> QED
    BY <1>1, <1>2, <1>3, <1>4, <1>5, <1>6, <1>7 DEF IInv

\* Every step keeps the invariant.
LEMMA NextKeeps == IInv /\ [Next]_vars => IInv'
  <1> SUFFICES ASSUME IInv, [Next]_vars
               PROVE  IInv'
    OBVIOUS
  <1>1. ASSUME NEW c \in Client, ClientStep(c)
        PROVE  IInv'
    <2>1. ASSUME NEW n \in Name, GetNewName(c, n)
          PROVE  IInv'
      BY <2>1, GetNewNameKeeps
    <2>2. ASSUME NEW n \in Name, GetNameAndWait(c, n)
          PROVE  IInv'
      BY <2>2, GetNameAndWaitKeeps
    <2>3. ASSUME NEW n \in Name, NEW onlyAdd \in BOOLEAN,
                 GetNameAtOnce(c, n, onlyAdd)
          PROVE  IInv'
      BY <2>3, GetNameAtOnceKeeps
    <2>4. CASE PreparingAcquired(c)
      BY <2>4, PreparingAcquiredKeeps
    <2>5. CASE GetNameAfterWait(c)
      BY <2>5, GetNameAfterWaitKeeps
    <2>6. CASE NamePrepared(c)
      BY <2>6, NamePreparedKeeps
    <2>7. ASSUME NEW storeInCache \in BOOLEAN, ReleaseName(c, storeInCache)
          PROVE  IInv'
      BY <2>7, ReleaseNameKeeps
    <2>8. CASE WaitForBox(c)
      BY <2>8, WaitForBoxKeeps
    <2>9. ASSUME NEW l \in Lock, NEW cache \in BOOLEAN,
                 AssignName(c, l, cache)
          PROVE  IInv'
      BY <2>9, AssignNameKeeps
    <2>10. CASE AssignNameFails(c)
      BY <2>10, AssignNameFailsKeeps
    <2>11. ASSUME NEW names \in SUBSET Name, FlushCache(c, names)
           PROVE  IInv'
      BY <2>11, FlushCacheKeeps
    <2>12. CASE \/ \E l \in Shared(c) : SetSharedLock(c, l)
                \/ Ask(c) \/ WakeWatcher(c) \/ IdleAnswered(c)
      BY <2>12, UnlockKeeps
    <2> QED
      BY <1>1, <2>1, <2>2, <2>3, <2>4, <2>5, <2>6, <2>7, <2>8, <2>9, <2>10,
         <2>11, <2>12
      DEF ClientStep
  <1>2. CASE WatcherStep
    BY <1>2, PassKeeps, HandleFoundKeeps, ReceiveBoxFailsKeeps, WaitSatisfiedKeeps
    DEF WatcherStep
  <1>3. CASE Environment
    BY <1>3, CloseViewerKeeps, FileGoneKeeps DEF Environment
  <1>4. CASE UNCHANGED vars
    <2> USE <1>4 DEF vars, boxVars, threadVars, watcherVars
    <2>1. TypeOK'
      BY DEF IInv, TypeOK
    <2>2. BoxIsExclusive' /\ HandIsUsed'
      BY DEF IInv, BoxIsExclusive, HandIsUsed
    <2> QED  BY <2>1, <2>2, QuietStep
  <1> QED
    BY <1>1, <1>2, <1>3, <1>4 DEF Next

\* The invariant holds in every reachable state.
LEMMA Invariance == Spec => []IInv
  BY InitEstablishes, NextKeeps, PTL DEF Spec

-----------------------------------------------------------------------------
(* The theorems                                                            *)

\* Every variable keeps its type; above all, NewCount and EditLocks are never
\* taken below zero and no step reads a record that was deleted.
THEOREM TypeCorrect == Spec => []TypeOK
  <1>1. IInv => TypeOK
    BY DEF IInv
  <1> QED  BY <1>1, Invariance, PTL

\* However many threads look a name up, wait for its mutex or for the box,
\* CCacheData::NewCount is the number of their requests, and the record of a
\* requested name is not deleted.
THEOREM RequestsCounted == Spec => []RequestsAreCounted
  <1>1. IInv => RequestsAreCounted
    <2> SUFFICES ASSUME IInv, NEW n \in Name
                 PROVE  IF rec[n] = None
                        THEN Requests(n) = {}
                        ELSE rec[n].new = Cardinality(Requests(n))
      BY DEF RequestsAreCounted
    <2>1. NewOf(rec, n) = Cardinality(Requests(n))
      BY DEF IInv, NewCountIsRight
    <2>2. Requests(n) = {} <=> Cardinality(Requests(n)) = 0
      BY RequestsAreFinite, FS_EmptySet
    <2> QED  BY <2>1, <2>2 DEF NewOf
  <1> QED  BY <1>1, Invariance, PTL

\* The pointer the watching thread takes to WaitSatisfied is that of a record
\* which exists and holds the lock.
THEOREM WatchedOwnersAlive == Spec => []WatchedOwnersAreAlive
  <1>1. IInv => WatchedOwnersAreAlive
    <2> SUFFICES ASSUME IInv, NEW p \in WatchedPairs \cup InTransit
                 PROVE  rec[p[2]] # None /\ p[1] \in rec[p[2]].locks
      BY DEF WatchedOwnersAreAlive, WatchedPairs, Elements
    <2>1. p[1] \in LocksOf(rec, p[2])
      BY DEF IInv, LinksAreWatched, Links
    <2> QED  BY <2>1 DEF LocksOf
  <1> QED  BY <1>1, Invariance, PTL

\* Every lock a record holds is watched exactly once: in the arrays, in the
\* box or in the hand of the watching thread.  The one exception is the lock
\* ReceiveBox found no room for (cache.cpp 1055-1075): it is watched nowhere,
\* and then the watching thread stands still.
THEOREM LocksWatched == Spec => []LocksAreWatched
  <1>1. IInv => LocksAreWatched
    <2> SUFFICES ASSUME IInv, NEW n \in Live, NEW l \in rec[n].locks
                 PROVE  LET p == <<l, n>>
                            places == {i \in 1..Len(watched) : watched[i] = p}
                        IN  \/ p \notin InTransit /\ Cardinality(places) = 1
                            \/ places = {} /\ p = inBox /\ p # hand
                            \/ places = {} /\ p = hand /\ p # inBox
                               /\ watcher \in {"satisfied", "stuck"}
      BY DEF LocksAreWatched
    <2> DEFINE p == <<l, n>>
               places == {i \in 1..Len(watched) : watched[i] = p}
    <2>1. n \in Name /\ l \in Lock /\ l \in LocksOf(rec, n)
      BY DEF Live, LocksOf, IInv, RecordsAreOK, AllOK, RecordOK, Rec
    <2>2. p \in WatchedPairs \cup InTransit /\ p # None
      BY <2>1, RecordAssumption DEF IInv, LinksAreWatched, Links, Pair
    <2>3. CASE p = inBox
      <3>1. places = {} /\ p # hand
        BY <2>2, <2>3 DEF IInv, PairsAreDistinct
      <3> QED  BY <2>3, <3>1
    <2>4. CASE p = hand
      <3>1. places = {} /\ p # inBox /\ watcher \in {"satisfied", "stuck"}
        BY <2>2, <2>4 DEF IInv, PairsAreDistinct, HandIsUsed
      <3> QED  BY <2>4, <3>1
    <2>5. CASE p \notin InTransit
      <3>1. PICK i \in 1..Len(watched) : watched[i] = p
        BY <2>2, <2>5 DEF WatchedPairs, Elements
      <3>2. places = {i}
        BY <3>1 DEF IInv, PairsAreDistinct
      <3>3. Cardinality(places) = 1
        BY <3>2, FS_Singleton
      <3> QED  BY <2>5, <3>3
    <2> QED  BY <2>3, <2>4, <2>5 DEF InTransit
  <1> QED  BY <1>1, Invariance, PTL

\* Two threads never fill one copy: who was told to prepare it owns its
\* mutex.
THEOREM PreparerAlone == Spec => []PreparerIsAlone
  <1>1. IInv => PreparerIsAlone
    <2> SUFFICES ASSUME IInv, NEW c \in Client, at[c] = "filling"
                 PROVE  rec[name[c]].holder = c
      BY DEF PreparerIsAlone
    <2>1. rec[name[c]] # None
      BY RequestedIsLive DEF Requesting
    <2> QED  BY <2>1 DEF IInv, PreparersHold, HolderOf
  <1> QED  BY <1>1, Invariance, PTL

\* The invariant salcacheedit.h states, for any number of panels that edit a
\* copy and any order of flushes.
THEOREM EditPinCorrect == Spec => []EditPinInvariant
  <1>1. IInv => EditPinInvariant
    BY DEF IInv, RecordsAreOK, AllOK, RecordOK, EditPinInvariant, Live
  <1> QED  BY <1>1, Invariance, PTL

\* A copy that predates a flush does not stay in the cache once its editors
\* are gone.
THEOREM FlushedNotCached == Spec => []FlushedCopyIsNotCached
  <1>1. IInv => FlushedCopyIsNotCached
    BY DEF IInv, RecordsAreOK, AllOK, RecordOK, FlushedCopyIsNotCached, Live
  <1> QED  BY <1>1, Invariance, PTL

-----------------------------------------------------------------------------
(* What those who use the cache rely on, for any number of names, threads, *)
(* panels and locks: no step takes a copy from an editor or hands one out  *)
(* that predates a flush, and an answered WaitForIdle is true.             *)

(* EditLocks is the number of the locks of panels                          *)

Counted(r) ==
    /\ IsFiniteSet(r.locks \cap Panel)
    /\ r.edits = Cardinality(r.locks \cap Panel)

EditsAreCounted == \A n \in Live : Counted(rec[n])

\* q is r after something that is not about its locks; if it is edited and its
\* file is there, the copy is as good as it was.
Alike(r, q) ==
    /\ q.locks = r.locks /\ q.edits = r.edits
    /\ r.prepared /\ r.onDisk /\ r.edits > 0 => q.prepared

\* What most steps do with a name: nothing to its locks.
Gentle(n) ==
    \/ rec'[n] = None /\ (rec[n] # None => rec[n].locks = {})
    \/ rec[n] = None /\ rec'[n] # None /\ rec'[n].locks = {} /\ rec'[n].edits = 0
    \/ rec[n] # None /\ rec'[n] # None /\ Alike(rec[n], rec'[n])

\* The body of EditedCopyIsKept
KeptInStep ==
    \A n \in Live :
       (rec[n].locks \cap Panel # {} /\ rec[n].prepared /\ rec[n].onDisk)
          => \/ /\ hand # None /\ hand' = None /\ hand[2] = n
                /\ rec[n].locks \cap Panel = {hand[1]}
             \/ rec'[n] # None /\ rec'[n].prepared

\* A copy an editor has open is pinned.
LEMMA EditedIsPinned ==
    ASSUME IInv, EditsAreCounted, NEW n \in Live, rec[n].locks \cap Panel # {}
    PROVE  rec[n].edits > 0
  <1>1. Counted(rec[n]) /\ Cardinality(rec[n].locks \cap Panel) # 0
    BY FS_EmptySet DEF EditsAreCounted, Counted
  <1>2. rec[n].edits \in Nat
    BY DEF IInv, RecordsAreOK, AllOK, RecordOK, Rec, Live
  <1> QED  BY <1>1, <1>2 DEF Counted

LEMMA GentleStep ==
    ASSUME IInv, EditsAreCounted, \A n \in Name : Gentle(n)
    PROVE  EditsAreCounted' /\ KeptInStep
  <1>1. EditsAreCounted'
    <2> SUFFICES ASSUME NEW n \in Name, rec'[n] # None
                 PROVE  Counted(rec'[n])
      BY DEF EditsAreCounted, Live
    <2>1. CASE rec[n] = None
      <3>1. rec'[n].locks = {} /\ rec'[n].edits = 0
        BY <2>1 DEF Gentle
      <3>2. rec'[n].locks \cap Panel = {}
        BY <3>1
      <3> QED  BY <3>1, <3>2, FS_EmptySet DEF Counted
    <2>2. CASE rec[n] # None
      <3>1. Counted(rec[n]) /\ rec'[n].locks = rec[n].locks /\ rec'[n].edits = rec[n].edits
        BY <2>2 DEF Gentle, Alike, EditsAreCounted, Live
      <3> QED  BY <3>1 DEF Counted
    <2> QED  BY <2>1, <2>2
  <1>2. KeptInStep
    BY EditedIsPinned DEF KeptInStep, Gentle, Alike, Live
  <1> QED  BY <1>1, <1>2

\* Writing one record which is alike is gentle, ...
LEMMA PutIsGentle ==
    ASSUME IInv, NEW n \in Name, rec[n] # None, NEW q, q # None, Alike(rec[n], q),
           rec' = [rec EXCEPT ![n] = q]
    PROVE  \A m \in Name : Gentle(m)
  <1>1. rec \in [Name -> Rec \cup {None}]
    BY DEF IInv, TypeOK
  <1>2. \A m \in Name : rec'[m] = IF m = n THEN q ELSE rec[m]
    BY <1>1
  <1> QED  BY <1>2 DEF Gentle, Alike

\* ... and so is settling it.
LEMMA SettleIsGentle ==
    ASSUME IInv, NEW n \in Name, rec[n] # None, NEW q, RecordOK(q), Alike(rec[n], q),
           Settle(n, q)
    PROVE  \A m \in Name : Gentle(m)
  <1> DEFINE f == [rec EXCEPT ![n] = q]
  <1>1. rec \in Records /\ AllOK(rec)
    BY DEF IInv, TypeOK, Records, RecordsAreOK
  <1>2. Cleaned(f, rec')
    BY <1>1, SettleCleans
  <1>3. q # None
    BY RecordAssumption DEF RecordOK
  <1>4. \A m \in Name : f[m] = IF m = n THEN q ELSE rec[m]
    BY <1>1 DEF Records
  <1> HIDE DEF f
  <1>5. ASSUME NEW m \in Name
        PROVE  Gentle(m)
    <2>1. rec'[m] = f[m] \/ (rec'[m] = None /\ f[m].locks = {})
      BY <1>2, <1>5 DEF Cleaned, IsLocked
    <2>2. CASE m = n
      BY <1>3, <1>4, <2>1, <2>2 DEF Gentle, Alike
    <2>3. CASE m # n
      BY <1>4, <2>1, <2>3 DEF Gentle, Alike
    <2> QED  BY <2>2, <2>3
  <1> QED  BY <1>5

-----------------------------------------------------------------------------
(* The actions                                                             *)

\* GetName, with or without waiting, up to the release of the name.
LEMMA RequestIsGentle ==
    ASSUME IInv, NEW c \in Client, NEW n \in Name,
           GetNewName(c, n) \/ GetNameAndWait(c, n)
    PROVE  \A m \in Name : Gentle(m)
  <1>0. rec \in [Name -> Rec \cup {None}]
    BY DEF IInv, TypeOK
  <1>1. CASE GetNewName(c, n)
    <2>1. rec[n] = None /\ rec' = [rec EXCEPT ![n] = NewRecord(n, c)]
      BY <1>1 DEF GetNewName
    <2>2. NewRecord(n, c) \in Rec /\ NewRecord(n, c).locks = {} /\ NewRecord(n, c).edits = 0
      BY NewRecordOK DEF RecordOK, NewRecord
    <2>3. \A m \in Name : rec'[m] = IF m = n THEN NewRecord(n, c) ELSE rec[m]
      BY <1>0, <2>1
    <2> HIDE DEF NewRecord
    <2> QED  BY <2>1, <2>2, <2>3, RecordAssumption DEF Gentle, Alike
  <1>2. CASE GetNameAndWait(c, n)
    <2> DEFINE q == [rec[n] EXCEPT !.new = rec[n].new + 1]
    <2>1. rec[n] # None /\ rec[n] \in Rec /\ rec' = [rec EXCEPT ![n] = q]
      BY <1>0, <1>2 DEF GetNameAndWait
    <2>2. q \in Rec /\ Alike(rec[n], q)
      BY <2>1 DEF Rec, Alike
    <2> QED  BY <2>1, <2>2, PutIsGentle, RecordAssumption
  <1> QED  BY <1>1, <1>2

\* A copy that is pinned is not out of date, so nobody is told to prepare it
\* again.
LEMMA LookUpIsGentle ==
    ASSUME IInv, NEW c \in Client, NEW n \in Name, rec[n] # None,
           NEW r0, RecordOK(r0), r0.new # 0, Alike(rec[n], r0), r0.prepared = rec[n].prepared,
           r0.onDisk = rec[n].onDisk,
           NEW onlyAdd \in BOOLEAN, LookUp(c, n, r0, onlyAdd)
    PROVE  \A m \in Name : Gentle(m)
  <1> DEFINE s == [r0 EXCEPT !.holder = None]
             t == [r0 EXCEPT !.holder = None, !.new = r0.new - 1]
             f == [r0 EXCEPT !.prepared = FALSE, !.outOfDate = FALSE,
                             !.old = FALSE]
             u == CleanFromDisk(f)
  <1>1. (IF r0.prepared THEN Normalize(r0) ELSE r0) = r0
    BY NormalizeOK
  <1>2. \/ rec' = [rec EXCEPT ![n] = s]
        \/ rec' = [rec EXCEPT ![n] = t]
        \/ /\ rec' = [rec EXCEPT ![n] = u]
           /\ ~ (r0.prepared /\ r0.onDisk /\ ~ r0.outOfDate)
    BY <1>1, Zenon DEF LookUp
  <1>3. s \in Rec /\ Alike(rec[n], s)
    BY DEF RecordOK, Rec, Alike
  <1>4. t \in Rec /\ Alike(rec[n], t)
    <2>1. r0.new - 1 \in Nat
      BY DEF RecordOK, Rec
    <2> QED  BY <2>1 DEF RecordOK, Rec, Alike
  <1>5. ASSUME ~ (r0.prepared /\ r0.onDisk /\ ~ r0.outOfDate)
        PROVE  u # None /\ Alike(rec[n], u)
    <2>1. f \in Rec /\ f.locks = r0.locks /\ f.edits = r0.edits
      BY DEF RecordOK, Rec
    <2>2. u \in Rec /\ u.locks = f.locks /\ u.edits = f.edits
      <3>1. f.own \in {"no", "plugin", "done"}
        BY <2>1 DEF Rec
      <3> HIDE DEF f
      <3>2. CASE f.own = "no"
        BY <2>1, <3>2 DEF Rec, CleanFromDisk
      <3>3. CASE f.own = "plugin"
        BY <2>1, <3>3 DEF Rec, CleanFromDisk
      <3>4. CASE f.own = "done"
        BY <2>1, <3>4 DEF Rec, CleanFromDisk
      <3> QED  BY <3>1, <3>2, <3>3, <3>4
    <2>3. ~ (rec[n].prepared /\ rec[n].onDisk /\ rec[n].edits > 0)
      BY <1>5 DEF RecordOK, Alike
    <2> HIDE DEF u, f
    <2> QED  BY <2>1, <2>2, <2>3, RecordAssumption DEF Alike
  <1> HIDE DEF s, t, u
  <1> QED  BY <1>2, <1>3, <1>4, <1>5, PutIsGentle, RecordAssumption

LEMMA GetNameIsGentle ==
    ASSUME IInv, NEW c \in Client,
           \/ \E n \in Name, onlyAdd \in BOOLEAN : GetNameAtOnce(c, n, onlyAdd)
           \/ GetNameAfterWait(c)
    PROVE  \A m \in Name : Gentle(m)
  <1>1. CASE \E n \in Name, onlyAdd \in BOOLEAN : GetNameAtOnce(c, n, onlyAdd)
    <2>1. PICK n \in Name, onlyAdd \in BOOLEAN : GetNameAtOnce(c, n, onlyAdd)
      BY <1>1
    <2> DEFINE k == rec[n].new + 1
               r0 == [rec[n] EXCEPT !.new = k, !.holder = c]
    <2>2. rec[n] # None /\ RecordOK(rec[n]) /\ LookUp(c, n, r0, onlyAdd)
      BY <2>1 DEF GetNameAtOnce, IInv, RecordsAreOK, AllOK
    <2>3. k \in Nat /\ k # 0
      BY <2>2 DEF RecordOK, Rec
    <2> HIDE DEF k
    <2>4. /\ RecordOK(r0) /\ r0.new # 0 /\ Alike(rec[n], r0)
          /\ r0.prepared = rec[n].prepared /\ r0.onDisk = rec[n].onDisk
      BY <2>2, <2>3 DEF RecordOK, Rec, Alike
    <2> HIDE DEF r0
    <2> QED  BY <2>2, <2>4, LookUpIsGentle
  <1>2. CASE GetNameAfterWait(c)
    <2> DEFINE n == name[c]
    <2>1. LookUp(c, n, rec[n], FALSE)
      BY <1>2 DEF GetNameAfterWait
    <2>2. n \in Name /\ RecordOK(rec[n]) /\ rec[n] # None /\ rec[n].new # 0
      BY <1>2, RequestedIsLive DEF GetNameAfterWait, Requesting
    <2>3. Alike(rec[n], rec[n])
      BY DEF Alike
    <2> HIDE DEF n
    <2> QED  BY <2>1, <2>2, <2>3, LookUpIsGentle
  <1> QED  BY <1>1, <1>2

LEMMA PreparationIsGentle ==
    ASSUME IInv, NEW c \in Client,
           PreparingAcquired(c) \/ NamePrepared(c) \/ AssignNameFails(c)
    PROVE  \A m \in Name : Gentle(m)
  <1> DEFINE n == name[c]
  <1>1. /\ n \in Name /\ RecordOK(rec[n]) /\ rec[n] # None
        /\ rec[n].new \in Nat \ {0}
    BY RequestedIsLive DEF PreparingAcquired, NamePrepared, AssignNameFails, Requesting
  <1>2. PICK q : /\ rec' = [rec EXCEPT ![n] = q]
                 /\ q \in { [rec[n] EXCEPT !.holder = c],
                            [rec[n] EXCEPT !.new = rec[n].new - 1],
                            [rec[n] EXCEPT !.size = 1, !.prepared = TRUE, !.holder = None,
                                           !.onDisk = TRUE] }
    BY DEF PreparingAcquired, NamePrepared, AssignNameFails, IInv, TypeOK
  <1>3. rec[n].new - 1 \in Nat
    BY <1>1
  <1>4. q \in Rec /\ Alike(rec[n], q)
    BY <1>1, <1>2, <1>3 DEF RecordOK, Rec, Alike
  <1> QED  BY <1>1, <1>2, <1>4, PutIsGentle, RecordAssumption

LEMMA ReleaseIsGentle ==
    ASSUME IInv, NEW c \in Client, NEW storeInCache \in BOOLEAN, ReleaseName(c, storeInCache)
    PROVE  \A m \in Name : Gentle(m)
  <1> DEFINE n == name[c]
             k == rec[n].new - 1
             h == IF ~ rec[n].prepared /\ rec[n].holder = c THEN None ELSE rec[n].holder
             r == [rec[n] EXCEPT !.new = k, !.holder = h]
             b == rec[n].cached \/ (/\ IsLocked(r) /\ r.prepared /\ storeInCache
                                    /\ ~ r.outOfDate)
             q == [r EXCEPT !.cached = b]
  <1>1. /\ n \in Name /\ RecordOK(rec[n]) /\ rec[n] # None
        /\ rec[n].new \in Nat \ {0}
    BY RequestedIsLive DEF ReleaseName, Requesting
  <1>2. k \in Nat /\ h \in Client \cup {None} /\ b \in BOOLEAN
    BY <1>1 DEF RecordOK, Rec
  <1>3. Settle(n, [r EXCEPT !.cached = rec[n].cached \/ (/\ IsLocked(r) /\ r.prepared
                                                         /\ storeInCache /\ ~ r.outOfDate)])
    <2>1. r.cached = rec[n].cached
      BY <1>1 DEF RecordOK, Rec
    <2> HIDE DEF k, h
    <2>2. Settle(n, [r EXCEPT !.cached = r.cached \/ (/\ IsLocked(r) /\ r.prepared
                                                      /\ storeInCache /\ ~ r.outOfDate)])
      BY DEF ReleaseName, k, h
    <2> QED  BY <2>1, <2>2
  <1>4. b => ~ rec[n].outOfDate \/ rec[n].cached
    BY <1>1 DEF RecordOK, Rec
  <1> HIDE DEF k, h, b
  <1>5. RecordOK(q) /\ Alike(rec[n], q)
    BY <1>1, <1>2, <1>4 DEF RecordOK, Rec, Alike
  <1>6. Settle(n, q)
    BY <1>3 DEF b
  <1> HIDE DEF q
  <1> QED  BY <1>1, <1>5, <1>6, SettleIsGentle

\* A flush marks a copy that is in use, and deletes one that nobody uses; other
\* programs take the file away.
LEMMA FlushIsGentle ==
    ASSUME IInv, NEW names \in SUBSET Name,
           rec' = [n \in Name |-> IF n \in names \cap Live THEN Flush(rec[n]) ELSE rec[n]]
    PROVE  \A m \in Name : Gentle(m)
  <1> SUFFICES ASSUME NEW m \in Name
               PROVE  Gentle(m)
    OBVIOUS
  <1>1. CASE m \notin names \cap Live
    <2>1. rec'[m] = rec[m]
      BY <1>1
    <2> QED  BY <2>1 DEF Gentle, Alike
  <1>2. CASE m \in names \cap Live
    <2>1. rec'[m] = Flush(rec[m]) /\ rec[m] # None /\ RecordOK(rec[m])
      BY <1>2 DEF Live, IInv, RecordsAreOK, AllOK
    <2>2. CASE IsLocked(rec[m])
      BY <2>1, <2>2 DEF Flush, IsLocked, Gentle
    <2>3. CASE ~ IsLocked(rec[m])
      <3>1. rec'[m] = FlushInUse(rec[m])
        BY <2>1, <2>3 DEF Flush
      <3>2. FlushInUse(rec[m]) \in Rec /\ Alike(rec[m], FlushInUse(rec[m]))
        BY <2>1 DEF RecordOK, Rec, FlushInUse, SetOutOfDate, Alike
      <3> QED  BY <2>1, <3>1, <3>2, RecordAssumption DEF Gentle
    <2> QED  BY <2>2, <2>3
  <1> QED  BY <1>1, <1>2

LEMMA FileGoneIsGentle ==
    ASSUME IInv, NEW n \in Name, RemoveCopy(n) \/ DeleteTmpCopy(n)
    PROVE  \A m \in Name : Gentle(m)
  <1>1. rec[n] # None /\ rec[n] \in Rec
    BY DEF RemoveCopy, DeleteTmpCopy, Live, IInv, TypeOK
  <1>2. PICK q : /\ rec' = [rec EXCEPT ![n] = q]
                 /\ q \in { [rec[n] EXCEPT !.onDisk = FALSE],
                            [rec[n] EXCEPT !.queued = FALSE, !.onDisk = FALSE] }
    BY DEF RemoveCopy, DeleteTmpCopy
  <1>3. q \in Rec /\ Alike(rec[n], q)
    BY <1>1, <1>2 DEF Rec, Alike
  <1> QED  BY <1>1, <1>2, <1>3, PutIsGentle, RecordAssumption

\* AssignName gives a name one more lock, and counts it if it is a panel's.
LEMMA AssignNameCounts ==
    ASSUME IInv, EditsAreCounted, NEW c \in Client, NEW l \in Lock, NEW cache \in BOOLEAN,
           AssignName(c, l, cache)
    PROVE  EditsAreCounted' /\ KeptInStep
  <1> DEFINE n == name[c]
             k == rec[n].new - 1
             b == rec[n].cached \/ (cache /\ ~ rec[n].outOfDate)
             r == [rec[n] EXCEPT !.new = k, !.locks = rec[n].locks \cup {l}, !.cached = b]
             q == IF IsEdit(l) THEN OnEditLockAdded(r) ELSE r
  <1>1. /\ n \in Name /\ RecordOK(rec[n]) /\ rec[n] # None
        /\ rec[n].new \in Nat \ {0}
    BY RequestedIsLive DEF AssignName, Requesting
  <1>2. k \in Nat /\ b \in BOOLEAN
    BY <1>1
  <1>3. l \notin rec[n].locks /\ rec' = [rec EXCEPT ![n] = q]
    <2>1. l \notin rec[n].locks
      BY <1>1 DEF AssignName, Assignable, Live
    <2> QED  BY <1>1, <2>1 DEF AssignName, IInv, TypeOK
  <1> HIDE DEF k, b
  <1>4. r \in Rec /\ r.locks = rec[n].locks \cup {l} /\ r.edits = rec[n].edits
        /\ r.prepared = rec[n].prepared
    <2>1. rec[n].locks \cup {l} \in SUBSET Lock
      BY <1>1 DEF RecordOK, Rec
    <2> QED  BY <1>1, <1>2, <2>1 DEF RecordOK, Rec
  <1> HIDE DEF r
  <1>5. /\ q \in Rec /\ q.locks = rec[n].locks \cup {l} /\ q.prepared = rec[n].prepared
        /\ q.edits = IF l \in Panel THEN rec[n].edits + 1 ELSE rec[n].edits
    <2>1. OnEditLockAdded(r) \in Rec /\ OnEditLockAdded(r).locks = r.locks
          /\ OnEditLockAdded(r).prepared = r.prepared
          /\ OnEditLockAdded(r).edits = r.edits + 1
      <3>1. CASE r.outOfDate
        <4>1. r.edits + 1 \in Nat
          BY <1>4 DEF Rec
        <4> QED  BY <1>4, <3>1, <4>1 DEF Rec, OnEditLockAdded
      <3>2. CASE ~ r.outOfDate
        <4>1. r.edits + 1 \in Nat
          BY <1>4 DEF Rec
        <4> QED  BY <1>4, <3>2, <4>1 DEF Rec, OnEditLockAdded
      <3> QED  BY <3>1, <3>2
    <2> HIDE DEF OnEditLockAdded
    <2> QED  BY <1>4, <2>1 DEF IsEdit
  <1>6. \A m \in Name : rec'[m] = IF m = n THEN q ELSE rec[m]
    BY <1>3 DEF IInv, TypeOK
  <1> HIDE DEF q, n
  <1>7. Counted(rec[n])
    BY <1>1 DEF EditsAreCounted, Live
  <1>8. Counted(q)
    <2>1. CASE l \in Panel
      <3>1. q.locks \cap Panel = (rec[n].locks \cap Panel) \cup {l}
        BY <1>5, <2>1
      <3>2. l \notin rec[n].locks \cap Panel
        BY <1>3
      <3> QED  BY <1>5, <1>7, <2>1, <3>1, <3>2, FS_AddElement DEF Counted
    <2>2. CASE l \notin Panel
      <3>1. q.locks \cap Panel = rec[n].locks \cap Panel
        BY <1>5, <2>2
      <3> QED  BY <1>5, <1>7, <2>2, <3>1 DEF Counted
    <2> QED  BY <2>1, <2>2
  <1>9. EditsAreCounted'
    BY <1>6, <1>8 DEF EditsAreCounted, Live
  <1>10. KeptInStep
    BY <1>5, <1>6, RecordAssumption DEF KeptInStep, Live
  <1> QED  BY <1>9, <1>10

\* WaitSatisfied takes one away, and may then delete the copy.
LEMMA WaitSatisfiedCounts ==
    ASSUME IInv, EditsAreCounted, WaitSatisfied
    PROVE  EditsAreCounted' /\ KeptInStep
  <1> DEFINE l == hand[1]
             n == hand[2]
             s == [rec[n] EXCEPT !.locks = rec[n].locks \ {l}]
             q == OnLockRemoved(s, IsEdit(l))
             f == [rec EXCEPT ![n] = q]
  <1>1. watcher = "satisfied" /\ Settle(n, q) /\ hand' = None
    BY DEF WaitSatisfied
  <1>2. hand \in Pair /\ hand # None
    BY <1>1, RecordAssumption DEF IInv, TypeOK, HandIsUsed
  <1>3. l \in Lock /\ n \in Name /\ hand = <<l, n>>
    BY <1>2 DEF Pair
  <1>4. l \in LocksOf(rec, n)
    <2>1. hand \in Links(rec)
      BY <1>2 DEF IInv, LinksAreWatched, InTransit
    <2> QED  BY <2>1 DEF Links
  <1>5. rec[n] # None /\ RecordOK(rec[n]) /\ Counted(rec[n]) /\ l \in rec[n].locks
    BY <1>3, <1>4 DEF LocksOf, IInv, RecordsAreOK, AllOK, EditsAreCounted, Live
  <1>6. /\ s \in Rec /\ RecordOK(s) /\ s.locks = rec[n].locks \ {l}
        /\ s.edits = rec[n].edits /\ s.prepared = rec[n].prepared
    <2>1. rec[n].locks \ {l} \in SUBSET Lock
      BY <1>5 DEF RecordOK, Rec
    <2> QED  BY <1>5, <2>1 DEF RecordOK, Rec
  <1> HIDE DEF s
  <1>7. l \in Panel => /\ Cardinality((rec[n].locks \cap Panel) \ {l}) = rec[n].edits - 1
                       /\ rec[n].edits \in Nat \ {0}
    <2> SUFFICES ASSUME l \in Panel
                 PROVE  /\ Cardinality((rec[n].locks \cap Panel) \ {l}) = rec[n].edits - 1
                        /\ rec[n].edits \in Nat \ {0}
      OBVIOUS
    <2>1. l \in rec[n].locks \cap Panel
      BY <1>5
    <2>2. /\ Cardinality((rec[n].locks \cap Panel) \ {l}) = Cardinality(rec[n].locks \cap Panel) - 1
          /\ Cardinality(rec[n].locks \cap Panel) # 0
          /\ Cardinality(rec[n].locks \cap Panel) \in Nat
      BY <1>5, <2>1, FS_RemoveElement, FS_EmptySet, FS_CardinalityType DEF Counted
    <2> QED  BY <1>5, <2>2 DEF Counted
  <1>8. /\ RecordOK(q) /\ q.locks = rec[n].locks \ {l} /\ q.prepared = rec[n].prepared
        /\ q.edits = IF l \in Panel THEN rec[n].edits - 1 ELSE rec[n].edits
    <2>1. IsEdit(l) \in BOOLEAN
      BY DEF IsEdit
    <2>2. RecordOK(q) /\ q.locks = s.locks
      BY <1>6, <2>1, OnLockRemovedOK
    <2>3. q.prepared = s.prepared
          /\ q.edits = IF IsEdit(l) /\ s.edits > 0 THEN s.edits - 1 ELSE s.edits
      BY <1>6, <2>1 DEF Rec, OnLockRemoved, SetOutOfDate
    <2> HIDE DEF q
    <2> QED  BY <1>6, <1>7, <2>2, <2>3 DEF IsEdit
  <1> HIDE DEF q
  <1>9. q # None /\ Counted(q)
    <2>1. q # None
      BY <1>8, RecordAssumption DEF RecordOK
    <2>2. IsFiniteSet(q.locks \cap Panel)
      BY <1>5, <1>8, FS_Subset DEF Counted
    <2>3. CASE l \in Panel
      <3>1. q.locks \cap Panel = (rec[n].locks \cap Panel) \ {l}
        BY <1>8
      <3> QED  BY <1>7, <1>8, <2>1, <2>2, <2>3, <3>1 DEF Counted
    <2>4. CASE l \notin Panel
      <3>1. q.locks \cap Panel = rec[n].locks \cap Panel
        BY <1>8, <2>4
      <3> QED  BY <1>5, <1>8, <2>1, <2>2, <2>4, <3>1 DEF Counted
    <2> QED  BY <2>3, <2>4
  <1>10. Cleaned(f, rec')
    BY <1>1, <1>3, <1>8, SettleCleans DEF IInv, TypeOK, Records, RecordsAreOK
  <1>11. \A m \in Name : f[m] = IF m = n THEN q ELSE rec[m]
    BY DEF IInv, TypeOK
  <1> HIDE DEF f
  <1>12. \A m \in Name : rec'[m] = f[m] \/ (rec'[m] = None /\ f[m].locks = {})
    BY <1>10 DEF Cleaned, IsLocked
  <1>13. EditsAreCounted'
    BY <1>9, <1>11, <1>12 DEF EditsAreCounted, Live
  <1>14. KeptInStep
    <2> SUFFICES ASSUME NEW m \in Live, rec[m].locks \cap Panel # {}, rec[m].prepared
                 PROVE  \/ hand[2] = m /\ rec[m].locks \cap Panel = {hand[1]}
                        \/ rec'[m] # None /\ rec'[m].prepared
      BY <1>1, <1>2 DEF KeptInStep
    <2>1. CASE m # n
      BY <1>11, <1>12, <2>1 DEF Live
    <2>2. CASE m = n
      BY <1>8, <1>9, <1>11, <1>12, <2>2 DEF Live
    <2> QED  BY <2>1, <2>2
  <1> QED  BY <1>13, <1>14

-----------------------------------------------------------------------------
(* What is handed out                                                      *)

\* The body of FlushedCopyIsNotServed
ServedInStep ==
    \A c \in Client :
       (at[c] \in {"out", "entering"} /\ at'[c] = "using")
          => \/ ~ rec'[name'[c]].old
             \/ rec'[name'[c]].edits > 0

\* LookUp hands out a copy that is not out of date.
LEMMA LookUpServes ==
    ASSUME IInv, NEW c \in Client, NEW n \in Name, NEW r0, RecordOK(r0),
           NEW onlyAdd \in BOOLEAN, LookUp(c, n, r0, onlyAdd)
    PROVE  ServedInStep
  <1> DEFINE s == [r0 EXCEPT !.holder = None]
  <1>1. (IF r0.prepared THEN Normalize(r0) ELSE r0) = r0
    BY NormalizeOK
  <1>2. /\ at' = [at EXCEPT ![c] = "using"] /\ name' = [name EXCEPT ![c] = n]
           => rec' = [rec EXCEPT ![n] = s] /\ ~ r0.outOfDate
    BY <1>1 DEF LookUp, Goto, IInv, TypeOK
  <1>3. \E place \in {"using", "out", "filling"}, m \in Name \cup {None} :
           /\ at' = [at EXCEPT ![c] = place] /\ name' = [name EXCEPT ![c] = m]
           /\ place = "using" => m = n
    BY <1>1 DEF LookUp, Goto
  <1>4. r0.edits \in Nat /\ r0.outOfDate \in BOOLEAN
        /\ (r0.old /\ r0.edits = 0 => r0.outOfDate)
    BY DEF RecordOK, Rec
  <1>5. s.old = r0.old /\ s.edits = r0.edits
    BY DEF RecordOK, Rec
  <1> HIDE DEF s
  <1> SUFFICES ASSUME NEW d \in Client, at[d] \in {"out", "entering"}, at'[d] = "using"
               PROVE  ~ rec'[name'[d]].old \/ rec'[name'[d]].edits > 0
    BY DEF ServedInStep
  <1>6. d = c /\ at' = [at EXCEPT ![c] = "using"] /\ name' = [name EXCEPT ![c] = n]
    BY <1>3 DEF IInv, TypeOK
  <1>7. rec'[name'[d]] = s
    BY <1>2, <1>6 DEF IInv, TypeOK
  <1> QED  BY <1>2, <1>4, <1>5, <1>6, <1>7

LEMMA GetNameServes ==
    ASSUME IInv, NEW c \in Client,
           \/ \E n \in Name, onlyAdd \in BOOLEAN : GetNameAtOnce(c, n, onlyAdd)
           \/ GetNameAfterWait(c)
    PROVE  ServedInStep
  <1>1. CASE \E n \in Name, onlyAdd \in BOOLEAN : GetNameAtOnce(c, n, onlyAdd)
    <2>1. PICK n \in Name, onlyAdd \in BOOLEAN : GetNameAtOnce(c, n, onlyAdd)
      BY <1>1
    <2> DEFINE k == rec[n].new + 1
               r0 == [rec[n] EXCEPT !.new = k, !.holder = c]
    <2>2. rec[n] # None /\ RecordOK(rec[n]) /\ LookUp(c, n, r0, onlyAdd)
      BY <2>1 DEF GetNameAtOnce, IInv, RecordsAreOK, AllOK
    <2>3. k \in Nat
      BY <2>2 DEF RecordOK, Rec
    <2> HIDE DEF k
    <2>4. RecordOK(r0)
      BY <2>2, <2>3 DEF RecordOK, Rec
    <2> HIDE DEF r0
    <2> QED  BY <2>2, <2>4, LookUpServes
  <1>2. CASE GetNameAfterWait(c)
    <2> DEFINE n == name[c]
    <2>1. LookUp(c, n, rec[n], FALSE)
      BY <1>2 DEF GetNameAfterWait
    <2>2. n \in Name /\ RecordOK(rec[n])
      BY <1>2, RequestedIsLive DEF GetNameAfterWait, Requesting
    <2> HIDE DEF n
    <2> QED  BY <2>1, <2>2, LookUpServes
  <1> QED  BY <1>1, <1>2

\* No other call of a client ends with a copy for one that was outside.
LEMMA OthersServeNothing ==
    ASSUME IInv, NEW c \in Client,
           \/ \E n \in Name : GetNewName(c, n) \/ GetNameAndWait(c, n)
           \/ PreparingAcquired(c) \/ NamePrepared(c)
           \/ \E storeInCache \in BOOLEAN : ReleaseName(c, storeInCache)
           \/ WaitForBox(c) \/ AssignNameFails(c)
           \/ \E l \in Lock, cache \in BOOLEAN : AssignName(c, l, cache)
           \/ \E names \in SUBSET Name : FlushCache(c, names)
           \/ \E l \in Shared(c) : SetSharedLock(c, l)
           \/ Ask(c) \/ WakeWatcher(c) \/ IdleAnswered(c)
    PROVE  ServedInStep
  <1> USE DEF IInv, TypeOK, ServedInStep, Goto
  <1>1. CASE \E n \in Name : GetNewName(c, n) \/ GetNameAndWait(c, n)
    BY <1>1 DEF GetNewName, GetNameAndWait
  <1>2. CASE PreparingAcquired(c)
    BY <1>2 DEF PreparingAcquired
  <1>3. CASE NamePrepared(c)
    BY <1>3 DEF NamePrepared
  <1>4. CASE \E storeInCache \in BOOLEAN : ReleaseName(c, storeInCache)
    BY <1>4 DEF ReleaseName
  <1>5. CASE WaitForBox(c) \/ AssignNameFails(c)
    BY <1>5 DEF WaitForBox, AssignNameFails
  <1>6. CASE \E l \in Lock, cache \in BOOLEAN : AssignName(c, l, cache)
    BY <1>6 DEF AssignName
  <1>7. CASE \E names \in SUBSET Name : FlushCache(c, names)
    BY <1>7 DEF FlushCache
  <1>8. CASE \E l \in Shared(c) : SetSharedLock(c, l)
    BY <1>8 DEF SetSharedLock
  <1>9. CASE Ask(c) \/ WakeWatcher(c) \/ IdleAnswered(c)
    BY <1>9 DEF Ask, WakeWatcher, IdleAnswered
  <1> QED  BY <1>1, <1>2, <1>3, <1>4, <1>5, <1>6, <1>7, <1>8, <1>9

-----------------------------------------------------------------------------
(* The steps together                                                      *)

LEMMA UnchangedIsGentle == rec' = rec => \A m \in Name : Gentle(m)
  BY DEF Gentle, Alike

LEMMA ClientStepKeeps ==
    ASSUME IInv, EditsAreCounted, NEW c \in Client, ClientStep(c)
    PROVE  EditsAreCounted' /\ KeptInStep /\ ServedInStep
  <1>1. CASE \E n \in Name : GetNewName(c, n) \/ GetNameAndWait(c, n)
    BY <1>1, RequestIsGentle, GentleStep, OthersServeNothing
  <1>2. CASE (\E n \in Name, onlyAdd \in BOOLEAN : GetNameAtOnce(c, n, onlyAdd))
             \/ GetNameAfterWait(c)
    BY <1>2, GetNameIsGentle, GentleStep, GetNameServes
  <1>3. CASE PreparingAcquired(c) \/ NamePrepared(c) \/ AssignNameFails(c)
    BY <1>3, PreparationIsGentle, GentleStep, OthersServeNothing
  <1>4. CASE \E storeInCache \in BOOLEAN : ReleaseName(c, storeInCache)
    BY <1>4, ReleaseIsGentle, GentleStep, OthersServeNothing
  <1>5. CASE \E l \in Lock, cache \in BOOLEAN : AssignName(c, l, cache)
    BY <1>5, AssignNameCounts, OthersServeNothing
  <1>6. CASE \E names \in SUBSET Name : FlushCache(c, names)
    <2>1. PICK names \in SUBSET Name : FlushCache(c, names)
      BY <1>6
    <2>2. \A m \in Name : Gentle(m)
      BY <2>1, FlushIsGentle DEF FlushCache
    <2> QED  BY <1>6, <2>2, GentleStep, OthersServeNothing
  <1>7. CASE (\E l \in Shared(c) : SetSharedLock(c, l)) \/ Ask(c) \/ WakeWatcher(c)
             \/ IdleAnswered(c) \/ WaitForBox(c)
    <2>1. rec' = rec
      BY <1>7 DEF SetSharedLock, Ask, WakeWatcher, IdleAnswered, WaitForBox
    <2> QED  BY <1>7, <2>1, UnchangedIsGentle, GentleStep, OthersServeNothing
  <1> QED  BY <1>1, <1>2, <1>3, <1>4, <1>5, <1>6, <1>7 DEF ClientStep

LEMMA StepKeeps ==
    IInv /\ EditsAreCounted /\ [Next]_vars => EditsAreCounted' /\ KeptInStep /\ ServedInStep
  <1> SUFFICES ASSUME IInv, EditsAreCounted, [Next]_vars
               PROVE  EditsAreCounted' /\ KeptInStep /\ ServedInStep
    OBVIOUS
  <1>1. CASE \E c \in Client : ClientStep(c)
    BY <1>1, ClientStepKeeps
  <1>2. CASE WatcherStep
    <2>1. at' = at
      BY <1>2 DEF WatcherStep, BeginPass, NextPart, EndPass, HandleFound,
                      ReceiveBoxFails, WaitSatisfied
    <2>2. ServedInStep
      BY <2>1 DEF ServedInStep
    <2>3. CASE WaitSatisfied
      BY <2>2, <2>3, WaitSatisfiedCounts
    <2>4. CASE BeginPass \/ NextPart \/ EndPass \/ HandleFound \/ ReceiveBoxFails
      <3>1. rec' = rec
        BY <2>4 DEF BeginPass, NextPart, EndPass, HandleFound, ReceiveBoxFails
      <3> QED  BY <2>2, <3>1, UnchangedIsGentle, GentleStep
    <2> QED  BY <1>2, <2>3, <2>4 DEF WatcherStep
  <1>3. CASE Environment
    <2>1. at' = at
      BY <1>3 DEF Environment, CloseViewer, RemoveCopy, DeleteTmpCopy
    <2>2. ServedInStep
      BY <2>1 DEF ServedInStep
    <2>3. CASE \E l \in Viewer : CloseViewer(l)
      <3>1. rec' = rec
        BY <2>3 DEF CloseViewer
      <3> QED  BY <2>2, <3>1, UnchangedIsGentle, GentleStep
    <2>4. CASE \E n \in Name : RemoveCopy(n) \/ DeleteTmpCopy(n)
      BY <2>2, <2>4, FileGoneIsGentle, GentleStep
    <2> QED  BY <1>3, <2>3, <2>4 DEF Environment
  <1>4. CASE UNCHANGED vars
    <2>1. rec' = rec /\ at' = at
      BY <1>4 DEF vars
    <2>2. ServedInStep
      BY <2>1 DEF ServedInStep
    <2> QED  BY <2>1, <2>2, UnchangedIsGentle, GentleStep
  <1> QED  BY <1>1, <1>2, <1>3, <1>4 DEF Next

LEMMA EditInvariance == Spec => [](IInv /\ EditsAreCounted)
  <1>1. Init => EditsAreCounted
    BY DEF Init, EditsAreCounted, Live
  <1>2. IInv /\ EditsAreCounted /\ [Next]_vars => EditsAreCounted'
    BY StepKeeps
  <1> QED  BY <1>1, <1>2, Invariance, PTL DEF Spec

-----------------------------------------------------------------------------
(* The theorems                                                            *)

\* No step deletes a copy that an editor has open or takes it for a new
\* extraction, unless the last panel let go of it or somebody else removed the
\* file.
THEOREM EditedKept == Spec => EditedCopyIsKept
  <1>1. IInv /\ EditsAreCounted /\ [Next]_vars => [KeptInStep]_vars
    BY StepKeeps
  <1> QED  BY <1>1, EditInvariance, PTL DEF Spec, EditedCopyIsKept, KeptInStep

\* A copy that predates a flush is not handed out after it as the current one,
\* except to share it with the editor that pins it.
THEOREM FlushedNotServed == Spec => FlushedCopyIsNotServed
  <1>1. IInv /\ EditsAreCounted /\ [Next]_vars => [ServedInStep]_vars
    BY StepKeeps
  <1> QED  BY <1>1, EditInvariance, PTL DEF Spec, FlushedCopyIsNotServed, ServedInStep

-----------------------------------------------------------------------------
(* The inductive invariant of the protocol; it stands on IInv              *)

Asking == {"asking", "waiting"}

\* The locks the thread in WaitForIdleCS has set.
Awaited == IF asker = None THEN {} ELSE Shared(asker) \cap signaled

\* Part 1: who asks is alone in WaitForIdleCS.
AskerIsAlone == \A c \in Client : at[c] \in Asking <=> asker = c

\* Part 2: an answer is for the thread that asks.
AnswerIsDue == isIdle => asker # None /\ idle = 3

\* Part 3: a question is one of a thread that still waits.
QuestionIsAsked == idle \in {1, 2} => asker # None

\* Part 4: while the watching thread checks (Idle = 2), none of the handles it
\* has passed is one the asker has set, and at the end it has passed them all.
PassedIsIdle ==
    /\ watcher = "end" => offset >= HandleCount
    /\ idle = 2 =>
          /\ watcher \in {"pass", "end"}
          /\ offset >= 1 /\ inBox # None => inBox[1] \notin Awaited
          /\ \A i \in 1..Len(watched) :
                i + 2 <= offset => watched[i][1] \notin Awaited

\* Part 5: after the answer none of the pairs has a lock of the asker.
AnswerIsTrue ==
    isIdle => \A p \in WatchedPairs \cup InTransit : p[1] \notin Awaited

JInv == AskerIsAlone /\ QuestionIsAsked /\ AnswerIsDue /\ PassedIsIdle /\ AnswerIsTrue

-----------------------------------------------------------------------------
(* The threads                                                             *)

\* No lock is one of two threads, and a viewer's is nobody's.
LEMMA SharedAreApart ==
    ASSUME NEW c \in Client, NEW d \in Client, c # d
    PROVE  Shared(c) \cap Shared(d) = {} /\ Shared(c) \cap Viewer = {}
  BY LockAssumption, ClientAssumption DEF Shared

\* A step that leaves the watching thread and the question alone: it adds no
\* lock the asker waits for, neither a set one nor one in the box.
LEMMA ThreadStep ==
    ASSUME IInv, JInv, AskerIsAlone',
           UNCHANGED <<watched, watcher, offset, hand, idle, isIdle, asker>>,
           Awaited' \subseteq Awaited,
           inBox' = inBox \/ (inBox' # None /\ inBox'[1] \notin Awaited')
    PROVE  JInv'
  <1>1. AnswerIsDue' /\ QuestionIsAsked'
    BY DEF JInv, AnswerIsDue, QuestionIsAsked
  <1>2. PassedIsIdle'
    BY DEF JInv, PassedIsIdle, HandleCount
  <1>3. AnswerIsTrue'
    <2>1. \A p \in (WatchedPairs \cup InTransit)' :
             p \in WatchedPairs \cup InTransit \/ p[1] \notin Awaited'
      BY DEF InTransit, WatchedPairs, Elements
    <2> QED  BY <2>1 DEF JInv, AnswerIsTrue
  <1> QED  BY <1>1, <1>2, <1>3 DEF JInv

\* Such a step of a thread that does not ask, and does not begin to.
LEMMA OtherThreadStep ==
    ASSUME IInv, JInv, NEW c \in Client, at[c] \notin Asking, at'[c] \notin Asking,
           \A d \in Client \ {c} : at'[d] = at[d],
           UNCHANGED <<watched, watcher, offset, hand, idle, isIdle, asker>>,
           signaled' \ signaled \subseteq Viewer \cup Shared(c),
           inBox' = inBox \/ (inBox' # None /\ inBox'[1] \in Viewer \cup Shared(c))
    PROVE  JInv'
  <1>1. asker # c /\ asker \in Client \cup {None}
    BY DEF JInv, AskerIsAlone, IInv, TypeOK
  <1>2. AskerIsAlone'
    BY DEF JInv, AskerIsAlone
  <1>3. CASE asker = None
    <2>1. Awaited' = {} /\ Awaited = {}
      BY <1>3 DEF Awaited
    <2> QED  BY <1>2, <2>1, ThreadStep
  <1>4. CASE asker # None
    <2>1. /\ Shared(asker) \cap Shared(c) = {}
          /\ Shared(asker) \cap Viewer = {}
      BY <1>1, <1>4, SharedAreApart
    <2>2. /\ Awaited' = Shared(asker) \cap signaled'
          /\ Awaited = Shared(asker) \cap signaled
      BY <1>4 DEF Awaited
    <2>3. /\ Awaited' \subseteq Awaited
          /\ inBox' = inBox \/ (inBox' # None /\ inBox'[1] \notin Awaited')
      BY <2>1, <2>2
    <2> QED  BY <1>2, <2>3, ThreadStep
  <1> QED  BY <1>3, <1>4

\* The monitor: no thread in it is one that asks.
LEMMA CacheCallKeeps ==
    ASSUME IInv, JInv, NEW c \in Client,
           \/ \E n \in Name : GetNewName(c, n) \/ GetNameAndWait(c, n)
           \/ \E n \in Name, onlyAdd \in BOOLEAN : GetNameAtOnce(c, n, onlyAdd)
           \/ PreparingAcquired(c) \/ GetNameAfterWait(c) \/ NamePrepared(c)
           \/ \E storeInCache \in BOOLEAN : ReleaseName(c, storeInCache)
           \/ WaitForBox(c) \/ AssignNameFails(c)
           \/ \E names \in SUBSET Name : FlushCache(c, names)
    PROVE  JInv'
  <1>1. /\ at[c] \notin Asking
        /\ \E place \in {"out", "blocked", "entering", "filling", "using", "boxing"} :
              at' = [at EXCEPT ![c] = place] \/ (at' = at /\ at[c] = "out")
        /\ UNCHANGED <<signaled, inBox, watched, watcher, offset, hand, idle, isIdle, asker>>
    <2> USE DEF Asking, Goto, boxVars, threadVars, watcherVars
    <2>1. CASE \E n \in Name : GetNewName(c, n) \/ GetNameAndWait(c, n)
      BY <2>1 DEF GetNewName, GetNameAndWait
    <2>2. CASE \E n \in Name, onlyAdd \in BOOLEAN : GetNameAtOnce(c, n, onlyAdd)
      BY <2>2 DEF GetNameAtOnce, LookUp
    <2>3. CASE PreparingAcquired(c) \/ NamePrepared(c)
      BY <2>3 DEF PreparingAcquired, NamePrepared
    <2>4. CASE GetNameAfterWait(c)
      BY <2>4 DEF GetNameAfterWait, LookUp
    <2>5. CASE \E storeInCache \in BOOLEAN : ReleaseName(c, storeInCache)
      BY <2>5 DEF ReleaseName
    <2>6. CASE WaitForBox(c) \/ AssignNameFails(c)
      BY <2>6 DEF WaitForBox, AssignNameFails
    <2>7. CASE \E names \in SUBSET Name : FlushCache(c, names)
      BY <2>7 DEF FlushCache
    <2> QED  BY <2>1, <2>2, <2>3, <2>4, <2>5, <2>6, <2>7
  <1>2. at \in [Client -> {"out", "blocked", "entering", "filling", "using", "boxing",
                           "unlocking", "asking", "waiting"}]
    BY DEF IInv, TypeOK
  <1>3. at'[c] \notin Asking /\ \A d \in Client \ {c} : at'[d] = at[d]
    BY <1>1, <1>2 DEF Asking
  <1> QED  BY <1>1, <1>3, OtherThreadStep

\* A lock assigned by another thread is not one the asker has set.
LEMMA AssignKeeps ==
    ASSUME IInv, JInv, NEW c \in Client, NEW l \in Lock, NEW cache \in BOOLEAN,
           AssignName(c, l, cache)
    PROVE  JInv'
  <1>1. /\ at[c] = "boxing" /\ at' = [at EXCEPT ![c] = "out"]
        /\ inBox' = <<l, name[c]>> /\ l \in Viewer \cup Shared(c)
        /\ UNCHANGED <<signaled, watched, watcher, offset, hand, idle, isIdle, asker>>
    BY DEF AssignName, Assignable, Goto, threadVars, watcherVars
  <1>2. at \in [Client -> {"out", "blocked", "entering", "filling", "using", "boxing",
                           "unlocking", "asking", "waiting"}]
    BY DEF IInv, TypeOK
  <1>3. inBox' \in Pair
    <2>1. name[c] \in Name
      BY <1>1, RequestedIsLive DEF Requesting
    <2> QED  BY <1>1, <2>1 DEF Pair
  <1>4. inBox' # None /\ inBox'[1] = l
    BY <1>1, <1>3, RecordAssumption
  <1>5. at'[c] \notin Asking /\ at[c] \notin Asking /\ \A d \in Client \ {c} : at'[d] = at[d]
    BY <1>1, <1>2 DEF Asking
  <1> QED  BY <1>1, <1>4, <1>5, OtherThreadStep

\* SetEvent of a lock, the question, and the end of the wait.
LEMMA UnlockStepKeeps ==
    ASSUME IInv, JInv, NEW c \in Client,
           \/ \E l \in Shared(c) : SetSharedLock(c, l)
           \/ Ask(c) \/ WakeWatcher(c) \/ IdleAnswered(c)
    PROVE  JInv'
  <1>0. /\ at \in [Client -> {"out", "blocked", "entering", "filling", "using", "boxing",
                              "unlocking", "asking", "waiting"}]
        /\ None \notin Client /\ isIdle \in BOOLEAN
    BY NoneAssumption DEF IInv, TypeOK
  <1>1. CASE \E l \in Shared(c) : SetSharedLock(c, l)
    <2>1. PICK l \in Shared(c) : SetSharedLock(c, l)
      BY <1>1
    <2>2. /\ at[c] = "out" /\ at' = [at EXCEPT ![c] = "unlocking"]
          /\ signaled' = signaled \cup {l}
          /\ UNCHANGED <<inBox, watched, watcher, offset, hand, idle, isIdle, asker>>
      BY <2>1 DEF SetSharedLock, boxVars, threadVars, watcherVars
    <2>3. at'[c] \notin Asking /\ at[c] \notin Asking /\ \A d \in Client \ {c} : at'[d] = at[d]
      BY <1>0, <2>2 DEF Asking
    <2> QED  BY <2>2, <2>3, OtherThreadStep
  <1>2. CASE Ask(c)
    <2>1. /\ at[c] = "unlocking" /\ at' = [at EXCEPT ![c] = "asking"]
          /\ asker = None /\ asker' = c /\ idle' = 1
          /\ UNCHANGED <<watched, watcher, offset, isIdle>>
      BY <1>2 DEF Ask
    <2>2. ~ isIdle
      BY <2>1 DEF JInv, AnswerIsDue
    <2>3. AskerIsAlone'
      BY <1>0, <2>1 DEF JInv, AskerIsAlone, Asking
    <2>4. PassedIsIdle'
      BY <2>1 DEF JInv, PassedIsIdle, HandleCount
    <2> QED  BY <1>0, <2>1, <2>2, <2>3, <2>4 DEF JInv, AnswerIsDue, AnswerIsTrue, QuestionIsAsked
  <1>3. CASE WakeWatcher(c)
    <2>1. /\ at[c] = "asking" /\ at' = [at EXCEPT ![c] = "waiting"]
          /\ UNCHANGED <<signaled, inBox, watched, watcher, offset, hand, idle, isIdle, asker>>
      BY <1>3 DEF WakeWatcher, boxVars, watcherVars
    <2>2. AskerIsAlone'
      BY <1>0, <2>1 DEF JInv, AskerIsAlone, Asking
    <2>3. Awaited' = Awaited
      BY <2>1 DEF Awaited
    <2> QED  BY <2>1, <2>2, <2>3, ThreadStep
  <1>4. CASE IdleAnswered(c)
    <2>1. /\ at[c] = "waiting" /\ at' = [at EXCEPT ![c] = "out"]
          /\ isIdle /\ ~ isIdle' /\ asker' = None
          /\ UNCHANGED <<watched, watcher, offset, idle>>
      BY <1>4 DEF IdleAnswered
    <2>2. asker = c /\ idle = 3
      BY <2>1 DEF JInv, AskerIsAlone, Asking, AnswerIsDue
    <2>3. AskerIsAlone'
      BY <1>0, <2>1, <2>2 DEF JInv, AskerIsAlone, Asking
    <2>4. PassedIsIdle'
      BY <2>1, <2>2 DEF JInv, PassedIsIdle, HandleCount
    <2> QED  BY <2>1, <2>2, <2>3, <2>4 DEF JInv, AnswerIsDue, AnswerIsTrue, QuestionIsAsked
  <1> QED  BY <1>1, <1>2, <1>3, <1>4

-----------------------------------------------------------------------------
(* The watching thread                                                     *)

LEMMA PassKeepsIdle ==
    ASSUME IInv, JInv, BeginPass \/ NextPart
    PROVE  JInv'
  <1>0. /\ watched \in Seq(Pair) /\ Len(watched) \in Nat /\ offset \in Nat
        /\ MaxWait \in Nat /\ MaxWait > 2
    BY BoundAssumption DEF IInv, TypeOK
  <1>1. UNCHANGED <<at, signaled, inBox, watched, hand, isIdle, asker>>
    BY DEF BeginPass, NextPart, boxVars, idleVars
  <1>2. AskerIsAlone' /\ Awaited' = Awaited
    BY <1>1 DEF JInv, AskerIsAlone, Awaited
  <1>3. AnswerIsTrue'
    BY <1>1, <1>2 DEF JInv, AnswerIsTrue, WatchedPairs, Elements, InTransit
  <1>4. AnswerIsDue' /\ QuestionIsAsked'
    BY <1>1 DEF JInv, AnswerIsDue, QuestionIsAsked, BeginPass, NextPart, idleVars
  <1>5. PassedIsIdle'
    <2>1. CASE BeginPass
      BY <1>0, <1>1, <2>1 DEF BeginPass, PassedIsIdle
    <2>2. CASE NextPart
      <3>1. /\ watcher = "pass" /\ offset' = offset + MaxWait /\ idle' = idle
            /\ watcher' = IF offset + MaxWait < HandleCount THEN "pass" ELSE "end"
            /\ \A i \in Part : ~ HandleSignaled(i)
        BY <2>2 DEF NextPart, idleVars
      <3>2. watcher' = "end" => offset' >= HandleCount'
        BY <1>0, <1>1, <3>1 DEF HandleCount
      <3>3. inBox' # None => inBox'[1] \notin Awaited' \/ idle # 2
        <4>1. CASE offset >= 1
          BY <1>1, <1>2, <4>1 DEF JInv, PassedIsIdle
        <4>2. CASE offset = 0
          <5>1. 1 \in Part
            BY <1>0, <4>2 DEF Part, HandleCount
          <5> QED  BY <1>1, <3>1, <5>1 DEF HandleSignaled
        <4> QED  BY <1>0, <4>1, <4>2
      <3>4. ASSUME NEW i \in 1..Len(watched'), i + 2 <= offset', idle = 2
            PROVE  watched'[i][1] \notin Awaited'
        <4>1. CASE i + 2 <= offset
          BY <1>1, <1>2, <3>4, <4>1 DEF JInv, PassedIsIdle
        <4>2. CASE ~ (i + 2 <= offset)
          <5>1. i + 2 \in Part
            BY <1>0, <1>1, <3>1, <3>4, <4>2 DEF Part, HandleCount
          <5>2. ~ HandleSignaled(i + 2) /\ i + 2 # 1 /\ i + 2 # 2 /\ (i + 2) - 2 = i
            BY <1>0, <1>1, <3>1, <5>1
          <5>3. watched[i][1] \notin signaled
            BY <5>2 DEF HandleSignaled
          <5> QED  BY <1>1, <1>2, <5>3 DEF Awaited
        <4> QED  BY <4>1, <4>2
      <3> QED
        BY <3>1, <3>2, <3>3, <3>4 DEF PassedIsIdle
    <2> QED  BY <2>1, <2>2
  <1> QED  BY <1>2, <1>3, <1>4, <1>5 DEF JInv

\* The answer: at the end of the pass nothing is in the hand, and all the
\* rest has been passed.
LEMMA EndPassKeepsIdle ==
    ASSUME IInv, JInv, EndPass
    PROVE  JInv'
  <1>0. /\ watched \in Seq(Pair) /\ Len(watched) \in Nat /\ offset \in Nat
        /\ idle \in 0..3 /\ isIdle \in BOOLEAN /\ asker \in Client \cup {None}
    BY DEF IInv, TypeOK
  <1>1. /\ watcher = "end" /\ watcher' = "begin"
        /\ idle' = IF idle = 2 THEN 3 ELSE idle
        /\ isIdle' = (isIdle \/ idle = 2)
        /\ UNCHANGED <<at, signaled, inBox, watched, offset, hand, asker>>
    BY DEF EndPass, boxVars
  <1>2. AskerIsAlone' /\ Awaited' = Awaited
    BY <1>1 DEF JInv, AskerIsAlone, Awaited
  <1>3. PassedIsIdle'
    BY <1>0, <1>1 DEF PassedIsIdle
  <1>4. ASSUME idle = 2
        PROVE  /\ hand = None
               /\ inBox # None => inBox[1] \notin Awaited
               /\ \A i \in 1..Len(watched) : watched[i][1] \notin Awaited
    <2>1. offset >= 2 + Len(watched)
      BY <1>1 DEF JInv, PassedIsIdle, HandleCount
    <2>2. hand = None
      BY <1>1 DEF IInv, HandIsUsed
    <2>3. offset >= 1 /\ \A i \in 1..Len(watched) : i + 2 <= offset
      BY <1>0, <2>1
    <2> QED  BY <1>4, <2>2, <2>3 DEF JInv, PassedIsIdle
  <1>5. AnswerIsTrue'
    <2>1. CASE isIdle
      BY <1>1, <1>2, <2>1 DEF JInv, AnswerIsTrue, WatchedPairs, Elements, InTransit
    <2>2. CASE idle = 2
      BY <1>1, <1>2, <1>4, <2>2 DEF AnswerIsTrue, WatchedPairs, Elements, InTransit
    <2>3. CASE ~ isIdle /\ idle # 2
      BY <1>1, <2>3 DEF AnswerIsTrue
    <2> QED  BY <2>1, <2>2, <2>3
  <1>6. AnswerIsDue' /\ QuestionIsAsked'
    BY <1>1 DEF JInv, AnswerIsDue, QuestionIsAsked
  <1> QED  BY <1>2, <1>3, <1>5, <1>6 DEF JInv

\* A handle is found: pairs only move, and who asked asks again.
LEMMA HandleFoundKeepsIdle ==
    ASSUME IInv, JInv, HandleFound
    PROVE  JInv'
  <1>0. /\ watched \in Seq(Pair) /\ Len(watched) \in Nat
        /\ idle \in 0..3 /\ inBox \in Pair \cup {None}
    BY DEF IInv, TypeOK
  <1>1. /\ UNCHANGED <<at, signaled, isIdle, asker>>
        /\ idle' = AnswerNo /\ watcher' \in {"begin", "satisfied"}
    BY DEF HandleFound
  <1>2. AskerIsAlone' /\ Awaited' = Awaited
    BY <1>1 DEF JInv, AskerIsAlone, Awaited
  <1>3. idle' # 2 /\ (idle = 3 => idle' = 3)
    BY <1>0, <1>1 DEF AnswerNo
  <1>4. AnswerIsDue' /\ QuestionIsAsked' /\ PassedIsIdle'
    BY <1>0, <1>1, <1>3 DEF JInv, AnswerIsDue, QuestionIsAsked, PassedIsIdle, AnswerNo
  <1>5. (WatchedPairs \cup InTransit)' \subseteq WatchedPairs \cup InTransit
    <2>1. IInv' /\ Links(rec') = Links(rec)
      BY HandleFoundKeeps DEF HandleFound
    <2> QED  BY <2>1 DEF IInv, LinksAreWatched
  <1>6. AnswerIsTrue'
    BY <1>1, <1>2, <1>5 DEF JInv, AnswerIsTrue
  <1> QED  BY <1>2, <1>4, <1>6 DEF JInv

\* A dropped pair goes from the box into the hand.
LEMMA ReceiveBoxFailsKeepsIdle ==
    ASSUME IInv, JInv, ReceiveBoxFails
    PROVE  JInv'
  <1>0. idle \in 0..3
    BY DEF IInv, TypeOK
  <1>1. /\ UNCHANGED <<rec, at, signaled, isIdle, asker, watched>>
        /\ idle' = AnswerNo /\ watcher' = "stuck"
    BY DEF ReceiveBoxFails
  <1>2. AskerIsAlone' /\ Awaited' = Awaited
    BY <1>1 DEF JInv, AskerIsAlone, Awaited
  <1>3. AnswerIsDue' /\ QuestionIsAsked' /\ PassedIsIdle'
    BY <1>0, <1>1 DEF JInv, AnswerIsDue, QuestionIsAsked, PassedIsIdle, AnswerNo
  <1>4. (WatchedPairs \cup InTransit)' \subseteq WatchedPairs \cup InTransit
    <2>1. IInv' /\ Links(rec') = Links(rec)
      BY <1>1, ReceiveBoxFailsKeeps
    <2> QED  BY <2>1 DEF IInv, LinksAreWatched
  <1>5. AnswerIsTrue'
    BY <1>1, <1>2, <1>4 DEF JInv, AnswerIsTrue
  <1> QED  BY <1>2, <1>3, <1>5 DEF JInv

\* WaitSatisfied empties the hand.
LEMMA WaitSatisfiedKeepsIdle ==
    ASSUME IInv, JInv, WaitSatisfied
    PROVE  JInv'
  <1>1. /\ watcher = "satisfied" /\ watcher' = "begin" /\ hand' = None
        /\ signaled' \subseteq signaled
        /\ UNCHANGED <<at, inBox, watched, offset, idle, isIdle, asker>>
    BY DEF WaitSatisfied, boxVars, idleVars
  <1>2. AskerIsAlone' /\ Awaited' \subseteq Awaited
    BY <1>1 DEF JInv, AskerIsAlone, Awaited
  <1>3. AnswerIsDue' /\ QuestionIsAsked' /\ PassedIsIdle'
    BY <1>1 DEF JInv, AnswerIsDue, QuestionIsAsked, PassedIsIdle
  <1>4. (WatchedPairs \cup InTransit)' \subseteq WatchedPairs \cup InTransit
    BY <1>1 DEF WatchedPairs, Elements, InTransit
  <1>5. AnswerIsTrue'
    BY <1>1, <1>2, <1>4 DEF JInv, AnswerIsTrue
  <1> QED  BY <1>2, <1>3, <1>5 DEF JInv

-----------------------------------------------------------------------------
(* The theorem                                                             *)

LEMMA InitEstablishesIdle == Init => JInv
  BY NoneAssumption DEF Init, JInv, AskerIsAlone, Asking, AnswerIsDue, QuestionIsAsked,
                        PassedIsIdle, AnswerIsTrue

LEMMA NextKeepsIdle == IInv /\ JInv /\ [Next]_vars => JInv'
  <1> SUFFICES ASSUME IInv, JInv, [Next]_vars
               PROVE  JInv'
    OBVIOUS
  <1>1. ASSUME NEW c \in Client, ClientStep(c)
        PROVE  JInv'
    BY <1>1, CacheCallKeeps, AssignKeeps, UnlockStepKeeps DEF ClientStep
  <1>2. CASE WatcherStep
    BY <1>2, PassKeepsIdle, EndPassKeepsIdle, HandleFoundKeepsIdle,
       ReceiveBoxFailsKeepsIdle, WaitSatisfiedKeepsIdle
       DEF WatcherStep
  <1>3. CASE Environment
    <2>1. /\ UNCHANGED <<at, inBox, watched, watcher, offset, hand, idle, isIdle, asker>>
          /\ signaled' \ signaled \subseteq Viewer
      BY <1>3 DEF Environment, CloseViewer, RemoveCopy, DeleteTmpCopy, boxVars, threadVars,
                  watcherVars
    <2>2. AskerIsAlone' /\ asker \in Client \cup {None}
      BY <2>1 DEF JInv, AskerIsAlone, IInv, TypeOK
    <2>3. Awaited' \subseteq Awaited
      BY <2>1, <2>2, LockAssumption, ClientAssumption DEF Awaited, Shared
    <2> QED  BY <2>1, <2>2, <2>3, ThreadStep
  <1>4. CASE UNCHANGED vars
    <2>1. UNCHANGED <<at, inBox, watched, watcher, offset, hand, idle, isIdle, asker, signaled>>
      BY <1>4 DEF vars
    <2>2. AskerIsAlone' /\ Awaited' = Awaited
      BY <2>1 DEF JInv, AskerIsAlone, Awaited
    <2> QED  BY <2>1, <2>2, ThreadStep
  <1> QED  BY <1>1, <1>2, <1>3, <1>4 DEF Next

LEMMA IdleInvariance == Spec => [](IInv /\ JInv)
  <1>1. IInv /\ JInv /\ [Next]_vars => JInv'
    BY NextKeepsIdle
  <1> QED  BY <1>1, InitEstablishesIdle, Invariance, PTL DEF Spec

\* When WaitForIdle returns, no copy depends on a lock of the caller that is
\* set: the caller resets the event next, and a link left over would never be
\* dropped.
THEOREM IdleIsUnlocked == Spec => []IdleMeansUnlocked
  <1>1. IInv /\ JInv => IdleMeansUnlocked
    <2> SUFFICES ASSUME IInv, JInv, NEW c \in Client, at[c] = "waiting", isIdle,
                        NEW n \in Live, NEW l \in rec[n].locks \cap Shared(c) \cap signaled
                 PROVE  FALSE
      BY DEF IdleMeansUnlocked
    <2>1. asker = c
      BY DEF JInv, AskerIsAlone, Asking
    <2>2. l \in Awaited
      BY <2>1, NoneAssumption DEF Awaited
    <2>3. n \in Name /\ l \in Lock /\ l \in LocksOf(rec, n)
      BY DEF Live, LocksOf, IInv, RecordsAreOK, AllOK, RecordOK, Rec
    <2>4. <<l, n>> \in WatchedPairs \cup InTransit
      BY <2>3 DEF IInv, LinksAreWatched, Links, Pair
    <2> QED  BY <2>2, <2>4 DEF JInv, AnswerIsTrue
  <1> QED  BY <1>1, IdleInvariance, PTL
=============================================================================
