-------------------------- MODULE IconReaderProofs --------------------------
(***************************************************************************)
(* IconReader: while the main thread owns the listing and the icon cache   *)
(* the reader keeps off them, and it never asks a plug-in that is not      *)
(* loaded for a thumbnail (SleepIconCacheThread, CanUnloadPlugin and       *)
(* IconThreadThreadFBody, src/src/fileswn1.cpp), for any listing and any   *)
(* number of events.                                                       *)
(***************************************************************************)
EXTENDS IconReader, SequenceTheorems, TLAPS

Inside == {"deciding", "starting", "settingUp", "choosing", "storing", "stored"}
Round == {"choosing", "calling", "storing", "stored", "pausing", "paused"}
Working == Round \union {"checking", "settingUp"}

Steps == {"interrupt", "stop", "reset", "pass", "passThumbs", "start", "signal", "clear",
          "read", "transfer", "unload", "delayed"}

Types ==
    /\ DOMAIN rd = {"pc", "item", "done", "first", "failed", "thumbs", "woken"}
    /\ rd.pc \in Places
    /\ DOMAIN main = {"todo", "flag", "valid"} /\ main.todo \in Seq(Steps)

\* the place of the reader tells its sections and ICWorking
PlaceTells ==
    /\ section <=> rd.pc \in Inside
    /\ icWorking <=> rd.pc \in Working
    /\ thumbSection => rd.pc = "calling"
    /\ rd.pc = "calling" /\ rd.item \subseteq Thumbnails => thumbSection

\* the reader has been told to stop, and what it still does is no work
Quiet ==
    /\ icStopWork /\ (icWorking => icSleep)
    /\ rd.pc \notin {"storing", "stored"}
    /\ rd.pc = "choosing" => rd.done = {}

AsleepIsQuiet == asleep => Quiet /\ ~thumbSection

\* steps that come only after a certain other one
MayFollow(before, step) ==
    /\ step = "reset" => before = "stop"
    /\ step = "pass" => before = "reset"
    /\ step = "passThumbs" => before = "pass"
    /\ step = "unload" => before = "passThumbs"

Chained(s) == \A i \in DOMAIN s : i = 1 \/ MayFollow(s[i - 1], s[i])

\* what the main thread may begin with
Fresh(s) ==
    /\ s \in Seq(Steps) /\ Chained(s)
    /\ s # <<>> => s[1] \notin {"reset", "pass", "passThumbs", "unload"}

StepsInOrder ==
    /\ Chained(main.todo)
    /\ MainAt("reset") \/ MainAt("pass") => icStopWork
    /\ MainAt("passThumbs") => Quiet
    /\ MainAt("unload") => asleep

\* without thumbnails none is asked for, and none will be in this round
NoThumbnails ==
    ~thumbs => ~thumbSection /\ (rd.pc \in Round /\ rd.thumbs => icSleep)

Loaded == plugin \/ careless \/ ~thumbs

IInv == /\ Types /\ PlaceTells /\ AsleepIsQuiet /\ StepsInOrder
        /\ NoThumbnails /\ Loaded

-----------------------------------------------------------------------------
(* The reader: what the main thread relies on *)

ReaderPart == Types /\ PlaceTells /\ NoThumbnails

LEMMA ReaderFrame ==
    ASSUME Reader \/ UserMenuRead
    PROVE  UNCHANGED <<main, thumbs, plugin, careless, icStopWork, asleep>>
  BY DEF Reader, UserMenuRead, mainOnly, module, WaitForWork, Invalidate, EnterSection, NewWork,
         NoNewWork, StopAtOnce, StartWork, BackFromCheck, SetUp, GiveUp, Call, ReturnTooLate,
         Return, Store, NextItem, Restart, Pause, PauseWait, EndPause, SecondRound, Finish

Sleeps == \E place \in {"woken", "waiting"}, wasAsked \in {asked, asked /\ work} :
              GoToSleep(place, wasAsked)

LEMMA SleepKeeps ==
    ASSUME IInv, Sleeps, UNCHANGED <<main, thumbs, icStopWork, asleep>>
    PROVE  ReaderPart' /\ (Quiet => Quiet') /\ ~thumbSection'
<1>1. /\ icSleep' = FALSE /\ icWorking' = FALSE /\ section' = FALSE /\ thumbSection' = FALSE
      /\ DOMAIN rd' = DOMAIN rd /\ rd'.pc \in {"woken", "waiting"}
  BY DEF Sleeps, GoToSleep, NoReader, IInv, Types
<1>2. Types'
  BY <1>1 DEF IInv, Types, Places
<1>3. PlaceTells' /\ NoThumbnails'
  BY <1>1 DEF PlaceTells, NoThumbnails, Inside, Working, Round
<1>4. Quiet => Quiet'
  BY <1>1 DEF Quiet
<1> QED
  BY <1>1, <1>2, <1>3, <1>4 DEF ReaderPart

\* the reader takes up work, and sets up a round
LEMMA BeginKeeps ==
    ASSUME IInv, UNCHANGED <<main, thumbs, icStopWork, asleep>>,
           \/ WaitForWork \/ Invalidate \/ EnterSection("entering", "deciding") \/ NoNewWork
           \/ StartWork \/ BackFromCheck \/ SetUp \/ SecondRound
    PROVE  ReaderPart' /\ (Quiet => Quiet') /\ (~thumbSection => ~thumbSection')
<1> USE DEF ReaderPart, IInv, Types, PlaceTells, NoThumbnails, Quiet, Places, Inside, Working,
            Round, ReaderAt, ReaderGoes, locks
<1>1. CASE WaitForWork
  BY <1>1 DEF WaitForWork
<1>2. CASE Invalidate
  BY <1>2 DEF Invalidate
<1>3. CASE EnterSection("entering", "deciding")
  BY <1>3 DEF EnterSection
<1>4. CASE NoNewWork
  BY <1>4 DEF NoNewWork
<1>5. CASE StartWork
  BY <1>5 DEF StartWork, MayWork
<1>6. CASE BackFromCheck
  BY <1>6 DEF BackFromCheck, EnterSection
<1>7. CASE SetUp
  BY <1>7 DEF SetUp
<1>8. CASE SecondRound
  BY <1>8 DEF SecondRound
<1> QED
  BY <1>1, <1>2, <1>3, <1>4, <1>5, <1>6, <1>7, <1>8

\* the reader goes through the items: it looks at ICSleep before each call,
\* after it, and before and after the pause
LEMMA RoundKeeps ==
    ASSUME IInv, UNCHANGED <<main, thumbs, icStopWork, asleep>>,
           \/ \E i \in Items : Call(i)
           \/ Return \/ (\E result \in {"read", "old", "failed"} : Store(result)) \/ NextItem \/ PauseWait
    PROVE  ReaderPart' /\ (Quiet => Quiet') /\ (~thumbSection /\ Quiet => ~thumbSection')
<1> USE DEF ReaderPart, IInv, Types, PlaceTells, NoThumbnails, Quiet, Places, Inside, Working,
            Round, ReaderAt, ReaderGoes, locks
<1>1. ASSUME NEW i \in Items, Call(i)
      PROVE  ReaderPart' /\ (Quiet => Quiet') /\ (~thumbSection /\ Quiet => ~thumbSection')
  <2>1. /\ rd.pc = "choosing" /\ i \in ToRead /\ ~icSleep
        /\ section' = FALSE /\ thumbSection' = (i \in Thumbnails)
        /\ rd' = [rd EXCEPT !.pc = "calling", !.item = {i}, !.done = @ \union {i}]
        /\ UNCHANGED <<icSleep, icWorking>>
    BY <1>1 DEF Call, Guarded
  <2>2. i \in Thumbnails => rd.thumbs
    BY <2>1 DEF ToRead
  <2>3. /\ DOMAIN rd' = DOMAIN rd /\ rd'.pc = "calling" /\ rd'.item = {i}
        /\ rd'.thumbs = rd.thumbs
    BY <2>1
  <2>4. Types'
    BY <2>1, <2>3
  <2>5. PlaceTells'
    BY <2>1, <2>3
  <2>6. NoThumbnails'
    BY <2>1, <2>2, <2>3
  <2>7. ~Quiet
    BY <2>1
  <2> QED
    BY <2>4, <2>5, <2>6, <2>7
<1>2. CASE Return
  BY <1>2 DEF Return
<1>3. ASSUME NEW result \in {"read", "old", "failed"}, Store(result)
      PROVE  ReaderPart' /\ (Quiet => Quiet') /\ (~thumbSection /\ Quiet => ~thumbSection')
  <2>1. /\ rd.pc = "storing" /\ DOMAIN rd' = DOMAIN rd /\ rd'.pc = "stored"
        /\ rd'.thumbs = rd.thumbs
        /\ UNCHANGED <<icSleep, icWorking, section, thumbSection>>
    BY <1>3 DEF Store
  <2> QED
    BY <2>1
<1>4. CASE NextItem
  BY <1>4 DEF NextItem
<1>5. CASE PauseWait
  BY <1>5 DEF PauseWait
<1> QED
  BY <1>1, <1>2, <1>3, <1>4, <1>5

\* the pause for the icons of the user menu
LEMMA PauseKeeps ==
    ASSUME IInv, UNCHANGED <<main, thumbs, icStopWork, asleep>>, Pause \/ EndPause, ~Sleeps
    PROVE  ReaderPart' /\ (Quiet => Quiet') /\ (~thumbSection => ~thumbSection')
<1> USE DEF ReaderPart, IInv, Types, PlaceTells, NoThumbnails, Quiet, Places, Inside, Working,
            Round, ReaderAt, ReaderGoes
<1>1. CASE Pause
  <2>1. /\ rd.pc = "choosing" /\ ~icSleep /\ section' = FALSE
        /\ rd' = [rd EXCEPT !.pc = "pausing"]
        /\ UNCHANGED <<icSleep, icWorking, thumbSection>>
    BY <1>1 DEF Pause, Sleeps
  <2> QED
    BY <2>1
<1>2. CASE EndPause
  <2>1. /\ rd.pc = "paused" /\ ~icSleep /\ section' = TRUE
        /\ \E b \in BOOLEAN : rd' = [rd EXCEPT !.pc = "choosing", !.failed = b]
        /\ UNCHANGED <<icSleep, icWorking, thumbSection>>
    BY <1>2 DEF EndPause, Sleeps
  <2> QED
    BY <2>1
<1> QED
  BY <1>1, <1>2

LEMMA ReaderKeeps ==
    ASSUME IInv, Reader \/ UserMenuRead
    PROVE  IInv'
<1>1. UNCHANGED <<main, thumbs, plugin, careless, icStopWork, asleep>>
  BY ReaderFrame
<1>2. ReaderPart' /\ (Quiet => Quiet') /\ (~thumbSection /\ Quiet => ~thumbSection')
  <2>1. CASE Sleeps
    BY <1>1, <2>1, SleepKeeps
  <2>2. CASE \/ WaitForWork \/ Invalidate \/ EnterSection("entering", "deciding") \/ NoNewWork
             \/ StartWork \/ BackFromCheck \/ SetUp \/ SecondRound
    BY <1>1, <2>2, BeginKeeps
  <2>3. CASE \/ \E i \in Items : Call(i)
             \/ Return \/ (\E result \in {"read", "old", "failed"} : Store(result)) \/ NextItem \/ PauseWait
    BY <1>1, <2>3, RoundKeeps
  <2>4. CASE (Pause \/ EndPause) /\ ~Sleeps
    BY <1>1, <2>4, PauseKeeps
  <2>5. CASE UserMenuRead
    BY <2>5 DEF UserMenuRead, locks, ReaderPart, IInv, Types, PlaceTells, NoThumbnails, Quiet,
                mainOnly, module
  <2>6. NewWork \/ StopAtOnce \/ GiveUp \/ ReturnTooLate \/ Restart \/ Finish
          => Sleeps
    BY DEF NewWork, StopAtOnce, GiveUp, ReturnTooLate, Restart, Finish, Sleeps
  <2> QED
    BY <2>1, <2>2, <2>3, <2>4, <2>5, <2>6 DEF Reader
<1>3. AsleepIsQuiet' /\ StepsInOrder'
  BY <1>1, <1>2 DEF IInv, AsleepIsQuiet, StepsInOrder, MainAt, Chained
<1>4. Loaded'
  BY <1>1 DEF IInv, Loaded
<1> QED
  BY <1>2, <1>3, <1>4 DEF IInv, ReaderPart

-----------------------------------------------------------------------------
(* What the main thread still has to do *)

LEMMA TailChained ==
    ASSUME NEW s \in Seq(Steps), s # <<>>, Chained(s)
    PROVE  /\ Tail(s) \in Seq(Steps) /\ Chained(Tail(s))
           /\ Tail(s) # <<>> => MayFollow(Head(s), Head(Tail(s)))
<1> DEFINE t == Tail(s)
<1>1. /\ t \in Seq(Steps) /\ Len(s) \in Nat \ {0} /\ Len(t) = Len(s) - 1
      /\ DOMAIN s = 1..Len(s) /\ DOMAIN t = 1..Len(s) - 1
      /\ Head(s) = s[1] /\ \A i \in 1..Len(s) - 1 : t[i] = s[i + 1]
  OBVIOUS
<1>1a. t # <<>> => Head(t) = t[1] /\ Len(t) # 0
  <2>1. t \in Seq(Steps)
    BY <1>1
  <2> HIDE DEF t
  <2> QED
    BY <2>1
<1> HIDE DEF t
<1>2. \A i \in DOMAIN t : i + 1 \in DOMAIN s /\ i + 1 # 1 /\ (i + 1) - 1 = i /\ t[i] = s[i + 1]
  BY <1>1
<1>3. \A i \in DOMAIN t : MayFollow(s[i], t[i])
  BY <1>1, <1>2 DEF Chained
<1>4. Chained(t)
  <2>1. \A i \in DOMAIN t : i = 1 \/ (i - 1 \in DOMAIN t /\ t[i - 1] = s[i])
    BY <1>1
  <2> QED
    BY <1>3, <2>1 DEF Chained
<1>5. t # <<>> => MayFollow(s[1], t[1])
  BY <1>1, <1>1a, <1>3
<1> QED
  BY <1>1, <1>1a, <1>4, <1>5 DEF t

LEMMA ConcatFresh ==
    ASSUME NEW s, NEW t, Fresh(s), Fresh(t)
    PROVE  Fresh(s \o t)
<1> DEFINE u == s \o t
<1>1. s \in Seq(Steps) /\ t \in Seq(Steps) /\ Chained(s) /\ Chained(t)
  BY DEF Fresh
<1>2. /\ u \in Seq(Steps) /\ Len(u) = Len(s) + Len(t) /\ Len(s) \in Nat /\ Len(t) \in Nat
      /\ DOMAIN s = 1..Len(s) /\ DOMAIN t = 1..Len(t) /\ DOMAIN u = 1..Len(s) + Len(t)
      /\ \A i \in 1..Len(s) + Len(t) : u[i] = IF i <= Len(s) THEN s[i] ELSE t[i - Len(s)]
  BY <1>1
<1>3. (Len(s) > 0 => s # <<>>) /\ (Len(t) > 0 => t # <<>>) /\ (u # <<>> => Len(u) > 0)
  BY <1>1, <1>2
<1> HIDE DEF u
<1>4. \A i \in DOMAIN u : i = 1 \/ MayFollow(u[i - 1], u[i])
  <2> SUFFICES ASSUME NEW i \in DOMAIN u, i # 1 PROVE MayFollow(u[i - 1], u[i])
    OBVIOUS
  <2>1. CASE i <= Len(s)
    BY <1>1, <1>2, <2>1 DEF Chained
  <2>2. CASE i = Len(s) + 1
    <3>1. u[i] = t[1] /\ t # <<>>
      BY <1>2, <1>3, <2>2
    <3> QED
      BY <3>1 DEF Fresh, MayFollow
  <2>3. CASE i > Len(s) + 1
    <3>1. /\ i - Len(s) \in DOMAIN t /\ i - Len(s) # 1
          /\ u[i] = t[i - Len(s)] /\ u[i - 1] = t[(i - Len(s)) - 1]
      BY <1>2, <2>3
    <3> QED
      BY <1>1, <3>1 DEF Chained
  <2> QED
    BY <1>2, <2>1, <2>2, <2>3
<1>5. u # <<>> => u[1] \notin {"reset", "pass", "passThumbs", "unload"}
  <2> SUFFICES ASSUME u # <<>> PROVE u[1] \notin {"reset", "pass", "passThumbs", "unload"}
    OBVIOUS
  <2>1. CASE Len(s) > 0
    BY <1>2, <1>3, <2>1 DEF Fresh
  <2>2. CASE Len(s) = 0
    <3>1. u[1] = t[1] /\ t # <<>>
      BY <1>2, <1>3, <2>2
    <3> QED
      BY <3>1 DEF Fresh
  <2> QED
    BY <1>2, <2>1, <2>2
<1> QED
  BY <1>2, <1>4, <1>5 DEF Fresh, u, Chained

LEMMA FreshSteps ==
    /\ Fresh(<<>>) /\ Fresh(SleepSteps) /\ Fresh(WakeSteps) /\ Fresh(<<"read">>)
    /\ Fresh(<<"delayed">>) /\ Fresh(<<"transfer">>)
<1>1. Fresh(SleepSteps)
  <2>1. SleepSteps \in Seq(Steps) /\ DOMAIN SleepSteps = 1..5
    BY DEF SleepSteps, Steps
  <2>2. /\ SleepSteps[1] = "interrupt" /\ SleepSteps[2] = "stop" /\ SleepSteps[3] = "reset"
        /\ SleepSteps[4] = "pass" /\ SleepSteps[5] = "passThumbs"
    BY DEF SleepSteps
  <2>3. /\ MayFollow("interrupt", "stop") /\ MayFollow("stop", "reset")
        /\ MayFollow("reset", "pass") /\ MayFollow("pass", "passThumbs")
    BY DEF MayFollow
  <2>4. \A i \in 1..5 : i = 1 \/ MayFollow(SleepSteps[i - 1], SleepSteps[i])
    <3> SUFFICES ASSUME NEW i \in 1..5 PROVE i = 1 \/ MayFollow(SleepSteps[i - 1], SleepSteps[i])
      OBVIOUS
    <3>1. i = 1 \/ i = 2 \/ i = 3 \/ i = 4 \/ i = 5
      OBVIOUS
    <3> QED
      BY <2>2, <2>3, <3>1
  <2> QED
    BY <2>1, <2>2, <2>4 DEF Fresh, Chained
<1>2. Fresh(WakeSteps)
  <2>1. WakeSteps \in Seq(Steps) /\ DOMAIN WakeSteps = 1..3
    BY DEF WakeSteps, Steps
  <2>2. WakeSteps[1] = "start" /\ WakeSteps[2] = "signal" /\ WakeSteps[3] = "clear"
    BY DEF WakeSteps
  <2>3. MayFollow("start", "signal") /\ MayFollow("signal", "clear")
    BY DEF MayFollow
  <2>4. \A i \in 1..3 : i = 1 \/ MayFollow(WakeSteps[i - 1], WakeSteps[i])
    BY <2>2, <2>3
  <2> QED
    BY <2>1, <2>2, <2>4 DEF Fresh, Chained
<1>3. ASSUME NEW x \in Steps, x \notin {"reset", "pass", "passThumbs", "unload"}
      PROVE  Fresh(<<x>>)
  BY <1>3 DEF Fresh, Chained
<1>4. Fresh(<<>>)
  BY DEF Fresh, Chained
<1>5. "read" \in Steps /\ "delayed" \in Steps /\ "transfer" \in Steps
  BY DEF Steps
<1> QED
  BY <1>1, <1>2, <1>3, <1>4, <1>5

\* "unload" follows the steps it needs
LEMMA FreshUnload == Fresh(SleepSteps \o <<"unload">>)
<1> DEFINE t == <<"unload">>
           s == SleepSteps \o t
<1>1. /\ SleepSteps \in Seq(Steps) /\ t \in Seq(Steps)
      /\ Len(SleepSteps) = 5 /\ Len(t) = 1 /\ t[1] = "unload"
  BY DEF SleepSteps, Steps
<1> HIDE DEF t
<1> DEFINE r == SleepSteps
<1> HIDE DEF r
<1>2. /\ s \in Seq(Steps) /\ DOMAIN s = 1..6 /\ s[6] = t[1]
      /\ \A i \in 1..5 : s[i] = SleepSteps[i]
  <2>1. r \in Seq(Steps) /\ t \in Seq(Steps) /\ Len(r) = 5 /\ Len(t) = 1
    BY <1>1 DEF r
  <2>2. /\ r \o t \in Seq(Steps) /\ Len(r \o t) = Len(r) + Len(t)
        /\ \A i \in 1..Len(r) + Len(t) : (r \o t)[i] = IF i <= Len(r) THEN r[i] ELSE t[i - Len(r)]
    BY ONLY <2>1, ConcatProperties
  <2>3. s = r \o t
    BY DEF r
  <2>4. Len(s) = 6 /\ \A i \in 1..6 : s[i] = IF i <= 5 THEN r[i] ELSE t[i - 5]
    BY <2>1, <2>2, <2>3
  <2>5. s \in Seq(Steps) /\ DOMAIN s = 1..Len(s)
    BY <2>2, <2>3
  <2>6. s[6] = t[1] /\ \A i \in 1..5 : s[i] = r[i]
    BY <2>4
  <2> QED
    BY <2>4, <2>5, <2>6 DEF r
<1> HIDE DEF s
<1>3. /\ s[1] = "interrupt" /\ s[2] = "stop" /\ s[3] = "reset"
      /\ s[4] = "pass" /\ s[5] = "passThumbs" /\ s[6] = "unload"
  BY <1>1, <1>2 DEF SleepSteps
<1>4. /\ MayFollow("interrupt", "stop") /\ MayFollow("stop", "reset")
      /\ MayFollow("reset", "pass") /\ MayFollow("pass", "passThumbs")
      /\ MayFollow("passThumbs", "unload")
  BY DEF MayFollow
<1>5. \A i \in 1..6 : i = 1 \/ MayFollow(s[i - 1], s[i])
  BY <1>3, <1>4
<1> QED
  BY <1>2, <1>3, <1>5 DEF Fresh, Chained, s, t

LEMMA FreshLists ==
    /\ Fresh(SleepSteps \o <<"read">> \o WakeSteps) /\ Fresh(SleepSteps \o WakeSteps)
    /\ Fresh(SleepSteps \o <<>>) /\ Fresh(RefreshSteps)
<1>1. Fresh(SleepSteps \o <<"read">>) /\ Fresh(SleepSteps \o WakeSteps) /\ Fresh(SleepSteps \o <<>>)
  BY FreshSteps, ConcatFresh
<1>2. Fresh(SleepSteps \o <<"read">> \o WakeSteps)
  BY <1>1, FreshSteps, ConcatFresh
<1>3. Fresh(SleepSteps \o <<"read">> \o WakeSteps \o SleepSteps)
  BY <1>2, FreshSteps, ConcatFresh
<1>4. Fresh(RefreshSteps)
  BY <1>3, FreshSteps, ConcatFresh DEF RefreshSteps
<1> QED
  BY <1>1, <1>2, <1>4

\* the main thread does the next step of its list
LEMMA NextStep ==
    ASSUME IInv, main.todo # <<>>, Next1
    PROVE  /\ DOMAIN main' = {"todo", "flag", "valid"} /\ main'.todo \in Seq(Steps)
           /\ Chained(main'.todo)
           /\ main'.todo # <<>> => MayFollow(Head(main.todo), Head(main'.todo))
<1>1. /\ main' = [main EXCEPT !.todo = Tail(@)] /\ DOMAIN main = {"todo", "flag", "valid"}
      /\ main.todo \in Seq(Steps) /\ Chained(main.todo)
  BY DEF Next1, IInv, Types, StepsInOrder
<1>2. DOMAIN main' = {"todo", "flag", "valid"} /\ main'.todo = Tail(main.todo)
  BY <1>1
<1> QED
  BY <1>1, <1>2, TailChained

\* the main thread begins something new
LEMMA NewSteps ==
    ASSUME DOMAIN main' = {"todo", "flag", "valid"}, Fresh(main'.todo)
    PROVE  /\ DOMAIN main' = {"todo", "flag", "valid"} /\ main'.todo \in Seq(Steps)
           /\ Chained(main'.todo)
           /\ main'.todo # <<>> => Head(main'.todo) \notin {"reset", "pass", "passThumbs", "unload"}
  BY DEF Fresh

-----------------------------------------------------------------------------
(* The main thread *)

LEMMA MainLeavesReader ==
    ASSUME MainSteps \/ User
    PROVE  UNCHANGED <<icWorking, section, thumbSection, rd>>
  BY DEF MainSteps, User, readerOnly, locks, Interrupt, Stop, Reset, Pass, PassThumbs, Start,
         Signal, Clear, ReadDirectory, TakeOldIcons, Unload, HandlePostedRefresh, HandleEnd,
         DelayedRefresh, DirectoryChanged, ChangePath, Rearrange, OverlaysChanged, Filter,
         UnloadPlugin, UserDoes

\* a step of the list, which begins with "step" before it
LEMMA ListStepKeeps ==
    ASSUME IInv, NEW step \in Steps, MainAt(step), Next1,
           UNCHANGED <<icWorking, section, thumbSection, rd>>
    PROVE  /\ Types' /\ PlaceTells' /\ Chained(main.todo)'
           /\ \A next \in Steps : MainAt(next)' => MayFollow(step, next)
<1>1. main.todo # <<>> /\ Head(main.todo) = step
  BY DEF MainAt
<1>2. /\ DOMAIN main' = {"todo", "flag", "valid"} /\ main'.todo \in Seq(Steps)
      /\ Chained(main'.todo)
      /\ main'.todo # <<>> => MayFollow(step, Head(main'.todo))
  BY <1>1, NextStep
<1> QED
  BY <1>2 DEF IInv, Types, PlaceTells, MainAt

LEMMA SleepStepsKeep ==
    ASSUME IInv, UNCHANGED <<icWorking, section, thumbSection, rd>>,
           Interrupt \/ Stop \/ Reset \/ Pass \/ PassThumbs
    PROVE  IInv'
<1> USE DEF MayFollow
<1>1. UNCHANGED <<thumbs, plugin, careless>>
  BY DEF module, Interrupt, Stop, Reset, Pass, PassThumbs
<1>2. Loaded'
  BY <1>1 DEF IInv, Loaded
<1>3. ASSUME NEW step \in Steps, MainAt(step), Next1
      PROVE  /\ Types' /\ PlaceTells' /\ Chained(main.todo)'
             /\ MainAt("reset")' => step = "stop"
             /\ MainAt("pass")' => step = "reset"
             /\ MainAt("passThumbs")' => step = "pass"
             /\ MainAt("unload")' => step = "passThumbs"
  <2>1. /\ Types' /\ PlaceTells' /\ Chained(main.todo)'
        /\ \A next \in Steps : MainAt(next)' => MayFollow(step, next)
    BY <1>3, ListStepKeeps
  <2> QED
    BY <2>1 DEF Steps
<1>4. CASE Interrupt
  <2>1. /\ MainAt("interrupt") /\ Next1 /\ icSleep' = TRUE /\ UNCHANGED <<icStopWork, asleep>>
    BY <1>4 DEF Interrupt
  <2>2. /\ Types' /\ PlaceTells' /\ StepsInOrder'
    BY <1>3, <2>1 DEF StepsInOrder, Steps
  <2>3. AsleepIsQuiet' /\ NoThumbnails'
    BY <1>1, <2>1 DEF IInv, AsleepIsQuiet, Quiet, NoThumbnails
  <2> QED
    BY <1>2, <2>2, <2>3 DEF IInv
<1>5. CASE Stop
  <2>1. /\ MainAt("stop") /\ Next1 /\ icStopWork' = TRUE /\ UNCHANGED <<icSleep, asleep>>
    BY <1>5 DEF Stop
  <2>2. /\ Types' /\ PlaceTells' /\ StepsInOrder'
    BY <1>3, <2>1 DEF StepsInOrder, Steps
  <2>3. AsleepIsQuiet' /\ NoThumbnails'
    BY <1>1, <2>1 DEF IInv, AsleepIsQuiet, Quiet, NoThumbnails
  <2> QED
    BY <1>2, <2>2, <2>3 DEF IInv
<1>6. CASE Reset
  <2>1. /\ MainAt("reset") /\ Next1 /\ UNCHANGED <<icSleep, icStopWork, asleep>>
    BY <1>6 DEF Reset
  <2>2. icStopWork
    BY <2>1 DEF IInv, StepsInOrder
  <2>3. /\ Types' /\ PlaceTells' /\ StepsInOrder'
    BY <1>3, <2>1, <2>2 DEF StepsInOrder, Steps
  <2>4. AsleepIsQuiet' /\ NoThumbnails'
    BY <1>1, <2>1 DEF IInv, AsleepIsQuiet, Quiet, NoThumbnails
  <2> QED
    BY <1>2, <2>3, <2>4 DEF IInv
<1>7. CASE Pass
  <2>1. /\ MainAt("pass") /\ Next1 /\ ~section /\ icSleep' = icWorking
        /\ UNCHANGED <<icStopWork, asleep>>
    BY <1>7 DEF Pass, SleepFlag
  <2>2. icStopWork
    BY <2>1 DEF IInv, StepsInOrder
  <2>3. Quiet'
    BY <2>1, <2>2 DEF IInv, PlaceTells, Quiet, Inside
  <2>4. /\ Types' /\ PlaceTells' /\ StepsInOrder'
    BY <1>3, <2>1, <2>2, <2>3 DEF StepsInOrder, Steps
  <2>5. rd.pc \in Round => icSleep'
    BY <2>1 DEF IInv, PlaceTells, Working
  <2>6. AsleepIsQuiet' /\ NoThumbnails'
    BY <1>1, <2>1, <2>3, <2>5 DEF IInv, AsleepIsQuiet, NoThumbnails
  <2> QED
    BY <1>2, <2>4, <2>6 DEF IInv
<1>8. CASE PassThumbs
  <2>1. /\ MainAt("passThumbs") /\ Next1 /\ ~thumbSection /\ asleep' = TRUE
        /\ UNCHANGED <<icSleep, icStopWork>>
    BY <1>8 DEF PassThumbs
  <2>2. Quiet /\ Quiet'
    BY <2>1 DEF IInv, StepsInOrder, Quiet
  <2>3. /\ Types' /\ PlaceTells' /\ StepsInOrder'
    BY <1>3, <2>1, <2>2 DEF StepsInOrder, Steps
  <2>4. AsleepIsQuiet' /\ NoThumbnails'
    BY <1>1, <2>1, <2>2 DEF IInv, AsleepIsQuiet, NoThumbnails
  <2> QED
    BY <1>2, <2>3, <2>4 DEF IInv
<1> QED
  BY <1>4, <1>5, <1>6, <1>7, <1>8

LEMMA OtherStepsKeep ==
    ASSUME IInv, UNCHANGED <<icWorking, section, thumbSection, rd>>,
           Start \/ Signal \/ Clear \/ ReadDirectory \/ Unload
    PROVE  IInv'
<1> USE DEF MayFollow
<1>1. ASSUME NEW step \in {"start", "signal", "clear", "read", "unload"}, MainAt(step), Next1
      PROVE  Types' /\ PlaceTells' /\ StepsInOrder'
  <2>1. step \in Steps
    BY <1>1 DEF Steps
  <2>2. /\ Types' /\ PlaceTells' /\ Chained(main.todo)'
        /\ \A next \in Steps : MainAt(next)' => MayFollow(step, next)
    BY <1>1, <2>1, ListStepKeeps
  <2>3. ~MainAt("reset")' /\ ~MainAt("pass")' /\ ~MainAt("passThumbs")' /\ ~MainAt("unload")'
    BY <2>2 DEF Steps
  <2> QED
    BY <2>2, <2>3 DEF StepsInOrder
<1>2. CASE Start
  <2>1. /\ MainAt("start") /\ Next1 /\ asleep' = FALSE
        /\ UNCHANGED <<icSleep, thumbs, plugin, careless>>
    BY <1>2 DEF Start, module
  <2>2. AsleepIsQuiet' /\ NoThumbnails' /\ Loaded'
    BY <2>1 DEF IInv, AsleepIsQuiet, NoThumbnails, Loaded
  <2> QED
    BY <1>1, <2>1, <2>2 DEF IInv
<1>3. CASE Signal \/ Clear
  <2>1. /\ (MainAt("signal") \/ MainAt("clear")) /\ Next1
        /\ UNCHANGED <<icSleep, icStopWork, asleep, thumbs, plugin, careless>>
    BY <1>3 DEF Signal, Clear, module
  <2>2. AsleepIsQuiet' /\ NoThumbnails' /\ Loaded'
    BY <2>1 DEF IInv, AsleepIsQuiet, Quiet, NoThumbnails, Loaded
  <2> QED
    BY <1>1, <2>1, <2>2 DEF IInv
<1>4. CASE ReadDirectory
  <2>1. /\ MainAt("read") /\ Next1 /\ thumbs' = TRUE /\ plugin' = TRUE
        /\ UNCHANGED <<icSleep, icStopWork, asleep>>
    BY <1>4 DEF ReadDirectory
  <2>2. AsleepIsQuiet' /\ NoThumbnails' /\ Loaded'
    BY <2>1 DEF IInv, AsleepIsQuiet, Quiet, NoThumbnails, Loaded
  <2> QED
    BY <1>1, <2>1, <2>2 DEF IInv
<1>5. CASE Unload
  <2>1. /\ MainAt("unload") /\ Next1 /\ thumbs' = FALSE
        /\ UNCHANGED <<icSleep, icStopWork, asleep>>
    BY <1>5 DEF Unload, flags
  <2>2. Quiet /\ ~thumbSection
    BY <2>1 DEF IInv, StepsInOrder, AsleepIsQuiet
  <2>3. rd.pc \in Round => icSleep
    BY <2>2 DEF Quiet, IInv, PlaceTells, Working
  <2>4. AsleepIsQuiet' /\ NoThumbnails' /\ Loaded'
    BY <2>1, <2>2, <2>3 DEF IInv, AsleepIsQuiet, Quiet, NoThumbnails, Loaded
  <2> QED
    BY <1>1, <2>1, <2>4 DEF IInv
<1> QED
  BY <1>2, <1>3, <1>4, <1>5

\* the main thread begins something new, and touches nothing of the reader
LEMMA BeginningKeeps ==
    ASSUME IInv, UNCHANGED <<icWorking, section, thumbSection, rd>>,
           UNCHANGED <<icSleep, icStopWork, asleep, thumbs>>,
           main' = main \/ (DOMAIN main' = {"todo", "flag", "valid"} /\ Fresh(main'.todo)),
           Loaded'
    PROVE  IInv'
<1>1. CASE main' = main
  BY <1>1 DEF IInv, Types, PlaceTells, AsleepIsQuiet, Quiet, StepsInOrder, MainAt, NoThumbnails,
              Chained
<1>2. CASE DOMAIN main' = {"todo", "flag", "valid"} /\ Fresh(main'.todo)
  <2>1. /\ DOMAIN main' = {"todo", "flag", "valid"} /\ main'.todo \in Seq(Steps)
        /\ Chained(main'.todo)
        /\ main'.todo # <<>> => Head(main'.todo) \notin {"reset", "pass", "passThumbs", "unload"}
    BY <1>2, NewSteps
  <2>2. Types' /\ PlaceTells'
    BY <2>1 DEF IInv, Types, PlaceTells
  <2>3. StepsInOrder'
    BY <2>1 DEF StepsInOrder, MainAt
  <2>4. AsleepIsQuiet' /\ NoThumbnails'
    BY DEF IInv, AsleepIsQuiet, Quiet, NoThumbnails
  <2> QED
    BY <2>2, <2>3, <2>4 DEF IInv
<1> QED
  BY <1>1, <1>2

\* what main becomes when a list is begun
LEMMA ListOf ==
    ASSUME NEW steps, Fresh(steps), MainGoes(steps)
    PROVE  DOMAIN main' = {"todo", "flag", "valid"} /\ Fresh(main'.todo)
<1>1. main' = [todo |-> steps, flag |-> Idle.flag, valid |-> Idle.valid]
  BY DEF MainGoes, Idle
<1> QED
  BY <1>1

LEMMA RefreshBegins ==
    /\ Refresh => DOMAIN main' = {"todo", "flag", "valid"} /\ Fresh(main'.todo)
    /\ RefreshOrPutOff => DOMAIN main' = {"todo", "flag", "valid"} /\ Fresh(main'.todo)
<1>1. Refresh => DOMAIN main' = {"todo", "flag", "valid"} /\ Fresh(main'.todo)
  BY FreshLists DEF Refresh
<1>2. main' = Idle => DOMAIN main' = {"todo", "flag", "valid"} /\ Fresh(main'.todo)
  BY FreshSteps DEF Idle
<1> QED
  BY <1>1, <1>2 DEF RefreshOrPutOff

LEMMA UserKeeps ==
    ASSUME IInv, User, UNCHANGED <<icWorking, section, thumbSection, rd>>
    PROVE  IInv'
<1> DEFINE Begun == main' = main \/ (DOMAIN main' = {"todo", "flag", "valid"} /\ Fresh(main'.todo))
<1>1. UNCHANGED <<icSleep, icStopWork, asleep>>
  BY DEF User, UserDoes, flags, DirectoryChanged, ChangePath, Rearrange, OverlaysChanged, Filter,
         UnloadPlugin
<1>2. CASE DirectoryChanged \/ ChangePath \/ Rearrange \/ OverlaysChanged \/ Filter
  <2>1. UNCHANGED <<thumbs, plugin, careless>>
    BY <1>2 DEF DirectoryChanged, ChangePath, Rearrange, OverlaysChanged, Filter, module
  <2>2. \/ main' = main \/ RefreshOrPutOff
        \/ MainGoes(SleepSteps \o <<"read">> \o WakeSteps)
        \/ MainGoes(SleepSteps \o WakeSteps) \/ MainGoes(SleepSteps \o <<>>)
    BY <1>2 DEF DirectoryChanged, ChangePath, Rearrange, OverlaysChanged, Filter
  <2>3. Begun
    BY <2>2, ListOf, FreshLists, RefreshBegins
  <2>4. Loaded'
    BY <2>1 DEF IInv, Loaded
  <2> QED
    BY <1>1, <2>1, <2>3, <2>4, BeginningKeeps
<1>3. CASE UnloadPlugin
  <2>1. /\ UNCHANGED thumbs
        /\ \/ MainGoes(SleepSteps \o <<"unload">>) /\ UNCHANGED <<plugin, careless>>
           \/ ~MustSleep /\ careless' = (careless \/ valid) /\ UNCHANGED main
    BY <1>3 DEF UnloadPlugin
  <2>2. Begun
    BY <2>1, ListOf, FreshUnload
  <2>3. Loaded'
    BY <2>1 DEF IInv, Loaded, MustSleep
  <2> QED
    BY <1>1, <2>1, <2>2, <2>3, BeginningKeeps
<1> QED
  BY <1>2, <1>3 DEF User

LEMMA MessagesKeep ==
    ASSUME IInv, UNCHANGED <<icWorking, section, thumbSection, rd>>,
           \/ \E same \in BOOLEAN : TakeOldIcons(same)
           \/ HandlePostedRefresh \/ HandleEnd \/ DelayedRefresh
    PROVE  IInv'
<1>1. UNCHANGED <<icSleep, icStopWork, asleep, thumbs, plugin, careless>>
  BY DEF TakeOldIcons, HandlePostedRefresh, HandleEnd, DelayedRefresh, flags, module
<1>2. \/ main' = Idle \/ MainGoes(WakeSteps) \/ Refresh \/ RefreshOrPutOff
      \/ MainGoes(<<"delayed">>) \/ MainGoes(SleepSteps \o WakeSteps) \/ MainGoes(<<>>)
  BY DEF TakeOldIcons, HandlePostedRefresh, HandleEnd, DelayedRefresh
<1>3. main' = Idle => DOMAIN main' = {"todo", "flag", "valid"} /\ Fresh(main'.todo)
  BY FreshSteps DEF Idle
<1>4. DOMAIN main' = {"todo", "flag", "valid"} /\ Fresh(main'.todo)
  BY <1>2, <1>3, ListOf, FreshLists, FreshSteps, RefreshBegins
<1>5. Loaded'
  BY <1>1 DEF IInv, Loaded
<1> QED
  BY <1>1, <1>4, <1>5, BeginningKeeps

-----------------------------------------------------------------------------
LEMMA InitEstablishes == Init => IInv
<1> SUFFICES ASSUME Init PROVE IInv
  OBVIOUS
<1>1. /\ rd = [pc |-> "waiting", item |-> {}, done |-> {}, first |-> TRUE,
               failed |-> FALSE, thumbs |-> FALSE, woken |-> FALSE]
      /\ main = [todo |-> <<>>, flag |-> Idle.flag, valid |-> Idle.valid]
      /\ ~section /\ ~thumbSection /\ ~icWorking /\ ~asleep /\ thumbs /\ plugin
  BY DEF Init, NoReader, Idle
<1>2. /\ DOMAIN main = {"todo", "flag", "valid"} /\ main.todo = <<>>
      /\ rd.pc = "waiting"
      /\ DOMAIN rd = {"pc", "item", "done", "first", "failed", "thumbs", "woken"}
  BY <1>1
<1>3. Types
  BY <1>2 DEF Types, Places
<1>4. PlaceTells /\ NoThumbnails
  BY <1>1, <1>2 DEF PlaceTells, NoThumbnails, Inside, Working, Round
<1>5. StepsInOrder
  BY <1>2, FreshSteps DEF StepsInOrder, MainAt, Fresh
<1> QED
  BY <1>1, <1>3, <1>4, <1>5 DEF IInv, AsleepIsQuiet, Loaded

LEMMA NextKeeps == IInv /\ [Next]_vars => IInv'
<1> SUFFICES ASSUME IInv, [Next]_vars PROVE IInv'
  OBVIOUS
<1>1. CASE Reader \/ UserMenuRead
  BY <1>1, ReaderKeeps
<1>2. CASE User
  BY <1>2, MainLeavesReader, UserKeeps
<1>3. CASE MainSteps
  BY <1>3, MainLeavesReader, SleepStepsKeep, OtherStepsKeep, MessagesKeep DEF MainSteps
<1>4. CASE UNCHANGED vars
  BY <1>4 DEF vars, IInv, Types, PlaceTells, AsleepIsQuiet, Quiet, StepsInOrder, MainAt, Chained,
              NoThumbnails, Loaded
<1> QED
  BY <1>1, <1>2, <1>3, <1>4 DEF Next

LEMMA Invariance == Spec => []IInv
  BY InitEstablishes, NextKeeps, PTL DEF Spec

(* From the return of SleepIconCacheThread to WakeupIconCacheThread the reader *)
(* neither looks for its next item nor stores what a call has returned,        *)
(* although ICSleep, ICStopWork and ICWorking are changed without a lock.      *)
THEOREM ReaderIsOff == Spec => []ReaderKeepsOff
<1>1. IInv => ReaderKeepsOff
  BY DEF IInv, AsleepIsQuiet, Quiet, ReaderKeepsOff
<1> QED
  BY <1>1, Invariance, PTL

(* The plug-in a thumbnail is asked of is loaded: CanUnloadPlugin stops the    *)
(* reader first, or nothing of the plug-in is wanted, or the icons counted as  *)
(* read when it was unloaded.                                                  *)
THEOREM PlugInIsLoaded == Spec => []LoaderIsLoaded
<1>1. IInv => LoaderIsLoaded
  BY DEF IInv, PlaceTells, NoThumbnails, Loaded, LoaderIsLoaded
<1> QED
  BY <1>1, Invariance, PTL
=============================================================================
