----------------------------- MODULE IconReader -----------------------------
(***************************************************************************)
(* The icon reader of a panel (IconThreadThreadFBody in                    *)
(* src/src/fileswn1.cpp) and the main thread, which stops and starts it.   *)
(*                                                                         *)
(* The reader goes through the items of the panel and reads their icons,   *)
(* icon overlays and thumbnails.  It holds ICSleepSection while it works   *)
(* with the listing and the icon cache, and leaves it for the calls of the *)
(* shell and of plug-ins.  The main thread owns both from                  *)
(* SleepIconCacheThread to WakeupIconCacheThread; the flags ICSleep,       *)
(* ICStopWork and the event ICEventWork are changed by both threads        *)
(* without a lock.                                                         *)
(*                                                                         *)
(* The panel shows a network directory: its refreshes are delayed until    *)
(* the icons are read (IconCacheValid).  Which of the unread items is next *)
(* depends on what is visible and is left open.                            *)
(***************************************************************************)
EXTENDS Integers, Sequences, FiniteSets, SequencesExt

CONSTANTS
    Icons,          \* items with an icon of the shell
    Thumbnails,     \* items with a thumbnail of a plug-in
    Overlays,       \* items with an icon overlay
    MaxEvents       \* bound: changes of the directory and commands of the user

Items == Icons \union Thumbnails \union Overlays

ASSUME IconReaderAssumption ==
    /\ IsFiniteSet(Items) /\ MaxEvents \in Nat
    /\ Icons \intersect (Thumbnails \union Overlays) = {}
    /\ Thumbnails \intersect Overlays = {}

VARIABLES
    flag,           \* the icon cache: each item "new", "old" or "read"
    icSleep, icWorking, icStopWork,
    work,           \* the auto-reset event ICEventWork
    section,        \* the reader is in ICSleepSection
    thumbSection,   \* the reader is in ICThumbLoadSection
    valid,          \* IconCacheValid
    posted,         \* messages WM_USER_ICONREADING_END
    rd,             \* the reader: its place, the item, items tried in this round,
                    \* firstRound, failed, readThumbnails
    userMenu,       \* icons of the user menu are being read
    main,           \* the main thread: what it still has to do, and the old
                    \* icon cache kept by a refresh
    need,           \* NeedRefreshAfterIconsReading
    needOverlays,   \* NeedIconOvrRefreshAfterIconsReading
    thumbs,         \* UseThumbnails
    plugin,         \* the plug-in of the thumbnails is loaded
    refreshPosted,  \* a refresh was posted by CanUnloadPlugin
    asleep,         \* history: the main thread owns the listing and the cache
    asked,          \* history: the reader was woken and has not finished since
    mishaps,        \* history: what went wrong since the reader was last woken
                    \* (Mishaps)
    careless,       \* history: the plug-in was unloaded without a look at the cache
    events          \* changes and commands so far

\* "notWoken": IconCacheValid, TRUE from an earlier reading, hid that the reader
\* was asked, and it was stopped for good.  "unreported": the message of a reading
\* that had ended was thrown away.
Mishaps == {"notWoken", "unreported"}

flags == <<icSleep, icWorking, icStopWork, work>>
locks == <<section, thumbSection>>
delayed == <<need, needOverlays>>
module == <<thumbs, plugin, refreshPosted, careless>>
readerOnly == <<icWorking, locks, rd, userMenu>>
mainOnly == <<main, delayed, module, icStopWork, asleep, mishaps, events>>
vars == <<flag, icSleep, icWorking, icStopWork, work, section, thumbSection, valid,
          posted, rd, userMenu, main, need, needOverlays, thumbs, plugin, refreshPosted,
          asleep, asked, mishaps, careless, events>>

NoReader == [pc |-> "waiting", item |-> {}, done |-> {}, first |-> TRUE,
             failed |-> FALSE, thumbs |-> FALSE, woken |-> FALSE]
Idle == [todo |-> <<>>, flag |-> [i \in Items |-> "new"], valid |-> FALSE]

\* the panel has just read its first directory
Init ==
    /\ flag = [i \in Items |-> "new"]
    /\ icSleep = FALSE /\ icWorking = FALSE /\ icStopWork = FALSE /\ work = TRUE
    /\ section = FALSE /\ thumbSection = FALSE
    /\ valid = FALSE /\ posted = 0 /\ rd = NoReader /\ userMenu \in BOOLEAN
    /\ main = Idle /\ need = FALSE /\ needOverlays = FALSE
    /\ thumbs = TRUE /\ plugin = TRUE /\ refreshPosted = FALSE
    /\ asleep = FALSE /\ asked = TRUE /\ mishaps = {} /\ careless = FALSE
    /\ events = 0

-----------------------------------------------------------------------------
(* The reader *)

ReaderAt(place) == rd.pc = place
ReaderGoes(place) == rd' = [rd EXCEPT !.pc = place]

WaitForWork ==
    /\ ReaderAt("waiting") /\ work
    /\ work' = FALSE /\ ReaderGoes("woken")
    /\ UNCHANGED <<flag, icSleep, icWorking, locks, valid, posted, userMenu, asked, mainOnly>>

\* the sleeps before the reading are left out
Invalidate ==
    /\ ReaderAt("woken")
    /\ valid' = FALSE /\ ReaderGoes("entering")
    /\ UNCHANGED <<flag, icSleep, icWorking, work, locks, posted, userMenu, asked, mainOnly>>

EnterSection(from, to) ==
    /\ ReaderAt(from) /\ ~section
    /\ section' = TRUE /\ ReaderGoes(to)
    /\ UNCHANGED <<flag, icSleep, icWorking, work, thumbSection, valid, posted, userMenu,
                   asked, mainOnly>>

\* fault: a section is not left
StaysInside(place, wasAsked) ==
    /\ icSleep' = FALSE /\ icWorking' = FALSE
    /\ section' = TRUE /\ thumbSection' = FALSE
    /\ rd' = [NoReader EXCEPT !.pc = place]
    /\ asked' = wasAsked

\* the reader gives up what it reads and leaves the sections
GoToSleep(place, wasAsked) ==
    /\ icSleep' = FALSE /\ icWorking' = FALSE
    /\ section' = FALSE /\ thumbSection' = FALSE
    /\ rd' = [NoReader EXCEPT !.pc = place]
    /\ asked' = wasAsked

\* the event was signalled again: start from the beginning
NewWork ==
    /\ ReaderAt("deciding") /\ work
    /\ work' = FALSE /\ GoToSleep("woken", asked)
    /\ UNCHANGED <<flag, valid, posted, userMenu, mainOnly>>

NoNewWork ==
    /\ ReaderAt("deciding") /\ ~work
    /\ ReaderGoes("starting")
    /\ UNCHANGED <<flag, icSleep, icWorking, work, locks, valid, posted, userMenu, asked, mainOnly>>

\* fault: the order to stop is not looked at
AlwaysWork == TRUE

MayWork == ~icStopWork

StopAtOnce ==
    /\ ReaderAt("starting") /\ ~MayWork
    /\ GoToSleep("waiting", asked)
    /\ UNCHANGED <<flag, work, valid, posted, userMenu, mainOnly>>

\* the section is left while the path is tested for a root of cloud files
StartWork ==
    /\ ReaderAt("starting") /\ MayWork
    /\ icWorking' = TRUE /\ section' = FALSE /\ ReaderGoes("checking")
    /\ UNCHANGED <<flag, icSleep, work, thumbSection, valid, posted, userMenu, asked, mainOnly>>

BackFromCheck == EnterSection("checking", "settingUp")

SetUp ==
    /\ ReaderAt("settingUp")
    /\ rd' = [rd EXCEPT !.pc = "choosing", !.done = {}, !.failed = FALSE, !.thumbs = thumbs]
    /\ flag' = [i \in Items |-> IF i \in Overlays /\ rd.first THEN "new" ELSE flag[i]]
    /\ UNCHANGED <<icSleep, icWorking, work, locks, valid, posted, userMenu, asked, mainOnly>>

ToRead == {i \in Items \ rd.done : /\ flag[i] # "read"
                                   /\ i \in Thumbnails => rd.thumbs /\ rd.first}

GiveUp ==
    /\ ReaderAt("choosing") /\ ToRead # {} /\ icSleep
    /\ GoToSleep("waiting", asked)
    /\ UNCHANGED <<flag, work, valid, posted, userMenu, mainOnly>>

\* fault: thumbnails are read without their section
NotGuarded(i) == FALSE

Guarded(i) == i \in Thumbnails

Call(i) ==
    /\ ReaderAt("choosing") /\ i \in ToRead /\ ~icSleep
    /\ section' = FALSE /\ thumbSection' = Guarded(i)
    /\ rd' = [rd EXCEPT !.pc = "calling", !.item = {i}, !.done = @ \union {i}]
    /\ UNCHANGED <<flag, icSleep, icWorking, work, valid, posted, userMenu, asked, mainOnly>>

\* the call returns while the panel wants the reader to sleep
ReturnTooLate ==
    /\ ReaderAt("calling") /\ ~section /\ icSleep
    /\ GoToSleep("waiting", asked)
    /\ UNCHANGED <<flag, work, valid, posted, userMenu, mainOnly>>

Return ==
    /\ ReaderAt("calling") /\ ~section /\ ~icSleep
    /\ section' = TRUE /\ thumbSection' = FALSE /\ ReaderGoes("storing")
    /\ UNCHANGED <<flag, icSleep, icWorking, work, valid, posted, userMenu, asked, mainOnly>>

\* a failed icon calls for a second round, a failed thumbnail stays new, and a new
\* one of low quality is read again in this round
Store(result) ==
    /\ ReaderAt("storing")
    /\ result = "failed" => rd.item \intersect Overlays = {}
    /\ result = "old" => rd.item \subseteq {i \in Thumbnails : flag[i] = "new"}
    /\ flag' = [i \in Items |-> IF i \in rd.item /\ result # "failed" THEN result ELSE flag[i]]
    /\ rd' = [rd EXCEPT !.pc = "stored", !.item = {},
                        !.done = IF result = "old" THEN @ \ rd.item ELSE @,
                        !.failed = @ \/ (result = "failed" /\ rd.item \subseteq Icons)]
    /\ UNCHANGED <<icSleep, icWorking, work, locks, valid, posted, userMenu, asked, mainOnly>>

NextItem ==
    /\ ReaderAt("stored") /\ ~work
    /\ ReaderGoes("choosing")
    /\ UNCHANGED <<flag, icSleep, icWorking, work, locks, valid, posted, userMenu, asked, mainOnly>>

Restart ==
    /\ ReaderAt("stored") /\ work
    /\ work' = FALSE /\ GoToSleep("woken", asked)
    /\ UNCHANGED <<flag, valid, posted, userMenu, mainOnly>>

\* the icons of the user menu go first: 100 ms without the section
Pause ==
    /\ ReaderAt("choosing") /\ userMenu
    /\ IF icSleep
       THEN GoToSleep("waiting", asked)
       ELSE /\ section' = FALSE /\ ReaderGoes("pausing")
            /\ UNCHANGED <<icSleep, icWorking, thumbSection, asked>>
    /\ UNCHANGED <<flag, work, valid, posted, userMenu, mainOnly>>

PauseWait ==
    /\ ReaderAt("pausing")
    /\ rd' = [rd EXCEPT !.pc = "paused", !.woken = work] /\ work' = FALSE
    /\ UNCHANGED <<flag, icSleep, icWorking, locks, valid, posted, userMenu, asked, mainOnly>>

\* when names were skipped the round is repeated, and forgets what has failed
EndPause ==
    /\ ReaderAt("paused") /\ ~section
    /\ IF icSleep \/ rd.woken
       THEN GoToSleep(IF rd.woken THEN "woken" ELSE "waiting", asked)
       ELSE /\ section' = TRUE
            /\ \E skipped \in BOOLEAN :
                  /\ ToRead # {} => skipped
                  /\ rd' = [rd EXCEPT !.pc = "choosing", !.failed = @ /\ ~skipped]
            /\ UNCHANGED <<icSleep, icWorking, thumbSection, asked>>
    /\ UNCHANGED <<flag, work, valid, posted, userMenu, mainOnly>>

UserMenuRead ==
    /\ userMenu /\ userMenu' = FALSE
    /\ UNCHANGED <<flag, icSleep, icWorking, work, locks, valid, posted, rd, asked, mainOnly>>

SecondRound ==
    /\ ReaderAt("choosing") /\ ToRead = {} /\ ~userMenu /\ rd.failed /\ rd.first
    /\ rd' = [rd EXCEPT !.pc = "settingUp", !.first = FALSE]
    /\ UNCHANGED <<flag, icSleep, icWorking, work, locks, valid, posted, userMenu, asked, mainOnly>>

\* fault: only a reading in one round is reported
OneRoundOnly == posted + (IF rd.first THEN 1 ELSE 0)

Reported == posted + 1

Finish ==
    /\ ReaderAt("choosing") /\ ToRead = {} /\ ~userMenu /\ ~(rd.failed /\ rd.first)
    /\ posted' = Reported /\ GoToSleep("waiting", asked /\ work)
    /\ UNCHANGED <<flag, work, valid, userMenu, mainOnly>>

Reader ==
    \/ WaitForWork \/ Invalidate \/ EnterSection("entering", "deciding")
    \/ NewWork \/ NoNewWork \/ StopAtOnce \/ StartWork \/ BackFromCheck \/ SetUp
    \/ GiveUp \/ (\E i \in Items : Call(i)) \/ ReturnTooLate \/ Return
    \/ (\E result \in {"read", "old", "failed"} : Store(result)) \/ NextItem \/ Restart
    \/ Pause \/ PauseWait \/ EndPause \/ SecondRound \/ Finish

-----------------------------------------------------------------------------
(* The main thread: SleepIconCacheThread and WakeupIconCacheThread *)

SleepSteps == <<"interrupt", "stop", "reset", "pass", "passThumbs">>
WakeSteps == <<"start", "signal", "clear">>

MainAt(step) == main.todo # <<>> /\ Head(main.todo) = step
MainIdle == main.todo = <<>>
MainGoes(steps) == main' = [Idle EXCEPT !.todo = steps]
Next1 == main' = [main EXCEPT !.todo = Tail(@)]

Interrupt ==
    /\ MainAt("interrupt")
    /\ icSleep' = TRUE /\ Next1
    /\ UNCHANGED <<flag, icStopWork, work, valid, posted, readerOnly, delayed, module,
                   asleep, asked, mishaps, events>>

Stop ==
    /\ MainAt("stop")
    /\ icStopWork' = TRUE /\ Next1
    /\ UNCHANGED <<flag, icSleep, work, valid, posted, readerOnly, delayed, module,
                   asleep, asked, mishaps, events>>

Reset ==
    /\ MainAt("reset")
    /\ work' = FALSE /\ Next1
    /\ UNCHANGED <<flag, icSleep, icStopWork, valid, posted, readerOnly, delayed, module,
                   asleep, asked, mishaps, events>>

\* fault: the flag is left set although nobody is there to clear it
StaysSet == TRUE

SleepFlag == icWorking

Pass ==
    /\ MainAt("pass") /\ ~section
    /\ icSleep' = SleepFlag /\ Next1
    /\ UNCHANGED <<flag, icStopWork, work, valid, posted, readerOnly, delayed, module,
                   asleep, asked, mishaps, events>>

PassThumbs ==
    /\ MainAt("passThumbs") /\ ~thumbSection
    /\ asleep' = TRUE /\ Next1
    /\ UNCHANGED <<flag, icSleep, icStopWork, work, valid, posted, readerOnly, delayed,
                   module, asked, mishaps, events>>

Start ==
    /\ MainAt("start")
    /\ icStopWork' = FALSE /\ asleep' = FALSE /\ Next1
    /\ UNCHANGED <<flag, icSleep, work, valid, posted, readerOnly, delayed, module,
                   asked, mishaps, events>>

Signal ==
    /\ MainAt("signal")
    /\ work' = TRUE /\ asked' = TRUE /\ mishaps' = {} /\ Next1
    /\ UNCHANGED <<flag, icSleep, icStopWork, valid, posted, readerOnly, delayed, module,
                   asleep, events>>

Clear ==
    /\ MainAt("clear")
    /\ posted' = 0 /\ Next1
    /\ mishaps' = IF posted > 0 /\ ~asked THEN {"unreported"} ELSE mishaps
    /\ UNCHANGED <<flag, icSleep, icStopWork, work, valid, readerOnly, delayed, module,
                   asleep, asked, events>>

-----------------------------------------------------------------------------
(* The main thread: what it does meanwhile *)

\* ReadDirectory: a new listing and a new cache; the plug-in is loaded for it
ReadDirectory ==
    /\ MainAt("read")
    /\ flag' = [i \in Items |-> "new"] /\ valid' = FALSE /\ posted' = 0
    /\ need' = FALSE /\ thumbs' = TRUE /\ plugin' = TRUE /\ careless' = FALSE /\ Next1
    /\ UNCHANGED <<icSleep, icStopWork, work, readerOnly, needOverlays, refreshPosted,
                   asleep, asked, mishaps, events>>

\* RefreshDirectory: what the old cache had; nothing is read when it was complete
\* and the listing is the same
Transferred(same) ==
    [i \in Items |-> IF main.flag[i] = "new" \/ (same /\ main.flag[i] = "read")
                      THEN main.flag[i] ELSE "old"]

TakeOldIcons(same) ==
    /\ MainAt("transfer")
    /\ flag' = Transferred(same)
    /\ IF same /\ main.valid
       THEN /\ valid' = TRUE /\ main' = Idle
            /\ mishaps' = IF rd.pc = "woken" THEN {"notWoken"} ELSE mishaps
            /\ asked' = FALSE
       ELSE /\ MainGoes(WakeSteps)
            /\ UNCHANGED <<valid, mishaps, asked>>
    /\ UNCHANGED <<icSleep, icStopWork, work, posted, readerOnly, delayed, module, asleep,
                   events>>

RefreshSteps == SleepSteps \o <<"read">> \o WakeSteps \o SleepSteps \o <<"transfer">>

Refresh ==
    /\ main' = [todo |-> RefreshSteps, flag |-> flag, valid |-> valid]
    /\ UNCHANGED mishaps

\* a refresh of a network directory waits until the icons are read
RefreshOrPutOff ==
    IF valid
    THEN Refresh /\ UNCHANGED need
    ELSE main' = Idle /\ need' = TRUE /\ UNCHANGED mishaps

UserDoes ==
    /\ MainIdle /\ events < MaxEvents /\ events' = events + 1
    /\ UNCHANGED <<flag, flags, valid, posted, readerOnly, asleep, asked>>

DirectoryChanged ==
    /\ UserDoes /\ RefreshOrPutOff
    /\ UNCHANGED <<needOverlays, module>>

ChangePath ==
    /\ UserDoes /\ MainGoes(SleepSteps \o <<"read">> \o WakeSteps)
    /\ need' = FALSE /\ needOverlays' = FALSE
    /\ UNCHANGED <<module, mishaps>>

\* sorting, comparing of directories, new colours
Rearrange ==
    /\ UserDoes /\ MainGoes(SleepSteps \o WakeSteps)
    /\ UNCHANGED <<delayed, module, mishaps>>

\* IconOverlaysChangedOnPath
OverlaysChanged ==
    /\ UserDoes
    /\ IF valid THEN MainGoes(SleepSteps \o WakeSteps) /\ UNCHANGED needOverlays
                ELSE needOverlays' = TRUE /\ UNCHANGED main
    /\ UNCHANGED <<need, module, mishaps>>

\* QFApply: the reader is woken again only when it was running
WakeReader == ~icStopWork /\ ~valid

Filter ==
    /\ UserDoes
    /\ MainGoes(SleepSteps \o (IF WakeReader THEN WakeSteps ELSE <<>>))
    /\ mishaps' = IF asked /\ ~WakeReader THEN {"notWoken"} ELSE mishaps
    /\ UNCHANGED <<delayed, module>>

\* CanUnloadPlugin: the reader is stopped only when it may still need the plug-in
MustSleep == thumbs /\ ~valid

UnloadPlugin ==
    /\ UserDoes /\ plugin
    /\ IF MustSleep
       THEN MainGoes(SleepSteps \o <<"unload">>) /\ UNCHANGED <<plugin, careless>>
       ELSE plugin' = FALSE /\ careless' = (careless \/ valid) /\ UNCHANGED main
    /\ UNCHANGED <<delayed, thumbs, refreshPosted, mishaps>>

Unload ==
    /\ MainAt("unload")
    /\ plugin' = FALSE /\ thumbs' = FALSE /\ refreshPosted' = TRUE /\ asked' = FALSE /\ Next1
    /\ UNCHANGED <<flag, flags, valid, posted, readerOnly, delayed, careless, asleep,
                   mishaps, events>>

HandlePostedRefresh ==
    /\ MainIdle /\ refreshPosted
    /\ refreshPosted' = FALSE /\ Refresh
    /\ UNCHANGED <<flag, flags, valid, posted, readerOnly, delayed, thumbs, plugin, careless,
                   asleep, asked, events>>

\* WM_USER_ICONREADING_END
HandleEnd ==
    /\ MainIdle /\ posted > 0
    /\ posted' = posted - 1 /\ valid' = TRUE
    /\ need' = FALSE /\ needOverlays' = (need /\ needOverlays)
    /\ MainGoes(IF need THEN <<"delayed">>
                ELSE IF needOverlays THEN SleepSteps \o WakeSteps ELSE <<>>)
    /\ UNCHANGED <<flag, flags, readerOnly, module, asleep, asked, mishaps, events>>

DelayedRefresh ==
    /\ MainAt("delayed")
    /\ RefreshOrPutOff
    /\ UNCHANGED <<flag, flags, valid, posted, readerOnly, needOverlays, module, asleep,
                   asked, events>>

MainSteps ==
    \/ Interrupt \/ Stop \/ Reset \/ Pass \/ PassThumbs \/ Start \/ Signal \/ Clear
    \/ ReadDirectory \/ (\E same \in BOOLEAN : TakeOldIcons(same)) \/ Unload
    \/ HandlePostedRefresh \/ HandleEnd \/ DelayedRefresh

User == \/ DirectoryChanged \/ ChangePath \/ Rearrange \/ OverlaysChanged \/ Filter
        \/ UnloadPlugin

Next == Reader \/ UserMenuRead \/ MainSteps \/ User

Spec == Init /\ [][Next]_vars

\* both threads go on, calls of the shell and of plug-ins return, and the icons
\* of the user menu are read some day
FairSpec == Spec /\ WF_vars(Reader) /\ WF_vars(UserMenuRead) /\ WF_vars(MainSteps)

-----------------------------------------------------------------------------
(* Properties *)

Places == {"waiting", "woken", "entering", "deciding", "starting", "checking", "settingUp",
           "choosing", "calling", "storing", "stored", "pausing", "paused"}

(* The variables have their types; the reader is at one of its places and   *)
(* neither waits for work nor begins it with a section or with ICWorking.   *)
TypeOK ==
    /\ flag \in [Items -> {"new", "old", "read"}]
    /\ {icSleep, icWorking, icStopWork, work, section, thumbSection, valid, userMenu, need,
        needOverlays, thumbs, plugin, refreshPosted, asleep, asked, careless}
       \subseteq BOOLEAN
    /\ mishaps \subseteq Mishaps
    /\ posted \in Nat /\ events \in 0 .. MaxEvents
    /\ rd.pc \in Places /\ rd.item \subseteq Items /\ rd.done \subseteq Items
    /\ {rd.first, rd.failed, rd.thumbs, rd.woken} \subseteq BOOLEAN
    /\ rd.pc \in {"waiting", "woken", "entering"} => ~section /\ ~thumbSection /\ ~icWorking

(* While the main thread owns the listing and the icon cache (from the      *)
(* return of SleepIconCacheThread to WakeupIconCacheThread) the reader is   *)
(* not at work with them: it neither looks for the next item nor stores     *)
(* what a call has returned.  Not covered: the preparation of a round,      *)
(* which does not look at ICSleep after the test for a root of cloud files. *)
ReaderKeepsOff == rd.pc \in {"choosing", "storing", "stored"} => ~asleep \/ rd.done = {}

(* A plug-in asked for a thumbnail is loaded, unless it was unloaded when   *)
(* the icons counted as read.                                               *)
LoaderIsLoaded == rd.pc = "calling" /\ rd.item \subseteq Thumbnails => plugin \/ careless

(* SleepIconCacheThread returns. *)
SleepReturns == MainAt("pass") ~> asleep

(* A reader that was woken reads the whole listing (or is told to do        *)
(* something else).  The exception: IconCacheValid was                      *)
(* TRUE from an earlier reading when the main thread looked whether it has  *)
(* to wake the reader again, and nobody has woken it since.                 *)
IconsAreRead == asked ~> (~asked \/ "notWoken" \in mishaps)

(* A delayed refresh is made when the reading ends - but for two cases, in  *)
(* which it is not made until the reader is woken for another reason: the   *)
(* message of the end came before WakeupIconCacheThread removed the old     *)
(* ones and was removed with them, or the reader was stopped and not woken  *)
(* because IconCacheValid was TRUE from an earlier reading.                 *)
DelayedRefreshIsMade == need ~> (~need \/ mishaps # {})

=============================================================================
