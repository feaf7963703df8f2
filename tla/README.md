# Tandem Commander: TLA+ models, checks and proofs

Tandem Commander is a two-panel file manager for Windows (C++, no frameworks,
descended from Open Salamander).  Most of its 11 000 files are user interface,
formats and plug-ins.  This project models the parts whose correctness depends
on the order in which threads, posted messages and the kernel do things, checks
them with TLC on small instances and proves the most important invariants with
TLAPS for instances of any size.

    AsyncCopy.tla          copying one file with overlapped I/O
    OperationsQueue.tla    the queue of running copy and move operations
    ProgressDialogs.tla    the dialogs of those operations; uses OperationsQueue
    DiskCache.tla          temporary copies of files shared by threads
    DiskCacheProofs.tla    theorems about DiskCache
    ThreadQueue.tla        the threads of a plug-in and their end
    Snooper.tla            watching directories and refreshing the panels
    PanelView.tla          what refreshing promises; Snooper implements it
    SafeReplace.tla        putting a complete file in the place of another
    Convert.tla            two callers of it; uses SafeReplace
    IconReader.tla         the thread that reads icons, and its panel
    TaskList.tla           the running instances and their commands
    Filters.tla            taking elements out of a list, as a recursive function;
                           used by ThreadQueue, Convert and TaskList
    AsyncCopyProofs.tla, ProgressDialogsProofs.tla, ThreadQueueProofs.tla,
    SnooperProofs.tla, ConvertProofs.tla, IconReaderProofs.tla,
    TaskListProofs.tla     theorems about the modules of these names

To check: `tlc -workers 2 -config DiskCache_share.cfg DiskCache`, and so on for
each `<module>_<run>.cfg`; `tlapm DiskCacheProofs.tla`, and so on for each
`<module>Proofs.tla`.
`PROJECT.json` lists the runs, the lines each definition stands for, the hazards
and what the runs found.

## 1. Inventory

Everything below is under `src/src/`.

### Components that are modelled

**Copying one file** (`worker.cpp` 3540-4516 and 4642-5119).  *State*: a context
with up to 8 blocks (free, reading, testing for the end of the file, read,
writing, discarded), counters of them, ReadOffset, WriteOffset, ReadingDone,
ForceOp; the operations in flight; the source and the target.  *Operations*:
start a read, start a write, take a finished operation, discard what was read
behind the end of the file, wait for the oldest operation; after an error take
over or drop every block, ask the user, reopen the files, check the tail of the
target and continue, or start again; at the end trim and test a pre-allocated
target and close it.  *Interaction*: the kernel completes operations in any
order; the progress dialog sets CancelWorker; another program may resize the
source.  *Hard*: short reads and reordered completions, an error while other
pieces are in flight, Cancel between issuing an operation and recording it.
*Correct means*: the target gets every unit of the source at its place and
nothing else, no buffer is used twice, an abandoned copy leaves no file or, when
that cannot be deleted, its written beginning, the loop ends.

**Queue of operations and progress dialogs** (`worker.cpp` 8787-8945,
`dialogs.cpp` 355-1515, `salamdr6.cpp` 1409-1422).  *State*: a list of dialogs,
each running, paused automatically or paused by the user; per dialog its
messages, the button, the event the worker waits for, CanClose/AcceptCommands.
*Operations*: start, end, pause, resume, "wait until all other operations are
finished", cancel with a question, minimize, restore, cancel all at shutdown.
*Interaction*: each dialog has a thread; the queue is shared and posts
CM_RESUMEOPER to the next dialog; the worker is a third party that waits for an
event.  *Hard*: a posted command is handled later, in another state; message
boxes and menus run a loop inside a handler; minimizing throws messages away.
*Correct means*: the queue agrees with the dialogs, somebody always goes on,
Cancel and shutdown get through.

**Disk cache** (`cache.cpp`, `cache.h`, `common/salcacheedit.h`; callers in
`zip.cpp`, `fileswn5.cpp`, `fileswn6.cpp`, `viewer.cpp`).  *State*: per name a
record with the number of requests (NewCount), the locks, the edit pin, the
flags Cached, Prepared and OutOfDate, and a mutex; a one-place box; the arrays
of a watching thread; the idle protocol.  *Operations*: GetName (which may wait
for another thread), NamePrepared, AssignName, ReleaseName, FlushCache,
WaitForIdle, and the passes of the watching thread.  *Interaction*: everything
is a monitor except the wait for the mutex, the wait for the box and the
watching thread's wait for locks.  *Hard*: what was read before such a wait is
used after it.  *Correct means*: no record is deleted under its users, every
lock is watched, one thread fills a copy, an edited copy is kept, a flushed one
is not served, WaitForIdle says the truth and returns.

**Threads of plug-ins** (`plugins/shared/auxtools.cpp`).  *State*: a list of
thread handles with lock counts, under a critical section.  *Operations*: start
a thread, wait for one, terminate one, stop all.  *Interaction*: every thread of
the plug-in may do each of them, the main thread stops all before the DLL is
unloaded.  *Hard*: a thread ends, is terminated or is started while the list is
walked; handles are closed and their values used again.  *Correct means*: nothing
runs when the plug-in is unloaded, and who waits keeps the handle he waits for.

**Directory watcher and refreshing** (`snooper.cpp`, the refresh messages of
`fileswnb.cpp`, suspending in `fileswn2.cpp` and `salamdr3.cpp`).  *State*: arrays
of notification handles, five events, a counter of suspensions, messages to the
panels, postponed refreshes.  *Interaction*: the thread lends the arrays to the
main thread and takes them back; a change becomes a message, a message a
refresh.  *Hard*: the thread waits in three places, in each of which the main
thread may want something; messages may be older than the listing.  *Correct
means*: no change is lost, the main thread never waits for ever.

**Replacing a file** (`common/salsafereplace.h`; callers in `worker.cpp` and
`salamdr2.cpp`).  *State*: the two files, the attributes taken away for a moment,
what has failed.  *Hard*: each call of the system may fail, one half way, and
other programs remove and create files in between.  *Correct means*: the old or
the new content survives under one name, the answer is true.

**Icon reader** (`fileswn1.cpp`, refreshes in `fileswn0.cpp`, `fileswnb.cpp`).
*State*: three flags and an event written by two threads without a lock, two
sections, the state of each item, whether the icons count as read.  *Hard*: calls
of the shell and of plug-ins take long and run outside of the section; the panel
changes path, listing and plug-ins meanwhile.  *Correct means*: the reader keeps
off while the main thread owns the listing, it reads everything, no unloaded
plug-in is called, a postponed refresh is made.

**List of instances** (`tasklist.cpp`; the main thread's part in `salamdr1.cpp`,
the dialog in `dialogs5.cpp`).  *State*: a list and one command in shared memory
under a mutex, two events, per process a control thread.  *Hard*: one pair of
events serves all commands; time-outs race late answers; processes die or fail
to join.  *Correct means*: a command is carried out by its addressee, once; the
answer is true; who is gone disappears.

### Components that are not modelled

| Component | State and operations | Hard behaviour | What makes it correct |
|---|---|---|---|
| Synchronous copy, move, delete (`worker.cpp`) | script of operations, error dialogs with skip-all flags | a retry continues an unfinished target | the tail of the target is checked before appending |
| Overwriting by a copy (`safefile.cpp`, `salmoveback.h`) | temporary name, backup, rename | one step of several fails | the old or the new file survives |
| Delete manager (`cache.cpp` 1520-1790) | queue of names, a message to the main window | unloading a plug-in waits for the queue | each copy is deleted once, by its plug-in |
| Update check (`updcheck.cpp`) | a thread, a schedule in the registry | the dialog closes before the answer | one check at a time |
| Panel tabs (`paneltabs.cpp`, `common/saltabs.cpp`) | list of tabs, active one, locks | none (sequential) | the active tab exists; a locked tab keeps its path |
| WebView2 host (`common/webhost`) | shared environment, pending callbacks, keeper thread | a window is destroyed before its callback | no callback reaches a dead window |
| Find (`find.cpp`, `finddlg1.cpp`) | search thread, found files | Stop while the thread reports | results are complete up to the stop |
| Plug-in manager (`plugins*.cpp`) | loaded plug-ins, nested calls | unloading from inside a call | a plug-in in use is not unloaded |
| SFTP and FTP plug-ins | connections, queues of operations, workers | answers late, lost or to an abandoned request | every item ends done, failed or waiting for the user |
| Shell integration, configuration, packers, viewers, archive plug-ins, text helpers, support libraries, installer, vendored code | | | left to unit tests (`saltests`), outside the repository, or third-party |

## 2. Plan

1. *Done*: `AsyncCopy`, `OperationsQueue` with `ProgressDialogs`, `DiskCache`,
   `ThreadQueue`, `Snooper` with the abstract `PanelView` it implements, `SafeReplace` with `Convert`, `IconReader`, `TaskList`.
2. `DeleteManager`, composed with `DiskCache` through its promise (a queued name
   is deleted later), and the unloading of a plug-in
   (PluginMayBeUnloaded, PrematureDeleteByPlugin).
3. `CloseApp`: closing the program over open dialogs, viewers and plug-ins.
4. `UpdateCheck`, `WebHost`, `SftpQueue`; `PanelTabs` as pure operators against a
   reference definition.
5. Abstract specifications.  `FileCopy` (an atomic copy that ends done, skipped
   or cancelled) implemented by AsyncCopy; `TempFiles` (a copy exists while
   somebody has a link to it) implemented by DiskCache.
6. Theorems.  *Done*: those of section 12, which state every invariant and every
   action property that the passing runs check.  Left: the type invariants of
   AsyncCopy and IconReader; liveness is out of reach.

Recursive definitions that the proved modules need are recursive functions or
folds; runs keep to at most three actors of a kind and five minutes.

Each module has a `TypeOK`.  They were all checked with TLC on the instances of
the runs while the modules were written; the runs that are kept spend their time
on the other properties.

## 3. AsyncCopy

*Correspondence.*  `pc` is the place of the worker in DoCopyFileLoopAsync or in
the code of DoCopyFile that follows it; `ctx` is CCopy_Context, with `issued`
(the blocks in flight, oldest first) for BlockTime; `io[i]` is the operation in
the kernel for block i, which may differ from what `ctx` thinks of it; a unit of
data is a number, so that `tgt[u] = u` says the target has the right unit, and a
buffer with data of another offset than it is written to gives `Misplaced`.  One
action is one call or one branch of the loop: `StartReading`, `ReadDone`,
`WriteDone` and so on; `RetryReading` and `RetryWriting` are RetryCopyReadErr
and RetryCopyWriteErr with CheckTailOfOutFile as `TailIsRight`.  Errors are
either device errors or the "aborted" result of a cancelled operation.

*Abstracted*: a block has `limit` units, which stands for the buffer size the
code changes after each measured second; the tail that is compared after
reopening has `TailMin` units; the progress display, speed limit and throttling
are left out.  A unit read from a source that was resized has the content of its
offset.  `SkipAlls` holds the "Skip all" answers that earlier files of the
operation may have left behind: `AsyncCopy_read` starts with none and with that
for read errors.  The test of allocation fails if the size of the target is not
what was written, or if the question for that size fails.

*What may fail.*  With `ReadErrors` and `WriteErrors`: every read and write, at
once or later, a write also by writing less than it was told; opening a file
again, in whose way the target may already have been cut off and closed
(`ReopenFails`); trimming, testing and closing the target.  `SalDeleteFile`, whose
result nobody looks at, may delete the target or leave it, cut off at the written
part or not (`Abandon`, `TargetStays`).  If the target is still there when the
copy starts again, creating it fails and the user is asked whether to overwrite
it: the model ends there with the result "exists" (`CopyAgain`).

*Runs* (the first lines of each cfg say what it is for):

| run | what may happen | shows |
|---|---|---|
| AsyncCopy_read | one read error, every answer, two resizes, a changing buffer size, test of allocation | order of blocks; discarding behind the end of the file; what is reported as copied is complete |
| AsyncCopy_write | two errors of reading or writing (also in reopening, trimming, deleting, closing), writes cut short, Cancel at any time | no buffer reused while in use; everything read is written; however the copy ends, its buffers are free and a target that stays has every unit counted as written (`EndIsOrderly`); the copy ends |
| AsyncCopy_lost (violation) | one write error, and Retry, after the source was read whole; the target is pre-allocated | data dropped to be "read again later" is not read again: the target is cut off before it and the copy is reported as done |

*Bounds.*  Three blocks are enough for one being written, one read and one being
read, for a short read with another behind it, and for the rule that half of
them may read; `MaxLen` is one unit more than the blocks hold in the run with
resizes; the run with write errors has five units in blocks of two, so that a
write cut short leaves a part of a block before a block that is whole and one that
is short; one error leads through every answer and through a continuation, two
through a retry of a retry.  Fairness: the worker thread runs
whenever it is not waiting, and the kernel finishes what it accepted.  Nobody has
to answer in a particular way, but a dialog is answered; `MaxErrors` bounds how
often Retry can be pressed in vain.  The run for liveness therefore says nothing
of a user who retries for ever.

*Observation.*  A target that was not pre-allocated is not truncated when its
source shrinks between a write error and the retry, so it may end longer than
`operationDone`; with a resized source no version of the file is a reference, so
`ReportedCopyIsComplete` claims the exact length only without a resize.

## 4. OperationsQueue and ProgressDialogs

*Correspondence.*  `queue` is OperDlgs and OperPaused; its methods run under
QueueCritSect and are operators.  A dialog handles one message of `msgs[d]` at a
time.  `setting[d]` is the moment in CM_RESUMEOPER between driving the dialog
and OperationsQueue.SetPaused, `nested[d]` the loop of a message box or a menu
inside a handler, `notSuspended[d]` the event WorkerNotSuspended, `showPause[d]`
what the button shows.  `worker[d]` is told apart only as working and done: it
stops wherever it waits for the event.

*Runs.*

| run | shows |
|---|---|
| ProgressDialogs_queue | three operations, pause, cancel, minimize and the drop-down menu, under which resumes arrive: a paused worker is suspended, somebody will resume |
| ProgressDialogs_cancel | a confirmed Cancel ends the operation, also at shutdown |

*Bounds.*  Three dialogs: one ends, one is resumed, one is started or ends in
between.  `MaxClicks` counts the clicks of the user on all dialogs; three are enough
for a menu in one, pausing or cancelling another and minimizing either.  *Fairness*:
a dialog thread handles its messages, a worker that is not suspended finishes, an
open question or menu is answered.  Clicking is not fair.  In
`ProgressDialogs_cancel` the user does not minimize and no operation waits for
others, because minimizing breaks the property (section 11, item 6).  Deadlock is not
checked: when all operations have ended nothing has to happen.

## 5. DiskCache

*Correspondence.*  `rec[n]` is the CCacheData of a name, or None; a client is a
thread, at one place of `at[c]`:

    out --GetName--> blocked --mutex--> entering --monitor--> filling or using
    filling --NamePrepared--> using     filling, using --ReleaseName--> out
    using --WaitForBox--> boxing --AssignName--> out
    out --SetEvent(lock)--> unlocking --> asking --> waiting --> out   (WaitForIdle)

The watching thread (`watcher`) goes through its handles in parts of
MAXIMUM_WAIT_OBJECTS: three control handles, then the locks in `watched`.
`HandleFound` takes the box over, or takes a pair out of the arrays into `hand`;
`WaitSatisfied` is the part inside the monitor.  `BeginPass`, `NextPart` and
`EndPass` carry the idle protocol (0 empty, 1 asked, 2 checking, 3 answered).
Each action contains the room making (`Settle`, `Evicted`) that the code calls
at its end.

*Abstracted*: a prepared copy has size 1; times are ranks; the directories under
TEMP are one; `old` is a history variable, set when a flush hits a copy that
stays.  The delete manager is its promise: `queued`, then `DeleteTmpCopy`.  A
viewer is a lock that is set once and then signalled; a panel's lock is its
ExecuteAssocEvent, which the main thread sets and resets with WaitForIdle.

*Want of memory.*  With `LowMemory`, which both runs set, the arrays may not grow:
`WaitForBox` refuses a lock for that reason, and ReceiveBox may still fail for a
lock it has let in (`ReceiveBoxFails`).  That lock is watched nowhere, and the
watching thread stands still on purpose ("stuck").  `LocksAreWatched` counts such a
lock as in the thread's hand; `ClosedViewersLetGo` and `WaitForIdleReturns` name
the state as an exception, because nobody lets go of anything in it and
WaitForIdle, which waits without a limit, does not return (section 11).

*Runs.*

| run | instance | shows |
|---|---|---|
| DiskCache_share | two threads, one copy, a panel, a viewer, plug-in deletion, arrays that may not grow | counts, mutex, watching thread, edit pins, idle answers |
| DiskCache_panels | two panels edit, one viewer, parts of one lock, arrays that may not grow | several edit locks on one copy with flushes between them; closed viewers let go, WaitForIdle returns |

*Bounds.*  Sharing is about one name: two names interact only in room making
and in the arrays (`MaxWait` = 3, so one lock per part:
the code's 64 with 61 locks behave the same, only later).  Two clients are
enough to block and to be blocked; one of them is the main thread because only
it has panels.  Nothing else is bounded: the sets of states are finite as they
are.  *Fairness* (`WatchedSpec`, the run `panels`): the watching thread
runs for as long as the program does (its priority is not lowered and it waits
for nothing but its handles and the monitor), and a thread inside WaitForIdle
takes its next step when it can.  Entering WaitForIdleCS is not fair, and
`WaitForIdleReturns` excepts executions in which locks are assigned for ever:
the pass restarts whenever a handle is found.  Deadlock is not checked: with
every client out and no lock held nothing has to happen.

## 6. ThreadQueue

*Correspondence.*  `queue` is the list from Head on, an item being named by its
thread; `handle[t]` is the value of the open handle, `locks[t]` the count of the
item.  Every actor (a thread of the plug-in, or the main thread) is at one place
of `pc`: StartThread waits with the section in "handing over", WaitForExit and
KillThread wait outside of it with an item locked, UnlockItem follows.  KillAll
goes "stopping", "walking" (inside the section, at `kill.item`), "sleeping"
(outside).  A callers' handle is any value of `Handles`, also one that was closed
and given out again.

*Abstracted*: StartThread never fails; exit codes; the sleep of 50 ms is the
count `kill.left`, of which any number may pass at once.  With an INFINITE waiting
time (`kill.endless`) there is no count: KillAll sleeps for as long as a thread
runs, as `auxtools.h` 90-91 says.

*Termination.*  KillThread may stop a thread anywhere.  One that is in a method or
about to enter one may be in the section at that moment (`MayBeInside`), which
then is its own for ever (`Terminate`): StartThread hands over in it,
FindAndLockItem and UnlockItem pass through it.  What a terminated thread had half
done in the section is not modelled, since nobody enters it to see.

*Run.*  `ThreadQueue_kill`: three threads, one of which may kill and two wait
for each other.  It shows that a locked handle belongs to the thread that was
locked (`LockedHandleIsKept`), that nothing runs when KillAll has said TRUE
(`UnloadingIsSafe`), and that KillAll returns: within its time, or with INFINITE
once all threads have ended, but not if a thread was terminated in the section
(`KillAllReturns` names both).  Three threads are the one that
waits, the one it waits for and one that is started or terminated meanwhile.
*Fairness*: Windows runs threads that are not waiting; the section is given to
KillAll at some time although others ask for it again and again (`SF`), which
the critical sections of Windows do not promise strictly, but threads are
created a bounded number of times.  Nobody need ever end or give a lock back.

## 7. Snooper and PanelView

*Correspondence.*  `sn.pc` is the place of the thread: the three waits
("watching", "refreshing" for the inner loop that waits for the end of a refresh,
"suspended"), the hand-over of the arrays ("giving", "taking") and what follows a
wait.  `main.todo` is what the handler of a message still has to do; a step that
changes the arrays asks for them, takes them, changes them and waits, each an
action.  MyTimeCounter is reduced to the one comparison the code makes: a message
is `newer` than the last refresh of its panel or not.  A handle is signalled
again ("more") when the directory changes before it was re-registered.  The
system bug the snooper works around (a call for one handle may clear another one
of the same path) is in `Clears`.

*Abstracted*: the end of the program, SharesEvent, the timer of an inactive
window, errors of CheckPath and of FindFirstChangeNotification, the helper thread
that closes handles, panels of archives; WM_USER_SM_END_NOTIFY and its timer of
200 ms are one; the delay for reading icons is in IconReader.

*Abstract specification.*  `PanelView` says all there is to promise: directories
become `stale` at any time, and a panel that is stale reads its directory after a
while.  Snooper implements it (`RefreshesAsPromised`, `INSTANCE PanelView WITH
stale <- dirty`), liveness included.

*Run.*  `Snooper_watch`: two panels with one network directory (the case in which
they depend on each other), three events, each a change, or a command that
suspends the snooper, refuses refreshes or lets a directory go.  *Fairness*: both
threads run when they are not waiting, and every command that began suspend mode
ends it.

## 8. SafeReplace and Convert

*Correspondence.*  `disk` holds the target and the temporary file; `replace` the
place in SalReplaceWithTempW and its locals.  Every call of the system is an
action with its outcomes: ReplaceFileW succeeds, fails, or fails with the target
already gone.  Between two calls other programs may remove either file or create
the target, unless an open handle forbids it (`Held`).  A crash needs no action:
`NothingLost` is claimed of every state.  `Convert` adds two callers: DoConvert,
which converts a file in blocks (`Translated`, with crlfBreak over the boundary),
and WriteExportedConfiguration, which may create its target.  The conversion is
compared with its definition on the whole file (`Converted`).

*Attributes.*  SalPathIsGoneW takes a file whose attributes cannot be read for
another reason than its absence for present (`LooksThere`), and nobody looks
whether the read-only attribute could be put back (`RestoreReadOnly`).  The history
`mishaps` remembers both, "misread" and "notRestored".  After the first, "kept" may
be the answer although ReplaceFileW has moved the target away, and the caller
deletes the temporary file: then `NothingLost` is claimed only until the caller has
ended.  `ResultIsTrue` says what the answer still means in each case.

*Abstracted*: characters are "cr", "lf" and others, a code page is `Code`; errors
of reading and the user's Skip and Cancel are `GiveUp`; the other callers
(`viewer3.cpp` 1802, `cfgimpdlg.cpp` 88, `plugins/sftp/operats.cpp` 722, the zip
and picture plug-ins) behave like one of the two.

*Run.*  `Convert_file`: all files of up to five characters in blocks of two, so
that a line end can be divided at two boundaries, and two steps of other
programs.  Two cases in which the target is spoilt are exempted and named by
`Spoilt` (section 11).

## 9. IconReader

*Correspondence.*  `rd.pc` is the place of the reading thread; `icSleep`,
`icWorking`, `icStopWork` and `work` are the variables both threads write without
a lock, `section` and `thumbSection` the two critical sections as held by the
reader.  `flag` is the icon cache.  The main thread's `SleepSteps` and `WakeSteps`
are the statements of SleepIconCacheThread and WakeupIconCacheThread, one action
each, because the reader may run between any two.  Between them it refreshes,
filters, rearranges, changes the path or unloads a plug-in.

*Abstracted*: a network directory with icons of the system; archives and file
systems of plug-ins; sleeps; what is visible, so the next item is any; posting
the end never fails; a plug-in that was unloaded is loaded again by the next
reading of a directory.

A call may deliver an icon, fail, or deliver a thumbnail of low quality, which is
asked for again in the same round (`Store`); a round in which names were skipped is
repeated and forgets what has failed (`EndPause`).

*Run.*  `IconReader_read`: an item of each kind (icon, thumbnail, overlay), two
commands.  *Fairness*: both threads go on, calls of the shell return, the icons
of the user menu are read at some time.

*Exempted*, because it goes wrong (section 11), is: the preparation of a round
(`rd.done = {}`) in `ReaderKeepsOff`; a plug-in unloaded without a look at the cache
(`careless`) in `LoaderIsLoaded`; and two mishaps, each remembered until the reader
is woken again.  "notWoken": the reader was stopped and not woken, because
IconCacheValid was still TRUE from an earlier reading; neither `IconsAreRead` nor
`DelayedRefreshIsMade` is claimed then.  "unreported": the message of the end was
removed with older ones; the delayed refresh then is not made until the next
reading.  So `DelayedRefreshIsMade` says that these are the only two ways to miss
one, not that none is missed.

## 10. TaskList

*Correspondence.*  `items` and the last of `requests` are the shared memory;
`call[p]` is FireEvent or ActivateRunningInstance of process p ("written",
"signalled", "sleeping"), `control[p]` its FControlThread.  `params`, `processed`
and `activated` are the hand-over to the main thread under CommandLineParamsCS,
`tasks[p]` the dialog with its timer.  An
instance whose main window was destroyed by somebody else sends a break to itself
(`WindowIsLost`, `mainwnd3.cpp` 7491-7512; the dialog sends none to its own line,
`ChosenInTasks`): its control thread ends the process, or its main thread goes on
sleeping, "frozen", when the call returns (`AfterCall`).  A command
is named by its TodoUID; the age of commands is the order in which they pass
TASKLIST_TODO_TIMEOUT (`expired`).

*Abstracted*: the first instance succeeds and creates the memory; no PID is used
again; all instances are of one class; TERMINATE acts like BREAK; the version
counter is the set `newer` of dialogs that are behind; lastTodoUID is not kept for
commands to others; a stay under the mutex is one step.  The 500 ms that a sender
waits longer than the addressee are taken to be enough for its answer (`TimeIsUp`):
nothing in the code makes sure of it, and without it an answer may come too late for
a sender that has given up, so what is said of answers and refusals rests on this
reserve.  The paste command of the shell extension, and a list left half changed by a
crash under the mutex, are left out.

*Run.*  `TaskList_commands`: three instances, of which one may leave or crash and
another may fail to join, a list with room for two, two commands.  Two commands
are one that overwrites another or meets its late answer.  *Fairness*: a sender
that waits goes on, an open dialog gets its timer.  `AnsweredMeansTaken` and
`RefusedMeansNotTaken` speak of commands that were alone (`Silence`), because the
events cannot tell answers apart (section 11).

## 11. Where the code and its comments disagree

`AsyncCopy_lost` refutes what a comment says: a retried asynchronous copy may lose
its tail.  Of three units, all read, unit 1 is written and its block free, the
write of unit 2 fails and that of unit 0 is cancelled.  CancelOpPhase2 goes back to
unit 0, keeps its block and drops that of unit 2, "too far ahead", to be read again
later (`worker.cpp` 3903-3907); but ReadingDone (4271) stays TRUE, and units 1 and
2 are not read again.  The retry writes unit 0, the pre-allocated target is cut off
behind it (4447), and the copy is reported as done (`PROJECT.json`, "findings").

The models show more, for which no run is kept; each was seen in a counterexample
of TLC, or is an outcome the model has an action for and the properties an
exception.

*AsyncCopy*

1. `worker.cpp` 3644 says CancelOpPhase2 "ensures that all asynchronous operations
   have really finished".  StartReading (3712) and StartWriting (3759) return FALSE
   when CancelWorker is set after the call was accepted and before BlockState is
   changed; that operation may still be in flight when DoCopyFile returns.
2. A target that was not pre-allocated is not truncated when its source shrinks
   between a write error and the retry (section 3).
   Nor does DoCopyFile look whether SalDeleteFile succeeded (4873, 4891): when it
   fails, the beginning of the file stays under the name of the whole, or in its
   length, with holes, when cutting it off failed too.

*Operations*

3. `worker.cpp` 8865: "if no operation is running and none was paused manually,
   resume the first one in the queue".  The CM_RESUMEOPER it posts is handled like
   the button, which toggles: posted twice, because a short operation began and
   ended in between, the second one pauses the operation, as paused by the user
   (`dialogs.cpp` 1444).
4. An operation that was told to resume is still auto-paused in the queue until
   its dialog has handled the message, so one added in between starts at once
   beside it (`worker.cpp` 8804; `worker.h` 264).
5. A resume that arrives before a waiting dialog has minimized itself is thrown
   away (`dialogs.cpp` 1490), and the operation waits for the user.  The ghost
   `lost` marks this, and `SomebodyWillResume` excepts it.
6. Minimizing a paused operation after its Cancel was confirmed resets the event
   and sets it again only for a running one (`dialogs.cpp` 1487, 1510): the worker
   stays suspended.
7. `consts.h` 1252 says that WM_USER_CANCELPROGRDLG cancels without asking, and
   `mainwnd3.cpp` 6741 waits without a limit for the dialogs to end.  Delivered
   while the dialog minimizes itself it finds CanClose FALSE (`dialogs.cpp` 1253)
   and does nothing.

*Disk cache*

8. A copy that a plug-in deletes is only queued (`cache.cpp` 136); the name may be
   filled again and NamePrepared make it valid (229) before the delete manager
   deletes it.  OwnDeletePlugin is NULL from then on (`cache.h` 68).
9. `ReleaseName` updates LastAccess only when it stores the copy, so the copy
   released last may be the one thrown out (`cache.cpp` 289, 1402).
10. A cached copy whose file has gone stays cached when filling it again is given
    up (`cache.cpp` 286).
11. A copy may be taken for filling although another caller has a request for it
    and assigns its lock then (`cache.cpp` 203, 251).
12. When the array of locks cannot grow, a copy may stay behind without links and
    not cached (`cache.cpp` 253).  When the array cannot grow for a lock that was
    let into the box (1055-1075), that lock is watched nowhere and the watching
    thread stands still (794-803): no link is dropped any more, and WaitForIdle
    waits INFINITE for an answer (its callers: `zip.cpp` 3283, `fileswn9.cpp` 1275,
    `fileswn2.cpp` 1385).

*Threads of plug-ins*

13. KillThread may terminate a thread inside any stay in the section, of
    StartThread, FindAndLockItem or UnlockItem; the section it owns is never free
    again (`auxtools.cpp` 171, 291-357).  `KillAllReturns` excepts it.
14. WaitForExit and KillThread look for a handle by its value; a caller that keeps
    a value after the item was deleted may meet another thread (`auxtools.h` 74-82
    leaves this to the caller).

*Refreshing*

15. An S_REFRESH_DIR that is skipped as old does not register the directory again;
    the newer refresh did (`fileswnb.cpp` 508).
16. After DBT_DEVICEQUERYREMOVEFAILED the directory is watched again without being
    read (`fileswnb.cpp` 187): what changed in between is not shown.
17. A RefreshFinishedEvent left over from an earlier refresh ends the next wait at
    once: only the throttling is lost.

*Replacing files*

18. `worker.cpp` 7579 says CR, LF and CR LF are ends of lines.  crlfBreak is not
    reset when the next block does not begin with LF (7716-7744), so a LF at the
    beginning of a later block is dropped.
19. After a short write, Retry writes the whole block again without going back
    (7766-7806; DoCopyFile does, 3330-3352): a part of it is in the file twice.
20. ReplaceFileW moves the target away and fails, another program creates the
    target: the check finds it there, the answer is srrFailedKept, and the caller
    deletes the temporary file.  Old and new content are gone
    (`salsafereplace.h` 26-31, 44).  It takes no other program: a target that was
    moved away and whose attributes cannot be read counts as present too (134-140;
    `worker.cpp` 7985-7986, `salamdr2.cpp` 3030).  And the read-only attribute taken
    away for the replacement may stay away, its return is not checked (268-269).

*Icons*

21. After the test for a root of cloud files (`fileswn1.cpp` 636-638) ICSleep is not
    looked at before lines 677-690 write.
22. WakeupIconCacheThread does not reset IconCacheValid: QFApply (`fileswn0.cpp`
    126), RefreshDirectory (3196, 3840) and CanUnloadPlugin may take an earlier
    reading for the present one ("notWoken").
23. The message that reports the end may be removed by the PeekMessage that follows
    the wake-up (1768-1770): refreshes of a network directory are put off until the
    next reading ("unreported").
24. CanUnloadPlugin does not stop the reader when the icons count as read
    (1787-1790), but a failed thumbnail is tried again later, through a loader that
    is gone (`fileswnd.h` 858-861; `careless`).

*Instances*

25. A highlight from the list of tasks overwrites an activation on its way, and its
    EventProcessed is taken by the new instance for its own answer: the instance
    ends and the paths of its command line are lost.  Likewise two starts at once.
26. A second sender's ResetEvent(EventProcessed) wipes out an answer: the instance
    starts although another has taken its paths.
27. Init returns in several places with the mutex in its hands (`tasklist.cpp`
    319-330); until that process ends all others time out.
28. Init calls RemoveKilledItems for a full list (347), which does nothing while OK
    is FALSE (706).
29. The timer of the dialog compares an uninitialized version when GetItems times
    out (`dialogs5.cpp` 3732) and may show an empty list.
30. A sender that crashes between SetEvent(Event) and ResetEvent leaves all control
    threads spinning at 50 ms.

## 12. Proofs

`DiskCacheProofs` proves, for any finite number of names and threads, any set of
panels and viewers and any room and part size:

| theorem | says |
|---|---|
| TypeCorrect | `TypeOK`; counts never go below zero, a missing record is never read |
| RequestsCounted | NewCount is the number of requests; a requested record exists |
| WatchedOwnersAlive | every pair the watching thread holds names a record that exists and has the lock |
| LocksWatched | every lock is in exactly one of box, arrays and hand; in the hand also when the thread stands still because it could not keep it |
| PreparerAlone | who fills a copy owns its mutex |
| EditPinCorrect | the invariant stated in `salcacheedit.h` |
| FlushedNotCached | a copy that predates a flush is not cached once unedited |

*Assumptions*: the named ones of `DiskCache` (finite sets of names and threads;
locks of viewers, panels and threads are different; None is a value of its own;
a part has room for a lock).  TLC evaluates them in every run.

*Argument.*  None of the properties is inductive alone.  The strengthening
`IInv` says in addition:

- each record is consistent (`RecordsAreOK`), including that a flush of an edited
  copy is remembered by StaleAfterEdit;
- NewCount equals the number of clients whose `name` it is, and a client has a
  name exactly at the places `Requesting`.  That is why a record cannot
  disappear while a client is outside the monitor: with NewCount above zero it
  is not unlocked, and only unlocked records are deleted;
- the box is a lock (`BoxIsExclusive`): at most one client is between WaitForBox
  and AssignName, and then the box is empty;
- the links of the records are exactly the pairs in box, arrays and hand
  (`LinksAreWatched`), each in one place (`PairsAreDistinct`).  A pair in the
  hand therefore names an owner that still has a link, which nobody else can
  take away.

Every action that changes a record is described by two lemmas: `Cleaned` (some
unlocked records are deleted, which is all room making does) and `Replaced` (one
record changes, others may be cleaned).  `RecordStep` derives the invariant from
them, so that the lemma of an action (`...Keeps`) only says which record it
writes and what happens to its count, its links and its mutex.  `NextKeeps` puts
the actions together, `Invariance` is the temporal step.  Before it was proved,
`IInv` was checked by TLC as an invariant of the instances `share` and `panels`,
and of one with two copies and room for one.

*What callers rely on* is proved on top of it in the same module.  `IdleIsUnlocked`
(`IdleMeansUnlocked`: when WaitForIdle is answered, no copy depends on a lock the
caller has set) adds that one client asks at a time and an answer is due to it
(`AskerIsAlone`), and that while Idle is 2 none of the handles already passed is
one the asker has set (`PassedIsIdle`), so that the pass that reaches the end has
looked at all.  `EditedKept` and `FlushedNotServed` (`EditedCopyIsKept`,
`FlushedCopyIsNotServed`) add that EditLocks is the number of locks of panels
(`EditsAreCounted`), so an edited copy is pinned; most steps are `Gentle`: they
leave the locks of a name alone, or delete it unlocked.

The other modules of proofs follow the same plan, each with one lemma per action
or kind of action, and no assumptions but the named ones of the module it is
about and those the table names.

### AsyncCopyProofs

Five invariants, each resting on the ones before it, for any number of blocks, any
sizes, errors, resizes and answers:

| theorem | says | invariant |
|---|---|---|
| DataInPlace, BuffersAreIdle | `NoMisplacedData`, `IdleBuffersAreIdle` | `IInv`: an operation writes the buffer it was issued with, and a finished read has filled its own (`Honest`); what the loop knows of a block agrees with its operation and its buffer (`Agrees`), except for a cancelled worker that handles an error and only leaves any more (`Going`).  Neither the order of blocks nor any counter is needed for these two: `TakenOver` says of CancelOpPhase2 only that it keeps no block but those read or written |
| BlocksStayInOrder | `BlocksInOrder` | `Order`: the context is `Laid` out, that is, its counters count the blocks and the blocks with data tile the file without a gap or an overlap from WriteOffset, or lie before it while they are written; each operation `Matches` its block.  What ContiguousEnd computes is characterised by the ends of data (`DataEnds`) that follow from one another without a gap |
| WrittenAndCounted | `EverythingReadIsWritten` | `Ended`: operationDone plus the units `InFlight` is WriteOffset; after an error was handled, and behind the loop, no block is in flight or left |
| CountedIsThere, EndIsInOrder | the first half of `ReportedCopyIsComplete`: what was counted of a copy reported as done is in the target; `EndIsOrderly` | `Complete`: every unit before WriteOffset is in the target at its place, or a write of it is still to finish (`WrittenUpTo`), through short writes, rewinds, the cutting off of a target that is closed and the check of the tail; a target left behind by whatever end has what was written (`LeftInOrder`) |
| CopyIsComplete | `ReportedCopyIsComplete` | `Whole`: as long as nobody resized the source, ReadingDone is set only at its end (`EndIsReached`), and no write goes behind it (`NotTooLong`).  Assumes that writing the target does not fail (`~WriteErrors`): with such errors the property is false, which is the finding of the run `AsyncCopy_lost`; the run that checks the property has the same setting |

### The others

| module | theorem | says | what the invariant adds |
|---|---|---|---|
| ProgressDialogsProofs | PausedIsSuspended | `PausedWorkerIsSuspended` for any number of dialogs | one "start" message per dialog and "end" only after its worker (`LifeInOrder`); a menu is open only over a dialog that is not minimized nor about to be (`MenuIsOnScreen`).  What other dialogs do to a dialog is to append messages; nothing about the queue is needed |
| | TypeCorrect, SomebodyGoesOn | `TypeOK`, `SomebodyWillResume` | the entries of the queue are different dialogs with a worker running or just ended (`Entrants`); a step of one dialog takes no `Hope` from another (a handler that will set its state, a cancelled or ended worker, a resume message), and who leaves the queue hands hope on |
| ThreadQueueProofs | TypeCorrect | `TypeOK`: the list repeats no thread | |
| | LocksProtect, UnloadingIsSafeAlways | `LockedHandleIsKept`, `UnloadingIsSafe` for any number of threads, waiters and killers | the locks of an item are the number of its holders (`LocksCounted`), so no item in use is removed; a running thread is in the list or about to be added (`RunningIsQueued`); what the walk of KillAll has passed has ended (`WalkedHaveEnded`) |
| SnooperProofs | DataIsHandedOver | `DataHandedOver` for any number of panels | a request for the arrays is in one of four stages (`Asked`, `Offered`, `Taken`, `Returned`), and the place of the main thread tells which; an order for suspend mode is one it waits for |
| | TypeCorrect, NothingIsMissed | `TypeOK`, `NoChangeIsLost` | where the reason to read a directory is at every moment (`Comes`): in a signal of the directory, with the snooper thread on its way to post, in a message no older than the last refresh, in a postponed refresh or in what the main thread has still to do; with SamePath there are two panels (assumed in `Snooper`), because the snooper remembers only one other handle |
| | StepsAsPromised | every step of Snooper is a step of `PanelView` or leaves its variable alone: the safety half of `RefreshesAsPromised` | that invariant |
| ConvertProofs | TypeCorrect, TargetStaysWhole, NothingIsLost, AnswerIsTrue | `TargetIsWhole`, `NothingLost`, `ResultIsTrue` for any file, block size, failure and interference | what has been written is the conversion of what was read, with a CR at the end of a block carried over (`DataIsConverted`, `SplitIsKnown`): the conversion of a concatenation is the concatenation of the conversions (`KeptConcat`) |
| | UnseenIsKept | `UnseenFileIsKept` | a caller that has seen no target replaces in one step, and only into a free place (`NewPlaces`) |
| IconReaderProofs | ReaderIsOff, PlugInIsLoaded | `ReaderKeepsOff`, `LoaderIsLoaded` for any listing | the place of the reader tells its sections and ICWorking (`PlaceTells`); after SleepIconCacheThread it has been told to stop and does no more work (`AsleepIsQuiet`); what the main thread still has to do follows in order (`Chained`: a pass over the items comes only after a reset, a reset only after a stop) |
| TaskListProofs | CommandsReachOnlyTheirAddressee | `OnlyAddresseeOnce` for any number of instances and commands | a control thread has passed what it has carried out (`DoneIsPassed`), and what it is about to carry out is its own and not done (`ControlsKnow`); nothing is left of an instance that is gone |
| | AnswersAreTrue, RefusalsAreTrue | `AnsweredMeansTaken`, `RefusedMeansNotTaken` | the control thread and the main thread agree on the command line between them (`ThreadsAgree`); the sender of an activation that is young enough to be taken still waits (`YoungIsAwaited`); of a command alone on its way nothing is done before Event is set (`AllAtRest`), and afterwards EventProcessed and the main thread of the addressee say the same, or the control thread is between them (`LastIsOnItsWay`) |
| | TypeCorrect | `TypeOK`: no instance is listed twice | the list holds only instances that have joined (`ItemsOK`) |

These theorems take each thread, lost mutex, timeout and crash of the models into
account; the runs show the same properties on the instances of sections 3 to 10.
The invariants of AsyncCopy and TaskList were checked by TLC on the instances of
their runs before they were proved.

*Induction over data.*  The induction theorems of the library take an operator as
a parameter and cannot be used; facts about recursive functions (`Kept`, sums of
lengths, lists of any length) are proved by a least counterexample instead: a set
of numbers that is not empty has a least element (`LeastElement`, from the
well-foundedness of < and `WFMin`).  What the definition of a recursive function
defines is shown in the same way (`RecursionExists`).  These few lemmas, and the
facts about `Kept`, are repeated where they are needed: each module of proofs
stands on the module of one component alone.  The lists of the models are
shortened by `Kept` of `Filters`, not by SelectSeq of the library, which cannot be
expanded in a proof.

*Only model-checked*: every liveness property (`CopyEnds`, `CancelGetsThrough`,
`MainThreadGoesOn`, `ClosedViewersLetGo`, `WaitForIdleReturns`, `KillAllReturns`,
`DelayedRefreshIsMade`, the liveness half of `RefreshesAsPromised`,
`SleepReturns`, `IconsAreRead`, `EndedInstanceDisappears`), which is out of
TLAPS's reach, as is ENABLED; the type invariants of AsyncCopy (its history
`issued` is tidied with SelectSeq) and IconReader; and ReportedCopyIsComplete
with errors of the target, which does not hold.

## 13. What is not modelled

Beyond the components of the table in section 1: in AsyncCopy the synchronous
fallback, alternate streams, attributes and overwriting, also the question whether
to overwrite a target that could not be deleted before the copy starts again; in
ProgressDialogs the worker's own dialogs, which only make it wait; in DiskCache the
end of the program (the watching thread gets one second and is terminated), plug-in
unloading, threads that die with a mutex (WAIT_ABANDONED), and the clearing of old
files in TEMP.
