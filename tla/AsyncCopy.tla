----------------------------- MODULE AsyncCopy -----------------------------
(***************************************************************************)
(* The asynchronous file copy of the operation worker: DoCopyFileLoopAsync *)
(* and its CCopy_Context (src/src/worker.cpp), with the part of DoCopyFile *)
(* that starts it, restarts it (COPY_AGAIN) and closes the files.          *)
(*                                                                         *)
(* The worker thread keeps up to Half reads of the source and Half writes  *)
(* of the target in flight over N buffers.  The kernel completes them in   *)
(* any order, at once or later, fully, short or with an error; the source  *)
(* may be resized by another program; the user may cancel at any time and  *)
(* answers the error dialogs.                                              *)
(*                                                                         *)
(* Files are sequences of units.  Unit o of the source is the number o, so *)
(* a target unit is right exactly when it holds its own offset; Misplaced  *)
(* is a unit of another place and Hole one nobody wrote.  Waiting for      *)
(* WorkerNotSuspended only delays a step, so it has no variable here (see  *)
(* OperationsQueue.tla).                                                   *)
(***************************************************************************)
EXTENDS Integers, Sequences, FiniteSetsExt

CONSTANTS
    N,             \* number of blocks (numOfBlocks, 8 in the code)
    MaxLen,        \* bound: longest source file, in units
    Sizes,         \* sizes of the file when the operation starts (op->FileSize)
    Limits,        \* values limitBufferSize can take, in units
    AllocModes,    \* values allocWholeFileOnStart may have when the copy starts
    SkipAlls,      \* values skipAll may have when the copy starts
    TailMin,        \* units CheckTailOfOutFile compares at least
    Answers,       \* what the user may answer in the error dialog
    MaxErrors,     \* bound: I/O errors of the environment
    MaxResizes,    \* bound: changes of the source length by others
    MayCancel,     \* TRUE: the user may press Cancel
    ReadErrors,    \* TRUE: what is done with the source may fail
    WriteErrors    \* TRUE: what is done with the target may fail

ASSUME CopyAssumption ==
    /\ N \in Nat \ {0} /\ MaxLen \in Nat \ {0}
    /\ Sizes \subseteq 1..MaxLen /\ Sizes # {}
    /\ Limits \subseteq 1..MaxLen /\ Limits # {} /\ IsFiniteSet(Limits)
    /\ AllocModes \subseteq {"test", "yes", "no"} /\ AllocModes # {}
    /\ SkipAlls \subseteq SUBSET {"read", "write"} /\ SkipAlls # {}
    /\ TailMin \in Nat /\ MaxErrors \in Nat /\ MaxResizes \in Nat
    /\ Answers \subseteq {"retry", "skip", "skipall", "cancel"} /\ Answers # {}
    /\ {MayCancel, ReadErrors, WriteErrors} \subseteq BOOLEAN

VARIABLES
    pc,            \* where the worker is
    scan,          \* the completion scan: index, pass (afterWriting), shouldWait
    ctx,           \* CCopy_Context
    io,            \* the OVERLAPPED operation of every block
    buf,           \* offset of the source data each buffer holds
    opSize,        \* op->FileSize, also the pre-allocated size
    fileSize,      \* size of the source as the loop knows it
    limit,         \* limitBufferSize
    opDone,        \* operationDone: bytes reported as copied
    wholeAlloc,    \* wholeFileAllocated
    allocMode,     \* allocWholeFileOnStart: "test", "yes", "no"
    err,           \* the error being handled
    out,           \* the target handle: "open" or "closed"
    srcLen,        \* current length of the source file
    tgt, tgtLen,   \* content and length of the target file
    cancel,        \* CancelWorker
    skipAll,       \* {"read", "write"}: SkipAllFileRead, SkipAllFileWrite
    result,        \* how DoCopyFile ended
    errors, resizes

env == <<srcLen, cancel, resizes>>
setup == <<opSize, wholeAlloc, allocMode, skipAll>>
vars == <<pc, scan, ctx, io, buf, opSize, fileSize, limit, opDone, wholeAlloc,
          allocMode, err, out, srcLen, tgt, tgtLen, cancel, skipAll, result,
          errors, resizes>>

Blocks == 1..N
Half == (N + 1) \div 2
Hole == -1
Misplaced == -2    \* a unit of the source at another place than its own
NoErr == [kind |-> "none", at |-> "loop", maxWO |-> 0]

InProgressStates == {"reading", "testing", "writing", "discarded"}
BlockStates == {"free", "read"} \cup InProgressStates
FreeBlk == [st |-> "free", off |-> 0, len |-> 0]
NoIo == [op |-> "none", off |-> 0, len |-> 0, st |-> "idle",
         res |-> "none", bytes |-> 0, abort |-> FALSE]

InProgress(c, i) == c.blk[i].st \in InProgressStates

-----------------------------------------------------------------------------
(* CCopy_Context: operators on the context record.                         *)

NewCtx ==
    [blk |-> [i \in Blocks |-> FreeBlk], forceOp |-> "none",
     readingDone |-> FALSE, free |-> N, freeIdx |-> 1, reading |-> 0,
     writing |-> 0, readOffset |-> 0, writeOffset |-> 0, autoRetry |-> 0,
     issued |-> <<>>]     \* BlockTime: blocks in flight, oldest first

\* keeps in "issued" only the blocks that still are in progress
Tidy(c) == [c EXCEPT !.issued = SelectSeq(@, LAMBDA i : InProgress(c, i))]

\* FreeBlock() on every block of S, in index order
FreeBlocks(c, S) ==
    Tidy([c EXCEPT
        !.blk = [i \in Blocks |-> IF i \in S THEN FreeBlk ELSE @[i]],
        !.free = @ + Cardinality(S),
        !.freeIdx = IF S = {} THEN @ ELSE Max(S),
        !.reading = @ - Cardinality({i \in S : c.blk[i].st \in {"reading", "testing"}}),
        !.writing = @ - Cardinality({i \in S : c.blk[i].st = "writing"})])

FreeBlock(c, i) == FreeBlocks(c, {i})

\* a finished read or write leaves its data in the block
KeepAsRead(c, S) ==
    Tidy([c EXCEPT
        !.blk = [i \in Blocks |-> IF i \in S THEN [@[i] EXCEPT !.st = "read"] ELSE @[i]],
        !.reading = @ - Cardinality({i \in S : c.blk[i].st \in {"reading", "testing"}}),
        !.writing = @ - Cardinality({i \in S : c.blk[i].st = "writing"})])

\* fault: a block read behind the end of the file is kept, only reads are discarded
KeepDataBehindEOF(c, size, exclude) ==
    LET S == {i \in Blocks \ {exclude} : c.blk[i].st = "reading" /\ c.blk[i].off >= size}
    IN  [c EXCEPT !.blk = [i \in Blocks |-> IF i \in S THEN [@[i] EXCEPT !.st = "discarded"]
                                                       ELSE @[i]],
                  !.reading = @ - Cardinality(S)]

DiscardBlocksBehindEOF(c, size, exclude) ==
    LET behind(st) == {i \in Blocks \ {exclude} : c.blk[i].st = st /\ c.blk[i].off >= size}
        d == [c EXCEPT
                !.blk = [i \in Blocks |-> IF i \in behind("reading")
                                          THEN [@[i] EXCEPT !.st = "discarded"] ELSE @[i]],
                !.reading = @ - Cardinality(behind("reading"))]
    IN  FreeBlocks(d, behind("read"))

\* fault: the end of the source ends the copy, whatever is still unwritten
DoneWhenAllRead(c) == c.readingDone

IsOperationDone(c) == c.readingDone /\ c.free = N

\* end of the data that follows offset "from" without a gap in the read blocks
ContiguousEnd(c, from) ==
    LET next(o) == {i \in Blocks : c.blk[i].st = "read" /\ c.blk[i].off = o}
        end[k \in 0..N] ==
            IF k = 0 THEN from
            ELSE LET o == end[k - 1]
                 IN  IF next(o) = {} THEN o
                     ELSE LET i == Min(next(o)) IN o + c.blk[i].len
    IN  end[N]

\* CancelOpPhase2: takes over what finished, rewinds to the unwritten data
CancelOpPhase2(c, ios) ==
    LET full(i) == ios[i].res = "ok" /\ ios[i].bytes = c.blk[i].len
        inSt(S) == {i \in Blocks : c.blk[i].st \in S}
        keep == {i \in inSt({"reading"}) : full(i)} \cup inSt({"writing"})
        lost == {i \in inSt({"writing"}) : ~full(i)}
        c1 == KeepAsRead(c, keep)
        c2 == FreeBlocks(c1, {i \in Blocks : InProgress(c1, i)})
        wo == Min({c.writeOffset} \cup {c.blk[i].off : i \in lost})
        ro == ContiguousEnd(c2, wo)
    IN  FreeBlocks([c2 EXCEPT !.writeOffset = wo, !.readOffset = ro],
                   {i \in Blocks : /\ c2.blk[i].st = "read"
                                   /\ c2.blk[i].off < wo \/ c2.blk[i].off > ro})

-----------------------------------------------------------------------------
(* The kernel: operations on the two files.                                *)

\* CancelIo on both files: what is pending may now end as aborted
CancelIo(ios) ==
    [i \in Blocks |-> IF ios[i].st = "pending" THEN [ios[i] EXCEPT !.abort = TRUE]
                                               ELSE ios[i]]

Available(off, len) == Min({len, Max({0, srcLen - off})})

GoodOutcome(r) ==
    IF r.op = "write" THEN [res |-> "ok", bytes |-> r.len]
    ELSE LET n == Available(r.off, r.len)
         IN  [res |-> IF n = 0 THEN "eof" ELSE "ok", bytes |-> n]

MayFail(op) == errors < MaxErrors /\ (IF op = "write" THEN WriteErrors ELSE ReadErrors)

\* a write that fails or is aborted may have written a part; the code takes a
\* short write ("other", too) for a full disk
BadOutcomes(r) ==
    [res : (IF r.abort THEN {"aborted"} ELSE {}) \cup
           (IF ~MayFail(r.op) THEN {} ELSE
               IF r.op = "read" THEN {"netname", "other"} ELSE {"other"}),
     bytes : IF r.op = "write" THEN 0..r.len - 1 ELSE {0}]

\* unit u of the target when operation r writes buffer i
Written(i, r, u) == IF buf[i] = r.off THEN u ELSE Misplaced

\* what finishing operation r of block i with outcome o does to buffer and file
Effect(i, r, o) ==
    /\ buf' = IF r.op = "read" /\ o.res = "ok" THEN [buf EXCEPT ![i] = r.off] ELSE buf
    /\ IF r.op = "write" /\ o.bytes > 0
       THEN /\ tgt' = [u \in 0..MaxLen - 1 |->
                         IF u \in r.off..r.off + o.bytes - 1 THEN Written(i, r, u)
                                                             ELSE tgt[u]]
            /\ tgtLen' = Max({tgtLen, r.off + o.bytes})
       ELSE UNCHANGED <<tgt, tgtLen>>
    /\ errors' = IF o.res \in {"netname", "other"} THEN errors + 1 ELSE errors

\* an operation of the kernel finishes
IoCompletes(i) ==
    /\ pc # "final"
    /\ io[i].st = "pending"
    /\ \E o \in {GoodOutcome(io[i])} \cup BadOutcomes(io[i]) :
          /\ io' = [io EXCEPT ![i].st = "done", ![i].res = o.res, ![i].bytes = o.bytes]
          /\ Effect(i, io[i], o)
    /\ UNCHANGED <<pc, scan, ctx, fileSize, limit, opDone, err, out, result, env, setup>>

\* another program writes to or truncates the source
ResizeSource ==
    /\ pc # "final" /\ resizes < MaxResizes
    /\ \E n \in 0..MaxLen : n # srcLen /\ srcLen' = n
    /\ resizes' = resizes + 1
    /\ UNCHANGED <<pc, scan, ctx, io, buf, fileSize, limit, opDone, err, out,
                   tgt, tgtLen, cancel, result, errors, setup>>

\* Cancel in the progress dialog
UserCancels ==
    /\ MayCancel /\ pc # "final" /\ ~cancel
    /\ cancel' = TRUE
    /\ UNCHANGED <<pc, scan, ctx, io, buf, fileSize, limit, opDone, err, out, srcLen,
                   tgt, tgtLen, result, errors, resizes, setup>>

-----------------------------------------------------------------------------
(* DoCopyFile: opening the files, COPY_AGAIN, closing them.                *)

\* state in which the copy loop starts on a new target; "alloc" tells whether
\* the target was extended to the size of the source first
FreshCopy(size, mode, alloc) ==
    /\ ctx' = NewCtx /\ io' = [i \in Blocks |-> NoIo] /\ buf' = [i \in Blocks |-> 0]
    /\ scan' = [i |-> 1, pass |-> 0, wait |-> TRUE]
    /\ fileSize' = size /\ limit' = Max(Limits) /\ opDone' = 0
    /\ alloc => mode # "no" /\ size > Max(Limits)
    /\ wholeAlloc' = alloc /\ allocMode' = mode
    /\ tgt' = [u \in 0..MaxLen - 1 |-> Hole] /\ tgtLen' = (IF alloc THEN size ELSE 0)
    /\ err' = NoErr /\ out' = "open" /\ pc' = "top"

\* SetEndOfFile at the written part, if the space was allocated; it may fail
TargetStays(cut, written) ==
    /\ cut => wholeAlloc /\ out = "open"
    /\ tgt' = [u \in 0..MaxLen - 1 |-> IF ~cut \/ u < written THEN tgt[u] ELSE Hole]
    /\ tgtLen' = IF cut THEN written ELSE tgtLen

Ends(r) ==
    /\ pc' = "final" /\ result' = r /\ out' = "closed" /\ err' = NoErr
    /\ UNCHANGED <<scan, buf, fileSize, limit, opDone, opSize, wholeAlloc, allocMode, env>>

\* COPY_ERROR and SKIP_COPY: both close the files and delete the target; nobody
\* looks whether it could be deleted
Abandon(r) ==
    /\ Ends(r)
    /\ \/ tgt' = [u \in 0..MaxLen - 1 |-> Hole] /\ tgtLen' = 0
       \/ WriteErrors /\ \E cut \in BOOLEAN : TargetStays(cut, ctx'.writeOffset)

\* goto COPY_AGAIN with the target deleted: everything is read again
ReadAgain(mode) ==
    /\ \E alloc \in BOOLEAN : FreshCopy(opSize, mode, alloc)
    /\ UNCHANGED <<opSize, skipAll, result, env>>

\* goto COPY_AGAIN; if the target could not be deleted, creating it fails there
\* and what follows is the question whether to overwrite it
CopyAgain(mode, cut) ==
    \/ ReadAgain(mode)
    \/ /\ WriteErrors /\ Ends("exists") /\ TargetStays(cut, ctx.writeOffset)
       /\ UNCHANGED <<ctx, io, skipAll>>

Init ==
    /\ opSize \in Sizes /\ srcLen = opSize /\ fileSize = opSize
    /\ allocMode \in AllocModes
    /\ \E alloc \in BOOLEAN :
          /\ alloc => allocMode # "no" /\ opSize > Max(Limits)
          /\ wholeAlloc = alloc /\ tgtLen = (IF alloc THEN opSize ELSE 0)
    /\ tgt = [u \in 0..MaxLen - 1 |-> Hole]
    /\ pc = "top" /\ scan = [i |-> 1, pass |-> 0, wait |-> TRUE]
    /\ ctx = NewCtx /\ io = [i \in Blocks |-> NoIo] /\ buf = [i \in Blocks |-> 0]
    /\ limit = Max(Limits) /\ opDone = 0 /\ err = NoErr /\ out = "open"
    /\ cancel = FALSE /\ skipAll \in SkipAlls /\ result = "none"
    /\ errors = 0 /\ resizes = 0

-----------------------------------------------------------------------------
(* DoCopyFileLoopAsync, top of the loop: start reads.                      *)

Quiet == UNCHANGED <<buf, tgt, tgtLen, errors>>     \* the kernel does nothing

\* HandleReadingErr / HandleWritingErr: CancelIo, then the error dialog
EnterError(kind, at, maxWO, ios) ==
    /\ pc' = (IF kind = "write" THEN "wrerr" ELSE "rderr")
    /\ err' = [kind |-> kind, at |-> at, maxWO |-> maxWO]
    /\ io' = CancelIo(ios)

IoStarts(op, off, len) == [NoIo EXCEPT !.op = op, !.off = off, !.len = len, !.st = "pending"]

\* a whole buffer, or what is left of the source as far as its size is known
ToRead == IF ctx.readOffset + limit <= fileSize THEN limit ELSE fileSize - ctx.readOffset

\* fault: the end of the source is never tested, only read at
NeverTestEOF == FALSE

TestEOF == ToRead = 0

CanStartReading ==
    /\ ctx.forceOp # "write" /\ ctx.free > 0 /\ ~ctx.readingDone /\ ctx.reading < Half
    /\ ~TestEOF \/ ctx.reading = 0

FreeBlockIndex ==
    IF ctx.blk[ctx.freeIdx].st = "free" THEN ctx.freeIdx
    ELSE Min({i \in Blocks : ctx.blk[i].st = "free"})

\* ReadFile refuses at once
ReadFileFails ==
    /\ pc = "top" /\ CanStartReading /\ MayFail("read")
    /\ errors' = errors + 1
    /\ \E kind \in {"netname", "other"} : EnterError(kind, "loop", 0, io)
    /\ UNCHANGED <<scan, ctx, buf, tgt, tgtLen, fileSize, limit, opDone, out, result, env, setup>>

\* ReadFile accepted; a cancelled worker leaves before it records the block
StartReading ==
    /\ pc = "top" /\ CanStartReading
    /\ LET i == FreeBlockIndex
           len == IF TestEOF THEN limit ELSE ToRead
       IN  \E sync \in BOOLEAN :
             LET r == IoStarts("read", ctx.readOffset, len)
                 o == GoodOutcome(r)
                 ios == [io EXCEPT ![i] = IF sync THEN [r EXCEPT !.st = "done", !.res = o.res,
                                                                 !.bytes = o.bytes] ELSE r]
                 c == [ctx EXCEPT !.forceOp = IF sync THEN "write" ELSE "none"]
             IN  /\ IF sync THEN Effect(i, r, o) ELSE Quiet
                 /\ IF cancel
                    THEN EnterError("other", "loop", 0, ios) /\ ctx' = c
                    ELSE /\ io' = ios
                         /\ ctx' = [c EXCEPT
                                !.blk[i] = [st |-> IF TestEOF THEN "testing" ELSE "reading",
                                            off |-> ctx.readOffset, len |-> len],
                                !.readOffset = IF TestEOF THEN @ ELSE @ + len,
                                !.free = @ - 1, !.reading = @ + 1,
                                !.issued = Append(@, i)]
                         /\ UNCHANGED <<pc, err>>
    /\ UNCHANGED <<scan, fileSize, limit, opDone, out, result, env, setup>>

BeginScan ==
    /\ pc = "top" /\ ~CanStartReading
    /\ pc' = "scan" /\ scan' = [i |-> 1, pass |-> 0, wait |-> TRUE]
    /\ UNCHANGED <<ctx, io, fileSize, limit, opDone, err, out, result, env, setup>> /\ Quiet

-----------------------------------------------------------------------------
(* One step of the scan for finished operations, block scan.i.             *)

ScanAt(i) == pc = "scan" /\ scan.i = i /\ i \in Blocks
Finished(i) == InProgress(ctx, i) /\ io[i].st = "done"

\* goes on to the next block, or leaves the loop when the copy is complete
ScanNext(c) ==
    /\ pc' = (IF IsOperationDone(c) THEN "finish" ELSE "scan")
    /\ scan' = [scan EXCEPT !.i = @ + 1, !.wait = FALSE]

ScanSkips ==
    /\ \E i \in Blocks : ScanAt(i) /\ ~Finished(i)
    /\ scan' = [scan EXCEPT !.i = @ + 1]
    /\ UNCHANGED <<pc, ctx, io, fileSize, limit, opDone, err, out, result, env, setup>> /\ Quiet

\* cbsReading, cbsTestingEOF: data, a short block or the end of the source
ReadDone ==
    \E i \in Blocks :
       LET b == ctx.blk[i]
           testing == b.st = "testing"
           bytes == io[i].bytes
           eof == io[i].res = "eof"
           short == bytes < b.len
           size == IF short
                   THEN (IF ~testing \/ bytes # 0 THEN b.off + bytes ELSE fileSize)
                   ELSE (IF testing THEN Max({srcLen, b.off + bytes}) ELSE fileSize)
           c1 == [ctx EXCEPT
                    !.autoRetry = 0,
                    !.readingDone = @ \/ (eof /\ testing),
                    !.forceOp = IF eof THEN "none" ELSE @,
                    !.readOffset = IF IF short THEN ~testing \/ bytes # 0 ELSE testing
                                   THEN b.off + bytes ELSE @,
                    !.blk[i].len = IF short /\ bytes # 0 THEN bytes ELSE @]
           c2 == IF short /\ ~testing THEN DiscardBlocksBehindEOF(c1, size, i) ELSE c1
           c3 == IF bytes = 0 THEN FreeBlock(c2, i) ELSE KeepAsRead(c2, {i})
       IN  /\ ScanAt(i) /\ Finished(i)
           /\ b.st \in {"reading", "testing"} /\ io[i].res \in {"ok", "eof"}
           /\ fileSize' = size /\ ctx' = c3
           /\ io' = [io EXCEPT ![i] = NoIo]
           /\ ScanNext(c3)
           /\ UNCHANGED <<limit, opDone, err, out, result, env, setup>> /\ Quiet

ReadFailed ==
    \E i \in Blocks :
       /\ ScanAt(i) /\ Finished(i)
       /\ ctx.blk[i].st \in {"reading", "testing"} /\ io[i].res \notin {"ok", "eof"}
       /\ EnterError(io[i].res, "loop", 0, io)
       /\ UNCHANGED <<scan, ctx, fileSize, limit, opDone, out, result, env, setup>> /\ Quiet

\* cbsWriting: the block is in the target; the speed limit may change
WriteDone ==
    \E i \in Blocks :
       LET c == FreeBlock(ctx, i)
       IN  /\ ScanAt(i) /\ Finished(i) /\ ~cancel
           /\ ctx.blk[i].st = "writing" /\ io[i].res = "ok"
           /\ opDone' = opDone + io[i].bytes
           /\ limit' \in Limits
           /\ ctx' = c /\ io' = [io EXCEPT ![i] = NoIo]
           /\ ScanNext(c)
           /\ UNCHANGED <<fileSize, err, out, result, env, setup>> /\ Quiet

WriteFailed ==
    \E i \in Blocks :
       /\ ScanAt(i) /\ Finished(i)
       /\ ctx.blk[i].st = "writing" /\ io[i].res # "ok"
       /\ EnterError("write", "loop", ctx.writeOffset, io)
       /\ UNCHANGED <<scan, ctx, fileSize, limit, opDone, out, result, env, setup>> /\ Quiet

\* HandleSuspModeAndCancel after a write: CancelIo, then CancelOpPhase2
WriteDoneCancelled ==
    \E i \in Blocks :
       /\ ScanAt(i) /\ Finished(i) /\ cancel
       /\ ctx.blk[i].st = "writing" /\ io[i].res = "ok"
       /\ pc' = "cancelling" /\ io' = CancelIo(io)
       /\ UNCHANGED <<scan, ctx, fileSize, limit, opDone, err, out, result, env, setup>> /\ Quiet

DiscardedDone ==
    \E i \in Blocks :
       LET c == FreeBlock(ctx, i)
       IN  /\ ScanAt(i) /\ Finished(i) /\ ctx.blk[i].st = "discarded"
           /\ ctx' = c /\ io' = [io EXCEPT ![i] = NoIo]
           /\ ScanNext(c)
           /\ UNCHANGED <<fileSize, limit, opDone, err, out, result, env, setup>> /\ Quiet

-----------------------------------------------------------------------------
(* Starting writes behind the written part of the target, then waiting.    *)

EndOfScan == pc = "scan" /\ scan.i = N + 1

\* fault: writes any block with data, not the one that continues the target
AnyReadBlock == {i \in Blocks : ctx.blk[i].st = "read"}

\* the read block that continues the target; the sweeps of the code repeat
\* until there is none
NextToWrite == {i \in Blocks : ctx.blk[i].st = "read" /\ ctx.blk[i].off = ctx.writeOffset}
CanStartWriting ==
    EndOfScan /\ ctx.forceOp # "read" /\ ctx.writing < Half /\ NextToWrite # {}

WriteFileFails ==
    /\ CanStartWriting /\ MayFail("write")
    /\ errors' = errors + 1
    /\ \E i \in NextToWrite : EnterError("write", "loop", ctx.writeOffset + ctx.blk[i].len, io)
    /\ UNCHANGED <<scan, ctx, buf, tgt, tgtLen, fileSize, limit, opDone, out, result, env, setup>>

StartWriting ==
    /\ CanStartWriting
    /\ \E i \in NextToWrite, sync \in BOOLEAN :
          LET r == IoStarts("write", ctx.writeOffset, ctx.blk[i].len)
              o == GoodOutcome(r)
              ios == [io EXCEPT ![i] = IF sync THEN [r EXCEPT !.st = "done", !.res = o.res,
                                                              !.bytes = o.bytes] ELSE r]
              c == [ctx EXCEPT !.forceOp = IF ~ctx.readingDone /\ sync THEN "read" ELSE "none"]
          IN  /\ IF sync THEN Effect(i, r, o) ELSE Quiet
              /\ IF cancel
                 THEN /\ EnterError("write", "loop", ctx.writeOffset + ctx.blk[i].len, ios)
                      /\ ctx' = c
                 ELSE /\ io' = ios
                      /\ ctx' = [c EXCEPT !.writeOffset = @ + ctx.blk[i].len,
                                          !.blk[i].st = "writing", !.writing = @ + 1,
                                          !.issued = Append(@, i)]
                      /\ UNCHANGED <<pc, err>>
    /\ UNCHANGED <<scan, fileSize, limit, opDone, out, result, env, setup>>

\* a second pass after a synchronous write, else back to the top or wait
EndOfWriting ==
    /\ EndOfScan /\ ~CanStartWriting
    /\ IF ctx.forceOp = "read" /\ scan.pass = 0
       THEN scan' = [scan EXCEPT !.i = 1, !.pass = 1] /\ UNCHANGED pc
       ELSE pc' = (IF scan.wait THEN "wait" ELSE "top") /\ UNCHANGED scan
    /\ UNCHANGED <<ctx, io, fileSize, limit, opDone, err, out, result, env, setup>> /\ Quiet

\* GetOverlappedResult(bWait = TRUE) on the oldest operation in progress
WaitForOldest ==
    /\ pc = "wait" /\ ctx.issued # <<>> /\ io[Head(ctx.issued)].st = "done"
    /\ IF cancel THEN pc' = "cancelling" /\ io' = CancelIo(io)
                 ELSE pc' = "top" /\ UNCHANGED io
    /\ UNCHANGED <<scan, ctx, fileSize, limit, opDone, err, out, result, env, setup>> /\ Quiet

-----------------------------------------------------------------------------
(* HandleReadingErr and HandleWritingErr.  CancelOpPhase2 waits for every  *)
(* block it sees in progress, then takes over the results.                 *)

HandlingErr == pc \in {"rderr", "wrerr"}
Side == IF pc = "rderr" THEN "read" ELSE "write"
\* fault: GetOverlappedResult is called with bWait = FALSE
NoWaitForCancelled == TRUE

AllFinished == \A i \in Blocks : InProgress(ctx, i) => io[i].st = "done"

TakeOver ==
    io' = [i \in Blocks |-> IF InProgress(ctx, i) /\ io[i].st = "done" THEN NoIo ELSE io[i]]

Phase2 == AllFinished /\ ctx' = CancelOpPhase2(ctx, io) /\ TakeOver

CancelledInLoop ==
    /\ pc = "cancelling" /\ Phase2 /\ Abandon("error")
    /\ UNCHANGED <<errors, skipAll>>

CancelledInErr ==
    /\ HandlingErr /\ cancel /\ Phase2 /\ Abandon("error")
    /\ UNCHANGED <<errors, skipAll>>

SkippedInErr ==
    /\ HandlingErr /\ ~cancel /\ Side \in skipAll /\ Phase2 /\ Abandon("skip")
    /\ UNCHANGED <<errors, skipAll>>

\* ERROR_NETNAME_DELETED is retried three times without asking
AutoRetry ==
    /\ pc = "rderr" /\ err.kind = "netname" /\ ctx.autoRetry < 3
    /\ ~cancel /\ "read" \notin skipAll
    /\ AllFinished /\ TakeOver
    /\ ctx' = [CancelOpPhase2(ctx, io) EXCEPT !.autoRetry = @ + 1]
    /\ pc' = "rdretry"
    /\ UNCHANGED <<scan, fileSize, limit, opDone, err, out, result, env, setup>> /\ Quiet

\* the user answers the dialog; cancel and skip give the file up
UserAnswers ==
    /\ HandlingErr /\ ~cancel /\ Side \notin skipAll
    /\ err.kind = "netname" => ctx.autoRetry >= 3
    /\ Phase2
    /\ \/ /\ "retry" \in Answers
          /\ pc' = (IF pc = "rderr" THEN "rdretry" ELSE "wrretry")
          /\ UNCHANGED <<scan, fileSize, limit, opDone, err, out, result, env, setup>>
          /\ Quiet
       \/ /\ "cancel" \in Answers /\ Abandon("error") /\ UNCHANGED <<errors, skipAll>>
       \/ /\ "skip" \in Answers /\ Abandon("skip") /\ UNCHANGED <<errors, skipAll>>
       \/ /\ "skipall" \in Answers /\ Abandon("skip")
          /\ skipAll' = skipAll \cup {Side} /\ UNCHANGED errors

\* the file cannot be opened again: the same question once more
ReopenFails ==
    /\ \/ pc = "rdretry" /\ MayFail("read") /\ pc' = "rderr" /\ UNCHANGED <<out, tgt, tgtLen>>
       \/ /\ pc = "wrretry" /\ MayFail("write") /\ pc' = "wrerr" /\ out' = "closed"
          /\ \E cut \in BOOLEAN : TargetStays(cut, ctx.writeOffset)
    /\ errors' = errors + 1 /\ err' = [err EXCEPT !.kind = IF pc = "rdretry" THEN "other" ELSE @]
    /\ UNCHANGED <<scan, ctx, io, buf, fileSize, limit, opDone, result, env, setup>>

\* CheckTailOfOutFile: the last written units still equal the source
TailIsRight(content, end) ==
    end <= srcLen /\ \A u \in Max({0, end - TailMin})..end - 1 : content[u] = u

\* fault: operationDone is not rewound with WriteOffset
ResumeKeepsDone ==
    /\ ctx' = [ctx EXCEPT !.forceOp = IF ctx.readOffset > ctx.writeOffset THEN "write" ELSE "none"]
    /\ pc' = (IF err.at = "loop" THEN "top" ELSE err.at) /\ err' = NoErr
    /\ UNCHANGED <<scan, io, buf, fileSize, limit, opDone, result, errors, env, setup>>

\* the retry continues where the target is known to be complete
Resume ==
    /\ ctx' = [ctx EXCEPT !.forceOp = IF ctx.readOffset > ctx.writeOffset THEN "write" ELSE "none"]
    /\ opDone' = ctx.writeOffset
    /\ pc' = (IF err.at = "loop" THEN "top" ELSE err.at) /\ err' = NoErr
    /\ UNCHANGED <<scan, io, buf, fileSize, limit, result, errors, env, setup>>

\* RetryCopyReadErr with the source opened again; a target that cannot be read
\* is trusted, because it was not the target that failed
RetryReading ==
    /\ pc = "rdretry"
    /\ LET right == TailIsRight(tgt, ctx.writeOffset)
       IN  \/ /\ srcLen >= ctx.readOffset /\ (right \/ WriteErrors)
              /\ Resume /\ UNCHANGED <<out, tgt, tgtLen>>
           \/ /\ srcLen < ctx.readOffset \/ ~right \/ ReadErrors
              /\ \E cut \in BOOLEAN : CopyAgain(allocMode, cut)
              /\ UNCHANGED errors

\* RetryCopyWriteErr with the target opened again; a pre-allocated target is
\* cut at the end of its written part if the old handle still works; what cannot
\* be asked or read is wrong
RetryWriting ==
    /\ pc = "wrretry"
    /\ \E cut \in BOOLEAN :
          LET len == IF cut THEN ctx.writeOffset ELSE tgtLen
              content == [u \in 0..MaxLen - 1 |-> IF u < len THEN tgt[u] ELSE Hole]
              ok == /\ len >= ctx.writeOffset
                    /\ ~(wholeAlloc /\ len > opSize /\ len > err.maxWO)
          IN  /\ cut => wholeAlloc /\ out = "open"
              /\ \/ /\ ok /\ TailIsRight(content, ctx.writeOffset)
                    /\ Resume /\ out' = "open" /\ tgt' = content /\ tgtLen' = len
                 \/ CopyAgain(allocMode, cut) /\ UNCHANGED errors

-----------------------------------------------------------------------------
(* After the loop: trimming and testing a pre-allocated target, closing.   *)

Finish ==
    /\ pc = "finish" /\ pc' = "trim"
    /\ UNCHANGED <<scan, ctx, io, fileSize, limit, opDone, err, out, result, env, setup>> /\ Quiet

\* the source was shorter than the space allocated for it
Trim ==
    /\ pc = "trim" /\ pc' = "test"
    /\ IF wholeAlloc /\ opDone < opSize
       THEN /\ tgtLen' = ctx.writeOffset
            /\ tgt' = [u \in 0..MaxLen - 1 |-> IF u < ctx.writeOffset THEN tgt[u] ELSE Hole]
       ELSE UNCHANGED <<tgt, tgtLen>>
    /\ UNCHANGED <<scan, ctx, io, buf, fileSize, limit, opDone, err, out, result, errors, env, setup>>

TrimFails ==
    /\ pc = "trim" /\ wholeAlloc /\ opDone < opSize /\ MayFail("write")
    /\ errors' = errors + 1 /\ EnterError("write", "trim", 0, io)
    /\ UNCHANGED <<scan, ctx, buf, tgt, tgtLen, fileSize, limit, opDone, out, result, env, setup>>

\* allocWholeFileOnStart is decided by the first pre-allocated target: the
\* allocation is trusted if the target has the right size, and its size is known
TestAllocation ==
    /\ pc = "test"
    /\ IF wholeAlloc /\ allocMode = "test"
       THEN \E known \in BOOLEAN :       \* GetFileSize may fail
              LET right == known /\ tgtLen = opDone
              IN  /\ known \/ MayFail("write")
                  /\ errors' = (IF known THEN errors ELSE errors + 1)
                  /\ pc' = (IF right THEN "close" ELSE "del")
                  /\ allocMode' = (IF right THEN "yes" ELSE "no")
       ELSE pc' = "close" /\ UNCHANGED <<allocMode, errors>>
    /\ UNCHANGED <<scan, ctx, io, buf, tgt, tgtLen, fileSize, limit, opDone, err, out,
                   result, env, opSize, wholeAlloc, skipAll>>

DeleteUntrusted == pc = "del" /\ ReadAgain(allocMode) /\ UNCHANGED errors

DeleteFails ==
    /\ pc = "del" /\ MayFail("write")
    /\ errors' = errors + 1 /\ EnterError("write", "del", 0, io) /\ out' = "closed"
    /\ UNCHANGED <<scan, ctx, buf, tgt, tgtLen, fileSize, limit, opDone, result, env, setup>>

Close ==
    /\ pc = "close" /\ pc' = "final" /\ result' = "ok" /\ out' = "closed"
    /\ UNCHANGED <<scan, ctx, io, fileSize, limit, opDone, err, env, setup>> /\ Quiet

\* CloseHandle(out) reports a delayed write error
CloseFails ==
    /\ pc = "close" /\ MayFail("write")
    /\ errors' = errors + 1 /\ out' = "closed" /\ pc' = "closeerr"
    /\ UNCHANGED <<scan, ctx, io, buf, tgt, tgtLen, fileSize, limit, opDone, err, result,
                   env, setup>>

CloseErrAnswered ==
    /\ pc = "closeerr"
    /\ LET asked == ~cancel /\ "write" \notin skipAll
       IN  \/ /\ cancel \/ (asked /\ "cancel" \in Answers)
              /\ Abandon("error") /\ UNCHANGED <<ctx, io, skipAll>>
           \/ /\ ~cancel /\ ("write" \in skipAll \/ "skip" \in Answers)
              /\ Abandon("skip") /\ UNCHANGED <<ctx, io, skipAll>>
           \/ /\ asked /\ "skipall" \in Answers
              /\ Abandon("skip") /\ skipAll' = skipAll \cup {"write"} /\ UNCHANGED <<ctx, io>>
           \/ asked /\ "retry" \in Answers /\ CopyAgain(allocMode, FALSE)
    /\ UNCHANGED errors

Terminated == pc = "final" /\ UNCHANGED vars

Worker ==
    \/ ReadFileFails \/ StartReading \/ BeginScan
    \/ ScanSkips \/ ReadDone \/ ReadFailed \/ WriteDone \/ WriteFailed
    \/ WriteDoneCancelled \/ DiscardedDone
    \/ WriteFileFails \/ StartWriting \/ EndOfWriting \/ WaitForOldest
    \/ CancelledInLoop \/ CancelledInErr \/ SkippedInErr \/ AutoRetry \/ UserAnswers
    \/ ReopenFails \/ RetryReading \/ RetryWriting
    \/ Finish \/ Trim \/ TrimFails \/ TestAllocation \/ DeleteUntrusted \/ DeleteFails
    \/ Close \/ CloseFails \/ CloseErrAnswered

Next ==
    \/ Worker
    \/ \E i \in Blocks : IoCompletes(i)
    \/ ResizeSource \/ UserCancels
    \/ Terminated

\* states in which the worker has a step: everywhere but in a wait for an
\* operation the kernel has not finished, and after the end
WorkerReady ==
    /\ pc # "final"
    /\ pc = "wait" => ctx.issued # <<>> /\ io[Head(ctx.issued)].st = "done"
    /\ pc \in {"cancelling", "rderr", "wrerr"} => AllFinished

\* The worker thread keeps running (the first conjunct is WF_vars(Worker) with
\* its ENABLED spelled out) and the kernel finishes what it accepted; nobody
\* has to cancel or to resize the source.
Fairness ==
    /\ []<>(~WorkerReady) \/ []<><<Worker>>_vars
    /\ \A i \in Blocks : WF_vars(IoCompletes(i))

Spec == Init /\ [][Next]_vars /\ Fairness

-----------------------------------------------------------------------------
\* Every variable keeps its type; counters and offsets stay in their ranges.
TypeOK ==
    /\ pc \in {"top", "scan", "wait", "rderr", "wrerr", "rdretry", "wrretry", "cancelling",
               "finish", "trim", "test", "del", "close", "closeerr", "final"}
    /\ scan \in [i : 1..N + 1, pass : {0, 1}, wait : BOOLEAN]
    /\ ctx.blk \in [Blocks -> [st : BlockStates, off : 0..MaxLen, len : 0..MaxLen]]
    /\ ctx.forceOp \in {"none", "read", "write"} /\ ctx.readingDone \in BOOLEAN
    /\ ctx.free \in 0..N /\ ctx.freeIdx \in Blocks
    /\ ctx.reading \in 0..Half /\ ctx.writing \in 0..Half
    /\ ctx.readOffset \in 0..MaxLen /\ ctx.writeOffset \in 0..ctx.readOffset
    /\ ctx.autoRetry \in 0..3 /\ ctx.issued \in Seq(Blocks)
    /\ buf \in [Blocks -> 0..MaxLen]
    /\ fileSize \in 0..MaxLen /\ opSize \in Sizes /\ limit \in Limits /\ opDone \in 0..MaxLen
    /\ wholeAlloc \in BOOLEAN /\ allocMode \in {"test", "yes", "no"}
    /\ srcLen \in 0..MaxLen /\ tgtLen \in 0..MaxLen
    /\ tgt \in [0..MaxLen - 1 -> {Hole, Misplaced} \cup 0..MaxLen]
    /\ out \in {"open", "closed"} /\ result \in {"none", "ok", "error", "skip", "exists"}
    /\ cancel \in BOOLEAN /\ skipAll \subseteq {"read", "write"}
    /\ errors \in 0..MaxErrors /\ resizes \in 0..MaxResizes

InState(st) == {i \in Blocks : ctx.blk[i].st = st}

\* The data the loop holds is never ahead of a gap: blocks being written lie
\* before WriteOffset, read ones from it on, no two blocks share a unit, and
\* nothing read is kept beyond ReadOffset.
BlocksInOrder ==
    LET unit(i) == ctx.blk[i].off..(ctx.blk[i].off + ctx.blk[i].len - 1)
        data == InState("read") \cup InState("writing") \cup InState("reading")
    IN  /\ \A i, j \in data : i # j => unit(i) \cap unit(j) = {}
        /\ \A i \in InState("writing") : ctx.blk[i].off + ctx.blk[i].len <= ctx.writeOffset
        /\ \A i \in InState("read") : /\ ctx.blk[i].off >= ctx.writeOffset
                                      /\ ctx.blk[i].off + ctx.blk[i].len <= ctx.readOffset

\* A buffer whose block the loop thinks idle is not used by the kernel, except
\* on the way out after Cancel: no read overwrites data waiting to be written.
IdleBuffersAreIdle ==
    \A i \in Blocks : ctx.blk[i].st \in {"free", "read"} /\ io[i].st # "idle" => cancel

\* Every unit of the target is the source unit of the same offset or was not
\* written: no retry, short read or reordered completion misplaces data.
NoMisplacedData == \A u \in 0..MaxLen - 1 : tgt[u] \in {u, Hole}

\* TRACE_C in DoCopyFileLoopAsync: after the loop everything read was written
\* and everything written was accounted for.
EverythingReadIsWritten ==
    pc = "finish" => ctx.readOffset = ctx.writeOffset /\ opDone = ctx.writeOffset

\* What is reported as copied is complete: the target has every unit counted in
\* operationDone, each of them right, and is the whole source, no longer and no
\* shorter, if nobody resized it.
ReportedCopyIsComplete ==
    result = "ok" =>
        /\ tgtLen >= opDone /\ \A u \in 0..opDone - 1 : tgt[u] = u
        /\ resizes = 0 => opDone = opSize /\ tgtLen = opSize

\* When DoCopyFile returns, the buffers are free for the next file, unless it was
\* cancelled, and the data is in order: a target that stays, because the copy is
\* done or because it cannot be deleted, has every unit before WriteOffset.
EndIsOrderly ==
    result # "none" =>
        /\ cancel \/ \A i \in Blocks : io[i].st = "idle"
        /\ tgtLen > 0 => \A u \in 0..ctx.writeOffset - 1 : tgt[u] = u

\* "failure mid-operation MUST leave no corrupted or silently partial target"
\* (specs/027-longpath-fileops-stability/spec.md, FR-005): a pre-allocated target
\* of a copy reported as done has every unit of a source that nobody resized.
NoSilentlyPartialTarget ==
    result = "ok" /\ wholeAlloc /\ resizes = 0 => \A u \in 0..opSize - 1 : tgt[u] = u

\* However reads and writes complete and whatever the user answers, the copy
\* of the file ends.
CopyEnds == <>(pc = "final")
=============================================================================
