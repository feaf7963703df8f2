-------------------------- MODULE AsyncCopyProofs --------------------------
(***************************************************************************)
(* AsyncCopy, for any number of blocks, sizes of files, errors, resizes    *)
(* and answers, and any order in which operations finish                   *)
(* (DoCopyFileLoopAsync, src/src/worker.cpp):                              *)
(*                                                                         *)
(*   IInv    no unit of the source gets to a wrong place of the target,    *)
(*           and the kernel uses no buffer the loop thinks idle;           *)
(*   Order   the blocks share no unit; those being written lie before      *)
(*           WriteOffset, and the others cover what is left of the data    *)
(*           up to ReadOffset;                                             *)
(*   Ended   what was counted and what is still being written make up      *)
(*           WriteOffset, and behind the loop no block is left;            *)
(*   Complete   every unit before WriteOffset is in the target, or a write *)
(*           of it is still to come, and a target that stays at the end,   *)
(*           wanted or not, has them all;                                  *)
(*   Whole   without errors of the target: the loop ends only with the     *)
(*           whole source, and no write goes beyond it.                    *)
(*                                                                         *)
(* Each of them rests on the ones before it.                               *)
(***************************************************************************)
EXTENDS AsyncCopy, TLAPS, FiniteSetTheorems, WellFoundedInduction

CtxFields ==
    {"blk", "forceOp", "readingDone", "free", "freeIdx", "reading", "writing",
     "readOffset", "writeOffset", "autoRetry", "issued"}

Context(c) ==
    /\ DOMAIN c = CtxFields /\ DOMAIN c.blk = Blocks
    /\ \A i \in Blocks : DOMAIN c.blk[i] = {"st", "off", "len"}

Types ==
    /\ Context(ctx)
    /\ DOMAIN io = Blocks
    /\ \A i \in Blocks : DOMAIN io[i] = {"op", "off", "len", "st", "res", "bytes", "abort"}
    /\ DOMAIN buf = Blocks /\ DOMAIN tgt = 0..MaxLen - 1

\* An operation writes the buffer it was issued with; a finished read has
\* filled its buffer, or found the end of the file and read nothing.
Honest(i) ==
    /\ io[i].op = "write" /\ io[i].st = "pending" => buf[i] = io[i].off
    /\ io[i].op = "read" /\ io[i].st = "done" /\ io[i].res = "ok" => buf[i] = io[i].off
    /\ io[i].res = "eof" => io[i].bytes = 0

\* A cancelled worker that handles an error only leaves any more.
Going == ~(cancel /\ pc \in {"rderr", "wrerr", "final"})

\* What the loop knows of a block agrees with its operation and its buffer.
Agrees(i) ==
    /\ InProgress(ctx, i) \/ io[i].st = "idle"
    /\ ctx.blk[i].st = "read" => buf[i] = ctx.blk[i].off
    /\ ctx.blk[i].st = "writing" => io[i].op = "write" /\ buf[i] = ctx.blk[i].off
    /\ ctx.blk[i].st \in {"reading", "testing"} =>
          io[i].op = "read" /\ io[i].off = ctx.blk[i].off

IInv ==
    /\ Types /\ NoMisplacedData
    /\ \A i \in Blocks : Honest(i)
    /\ Going => \A i \in Blocks : Agrees(i)

-----------------------------------------------------------------------------
(* The operators on the context                                            *)

\* the blocks of S are freed, the others stay
LEMMA Freed ==
    ASSUME NEW c, Context(c), NEW S
    PROVE  /\ Context(FreeBlocks(c, S))
           /\ \A i \in Blocks :
                 FreeBlocks(c, S).blk[i] = IF i \in S THEN FreeBlk ELSE c.blk[i]
<1> QED
  BY DEF Context, CtxFields, FreeBlocks, Tidy, FreeBlk

\* the blocks of S keep their data, the others stay
LEMMA Kept ==
    ASSUME NEW c, Context(c), NEW S
    PROVE  /\ Context(KeepAsRead(c, S))
           /\ \A i \in Blocks :
                 KeepAsRead(c, S).blk[i] =
                    IF i \in S THEN [c.blk[i] EXCEPT !.st = "read"] ELSE c.blk[i]
<1> QED
  BY DEF Context, CtxFields, KeepAsRead, Tidy

\* only reads in progress are discarded, and only data read is dropped
LEMMA Discarded ==
    ASSUME NEW c, Context(c), NEW size, NEW exclude,
           NEW d, d = DiscardBlocksBehindEOF(c, size, exclude)
    PROVE  /\ Context(d)
           /\ \A i \in Blocks :
                 \/ d.blk[i] = c.blk[i]
                 \/ i # exclude /\ c.blk[i].st = "read" /\ d.blk[i] = FreeBlk
                 \/ /\ i # exclude /\ c.blk[i].st = "reading"
                    /\ d.blk[i] = [c.blk[i] EXCEPT !.st = "discarded"]
<1> DEFINE behind(st) == {i \in Blocks \ {exclude} : c.blk[i].st = st /\ c.blk[i].off >= size}
           e == [c EXCEPT
                   !.blk = [i \in Blocks |-> IF i \in behind("reading")
                                             THEN [@[i] EXCEPT !.st = "discarded"] ELSE @[i]],
                   !.reading = @ - Cardinality(behind("reading"))]
<1>1. d = FreeBlocks(e, behind("read"))
  BY DEF DiscardBlocksBehindEOF
<1>2. /\ Context(e)
      /\ \A i \in Blocks : e.blk[i] = IF i \in behind("reading")
                                      THEN [c.blk[i] EXCEPT !.st = "discarded"] ELSE c.blk[i]
  BY DEF Context, CtxFields
<1> HIDE DEF e
<1>3. /\ Context(d)
      /\ \A i \in Blocks : d.blk[i] = IF i \in behind("read") THEN FreeBlk ELSE e.blk[i]
  BY <1>1, <1>2, Freed
<1> QED
  BY <1>2, <1>3

\* after phase 2 a block is free, or holds what it held or what was read or written
LEMMA TakenOver ==
    ASSUME NEW c, Context(c), NEW ios, NEW d, d = CancelOpPhase2(c, ios)
    PROVE  /\ Context(d)
           /\ \A i \in Blocks :
                 \/ d.blk[i] = FreeBlk
                 \/ /\ \/ c.blk[i].st = "read" \/ c.blk[i].st = "writing"
                       \/ c.blk[i].st = "reading" /\ ios[i].res = "ok"
                    /\ d.blk[i] = [c.blk[i] EXCEPT !.st = "read"]
                 \/ ~InProgress(c, i) /\ d.blk[i] = c.blk[i]
<1> DEFINE full(i) == ios[i].res = "ok" /\ ios[i].bytes = c.blk[i].len
           inSt(S) == {i \in Blocks : c.blk[i].st \in S}
           keep == {i \in inSt({"reading"}) : full(i)} \cup inSt({"writing"})
           lost == {i \in inSt({"writing"}) : ~full(i)}
           c1 == KeepAsRead(c, keep)
           c2 == FreeBlocks(c1, {i \in Blocks : InProgress(c1, i)})
           wo == Min({c.writeOffset} \cup {c.blk[i].off : i \in lost})
           ro == ContiguousEnd(c2, wo)
           c3 == [c2 EXCEPT !.writeOffset = wo, !.readOffset = ro]
           rest == {i \in Blocks : /\ c2.blk[i].st = "read"
                                   /\ c2.blk[i].off < wo \/ c2.blk[i].off > ro}
<1>1. d = FreeBlocks(c3, rest)
  BY DEF CancelOpPhase2
<1>2. /\ Context(c1)
      /\ \A i \in Blocks : c1.blk[i] = IF i \in keep THEN [c.blk[i] EXCEPT !.st = "read"]
                                                     ELSE c.blk[i]
  BY Kept
<1> HIDE DEF c1
<1>3. /\ Context(c2)
      /\ \A i \in Blocks : c2.blk[i] = IF InProgress(c1, i) THEN FreeBlk ELSE c1.blk[i]
  BY <1>2, Freed
<1> HIDE DEF c2, wo, ro
<1>4. Context(c3) /\ c3.blk = c2.blk
  BY <1>3 DEF Context, CtxFields
<1> HIDE DEF c3
<1>5. /\ Context(d)
      /\ \A i \in Blocks : d.blk[i] = IF i \in rest THEN FreeBlk ELSE c3.blk[i]
  BY <1>1, <1>4, Freed
<1>6. ASSUME NEW i \in Blocks
      PROVE  \/ d.blk[i] = FreeBlk
             \/ /\ \/ c.blk[i].st = "read" \/ c.blk[i].st = "writing"
                   \/ c.blk[i].st = "reading" /\ ios[i].res = "ok"
                /\ d.blk[i] = [c.blk[i] EXCEPT !.st = "read"]
             \/ ~InProgress(c, i) /\ d.blk[i] = c.blk[i]
  <2>1. CASE i \in keep
    BY <1>2, <1>3, <1>4, <1>5, <2>1
  <2>2. CASE i \notin keep
    BY <1>2, <1>3, <1>4, <1>5, <2>2 DEF InProgress
  <2> QED
    BY <2>1, <2>2
<1> QED
  BY <1>5, <1>6

-----------------------------------------------------------------------------
(* Steps of one kind                                                       *)

\* Nothing happens to blocks, buffers and target, and operations are at most
\* asked to end.
LEMMA UntouchedKeeps ==
    ASSUME IInv, Context(ctx'), ctx'.blk = ctx.blk, buf' = buf, tgt' = tgt,
           io' = io \/ io' = CancelIo(io), Going' => Going
    PROVE  IInv'
<1>1. /\ DOMAIN io' = Blocks
      /\ \A i \in Blocks : /\ DOMAIN io'[i] = DOMAIN io[i]
                           /\ io'[i].op = io[i].op /\ io'[i].off = io[i].off
                           /\ io'[i].st = io[i].st /\ io'[i].res = io[i].res
                           /\ io'[i].bytes = io[i].bytes
  BY DEF IInv, Types, CancelIo
<1>2. Types' /\ NoMisplacedData' /\ \A i \in Blocks : Honest(i)'
  BY <1>1 DEF IInv, Types, NoMisplacedData, Honest
<1>3. ASSUME Going', NEW i \in Blocks PROVE Agrees(i)'
  BY <1>1, <1>3 DEF IInv, Agrees, InProgress
<1> QED
  BY <1>2, <1>3 DEF IInv

\* The target only loses units.
OnlyCut ==
    /\ DOMAIN tgt' = 0..MaxLen - 1
    /\ \A u \in 0..MaxLen - 1 : tgt'[u] \in {tgt[u], Hole}

\* A target that stays where the code wants it deleted loses at most units.
LEMMA TargetIsCut ==
    ASSUME NEW cut, NEW written, TargetStays(cut, written)
    PROVE  OnlyCut
<1> QED
  BY DEF TargetStays, OnlyCut

LEMMA AbandonCuts ==
    ASSUME NEW how, Abandon(how)
    PROVE  OnlyCut
<1>1. CASE tgt' = [u \in 0..MaxLen - 1 |-> Hole]
  BY <1>1 DEF OnlyCut
<1>2. CASE \E cut \in BOOLEAN : TargetStays(cut, ctx'.writeOffset)
  BY <1>2, TargetIsCut
<1> QED
  BY <1>1, <1>2 DEF Abandon

\* The retry, trimming and testing change the target only by cutting it.
LEMMA CutKeeps ==
    ASSUME IInv, Context(ctx'), ctx'.blk = ctx.blk, buf' = buf, io' = io,
           Going' => Going, OnlyCut
    PROVE  IInv'
<1>1. Types' /\ NoMisplacedData'
  BY DEF IInv, Types, NoMisplacedData, OnlyCut
<1>2. \A i \in Blocks : Honest(i)' /\ (Agrees(i) => Agrees(i)')
  BY DEF IInv, Honest, Agrees, InProgress
<1> QED
  BY <1>1, <1>2 DEF IInv

\* a new target: COPY_AGAIN
LEMMA ReadAgainKeeps ==
    ASSUME IInv, NEW mode, ReadAgain(mode)
    PROVE  IInv'
<1>1. /\ ctx' = NewCtx /\ io' = [i \in Blocks |-> NoIo] /\ buf' = [i \in Blocks |-> 0]
      /\ tgt' = [u \in 0..MaxLen - 1 |-> Hole]
  BY DEF ReadAgain, FreshCopy
<1>2. Types' /\ NoMisplacedData'
  BY <1>1 DEF Types, NoMisplacedData, Context, CtxFields, NewCtx, FreeBlk, NoIo
<1>3. \A i \in Blocks : Honest(i)' /\ Agrees(i)'
  BY <1>1 DEF Honest, Agrees, NewCtx, FreeBlk, NoIo
<1> QED
  BY <1>2, <1>3 DEF IInv

\* ... or the old one, which could not be deleted
LEMMA CopyAgainKeeps ==
    ASSUME IInv, Going, NEW mode, NEW cut, CopyAgain(mode, cut)
    PROVE  IInv'
<1>1. CASE ReadAgain(mode)
  BY <1>1, ReadAgainKeeps
<1>2. CASE Ends("exists") /\ TargetStays(cut, ctx.writeOffset) /\ UNCHANGED <<ctx, io, skipAll>>
  BY <1>2, TargetIsCut, CutKeeps DEF Ends, IInv, Types
<1> QED
  BY <1>1, <1>2 DEF CopyAgain

\* everything in flight has ended and is taken over
LEMMA Phase2Keeps ==
    ASSUME IInv, AllFinished, TakeOver, buf' = buf, Going' => Going,
           DOMAIN tgt' = 0..MaxLen - 1, NoMisplacedData',
           Context(ctx'), ctx'.blk = CancelOpPhase2(ctx, io).blk
    PROVE  IInv'
<1>1. /\ DOMAIN io' = Blocks
      /\ \A i \in Blocks : io'[i] = IF InProgress(ctx, i) THEN NoIo ELSE io[i]
  BY DEF TakeOver, AllFinished
<1>2. Types' /\ \A i \in Blocks : Honest(i)'
  BY <1>1 DEF IInv, Types, Honest, NoIo
<1>3. ASSUME Going', NEW i \in Blocks PROVE Agrees(i)'
  <2>1. Agrees(i) /\ Honest(i) /\ Context(ctx) /\ io'[i].st = "idle"
    BY <1>1, <1>3 DEF IInv, Types, Agrees, NoIo
  <2>2. \/ ctx'.blk[i] = FreeBlk
        \/ /\ \/ ctx.blk[i].st = "read" \/ ctx.blk[i].st = "writing"
              \/ ctx.blk[i].st = "reading" /\ io[i].res = "ok"
           /\ ctx'.blk[i] = [ctx.blk[i] EXCEPT !.st = "read"]
        \/ ~InProgress(ctx, i) /\ ctx'.blk[i] = ctx.blk[i]
    BY <2>1, TakenOver
  <2>3. ctx'.blk[i].st = "read" => buf[i] = ctx'.blk[i].off
    <3>1. ctx.blk[i].st = "reading" => io[i].st = "done"
      BY DEF AllFinished, InProgress, InProgressStates
    <3> QED
      BY <2>1, <2>2, <3>1 DEF Agrees, Honest, Context, FreeBlk
  <2>4. ctx'.blk[i].st \notin {"writing", "reading", "testing"}
    BY <2>1, <2>2 DEF Context, FreeBlk, InProgress, InProgressStates
  <2> QED
    BY <2>1, <2>3, <2>4 DEF Agrees
<1> QED
  BY <1>2, <1>3 DEF IInv

\* what an operation that ends does to its buffer and to the target
LEMMA EffectIsRight ==
    ASSUME IInv, NEW i, NEW r, NEW o, Effect(i, r, o),
           r.op = "write" => buf[i] = r.off
    PROVE  /\ DOMAIN buf' = Blocks /\ DOMAIN tgt' = 0..MaxLen - 1 /\ NoMisplacedData'
           /\ buf' = IF r.op = "read" /\ o.res = "ok" THEN [buf EXCEPT ![i] = r.off] ELSE buf
<1>1. buf' = IF r.op = "read" /\ o.res = "ok" THEN [buf EXCEPT ![i] = r.off] ELSE buf
  BY DEF Effect
<1>2. CASE r.op = "write" /\ o.bytes > 0
  <2>1. tgt' = [u \in 0..MaxLen - 1 |->
                  IF u \in r.off..r.off + o.bytes - 1 THEN Written(i, r, u) ELSE tgt[u]]
    BY <1>2 DEF Effect
  <2>2. \A u : Written(i, r, u) = u
    BY <1>2 DEF Written
  <2> QED
    BY <1>1, <2>1, <2>2 DEF IInv, Types, NoMisplacedData
<1>3. CASE ~(r.op = "write" /\ o.bytes > 0)
  BY <1>1, <1>3 DEF Effect, IInv, Types, NoMisplacedData
<1> QED
  BY <1>2, <1>3

\* The kernel reads into a buffer no data waits in, and writes what it was given.
LEMMA IoCompletesKeeps ==
    ASSUME IInv, NEW i \in Blocks, IoCompletes(i)
    PROVE  IInv'
<1>1. PICK o \in {GoodOutcome(io[i])} \cup BadOutcomes(io[i]) :
         /\ io' = [io EXCEPT ![i].st = "done", ![i].res = o.res, ![i].bytes = o.bytes]
         /\ Effect(i, io[i], o)
  BY DEF IoCompletes
<1>2. io[i].st = "pending" /\ UNCHANGED <<pc, ctx, cancel>>
  BY DEF IoCompletes, env
<1>3. /\ DOMAIN buf' = Blocks /\ DOMAIN tgt' = 0..MaxLen - 1 /\ NoMisplacedData'
      /\ buf' = IF io[i].op = "read" /\ o.res = "ok" THEN [buf EXCEPT ![i] = io[i].off]
                                                      ELSE buf
  BY <1>1, <1>2, EffectIsRight DEF IInv, Honest
<1>4. o.res = "eof" => o.bytes = 0
  BY DEF GoodOutcome, BadOutcomes
<1>5. DOMAIN io[i] = {"op", "off", "len", "st", "res", "bytes", "abort"} /\ DOMAIN io = Blocks
  BY DEF IInv, Types
<1>6. /\ io'[i].op = io[i].op /\ io'[i].off = io[i].off /\ io'[i].st = "done"
      /\ io'[i].res = o.res /\ io'[i].bytes = o.bytes
      /\ \A j \in Blocks \ {i} : io'[j] = io[j] /\ buf'[j] = buf[j]
  BY <1>1, <1>3, <1>5 DEF IInv, Types
<1>7. Types'
  BY <1>1, <1>2, <1>3, <1>5 DEF IInv, Types
<1>8. \A j \in Blocks : Honest(j)'
  <2>1. Honest(i)'
    BY <1>3, <1>4, <1>6 DEF Honest, IInv, Types
  <2> QED
    BY <1>6, <2>1 DEF Honest, IInv
<1>9. ASSUME Going', NEW j \in Blocks PROVE Agrees(j)'
  <2>1. Going /\ Agrees(j)
    BY <1>2, <1>9 DEF IInv, Going
  <2>2. CASE j = i
    <3>1. InProgress(ctx, i)
      BY <1>2, <2>1, <2>2 DEF Agrees
    <3>2. ctx.blk[i].st # "read"
      BY <3>1 DEF InProgress, InProgressStates
    <3> QED
      BY <1>2, <1>3, <1>6, <2>1, <2>2, <3>1, <3>2 DEF Agrees, InProgress, IInv, Types
  <2> QED
    BY <1>2, <1>6, <2>1, <2>2 DEF Agrees, InProgress
<1> QED
  BY <1>3, <1>7, <1>8, <1>9 DEF IInv

-----------------------------------------------------------------------------
(* Starting operations                                                     *)

\* A read is issued into a free block, for the offset the block records.
LEMMA StartReadingKeeps ==
    ASSUME IInv, StartReading
    PROVE  IInv'
<1> DEFINE i == FreeBlockIndex
           len == IF TestEOF THEN limit ELSE ToRead
           r == IoStarts("read", ctx.readOffset, len)
           o == GoodOutcome(r)
           ios(sync) == [io EXCEPT ![i] = IF sync THEN [r EXCEPT !.st = "done", !.res = o.res,
                                                                 !.bytes = o.bytes] ELSE r]
           c(sync) == [ctx EXCEPT !.forceOp = IF sync THEN "write" ELSE "none"]
<1>1. PICK sync \in BOOLEAN :
        /\ IF sync THEN Effect(i, r, o) ELSE Quiet
        /\ IF cancel
           THEN EnterError("other", "loop", 0, ios(sync)) /\ ctx' = c(sync)
           ELSE /\ io' = ios(sync)
                /\ ctx' = [c(sync) EXCEPT
                       !.blk[i] = [st |-> IF TestEOF THEN "testing" ELSE "reading",
                                   off |-> ctx.readOffset, len |-> len],
                       !.readOffset = IF TestEOF THEN @ ELSE @ + len,
                       !.free = @ - 1, !.reading = @ + 1,
                       !.issued = Append(@, i)]
                /\ UNCHANGED <<pc, err>>
  BY DEF StartReading
<1>2. cancel' = cancel /\ pc = "top"
  BY DEF StartReading, env
<1>3. /\ r.op = "read" /\ r.off = ctx.readOffset /\ r.st = "pending" /\ r.res = "none"
      /\ DOMAIN r = {"op", "off", "len", "st", "res", "bytes", "abort"}
  BY DEF IoStarts, NoIo
<1>4. o.res \in {"ok", "eof"} /\ (o.res = "eof" => o.bytes = 0)
  BY <1>3 DEF GoodOutcome
<1> HIDE DEF i, len, r, o
<1>5. DOMAIN ios(sync) = Blocks
  BY DEF IInv, Types
<1>6. /\ \A j \in Blocks \ {i} : ios(sync)[j] = io[j]
      /\ i \in Blocks =>
            /\ ios(sync)[i].op = "read" /\ ios(sync)[i].off = ctx.readOffset
            /\ sync => ios(sync)[i].st = "done" /\ ios(sync)[i].res = o.res
                       /\ ios(sync)[i].bytes = o.bytes
            /\ ~sync => ios(sync)[i] = r
            /\ DOMAIN ios(sync)[i] = DOMAIN r
  BY <1>3 DEF IInv, Types
<1>7. /\ DOMAIN buf' = Blocks /\ DOMAIN tgt' = 0..MaxLen - 1 /\ NoMisplacedData'
      /\ \A j \in Blocks \ {i} : buf'[j] = buf[j]
      /\ sync /\ o.res = "ok" /\ i \in Blocks => buf'[i] = ctx.readOffset
  <2>1. CASE sync
    BY <1>1, <1>3, <2>1, EffectIsRight DEF IInv, Types
  <2>2. CASE ~sync
    BY <1>1, <2>2 DEF Quiet, IInv, Types, NoMisplacedData
  <2> QED
    BY <2>1, <2>2
<1> HIDE DEF ios
<1>8. /\ DOMAIN io' = Blocks
      /\ \A j \in Blocks : /\ DOMAIN io'[j] = DOMAIN ios(sync)[j]
                           /\ io'[j].op = ios(sync)[j].op /\ io'[j].off = ios(sync)[j].off
                           /\ io'[j].st = ios(sync)[j].st /\ io'[j].res = ios(sync)[j].res
                           /\ io'[j].bytes = ios(sync)[j].bytes
  <2>1. io' = ios(sync) \/ io' = CancelIo(ios(sync))
    BY <1>1 DEF EnterError
  <2>2. \A j \in Blocks : DOMAIN ios(sync)[j] = {"op", "off", "len", "st", "res", "bytes", "abort"}
    BY <1>3, <1>6 DEF IInv, Types
  <2> QED
    BY <1>5, <2>1, <2>2 DEF CancelIo
<1>9. \A j \in Blocks : Honest(j)'
  BY <1>3, <1>4, <1>6, <1>7, <1>8 DEF Honest, IInv
<1>10. /\ Context(ctx')
       /\ ~cancel => \A j \in Blocks :
             IF j = i THEN ctx'.blk[j].st \in {"testing", "reading"}
                           /\ ctx'.blk[j].off = ctx.readOffset
             ELSE ctx'.blk[j] = ctx.blk[j]
  <2>1. DOMAIN ctx = CtxFields /\ DOMAIN ctx.blk = Blocks
    BY DEF IInv, Types, Context
  <2>2. CASE cancel
    <3>1. DOMAIN ctx' = CtxFields /\ ctx'.blk = ctx.blk
      BY <1>1, <2>1, <2>2 DEF CtxFields
    <3> QED
      BY <2>2, <3>1 DEF IInv, Types, Context
  <2>3. CASE ~cancel
    <3>1. /\ DOMAIN ctx' = CtxFields
          /\ ctx'.blk = [ctx.blk EXCEPT ![i] = [st |-> IF TestEOF THEN "testing" ELSE "reading",
                                               off |-> ctx.readOffset, len |-> len]]
      BY <1>1, <2>1, <2>3 DEF CtxFields
    <3> QED
      BY <2>1, <2>3, <3>1 DEF IInv, Types, Context
  <2> QED
    BY <2>2, <2>3
<1>11. Types'
  BY <1>3, <1>6, <1>7, <1>8, <1>10 DEF Types, IInv
<1>12. ASSUME Going', NEW j \in Blocks PROVE Agrees(j)'
  <2>1. ~cancel /\ Going /\ Agrees(j)
    BY <1>1, <1>2, <1>12 DEF EnterError, Going, IInv
  <2>2. CASE j = i
    BY <1>6, <1>8, <1>10, <2>1, <2>2 DEF Agrees, InProgress, InProgressStates
  <2>3. CASE j # i
    BY <1>6, <1>7, <1>8, <1>10, <2>1, <2>3 DEF Agrees, InProgress
  <2> QED
    BY <2>2, <2>3
<1> QED
  BY <1>7, <1>9, <1>11, <1>12 DEF IInv

\* A write is issued from the buffer of the block that continues the target.
LEMMA StartWritingKeeps ==
    ASSUME IInv, StartWriting
    PROVE  IInv'
<1>1. PICK i \in NextToWrite, sync \in BOOLEAN :
        LET r == IoStarts("write", ctx.writeOffset, ctx.blk[i].len)
            o == GoodOutcome(r)
            ios == [io EXCEPT ![i] = IF sync THEN [r EXCEPT !.st = "done", !.res = o.res,
                                                            !.bytes = o.bytes] ELSE r]
            c == [ctx EXCEPT !.forceOp = IF ~ctx.readingDone /\ sync THEN "read" ELSE "none"]
        IN  /\ IF sync THEN Effect(i, r, o) ELSE Quiet
            /\ IF cancel
               THEN /\ EnterError("write", "loop", ctx.writeOffset + ctx.blk[i].len, ios)
                    /\ ctx' = c
               ELSE /\ io' = ios
                    /\ ctx' = [c EXCEPT !.writeOffset = @ + ctx.blk[i].len,
                                        !.blk[i].st = "writing", !.writing = @ + 1,
                                        !.issued = Append(@, i)]
                    /\ UNCHANGED <<pc, err>>
  BY DEF StartWriting
<1> DEFINE r == IoStarts("write", ctx.writeOffset, ctx.blk[i].len)
           o == GoodOutcome(r)
           ios == [io EXCEPT ![i] = IF sync THEN [r EXCEPT !.st = "done", !.res = o.res,
                                                           !.bytes = o.bytes] ELSE r]
           c == [ctx EXCEPT !.forceOp = IF ~ctx.readingDone /\ sync THEN "read" ELSE "none"]
<1>2. /\ cancel' = cancel /\ pc = "scan" /\ i \in Blocks /\ Agrees(i)
      /\ ctx.blk[i].st = "read" /\ ctx.blk[i].off = ctx.writeOffset /\ buf[i] = ctx.writeOffset
  BY DEF StartWriting, CanStartWriting, EndOfScan, NextToWrite, env, IInv, Going, Agrees
<1>3. /\ r.op = "write" /\ r.off = ctx.writeOffset /\ r.st = "pending" /\ r.res = "none"
      /\ DOMAIN r = {"op", "off", "len", "st", "res", "bytes", "abort"}
      /\ o.res = "ok"
  BY DEF IoStarts, NoIo, GoodOutcome
<1>4. /\ IF sync THEN Effect(i, r, o) ELSE Quiet
      /\ io' = ios \/ io' = CancelIo(ios)
      /\ cancel => pc' = "wrerr" /\ ctx' = c
      /\ ~cancel => /\ pc' = pc
                    /\ ctx' = [c EXCEPT !.writeOffset = @ + ctx.blk[i].len,
                                        !.blk[i].st = "writing", !.writing = @ + 1,
                                        !.issued = Append(@, i)]
  BY <1>1 DEF EnterError
<1> HIDE DEF r, o
<1>5. /\ DOMAIN ios = Blocks
      /\ \A j \in Blocks \ {i} : ios[j] = io[j]
      /\ ios[i].op = "write" /\ ios[i].off = ctx.writeOffset
      /\ ios[i].res # "eof" /\ ios[i].st \in {"pending", "done"}
      /\ DOMAIN ios[i] = DOMAIN r
  BY <1>2, <1>3 DEF IInv, Types
<1>6. DOMAIN buf' = Blocks /\ DOMAIN tgt' = 0..MaxLen - 1 /\ NoMisplacedData' /\ buf' = buf
  <2>1. CASE sync
    BY <1>2, <1>3, <1>4, <2>1, EffectIsRight
  <2>2. CASE ~sync
    BY <1>4, <2>2 DEF Quiet, IInv, Types, NoMisplacedData
  <2> QED
    BY <2>1, <2>2
<1>7. /\ Context(ctx')
      /\ ~cancel => \A j \in Blocks :
            IF j = i THEN ctx'.blk[j].st = "writing" /\ ctx'.blk[j].off = ctx.blk[j].off
                     ELSE ctx'.blk[j] = ctx.blk[j]
  <2>1. DOMAIN ctx = CtxFields /\ DOMAIN ctx.blk = Blocks
    BY DEF IInv, Types, Context
  <2>2. CASE cancel
    <3>1. DOMAIN ctx' = CtxFields /\ ctx'.blk = ctx.blk
      BY <1>4, <2>1, <2>2 DEF CtxFields
    <3> QED
      BY <2>2, <3>1 DEF IInv, Types, Context
  <2>3. CASE ~cancel
    <3>1. /\ DOMAIN ctx' = CtxFields
          /\ ctx'.blk = [ctx.blk EXCEPT ![i].st = "writing"]
      BY <1>4, <2>1, <2>3 DEF CtxFields
    <3> QED
      BY <1>2, <2>1, <2>3, <3>1 DEF IInv, Types, Context
  <2> QED
    BY <2>2, <2>3
<1> HIDE DEF ios
<1>8. /\ DOMAIN io' = Blocks
      /\ \A j \in Blocks : /\ DOMAIN io'[j] = DOMAIN ios[j]
                           /\ io'[j].op = ios[j].op /\ io'[j].off = ios[j].off
                           /\ io'[j].st = ios[j].st /\ io'[j].res = ios[j].res
                           /\ io'[j].bytes = ios[j].bytes
  <2>1. \A j \in Blocks : DOMAIN ios[j] = {"op", "off", "len", "st", "res", "bytes", "abort"}
    BY <1>3, <1>5 DEF IInv, Types
  <2> QED
    BY <1>4, <1>5, <2>1 DEF CancelIo
<1>9. \A j \in Blocks : Honest(j)'
  BY <1>2, <1>5, <1>6, <1>8 DEF Honest, IInv
<1>10. Types'
  BY <1>3, <1>5, <1>6, <1>7, <1>8 DEF Types, IInv
<1>11. ASSUME Going', NEW j \in Blocks PROVE Agrees(j)'
  <2>1. ~cancel /\ Going /\ Agrees(j)
    BY <1>2, <1>4, <1>11 DEF Going, IInv
  <2>2. CASE j = i
    BY <1>2, <1>5, <1>6, <1>7, <1>8, <2>1, <2>2 DEF Agrees, InProgress, InProgressStates
  <2>3. CASE j # i
    BY <1>5, <1>6, <1>7, <1>8, <2>1, <2>3 DEF Agrees, InProgress
  <2> QED
    BY <2>2, <2>3
<1> QED
  BY <1>6, <1>9, <1>10, <1>11 DEF IInv

-----------------------------------------------------------------------------
(* Finished operations                                                     *)

\* A finished operation leaves its block free or with the data it was read for.
LEMMA TakenKeeps ==
    ASSUME IInv, NEW i \in Blocks, pc = "scan", cancel' = cancel, pc' \in {"scan", "finish"},
           io' = [io EXCEPT ![i] = NoIo], buf' = buf, tgt' = tgt,
           Context(ctx'),
           \A j \in Blocks \ {i} :
              \/ ctx'.blk[j] = ctx.blk[j]
              \/ ctx.blk[j].st = "read" /\ ctx'.blk[j] = FreeBlk
              \/ ctx.blk[j].st = "reading" /\ ctx'.blk[j].st = "discarded",
           \/ ctx'.blk[i] = FreeBlk
           \/ ctx'.blk[i].st = "read" /\ ctx'.blk[i].off = buf[i]
    PROVE  IInv'
<1>1. Types' /\ NoMisplacedData'
  BY DEF IInv, Types, NoMisplacedData, NoIo
<1>2. io'[i].st = "idle" /\ \A j \in Blocks \ {i} : io'[j] = io[j]
  BY DEF IInv, Types, NoIo
<1>3. \A j \in Blocks : Honest(j)'
  BY <1>2 DEF Honest, IInv, Types, NoIo
<1>4. ASSUME NEW j \in Blocks PROVE Agrees(j)'
  <2>1. Agrees(j)
    BY DEF IInv, Going
  <2>2. CASE j = i
    BY <1>2, <2>2 DEF Agrees, FreeBlk
  <2>3. CASE j # i
    <3>1. CASE ctx'.blk[j] = ctx.blk[j]
      BY <1>2, <2>1, <2>3, <3>1 DEF Agrees, InProgress
    <3>2. CASE ctx.blk[j].st = "read" /\ ctx'.blk[j] = FreeBlk
      BY <1>2, <2>1, <2>3, <3>2 DEF Agrees, InProgress, InProgressStates, FreeBlk
    <3>3. CASE ctx.blk[j].st = "reading" /\ ctx'.blk[j].st = "discarded"
      BY <3>3 DEF Agrees, InProgress, InProgressStates
    <3> QED
      BY <2>3, <3>1, <3>2, <3>3
  <2> QED
    BY <2>2, <2>3
<1> QED
  BY <1>1, <1>3, <1>4 DEF IInv

LEMMA FreedKeeps ==
    ASSUME IInv, NEW i \in Blocks, ScanAt(i), ctx' = FreeBlock(ctx, i), ScanNext(ctx'),
           io' = [io EXCEPT ![i] = NoIo], Quiet, cancel' = cancel
    PROVE  IInv'
<1>1. /\ Context(ctx')
      /\ \A j \in Blocks : ctx'.blk[j] = IF j = i THEN FreeBlk ELSE ctx.blk[j]
  BY Freed DEF FreeBlock, IInv, Types
<1> QED
  BY <1>1, TakenKeeps DEF ScanAt, ScanNext, Quiet

\* The data of a finished read is kept as data of the offset it was read at.
LEMMA ReadDoneKeeps ==
    ASSUME IInv, ReadDone
    PROVE  IInv'
<1>1. PICK i \in Blocks :
         LET b == ctx.blk[i]
             testing == b.st = "testing"
             bytes == io[i].bytes
             eof == io[i].res = "eof"
             short == bytes < b.len
             size == IF short
                     THEN (IF ~testing \/ bytes # 0 THEN b.off + bytes ELSE fileSize)
                     ELSE (IF testing THEN Max({srcLen, b.off + bytes}) ELSE fileSize)
             c1 == [ctx EXCEPT
                      !.autoRetry = 0,
                      !.readingDone = @ \/ (eof /\ testing),
                      !.forceOp = IF eof THEN "none" ELSE @,
                      !.readOffset = IF IF short THEN ~testing \/ bytes # 0 ELSE testing
                                     THEN b.off + bytes ELSE @,
                      !.blk[i].len = IF short /\ bytes # 0 THEN bytes ELSE @]
             c2 == IF short /\ ~testing THEN DiscardBlocksBehindEOF(c1, size, i) ELSE c1
             c3 == IF bytes = 0 THEN FreeBlock(c2, i) ELSE KeepAsRead(c2, {i})
         IN  /\ ScanAt(i) /\ Finished(i)
             /\ b.st \in {"reading", "testing"} /\ io[i].res \in {"ok", "eof"}
             /\ fileSize' = size /\ ctx' = c3
             /\ io' = [io EXCEPT ![i] = NoIo]
             /\ ScanNext(c3)
             /\ UNCHANGED <<limit, opDone, err, out, result, env, setup>> /\ Quiet
  BY DEF ReadDone
<1> DEFINE testing == ctx.blk[i].st = "testing"
           eof == io[i].res = "eof"
           short == io[i].bytes < ctx.blk[i].len
           end == ctx.blk[i].off + io[i].bytes
           size == IF short
                   THEN (IF ~testing \/ io[i].bytes # 0 THEN end ELSE fileSize)
                   ELSE (IF testing THEN Max({srcLen, end}) ELSE fileSize)
           c1 == [ctx EXCEPT
                    !.autoRetry = 0,
                    !.readingDone = @ \/ (eof /\ testing),
                    !.forceOp = IF eof THEN "none" ELSE @,
                    !.readOffset = IF IF short THEN ~testing \/ io[i].bytes # 0 ELSE testing
                                   THEN end ELSE @,
                    !.blk[i].len = IF short /\ io[i].bytes # 0 THEN io[i].bytes ELSE @]
           c2 == IF short /\ ~testing THEN DiscardBlocksBehindEOF(c1, size, i) ELSE c1
           c3 == IF io[i].bytes = 0 THEN FreeBlock(c2, i) ELSE KeepAsRead(c2, {i})
<1>2. /\ pc = "scan" /\ io[i].st = "done" /\ pc' \in {"scan", "finish"} /\ cancel' = cancel
      /\ ctx.blk[i].st \in {"reading", "testing"} /\ io[i].res \in {"ok", "eof"}
      /\ io' = [io EXCEPT ![i] = NoIo] /\ buf' = buf /\ tgt' = tgt
  BY <1>1 DEF ScanAt, Finished, ScanNext, Quiet, env
<1>3. /\ Context(c1)
      /\ c1.blk[i].st = ctx.blk[i].st /\ c1.blk[i].off = ctx.blk[i].off
      /\ \A j \in Blocks \ {i} : c1.blk[j] = ctx.blk[j]
  <2>1. DOMAIN ctx = CtxFields /\ DOMAIN ctx.blk = Blocks
    BY DEF IInv, Types, Context
  <2>2. PICK newLen : DOMAIN c1 = CtxFields /\ c1.blk = [ctx.blk EXCEPT ![i].len = newLen]
    BY <2>1 DEF CtxFields
  <2> HIDE DEF c1
  <2> QED
    BY <2>1, <2>2 DEF IInv, Types, Context
<1> HIDE DEF c1
<1>4. /\ Context(c2)
      /\ c2.blk[i] = c1.blk[i]
      /\ \A j \in Blocks \ {i} :
            \/ c2.blk[j] = ctx.blk[j]
            \/ ctx.blk[j].st = "read" /\ c2.blk[j] = FreeBlk
            \/ ctx.blk[j].st = "reading" /\ c2.blk[j].st = "discarded"
  <2>1. CASE c2 = c1
    BY <1>3, <2>1
  <2>2. CASE c2 = DiscardBlocksBehindEOF(c1, size, i)
    <3> HIDE DEF size, c2
    <3>1. /\ Context(c2)
          /\ \A j \in Blocks :
                \/ c2.blk[j] = c1.blk[j]
                \/ j # i /\ c1.blk[j].st = "read" /\ c2.blk[j] = FreeBlk
                \/ /\ j # i /\ c1.blk[j].st = "reading"
                   /\ c2.blk[j] = [c1.blk[j] EXCEPT !.st = "discarded"]
      BY <1>3, <2>2, Discarded
    <3> QED
      BY <1>2, <1>3, <3>1 DEF Context
  <2> QED
    BY <2>1, <2>2
<1>5. Agrees(i) /\ Honest(i)
  BY <1>2 DEF IInv, Going
<1>6. ctx' = IF io[i].bytes = 0 THEN FreeBlock(c2, i) ELSE KeepAsRead(c2, {i})
  BY <1>1 DEF c1
<1> HIDE DEF c2, c3
<1>7. CASE io[i].bytes = 0
  <2>1. /\ Context(ctx')
        /\ \A j \in Blocks : ctx'.blk[j] = IF j = i THEN FreeBlk ELSE c2.blk[j]
    BY <1>6, <1>4, <1>7, Freed DEF FreeBlock
  <2> QED
    BY <1>2, <1>4, <2>1, TakenKeeps
<1>8. CASE io[i].bytes # 0
  <2>1. /\ Context(ctx')
        /\ \A j \in Blocks : ctx'.blk[j] = IF j = i THEN [c2.blk[j] EXCEPT !.st = "read"]
                                                    ELSE c2.blk[j]
    BY <1>6, <1>4, <1>8, Kept
  <2>2. ctx'.blk[i].st = "read" /\ ctx'.blk[i].off = ctx.blk[i].off
    BY <1>2, <1>3, <1>4, <2>1 DEF Context
  <2>3. buf[i] = ctx.blk[i].off
    BY <1>2, <1>5, <1>8 DEF Agrees, Honest
  <2> QED
    BY <1>2, <1>4, <2>1, <2>2, <2>3, TakenKeeps
<1> QED
  BY <1>7, <1>8

-----------------------------------------------------------------------------
(* Errors, and the end of the copy                                         *)

LEMMA AbandonKeeps ==
    ASSUME IInv, NEW how, Phase2, Abandon(how)
    PROVE  IInv'
<1>1. pc' = "final" /\ buf' = buf /\ cancel' = cancel
  BY DEF Abandon, Ends, env
<1>2. DOMAIN tgt' = 0..MaxLen - 1 /\ NoMisplacedData'
  BY AbandonCuts DEF OnlyCut, IInv, NoMisplacedData
<1>3. CASE cancel
  <2>1. Context(ctx')
    BY TakenOver DEF Phase2, IInv, Types
  <2>2. /\ DOMAIN io' = Blocks
        /\ \A i \in Blocks : io'[i] = NoIo \/ io'[i] = io[i]
    BY DEF Phase2, TakeOver
  <2>3. Types' /\ \A i \in Blocks : Honest(i)'
    BY <1>1, <1>2, <2>1, <2>2 DEF IInv, Types, Honest, NoIo
  <2> QED
    BY <1>1, <1>2, <1>3, <2>3 DEF IInv, Going
<1>4. CASE ~cancel
  <2>1. Context(ctx') /\ ctx'.blk = CancelOpPhase2(ctx, io).blk
    BY TakenOver DEF Phase2, IInv, Types
  <2> QED
    BY <1>1, <1>2, <1>4, <2>1, Phase2Keeps DEF Phase2, Going
<1> QED
  BY <1>3, <1>4

LEMMA ErrorsKeep ==
    ASSUME IInv,
           \/ CancelledInLoop \/ CancelledInErr \/ SkippedInErr \/ AutoRetry \/ UserAnswers
    PROVE  IInv'
<1>1. ASSUME NEW how, Phase2 /\ Abandon(how) PROVE IInv'
  BY <1>1, AbandonKeeps
<1>2. CASE CancelledInLoop \/ CancelledInErr \/ SkippedInErr
  BY <1>1, <1>2 DEF CancelledInLoop, CancelledInErr, SkippedInErr
<1>3. CASE AutoRetry
  <2>1. Context(CancelOpPhase2(ctx, io))
    BY TakenOver DEF IInv, Types
  <2>2. Context(ctx') /\ ctx'.blk = CancelOpPhase2(ctx, io).blk
    BY <1>3, <2>1 DEF AutoRetry, Context, CtxFields
  <2>3. AllFinished /\ TakeOver /\ buf' = buf /\ tgt' = tgt /\ Going
    BY <1>3 DEF AutoRetry, Quiet, Going
  <2> QED
    BY <2>2, <2>3, Phase2Keeps DEF IInv, Types, NoMisplacedData
<1>4. CASE UserAnswers
  <2>1. CASE /\ Phase2 /\ ~cancel
             /\ UNCHANGED <<scan, fileSize, limit, opDone, err, out, result, env, setup>>
             /\ Quiet
    <3>1. Context(ctx') /\ ctx'.blk = CancelOpPhase2(ctx, io).blk
      BY <2>1, TakenOver DEF Phase2, IInv, Types
    <3> QED
      BY <2>1, <3>1, Phase2Keeps DEF Phase2, Quiet, Going, IInv, Types, NoMisplacedData
  <2>2. CASE \E how : Phase2 /\ Abandon(how)
    BY <1>1, <2>2
  <2> QED
    BY <1>4, <2>1, <2>2 DEF UserAnswers
<1> QED
  BY <1>2, <1>3, <1>4

\* Steps that start nothing and take nothing over.
LEMMA OthersKeep ==
    ASSUME IInv,
           \/ ReadFileFails \/ BeginScan \/ ScanSkips \/ ReadFailed \/ WriteFailed
           \/ WriteDoneCancelled \/ WriteFileFails \/ EndOfWriting \/ WaitForOldest
           \/ Finish \/ TrimFails \/ TestAllocation \/ DeleteFails
           \/ Close \/ CloseFails \/ ResizeSource \/ UserCancels \/ UNCHANGED vars
    PROVE  IInv'
<1>1. /\ UNCHANGED <<ctx, buf, tgt>>
      /\ io' = io \/ io' = CancelIo(io)
      /\ Going' => Going
  <2>1. CASE ReadFileFails
    BY <2>1 DEF ReadFileFails, EnterError, env, Going
  <2>2. CASE ReadFailed
    BY <2>2 DEF ReadFailed, ScanAt, EnterError, Quiet, env, Going
  <2>3. CASE WriteFailed
    BY <2>3 DEF WriteFailed, ScanAt, EnterError, Quiet, env, Going
  <2>4. CASE WriteDoneCancelled
    BY <2>4 DEF WriteDoneCancelled, ScanAt, Quiet, env, Going
  <2>5. CASE WriteFileFails
    BY <2>5 DEF WriteFileFails, CanStartWriting, EndOfScan, EnterError, env, Going
  <2>6. CASE BeginScan \/ ScanSkips \/ EndOfWriting \/ WaitForOldest
    BY <2>6 DEF BeginScan, ScanSkips, ScanAt, EndOfWriting, EndOfScan, WaitForOldest, Quiet,
                env, Going
  <2>7. CASE TrimFails \/ DeleteFails
    BY <2>7 DEF TrimFails, DeleteFails, EnterError, env, Going
  <2>8. CASE Finish \/ TestAllocation \/ Close \/ CloseFails
    BY <2>8 DEF Finish, TestAllocation, Close, CloseFails, Quiet, env, Going
  <2>9. CASE ResizeSource \/ UserCancels \/ UNCHANGED vars
    BY <2>9 DEF ResizeSource, UserCancels, vars, Going
  <2> QED
    BY <2>1, <2>2, <2>3, <2>4, <2>5, <2>6, <2>7, <2>8, <2>9
<1>2. Context(ctx') /\ ctx'.blk = ctx.blk /\ buf' = buf /\ tgt' = tgt
  BY <1>1 DEF IInv, Types
<1> QED
  BY <1>1, <1>2, UntouchedKeeps

\* Steps that cut or delete the target.
LEMMA TargetKeeps ==
    ASSUME IInv,
           \/ ReopenFails \/ RetryReading \/ RetryWriting \/ Trim \/ DeleteUntrusted
           \/ CloseErrAnswered
    PROVE  IInv'
<1>1. Context(ctx)
  BY DEF IInv, Types
<1>2. ASSUME ctx' = [ctx EXCEPT !.forceOp = ctx'.forceOp]
      PROVE  Context(ctx') /\ ctx'.blk = ctx.blk
  BY <1>1, <1>2 DEF Context, CtxFields
<1>3. Resume => ctx' = [ctx EXCEPT !.forceOp = ctx'.forceOp]
  BY <1>1 DEF Resume, Context, CtxFields
<1>4. CASE ReopenFails
  <2>1. UNCHANGED <<ctx, io, buf>> /\ Going
    BY <1>4 DEF ReopenFails, Going
  <2>2. CASE tgt' = tgt
    BY <1>1, <2>1, <2>2, UntouchedKeeps
  <2>3. CASE \E cut \in BOOLEAN : TargetStays(cut, ctx.writeOffset)
    BY <1>1, <2>1, <2>3, TargetIsCut, CutKeeps
  <2> QED
    BY <1>4, <2>2, <2>3 DEF ReopenFails
<1>5. CASE RetryReading
  <2>1. Going
    BY <1>5 DEF RetryReading, Going
  <2>2. CASE Resume /\ UNCHANGED <<out, tgt, tgtLen>>
    BY <1>2, <1>3, <2>1, <2>2, UntouchedKeeps DEF Resume
  <2> QED
    BY <1>5, <2>1, <2>2, CopyAgainKeeps DEF RetryReading
<1>6. CASE RetryWriting
  <2>1. Going
    BY <1>6 DEF RetryWriting, Going
  <2>2. ASSUME NEW len, Resume,
               tgt' = [u \in 0..MaxLen - 1 |-> IF u < len THEN tgt[u] ELSE Hole]
        PROVE  IInv'
    <3>1. OnlyCut
      BY <2>2 DEF OnlyCut
    <3> QED
      BY <1>2, <1>3, <2>1, <2>2, <3>1, CutKeeps DEF Resume
  <2> QED
    BY <1>6, <2>1, <2>2, CopyAgainKeeps DEF RetryWriting
<1>7. CASE Trim
  <2>1. CASE wholeAlloc /\ opDone < opSize
    <3>1. OnlyCut
      BY <1>7, <2>1 DEF Trim, OnlyCut
    <3> QED
      BY <1>1, <1>7, <3>1, CutKeeps DEF Trim, env, Going
  <2>2. CASE ~(wholeAlloc /\ opDone < opSize)
    BY <1>1, <1>7, <2>2, UntouchedKeeps DEF Trim, env, Going
  <2> QED
    BY <2>1, <2>2
<1>8. CASE DeleteUntrusted
  BY <1>8, ReadAgainKeeps DEF DeleteUntrusted
<1>9. CASE CloseErrAnswered
  <2>1. Going
    BY <1>9 DEF CloseErrAnswered, Going
  <2>2. ASSUME NEW how, Abandon(how), UNCHANGED <<ctx, io>> PROVE IInv'
    BY <1>1, <2>1, <2>2, AbandonCuts, CutKeeps DEF Abandon, Ends
  <2> QED
    BY <1>9, <2>1, <2>2, CopyAgainKeeps DEF CloseErrAnswered
<1> QED
  BY <1>4, <1>5, <1>6, <1>7, <1>8, <1>9

LEMMA ScanKeeps ==
    ASSUME IInv, WriteDone \/ DiscardedDone
    PROVE  IInv'
<1>1. CASE WriteDone
  <2>1. PICK i \in Blocks :
          /\ ScanAt(i) /\ ctx' = FreeBlock(ctx, i) /\ ScanNext(ctx')
          /\ io' = [io EXCEPT ![i] = NoIo] /\ Quiet /\ cancel' = cancel
    BY <1>1 DEF WriteDone, env
  <2> QED
    BY <2>1, FreedKeeps
<1>2. CASE DiscardedDone
  <2>1. PICK i \in Blocks :
          /\ ScanAt(i) /\ ctx' = FreeBlock(ctx, i) /\ ScanNext(ctx')
          /\ io' = [io EXCEPT ![i] = NoIo] /\ Quiet /\ cancel' = cancel
    BY <1>2 DEF DiscardedDone, env
  <2> QED
    BY <2>1, FreedKeeps
<1> QED
  BY <1>1, <1>2

-----------------------------------------------------------------------------
(* The theorems                                                            *)

LEMMA InitEstablishes == Init => IInv
<1> SUFFICES ASSUME Init PROVE IInv
  OBVIOUS
<1>1. Types /\ NoMisplacedData
  BY DEF Init, Types, NoMisplacedData, Context, CtxFields, NewCtx, FreeBlk, NoIo
<1>2. \A i \in Blocks : Honest(i) /\ Agrees(i)
  BY DEF Init, Honest, Agrees, NewCtx, FreeBlk, NoIo
<1> QED
  BY <1>1, <1>2 DEF IInv

LEMMA NextKeeps == IInv /\ [Next]_vars => IInv'
<1> SUFFICES ASSUME IInv, [Next]_vars PROVE IInv'
  OBVIOUS
<1>1. CASE Worker
  BY <1>1, StartReadingKeeps, StartWritingKeeps, ReadDoneKeeps, ScanKeeps, ErrorsKeep,
     OthersKeep, TargetKeeps DEF Worker
<1>2. CASE \E i \in Blocks : IoCompletes(i)
  BY <1>2, IoCompletesKeeps
<1>3. CASE ResizeSource \/ UserCancels \/ Terminated \/ UNCHANGED vars
  BY <1>3, OthersKeep DEF Terminated
<1> QED
  BY <1>1, <1>2, <1>3 DEF Next

LEMMA Invariance == Spec => []IInv
  BY InitEstablishes, NextKeeps, PTL DEF Spec

(* Every unit of the target is the unit of the source at the same offset, or   *)
(* was never written: however reads and writes are reordered, cut short, fail, *)
(* are cancelled and retried (DoCopyFileLoopAsync, HandleReadingErr,           *)
(* HandleWritingErr).                                                          *)
THEOREM DataInPlace == Spec => []NoMisplacedData
<1>1. IInv => NoMisplacedData
  BY DEF IInv
<1> QED
  BY <1>1, Invariance, PTL

(* The kernel uses no buffer whose block the loop thinks free or read, except  *)
(* on the way out after Cancel: data that waits to be written is never         *)
(* overwritten by a read (CCopy_Context).                                      *)
THEOREM BuffersAreIdle == Spec => []IdleBuffersAreIdle
<1>1. IInv => IdleBuffersAreIdle
  BY DEF IInv, Going, Agrees, InProgress, InProgressStates, IdleBuffersAreIdle
<1> QED
  BY <1>1, Invariance, PTL

-----------------------------------------------------------------------------
(* Induction *)

LEMMA LeastElement ==
    ASSUME NEW T, T \subseteq Nat, T # {}
    PROVE  \E x \in T : \A y \in T : x <= y
<1> DEFINE R == {ss \in Nat \X Nat : ss[1] < ss[2]}
<1>1. IsWellFoundedOn(R, Nat)
  BY NatLessThanWellFounded DEF OpToRel
<1> HIDE DEF R
<1>2. PICK x \in T : \A y \in T : <<y, x>> \notin R
  BY <1>1, WFMin
<1>3. ASSUME NEW y \in T PROVE x <= y
  <2>1. <<y, x>> \notin R /\ y \in Nat /\ x \in Nat
    BY <1>2
  <2>2. ~(y < x)
    BY <2>1 DEF R
  <2> QED BY <2>1, <2>2
<1> QED BY <1>3

\* what holds of 0 and of the successor of each i it holds of, holds up to n
LEMMA SetInduction ==
    ASSUME NEW n \in Nat, NEW T, 0 \in T,
           \A i \in 0..n : i \in T /\ i # n => i + 1 \in T
    PROVE  0..n \subseteq T
<1> SUFFICES ASSUME ~(0..n \subseteq T) PROVE FALSE
  OBVIOUS
<1> DEFINE U == (0..n) \ T
<1>1. PICK x \in U : \A y \in U : x <= y
  <2>1. U \subseteq Nat /\ U # {}
    OBVIOUS
  <2> HIDE DEF U
  <2> QED BY <2>1, LeastElement
<1>2. x # 0 /\ x - 1 \in 0..n /\ x - 1 # n /\ ~(x <= x - 1)
  BY <1>1
<1>3. x - 1 \in T
  BY <1>1, <1>2
<1>4. (x - 1) + 1 \in T
  BY <1>2, <1>3
<1>5. (x - 1) + 1 = x
  BY <1>1
<1> QED BY <1>1, <1>4, <1>5

\* a function may be defined by its first value and a step from each to the next
LEMMA RecursionExists ==
    ASSUME NEW V, NEW v \in V, NEW n \in Nat, NEW step \in [1..n -> [V -> V]]
    PROVE  \E f \in [0..n -> V] : f[0] = v /\ \A i \in 1..n : f[i] = step[i][f[i - 1]]
<1> DEFINE Good(m) == \E f \in [0..m -> V] : f[0] = v /\ \A i \in 1..m : f[i] = step[i][f[i - 1]]
<1> DEFINE T == {m \in 0..n : Good(m)}
<1>1. 0 \in T
  <2> DEFINE f == [i \in 0..0 |-> v]
  <2>1. f \in [0..0 -> V] /\ f[0] = v /\ \A i \in 1..0 : f[i] = step[i][f[i - 1]]
    OBVIOUS
  <2> HIDE DEF f
  <2>2. Good(0) BY <2>1
  <2> QED BY <2>2
<1>2. ASSUME NEW m \in 0..n, m \in T, m # n PROVE m + 1 \in T
  <2>1. PICK f \in [0..m -> V] : f[0] = v /\ \A i \in 1..m : f[i] = step[i][f[i - 1]]
    BY <1>2
  <2> DEFINE g == [i \in 0..(m + 1) |-> IF i = m + 1 THEN step[i][f[m]] ELSE f[i]]
  <2>2. f[m] \in V /\ m + 1 \in 1..n
    BY <2>1, <1>2
  <2>3. g \in [0..(m + 1) -> V]
    <3>1. step[m + 1][f[m]] \in V
      BY <2>2
    <3> QED BY <3>1, <2>1
  <2>4. g[0] = v
    BY <2>1
  <2>5. ASSUME NEW i \in 1..(m + 1) PROVE g[i] = step[i][g[i - 1]]
    BY <2>1
  <2> HIDE DEF g
  <2>6. Good(m + 1)
    BY <2>3, <2>4, <2>5
  <2> QED BY <2>6, <2>2
<1>3. 0..n \subseteq T
  <2> HIDE DEF T
  <2> QED BY <1>1, <1>2, SetInduction
<1> QED BY <1>3


-----------------------------------------------------------------------------
(* Least and greatest elements *)

LEMMA MinIsLeast ==
    ASSUME NEW S, S \subseteq Nat, S # {}
    PROVE  Min(S) \in S /\ \A x \in S : Min(S) <= x
BY LeastElement DEF Min

LEMMA MaxIsGreatest ==
    ASSUME NEW S, S \subseteq Nat, S # {}, NEW bound \in Nat, \A x \in S : x <= bound
    PROVE  Max(S) \in S /\ \A x \in S : Max(S) >= x
<1> DEFINE T == {bound - x : x \in S}
<1>1. T \subseteq Nat /\ T # {}
  <2>1. \A x \in S : bound - x \in Nat
    OBVIOUS
  <2> QED
    BY <2>1
<1>2. PICK t \in T : \A y \in T : t <= y
  <2> HIDE DEF T
  <2> QED BY <1>1, LeastElement
<1>3. PICK x \in S : t = bound - x
  BY <1>2
<1>4. \A y \in S : x >= y
  <2> SUFFICES ASSUME NEW y \in S PROVE x >= y
    OBVIOUS
  <2>1. t <= bound - y
    BY <1>2
  <2> QED
    BY <1>3, <2>1
<1> QED
  BY <1>4 DEF Max

LEMMA MaxOfTwo ==
    ASSUME NEW a \in Nat, NEW b \in Nat
    PROVE  Max({a, b}) \in {a, b} /\ Max({a, b}) >= a /\ Max({a, b}) >= b
<1>1. {a, b} \subseteq Nat /\ {a, b} # {} /\ a + b \in Nat /\ \A x \in {a, b} : x <= a + b
  OBVIOUS
<1> QED
  BY <1>1, MaxIsGreatest

LEMMA MinOfTwo ==
    ASSUME NEW a \in Nat, NEW b \in Nat
    PROVE  Min({a, b}) \in {a, b} /\ Min({a, b}) <= a /\ Min({a, b}) <= b
<1>1. {a, b} \subseteq Nat /\ {a, b} # {}
  OBVIOUS
<1> QED
  BY <1>1, MinIsLeast

LEMMA BlocksAreFinite == IsFiniteSet(Blocks) /\ Cardinality(Blocks) = N /\ N \in Nat
<1>1. N \in Nat \ {0}
  BY CopyAssumption
<1> QED
  BY <1>1, FS_Interval DEF Blocks

-----------------------------------------------------------------------------
(* ContiguousEnd *)

Covers(c, i, u) == c.blk[i].off <= u /\ u < c.blk[i].off + c.blk[i].len

\* the blocks of S hold units, no two of them the same one
Apart(c, S) ==
    /\ \A i \in S : c.blk[i].off \in Nat /\ c.blk[i].len \in Nat \ {0}
    /\ \A i, j \in S : \/ i = j
                       \/ c.blk[i].off + c.blk[i].len <= c.blk[j].off
                       \/ c.blk[j].off + c.blk[j].len <= c.blk[i].off

Held(c) == {i \in Blocks : c.blk[i].st = "read"}

After(c, o) == {i \in Blocks : c.blk[i].st = "read" /\ c.blk[i].off = o}

OneFurther(c, o) == IF After(c, o) = {} THEN o ELSE o + c.blk[Min(After(c, o))].len

\* f[k] is where the data ends after k blocks
EndsStepwise(f, c, from) ==
    /\ f \in [0..N -> Nat] /\ ContiguousEnd(c, from) = f[N]
    /\ f[0] = from /\ \A k \in 1..N : f[k] = OneFurther(c, f[k - 1])

LEMMA NextBlock ==
    ASSUME NEW c, Apart(c, Held(c)), NEW o \in Nat
    PROVE  /\ OneFurther(c, o) \in Nat
           /\ \/ After(c, o) = {} /\ OneFurther(c, o) = o
              \/ \E i \in Held(c) : /\ c.blk[i].off = o
                                    /\ OneFurther(c, o) = c.blk[i].off + c.blk[i].len
<1>1. CASE After(c, o) = {}
  BY <1>1 DEF OneFurther
<1>2. CASE After(c, o) # {}
  <2>1. After(c, o) \subseteq Nat /\ Blocks \subseteq Nat
    BY DEF After, Blocks
  <2>2. Min(After(c, o)) \in After(c, o)
    BY <1>2, <2>1, MinIsLeast
  <2>3. /\ Min(After(c, o)) \in Held(c) /\ c.blk[Min(After(c, o))].off = o
        /\ c.blk[Min(After(c, o))].len \in Nat
    BY <2>2 DEF After, Held, Apart
  <2> QED
    BY <1>2, <2>3 DEF OneFurther
<1> QED
  BY <1>1, <1>2

LEMMA EndIsRecursive ==
    ASSUME NEW c, Apart(c, Held(c)), NEW from \in Nat
    PROVE  \E f : EndsStepwise(f, c, from)
<1> DEFINE next(o) == {i \in Blocks : c.blk[i].st = "read" /\ c.blk[i].off = o}
           Fits(g) == g = [k \in 0..N |->
               IF k = 0 THEN from
               ELSE LET o == g[k - 1]
                    IN  IF next(o) = {} THEN o
                        ELSE LET i == Min(next(o)) IN o + c.blk[i].len]
           e == CHOOSE g : Fits(g)
           Step == [k \in 1..N |-> [o \in Nat |-> OneFurther(c, o)]]
<1>1. N \in Nat
  BY BlocksAreFinite
<1>2. Step \in [1..N -> [Nat -> Nat]]
  BY NextBlock
<1>3. PICK f \in [0..N -> Nat] : f[0] = from /\ \A k \in 1..N : f[k] = Step[k][f[k - 1]]
  <2> HIDE DEF Step
  <2>1. PICK W, n, v : W = Nat /\ n = N /\ v = from
    OBVIOUS
  <2>2. PICK step : step = Step
    OBVIOUS
  <2>3. n \in Nat /\ v \in W /\ step \in [1..n -> [W -> W]]
    BY <1>1, <1>2, <2>1, <2>2
  <2>4. \E f \in [0..n -> W] : f[0] = v /\ \A k \in 1..n : f[k] = step[k][f[k - 1]]
    BY ONLY <2>3, RecursionExists
  <2>5. PICK f \in [0..n -> W] : f[0] = v /\ \A k \in 1..n : f[k] = step[k][f[k - 1]]
    BY <2>4
  <2>6. f \in [0..N -> Nat] /\ f[0] = from /\ \A k \in 1..N : f[k] = Step[k][f[k - 1]]
    BY <2>1, <2>2, <2>5
  <2> QED
    BY <2>6
<1>4. \A k \in 1..N : k - 1 \in 0..N /\ f[k - 1] \in Nat
  BY <1>1, <1>3
<1>5. \A k \in 1..N : f[k] = OneFurther(c, f[k - 1])
  BY <1>3, <1>4
<1>6. \A o : OneFurther(c, o) = IF next(o) = {} THEN o ELSE o + c.blk[Min(next(o))].len
  BY DEF OneFurther, After
<1> HIDE DEF Step
<1>7. Fits(f)
  <2>1. ASSUME NEW k \in 0..N
        PROVE  f[k] = IF k = 0 THEN from
                      ELSE IF next(f[k - 1]) = {} THEN f[k - 1]
                           ELSE f[k - 1] + c.blk[Min(next(f[k - 1]))].len
    <3>1. CASE k = 0
      BY <1>3, <3>1
    <3>2. CASE k # 0
      <4>1. k \in 1..N
        BY <1>1, <3>2
      <4> HIDE DEF next
      <4> QED
        BY <1>5, <1>6, <3>2, <4>1
    <3> QED
      BY <3>1, <3>2
  <2>2. f = [k \in 0..N |-> f[k]]
    BY <1>3
  <2> HIDE DEF next
  <2>3. [k \in 0..N |-> f[k]] = [k \in 0..N |->
                      IF k = 0 THEN from
                      ELSE IF next(f[k - 1]) = {} THEN f[k - 1]
                           ELSE f[k - 1] + c.blk[Min(next(f[k - 1]))].len]
    BY <2>1
  <2> QED
    BY <2>2, <2>3
<1>8. Fits(e)
  <2> HIDE DEF Fits
  <2> QED
    BY <1>7
<1>9. ContiguousEnd(c, from) = e[N]
  BY DEF ContiguousEnd
<1> HIDE DEF e
<1>10. e = [k \in 0..N |-> IF k = 0 THEN from ELSE OneFurther(c, e[k - 1])]
  <2> HIDE DEF next
  <2> QED
    BY <1>6, <1>8
<1>11. /\ DOMAIN e = 0..N /\ e[0] = from
       /\ \A k \in 1..N : e[k] = OneFurther(c, e[k - 1])
  <2>1. 0 \in 0..N /\ \A k \in 1..N : k \in 0..N /\ k # 0
    BY <1>1
  <2> QED
    BY <1>10, <2>1
<1>12. e \in [0..N -> Nat]
  <2> DEFINE T == {k \in 0..N : e[k] \in Nat}
  <2>1. 0 \in T
    BY <1>1, <1>11
  <2>2. ASSUME NEW k \in 0..N, k \in T, k # N PROVE k + 1 \in T
    <3>1. k + 1 \in 1..N /\ (k + 1) - 1 = k
      BY <1>1, <2>2
    <3>2. e[k + 1] = OneFurther(c, e[k])
      BY <1>11, <3>1
    <3> QED
      BY <2>2, <3>1, <3>2, NextBlock
  <2> HIDE DEF T
  <2>3. 0..N \subseteq T
    BY <1>1, <2>1, <2>2, SetInduction
  <2> USE DEF T
  <2>4. e = [k \in 0..N |-> e[k]]
    BY <1>10, <1>11
  <2> QED
    BY <2>3, <2>4
<1> QED
  BY <1>9, <1>11, <1>12 DEF EndsStepwise

\* the blocks held that begin before o
Before(c, o) == {i \in Held(c) : c.blk[i].off < o}

\* every unit in from..o-1 is held by a block within that stretch
Stretch(c, from, o) ==
    /\ o \in Nat /\ from <= o
    /\ \A u \in from..(o - 1) :
          \E i \in Held(c) : /\ Covers(c, i, u)
                             /\ from <= c.blk[i].off /\ c.blk[i].off + c.blk[i].len <= o

\* the data that follows "from" is held without a gap, and none follows it
LEMMA DataEnds ==
    ASSUME NEW c, Apart(c, Held(c)), NEW from \in Nat
    PROVE  /\ Stretch(c, from, ContiguousEnd(c, from))
           /\ \A i \in Held(c) : c.blk[i].off # ContiguousEnd(c, from)
<1>1. PICK f : EndsStepwise(f, c, from)
  BY EndIsRecursive
<1>2. N \in Nat /\ IsFiniteSet(Blocks) /\ Cardinality(Blocks) = N
  BY BlocksAreFinite
<1>3. /\ f \in [0..N -> Nat] /\ ContiguousEnd(c, from) = f[N] /\ f[0] = from
      /\ \A k \in 1..N : f[k] = OneFurther(c, f[k - 1])
  BY <1>1 DEF EndsStepwise
<1>4. ASSUME NEW k \in 0..N, k # N
      PROVE  /\ k + 1 \in 0..N /\ f[k] \in Nat /\ f[k + 1] \in Nat
             /\ \/ After(c, f[k]) = {} /\ f[k + 1] = f[k]
                \/ \E i \in Held(c) : /\ c.blk[i].off = f[k]
                                      /\ f[k + 1] = c.blk[i].off + c.blk[i].len
  <2>1. k + 1 \in 1..N /\ k + 1 \in 0..N /\ (k + 1) - 1 = k
    BY <1>2, <1>4
  <2>2. f[k + 1] = OneFurther(c, f[k]) /\ f[k] \in Nat
    BY <1>3, <2>1
  <2> QED
    BY <2>1, <2>2, NextBlock
<1>5. \A k \in 0..N : Stretch(c, from, f[k])
  <2> DEFINE T == {k \in 0..N : Stretch(c, from, f[k])}
  <2>1. 0 \in T
    BY <1>2, <1>3 DEF Stretch
  <2>2. ASSUME NEW k \in 0..N, k \in T, k # N PROVE k + 1 \in T
    <3>1. Stretch(c, from, f[k])
      BY <2>2
    <3>2. CASE f[k + 1] = f[k]
      BY <1>4, <2>2, <3>1, <3>2
    <3>3. CASE \E i \in Held(c) : c.blk[i].off = f[k] /\ f[k + 1] = c.blk[i].off + c.blk[i].len
      <4>1. PICK i \in Held(c) : c.blk[i].off = f[k] /\ f[k + 1] = c.blk[i].off + c.blk[i].len
        BY <3>3
      <4>2. c.blk[i].off \in Nat /\ c.blk[i].len \in Nat \ {0}
        BY DEF Apart
      <4>3. f[k + 1] \in Nat /\ from <= f[k] /\ f[k] <= f[k + 1] /\ f[k] \in Nat
        BY <1>4, <2>2, <3>1, <4>1, <4>2 DEF Stretch
      <4>4. ASSUME NEW u \in from..(f[k + 1] - 1)
            PROVE  \E j \in Held(c) : /\ Covers(c, j, u) /\ from <= c.blk[j].off
                                      /\ c.blk[j].off + c.blk[j].len <= f[k + 1]
        <5>1. CASE u < f[k]
          <6>1. u \in from..(f[k] - 1)
            BY <4>3, <5>1
          <6>2. PICK j \in Held(c) : /\ Covers(c, j, u) /\ from <= c.blk[j].off
                                     /\ c.blk[j].off + c.blk[j].len <= f[k]
            BY <3>1, <6>1 DEF Stretch
          <6>3. c.blk[j].off \in Nat /\ c.blk[j].len \in Nat
            BY DEF Apart
          <6> QED
            BY <4>3, <6>2, <6>3
        <5>2. CASE ~(u < f[k])
          BY <4>1, <4>2, <4>3, <5>2 DEF Covers
        <5> QED
          BY <5>1, <5>2
      <4> QED
        BY <1>4, <2>2, <4>3, <4>4 DEF Stretch
    <3> QED
      BY <1>4, <2>2, <3>2, <3>3
  <2> HIDE DEF T
  <2>3. 0..N \subseteq T
    BY <1>2, <2>1, <2>2, SetInduction
  <2> QED
    BY <2>3 DEF T
<1>6. N \in 0..N
  BY <1>2
<1>7. ASSUME NEW last \in Held(c), c.blk[last].off = f[N] PROVE FALSE
  <2>1. \A k \in 0..N : After(c, f[k]) # {}
    <3> SUFFICES ASSUME NEW m \in 0..N, After(c, f[m]) = {} PROVE FALSE
      OBVIOUS
    <3> DEFINE T == {k \in 0..N : k >= m => f[k] = f[m]}
    <3>1. 0 \in T
      BY <1>2
    <3>2. ASSUME NEW k \in 0..N, k \in T, k # N PROVE k + 1 \in T
      <4>1. CASE k + 1 = m
        BY <1>4, <3>2, <4>1
      <4>2. CASE k + 1 < m
        BY <1>2, <1>4, <3>2, <4>2
      <4>3. CASE k >= m
        <5>1. f[k] = f[m] /\ k + 1 \in 0..N
          BY <1>4, <3>2, <4>3
        <5>2. ~\E i \in Held(c) : c.blk[i].off = f[k]
          BY <5>1 DEF After, Held
        <5> QED
          BY <1>4, <3>2, <5>1, <5>2
      <4> QED
        BY <1>2, <4>1, <4>2, <4>3
    <3> HIDE DEF T
    <3>3. N \in T
      BY <1>2, <1>6, <3>1, <3>2, SetInduction
    <3>4. f[N] = f[m]
      BY <1>2, <3>3 DEF T
    <3> QED
      BY <1>7, <3>4 DEF After, Held
  <2> DEFINE T == {k \in 0..N : Cardinality(Before(c, f[k])) >= k}
  <2>2. \A o : IsFiniteSet(Before(c, o)) /\ Cardinality(Before(c, o)) \in Nat
    BY <1>2, FS_Subset, FS_CardinalityType DEF Before, Held
  <2>3. 0 \in T
    BY <1>2, <2>2
  <2>4. ASSUME NEW k \in 0..N, k \in T, k # N PROVE k + 1 \in T
    <3>1. PICK i \in Held(c) : c.blk[i].off = f[k] /\ f[k + 1] = c.blk[i].off + c.blk[i].len
      BY <1>4, <2>1, <2>4
    <3>2. \A j \in Held(c) : c.blk[j].off \in Nat /\ c.blk[j].len \in Nat \ {0}
      BY DEF Apart
    <3>3. f[k] < f[k + 1] /\ f[k] \in Nat /\ f[k + 1] \in Nat
      BY <1>4, <2>4, <3>1, <3>2
    <3>4. i \notin Before(c, f[k]) /\ Before(c, f[k]) \cup {i} \subseteq Before(c, f[k + 1])
      BY <3>1, <3>2, <3>3 DEF Before
    <3>5. Cardinality(Before(c, f[k]) \cup {i}) = Cardinality(Before(c, f[k])) + 1
      BY <2>2, <3>4, FS_AddElement
    <3>6. Cardinality(Before(c, f[k]) \cup {i}) <= Cardinality(Before(c, f[k + 1]))
      BY <2>2, <3>4, FS_Subset
    <3> QED
      BY <1>4, <2>2, <2>4, <3>5, <3>6
  <2> HIDE DEF T
  <2>5. N \in T
    BY <1>2, <1>6, <2>3, <2>4, SetInduction
  <2>6. last \notin Before(c, f[N]) /\ Before(c, f[N]) \cup {last} \subseteq Blocks
    <3>1. f[N] \in Nat
      BY <1>3, <1>6
    <3> QED
      BY <1>7, <3>1 DEF Before, Held
  <2>7. Cardinality(Before(c, f[N]) \cup {last}) = Cardinality(Before(c, f[N])) + 1
    BY <2>2, <2>6, FS_AddElement
  <2>8. Cardinality(Before(c, f[N]) \cup {last}) <= N
    BY <1>2, <2>6, FS_Subset
  <2> QED
    BY <1>2, <2>2, <2>5, <2>7, <2>8 DEF T
<1> QED
  BY <1>3, <1>5, <1>6, <1>7

-----------------------------------------------------------------------------
(* The order of the blocks                                                 *)

EndOf(c, i) == c.blk[i].off + c.blk[i].len

Ahead(c) == {i \in Blocks : c.blk[i].st \in {"read", "reading"}}
Data(c) == {i \in Blocks : c.blk[i].st \in {"read", "reading", "writing"}}
Free(c) == {i \in Blocks : c.blk[i].st = "free"}
Reading(c) == {i \in Blocks : c.blk[i].st \in {"reading", "testing"}}

\* The blocks that hold or will hold data share no unit; the ones being written
\* lie before WriteOffset, and the others cover what is left up to ReadOffset.
\* The end is tested at ReadOffset, when nothing else is read.
Tiled(c, size) ==
    /\ c.writeOffset \in Nat /\ c.readOffset \in Nat /\ size \in Nat
    /\ c.writeOffset <= c.readOffset /\ c.readOffset <= size
    /\ Apart(c, Data(c))
    /\ \A i \in Blocks : c.blk[i].st = "writing" => EndOf(c, i) <= c.writeOffset
    /\ \A i \in Ahead(c) : c.writeOffset <= c.blk[i].off /\ EndOf(c, i) <= c.readOffset
    /\ \A u \in c.writeOffset..(c.readOffset - 1) : \E i \in Ahead(c) : Covers(c, i, u)
    /\ \A i \in Blocks : c.blk[i].st = "testing" =>
          /\ c.blk[i].off = c.readOffset /\ c.readOffset = size
          /\ c.blk[i].len \in Nat \ {0} /\ Reading(c) = {i}

Counted(c) ==
    /\ c.free = Cardinality(Free(c)) /\ c.reading = Cardinality(Reading(c))
    /\ c.freeIdx \in Blocks
    /\ \A i \in Blocks : c.blk[i].st \in BlockStates

\* everything but the offsets and the blocks
SameCounts(c, d) ==
    /\ Context(d) /\ Counted(d)
    /\ d.readOffset = c.readOffset /\ d.writeOffset = c.writeOffset
    /\ d.readingDone = c.readingDone /\ d.forceOp = c.forceOp /\ d.autoRetry = c.autoRetry

LEMMA BlocksOf ==
    ASSUME NEW S, S \subseteq Blocks
    PROVE  IsFiniteSet(S) /\ Cardinality(S) \in Nat /\ S \subseteq Nat /\ \A x \in S : x <= N
<1>1. IsFiniteSet(S)
  BY BlocksAreFinite, FS_Subset
<1>2. Cardinality(S) \in Nat
  BY <1>1, FS_CardinalityType
<1>3. S \subseteq Nat /\ \A x \in S : x <= N
  BY BlocksAreFinite DEF Blocks
<1> QED
  BY <1>1, <1>2, <1>3

\* the blocks of S are freed and counted
LEMMA FreedAll ==
    ASSUME NEW c, Context(c), Counted(c), NEW S, S \subseteq Blocks, S \cap Free(c) = {},
           NEW d, d = FreeBlocks(c, S)
    PROVE  /\ SameCounts(c, d)
           /\ \A i \in Blocks : d.blk[i] = IF i \in S THEN FreeBlk ELSE c.blk[i]
<1> DEFINE R == {i \in S : c.blk[i].st \in {"reading", "testing"}}
<1>1. /\ Context(d)
      /\ \A i \in Blocks : d.blk[i] = IF i \in S THEN FreeBlk ELSE c.blk[i]
  BY Freed
<1>2. /\ d.free = c.free + Cardinality(S) /\ d.reading = c.reading - Cardinality(R)
      /\ d.freeIdx = IF S = {} THEN c.freeIdx ELSE Max(S)
      /\ d.readOffset = c.readOffset /\ d.writeOffset = c.writeOffset
      /\ d.readingDone = c.readingDone /\ d.forceOp = c.forceOp /\ d.autoRetry = c.autoRetry
  BY DEF Context, CtxFields, FreeBlocks, Tidy
<1>3. Free(d) = Free(c) \cup S
  BY <1>1 DEF Free, FreeBlk
<1>4. Reading(d) = Reading(c) \ R
  BY <1>1 DEF Reading, FreeBlk
<1>5. /\ Free(c) \subseteq Blocks /\ Reading(c) \subseteq Blocks /\ R \subseteq Reading(c)
      /\ R \subseteq Blocks
  BY DEF Free, Reading
<1>6. Cardinality(Free(d)) = Cardinality(Free(c)) + Cardinality(S)
  <2>1. Free(c) \cap S = {}
    OBVIOUS
  <2>2. /\ IsFiniteSet(S) /\ IsFiniteSet(Free(c))
        /\ Cardinality(S) \in Nat /\ Cardinality(Free(c)) \in Nat
    BY <1>5, BlocksOf
  <2>3. PICK F : F = Free(c)
    OBVIOUS
  <2>4. IsFiniteSet(F) /\ IsFiniteSet(S)
    BY <2>2, <2>3
  <2>5. Cardinality(F \cup S) = Cardinality(F) + Cardinality(S) - Cardinality(F \cap S)
    BY <2>4, FS_Union
  <2>6. Cardinality(F \cap S) = 0
    BY <2>1, <2>3, FS_EmptySet
  <2> QED
    BY <1>3, <2>2, <2>3, <2>5, <2>6
<1>7. Cardinality(Reading(d)) = Cardinality(Reading(c)) - Cardinality(R)
  <2>1. Reading(c) \cap R = R
    BY <1>5
  <2>2. IsFiniteSet(Reading(c))
    BY <1>5, BlocksOf
  <2>3. Cardinality(Reading(c) \ R) = Cardinality(Reading(c)) - Cardinality(Reading(c) \cap R)
    BY <2>2, FS_Difference
  <2> QED
    BY <1>4, <2>1, <2>3
<1>8. d.freeIdx \in Blocks
  <2>1. S # {} => Max(S) \in S
    BY BlocksOf, BlocksAreFinite, MaxIsGreatest
  <2> QED
    BY <1>2, <2>1 DEF Counted
<1>9. \A i \in Blocks : d.blk[i].st \in BlockStates
  BY <1>1 DEF Counted, FreeBlk, BlockStates
<1> QED
  BY <1>1, <1>2, <1>6, <1>7, <1>8, <1>9 DEF SameCounts, Counted

\* the blocks of S keep their data as read
LEMMA KeptAll ==
    ASSUME NEW c, Context(c), Counted(c), NEW S, S \subseteq Blocks, S \cap Free(c) = {},
           NEW d, d = KeepAsRead(c, S)
    PROVE  /\ SameCounts(c, d)
           /\ \A i \in Blocks : d.blk[i] = IF i \in S THEN [c.blk[i] EXCEPT !.st = "read"]
                                                      ELSE c.blk[i]
<1> DEFINE R == {i \in S : c.blk[i].st \in {"reading", "testing"}}
<1>1. /\ Context(d)
      /\ \A i \in Blocks : d.blk[i] = IF i \in S THEN [c.blk[i] EXCEPT !.st = "read"]
                                                 ELSE c.blk[i]
  BY Kept
<1>2. /\ d.free = c.free /\ d.reading = c.reading - Cardinality(R)
      /\ d.freeIdx = c.freeIdx
      /\ d.readOffset = c.readOffset /\ d.writeOffset = c.writeOffset
      /\ d.readingDone = c.readingDone /\ d.forceOp = c.forceOp /\ d.autoRetry = c.autoRetry
  BY DEF Context, CtxFields, KeepAsRead, Tidy
<1>3. \A i \in Blocks : d.blk[i].st = IF i \in S THEN "read" ELSE c.blk[i].st
  BY <1>1 DEF Context
<1>4. Free(d) = Free(c)
  BY <1>3 DEF Free
<1>5. Reading(d) = Reading(c) \ R
  BY <1>3 DEF Reading
<1>6. Reading(c) \subseteq Blocks /\ R \subseteq Reading(c)
  BY DEF Reading
<1>7. Cardinality(Reading(d)) = Cardinality(Reading(c)) - Cardinality(R)
  <2>1. Reading(c) \cap R = R
    BY <1>6
  <2>2. IsFiniteSet(Reading(c))
    BY <1>6, BlocksOf
  <2>3. Cardinality(Reading(c) \ R) = Cardinality(Reading(c)) - Cardinality(Reading(c) \cap R)
    BY <2>2, FS_Difference
  <2> QED
    BY <1>5, <2>1, <2>3
<1>8. \A i \in Blocks : d.blk[i].st \in BlockStates
  BY <1>3 DEF Counted, BlockStates
<1> QED
  BY <1>1, <1>2, <1>4, <1>7, <1>8 DEF SameCounts, Counted

\* the reads behind the end are discarded, and the data read there is dropped
LEMMA DiscardedAll ==
    ASSUME NEW c, Context(c), Counted(c), NEW size, NEW exclude,
           NEW d, d = DiscardBlocksBehindEOF(c, size, exclude)
    PROVE  /\ SameCounts(c, d)
           /\ \A i \in Blocks :
                 d.blk[i] = IF i # exclude /\ c.blk[i].st = "read" /\ c.blk[i].off >= size
                            THEN FreeBlk
                            ELSE IF i # exclude /\ c.blk[i].st = "reading" /\ c.blk[i].off >= size
                            THEN [c.blk[i] EXCEPT !.st = "discarded"] ELSE c.blk[i]
<1> DEFINE behind(st) == {i \in Blocks \ {exclude} : c.blk[i].st = st /\ c.blk[i].off >= size}
           R == behind("reading")
           S == behind("read")
           e == [c EXCEPT
                   !.blk = [i \in Blocks |-> IF i \in R
                                             THEN [@[i] EXCEPT !.st = "discarded"] ELSE @[i]],
                   !.reading = @ - Cardinality(R)]
<1>1. d = FreeBlocks(e, S)
  BY DEF DiscardBlocksBehindEOF
<1>2. /\ Context(e)
      /\ \A i \in Blocks : e.blk[i] = IF i \in R THEN [c.blk[i] EXCEPT !.st = "discarded"]
                                                 ELSE c.blk[i]
      /\ e.free = c.free /\ e.reading = c.reading - Cardinality(R) /\ e.freeIdx = c.freeIdx
      /\ e.readOffset = c.readOffset /\ e.writeOffset = c.writeOffset
      /\ e.readingDone = c.readingDone /\ e.forceOp = c.forceOp /\ e.autoRetry = c.autoRetry
  BY DEF Context, CtxFields
<1>3. \A i \in Blocks : e.blk[i].st = IF i \in R THEN "discarded" ELSE c.blk[i].st
  BY <1>2 DEF Context
<1> HIDE DEF e
<1>4. Free(e) = Free(c) /\ Reading(e) = Reading(c) \ R
  BY <1>3 DEF Free, Reading
<1>5. Reading(c) \subseteq Blocks /\ R \subseteq Reading(c)
  BY DEF Reading
<1>6. Cardinality(Reading(e)) = Cardinality(Reading(c)) - Cardinality(R)
  <2>1. Reading(c) \cap R = R
    BY <1>5
  <2>2. IsFiniteSet(Reading(c))
    BY <1>5, BlocksOf
  <2>3. Cardinality(Reading(c) \ R) = Cardinality(Reading(c)) - Cardinality(Reading(c) \cap R)
    BY <2>2, FS_Difference
  <2> QED
    BY <1>4, <2>1, <2>3
<1>7. Counted(e)
  <2>1. \A i \in Blocks : e.blk[i].st \in BlockStates
    BY <1>3 DEF Counted, BlockStates, InProgressStates
  <2> QED
    BY <1>2, <1>4, <1>6, <2>1 DEF Counted
<1>8. S \subseteq Blocks /\ S \cap Free(e) = {}
  BY <1>4 DEF Free
<1>9. /\ SameCounts(e, d)
      /\ \A i \in Blocks : d.blk[i] = IF i \in S THEN FreeBlk ELSE e.blk[i]
  BY <1>1, <1>2, <1>7, <1>8, FreedAll
<1> QED
  BY <1>2, <1>9 DEF SameCounts

\* what the worker does with its blocks after an error: nothing is in progress,
\* and what may be missing in the target is behind WriteOffset
LEMMA Rewound ==
    ASSUME NEW c, Context(c), Counted(c), NEW size, Tiled(c, size), NEW ios,
           NEW d, d = CancelOpPhase2(c, ios)
    PROVE  /\ Context(d) /\ Counted(d) /\ Tiled(d, size)
           /\ d.writeOffset <= c.writeOffset /\ d.readingDone = c.readingDone
           /\ d.autoRetry = c.autoRetry
           /\ \A i \in Blocks : d.blk[i].st \in {"free", "read"}
           /\ \A i \in Blocks : c.blk[i].st = "writing" /\ ios[i].res # "ok" =>
                                   d.writeOffset <= c.blk[i].off
<1> DEFINE full(i) == ios[i].res = "ok" /\ ios[i].bytes = c.blk[i].len
           inSt(S) == {i \in Blocks : c.blk[i].st \in S}
           keep == {i \in inSt({"reading"}) : full(i)} \cup inSt({"writing"})
           lost == {i \in inSt({"writing"}) : ~full(i)}
           c1 == KeepAsRead(c, keep)
           moving == {i \in Blocks : InProgress(c1, i)}
           c2 == FreeBlocks(c1, moving)
           offs == {c.writeOffset} \cup {c.blk[i].off : i \in lost}
           wo == Min(offs)
           ro == ContiguousEnd(c2, wo)
           c3 == [c2 EXCEPT !.writeOffset = wo, !.readOffset = ro]
           rest == {i \in Blocks : /\ c2.blk[i].st = "read"
                                   /\ c2.blk[i].off < wo \/ c2.blk[i].off > ro}
<1>1. d = FreeBlocks(c3, rest)
  BY DEF CancelOpPhase2
<1>2. /\ SameCounts(c, c1)
      /\ \A i \in Blocks : c1.blk[i] = IF i \in keep THEN [c.blk[i] EXCEPT !.st = "read"]
                                                     ELSE c.blk[i]
  <2>1. keep \subseteq Blocks /\ keep \cap Free(c) = {}
    BY DEF Free
  <2> QED
    BY <2>1, KeptAll
<1>3. /\ keep \subseteq Data(c) /\ lost \subseteq Data(c)
      /\ \A i \in keep : c.blk[i].st \in {"reading", "writing"}
      /\ \A i \in Blocks : c.blk[i].st = "writing" => i \in keep
      /\ \A i \in Blocks : c.blk[i].st = "writing" /\ ios[i].res # "ok" => i \in lost
  BY DEF Data
<1>4. offs \subseteq Nat /\ offs # {}
  BY <1>3 DEF Tiled, Apart
<1>5. wo \in offs /\ \A x \in offs : wo <= x
  <2> HIDE DEF offs
  <2> QED
    BY <1>4, MinIsLeast
<1>6. /\ wo \in Nat /\ wo <= c.writeOffset
      /\ \A i \in Blocks : c.blk[i].st = "writing" /\ ios[i].res # "ok" => wo <= c.blk[i].off
  BY <1>3, <1>4, <1>5
<1> HIDE DEF c1, wo, keep, lost
<1>7. /\ SameCounts(c1, c2)
      /\ \A i \in Blocks : c2.blk[i] = IF i \in moving THEN FreeBlk ELSE c1.blk[i]
  <2>1. moving \subseteq Blocks /\ moving \cap Free(c1) = {}
    BY DEF Free, InProgress, InProgressStates
  <2>2. Context(c1) /\ Counted(c1)
    BY <1>2 DEF SameCounts
  <2> QED
    BY <2>1, <2>2, FreedAll
<1> HIDE DEF c2
<1>8. ASSUME NEW i \in Blocks
      PROVE  /\ c2.blk[i].st \in {"free", "read"}
             /\ c2.blk[i].st = "read" =>
                   /\ i \in Data(c) /\ c2.blk[i].off = c.blk[i].off /\ c2.blk[i].len = c.blk[i].len
  <2>1. CASE i \in keep
    <3>1. c1.blk[i] = [c.blk[i] EXCEPT !.st = "read"] /\ i \in Data(c)
      BY <1>2, <1>3, <2>1
    <3>2. c1.blk[i].st = "read" /\ c1.blk[i].off = c.blk[i].off /\ c1.blk[i].len = c.blk[i].len
      BY <3>1 DEF Context
    <3> QED
      BY <1>7, <3>1, <3>2 DEF FreeBlk, InProgress, InProgressStates
  <2>2. CASE i \notin keep
    <3>1. c1.blk[i] = c.blk[i] /\ c.blk[i].st \in BlockStates
      BY <1>2, <2>2 DEF Counted
    <3> QED
      BY <1>7, <3>1 DEF FreeBlk, InProgress, InProgressStates, BlockStates, Data
  <2> QED
    BY <2>1, <2>2
<1>9. Held(c2) \subseteq Data(c) /\ Apart(c2, Held(c2))
  <2>1. \A i \in Held(c2) : /\ i \in Blocks /\ i \in Data(c)
                            /\ c2.blk[i].off = c.blk[i].off /\ c2.blk[i].len = c.blk[i].len
    BY <1>8 DEF Held
  <2>2. Apart(c, Data(c))
    BY DEF Tiled
  <2> QED
    BY <2>1, <2>2 DEF Apart
<1>10. /\ Stretch(c2, wo, ro)
       /\ \A i \in Held(c2) : c2.blk[i].off # ro
  BY <1>6, <1>9, DataEnds
<1> HIDE DEF ro
<1>11. ro \in Nat /\ wo <= ro /\ ro <= c.readOffset
  <2>1. ro \in Nat /\ wo <= ro
    BY <1>10 DEF Stretch
  <2>2. CASE ro = wo
    BY <1>6, <2>1, <2>2 DEF Tiled
  <2>3. CASE ro # wo
    <3>1. ro - 1 \in wo..(ro - 1)
      BY <1>6, <2>1, <2>3
    <3>2. PICK i \in Held(c2) : Covers(c2, i, ro - 1)
      BY <1>10, <3>1 DEF Stretch
    <3>3. /\ i \in Blocks /\ i \in Data(c)
          /\ c2.blk[i].off = c.blk[i].off /\ c2.blk[i].len = c.blk[i].len
          /\ c.blk[i].off \in Nat /\ c.blk[i].len \in Nat
      BY <1>8, <3>2 DEF Held, Tiled, Apart
    <3>4. c.blk[i].off + c.blk[i].len <= c.readOffset
      BY <3>3 DEF Tiled, Data, Ahead, EndOf
    <3> QED
      BY <2>1, <3>2, <3>3, <3>4 DEF Covers, Tiled
  <2> QED
    BY <2>2, <2>3
<1>12. /\ Context(c3) /\ Counted(c3) /\ c3.blk = c2.blk
       /\ c3.writeOffset = wo /\ c3.readOffset = ro
       /\ c3.readingDone = c.readingDone /\ c3.autoRetry = c.autoRetry
  <2>1. /\ Context(c3) /\ c3.blk = c2.blk /\ c3.writeOffset = wo /\ c3.readOffset = ro
        /\ c3.readingDone = c2.readingDone /\ c3.autoRetry = c2.autoRetry
        /\ c3.free = c2.free /\ c3.reading = c2.reading /\ c3.freeIdx = c2.freeIdx
    BY <1>7 DEF SameCounts, Context, CtxFields
  <2> HIDE DEF c3
  <2>2. Free(c3) = Free(c2) /\ Reading(c3) = Reading(c2)
    BY <2>1 DEF Free, Reading
  <2> QED
    BY <1>2, <1>7, <2>1, <2>2 DEF SameCounts, Counted
<1> HIDE DEF c3
<1>13. /\ SameCounts(c3, d)
       /\ \A i \in Blocks : d.blk[i] = IF i \in rest THEN FreeBlk ELSE c2.blk[i]
  <2>1. rest \subseteq Blocks /\ rest \cap Free(c3) = {}
    BY <1>12 DEF Free
  <2> HIDE DEF rest
  <2> QED
    BY <1>1, <1>12, <2>1, FreedAll
<1>14. /\ Context(d) /\ Counted(d) /\ d.writeOffset = wo /\ d.readOffset = ro
       /\ d.readingDone = c.readingDone /\ d.autoRetry = c.autoRetry
  BY <1>12, <1>13 DEF SameCounts
<1>15. ASSUME NEW i \in Blocks
       PROVE  /\ d.blk[i].st \in {"free", "read"}
              /\ d.blk[i].st = "read" => i \in Held(c2) /\ d.blk[i] = c2.blk[i]
                                         /\ wo <= c2.blk[i].off /\ c2.blk[i].off < ro
              /\ i \in Held(c2) /\ wo <= c2.blk[i].off /\ c2.blk[i].off <= ro =>
                    d.blk[i] = c2.blk[i]
  <2>1. i \in Held(c2) => c2.blk[i].off \in Nat
    BY <1>9 DEF Apart
  <2> QED
    BY <1>6, <1>8, <1>10, <1>11, <1>13, <2>1 DEF Held, FreeBlk
<1>16. Tiled(d, size)
  <2>1. \A i \in Blocks : d.blk[i].st \in {"free", "read"}
    BY <1>15
  <2>2. Data(d) = Held(d) /\ Ahead(d) = Held(d)
    BY <2>1 DEF Data, Ahead, Held
  <2>3. \A i \in Held(d) : /\ i \in Held(c2) /\ d.blk[i] = c2.blk[i]
                           /\ wo <= d.blk[i].off /\ d.blk[i].off < ro
    BY <1>15 DEF Held
  <2>4. Apart(d, Data(d))
    BY <1>9, <2>2, <2>3 DEF Apart
  <2>5. ASSUME NEW i \in Held(d) PROVE EndOf(d, i) <= ro
    <3>1. /\ i \in Held(c2) /\ d.blk[i] = c2.blk[i]
          /\ c2.blk[i].off \in Nat /\ c2.blk[i].len \in Nat \ {0}
          /\ c2.blk[i].off \in wo..(ro - 1)
      BY <1>6, <1>9, <1>11, <2>3 DEF Apart
    <3>2. PICK j \in Held(c2) : Covers(c2, j, c2.blk[i].off) /\ c2.blk[j].off + c2.blk[j].len <= ro
      BY <1>10, <3>1 DEF Stretch
    <3>3. c2.blk[j].off \in Nat /\ c2.blk[j].len \in Nat \ {0}
      BY <1>9 DEF Apart
    <3>4. i = j
      BY <1>9, <3>1, <3>2, <3>3 DEF Apart, Covers
    <3> QED
      BY <3>1, <3>2, <3>4 DEF EndOf
  <2>6. ASSUME NEW u \in wo..(ro - 1) PROVE \E i \in Held(d) : Covers(d, i, u)
    <3>1. PICK i \in Held(c2) : /\ Covers(c2, i, u) /\ wo <= c2.blk[i].off
                                /\ c2.blk[i].off + c2.blk[i].len <= ro
      BY <1>10, <2>6 DEF Stretch
    <3>2. i \in Blocks /\ c2.blk[i].off \in Nat /\ c2.blk[i].len \in Nat
      BY <1>9 DEF Apart, Held
    <3>3. c2.blk[i].off <= ro
      BY <1>11, <3>1, <3>2
    <3>4. d.blk[i] = c2.blk[i]
      BY <1>15, <3>1, <3>2, <3>3
    <3> QED
      BY <3>1, <3>2, <3>4 DEF Covers, Held
  <2>7. \A i \in Blocks : d.blk[i].st # "writing" /\ d.blk[i].st # "testing"
    BY <2>1
  <2>8. size \in Nat /\ ro <= size
    BY <1>11 DEF Tiled
  <2> QED
    BY <1>6, <1>11, <1>14, <2>2, <2>3, <2>4, <2>5, <2>6, <2>7, <2>8 DEF Tiled
<1> QED
  BY <1>6, <1>14, <1>15, <1>16

Laid(c, size) == Context(c) /\ Counted(c) /\ Tiled(c, size)

LEMMA FreshIsLaid ==
    ASSUME NEW size \in Nat
    PROVE  Laid(NewCtx, size)
<1>1. Context(NewCtx)
  BY DEF Context, CtxFields, NewCtx, FreeBlk
<1>2. \A i \in Blocks : NewCtx.blk[i] = FreeBlk
  BY DEF NewCtx
<1>3. /\ NewCtx.free = N /\ NewCtx.freeIdx = 1 /\ NewCtx.reading = 0
      /\ NewCtx.readOffset = 0 /\ NewCtx.writeOffset = 0
  BY DEF NewCtx
<1>4. Free(NewCtx) = Blocks /\ Reading(NewCtx) = {} /\ Data(NewCtx) = {} /\ Ahead(NewCtx) = {}
  BY <1>2 DEF Free, Reading, Data, Ahead, FreeBlk
<1>5. Counted(NewCtx)
  BY <1>2, <1>3, <1>4, BlocksAreFinite, FS_EmptySet, CopyAssumption
     DEF Counted, Blocks, BlockStates, FreeBlk
<1>6. Tiled(NewCtx, size)
  BY <1>2, <1>3, <1>4 DEF Tiled, Apart, FreeBlk
<1> QED
  BY <1>1, <1>5, <1>6 DEF Laid

\* the context but for what the order of the blocks depends on
SameLayout(c, d) ==
    /\ Context(d) /\ d.blk = c.blk
    /\ d.readOffset = c.readOffset /\ d.writeOffset = c.writeOffset
    /\ d.free = c.free /\ d.freeIdx = c.freeIdx /\ d.reading = c.reading

LEMMA LayoutStays ==
    ASSUME NEW c, NEW size, Laid(c, size), NEW d, SameLayout(c, d)
    PROVE  Laid(d, size)
<1>1. Free(d) = Free(c) /\ Reading(d) = Reading(c) /\ Data(d) = Data(c) /\ Ahead(d) = Ahead(c)
  BY DEF SameLayout, Free, Reading, Data, Ahead
<1>2. Counted(d)
  BY <1>1 DEF Laid, SameLayout, Counted
<1>3. Tiled(d, size)
  BY <1>1 DEF Laid, SameLayout, Tiled, Apart, EndOf, Covers
<1> QED
  BY <1>2, <1>3 DEF Laid, SameLayout

\* a read is started behind everything read so far, or at the end alone
LEMMA ReadIsLaid ==
    ASSUME NEW c, NEW size, Laid(c, size), NEW i \in Blocks, c.blk[i].st = "free",
           NEW len \in Nat \ {0}, NEW test \in BOOLEAN, NEW d, Context(d),
           IF test THEN c.readOffset = size /\ c.reading = 0 ELSE c.readOffset + len <= size,
           d.blk[i] = [st |-> IF test THEN "testing" ELSE "reading",
                       off |-> c.readOffset, len |-> len],
           \A j \in Blocks \ {i} : d.blk[j] = c.blk[j],
           d.writeOffset = c.writeOffset,
           d.readOffset = IF test THEN c.readOffset ELSE c.readOffset + len,
           d.free = c.free - 1, d.freeIdx = c.freeIdx, d.reading = c.reading + 1
    PROVE  Laid(d, size)
<1>1. Counted(c) /\ Tiled(c, size)
  BY DEF Laid
<1>2. /\ d.blk[i].st = (IF test THEN "testing" ELSE "reading")
      /\ d.blk[i].off = c.readOffset /\ d.blk[i].len = len
  OBVIOUS
<1>3. Free(d) = Free(c) \ {i} /\ i \in Free(c)
  BY <1>2 DEF Free
<1>4. Reading(d) = Reading(c) \cup {i} /\ i \notin Reading(c)
  BY <1>2 DEF Reading
<1>5. Free(c) \subseteq Blocks /\ Reading(c) \subseteq Blocks
  BY DEF Free, Reading
<1>6. PICK F, R : F = Free(c) /\ R = Reading(c)
  OBVIOUS
<1>7. IsFiniteSet(F) /\ IsFiniteSet(R) /\ Cardinality(F) \in Nat /\ Cardinality(R) \in Nat
  BY <1>5, <1>6, BlocksOf
<1>8. Cardinality(F \ {i}) = Cardinality(F) - 1
  BY <1>3, <1>6, <1>7, FS_RemoveElement
<1>9. Cardinality(R \cup {i}) = Cardinality(R) + 1
  BY <1>4, <1>6, <1>7, FS_AddElement
<1>10. Counted(d)
  BY <1>1, <1>2, <1>3, <1>4, <1>6, <1>8, <1>9 DEF Counted, BlockStates, InProgressStates
<1>11. \A j \in Blocks : c.blk[j].st # "testing"
  <2>1. CASE test
    <3>1. Cardinality(R) = 0
      BY <1>1, <1>6, <2>1 DEF Counted
    <3>2. Reading(c) = {}
      BY <1>6, <1>7, <3>1, FS_EmptySet
    <3> QED
      BY <3>2 DEF Reading
  <2>2. CASE ~test
    BY <1>1, <2>2 DEF Tiled
  <2> QED
    BY <2>1, <2>2
<1>12. CASE test
  <2>1. Data(d) = Data(c) /\ Ahead(d) = Ahead(c) /\ i \notin Data(c) /\ i \notin Ahead(c)
    BY <1>2, <1>12 DEF Data, Ahead
  <2>2. Reading(d) = {i}
    <3>1. Cardinality(R) = 0
      BY <1>1, <1>6, <1>12 DEF Counted
    <3>2. Reading(c) = {}
      BY <1>6, <1>7, <3>1, FS_EmptySet
    <3> QED
      BY <1>4, <3>2
  <2>3. \A j \in Data(c) \cup Ahead(c) : j \in Blocks /\ d.blk[j] = c.blk[j]
    BY <2>1 DEF Data, Ahead
  <2>4. Apart(d, Data(d))
    BY <1>1, <2>1, <2>3 DEF Tiled, Apart
  <2>5. \A j \in Ahead(d) : d.writeOffset <= d.blk[j].off /\ EndOf(d, j) <= d.readOffset
    BY <1>1, <1>12, <2>1, <2>3 DEF Tiled, EndOf
  <2>6. \A u \in d.writeOffset..(d.readOffset - 1) : \E j \in Ahead(d) : Covers(d, j, u)
    BY <1>1, <1>12, <2>1, <2>3 DEF Tiled, Covers
  <2>7. \A j \in Blocks : d.blk[j].st = "writing" => EndOf(d, j) <= d.writeOffset
    BY <1>1, <1>2, <1>12 DEF Tiled, EndOf
  <2>8. \A j \in Blocks : d.blk[j].st = "testing" => j = i
    BY <1>11
  <2> QED
    BY <1>1, <1>2, <1>10, <1>12, <2>2, <2>4, <2>5, <2>6, <2>7, <2>8 DEF Tiled, Laid
<1>13. CASE ~test
  <2>1. /\ Data(d) = Data(c) \cup {i} /\ Ahead(d) = Ahead(c) \cup {i}
        /\ i \notin Data(c) /\ i \notin Ahead(c)
    BY <1>2, <1>13 DEF Data, Ahead
  <2>2. \A j \in Data(c) \cup Ahead(c) : j \in Blocks /\ d.blk[j] = c.blk[j]
    BY <2>1 DEF Data, Ahead
  <2>3. c.readOffset \in Nat /\ c.writeOffset \in Nat /\ c.writeOffset <= c.readOffset
    BY <1>1 DEF Tiled
  <2>4. \A j \in Data(c) : /\ c.blk[j].off \in Nat /\ c.blk[j].len \in Nat \ {0}
                           /\ EndOf(c, j) <= c.readOffset
    BY <1>1, <2>3 DEF Tiled, Apart, Data, Ahead, EndOf
  <2>5. Apart(d, Data(d))
    BY <1>1, <1>2, <2>1, <2>2, <2>3, <2>4 DEF Tiled, Apart, EndOf
  <2>6. \A j \in Ahead(d) : d.writeOffset <= d.blk[j].off /\ EndOf(d, j) <= d.readOffset
    <3>1. Ahead(c) \subseteq Data(c)
      BY DEF Ahead, Data
    <3> QED
      BY <1>1, <1>2, <1>13, <2>1, <2>2, <2>3, <2>4, <3>1 DEF Tiled, EndOf
  <2>7. ASSUME NEW u \in d.writeOffset..(d.readOffset - 1)
        PROVE  \E j \in Ahead(d) : Covers(d, j, u)
    <3>1. CASE u < c.readOffset
      <4>1. u \in c.writeOffset..(c.readOffset - 1)
        BY <1>13, <2>3, <2>7, <3>1
      <4>2. PICK j \in Ahead(c) : Covers(c, j, u)
        BY <1>1, <4>1 DEF Tiled
      <4> QED
        BY <2>1, <2>2, <4>2 DEF Covers
    <3>2. CASE ~(u < c.readOffset)
      BY <1>2, <1>13, <2>1, <2>3, <2>7, <3>2 DEF Covers
    <3> QED
      BY <3>1, <3>2
  <2>8. \A j \in Blocks : d.blk[j].st = "writing" => EndOf(d, j) <= d.writeOffset
    BY <1>1, <1>2, <1>13 DEF Tiled, EndOf
  <2>9. \A j \in Blocks : d.blk[j].st # "testing"
    BY <1>2, <1>11, <1>13
  <2>10. size \in Nat /\ d.readOffset \in Nat /\ d.writeOffset <= d.readOffset
         /\ d.readOffset <= size
    BY <1>1, <1>13, <2>3 DEF Tiled
  <2> QED
    BY <1>10, <2>3, <2>5, <2>6, <2>7, <2>8, <2>9, <2>10 DEF Tiled, Laid
<1> QED
  BY <1>12, <1>13

\* the write of the block that continues the target is started
LEMMA WriteIsLaid ==
    ASSUME NEW c, NEW size, Laid(c, size), NEW i \in Blocks, c.blk[i].st = "read",
           c.blk[i].off = c.writeOffset, NEW d, Context(d),
           d.blk[i] = [c.blk[i] EXCEPT !.st = "writing"],
           \A j \in Blocks \ {i} : d.blk[j] = c.blk[j],
           d.writeOffset = c.writeOffset + c.blk[i].len, d.readOffset = c.readOffset,
           d.free = c.free, d.freeIdx = c.freeIdx, d.reading = c.reading
    PROVE  Laid(d, size)
<1>1. Counted(c) /\ Tiled(c, size)
  BY DEF Laid
<1>2. d.blk[i].st = "writing" /\ d.blk[i].off = c.blk[i].off /\ d.blk[i].len = c.blk[i].len
  BY DEF Laid, Context
<1>3. /\ Free(d) = Free(c) /\ Reading(d) = Reading(c)
      /\ Data(d) = Data(c) /\ Ahead(d) = Ahead(c) \ {i} /\ i \in Ahead(c) /\ i \in Data(c)
  <2>1. \A j \in Blocks : d.blk[j].st = IF j = i THEN "writing" ELSE c.blk[j].st
    BY <1>2
  <2>2. Free(d) = Free(c)
    BY <2>1 DEF Free
  <2>3. Reading(d) = Reading(c)
    BY <2>1 DEF Reading
  <2>4. Data(d) = Data(c) /\ i \in Data(c)
    BY <2>1 DEF Data
  <2>5. Ahead(d) = Ahead(c) \ {i} /\ i \in Ahead(c)
    BY <2>1 DEF Ahead
  <2> QED
    BY <2>2, <2>3, <2>4, <2>5
<1>4. Counted(d)
  BY <1>1, <1>2, <1>3 DEF Counted, BlockStates, InProgressStates
<1>5. \A j \in Blocks : d.blk[j].off = c.blk[j].off /\ d.blk[j].len = c.blk[j].len
  BY <1>2
<1>6. /\ c.writeOffset \in Nat /\ c.readOffset \in Nat /\ size \in Nat
      /\ c.blk[i].off \in Nat /\ c.blk[i].len \in Nat \ {0} /\ EndOf(c, i) <= c.readOffset
  BY <1>1, <1>3 DEF Tiled, Apart
<1>7. Apart(d, Data(d))
  <2>1. \A j \in Data(c) : d.blk[j].off = c.blk[j].off /\ d.blk[j].len = c.blk[j].len
    BY <1>5 DEF Data
  <2>2. Apart(c, Data(c))
    BY <1>1 DEF Tiled
  <2>3. Apart(d, Data(c))
    BY <2>1, <2>2 DEF Apart
  <2> QED
    BY <1>3, <2>3
<1>8. \A j \in Blocks : d.blk[j].st = "writing" => EndOf(d, j) <= d.writeOffset
  <2> SUFFICES ASSUME NEW j \in Blocks, d.blk[j].st = "writing"
               PROVE  EndOf(d, j) <= d.writeOffset
    OBVIOUS
  <2>1. CASE j = i
    <3>1. EndOf(d, j) = c.blk[i].off + c.blk[i].len
      BY <1>5, <2>1 DEF EndOf
    <3> QED
      BY <1>6, <3>1
  <2>2. CASE j # i
    <3>1. EndOf(c, j) <= c.writeOffset /\ j \in Data(c)
      BY <1>1, <2>2 DEF Tiled, Data
    <3>2. c.blk[j].off \in Nat /\ c.blk[j].len \in Nat
      BY <1>1, <3>1 DEF Tiled, Apart
    <3> QED
      BY <1>5, <1>6, <3>1, <3>2 DEF EndOf
  <2> QED
    BY <2>1, <2>2
<1>9. \A j \in Ahead(d) : d.writeOffset <= d.blk[j].off /\ EndOf(d, j) <= d.readOffset
  <2> SUFFICES ASSUME NEW j \in Ahead(d)
               PROVE  d.writeOffset <= d.blk[j].off /\ EndOf(d, j) <= d.readOffset
    OBVIOUS
  <2>1. j \in Blocks /\ j # i /\ j \in Ahead(c) /\ j \in Data(c)
    BY <1>3 DEF Ahead, Data
  <2>2. /\ c.writeOffset <= c.blk[j].off /\ EndOf(c, j) <= c.readOffset
        /\ c.blk[j].off \in Nat /\ c.blk[j].len \in Nat \ {0}
        /\ EndOf(c, i) <= c.blk[j].off \/ EndOf(c, j) <= c.blk[i].off
    BY <1>1, <1>3, <2>1 DEF Tiled, Apart, EndOf
  <2> QED
    BY <1>5, <1>6, <2>1, <2>2 DEF EndOf
<1>10. ASSUME NEW u \in d.writeOffset..(d.readOffset - 1)
       PROVE  \E j \in Ahead(d) : Covers(d, j, u)
  <2>1. u \in c.writeOffset..(c.readOffset - 1) /\ u >= c.writeOffset + c.blk[i].len
    BY <1>6, <1>10
  <2>2. PICK j \in Ahead(c) : Covers(c, j, u)
    BY <1>1, <2>1 DEF Tiled
  <2>3. j # i
    BY <1>6, <2>1, <2>2 DEF Covers
  <2>4. j \in Blocks
    BY DEF Ahead
  <2> QED
    BY <1>3, <1>5, <2>2, <2>3, <2>4 DEF Covers
<1>11. \A j \in Blocks : d.blk[j].st = "testing" =>
          /\ d.blk[j].off = d.readOffset /\ d.readOffset = size
          /\ d.blk[j].len \in Nat \ {0} /\ Reading(d) = {j}
  BY <1>1, <1>2, <1>3 DEF Tiled
<1>12. d.writeOffset \in Nat /\ d.readOffset \in Nat /\ d.writeOffset <= d.readOffset
       /\ d.readOffset <= size
  BY <1>1, <1>6 DEF Tiled, EndOf
<1> QED
  BY <1>4, <1>6, <1>7, <1>8, <1>9, <1>10, <1>11, <1>12 DEF Tiled, Laid

\* a block that was written, or whose read was discarded, is freed
LEMMA FreedIsLaid ==
    ASSUME NEW c, NEW size, Laid(c, size), NEW i \in Blocks,
           c.blk[i].st \in {"writing", "discarded"}, NEW d, d = FreeBlock(c, i)
    PROVE  /\ Laid(d, size) /\ SameCounts(c, d)
           /\ \A j \in Blocks : d.blk[j] = IF j = i THEN FreeBlk ELSE c.blk[j]
<1>1. Counted(c) /\ Tiled(c, size) /\ Context(c)
  BY DEF Laid
<1>2. /\ SameCounts(c, d)
      /\ \A j \in Blocks : d.blk[j] = IF j = i THEN FreeBlk ELSE c.blk[j]
  <2>1. {i} \subseteq Blocks /\ {i} \cap Free(c) = {}
    BY DEF Free
  <2>2. PICK S : S = {i}
    OBVIOUS
  <2>3. S \subseteq Blocks /\ S \cap Free(c) = {} /\ d = FreeBlocks(c, S)
    BY <2>1, <2>2 DEF FreeBlock
  <2>4. /\ SameCounts(c, d)
        /\ \A j \in Blocks : d.blk[j] = IF j \in S THEN FreeBlk ELSE c.blk[j]
    BY <1>1, <2>3, FreedAll
  <2> QED
    BY <2>2, <2>4
<1>3. d.readOffset = c.readOffset /\ d.writeOffset = c.writeOffset
  BY <1>2 DEF SameCounts
<1>4. /\ Reading(d) = Reading(c) /\ Ahead(d) = Ahead(c) /\ Data(d) = Data(c) \ {i}
      /\ i \notin Ahead(c)
  BY <1>2 DEF Reading, Ahead, Data, FreeBlk
<1>5. \A j \in Data(d) \cup Ahead(d) : j \in Blocks /\ d.blk[j] = c.blk[j]
  BY <1>2, <1>4 DEF Data, Ahead
<1>6. Apart(d, Data(d))
  BY <1>1, <1>4, <1>5 DEF Tiled, Apart
<1>7. \A j \in Blocks : d.blk[j].st = "writing" => EndOf(d, j) <= d.writeOffset
  BY <1>1, <1>2, <1>3 DEF Tiled, EndOf, FreeBlk
<1>8. \A j \in Ahead(d) : d.writeOffset <= d.blk[j].off /\ EndOf(d, j) <= d.readOffset
  BY <1>1, <1>3, <1>4, <1>5 DEF Tiled, EndOf
<1>9. \A u \in d.writeOffset..(d.readOffset - 1) : \E j \in Ahead(d) : Covers(d, j, u)
  BY <1>1, <1>3, <1>4, <1>5 DEF Tiled, Covers
<1>10. \A j \in Blocks : d.blk[j].st = "testing" =>
          /\ d.blk[j].off = d.readOffset /\ d.readOffset = size
          /\ d.blk[j].len \in Nat \ {0} /\ Reading(d) = {j}
  BY <1>1, <1>2, <1>3, <1>4 DEF Tiled, FreeBlk
<1> QED
  BY <1>1, <1>2, <1>3, <1>6, <1>7, <1>8, <1>9, <1>10 DEF Tiled, Laid, SameCounts

\* What a finished read of "bytes" units leaves: its block has them, or is free;
\* a short read, unless it tested the end, is the end of the data now.
Testing(c, i) == c.blk[i].st = "testing"
Short(c, i, bytes) == bytes < c.blk[i].len
Cut(c, i, bytes) == Short(c, i, bytes) /\ ~Testing(c, i)
ReadEnd(c, i, bytes) == c.blk[i].off + bytes

NewReadOffset(c, i, bytes) ==
    IF Testing(c, i) \/ Short(c, i, bytes) THEN ReadEnd(c, i, bytes) ELSE c.readOffset

Stays(c, i, bytes, d, j) ==
    /\ d.blk[j] = c.blk[j]
    /\ Cut(c, i, bytes) /\ c.blk[j].st \in {"read", "reading"} =>
          c.blk[j].off < ReadEnd(c, i, bytes)

IsDropped(c, i, bytes, d, j) ==
    /\ Cut(c, i, bytes) /\ c.blk[j].off >= ReadEnd(c, i, bytes)
    /\ \/ c.blk[j].st = "read" /\ d.blk[j].st = "free"
       \/ c.blk[j].st = "reading" /\ d.blk[j].st = "discarded"

Takes(c, i, bytes, d) ==
    /\ Context(d) /\ Counted(d) /\ d.writeOffset = c.writeOffset
    /\ d.readOffset = NewReadOffset(c, i, bytes)
    /\ IF bytes = 0 THEN d.blk[i] = FreeBlk
       ELSE d.blk[i].st = "read" /\ d.blk[i].off = c.blk[i].off /\ d.blk[i].len = bytes
    /\ \A j \in Blocks \ {i} : Stays(c, i, bytes, d, j) \/ IsDropped(c, i, bytes, d, j)

LEMMA TakenBlock ==
    ASSUME NEW c, NEW size, Laid(c, size), NEW i \in Blocks,
           c.blk[i].st \in {"reading", "testing"}
    PROVE  /\ c.blk[i].off \in Nat /\ c.blk[i].len \in Nat \ {0}
           /\ c.writeOffset \in Nat /\ c.readOffset \in Nat /\ size \in Nat
           /\ c.writeOffset <= c.readOffset /\ c.readOffset <= size
           /\ Testing(c, i) => c.blk[i].off = c.readOffset /\ c.readOffset = size
           /\ ~Testing(c, i) =>
                 /\ i \in Ahead(c) /\ i \in Data(c) /\ c.writeOffset <= c.blk[i].off
                 /\ EndOf(c, i) <= c.readOffset
           /\ \A j \in Blocks \ {i} : c.blk[j].st # "testing"
           /\ Testing(c, i) => \A j \in Blocks \ {i} : c.blk[j].st # "reading"
<1>1. Tiled(c, size)
  BY DEF Laid
<1>2. CASE Testing(c, i)
  BY <1>1, <1>2 DEF Tiled, Reading, Testing
<1>3. CASE ~Testing(c, i)
  <2>1. i \in Ahead(c) /\ i \in Data(c) /\ i \in Reading(c)
    BY <1>3 DEF Ahead, Data, Reading, Testing
  <2>2. \A j \in Blocks : c.blk[j].st # "testing"
    BY <1>1, <1>3, <2>1 DEF Tiled, Testing
  <2> QED
    BY <1>1, <1>3, <2>1, <2>2 DEF Tiled, Apart
<1> QED
  BY <1>2, <1>3

LEMMA TakenIsLaid ==
    ASSUME NEW c, NEW size, Laid(c, size), NEW i \in Blocks,
           c.blk[i].st \in {"reading", "testing"},
           NEW bytes \in Nat, bytes <= c.blk[i].len,
           NEW d, Takes(c, i, bytes, d), NEW new \in Nat, d.readOffset <= new
    PROVE  /\ Laid(d, new)
           /\ \A j \in Blocks : d.blk[j].st = "writing" <=> c.blk[j].st = "writing"
           /\ \A j \in Blocks : d.blk[j].st = "writing" => d.blk[j] = c.blk[j]
           /\ \A j \in Blocks : d.blk[j].st \in {"reading", "testing"} => d.blk[j] = c.blk[j]
           /\ \A j \in Blocks : InProgress(d, j) => InProgress(c, j)
           /\ d.blk[i].st \in {"free", "read"}
<1> DEFINE end == c.blk[i].off + bytes
           testing == Testing(c, i)
           short == bytes < c.blk[i].len
           cut == Cut(c, i, bytes)
<1>1. Counted(c) /\ Tiled(c, size) /\ Context(c)
  BY DEF Laid
<1>2. /\ c.blk[i].off \in Nat /\ c.blk[i].len \in Nat \ {0} /\ end \in Nat
      /\ c.writeOffset \in Nat /\ c.readOffset \in Nat /\ size \in Nat
      /\ c.writeOffset <= c.readOffset /\ c.readOffset <= size
      /\ testing => c.blk[i].off = c.readOffset /\ c.readOffset = size
      /\ ~testing => /\ i \in Ahead(c) /\ i \in Data(c) /\ c.writeOffset <= c.blk[i].off
                     /\ EndOf(c, i) <= c.readOffset
      /\ \A j \in Blocks \ {i} : c.blk[j].st # "testing"
      /\ testing => \A j \in Blocks \ {i} : c.blk[j].st # "reading"
  BY TakenBlock
<1>3. cut <=> short /\ ~testing
  BY DEF Cut, Short
<1>5. IF bytes = 0 THEN d.blk[i] = FreeBlk
      ELSE d.blk[i].st = "read" /\ d.blk[i].off = c.blk[i].off /\ d.blk[i].len = bytes
  BY DEF Takes
<1>7. /\ Context(d) /\ Counted(d) /\ d.writeOffset = c.writeOffset
      /\ d.readOffset = IF testing \/ short THEN end ELSE c.readOffset
  BY DEF Takes, NewReadOffset, ReadEnd, Short
<1>8. ASSUME NEW j \in Blocks, j # i
      PROVE  \/ /\ d.blk[j] = c.blk[j]
                /\ (cut /\ c.blk[j].st \in {"read", "reading"} => c.blk[j].off < end)
             \/ /\ cut /\ c.blk[j].off >= end
                /\ \/ c.blk[j].st = "read" /\ d.blk[j].st = "free"
                   \/ c.blk[j].st = "reading" /\ d.blk[j].st = "discarded"
  BY <1>8 DEF Takes, Stays, IsDropped, ReadEnd
<1> HIDE DEF testing, cut
<1>9. \A j \in Blocks \ {i} : d.blk[j].st \in {"read", "reading", "writing", "testing"} =>
                                  d.blk[j] = c.blk[j]
  BY <1>8
<1>10. /\ \A j \in Blocks : d.blk[j].st # "testing"
       /\ d.readOffset \in Nat /\ d.writeOffset <= d.readOffset
  <2>1. \A j \in Blocks : d.blk[j].st # "testing"
    BY <1>2, <1>5, <1>9 DEF FreeBlk
  <2>2. d.readOffset \in Nat /\ d.writeOffset <= d.readOffset
    <3>1. CASE testing
      BY <1>2, <1>7, <3>1
    <3>2. CASE ~testing
      BY <1>2, <1>7, <3>2
    <3> QED
      BY <3>1, <3>2
  <2> QED
    BY <2>1, <2>2
<1>11. ASSUME NEW j \in Data(d)
       PROVE  IF j = i THEN bytes # 0 /\ d.blk[j].off = c.blk[i].off /\ d.blk[j].len = bytes
                            /\ d.blk[j].st = "read"
              ELSE /\ j \in Data(c) /\ d.blk[j] = c.blk[j]
                   /\ cut /\ c.blk[j].st # "writing" => c.blk[j].off < end
  BY <1>2, <1>5, <1>8 DEF Data, FreeBlk
<1>12. \A j \in Data(c) : /\ c.blk[j].off \in Nat /\ c.blk[j].len \in Nat \ {0}
                          /\ EndOf(c, j) <= c.readOffset
  BY <1>1 DEF Tiled, Apart, Data, Ahead, EndOf
<1>13. \A j \in Data(d) : d.blk[j].off \in Nat /\ d.blk[j].len \in Nat \ {0}
  BY <1>2, <1>11, <1>12
<1>14. \A j \in Data(d) : j # i => \/ d.blk[j].off + d.blk[j].len <= c.blk[i].off
                                   \/ ~testing /\ c.blk[i].off + c.blk[i].len <= d.blk[j].off
  <2> SUFFICES ASSUME NEW j \in Data(d), j # i
               PROVE  \/ d.blk[j].off + d.blk[j].len <= c.blk[i].off
                      \/ ~testing /\ c.blk[i].off + c.blk[i].len <= d.blk[j].off
    OBVIOUS
  <2>1. j \in Data(c) /\ d.blk[j] = c.blk[j]
    BY <1>11
  <2>2. CASE testing
    BY <1>2, <1>12, <2>1, <2>2 DEF EndOf
  <2>3. CASE ~testing
    BY <1>1, <1>2, <2>1, <2>3 DEF Tiled, Apart
  <2> QED
    BY <1>2, <2>2, <2>3
<1>15. Apart(d, Data(d))
  <2> SUFFICES ASSUME NEW j \in Data(d), NEW k \in Data(d), j # k
               PROVE  \/ d.blk[j].off + d.blk[j].len <= d.blk[k].off
                      \/ d.blk[k].off + d.blk[k].len <= d.blk[j].off
    BY <1>13 DEF Apart
  <2>1. CASE j = i
    BY <1>2, <1>11, <1>13, <1>14, <2>1
  <2>2. CASE k = i
    BY <1>2, <1>11, <1>13, <1>14, <2>2
  <2>3. CASE j # i /\ k # i
    <3>1. j \in Data(c) /\ k \in Data(c) /\ d.blk[j] = c.blk[j] /\ d.blk[k] = c.blk[k]
      BY <1>11, <2>3
    <3> QED
      BY <1>1, <3>1 DEF Tiled, Apart
  <2> QED
    BY <2>1, <2>2, <2>3
<1>16. \A j \in Blocks : d.blk[j].st = "writing" => EndOf(d, j) <= d.writeOffset
  BY <1>1, <1>5, <1>7, <1>9 DEF Tiled, EndOf, FreeBlk
<1>17. \A j \in Ahead(d) : d.writeOffset <= d.blk[j].off /\ EndOf(d, j) <= d.readOffset
  <2> SUFFICES ASSUME NEW j \in Ahead(d)
               PROVE  d.writeOffset <= d.blk[j].off /\ d.blk[j].off + d.blk[j].len <= d.readOffset
    BY DEF EndOf
  <2>1. j \in Data(d)
    BY DEF Ahead, Data
  <2>2. CASE j = i
    BY <1>2, <1>7, <1>11, <2>1, <2>2 DEF EndOf
  <2>3. CASE j # i
    <3>1. j \in Data(c) /\ d.blk[j] = c.blk[j] /\ (cut => c.blk[j].off < end) /\ j \in Ahead(c)
      BY <1>11, <2>1, <2>3 DEF Ahead
    <3>2. c.writeOffset <= c.blk[j].off /\ c.blk[j].off + c.blk[j].len <= c.readOffset
      BY <1>1, <3>1 DEF Tiled, EndOf
    <3>3. CASE cut
      <4>1. d.blk[j].off + d.blk[j].len <= c.blk[i].off
        BY <1>2, <1>3, <1>12, <1>14, <2>1, <2>3, <3>1, <3>3 DEF EndOf
      <4> QED
        BY <1>2, <1>3, <1>7, <1>12, <3>1, <3>2, <3>3, <4>1
    <3>4. CASE ~cut
      BY <1>2, <1>3, <1>7, <1>12, <3>1, <3>2, <3>4
    <3> QED
      BY <3>3, <3>4
  <2> QED
    BY <2>2, <2>3
<1>18. ASSUME NEW u \in d.writeOffset..(d.readOffset - 1)
       PROVE  \E j \in Ahead(d) : Covers(d, j, u)
  <2>1. bytes # 0 => i \in Ahead(d) /\ d.blk[i].off = c.blk[i].off /\ d.blk[i].len = bytes
    BY <1>5 DEF Ahead
  <2>2. CASE c.blk[i].off <= u /\ u < end
    BY <1>2, <1>7, <1>10, <2>1, <2>2 DEF Covers
  <2>3. CASE ~(c.blk[i].off <= u /\ u < end)
    <3>1. u \in c.writeOffset..(c.readOffset - 1)
      BY <1>2, <1>7, <1>10, <2>3 DEF EndOf
    <3>2. PICK j \in Ahead(c) : c.blk[j].off <= u /\ u < c.blk[j].off + c.blk[j].len
      BY <1>1, <3>1 DEF Tiled, Covers
    <3>3. j # i
      <4>1. CASE testing
        BY <3>2, <4>1 DEF Ahead, testing, Testing
      <4>2. CASE cut
        BY <1>2, <1>3, <1>7, <1>10, <2>3, <3>2, <4>2
      <4>3. CASE ~testing /\ ~short
        BY <1>2, <2>3, <3>2, <4>3
      <4> QED
        BY <1>3, <4>1, <4>2, <4>3
    <3>4. j \in Blocks /\ c.blk[j].st \in {"read", "reading"} /\ c.blk[j].off \in Nat
      BY <1>12, <3>2 DEF Ahead, Data
    <3>5. cut => c.blk[j].off < end
      BY <1>2, <1>3, <1>7, <1>10, <3>2, <3>4
    <3>6. d.blk[j] = c.blk[j]
      BY <1>2, <1>8, <3>3, <3>4, <3>5
    <3> QED
      BY <3>2, <3>4, <3>6 DEF Covers, Ahead
  <2> QED
    BY <2>2, <2>3
<1>19. Laid(d, new)
  BY <1>2, <1>7, <1>10, <1>15, <1>16, <1>17, <1>18 DEF Tiled, Laid
<1>20. d.blk[i].st \in {"free", "read"}
  BY <1>5 DEF FreeBlk
<1>21. ASSUME NEW j \in Blocks
       PROVE  /\ d.blk[j].st = "writing" <=> c.blk[j].st = "writing"
              /\ d.blk[j].st = "writing" => d.blk[j] = c.blk[j]
              /\ d.blk[j].st \in {"reading", "testing"} => d.blk[j] = c.blk[j]
              /\ InProgress(d, j) => InProgress(c, j)
  <2>1. CASE j = i
    BY <1>20, <2>1 DEF InProgress, InProgressStates
  <2>2. CASE j # i /\ d.blk[j] = c.blk[j]
    BY <2>2 DEF InProgress
  <2>3. CASE \/ c.blk[j].st = "read" /\ d.blk[j].st = "free"
             \/ c.blk[j].st = "reading" /\ d.blk[j].st = "discarded"
    BY <2>3 DEF InProgress, InProgressStates
  <2> QED
    BY <1>8, <2>1, <2>2, <2>3
<1> QED
  BY <1>7, <1>19, <1>20, <1>21

\* ReadDone takes what it read: c1, c2 and d are c1, c2 and c3 there
LEMMA ReadTakes ==
    ASSUME NEW c, NEW size, Laid(c, size), NEW i \in Blocks,
           c.blk[i].st \in {"reading", "testing"},
           NEW bytes \in Nat, bytes <= c.blk[i].len,
           NEW c1, Context(c1), \A j \in Blocks \ {i} : c1.blk[j] = c.blk[j],
           c1.blk[i].st = c.blk[i].st, c1.blk[i].off = c.blk[i].off,
           bytes # 0 => c1.blk[i].len = bytes,
           c1.writeOffset = c.writeOffset, c1.readOffset = NewReadOffset(c, i, bytes),
           c1.free = c.free, c1.freeIdx = c.freeIdx, c1.reading = c.reading,
           NEW c2, Cut(c, i, bytes) => c2 = DiscardBlocksBehindEOF(c1, ReadEnd(c, i, bytes), i),
           ~Cut(c, i, bytes) => c2 = c1,
           NEW d, bytes = 0 => d = FreeBlock(c2, i), bytes # 0 => d = KeepAsRead(c2, {i})
    PROVE  Takes(c, i, bytes, d) /\ d.readingDone = c1.readingDone
<1> DEFINE end == ReadEnd(c, i, bytes)
           cut == Cut(c, i, bytes)
           drop(j) == cut /\ c.blk[j].st = "read" /\ c.blk[j].off >= end
           discard(j) == cut /\ c.blk[j].st = "reading" /\ c.blk[j].off >= end
<1>1. Counted(c1) /\ Tiled(c, size) /\ Context(c)
  <2>1. \A j \in Blocks : c1.blk[j].st = c.blk[j].st
    OBVIOUS
  <2>2. Free(c1) = Free(c) /\ Reading(c1) = Reading(c)
    BY <2>1 DEF Free, Reading
  <2> QED
    BY <2>1, <2>2 DEF Counted, Laid
<1>2. end \in Nat
  BY TakenBlock DEF ReadEnd
<1> HIDE DEF end, cut
<1>3. /\ SameCounts(c1, c2)
      /\ \A j \in Blocks :
            c2.blk[j] = IF j # i /\ drop(j) THEN FreeBlk
                        ELSE IF j # i /\ discard(j) THEN [c.blk[j] EXCEPT !.st = "discarded"]
                        ELSE c1.blk[j]
  <2>1. CASE cut
    <3>1. c2 = DiscardBlocksBehindEOF(c1, end, i)
      BY <2>1 DEF end, cut
    <3>2. /\ SameCounts(c1, c2)
          /\ \A j \in Blocks :
                c2.blk[j] = IF j # i /\ c1.blk[j].st = "read" /\ c1.blk[j].off >= end
                            THEN FreeBlk
                            ELSE IF j # i /\ c1.blk[j].st = "reading" /\ c1.blk[j].off >= end
                            THEN [c1.blk[j] EXCEPT !.st = "discarded"] ELSE c1.blk[j]
      BY <1>1, <3>1, DiscardedAll
    <3> QED
      BY <2>1, <3>2
  <2>2. CASE ~cut
    <3>1. c2 = c1
      BY <2>2 DEF cut
    <3> QED
      BY <1>1, <2>2, <3>1 DEF SameCounts
  <2> QED
    BY <2>1, <2>2
<1>4. /\ SameCounts(c2, d)
      /\ \A j \in Blocks \ {i} : d.blk[j] = c2.blk[j]
      /\ IF bytes = 0 THEN d.blk[i] = FreeBlk
         ELSE d.blk[i].st = "read" /\ d.blk[i].off = c.blk[i].off /\ d.blk[i].len = bytes
  <2>1. PICK S : S = {i}
    OBVIOUS
  <2>2. c2.blk[i] = c1.blk[i]
    BY <1>3
  <2>3. S \subseteq Blocks /\ S \cap Free(c2) = {} /\ Context(c2) /\ Counted(c2)
    BY <1>3, <2>1, <2>2 DEF Free, SameCounts
  <2>4. CASE bytes = 0
    <3>1. d = FreeBlocks(c2, S)
      BY <2>1, <2>4 DEF FreeBlock
    <3>2. /\ SameCounts(c2, d)
          /\ \A j \in Blocks : d.blk[j] = IF j \in S THEN FreeBlk ELSE c2.blk[j]
      BY <2>3, <3>1, FreedAll
    <3> QED
      BY <2>1, <2>4, <3>2
  <2>5. CASE bytes # 0
    <3>1. d = KeepAsRead(c2, S)
      BY <2>1, <2>5
    <3>2. /\ SameCounts(c2, d)
          /\ \A j \in Blocks : d.blk[j] = IF j \in S THEN [c2.blk[j] EXCEPT !.st = "read"]
                                                     ELSE c2.blk[j]
      BY <2>3, <3>1, KeptAll
    <3>3. DOMAIN c1.blk[i] = {"st", "off", "len"}
      BY DEF Context
    <3>4. d.blk[i] = [c1.blk[i] EXCEPT !.st = "read"]
      BY <2>1, <2>2, <3>2
    <3> QED
      BY <2>1, <2>5, <3>2, <3>3, <3>4
  <2> QED
    BY <2>4, <2>5
<1>5. ASSUME NEW j \in Blocks \ {i}
      PROVE  Stays(c, i, bytes, d, j) \/ IsDropped(c, i, bytes, d, j)
  <2>1. d.blk[j] = IF drop(j) THEN FreeBlk
                   ELSE IF discard(j) THEN [c.blk[j] EXCEPT !.st = "discarded"] ELSE c.blk[j]
    BY <1>3, <1>4
  <2>2. c.blk[j].st \in {"read", "reading"} => c.blk[j].off \in Nat
    BY <1>1 DEF Tiled, Apart, Data
  <2>3. CASE drop(j)
    BY <2>1, <2>3 DEF IsDropped, FreeBlk, cut, end
  <2>4. CASE discard(j)
    <3>1. DOMAIN c.blk[j] = {"st", "off", "len"}
      BY <1>1 DEF Context
    <3>2. d.blk[j].st = "discarded"
      BY <2>1, <2>4, <3>1
    <3> QED
      BY <2>4, <3>2 DEF IsDropped, cut, end
  <2>5. CASE ~drop(j) /\ ~discard(j)
    BY <1>2, <2>1, <2>2, <2>5 DEF Stays, cut, end
  <2> QED
    BY <2>3, <2>4, <2>5
<1> QED
  BY <1>3, <1>4, <1>5 DEF Takes, SameCounts

-----------------------------------------------------------------------------
(* The order of the blocks is kept                                         *)

\* an operation in flight is the one its block records, and reads or writes
\* what was asked for, or less of the source
Matches(i) ==
    /\ ctx.blk[i].st \in {"reading", "testing", "writing"} =>
          io[i].off = ctx.blk[i].off /\ io[i].len = ctx.blk[i].len
    /\ io[i].op = "read" /\ io[i].st = "done" /\ io[i].res \in {"ok", "eof"} =>
          io[i].bytes \in 0..io[i].len
    /\ io[i].op = "write" /\ io[i].st = "done" /\ io[i].res = "ok" => io[i].bytes = io[i].len

Order ==
    /\ IInv
    /\ limit \in Limits /\ fileSize \in Nat /\ srcLen \in Nat /\ opSize \in Nat
    /\ Laid(ctx, fileSize)
    /\ \A i \in Blocks : io[i].off \in Nat /\ io[i].len \in Nat
    /\ Going => \A i \in Blocks : Matches(i)

LEMMA LimitIsPositive == Limits \subseteq Nat \ {0} /\ Sizes \subseteq Nat \ {0}
BY CopyAssumption

LEMMA LargestLimit == Max(Limits) \in Limits
<1>1. Limits \subseteq Nat /\ Limits # {} /\ MaxLen \in Nat /\ \A x \in Limits : x <= MaxLen
  BY CopyAssumption
<1> QED
  BY <1>1, MaxIsGreatest

LEMMA IoAsked ==
    ASSUME Types, io' = io \/ io' = CancelIo(io)
    PROVE  \A i \in Blocks : /\ io'[i].op = io[i].op /\ io'[i].off = io[i].off
                             /\ io'[i].len = io[i].len /\ io'[i].st = io[i].st
                             /\ io'[i].res = io[i].res /\ io'[i].bytes = io[i].bytes
BY DEF Types, CancelIo

\* Nothing happens to the blocks, and operations are at most asked to end.
LEMMA UntouchedKeepsOrder ==
    ASSUME Order, IInv', SameLayout(ctx, ctx'), io' = io \/ io' = CancelIo(io),
           limit' \in Limits, fileSize' = fileSize, srcLen' \in Nat, opSize' = opSize,
           Going' => Going
    PROVE  Order'
<1>1. Types
  BY DEF Order, IInv
<1>2. \A i \in Blocks : /\ io'[i].op = io[i].op /\ io'[i].off = io[i].off
                        /\ io'[i].len = io[i].len /\ io'[i].st = io[i].st
                        /\ io'[i].res = io[i].res /\ io'[i].bytes = io[i].bytes
  BY <1>1, IoAsked
<1>3. Laid(ctx', fileSize')
  BY LayoutStays DEF Order
<1>4. ctx'.blk = ctx.blk
  BY DEF SameLayout
<1>5. \A i \in Blocks : Matches(i) => Matches(i)'
  BY <1>2, <1>4 DEF Matches
<1>6. /\ \A i \in Blocks : io'[i].off \in Nat /\ io'[i].len \in Nat
      /\ Going' => \A i \in Blocks : Matches(i)'
  BY <1>2, <1>5 DEF Order
<1> QED
  BY <1>3, <1>6 DEF Order

LEMMA ReadAgainKeepsOrder ==
    ASSUME Order, IInv', NEW mode, ReadAgain(mode)
    PROVE  Order'
<1>1. /\ ctx' = NewCtx /\ io' = [i \in Blocks |-> NoIo]
      /\ fileSize' = opSize /\ limit' = Max(Limits) /\ opSize' = opSize /\ srcLen' = srcLen
  BY DEF ReadAgain, FreshCopy, env
<1>2. Laid(ctx', fileSize')
  BY <1>1, FreshIsLaid DEF Order
<1>3. \A i \in Blocks : io'[i].off \in Nat /\ io'[i].len \in Nat /\ Matches(i)'
  BY <1>1 DEF Matches, NewCtx, FreeBlk, NoIo
<1> QED
  BY <1>1, <1>2, <1>3, LargestLimit DEF Order

\* the copy ends with everything as it is
LEMMA EndsKeepsOrder ==
    ASSUME Order, IInv', Going, NEW how, Ends(how), UNCHANGED <<ctx, io>>
    PROVE  Order'
<1>1. SameLayout(ctx, ctx')
  BY DEF SameLayout, Order, Laid
<1>2. UNCHANGED <<limit, fileSize, srcLen, opSize>>
  BY DEF Ends, env
<1>3. limit' \in Limits /\ srcLen' \in Nat
  BY <1>2 DEF Order
<1> QED
  BY <1>1, <1>2, <1>3, UntouchedKeepsOrder

LEMMA CopyAgainKeepsOrder ==
    ASSUME Order, IInv', Going, NEW mode, NEW cut, CopyAgain(mode, cut)
    PROVE  Order'
<1>1. CASE ReadAgain(mode)
  BY <1>1, ReadAgainKeepsOrder
<1>2. CASE Ends("exists") /\ UNCHANGED <<ctx, io>>
  BY <1>2, EndsKeepsOrder
<1> QED
  BY <1>1, <1>2 DEF CopyAgain

LEMMA Phase2KeepsOrder ==
    ASSUME Order, IInv', AllFinished, TakeOver, SameLayout(CancelOpPhase2(ctx, io), ctx'),
           UNCHANGED <<limit, fileSize, srcLen, opSize>>, Going' => Going
    PROVE  Order'
<1>1. PICK d : d = CancelOpPhase2(ctx, io)
  OBVIOUS
<1>2. Laid(d, fileSize) /\ \A i \in Blocks : d.blk[i].st \in {"free", "read"}
  BY <1>1, Rewound DEF Order, Laid
<1>3. Laid(ctx', fileSize')
  BY <1>1, <1>2, LayoutStays
<1>4. \A i \in Blocks : ctx'.blk[i].st \in {"free", "read"}
  BY <1>1, <1>2 DEF SameLayout
<1>5. \A i \in Blocks : io'[i] = NoIo \/ io'[i] = io[i]
  BY DEF TakeOver
<1>6. ASSUME Going', NEW i \in Blocks PROVE Matches(i)'
  BY <1>4, <1>5, <1>6 DEF Matches, NoIo, Order
<1>7. \A i \in Blocks : io'[i].off \in Nat /\ io'[i].len \in Nat
  BY <1>5 DEF NoIo, Order
<1> QED
  BY <1>3, <1>6, <1>7 DEF Order

LEMMA AvailableIsPart ==
    ASSUME srcLen \in Nat, NEW off \in Nat, NEW len \in Nat
    PROVE  Available(off, len) \in 0..len
<1>1. PICK left : left = Max({0, srcLen - off})
  OBVIOUS
<1>2. left \in Nat
  <2>1. PICK gap \in Int : gap = srcLen - off
    OBVIOUS
  <2>2. \E x \in {0, gap} : \A y \in {0, gap} : x >= y
    <3>1. CASE gap >= 0
      BY <3>1
    <3>2. CASE ~(gap >= 0)
      BY <3>2
    <3> QED
      BY <3>1, <3>2
  <2>3. \A y \in {0, gap} : Max({0, gap}) \in {0, gap} /\ Max({0, gap}) >= y
    BY <2>2 DEF Max
  <2> QED
    BY <1>1, <2>1, <2>3
<1>3. Min({len, left}) \in {len, left} /\ Min({len, left}) <= len
  BY <1>2, MinOfTwo
<1> QED
  BY <1>1, <1>2, <1>3 DEF Available

\* what a finished operation did, if all went well
LEMMA GoodIsPart ==
    ASSUME srcLen \in Nat, NEW r, r.off \in Nat, r.len \in Nat, NEW o, o = GoodOutcome(r)
    PROVE  /\ r.op = "write" => o.res = "ok" /\ o.bytes = r.len
           /\ r.op # "write" => o.res \in {"ok", "eof"} /\ o.bytes \in 0..r.len
                                /\ (o.res = "eof" <=> o.bytes = 0)
<1>1. CASE r.op = "write"
  BY <1>1 DEF GoodOutcome
<1>2. CASE r.op # "write"
  <2>1. PICK n : n = Available(r.off, r.len)
    OBVIOUS
  <2>2. n \in 0..r.len
    BY <2>1, AvailableIsPart
  <2>3. o = [res |-> IF n = 0 THEN "eof" ELSE "ok", bytes |-> n]
    BY <1>2, <2>1 DEF GoodOutcome
  <2> QED
    BY <1>2, <2>2, <2>3
<1> QED
  BY <1>1, <1>2

LEMMA IoCompletesKeepsOrder ==
    ASSUME Order, IInv', NEW i \in Blocks, IoCompletes(i)
    PROVE  Order'
<1>1. PICK o \in {GoodOutcome(io[i])} \cup BadOutcomes(io[i]) :
         io' = [io EXCEPT ![i].st = "done", ![i].res = o.res, ![i].bytes = o.bytes]
  BY DEF IoCompletes
<1>2. /\ UNCHANGED <<ctx, limit, fileSize, srcLen, opSize, pc, cancel>>
  BY DEF IoCompletes, env, setup
<1>3. DOMAIN io[i] = {"op", "off", "len", "st", "res", "bytes", "abort"} /\ DOMAIN io = Blocks
  BY DEF Order, IInv, Types
<1>4. /\ io'[i].op = io[i].op /\ io'[i].off = io[i].off /\ io'[i].len = io[i].len
      /\ io'[i].st = "done" /\ io'[i].res = o.res /\ io'[i].bytes = o.bytes
      /\ \A j \in Blocks \ {i} : io'[j] = io[j]
  BY <1>1, <1>3
<1>5. io[i].off \in Nat /\ io[i].len \in Nat /\ srcLen \in Nat
  BY DEF Order
<1>6. /\ io[i].op = "write" /\ o.res = "ok" => o.bytes = io[i].len
      /\ io[i].op = "read" /\ o.res \in {"ok", "eof"} => o.bytes \in 0..io[i].len
  <2>1. CASE o = GoodOutcome(io[i])
    BY <1>5, <2>1, GoodIsPart
  <2>2. CASE o \in BadOutcomes(io[i])
    <3>1. o.res \in {"aborted", "netname", "other"}
      BY <2>2 DEF BadOutcomes
    <3> QED
      BY <3>1
  <2> QED
    BY <2>1, <2>2
<1>7. Laid(ctx', fileSize')
  BY <1>2 DEF Order
<1>8. ASSUME Going', NEW j \in Blocks PROVE Matches(j)'
  <2>1. Matches(j)
    BY <1>2, <1>8 DEF Order, Going
  <2>2. CASE j = i
    BY <1>2, <1>4, <1>6, <2>1, <2>2 DEF Matches
  <2>3. CASE j # i
    BY <1>2, <1>4, <2>1, <2>3 DEF Matches
  <2> QED
    BY <2>2, <2>3
<1>9. \A j \in Blocks : io'[j].off \in Nat /\ io'[j].len \in Nat
  BY <1>4 DEF Order
<1> QED
  BY <1>2, <1>7, <1>8, <1>9 DEF Order

LEMMA FreedKeepsOrder ==
    ASSUME Order, IInv', NEW i \in Blocks, ScanAt(i), ScanNext(ctx'),
           ctx.blk[i].st \in {"writing", "discarded"}, ctx' = FreeBlock(ctx, i),
           io' = [io EXCEPT ![i] = NoIo], limit' \in Limits,
           UNCHANGED <<fileSize, srcLen, opSize, cancel>>
    PROVE  Order'
<1>1. Laid(ctx', fileSize') /\ \A j \in Blocks : ctx'.blk[j] = IF j = i THEN FreeBlk ELSE ctx.blk[j]
  BY FreedIsLaid DEF Order
<1>2. io'[i] = NoIo /\ \A j \in Blocks \ {i} : io'[j] = io[j]
  BY DEF Order, IInv, Types
<1>3. Going
  BY DEF ScanAt, Going
<1>4. \A j \in Blocks : Matches(j)'
  BY <1>1, <1>2, <1>3 DEF Order, Matches, FreeBlk, NoIo
<1>5. \A j \in Blocks : io'[j].off \in Nat /\ io'[j].len \in Nat
  BY <1>2 DEF Order, NoIo
<1> QED
  BY <1>1, <1>4, <1>5 DEF Order

LEMMA FreeIndexIsFree ==
    ASSUME Context(ctx), Counted(ctx), ctx.free > 0
    PROVE  FreeBlockIndex \in Blocks /\ ctx.blk[FreeBlockIndex].st = "free"
<1>1. PICK F : F = {i \in Blocks : ctx.blk[i].st = "free"}
  OBVIOUS
<1>2. Cardinality(F) > 0
  BY <1>1 DEF Counted, Free
<1>3. F # {} /\ F \subseteq Blocks
  BY <1>1, <1>2, FS_EmptySet
<1>4. F \subseteq Nat
  BY <1>3 DEF Blocks
<1>5. Min(F) \in F
  BY <1>3, <1>4, MinIsLeast
<1>6. CASE ctx.blk[ctx.freeIdx].st = "free"
  BY <1>6 DEF FreeBlockIndex, Counted
<1>7. CASE ctx.blk[ctx.freeIdx].st # "free"
  BY <1>1, <1>5, <1>7 DEF FreeBlockIndex
<1> QED
  BY <1>6, <1>7

LEMMA EndIsTested ==
    ASSUME Order
    PROVE  /\ TestEOF <=> ctx.readOffset = fileSize
           /\ ~TestEOF => ToRead \in Nat \ {0} /\ ctx.readOffset + ToRead <= fileSize
<1>1. ctx.readOffset \in Nat /\ fileSize \in Nat /\ ctx.readOffset <= fileSize
  BY DEF Order, Laid, Tiled
<1>2. limit \in Nat \ {0}
  BY LimitIsPositive DEF Order
<1>3. CASE ctx.readOffset + limit <= fileSize
  BY <1>1, <1>2, <1>3 DEF TestEOF, ToRead
<1>4. CASE ~(ctx.readOffset + limit <= fileSize)
  BY <1>1, <1>2, <1>4 DEF TestEOF, ToRead
<1> QED
  BY <1>3, <1>4

\* what starting a read of "len" units into block i does
Starts(i, len, test, c) ==
    /\ Context(c)
    /\ c.blk[i] = [st |-> IF test THEN "testing" ELSE "reading",
                   off |-> ctx.readOffset, len |-> len]
    /\ \A j \in Blocks \ {i} : c.blk[j] = ctx.blk[j]
    /\ c.writeOffset = ctx.writeOffset
    /\ c.readOffset = (IF test THEN ctx.readOffset ELSE ctx.readOffset + len)
    /\ c.free = ctx.free - 1 /\ c.freeIdx = ctx.freeIdx /\ c.reading = ctx.reading + 1
    /\ c.readingDone = ctx.readingDone

LEMMA ReadStarts ==
    ASSUME Order, StartReading
    PROVE  \E i \in Blocks, len \in Nat \ {0}, test \in BOOLEAN :
              /\ ctx.blk[i].st = "free"
              /\ IF test THEN ctx.readOffset = fileSize /\ ctx.reading = 0
                         ELSE ctx.readOffset + len <= fileSize
              /\ IF cancel THEN SameLayout(ctx, ctx') /\ ctx'.readingDone = ctx.readingDone
                                /\ pc' = "rderr"
                           ELSE Starts(i, len, test, ctx') /\ pc' = pc /\ err' = err
              /\ \A j \in Blocks \ {i} :
                    io'[j].op = io[j].op /\ io'[j].off = io[j].off /\ io'[j].len = io[j].len
                    /\ io'[j].st = io[j].st /\ io'[j].res = io[j].res /\ io'[j].bytes = io[j].bytes
              /\ io'[i].op = "read" /\ io'[i].off = ctx.readOffset /\ io'[i].len = len
              /\ io'[i].st = "done" /\ io'[i].res \in {"ok", "eof"} => io'[i].bytes \in 0..len
<1> DEFINE i == FreeBlockIndex
           test == TestEOF
           len == IF TestEOF THEN limit ELSE ToRead
           r == IoStarts("read", ctx.readOffset, len)
           o == GoodOutcome(r)
           ios(sync) == [io EXCEPT ![i] = IF sync THEN [r EXCEPT !.st = "done", !.res = o.res,
                                                                 !.bytes = o.bytes] ELSE r]
           c(sync) == [ctx EXCEPT !.forceOp = IF sync THEN "write" ELSE "none"]
<1>1. PICK sync \in BOOLEAN :
        IF cancel
        THEN EnterError("other", "loop", 0, ios(sync)) /\ ctx' = c(sync)
        ELSE /\ io' = ios(sync)
             /\ ctx' = [c(sync) EXCEPT
                    !.blk[i] = [st |-> IF test THEN "testing" ELSE "reading",
                                off |-> ctx.readOffset, len |-> len],
                    !.readOffset = IF test THEN @ ELSE @ + len,
                    !.free = @ - 1, !.reading = @ + 1,
                    !.issued = Append(@, i)]
             /\ UNCHANGED <<pc, err>>
  BY DEF StartReading
<1>2. /\ Context(ctx) /\ Counted(ctx) /\ srcLen \in Nat /\ ctx.readOffset \in Nat
      /\ DOMAIN io = Blocks
      /\ \A j \in Blocks : DOMAIN io[j] = {"op", "off", "len", "st", "res", "bytes", "abort"}
  BY DEF Order, IInv, Types, Laid, Tiled
<1>3. ctx.free > 0 /\ (test => ctx.reading = 0)
  BY DEF StartReading, CanStartReading
<1>4. i \in Blocks /\ ctx.blk[i].st = "free"
  BY <1>2, <1>3, FreeIndexIsFree
<1>5. len \in Nat \ {0} /\ test \in BOOLEAN
  <2>1. limit \in Nat \ {0}
    BY LimitIsPositive DEF Order
  <2> QED
    BY <2>1, EndIsTested DEF TestEOF
<1>6. IF test THEN ctx.readOffset = fileSize /\ ctx.reading = 0
              ELSE ctx.readOffset + len <= fileSize
  BY <1>3, EndIsTested
<1>7. /\ r.op = "read" /\ r.off = ctx.readOffset /\ r.len = len /\ r.st = "pending"
      /\ DOMAIN r = {"op", "off", "len", "st", "res", "bytes", "abort"}
  BY DEF IoStarts, NoIo
<1> HIDE DEF i, r, len
<1>8. o.bytes \in 0..len
  BY <1>2, <1>5, <1>7, GoodIsPart
<1> HIDE DEF o, test
<1>9. /\ DOMAIN ios(sync) = Blocks
      /\ \A j \in Blocks \ {i} : ios(sync)[j] = io[j]
      /\ ios(sync)[i].op = "read" /\ ios(sync)[i].off = ctx.readOffset
      /\ ios(sync)[i].len = len
      /\ ios(sync)[i].st = "done" => ios(sync)[i].bytes \in 0..len
      /\ DOMAIN ios(sync)[i] = {"op", "off", "len", "st", "res", "bytes", "abort"}
  BY <1>2, <1>4, <1>7, <1>8
<1>10. io' = ios(sync) \/ io' = CancelIo(ios(sync))
  BY <1>1 DEF EnterError
<1> HIDE DEF ios
<1>11. \A j \in Blocks : /\ io'[j].op = ios(sync)[j].op /\ io'[j].off = ios(sync)[j].off
                         /\ io'[j].len = ios(sync)[j].len /\ io'[j].st = ios(sync)[j].st
                         /\ io'[j].res = ios(sync)[j].res
                         /\ io'[j].bytes = ios(sync)[j].bytes
  <2>1. \A j \in Blocks : DOMAIN ios(sync)[j] = {"op", "off", "len", "st", "res", "bytes", "abort"}
    BY <1>2, <1>9
  <2> QED
    BY <1>10, <2>1 DEF CancelIo
<1>12. /\ \A j \in Blocks \ {i} :
             io'[j].op = io[j].op /\ io'[j].off = io[j].off /\ io'[j].len = io[j].len
             /\ io'[j].st = io[j].st /\ io'[j].res = io[j].res /\ io'[j].bytes = io[j].bytes
       /\ io'[i].op = "read" /\ io'[i].off = ctx.readOffset /\ io'[i].len = len
       /\ io'[i].st = "done" /\ io'[i].res \in {"ok", "eof"} => io'[i].bytes \in 0..len
  BY <1>4, <1>9, <1>11
<1>13. CASE cancel
  <2>1. SameLayout(ctx, ctx') /\ ctx'.readingDone = ctx.readingDone /\ pc' = "rderr"
    BY <1>1, <1>2, <1>13 DEF EnterError, SameLayout, Context, CtxFields
  <2> QED
    BY <1>4, <1>5, <1>6, <1>12, <1>13, <2>1
<1>14. CASE ~cancel
  <2>1. PICK b : b = [st |-> IF test THEN "testing" ELSE "reading",
                      off |-> ctx.readOffset, len |-> len]
    OBVIOUS
  <2>2. DOMAIN b = {"st", "off", "len"}
    BY <2>1
  <2>3. /\ DOMAIN ctx' = CtxFields /\ ctx'.blk = [ctx.blk EXCEPT ![i] = b]
        /\ ctx'.writeOffset = ctx.writeOffset
        /\ ctx'.readOffset = (IF test THEN ctx.readOffset ELSE ctx.readOffset + len)
        /\ ctx'.free = ctx.free - 1 /\ ctx'.freeIdx = ctx.freeIdx
        /\ ctx'.reading = ctx.reading + 1 /\ ctx'.readingDone = ctx.readingDone
    BY <1>1, <1>2, <1>14, <2>1 DEF Context, CtxFields
  <2>4. pc' = pc /\ err' = err
    BY <1>1, <1>14
  <2>5. Starts(i, len, test, ctx')
    BY <1>2, <1>4, <2>1, <2>2, <2>3 DEF Starts, Context
  <2> QED
    BY <1>4, <1>5, <1>6, <1>12, <1>14, <2>4, <2>5
<1> QED
  BY <1>13, <1>14

LEMMA StartReadingKeepsOrder ==
    ASSUME Order, IInv', StartReading
    PROVE  Order'
<1>1. PICK i \in Blocks, len \in Nat \ {0}, test \in BOOLEAN :
              /\ ctx.blk[i].st = "free"
              /\ IF test THEN ctx.readOffset = fileSize /\ ctx.reading = 0
                         ELSE ctx.readOffset + len <= fileSize
              /\ IF cancel THEN SameLayout(ctx, ctx') /\ ctx'.readingDone = ctx.readingDone
                                /\ pc' = "rderr"
                           ELSE Starts(i, len, test, ctx') /\ pc' = pc /\ err' = err
              /\ \A j \in Blocks \ {i} :
                    io'[j].op = io[j].op /\ io'[j].off = io[j].off /\ io'[j].len = io[j].len
                    /\ io'[j].st = io[j].st /\ io'[j].res = io[j].res /\ io'[j].bytes = io[j].bytes
              /\ io'[i].op = "read" /\ io'[i].off = ctx.readOffset /\ io'[i].len = len
              /\ io'[i].st = "done" /\ io'[i].res \in {"ok", "eof"} => io'[i].bytes \in 0..len
  BY ReadStarts
<1>2. UNCHANGED <<limit, fileSize, srcLen, opSize, cancel>> /\ pc = "top"
  BY DEF StartReading, env, setup
<1>3. Laid(ctx, fileSize) /\ ctx.readOffset \in Nat
  BY DEF Order, Laid, Tiled
<1>4. \A j \in Blocks : io'[j].off \in Nat /\ io'[j].len \in Nat
  BY <1>1, <1>3 DEF Order
<1>5. CASE cancel
  <2>1. Laid(ctx', fileSize)
    BY <1>1, <1>3, <1>5, LayoutStays
  <2>2. ~Going'
    BY <1>1, <1>2, <1>5 DEF Going
  <2> QED
    BY <1>2, <1>4, <2>1, <2>2 DEF Order
<1>6. CASE ~cancel
  <2>1. Starts(i, len, test, ctx')
    BY <1>1, <1>6
  <2>2. Laid(ctx', fileSize)
    BY <1>1, <1>3, <2>1, ReadIsLaid DEF Starts
  <2>3. /\ ctx'.blk[i].off = ctx.readOffset /\ ctx'.blk[i].len = len
        /\ \A j \in Blocks \ {i} : ctx'.blk[j] = ctx.blk[j]
    BY <2>1 DEF Starts
  <2>4. ASSUME NEW j \in Blocks PROVE Matches(j)'
    <3>1. CASE j = i
      BY <1>1, <2>3, <3>1 DEF Matches
    <3>2. CASE j # i
      <4>1. Matches(j)
        BY <1>2 DEF Order, Going
      <4> QED
        BY <1>1, <2>3, <3>2, <4>1 DEF Matches
    <3> QED
      BY <3>1, <3>2
  <2> QED
    BY <1>2, <1>4, <2>2, <2>4 DEF Order
<1> QED
  BY <1>5, <1>6

\* what starting the write of block i does
Writes(i, c) ==
    /\ Context(c)
    /\ c.blk[i] = [ctx.blk[i] EXCEPT !.st = "writing"]
    /\ \A j \in Blocks \ {i} : c.blk[j] = ctx.blk[j]
    /\ c.writeOffset = ctx.writeOffset + ctx.blk[i].len /\ c.readOffset = ctx.readOffset
    /\ c.free = ctx.free /\ c.freeIdx = ctx.freeIdx /\ c.reading = ctx.reading
    /\ c.readingDone = ctx.readingDone

\* the target after the write of block i
TargetGets(i) ==
    /\ tgt' = [u \in 0..MaxLen - 1 |->
                 IF u \in ctx.blk[i].off..ctx.blk[i].off + ctx.blk[i].len - 1 THEN u ELSE tgt[u]]
    /\ tgtLen' = Max({tgtLen, ctx.blk[i].off + ctx.blk[i].len})

LEMMA WriteStarts ==
    ASSUME Order, StartWriting
    PROVE  \E i \in Blocks, sync \in BOOLEAN :
              /\ ctx.blk[i].st = "read" /\ ctx.blk[i].off = ctx.writeOffset
              /\ IF cancel THEN SameLayout(ctx, ctx') /\ ctx'.readingDone = ctx.readingDone
                                /\ pc' = "wrerr"
                           ELSE Writes(i, ctx') /\ pc' = pc /\ err' = err
              /\ \A j \in Blocks \ {i} :
                    io'[j].op = io[j].op /\ io'[j].off = io[j].off /\ io'[j].len = io[j].len
                    /\ io'[j].st = io[j].st /\ io'[j].res = io[j].res /\ io'[j].bytes = io[j].bytes
              /\ io'[i].op = "write" /\ io'[i].off = ctx.blk[i].off /\ io'[i].len = ctx.blk[i].len
              /\ IF sync THEN io'[i].st = "done" /\ io'[i].res = "ok"
                              /\ io'[i].bytes = ctx.blk[i].len /\ TargetGets(i)
                         ELSE io'[i].st = "pending" /\ io'[i].res = "none"
                              /\ tgt' = tgt /\ tgtLen' = tgtLen
<1> DEFINE r(i) == IoStarts("write", ctx.writeOffset, ctx.blk[i].len)
           o(i) == GoodOutcome(r(i))
           ios(i, sync) == [io EXCEPT ![i] = IF sync THEN [r(i) EXCEPT !.st = "done",
                                                !.res = o(i).res, !.bytes = o(i).bytes] ELSE r(i)]
           c(sync) == [ctx EXCEPT !.forceOp = IF ~ctx.readingDone /\ sync THEN "read" ELSE "none"]
<1>1. PICK i \in NextToWrite, sync \in BOOLEAN :
        /\ IF sync THEN Effect(i, r(i), o(i)) ELSE Quiet
        /\ IF cancel
           THEN /\ EnterError("write", "loop", ctx.writeOffset + ctx.blk[i].len, ios(i, sync))
                /\ ctx' = c(sync)
           ELSE /\ io' = ios(i, sync)
                /\ ctx' = [c(sync) EXCEPT !.writeOffset = @ + ctx.blk[i].len,
                                          !.blk[i].st = "writing", !.writing = @ + 1,
                                          !.issued = Append(@, i)]
                /\ UNCHANGED <<pc, err>>
  BY DEF StartWriting
<1>2. /\ Context(ctx) /\ srcLen \in Nat /\ ctx.readOffset \in Nat
      /\ DOMAIN io = Blocks
      /\ \A j \in Blocks : DOMAIN io[j] = {"op", "off", "len", "st", "res", "bytes", "abort"}
  BY DEF Order, IInv, Types, Laid, Tiled
<1>3. i \in Blocks /\ ctx.blk[i].st = "read" /\ ctx.blk[i].off = ctx.writeOffset
  BY DEF NextToWrite
<1>4. buf[i] = ctx.writeOffset
  BY <1>3 DEF StartWriting, CanStartWriting, EndOfScan, Order, IInv, Going, Agrees
<1>5. /\ r(i).op = "write" /\ r(i).off = ctx.writeOffset /\ r(i).len = ctx.blk[i].len
      /\ r(i).st = "pending" /\ r(i).res = "none"
      /\ DOMAIN r(i) = {"op", "off", "len", "st", "res", "bytes", "abort"}
      /\ o(i).res = "ok" /\ o(i).bytes = ctx.blk[i].len
  BY DEF IoStarts, NoIo, GoodOutcome
<1> HIDE DEF r, o
<1>6. /\ DOMAIN ios(i, sync) = Blocks
      /\ \A j \in Blocks \ {i} : ios(i, sync)[j] = io[j]
      /\ ios(i, sync)[i].op = "write" /\ ios(i, sync)[i].off = ctx.writeOffset
      /\ ios(i, sync)[i].len = ctx.blk[i].len
      /\ IF sync THEN ios(i, sync)[i].st = "done" /\ ios(i, sync)[i].res = "ok"
                      /\ ios(i, sync)[i].bytes = ctx.blk[i].len
                 ELSE ios(i, sync)[i].st = "pending" /\ ios(i, sync)[i].res = "none"
      /\ DOMAIN ios(i, sync)[i] = {"op", "off", "len", "st", "res", "bytes", "abort"}
  BY <1>2, <1>3, <1>5
<1>7. io' = ios(i, sync) \/ io' = CancelIo(ios(i, sync))
  BY <1>1 DEF EnterError
<1> HIDE DEF ios
<1>8. \A j \in Blocks : /\ io'[j].op = ios(i, sync)[j].op /\ io'[j].off = ios(i, sync)[j].off
                        /\ io'[j].len = ios(i, sync)[j].len /\ io'[j].st = ios(i, sync)[j].st
                        /\ io'[j].res = ios(i, sync)[j].res
                        /\ io'[j].bytes = ios(i, sync)[j].bytes
  <2>1. \A j \in Blocks :
           DOMAIN ios(i, sync)[j] = {"op", "off", "len", "st", "res", "bytes", "abort"}
    BY <1>2, <1>6
  <2> QED
    BY <1>7, <2>1 DEF CancelIo
<1>9. ASSUME cancel
       PROVE  SameLayout(ctx, ctx') /\ ctx'.readingDone = ctx.readingDone /\ pc' = "wrerr"
  BY <1>1, <1>2, <1>9 DEF EnterError, SameLayout, Context, CtxFields
<1>10. ASSUME ~cancel
       PROVE  Writes(i, ctx') /\ pc' = pc /\ err' = err
  <2>1. /\ DOMAIN ctx' = CtxFields /\ ctx'.blk = [ctx.blk EXCEPT ![i].st = "writing"]
        /\ ctx'.writeOffset = ctx.writeOffset + ctx.blk[i].len
        /\ ctx'.readOffset = ctx.readOffset
        /\ ctx'.free = ctx.free /\ ctx'.freeIdx = ctx.freeIdx
        /\ ctx'.reading = ctx.reading /\ ctx'.readingDone = ctx.readingDone
    BY <1>1, <1>2, <1>10 DEF Context, CtxFields
  <2>2. pc' = pc /\ err' = err
    BY <1>1, <1>10
  <2> QED
    BY <1>2, <1>3, <2>1, <2>2 DEF Writes, Context
<1>11. CASE sync
  <2>1. Effect(i, r(i), o(i))
    BY <1>1, <1>11
  <2>2. \A u : Written(i, r(i), u) = u
    BY <1>4, <1>5 DEF Written
  <2>3. TargetGets(i)
    <3>1. o(i).bytes > 0
      BY <1>3, <1>5 DEF Order, Laid, Tiled, Apart, Data
    <3> QED
      BY <1>3, <1>5, <2>1, <2>2, <3>1 DEF Effect, TargetGets
  <2>4. /\ io'[i].op = "write" /\ io'[i].off = ctx.blk[i].off /\ io'[i].len = ctx.blk[i].len
        /\ io'[i].st = "done" /\ io'[i].res = "ok" /\ io'[i].bytes = ctx.blk[i].len
    BY <1>3, <1>6, <1>8, <1>11
  <2>5. \A j \in Blocks \ {i} :
          io'[j].op = io[j].op /\ io'[j].off = io[j].off /\ io'[j].len = io[j].len
          /\ io'[j].st = io[j].st /\ io'[j].res = io[j].res /\ io'[j].bytes = io[j].bytes
    BY <1>6, <1>8
  <2> QED
    BY <1>3, <1>11, <2>3, <2>4, <2>5, <1>9, <1>10
<1>12. CASE ~sync
  <2>1. tgt' = tgt /\ tgtLen' = tgtLen
    BY <1>1, <1>12 DEF Quiet
  <2> QED
    BY <1>3, <1>6, <1>8, <1>12, <2>1, <1>9, <1>10
<1> QED
  BY <1>11, <1>12

LEMMA StartWritingKeepsOrder ==
    ASSUME Order, IInv', StartWriting
    PROVE  Order'
<1>1. PICK i \in Blocks, sync \in BOOLEAN :
              /\ ctx.blk[i].st = "read" /\ ctx.blk[i].off = ctx.writeOffset
              /\ IF cancel THEN SameLayout(ctx, ctx') /\ ctx'.readingDone = ctx.readingDone
                                /\ pc' = "wrerr"
                           ELSE Writes(i, ctx') /\ pc' = pc /\ err' = err
              /\ \A j \in Blocks \ {i} :
                    io'[j].op = io[j].op /\ io'[j].off = io[j].off /\ io'[j].len = io[j].len
                    /\ io'[j].st = io[j].st /\ io'[j].res = io[j].res /\ io'[j].bytes = io[j].bytes
              /\ io'[i].op = "write" /\ io'[i].off = ctx.blk[i].off /\ io'[i].len = ctx.blk[i].len
              /\ sync => io'[i].bytes = ctx.blk[i].len
              /\ ~sync => io'[i].st = "pending"
  BY WriteStarts
<1>2. UNCHANGED <<limit, fileSize, srcLen, opSize, cancel>> /\ pc = "scan"
  BY DEF StartWriting, CanStartWriting, EndOfScan, env, setup
<1>3. Laid(ctx, fileSize) /\ ctx.blk[i].off \in Nat /\ ctx.blk[i].len \in Nat
  BY <1>1 DEF Order, Laid, Tiled, Apart, Data
<1>4. \A j \in Blocks : io'[j].off \in Nat /\ io'[j].len \in Nat
  BY <1>1, <1>3 DEF Order
<1>5. CASE cancel
  <2>1. Laid(ctx', fileSize)
    BY <1>1, <1>3, <1>5, LayoutStays
  <2>2. ~Going'
    BY <1>1, <1>2, <1>5 DEF Going
  <2> QED
    BY <1>2, <1>4, <2>1, <2>2 DEF Order
<1>6. CASE ~cancel
  <2>1. Writes(i, ctx')
    BY <1>1, <1>6
  <2>2. Laid(ctx', fileSize)
    BY <1>1, <1>3, <2>1, WriteIsLaid DEF Writes
  <2>3. /\ ctx'.blk[i].off = ctx.blk[i].off /\ ctx'.blk[i].len = ctx.blk[i].len
        /\ \A j \in Blocks \ {i} : ctx'.blk[j] = ctx.blk[j]
    BY <1>3, <2>1 DEF Writes, Laid, Context
  <2>4. ASSUME NEW j \in Blocks PROVE Matches(j)'
    <3>1. CASE j = i
      BY <1>1, <2>3, <3>1 DEF Matches
    <3>2. CASE j # i
      <4>1. Matches(j)
        BY <1>2 DEF Order, Going
      <4> QED
        BY <1>1, <2>3, <3>2, <4>1 DEF Matches
    <3> QED
      BY <3>1, <3>2
  <2> QED
    BY <1>2, <1>4, <2>2, <2>4 DEF Order
<1> QED
  BY <1>5, <1>6

\* a finished read was taken
LEMMA ReadIsTaken ==
    ASSUME Order, ReadDone
    PROVE  \E i \in Blocks :
              /\ ScanAt(i) /\ Finished(i) /\ ctx.blk[i].st \in {"reading", "testing"}
              /\ io[i].res \in {"ok", "eof"}
              /\ io[i].bytes \in Nat /\ io[i].bytes <= ctx.blk[i].len
              /\ Takes(ctx, i, io[i].bytes, ctx')
              /\ fileSize' \in Nat /\ ctx'.readOffset <= fileSize'
              /\ fileSize' = IF Short(ctx, i, io[i].bytes)
                             THEN IF ~Testing(ctx, i) \/ io[i].bytes # 0
                                  THEN ReadEnd(ctx, i, io[i].bytes) ELSE fileSize
                             ELSE IF Testing(ctx, i)
                                  THEN Max({srcLen, ReadEnd(ctx, i, io[i].bytes)}) ELSE fileSize
              /\ (ctx'.readingDone <=> ctx.readingDone \/ (io[i].res = "eof" /\ Testing(ctx, i)))
              /\ io' = [io EXCEPT ![i] = NoIo] /\ ScanNext(ctx')
              /\ UNCHANGED <<limit, opDone, err, out, result, env, setup>> /\ Quiet
<1> DEFINE testing(i) == ctx.blk[i].st = "testing"
           eof(i) == io[i].res = "eof"
           short(i) == io[i].bytes < ctx.blk[i].len
           end(i) == ctx.blk[i].off + io[i].bytes
           size(i) == IF short(i)
                      THEN (IF ~testing(i) \/ io[i].bytes # 0 THEN end(i) ELSE fileSize)
                      ELSE (IF testing(i) THEN Max({srcLen, end(i)}) ELSE fileSize)
           c1(i) == [ctx EXCEPT
                       !.autoRetry = 0,
                       !.readingDone = @ \/ (eof(i) /\ testing(i)),
                       !.forceOp = IF eof(i) THEN "none" ELSE @,
                       !.readOffset = IF IF short(i) THEN ~testing(i) \/ io[i].bytes # 0
                                         ELSE testing(i)
                                      THEN end(i) ELSE @,
                       !.blk[i].len = IF short(i) /\ io[i].bytes # 0 THEN io[i].bytes ELSE @]
           c2(i) == IF short(i) /\ ~testing(i) THEN DiscardBlocksBehindEOF(c1(i), size(i), i)
                                               ELSE c1(i)
           c3(i) == IF io[i].bytes = 0 THEN FreeBlock(c2(i), i) ELSE KeepAsRead(c2(i), {i})
<1>1. PICK i \in Blocks :
        /\ ScanAt(i) /\ Finished(i)
        /\ ctx.blk[i].st \in {"reading", "testing"} /\ io[i].res \in {"ok", "eof"}
        /\ fileSize' = size(i) /\ ctx' = c3(i)
        /\ io' = [io EXCEPT ![i] = NoIo]
        /\ ScanNext(c3(i))
        /\ UNCHANGED <<limit, opDone, err, out, result, env, setup>> /\ Quiet
  BY DEF ReadDone
<1>2. Laid(ctx, fileSize) /\ Context(ctx) /\ DOMAIN ctx.blk = Blocks /\ srcLen \in Nat
  BY DEF Order, Laid, Context
<1>3. io[i].bytes \in Nat /\ io[i].bytes <= ctx.blk[i].len
  <2>1. Agrees(i) /\ Matches(i) /\ io[i].len \in Nat
    BY <1>1 DEF Order, IInv, Going, ScanAt
  <2> QED
    BY <1>1, <2>1 DEF Agrees, Matches, Finished
<1>4. PICK bytes \in Nat : bytes = io[i].bytes
  BY <1>3
<1>5. /\ ctx.blk[i].off \in Nat /\ ctx.blk[i].len \in Nat \ {0} /\ ctx.readOffset \in Nat
      /\ fileSize \in Nat /\ ctx.readOffset <= fileSize
      /\ Testing(ctx, i) => ctx.blk[i].off = ctx.readOffset
  BY <1>1, <1>2, TakenBlock
<1>6. /\ testing(i) <=> Testing(ctx, i)
      /\ short(i) <=> Short(ctx, i, bytes)
      /\ short(i) /\ ~testing(i) <=> Cut(ctx, i, bytes)
      /\ end(i) = ReadEnd(ctx, i, bytes)
  BY <1>4 DEF Testing, Short, Cut, ReadEnd
<1>7. PICK len1 : len1 = IF short(i) /\ io[i].bytes # 0 THEN io[i].bytes ELSE ctx.blk[i].len
  OBVIOUS
<1>8. bytes # 0 => len1 = bytes
  BY <1>3, <1>4, <1>5, <1>7
<1>9. PICK done \in BOOLEAN : done = (ctx.readingDone \/ (eof(i) /\ testing(i)))
  OBVIOUS
<1>10. PICK ro : ro = IF IF short(i) THEN ~testing(i) \/ io[i].bytes # 0 ELSE testing(i)
                      THEN end(i) ELSE ctx.readOffset
  OBVIOUS
<1>11. ro = NewReadOffset(ctx, i, bytes)
  BY <1>3, <1>4, <1>5, <1>6, <1>10 DEF NewReadOffset, ReadEnd
<1>12. PICK force : force = IF eof(i) THEN "none" ELSE ctx.forceOp
  OBVIOUS
<1>13. PICK d1 : d1 = [ctx EXCEPT !.autoRetry = 0, !.readingDone = done, !.forceOp = force,
                                  !.readOffset = ro, !.blk[i].len = len1]
  OBVIOUS
<1>14. c1(i) = d1
  BY <1>2, <1>7, <1>9, <1>10, <1>12, <1>13 DEF Context, CtxFields
<1>15. /\ Context(d1) /\ \A j \in Blocks \ {i} : d1.blk[j] = ctx.blk[j]
       /\ d1.blk[i].st = ctx.blk[i].st /\ d1.blk[i].off = ctx.blk[i].off
       /\ d1.blk[i].len = len1 /\ d1.writeOffset = ctx.writeOffset /\ d1.readOffset = ro
       /\ d1.free = ctx.free /\ d1.freeIdx = ctx.freeIdx /\ d1.reading = ctx.reading
       /\ d1.readingDone = done
  BY <1>2, <1>13 DEF Context, CtxFields
<1>16. PICK new : new = size(i)
  OBVIOUS
<1>17. /\ new \in Nat /\ ro <= new
       /\ Cut(ctx, i, bytes) => new = ReadEnd(ctx, i, bytes)
  <2>1. end(i) \in Nat /\ ReadEnd(ctx, i, bytes) = end(i)
    BY <1>3, <1>5, <1>6
  <2>2. Cut(ctx, i, bytes) => new = end(i)
    BY <1>6, <1>16
  <2>3. CASE short(i) /\ (~testing(i) \/ io[i].bytes # 0)
    BY <1>10, <1>16, <2>1, <2>2, <2>3
  <2>4. CASE short(i) /\ ~(~testing(i) \/ io[i].bytes # 0)
    BY <1>5, <1>10, <1>16, <2>1, <2>2, <2>4
  <2>5. CASE ~short(i) /\ testing(i)
    <3>1. PICK e \in Nat : e = end(i)
      BY <2>1
    <3>2. Max({srcLen, e}) \in {srcLen, e} /\ Max({srcLen, e}) >= e
      BY <1>2, MaxOfTwo
    <3>3. new = Max({srcLen, e}) /\ ro = e
      BY <1>10, <1>16, <2>5, <3>1
    <3> QED
      BY <1>2, <2>1, <2>2, <3>2, <3>3
  <2>6. CASE ~short(i) /\ ~testing(i)
    BY <1>5, <1>10, <1>16, <2>1, <2>2, <2>6
  <2> QED
    BY <2>1, <2>2, <2>3, <2>4, <2>5, <2>6
<1>18. PICK e2 : e2 = c2(i)
  OBVIOUS
<1> HIDE DEF c1, size
<1>19. /\ Cut(ctx, i, bytes) => e2 = DiscardBlocksBehindEOF(d1, ReadEnd(ctx, i, bytes), i)
       /\ ~Cut(ctx, i, bytes) => e2 = d1
  <2>1. CASE short(i) /\ ~testing(i)
    <3>1. c2(i) = DiscardBlocksBehindEOF(c1(i), size(i), i)
      BY <2>1
    <3> QED
      BY <1>6, <1>14, <1>16, <1>17, <1>18, <2>1, <3>1
  <2>2. CASE ~(short(i) /\ ~testing(i))
    <3>1. c2(i) = c1(i)
      BY <2>2
    <3> QED
      BY <1>6, <1>14, <1>18, <2>2, <3>1
  <2> QED
    BY <2>1, <2>2
<1>20. /\ bytes = 0 => ctx' = FreeBlock(e2, i)
       /\ bytes # 0 => ctx' = KeepAsRead(e2, {i})
  BY <1>1, <1>4, <1>18
<1>21. fileSize' = new /\ ScanNext(ctx') /\ io' = [io EXCEPT ![i] = NoIo]
  BY <1>1, <1>16
<1>22. UNCHANGED <<limit, opDone, err, out, result, env, setup>> /\ Quiet
  BY <1>1
<1>23. ScanAt(i) /\ Finished(i) /\ io[i].res \in {"ok", "eof"}
  BY <1>1
<1>24. ctx.blk[i].st \in {"reading", "testing"}
  BY <1>1
<1>25. done <=> (ctx.readingDone \/ (io[i].res = "eof" /\ Testing(ctx, i)))
  BY <1>6, <1>9
<1>26. new = IF Short(ctx, i, bytes)
             THEN IF ~Testing(ctx, i) \/ bytes # 0 THEN ReadEnd(ctx, i, bytes) ELSE fileSize
             ELSE IF Testing(ctx, i) THEN Max({srcLen, ReadEnd(ctx, i, bytes)}) ELSE fileSize
  BY <1>4, <1>6, <1>16 DEF size
<1> HIDE DEF testing, eof, short, end, c2, c3
<1>27. bytes <= ctx.blk[i].len
  BY <1>3, <1>4
<1>28. Takes(ctx, i, bytes, ctx') /\ ctx'.readingDone = d1.readingDone
  BY ONLY <1>2, <1>8, <1>11, <1>15, <1>19, <1>20, <1>24, <1>27, ReadTakes, <1>4
<1>29. ctx'.readOffset = ro
  BY <1>11, <1>28 DEF Takes
<1> QED
  BY <1>4, <1>15, <1>17, <1>21, <1>22, <1>23, <1>24, <1>25, <1>26, <1>27, <1>28, <1>29

LEMMA ReadDoneKeepsOrder ==
    ASSUME Order, IInv', ReadDone
    PROVE  Order'
<1>1. PICK i \in Blocks :
              /\ ScanAt(i) /\ ctx.blk[i].st \in {"reading", "testing"}
              /\ io[i].bytes \in Nat /\ io[i].bytes <= ctx.blk[i].len
              /\ Takes(ctx, i, io[i].bytes, ctx')
              /\ fileSize' \in Nat /\ ctx'.readOffset <= fileSize'
              /\ io' = [io EXCEPT ![i] = NoIo]
              /\ UNCHANGED <<limit, opDone, err, out, result, env, setup>>
  BY ReadIsTaken
<1>2. Laid(ctx, fileSize) /\ DOMAIN io = Blocks
  BY DEF Order, IInv, Types
<1>3. PICK bytes \in Nat : bytes = io[i].bytes
  BY <1>1
<1>4. PICK new \in Nat : new = fileSize'
  BY <1>1
<1>5. /\ Laid(ctx', new) /\ ctx'.blk[i].st \in {"free", "read"}
      /\ \A j \in Blocks : ctx'.blk[j].st \in {"reading", "testing", "writing"} =>
            ctx'.blk[j] = ctx.blk[j]
  <2>1. bytes <= ctx.blk[i].len /\ Takes(ctx, i, bytes, ctx') /\ ctx'.readOffset <= new
    BY <1>1, <1>3, <1>4
  <2> QED
    BY <1>1, <1>2, <2>1, TakenIsLaid
<1>6. Going /\ UNCHANGED <<limit, srcLen, opSize>>
  BY <1>1 DEF Going, ScanAt, env, setup
<1>7. io'[i] = NoIo /\ \A j \in Blocks \ {i} : io'[j] = io[j]
  BY <1>1, <1>2
<1>8. ASSUME NEW j \in Blocks PROVE Matches(j)'
  BY <1>5, <1>6, <1>7 DEF Matches, NoIo, Order
<1>9. \A j \in Blocks : io'[j].off \in Nat /\ io'[j].len \in Nat
  BY <1>7 DEF Order, NoIo
<1>10. Laid(ctx', fileSize') /\ fileSize' \in Nat
  BY <1>4, <1>5
<1> QED
  BY <1>6, <1>8, <1>9, <1>10 DEF Order

LEMMA ScanKeepsOrder ==
    ASSUME Order, IInv', WriteDone \/ DiscardedDone
    PROVE  Order'
<1>1. CASE WriteDone
  <2>1. PICK i \in Blocks :
          /\ ScanAt(i) /\ ctx' = FreeBlock(ctx, i) /\ ScanNext(ctx')
          /\ ctx.blk[i].st = "writing" /\ io' = [io EXCEPT ![i] = NoIo] /\ limit' \in Limits
          /\ UNCHANGED <<fileSize, srcLen, opSize, cancel>>
    BY <1>1 DEF WriteDone, env, setup
  <2> QED
    BY <2>1, FreedKeepsOrder
<1>2. CASE DiscardedDone
  <2>1. PICK i \in Blocks :
          /\ ScanAt(i) /\ ctx' = FreeBlock(ctx, i) /\ ScanNext(ctx')
          /\ ctx.blk[i].st = "discarded" /\ io' = [io EXCEPT ![i] = NoIo] /\ limit' = limit
          /\ UNCHANGED <<fileSize, srcLen, opSize, cancel>>
    BY <1>2 DEF DiscardedDone, env, setup
  <2>2. limit' \in Limits
    BY <2>1 DEF Order
  <2> QED
    BY <2>1, <2>2, FreedKeepsOrder
<1> QED
  BY <1>1, <1>2

LEMMA AbandonKeepsOrder ==
    ASSUME Order, IInv', NEW how, Phase2, Abandon(how)
    PROVE  Order'
<1>1. ctx' = CancelOpPhase2(ctx, io) /\ AllFinished /\ TakeOver
  BY DEF Phase2
<1>2. SameLayout(CancelOpPhase2(ctx, io), ctx')
  BY <1>1 DEF SameLayout, IInv, Types
<1>3. UNCHANGED <<limit, fileSize, srcLen, opSize>> /\ (Going' => Going)
  BY DEF Abandon, Ends, env, Going
<1> QED
  BY <1>1, <1>2, <1>3, Phase2KeepsOrder

LEMMA ErrorsKeepOrder ==
    ASSUME Order, IInv',
           \/ CancelledInLoop \/ CancelledInErr \/ SkippedInErr \/ AutoRetry \/ UserAnswers
    PROVE  Order'
<1>1. ASSUME NEW how, Phase2 /\ Abandon(how) PROVE Order'
  BY <1>1, AbandonKeepsOrder
<1>2. CASE CancelledInLoop \/ CancelledInErr \/ SkippedInErr
  BY <1>1, <1>2 DEF CancelledInLoop, CancelledInErr, SkippedInErr
<1>3. CASE AutoRetry
  <2>1. Context(CancelOpPhase2(ctx, io))
    BY TakenOver DEF Order, IInv, Types
  <2>2. SameLayout(CancelOpPhase2(ctx, io), ctx')
    BY <1>3, <2>1 DEF AutoRetry, Context, CtxFields, SameLayout
  <2>3. AllFinished /\ TakeOver /\ UNCHANGED <<limit, fileSize, srcLen, opSize>>
        /\ (Going' => Going)
    BY <1>3 DEF AutoRetry, Going, env, setup
  <2> QED
    BY <2>2, <2>3, Phase2KeepsOrder
<1>4. CASE UserAnswers
  <2>1. CASE /\ Phase2 /\ ~cancel
             /\ UNCHANGED <<scan, fileSize, limit, opDone, err, out, result, env, setup>>
             /\ Quiet
    <3>1. SameLayout(CancelOpPhase2(ctx, io), ctx')
      BY <2>1 DEF Phase2, SameLayout, IInv, Types
    <3> QED
      BY <2>1, <3>1, Phase2KeepsOrder DEF Phase2, Going, env, setup
  <2>2. CASE \E how : Phase2 /\ Abandon(how)
    BY <1>1, <2>2
  <2> QED
    BY <1>4, <2>1, <2>2 DEF UserAnswers
<1> QED
  BY <1>2, <1>3, <1>4

\* Steps that start nothing and take nothing over.
LEMMA OthersKeepOrder ==
    ASSUME Order, IInv',
           \/ ReadFileFails \/ BeginScan \/ ScanSkips \/ ReadFailed \/ WriteFailed
           \/ WriteDoneCancelled \/ WriteFileFails \/ EndOfWriting \/ WaitForOldest
           \/ ReopenFails \/ Finish \/ Trim \/ TrimFails \/ TestAllocation \/ DeleteFails
           \/ Close \/ CloseFails \/ ResizeSource \/ UserCancels \/ UNCHANGED vars
    PROVE  Order'
<1>1. /\ UNCHANGED <<ctx, limit, fileSize, opSize>>
      /\ srcLen' = srcLen \/ srcLen' \in 0..MaxLen
      /\ io' = io \/ io' = CancelIo(io)
      /\ Going' => Going
  <2>1. CASE ReadFileFails
    BY <2>1 DEF ReadFileFails, EnterError, env, setup, Going
  <2>2. CASE ReadFailed
    BY <2>2 DEF ReadFailed, ScanAt, EnterError, env, setup, Going
  <2>3. CASE WriteFailed
    BY <2>3 DEF WriteFailed, ScanAt, EnterError, env, setup, Going
  <2>4. CASE WriteDoneCancelled
    BY <2>4 DEF WriteDoneCancelled, ScanAt, env, setup, Going
  <2>5. CASE WriteFileFails
    BY <2>5 DEF WriteFileFails, CanStartWriting, EndOfScan, EnterError, env, setup, Going
  <2>6. CASE BeginScan \/ ScanSkips \/ EndOfWriting \/ WaitForOldest
    BY <2>6 DEF BeginScan, ScanSkips, ScanAt, EndOfWriting, EndOfScan, WaitForOldest,
                env, setup, Going
  <2>7. CASE ReopenFails
    BY <2>7 DEF ReopenFails, env, setup, Going
  <2>8. CASE TrimFails \/ DeleteFails
    BY <2>8 DEF TrimFails, DeleteFails, EnterError, env, setup, Going
  <2>9. CASE Finish \/ Close \/ CloseFails
    BY <2>9 DEF Finish, Close, CloseFails, env, setup, Going
  <2>10. CASE ResizeSource \/ UserCancels \/ UNCHANGED vars
    BY <2>10 DEF ResizeSource, UserCancels, vars, setup, Going
  <2>11. CASE Trim
    BY <2>11 DEF Trim, env, setup, Going
  <2>12. CASE TestAllocation
    BY <2>12 DEF TestAllocation, env, Going
  <2> QED
    BY <2>1, <2>2, <2>3, <2>4, <2>5, <2>6, <2>7, <2>8, <2>9, <2>10, <2>11, <2>12
<1>2. SameLayout(ctx, ctx')
  BY <1>1 DEF SameLayout, Order, Laid
<1>3. limit' \in Limits /\ fileSize' = fileSize /\ srcLen' \in Nat /\ opSize' = opSize
  BY <1>1 DEF Order
<1> QED
  BY <1>1, <1>2, <1>3, UntouchedKeepsOrder

\* Retries, and the end of the copy.
LEMMA RetriesKeepOrder ==
    ASSUME Order, IInv',
           RetryReading \/ RetryWriting \/ DeleteUntrusted \/ CloseErrAnswered
    PROVE  Order'
<1>1. Going
  BY DEF RetryReading, RetryWriting, DeleteUntrusted, CloseErrAnswered, Going
<1>2. ASSUME Resume, pc \in {"rdretry", "wrretry"} PROVE Order'
  <2>1. SameLayout(ctx, ctx')
    BY <1>2 DEF Resume, SameLayout, Order, IInv, Types, Context, CtxFields
  <2>2. /\ io' = io /\ fileSize' = fileSize /\ limit' = limit /\ srcLen' = srcLen
        /\ opSize' = opSize /\ Going
    BY <1>2 DEF Resume, env, setup, Going
  <2>3. limit' \in Limits /\ srcLen' \in Nat
    BY <2>2 DEF Order
  <2> QED
    BY <2>1, <2>2, <2>3, UntouchedKeepsOrder
<1>3. CASE RetryReading
  BY <1>1, <1>2, <1>3, CopyAgainKeepsOrder DEF RetryReading
<1>4. CASE RetryWriting
  BY <1>1, <1>2, <1>4, CopyAgainKeepsOrder DEF RetryWriting
<1>5. CASE DeleteUntrusted
  BY <1>5, ReadAgainKeepsOrder DEF DeleteUntrusted
<1>6. CASE CloseErrAnswered
  <2>1. ASSUME NEW how, Abandon(how), UNCHANGED <<ctx, io>> PROVE Order'
    BY <1>1, <2>1, EndsKeepsOrder DEF Abandon
  <2> QED
    BY <1>1, <1>6, <2>1, CopyAgainKeepsOrder DEF CloseErrAnswered
<1> QED
  BY <1>3, <1>4, <1>5, <1>6

LEMMA InitEstablishesOrder == Init => Order
<1> SUFFICES ASSUME Init PROVE Order
  OBVIOUS
<1>1. opSize \in Nat /\ srcLen = opSize /\ fileSize = opSize
  BY LimitIsPositive DEF Init
<1>2. Laid(ctx, fileSize)
  BY <1>1, FreshIsLaid DEF Init
<1>3. \A i \in Blocks : io[i].off \in Nat /\ io[i].len \in Nat /\ Matches(i)
  BY DEF Init, Matches, NewCtx, FreeBlk, NoIo
<1>4. limit \in Limits
  BY LargestLimit DEF Init
<1> QED
  BY <1>1, <1>2, <1>3, <1>4, InitEstablishes DEF Order

LEMMA NextKeepsOrder == Order /\ [Next]_vars => Order'
<1> SUFFICES ASSUME Order, [Next]_vars PROVE Order'
  OBVIOUS
<1>1. IInv'
  BY NextKeeps DEF Order
<1>2. CASE Worker
  BY <1>1, <1>2, StartReadingKeepsOrder, StartWritingKeepsOrder, ReadDoneKeepsOrder,
     ScanKeepsOrder, ErrorsKeepOrder, OthersKeepOrder, RetriesKeepOrder DEF Worker
<1>3. CASE \E i \in Blocks : IoCompletes(i)
  BY <1>1, <1>3, IoCompletesKeepsOrder
<1>4. CASE ResizeSource \/ UserCancels \/ Terminated \/ UNCHANGED vars
  BY <1>1, <1>4, OthersKeepOrder DEF Terminated
<1> QED
  BY <1>2, <1>3, <1>4 DEF Next

LEMMA OrderIsKept == Spec => []Order
  BY InitEstablishesOrder, NextKeepsOrder, PTL DEF Spec

(* No two blocks with data share a unit, the blocks being written lie before   *)
(* WriteOffset, and what was read lies from there up to ReadOffset: however    *)
(* reads and writes finish, the source is cut short, the copy rewound and      *)
(* retried (CCopy_Context, DoCopyFileLoopAsync, CancelOpPhase2).               *)
THEOREM BlocksStayInOrder == Spec => []BlocksInOrder
<1>1. ASSUME Order PROVE BlocksInOrder
  <2> DEFINE unit(i) == ctx.blk[i].off..(ctx.blk[i].off + ctx.blk[i].len - 1)
             data == InState("read") \cup InState("writing") \cup InState("reading")
  <2>1. Tiled(ctx, fileSize) /\ data = Data(ctx)
    BY <1>1 DEF Order, Laid, Data, InState
  <2>2. ASSUME NEW i \in data, NEW j \in data, i # j PROVE unit(i) \cap unit(j) = {}
    <3>1. /\ ctx.blk[i].off \in Nat /\ ctx.blk[j].off \in Nat
          /\ ctx.blk[i].len \in Nat /\ ctx.blk[j].len \in Nat
      BY <2>1, <2>2 DEF Tiled, Apart
    <3>2. \A u \in unit(i) : Covers(ctx, i, u)
      BY <3>1 DEF Covers
    <3>3. \A u \in unit(j) : Covers(ctx, j, u)
      BY <3>1 DEF Covers
    <3> QED
      BY <2>1, <2>2, <3>1, <3>2, <3>3 DEF Tiled, Apart
  <2>3. \A i \in InState("writing") : ctx.blk[i].off + ctx.blk[i].len <= ctx.writeOffset
    BY <2>1 DEF Tiled, InState, EndOf
  <2>4. \A i \in InState("read") : /\ ctx.blk[i].off >= ctx.writeOffset
                                   /\ ctx.blk[i].off + ctx.blk[i].len <= ctx.readOffset
    BY <2>1 DEF Tiled, Apart, InState, EndOf, Ahead, Data
  <2> QED
    BY <2>2, <2>3, <2>4 DEF BlocksInOrder
<1> QED
  BY <1>1, OrderIsKept, PTL

-----------------------------------------------------------------------------
(* What was written is counted                                             *)

\* the units before WriteOffset that are still being written
InFlight(c) ==
    {u \in 0..(c.writeOffset - 1) :
        \E i \in Blocks : c.blk[i].st = "writing" /\ Covers(c, i, u)}

LEMMA InFlightIsFinite ==
    ASSUME NEW c, NEW size, Laid(c, size)
    PROVE  IsFiniteSet(InFlight(c)) /\ Cardinality(InFlight(c)) \in Nat
<1>1. c.writeOffset \in Nat
  BY DEF Laid, Tiled
<1>2. IsFiniteSet(0..(c.writeOffset - 1))
  BY <1>1, FS_Interval
<1> QED
  BY <1>2, FS_Subset, FS_CardinalityType DEF InFlight

LEMMA NoneInFlight ==
    ASSUME NEW c, \A i \in Blocks : c.blk[i].st # "writing"
    PROVE  InFlight(c) = {} /\ Cardinality(InFlight(c)) = 0
BY FS_EmptySet DEF InFlight

\* the same blocks are being written
SameWrites(c, d) ==
    /\ d.writeOffset = c.writeOffset
    /\ \A i \in Blocks : d.blk[i].st = "writing" <=> c.blk[i].st = "writing"
    /\ \A i \in Blocks : d.blk[i].st = "writing" => d.blk[i] = c.blk[i]

LEMMA SameInFlight ==
    ASSUME NEW c, NEW d, SameWrites(c, d)
    PROVE  InFlight(d) = InFlight(c)
BY DEF InFlight, Covers, SameWrites

\* the units of one block
Units(c, i) == c.blk[i].off..(EndOf(c, i) - 1)

LEMMA UnitsAreCounted ==
    ASSUME NEW c, NEW i \in Blocks, c.blk[i].off \in Nat, c.blk[i].len \in Nat
    PROVE  IsFiniteSet(Units(c, i)) /\ Cardinality(Units(c, i)) = c.blk[i].len
<1>1. PICK a, b : a = c.blk[i].off /\ b = EndOf(c, i) - 1
  OBVIOUS
<1>2. a \in Int /\ b \in Int /\ (IF a > b THEN 0 ELSE b - a + 1) = c.blk[i].len
  BY <1>1 DEF EndOf
<1>3. IsFiniteSet(a..b) /\ Cardinality(a..b) = c.blk[i].len
  BY <1>2, FS_Interval
<1>4. Units(c, i) = a..b
  BY <1>1 DEF Units
<1> QED
  BY <1>3, <1>4

\* a started write adds the units of its block
LEMMA InFlightGrows ==
    ASSUME NEW c, NEW size, Laid(c, size), NEW i \in Blocks, c.blk[i].st = "read",
           c.blk[i].off = c.writeOffset, NEW d,
           d.blk[i] = [c.blk[i] EXCEPT !.st = "writing"],
           \A j \in Blocks \ {i} : d.blk[j] = c.blk[j],
           d.writeOffset = c.writeOffset + c.blk[i].len
    PROVE  Cardinality(InFlight(d)) = Cardinality(InFlight(c)) + c.blk[i].len
<1>1. /\ c.blk[i].off \in Nat /\ c.blk[i].len \in Nat /\ c.writeOffset \in Nat
      /\ \A j \in Blocks : c.blk[j].st = "writing" =>
            /\ c.blk[j].off \in Nat /\ c.blk[j].len \in Nat /\ EndOf(c, j) <= c.writeOffset
  BY DEF Laid, Tiled, Apart, Data
<1>2. /\ d.blk[i].st = "writing" /\ d.blk[i].off = c.blk[i].off /\ d.blk[i].len = c.blk[i].len
      /\ \A j \in Blocks \ {i} : d.blk[j] = c.blk[j]
  BY DEF Laid, Context
<1>3. \A u : u \in InFlight(d) <=> u \in InFlight(c) \/ u \in Units(c, i)
  <2>1. ASSUME NEW u \in InFlight(d) PROVE u \in InFlight(c) \/ u \in Units(c, i)
    <3>1. PICK j \in Blocks : d.blk[j].st = "writing" /\ Covers(d, j, u)
      BY <2>1 DEF InFlight
    <3>2. u \in Int /\ u >= 0
      BY <1>1, <2>1 DEF InFlight
    <3>3. CASE j = i
      <4>1. c.blk[i].off <= u /\ u < c.blk[i].off + c.blk[i].len
        BY ONLY <1>2, <3>1, <3>3 DEF Covers
      <4> QED
        BY ONLY <1>1, <3>2, <4>1 DEF Units, EndOf
    <3>4. CASE j # i
      BY <1>1, <1>2, <3>1, <3>2, <3>4 DEF Covers, InFlight, EndOf
    <3> QED
      BY <3>3, <3>4
  <2>2. ASSUME NEW u \in InFlight(c) PROVE u \in InFlight(d)
    <3>1. PICK j \in Blocks : c.blk[j].st = "writing" /\ Covers(c, j, u)
      BY <2>2 DEF InFlight
    <3>2. j # i /\ u \in 0..(d.writeOffset - 1)
      BY <1>1, <2>2, <3>1 DEF InFlight
    <3> QED
      BY <1>2, <3>1, <3>2 DEF InFlight, Covers
  <2>3. ASSUME NEW u \in Units(c, i) PROVE u \in InFlight(d)
    <3>1. u \in 0..(d.writeOffset - 1) /\ Covers(d, i, u)
      BY <1>1, <1>2, <2>3 DEF Units, EndOf, Covers
    <3> QED
      BY <1>2, <3>1 DEF InFlight
  <2> QED
    BY <2>1, <2>2, <2>3
<1>4. InFlight(c) \cap Units(c, i) = {}
  BY <1>1 DEF InFlight, Units, EndOf
<1>5. PICK F, U : F = InFlight(c) /\ U = Units(c, i)
  OBVIOUS
<1>6. InFlight(d) = F \cup U /\ F \cap U = {}
  BY <1>3, <1>4, <1>5
<1>7. IsFiniteSet(F) /\ IsFiniteSet(U) /\ Cardinality(U) = c.blk[i].len
      /\ Cardinality(F) \in Nat
  BY <1>1, <1>5, UnitsAreCounted, InFlightIsFinite
<1>8. Cardinality(F \cup U) = Cardinality(F) + Cardinality(U) - Cardinality({})
  BY <1>6, <1>7, FS_Union
<1> QED
  BY <1>1, <1>5, <1>6, <1>7, <1>8, FS_EmptySet

\* a block that is written is counted no more
LEMMA InFlightShrinks ==
    ASSUME NEW c, NEW size, Laid(c, size), NEW i \in Blocks, c.blk[i].st = "writing", NEW d,
           \A j \in Blocks : d.blk[j] = IF j = i THEN FreeBlk ELSE c.blk[j],
           d.writeOffset = c.writeOffset
    PROVE  Cardinality(InFlight(d)) = Cardinality(InFlight(c)) - c.blk[i].len
<1>1. /\ c.writeOffset \in Nat
      /\ \A j \in Blocks : c.blk[j].st = "writing" =>
            /\ c.blk[j].off \in Nat /\ c.blk[j].len \in Nat /\ EndOf(c, j) <= c.writeOffset
            /\ j # i => EndOf(c, j) <= c.blk[i].off \/ EndOf(c, i) <= c.blk[j].off
  BY DEF Laid, Tiled, Apart, Data, EndOf
<1>2. \A j \in Blocks : d.blk[j].st = "writing" => j # i /\ d.blk[j] = c.blk[j]
  BY DEF FreeBlk
<1>3. Units(c, i) \subseteq InFlight(c)
  <2>1. \A u \in Units(c, i) : u \in 0..(c.writeOffset - 1) /\ Covers(c, i, u)
    BY <1>1 DEF Units, EndOf, Covers
  <2> QED
    BY <2>1 DEF InFlight
<1>4. ASSUME NEW u PROVE u \in InFlight(d) <=> u \in InFlight(c) /\ u \notin Units(c, i)
  <2>1. ASSUME u \in InFlight(d) PROVE u \in InFlight(c) /\ u \notin Units(c, i)
    <3>1. PICK j \in Blocks : d.blk[j].st = "writing" /\ Covers(d, j, u)
      BY <2>1 DEF InFlight
    <3>2. j # i /\ c.blk[j].st = "writing" /\ Covers(c, j, u)
      BY <1>2, <3>1 DEF Covers
    <3>3. u \in 0..(c.writeOffset - 1)
      BY <2>1 DEF InFlight
    <3>4. u \notin Units(c, i)
      BY <1>1, <3>2, <3>3 DEF Units, Covers, EndOf
    <3> QED
      BY <3>2, <3>3, <3>4 DEF InFlight
  <2>2. ASSUME u \in InFlight(c), u \notin Units(c, i) PROVE u \in InFlight(d)
    <3>1. PICK j \in Blocks : c.blk[j].st = "writing" /\ Covers(c, j, u)
      BY <2>2 DEF InFlight
    <3>2. u \in 0..(c.writeOffset - 1)
      BY <2>2 DEF InFlight
    <3>3. j # i
      BY <1>1, <2>2, <3>1, <3>2 DEF Units, Covers, EndOf
    <3>4. d.blk[j] = c.blk[j]
      BY <3>3
    <3> QED
      BY <3>1, <3>2, <3>4 DEF InFlight, Covers
  <2> QED
    BY <2>1, <2>2
<1>5. PICK F, U : F = InFlight(c) /\ U = Units(c, i)
  OBVIOUS
<1>6. InFlight(d) = F \ U /\ F \cap U = U
  BY <1>3, <1>4, <1>5
<1>7. /\ IsFiniteSet(F) /\ Cardinality(U) = c.blk[i].len
      /\ Cardinality(F) \in Nat /\ c.blk[i].len \in Nat
  BY <1>1, <1>5, UnitsAreCounted, InFlightIsFinite
<1>8. Cardinality(F \ U) = Cardinality(F) - Cardinality(U)
  <2>1. IsFiniteSet(F)
    BY <1>7
  <2>2. Cardinality(F \ U) = Cardinality(F) - Cardinality(F \cap U)
    BY ONLY <2>1, FS_Difference
  <2> QED
    BY ONLY <1>6, <2>2
<1>9. Cardinality(InFlight(d)) = Cardinality(F) - Cardinality(U)
  BY ONLY <1>6, <1>8
<1> QED
  BY ONLY <1>5, <1>7, <1>9

-----------------------------------------------------------------------------
(* How the copy ends                                                       *)

\* the loop has ended; a retry returns behind it
AfterLoop ==
    \/ pc \in {"finish", "trim", "test", "del", "close", "closeerr"}
    \/ pc \in {"rderr", "wrerr", "rdretry", "wrretry"} /\ err.at \in {"trim", "del"}

\* where operationDone is up to date: an error leaves it for the retry to set
Counting ==
    pc \in {"top", "scan", "wait", "cancelling", "finish", "trim", "test", "del", "close",
            "closeerr"}

\* the worker waited for what it had started
Settled == pc \in {"rdretry", "wrretry", "final"}

\* the copy ended exactly when it has a result
Results == (result # "none") <=> (pc = "final")

Ended ==
    /\ Order /\ Results
    /\ DOMAIN err = {"kind", "at", "maxWO"} /\ err.at \in {"loop", "trim", "del"}
    /\ opDone \in Int
    /\ AfterLoop => ctx.free = N
    /\ Settled => \A i \in Blocks : ~InProgress(ctx, i)
    /\ Counting => opDone + Cardinality(InFlight(ctx)) = ctx.writeOffset

\* while the copy goes on it has no result
LEMMA GoesOn ==
    ASSUME Results, pc # "final", pc' # "final", result' = result
    PROVE  Results'
BY DEF Results

LEMMA AllAreFree ==
    ASSUME NEW c, Counted(c)
    PROVE  c.free = N <=> \A i \in Blocks : c.blk[i].st = "free"
<1>1. PICK F : F = Free(c)
  OBVIOUS
<1>2. F \subseteq Blocks /\ c.free = Cardinality(F)
  BY <1>1 DEF Counted, Free
<1>3. F = Blocks <=> \A i \in Blocks : c.blk[i].st = "free"
  BY <1>1 DEF Free
<1>4. Cardinality(F) = N <=> F = Blocks
  BY <1>2, BlocksAreFinite, FS_Subset
<1> QED
  BY <1>2, <1>3, <1>4

\* Steps that only move the worker on.
LEMMA MoveKeepsEnd ==
    ASSUME Ended, Order', UNCHANGED <<ctx, opDone, result>>, pc # "final", pc' # "final",
           DOMAIN err' = {"kind", "at", "maxWO"}, err'.at \in {"loop", "trim", "del"},
           AfterLoop' => AfterLoop, Counting' => Counting, Settled' => Settled
    PROVE  Ended'
<1>1. Results'
  BY GoesOn DEF Ended
<1>2. InFlight(ctx)' = InFlight(ctx) /\ \A i \in Blocks : InProgress(ctx, i)' = InProgress(ctx, i)
  BY DEF InFlight, Covers, InProgress
<1> QED
  BY <1>1, <1>2 DEF Ended

LEMMA OthersKeepEnd ==
    ASSUME Ended, Order',
           \/ ReadFileFails \/ BeginScan \/ ScanSkips \/ ReadFailed \/ WriteFailed
           \/ WriteDoneCancelled \/ WriteFileFails \/ EndOfWriting \/ WaitForOldest
           \/ ReopenFails \/ Finish \/ Trim \/ TrimFails \/ TestAllocation \/ DeleteFails
           \/ CloseFails \/ ResizeSource \/ UserCancels \/ \E i \in Blocks : IoCompletes(i)
    PROVE  Ended'
<1> DEFINE Typed(e) == DOMAIN e = {"kind", "at", "maxWO"} /\ e.at \in {"loop", "trim", "del"}
<1>1. Typed(err)
  BY DEF Ended
<1>2. /\ UNCHANGED <<ctx, opDone, result>> /\ pc # "final" /\ pc' # "final"
      /\ Typed(err')
      /\ AfterLoop' => AfterLoop
      /\ Counting' => Counting
      /\ Settled' => Settled
  <2>1. CASE ReadFileFails
    BY <2>1 DEF ReadFileFails, EnterError, AfterLoop, Counting, Settled
  <2>2. CASE ReadFailed
    BY <2>2 DEF ReadFailed, ScanAt, EnterError, AfterLoop, Counting, Settled
  <2>3. CASE WriteFailed
    BY <2>3 DEF WriteFailed, ScanAt, EnterError, AfterLoop, Counting, Settled
  <2>4. CASE WriteDoneCancelled
    BY <1>1, <2>4 DEF WriteDoneCancelled, ScanAt, AfterLoop, Counting, Settled
  <2>5. CASE WriteFileFails
    BY <2>5 DEF WriteFileFails, CanStartWriting, EndOfScan, EnterError, AfterLoop, Counting,
                Settled
  <2>6. CASE BeginScan \/ ScanSkips \/ EndOfWriting \/ WaitForOldest
    BY <1>1, <2>6 DEF BeginScan, ScanSkips, ScanAt, EndOfWriting, EndOfScan, WaitForOldest,
                AfterLoop, Counting, Settled
  <2>7. CASE ReopenFails
    <3>1. err' = [err EXCEPT !.kind = err'.kind] /\ err'.at = err.at /\ Typed(err')
      BY <1>1, <2>7 DEF ReopenFails
    <3> QED
      BY <2>7, <3>1 DEF ReopenFails, AfterLoop, Counting, Settled
  <2>8. CASE TrimFails \/ DeleteFails
    BY <2>8 DEF TrimFails, DeleteFails, EnterError, AfterLoop, Counting, Settled
  <2>9. CASE Finish \/ Trim \/ TestAllocation \/ CloseFails
    BY <1>1, <2>9 DEF Finish, Trim, TestAllocation, CloseFails, AfterLoop, Counting, Settled
  <2>10. CASE ResizeSource \/ UserCancels
    BY <1>1, <2>10 DEF ResizeSource, UserCancels, AfterLoop, Counting, Settled
  <2>11. CASE \E i \in Blocks : IoCompletes(i)
    BY <1>1, <2>11 DEF IoCompletes, AfterLoop, Counting, Settled
  <2> QED
    BY <2>1, <2>2, <2>3, <2>4, <2>5, <2>6, <2>7, <2>8, <2>9, <2>10, <2>11
<1> QED
  BY <1>2, MoveKeepsEnd

LEMMA ReadAgainKeepsEnd ==
    ASSUME Ended, Order', NEW mode, ReadAgain(mode), pc # "final"
    PROVE  Ended'
<1>1. pc' = "top" /\ err' = NoErr /\ ctx' = NewCtx /\ opDone' = 0 /\ result' = result
  BY DEF ReadAgain, FreshCopy
<1>2. ctx'.writeOffset = 0 /\ \A i \in Blocks : ctx'.blk[i].st = "free"
  BY <1>1 DEF NewCtx, FreeBlk
<1>3. Cardinality(InFlight(ctx')) = 0
  BY <1>2, NoneInFlight
<1>4. Results'
  BY <1>1, GoesOn DEF Ended
<1> QED
  BY <1>1, <1>2, <1>3, <1>4 DEF Ended, AfterLoop, Settled, NoErr

\* the copy ends with a result and with no block in progress
LEMMA EndsKeepsEnd ==
    ASSUME Ended, Order', NEW how, how # "none", Ends(how),
           \A i \in Blocks : ~InProgress(ctx', i)
    PROVE  Ended'
<1>1. pc' = "final" /\ err' = NoErr /\ opDone' = opDone /\ result' = how
  BY DEF Ends
<1> QED
  BY <1>1 DEF Ended, Results, AfterLoop, Settled, Counting, NoErr

\* where the worker has nothing in progress
LEMMA NothingRuns ==
    ASSUME Ended, Settled \/ AfterLoop
    PROVE  \A i \in Blocks : ~InProgress(ctx, i)
<1>1. CASE Settled
  BY <1>1 DEF Ended
<1>2. CASE AfterLoop
  BY <1>2, AllAreFree DEF Ended, Order, Laid, InProgress, InProgressStates
<1> QED
  BY <1>1, <1>2

LEMMA CopyAgainKeepsEnd ==
    ASSUME Ended, Order', NEW mode, NEW cut, CopyAgain(mode, cut), pc # "final",
           Settled \/ AfterLoop
    PROVE  Ended'
<1>1. CASE ReadAgain(mode)
  BY <1>1, ReadAgainKeepsEnd
<1>2. CASE Ends("exists") /\ UNCHANGED <<ctx, io>>
  BY <1>2, NothingRuns, EndsKeepsEnd
<1> QED
  BY <1>1, <1>2 DEF CopyAgain

\* phase 2 leaves no block in progress
LEMMA RewindStopsAll ==
    ASSUME Ended, NEW d, d = CancelOpPhase2(ctx, io)
    PROVE  \A i \in Blocks : ~InProgress(d, i) /\ d.blk[i].st # "writing"
<1>1. Laid(ctx, fileSize)
  BY DEF Ended, Order
<1>2. \A i \in Blocks : d.blk[i].st \in {"free", "read"}
  BY <1>1, Rewound DEF Laid
<1> QED
  BY <1>2 DEF InProgress, InProgressStates

LEMMA StartsKeepEnd ==
    ASSUME Ended, Order', StartReading \/ StartWriting
    PROVE  Ended'
<1>1. CASE StartReading
  <2>1. PICK i \in Blocks, len \in Nat \ {0}, test \in BOOLEAN :
          /\ ctx.blk[i].st = "free"
          /\ cancel => SameLayout(ctx, ctx') /\ pc' = "rderr"
          /\ ~cancel => Starts(i, len, test, ctx') /\ pc' = pc /\ err' = err
    BY <1>1, ReadStarts DEF Ended
  <2>2. pc = "top" /\ UNCHANGED <<opDone, result>>
    BY <1>1 DEF StartReading
  <2>3. CASE cancel
    <3>1. err' = [kind |-> "other", at |-> "loop", maxWO |-> 0]
      BY <1>1, <2>3 DEF StartReading, EnterError
    <3>2. Results'
      BY <2>1, <2>2, <2>3, GoesOn DEF Ended
    <3> QED
      BY <2>1, <2>2, <2>3, <3>1, <3>2 DEF Ended, AfterLoop, Settled, Counting
  <2>4. CASE ~cancel
    <3>1. Starts(i, len, test, ctx') /\ pc' = "top" /\ err' = err
      BY <2>1, <2>2, <2>4
    <3>2. ctx'.blk[i].st # "writing"
      BY <3>1 DEF Starts
    <3>3. SameWrites(ctx, ctx')
      BY <2>1, <3>1, <3>2 DEF Starts, SameWrites
    <3>4. InFlight(ctx') = InFlight(ctx) /\ ctx'.writeOffset = ctx.writeOffset
      BY <3>3, SameInFlight DEF SameWrites
    <3>5. Results'
      BY <2>2, <3>1, GoesOn DEF Ended
    <3> QED
      BY <2>2, <3>1, <3>4, <3>5 DEF Ended, AfterLoop, Settled, Counting
  <2> QED
    BY <2>3, <2>4
<1>2. CASE StartWriting
  <2>1. PICK i \in Blocks :
          /\ ctx.blk[i].st = "read" /\ ctx.blk[i].off = ctx.writeOffset
          /\ cancel => SameLayout(ctx, ctx') /\ pc' = "wrerr"
          /\ ~cancel => Writes(i, ctx') /\ pc' = pc /\ err' = err
    BY <1>2, WriteStarts DEF Ended
  <2>2. pc = "scan" /\ UNCHANGED <<opDone, result>>
    BY <1>2 DEF StartWriting, CanStartWriting, EndOfScan
  <2>3. CASE cancel
    <3>1. DOMAIN err' = {"kind", "at", "maxWO"} /\ err'.at = "loop"
      <4>1. PICK maxWO, ios : EnterError("write", "loop", maxWO, ios)
        BY <1>2, <2>3 DEF StartWriting
      <4> QED
        BY <4>1 DEF EnterError
    <3>2. Results'
      BY <2>1, <2>2, <2>3, GoesOn DEF Ended
    <3> QED
      BY <2>1, <2>2, <2>3, <3>1, <3>2 DEF Ended, AfterLoop, Settled, Counting
  <2>4. CASE ~cancel
    <3>1. Writes(i, ctx') /\ pc' = "scan" /\ err' = err
      BY <2>1, <2>2, <2>4
    <3>2. Laid(ctx, fileSize)
      BY DEF Ended, Order
    <3>3. Cardinality(InFlight(ctx')) = Cardinality(InFlight(ctx)) + ctx.blk[i].len
      BY <2>1, <3>1, <3>2, InFlightGrows DEF Writes
    <3>4. /\ ctx'.writeOffset = ctx.writeOffset + ctx.blk[i].len /\ ctx.writeOffset \in Nat
          /\ ctx.blk[i].len \in Nat /\ Cardinality(InFlight(ctx)) \in Nat
      BY <2>1, <3>1, <3>2, InFlightIsFinite DEF Writes, Laid, Tiled, Apart, Data
    <3>5. opDone + Cardinality(InFlight(ctx)) = ctx.writeOffset /\ opDone \in Int
      BY <2>2 DEF Ended, Counting
    <3>6. opDone' + Cardinality(InFlight(ctx')) = ctx'.writeOffset /\ opDone' \in Int
      BY <2>2, <3>3, <3>4, <3>5
    <3>7. Results'
      BY <2>2, <3>1, GoesOn DEF Ended
    <3> QED
      BY <3>1, <3>6, <3>7 DEF Ended, AfterLoop, Settled
  <2> QED
    BY <2>3, <2>4
<1> QED
  BY <1>1, <1>2

LEMMA ReadDoneKeepsEnd ==
    ASSUME Ended, Order', ReadDone
    PROVE  Ended'
<1>1. PICK i \in Blocks :
              /\ ScanAt(i) /\ ctx.blk[i].st \in {"reading", "testing"}
              /\ io[i].bytes \in Nat /\ io[i].bytes <= ctx.blk[i].len
              /\ Takes(ctx, i, io[i].bytes, ctx')
              /\ fileSize' \in Nat /\ ctx'.readOffset <= fileSize'
              /\ ScanNext(ctx')
              /\ UNCHANGED <<opDone, err, result>>
  BY ReadIsTaken DEF Ended
<1>2. PICK bytes \in Nat : bytes = io[i].bytes
  BY <1>1
<1>3. PICK new \in Nat : new = fileSize'
  BY <1>1
<1>4. /\ \A j \in Blocks : ctx'.blk[j].st = "writing" <=> ctx.blk[j].st = "writing"
      /\ \A j \in Blocks : ctx'.blk[j].st = "writing" => ctx'.blk[j] = ctx.blk[j]
  <2>1. bytes <= ctx.blk[i].len /\ Takes(ctx, i, bytes, ctx') /\ ctx'.readOffset <= new
    BY <1>1, <1>2, <1>3
  <2>2. Laid(ctx, fileSize)
    BY DEF Ended, Order
  <2> QED
    BY <1>1, <2>1, <2>2, TakenIsLaid
<1>5. InFlight(ctx') = InFlight(ctx) /\ ctx'.writeOffset = ctx.writeOffset
  BY <1>1, <1>4, SameInFlight DEF SameWrites, Takes
<1>6. pc = "scan" /\ pc' \in {"scan", "finish"} /\ (pc' = "finish" => ctx'.free = N)
  BY <1>1 DEF ScanAt, ScanNext, IsOperationDone
<1>7. Results'
  BY <1>1, <1>6, GoesOn DEF Ended
<1> QED
  BY <1>1, <1>5, <1>6, <1>7 DEF Ended, AfterLoop, Settled, Counting

LEMMA ScanKeepsEnd ==
    ASSUME Ended, Order', WriteDone \/ DiscardedDone
    PROVE  Ended'
<1>1. PICK i \in Blocks :
          /\ ScanAt(i) /\ ctx' = FreeBlock(ctx, i) /\ ScanNext(ctx')
          /\ UNCHANGED <<err, result>>
          /\ \/ /\ ctx.blk[i].st = "writing" /\ io[i].res = "ok" /\ Finished(i)
                /\ opDone' = opDone + io[i].bytes
             \/ ctx.blk[i].st = "discarded" /\ opDone' = opDone
  BY DEF WriteDone, DiscardedDone
<1>2. Laid(ctx, fileSize)
  BY DEF Ended, Order
<1>3. /\ ctx'.writeOffset = ctx.writeOffset
      /\ \A j \in Blocks : ctx'.blk[j] = IF j = i THEN FreeBlk ELSE ctx.blk[j]
  BY <1>1, <1>2, FreedIsLaid DEF SameCounts
<1>4. pc = "scan" /\ pc' \in {"scan", "finish"} /\ (pc' = "finish" => ctx'.free = N)
  BY <1>1 DEF ScanAt, ScanNext, IsOperationDone
<1>5. Results'
  BY <1>1, <1>4, GoesOn DEF Ended
<1>6. /\ opDone + Cardinality(InFlight(ctx)) = ctx.writeOffset /\ opDone \in Int
      /\ Cardinality(InFlight(ctx)) \in Nat
  BY <1>2, <1>4, InFlightIsFinite DEF Ended, Counting
<1>7. opDone' + Cardinality(InFlight(ctx')) = ctx'.writeOffset /\ opDone' \in Int
  <2>1. CASE ctx.blk[i].st = "writing"
    <3>1. opDone' = opDone + io[i].bytes /\ io[i].res = "ok" /\ Finished(i)
      BY <1>1, <2>1
    <3>2. io[i].bytes = ctx.blk[i].len /\ ctx.blk[i].len \in Nat
      BY <1>2, <1>4, <2>1, <3>1
         DEF Ended, Order, IInv, Going, Matches, Agrees, Finished, Laid, Tiled, Apart, Data
    <3>3. Cardinality(InFlight(ctx')) = Cardinality(InFlight(ctx)) - ctx.blk[i].len
      BY <1>2, <1>3, <2>1, InFlightShrinks
    <3> QED
      BY ONLY <1>3, <1>6, <3>1, <3>2, <3>3
  <2>2. CASE ctx.blk[i].st = "discarded"
    <3>1. opDone' = opDone
      BY <1>1, <2>2
    <3>2. SameWrites(ctx, ctx')
      BY <1>3, <2>2 DEF SameWrites, FreeBlk
    <3> QED
      BY <1>3, <1>6, <3>1, <3>2, SameInFlight
  <2> QED
    BY <1>1, <2>1, <2>2
<1> QED
  BY <1>1, <1>4, <1>5, <1>7 DEF Ended, AfterLoop, Settled

\* A rewound copy has nothing in progress, and no data if it had none.
LEMMA RewindKeepsEnd ==
    ASSUME Ended, Order', SameLayout(CancelOpPhase2(ctx, io), ctx'),
           pc \in {"rderr", "wrerr"}, pc' \in {"rdretry", "wrretry"},
           UNCHANGED <<err, result, opDone>>
    PROVE  Ended'
<1>1. PICK d : d = CancelOpPhase2(ctx, io)
  OBVIOUS
<1>2. Laid(ctx, fileSize) /\ Context(ctx) /\ Counted(ctx)
  BY DEF Ended, Order, Laid
<1>3. Counted(d) /\ \A i \in Blocks : d.blk[i].st \in {"free", "read"}
  BY <1>1, <1>2, Rewound DEF Laid
<1>4. \A i \in Blocks : ctx.blk[i].st = "free" => d.blk[i].st = "free"
  <2>1. \A i \in Blocks :
           \/ d.blk[i] = FreeBlk
           \/ /\ \/ ctx.blk[i].st = "read" \/ ctx.blk[i].st = "writing"
                 \/ ctx.blk[i].st = "reading" /\ io[i].res = "ok"
              /\ d.blk[i] = [ctx.blk[i] EXCEPT !.st = "read"]
           \/ ~InProgress(ctx, i) /\ d.blk[i] = ctx.blk[i]
    BY ONLY <1>1, <1>2, TakenOver
  <2>2. ASSUME NEW i \in Blocks, ctx.blk[i].st = "free"
        PROVE  d.blk[i] = FreeBlk \/ d.blk[i] = ctx.blk[i]
    BY ONLY <2>1, <2>2
  <2> QED
    BY ONLY <2>2 DEF FreeBlk
<1>5. ctx.free = N => ctx'.free = N
  BY <1>1, <1>2, <1>3, <1>4, AllAreFree DEF SameLayout
<1>6. \A i \in Blocks : ~InProgress(ctx', i)
  BY <1>1, <1>3 DEF SameLayout, InProgress, InProgressStates
<1>7. Results'
  BY GoesOn DEF Ended
<1> QED
  BY <1>5, <1>6, <1>7 DEF Ended, AfterLoop, Settled, Counting

LEMMA ErrorsKeepEnd ==
    ASSUME Ended, Order',
           \/ CancelledInLoop \/ CancelledInErr \/ SkippedInErr \/ AutoRetry \/ UserAnswers
    PROVE  Ended'
<1>1. ASSUME NEW how \in {"error", "skip"}, Abandon(how), Phase2 PROVE Ended'
  BY <1>1, RewindStopsAll, EndsKeepsEnd DEF Abandon, Phase2
<1>2. CASE CancelledInLoop \/ CancelledInErr \/ SkippedInErr
  BY <1>1, <1>2 DEF CancelledInLoop, CancelledInErr, SkippedInErr
<1>3. CASE AutoRetry
  <2>1. Context(CancelOpPhase2(ctx, io))
    BY TakenOver DEF Ended, Order, IInv, Types
  <2>2. SameLayout(CancelOpPhase2(ctx, io), ctx')
    BY <1>3, <2>1 DEF AutoRetry, Context, CtxFields, SameLayout
  <2> QED
    BY <1>3, <2>2, RewindKeepsEnd DEF AutoRetry
<1>4. CASE UserAnswers
  <2>1. CASE /\ pc' = (IF pc = "rderr" THEN "rdretry" ELSE "wrretry")
             /\ UNCHANGED <<scan, fileSize, limit, opDone, err, out, result, env, setup>>
    <3>1. SameLayout(CancelOpPhase2(ctx, io), ctx')
      BY <1>4 DEF UserAnswers, Phase2, SameLayout, Ended, Order, IInv, Types
    <3> QED
      BY <1>4, <2>1, <3>1, RewindKeepsEnd DEF UserAnswers, HandlingErr
  <2>2. CASE \E how \in {"error", "skip"} : Abandon(how) /\ Phase2
    BY <1>1, <2>2
  <2> QED
    BY <1>4, <2>1, <2>2 DEF UserAnswers
<1> QED
  BY <1>2, <1>3, <1>4

LEMMA RetriesKeepEnd ==
    ASSUME Ended, Order',
           RetryReading \/ RetryWriting \/ DeleteUntrusted \/ CloseErrAnswered
    PROVE  Ended'
<1>1. pc # "final" /\ (Settled \/ AfterLoop)
  BY DEF RetryReading, RetryWriting, DeleteUntrusted, CloseErrAnswered, Settled, AfterLoop
<1>2. ASSUME Resume, pc \in {"rdretry", "wrretry"} PROVE Ended'
  <2>1. /\ ctx'.blk = ctx.blk /\ ctx'.writeOffset = ctx.writeOffset /\ ctx'.free = ctx.free
        /\ opDone' = ctx.writeOffset /\ result' = result /\ err' = NoErr
        /\ pc' = (IF err.at = "loop" THEN "top" ELSE err.at)
    BY <1>2 DEF Resume, Ended, Order, IInv, Types, Context, CtxFields
  <2>2. \A i \in Blocks : ctx'.blk[i].st # "writing"
    BY <1>2, <2>1 DEF Ended, Settled, InProgress, InProgressStates
  <2>3. Cardinality(InFlight(ctx')) = 0
    BY <2>2, NoneInFlight
  <2>4. ctx.writeOffset \in Nat
    BY DEF Ended, Order, Laid, Tiled
  <2>5. pc' \in {"top", "trim", "del"} /\ (AfterLoop' => AfterLoop)
    BY <1>2, <2>1 DEF Ended, AfterLoop
  <2>6. Results'
    BY <1>2, <2>1, <2>5, GoesOn DEF Ended
  <2> QED
    BY <2>1, <2>3, <2>4, <2>5, <2>6 DEF Ended, Settled, NoErr
<1>3. CASE RetryReading
  BY <1>1, <1>2, <1>3, CopyAgainKeepsEnd DEF RetryReading
<1>4. CASE RetryWriting
  BY <1>1, <1>2, <1>4, CopyAgainKeepsEnd DEF RetryWriting
<1>5. CASE DeleteUntrusted
  BY <1>1, <1>5, ReadAgainKeepsEnd DEF DeleteUntrusted
<1>6. CASE CloseErrAnswered
  <2>1. ASSUME NEW how \in {"error", "skip"}, Abandon(how), UNCHANGED <<ctx, io>>
        PROVE  Ended'
    BY <1>1, <2>1, NothingRuns, EndsKeepsEnd DEF Abandon
  <2> QED
    BY <1>1, <1>6, <2>1, CopyAgainKeepsEnd DEF CloseErrAnswered
<1> QED
  BY <1>3, <1>4, <1>5, <1>6

LEMMA CloseKeepsEnd ==
    ASSUME Ended, Order', Close
    PROVE  Ended'
<1>1. pc = "close" /\ pc' = "final" /\ result' = "ok" /\ UNCHANGED <<ctx, io, err, opDone>>
  BY DEF Close
<1>2. \A i \in Blocks : ctx.blk[i].st = "free"
  BY <1>1, AllAreFree DEF Ended, Order, Laid, AfterLoop
<1>3. \A i \in Blocks : ~InProgress(ctx', i)
  BY <1>1, <1>2 DEF InProgress, InProgressStates
<1> QED
  BY <1>1, <1>3 DEF Ended, Results, AfterLoop, Settled, Counting

LEMMA InitEstablishesEnd == Init => Ended
<1> SUFFICES ASSUME Init PROVE Ended
  OBVIOUS
<1>1. ctx = NewCtx /\ pc = "top" /\ result = "none" /\ err = NoErr /\ opDone = 0
  BY DEF Init
<1>2. ctx.writeOffset = 0 /\ \A i \in Blocks : ctx.blk[i].st = "free"
  BY <1>1 DEF NewCtx, FreeBlk
<1>3. Cardinality(InFlight(ctx)) = 0
  BY <1>2, NoneInFlight
<1> QED
  BY <1>1, <1>2, <1>3, InitEstablishesOrder DEF Ended, Results, AfterLoop, Settled, NoErr

LEMMA NextKeepsEnd == Ended /\ [Next]_vars => Ended'
<1> SUFFICES ASSUME Ended, [Next]_vars PROVE Ended'
  OBVIOUS
<1>1. Order'
  BY NextKeepsOrder DEF Ended
<1>2. CASE Worker
  BY <1>1, <1>2, StartsKeepEnd, ReadDoneKeepsEnd, ScanKeepsEnd, ErrorsKeepEnd, OthersKeepEnd,
     RetriesKeepEnd, CloseKeepsEnd DEF Worker
<1>3. CASE (\E i \in Blocks : IoCompletes(i)) \/ ResizeSource \/ UserCancels
  BY <1>1, <1>3, OthersKeepEnd
<1>4. CASE Terminated \/ UNCHANGED vars
  <2>1. UNCHANGED vars
    BY <1>4 DEF Terminated
  <2>2. UNCHANGED <<ctx, io, opDone, result, pc, err, tgtLen>>
    BY <2>1 DEF vars
  <2>3. Results' /\ (AfterLoop' <=> AfterLoop) /\ (Settled' <=> Settled)
        /\ (Counting' <=> Counting) /\ InFlight(ctx') = InFlight(ctx)
    BY <2>2 DEF Ended, Results, AfterLoop, Settled, Counting
  <2> QED
    BY <1>1, <2>2, <2>3 DEF Ended
<1> QED
  BY <1>2, <1>3, <1>4 DEF Next

LEMMA EndIsKept == Spec => []Ended
  BY InitEstablishesEnd, NextKeepsEnd, PTL DEF Spec

(* When the loop ends everything that was read was written, and everything     *)
(* written was counted once: neither a retry, which rewinds WriteOffset, nor a *)
(* short read breaks the balance the code asserts (TRACE_C in                  *)
(* DoCopyFileLoopAsync).                                                       *)
THEOREM WrittenAndCounted == Spec => []EverythingReadIsWritten
<1>1. ASSUME Ended, pc = "finish" PROVE ctx.readOffset = ctx.writeOffset /\ opDone = ctx.writeOffset
  <2>1. \A i \in Blocks : ctx.blk[i].st = "free"
    BY <1>1, AllAreFree DEF Ended, Order, Laid, AfterLoop
  <2>2. Ahead(ctx) = {} /\ Tiled(ctx, fileSize)
    BY <1>1, <2>1 DEF Ahead, Ended, Order, Laid
  <2>3. /\ ctx.writeOffset \in Nat /\ ctx.readOffset \in Nat
        /\ ctx.writeOffset <= ctx.readOffset
        /\ \A u \in ctx.writeOffset..(ctx.readOffset - 1) : FALSE
    BY <2>2 DEF Tiled
  <2>4. ctx.readOffset = ctx.writeOffset
    BY <2>3
  <2>5. Cardinality(InFlight(ctx)) = 0
    BY <2>1, NoneInFlight
  <2>6. opDone = ctx.writeOffset
    BY <1>1, <2>3, <2>5 DEF Ended, Counting
  <2> QED
    BY <2>4, <2>6
<1>2. Ended => EverythingReadIsWritten
  BY <1>1 DEF EverythingReadIsWritten
<1> QED
  BY <1>2, EndIsKept, PTL

-----------------------------------------------------------------------------
(* What is reported as copied                                              *)

InBounds ==
    /\ srcLen \in 0..MaxLen /\ fileSize \in 0..MaxLen /\ opSize \in 0..MaxLen
    /\ tgtLen \in Nat
    /\ \A i \in Blocks : io[i].op = "read" /\ io[i].st = "done" /\ io[i].res \in {"ok", "eof"} =>
          io[i].bytes = 0 \/ io[i].off + io[i].bytes <= MaxLen

\* the write of block i is still to come, or failed
Awaited(i) == ctx.blk[i].st = "writing" /\ ~(io[i].st = "done" /\ io[i].res = "ok")

IsThere(u) == u < tgtLen /\ tgt[u] = u

\* the target has every unit before WriteOffset, or will get it
WrittenUpTo ==
    \A u \in 0..(ctx.writeOffset - 1) :
        IsThere(u) \/ \E i \in Blocks : Awaited(i) /\ Covers(ctx, i, u)

\* a write in progress is the one its block records, even when the worker was
\* cancelled and only leaves any more
WritesRecorded ==
    \A i \in Blocks : ctx.blk[i].st = "writing" =>
        io[i].op = "write" /\ io[i].off = ctx.blk[i].off /\ io[i].len = ctx.blk[i].len

\* a target that stays has what was written
LeftInOrder == tgtLen = 0 \/ \A u \in 0..(ctx.writeOffset - 1) : tgt[u] = u

Complete ==
    /\ Ended /\ InBounds /\ WritesRecorded
    /\ pc # "final" => WrittenUpTo
    /\ pc = "final" => LeftInOrder
    /\ result = "ok" => tgtLen >= opDone /\ \A u \in 0..(opDone - 1) : tgt[u] = u


LEMMA AvailableIsThere ==
    ASSUME srcLen \in 0..MaxLen, NEW off \in Nat, NEW len \in Nat
    PROVE  /\ Available(off, len) \in Nat
           /\ Available(off, len) = 0 \/ off + Available(off, len) <= srcLen
<1>1. PICK gap \in Int : gap = srcLen - off
  BY CopyAssumption
<1>2. PICK left : left = Max({0, gap})
  OBVIOUS
<1>3. \E x \in {0, gap} : \A y \in {0, gap} : x >= y
  <2>1. CASE gap >= 0
    BY <2>1
  <2>2. CASE ~(gap >= 0)
    BY <2>2
  <2> QED
    BY <2>1, <2>2
<1>4. \A y \in {0, gap} : left \in {0, gap} /\ left >= y
  BY <1>2, <1>3 DEF Max
<1>5. left \in Nat /\ (left = 0 \/ left = gap)
  BY <1>4
<1>6. Min({len, left}) \in {len, left} /\ Min({len, left}) <= len /\ Min({len, left}) <= left
  BY <1>5, MinOfTwo
<1>7. Available(off, len) = Min({len, left})
  BY <1>1, <1>2 DEF Available
<1> QED
  BY <1>1, <1>5, <1>6, <1>7, CopyAssumption

\* what an operation may have for a result
Outcomes == {"none", "ok", "eof", "aborted", "netname", "other"}

\* the same operation, but for its abort
SameIo(r, s) ==
    s.op = r.op /\ s.off = r.off /\ s.len = r.len /\ s.st = r.st /\ s.res = r.res
    /\ s.bytes = r.bytes

\* a read that is started, or finishes at once, leaves the target alone
LEMMA ReadGets ==
    ASSUME Order, StartReading
    PROVE  /\ UNCHANGED <<tgt, tgtLen>>
           /\ \A j \in Blocks :
                 \/ SameIo(io[j], io'[j]) /\ (~cancel => io'[j] = io[j])
                 \/ /\ io'[j].op = "read" /\ (~cancel => ~io'[j].abort)
                    /\ io'[j].off \in Nat /\ io'[j].len \in Nat /\ io'[j].res \in Outcomes
                    /\ io'[j].st = "done" =>
                          io'[j].bytes = Available(io'[j].off, io'[j].len)
<1> DEFINE i == FreeBlockIndex
           len == IF TestEOF THEN limit ELSE ToRead
           r == IoStarts("read", ctx.readOffset, len)
           o == GoodOutcome(r)
           ios(sync) == [io EXCEPT ![i] = IF sync THEN [r EXCEPT !.st = "done", !.res = o.res,
                                                                 !.bytes = o.bytes] ELSE r]
<1>1. PICK sync \in BOOLEAN :
        /\ IF sync THEN Effect(i, r, o) ELSE Quiet
        /\ cancel => EnterError("other", "loop", 0, ios(sync))
        /\ ~cancel => io' = ios(sync)
  BY DEF StartReading
<1>2. /\ ctx.readOffset \in Nat /\ DOMAIN io = Blocks
      /\ \A j \in Blocks : DOMAIN io[j] = {"op", "off", "len", "st", "res", "bytes", "abort"}
  BY DEF Order, IInv, Types, Laid, Tiled
<1>3. len \in Nat
  <2>1. limit \in Nat \ {0}
    BY LimitIsPositive DEF Order
  <2> QED
    BY <2>1, EndIsTested
<1>4. /\ r.op = "read" /\ r.off = ctx.readOffset /\ r.len = len /\ r.st = "pending"
      /\ r.abort = FALSE /\ r.res = "none"
      /\ DOMAIN r = {"op", "off", "len", "st", "res", "bytes", "abort"}
  BY DEF IoStarts, NoIo
<1> HIDE DEF i, r, len
<1>5. o.bytes = Available(ctx.readOffset, len) /\ o.res \in {"ok", "eof"}
  BY <1>4 DEF GoodOutcome
<1> HIDE DEF o
<1>6. UNCHANGED <<tgt, tgtLen>>
  <2>1. CASE sync
    <3>1. Effect(i, r, o)
      BY <1>1, <2>1
    <3> QED
      BY ONLY <1>4, <3>1 DEF Effect
  <2>2. CASE ~sync
    BY <1>1, <2>2 DEF Quiet
  <2> QED
    BY <2>1, <2>2
<1>7. /\ DOMAIN ios(sync) = Blocks
      /\ \A j \in Blocks : DOMAIN ios(sync)[j] = {"op", "off", "len", "st", "res", "bytes", "abort"}
      /\ \A j \in Blocks : j # i => ios(sync)[j] = io[j]
      /\ i \in Blocks =>
            /\ ios(sync)[i].op = "read" /\ ios(sync)[i].off = ctx.readOffset
            /\ ios(sync)[i].len = len /\ ios(sync)[i].abort = FALSE
            /\ ios(sync)[i].res \in {"none", "ok", "eof"}
            /\ ios(sync)[i].st = "done" => ios(sync)[i].bytes = Available(ctx.readOffset, len)
  BY <1>2, <1>4, <1>5
<1> HIDE DEF ios
<1>8. io' = ios(sync) \/ (cancel /\ io' = CancelIo(ios(sync)))
  <2>1. CASE cancel
    <3>1. EnterError("other", "loop", 0, ios(sync))
      BY <1>1, <2>1
    <3> QED
      BY ONLY <2>1, <3>1 DEF EnterError
  <2>2. CASE ~cancel
    BY <1>1, <2>2
  <2> QED
    BY <2>1, <2>2
<1>9. \A j \in Blocks : SameIo(ios(sync)[j], io'[j]) /\ (~cancel => io'[j] = ios(sync)[j])
  BY <1>7, <1>8 DEF CancelIo, SameIo
<1>10. ASSUME NEW j \in Blocks
       PROVE  \/ SameIo(io[j], io'[j]) /\ (~cancel => io'[j] = io[j])
              \/ /\ io'[j].op = "read" /\ (~cancel => ~io'[j].abort)
                 /\ io'[j].off \in Nat /\ io'[j].len \in Nat /\ io'[j].res \in Outcomes
                 /\ io'[j].st = "done" => io'[j].bytes = Available(io'[j].off, io'[j].len)
  <2>1. CASE j = i
    BY <1>2, <1>3, <1>7, <1>9, <2>1 DEF SameIo, Outcomes
  <2>2. CASE j # i
    BY <1>7, <1>9, <2>2
  <2> QED
    BY <2>1, <2>2
<1> QED
  BY <1>6, <1>10

\* a write that is started was not asked to end
LEMMA WriteGets ==
    ASSUME Order, StartWriting, ~cancel, NEW j \in Blocks
    PROVE  io'[j] = io[j] \/ (~io'[j].abort /\ io'[j].res \in {"none", "ok"})
<1> DEFINE r(i) == IoStarts("write", ctx.writeOffset, ctx.blk[i].len)
           o(i) == GoodOutcome(r(i))
           ios(i, sync) == [io EXCEPT ![i] = IF sync THEN [r(i) EXCEPT !.st = "done",
                                                !.res = o(i).res, !.bytes = o(i).bytes] ELSE r(i)]
<1>1. PICK i \in NextToWrite, sync \in BOOLEAN : io' = ios(i, sync)
  BY DEF StartWriting
<1>2. DOMAIN io = Blocks
  BY DEF Order, IInv, Types
<1>3. /\ r(i).abort = FALSE /\ r(i).res = "none" /\ r(i).op = "write"
      /\ DOMAIN r(i) = {"op", "off", "len", "st", "res", "bytes", "abort"}
  BY DEF IoStarts, NoIo
<1>4. o(i).res = "ok"
  BY <1>3 DEF GoodOutcome
<1> HIDE DEF r, o
<1>5. CASE j = i
  <2>1. io'[j].abort = FALSE
    BY <1>1, <1>2, <1>3, <1>5
  <2>2. CASE sync
    BY <1>1, <1>2, <1>3, <1>4, <1>5, <2>1, <2>2
  <2>3. CASE ~sync
    BY <1>1, <1>2, <1>3, <1>5, <2>1, <2>3
  <2> QED
    BY <2>2, <2>3
<1>6. CASE j # i
  BY <1>1, <1>2, <1>6
<1> QED
  BY <1>5, <1>6


\* what is there stays there when the target only grows, by the right units
LEMMA ThereStays ==
    ASSUME NEW u, IsThere(u), tgtLen \in Nat, tgtLen' \in Nat, u \in Nat,
           tgtLen' >= tgtLen, tgt'[u] \in {u, tgt[u]}
    PROVE  IsThere(u)'
BY DEF IsThere

\* while the copy goes on it is reported by nobody
LEMMA NotReported ==
    ASSUME Ended', pc' # "final"
    PROVE  result' # "ok"
BY DEF Ended, Results

LEMMA OffsetsInBounds ==
    ASSUME Complete
    PROVE  /\ ctx.writeOffset \in Nat /\ ctx.readOffset \in Nat /\ MaxLen \in Nat
           /\ ctx.writeOffset <= ctx.readOffset /\ ctx.readOffset <= fileSize
           /\ fileSize \in Nat /\ fileSize <= MaxLen
           /\ ctx.writeOffset <= MaxLen /\ DOMAIN tgt = 0..MaxLen - 1
           /\ \A i \in Blocks : ctx.blk[i].st \in {"read", "reading", "writing"} =>
                 ctx.blk[i].off \in Nat /\ ctx.blk[i].len \in Nat \ {0}
           /\ \A i \in Blocks : ctx.blk[i].st = "writing" =>
                 ctx.blk[i].off + ctx.blk[i].len <= ctx.writeOffset
           /\ \A i \in Blocks : ctx.blk[i].st = "read" =>
                 ctx.blk[i].off + ctx.blk[i].len <= ctx.readOffset
<1>1. /\ ctx.writeOffset \in Nat /\ ctx.readOffset \in Nat
      /\ ctx.writeOffset <= ctx.readOffset /\ ctx.readOffset <= fileSize
      /\ fileSize \in 0..MaxLen /\ DOMAIN tgt = 0..MaxLen - 1
  BY DEF Complete, Ended, Order, Laid, Tiled, InBounds, IInv, Types
<1>2. \A i \in Blocks : ctx.blk[i].st \in {"read", "reading", "writing"} =>
         ctx.blk[i].off \in Nat /\ ctx.blk[i].len \in Nat \ {0}
  BY DEF Complete, Ended, Order, Laid, Tiled, Apart, Data
<1>3. \A i \in Blocks : ctx.blk[i].st = "writing" =>
         ctx.blk[i].off + ctx.blk[i].len <= ctx.writeOffset
  BY DEF Complete, Ended, Order, Laid, Tiled, EndOf
<1>4. \A i \in Blocks : ctx.blk[i].st = "read" =>
         ctx.blk[i].off + ctx.blk[i].len <= ctx.readOffset
  BY DEF Complete, Ended, Order, Laid, Tiled, EndOf, Ahead
<1> QED
  BY <1>1, <1>2, <1>3, <1>4, CopyAssumption

\* as long as the worker goes on, what it records is all there is
LEMMA GoingRecords ==
    ASSUME Order', Going'
    PROVE  WritesRecorded'
BY DEF Order, IInv, Agrees, Matches, WritesRecorded

\* the same operations but for their abort
LEMMA IoBoundsStay ==
    ASSUME InBounds, \A i \in Blocks : io'[i] = NoIo \/ SameIo(io[i], io'[i])
    PROVE  \A i \in Blocks :
              io'[i].op = "read" /\ io'[i].st = "done" /\ io'[i].res \in {"ok", "eof"} =>
                 io'[i].bytes = 0 \/ io'[i].off + io'[i].bytes <= MaxLen
BY DEF InBounds, SameIo, NoIo

\* Nothing happens to the data: the blocks stay, and the target.
LEMMA StillComplete ==
    ASSUME Complete, Ended', ctx'.blk = ctx.blk, ctx'.writeOffset = ctx.writeOffset,
           UNCHANGED <<tgt, tgtLen, fileSize, opSize>>, srcLen' \in 0..MaxLen,
           \A i \in Blocks : SameIo(io[i], io'[i]), pc # "final", pc' # "final"
    PROVE  Complete'
<1>1. InBounds'
  BY IoBoundsStay DEF Complete, InBounds
<1>2. result' # "ok"
  BY NotReported
<1>3. WrittenUpTo' /\ WritesRecorded'
  BY DEF Complete, WrittenUpTo, WritesRecorded, IsThere, Awaited, Covers, SameIo
<1> QED
  BY <1>1, <1>2, <1>3 DEF Complete

LEMMA AskedIsSame ==
    ASSUME Order, io' = io \/ io' = CancelIo(io)
    PROVE  \A i \in Blocks : SameIo(io[i], io'[i])
BY IoAsked DEF Order, IInv, SameIo

LEMMA OthersKeepComplete ==
    ASSUME Complete, Ended',
           \/ ReadFileFails \/ BeginScan \/ ScanSkips \/ ReadFailed \/ WriteFailed
           \/ WriteDoneCancelled \/ WriteFileFails \/ EndOfWriting \/ WaitForOldest
           \/ Finish \/ TrimFails \/ TestAllocation \/ DeleteFails
           \/ CloseFails \/ ResizeSource \/ UserCancels
    PROVE  Complete'
<1>1. /\ UNCHANGED <<ctx, tgt, tgtLen, fileSize, opSize>>
      /\ srcLen' = srcLen \/ srcLen' \in 0..MaxLen
      /\ io' = io \/ io' = CancelIo(io)
      /\ pc # "final" /\ pc' # "final"
  <2>1. CASE ReadFileFails
    BY <2>1 DEF ReadFileFails, EnterError, env, setup
  <2>2. CASE ReadFailed
    BY <2>2 DEF ReadFailed, ScanAt, EnterError, Quiet, env, setup
  <2>3. CASE WriteFailed
    BY <2>3 DEF WriteFailed, ScanAt, EnterError, Quiet, env, setup
  <2>4. CASE WriteDoneCancelled
    BY <2>4 DEF WriteDoneCancelled, ScanAt, Quiet, env, setup
  <2>5. CASE WriteFileFails
    BY <2>5 DEF WriteFileFails, CanStartWriting, EndOfScan, EnterError, env, setup
  <2>6. CASE BeginScan \/ ScanSkips \/ EndOfWriting \/ WaitForOldest
    BY <2>6 DEF BeginScan, ScanSkips, ScanAt, EndOfWriting, EndOfScan, WaitForOldest, Quiet,
                env, setup
  <2>7. CASE TrimFails \/ DeleteFails
    BY <2>7 DEF TrimFails, DeleteFails, EnterError, env, setup
  <2>8. CASE Finish \/ CloseFails
    BY <2>8 DEF Finish, CloseFails, Quiet, env, setup
  <2>9. CASE ResizeSource \/ UserCancels
    BY <2>9 DEF ResizeSource, UserCancels, setup
  <2>10. CASE TestAllocation
    BY <2>10 DEF TestAllocation, env
  <2> QED
    BY <2>1, <2>2, <2>3, <2>4, <2>5, <2>6, <2>7, <2>8, <2>9, <2>10
<1>2. \A i \in Blocks : SameIo(io[i], io'[i])
  BY <1>1, AskedIsSame DEF Complete, Ended
<1>3. srcLen' \in 0..MaxLen
  BY <1>1 DEF Complete, InBounds
<1> QED
  BY <1>1, <1>2, <1>3, StillComplete

LEMMA ReadAgainKeepsComplete ==
    ASSUME Complete, Ended', NEW mode, ReadAgain(mode)
    PROVE  Complete'
<1>1. /\ pc' = "top" /\ ctx' = NewCtx /\ UNCHANGED <<opSize, srcLen>> /\ fileSize' = opSize
      /\ tgtLen' \in {0, opSize} /\ io' = [i \in Blocks |-> NoIo]
  BY DEF ReadAgain, FreshCopy, env
<1>2. InBounds'
  BY <1>1 DEF Complete, InBounds, NoIo
<1>3. ctx'.writeOffset = 0 /\ \A i \in Blocks : ctx'.blk[i].st = "free"
  BY <1>1 DEF NewCtx, FreeBlk
<1>4. WrittenUpTo' /\ WritesRecorded'
  BY <1>3 DEF WrittenUpTo, WritesRecorded
<1>5. result' # "ok"
  BY <1>1, NotReported
<1> QED
  BY <1>1, <1>2, <1>4, <1>5 DEF Complete

\* a target that is left alone, or cut behind "written"
LEMMA StayedInOrder ==
    ASSUME NEW cut, NEW written \in Nat, TargetStays(cut, written), tgtLen \in Nat,
           \A u \in 0..(written - 1) : tgt[u] = u /\ u \in 0..MaxLen - 1
    PROVE  tgtLen' \in Nat /\ \A u \in 0..(written - 1) : tgt'[u] = u
<1>1. tgtLen' \in Nat
  BY DEF TargetStays
<1>2. ASSUME NEW u \in 0..(written - 1) PROVE tgt'[u] = u
  <2>1. u < written /\ tgt[u] = u /\ u \in 0..MaxLen - 1
    OBVIOUS
  <2> QED
    BY <2>1 DEF TargetStays
<1> QED
  BY <1>1, <1>2

\* the copy ends: what was written is right, whether the target stays or not
LEMMA EndsKeepsComplete ==
    ASSUME Complete, Ended', NEW how, how # "ok", Ends(how), TakeOver \/ UNCHANGED io,
           \A i \in Blocks : ctx'.blk[i].st # "writing", ctx'.writeOffset \in Nat,
           \A u \in 0..(ctx'.writeOffset - 1) : tgt[u] = u /\ u \in 0..MaxLen - 1,
           tgtLen' = 0 \/ \E cut : TargetStays(cut, ctx'.writeOffset)
    PROVE  Complete'
<1>1. pc' = "final" /\ result' = how /\ UNCHANGED <<fileSize, opSize, srcLen>>
  BY DEF Ends, env
<1>2. \A i \in Blocks : io'[i] = NoIo \/ SameIo(io[i], io'[i])
  BY DEF TakeOver, SameIo
<1>3. PICK wo \in Nat : wo = ctx'.writeOffset
  OBVIOUS
<1>4. tgtLen' \in Nat /\ (tgtLen' = 0 \/ \A u \in 0..(wo - 1) : tgt'[u] = u)
  <2>1. tgtLen \in Nat
    BY DEF Complete, InBounds
  <2>2. ASSUME NEW cut, TargetStays(cut, wo)
        PROVE  tgtLen' \in Nat /\ \A u \in 0..(wo - 1) : tgt'[u] = u
    BY <1>3, <2>1, <2>2, StayedInOrder
  <2> QED
    BY <1>3, <2>2
<1>5. InBounds'
  BY <1>1, <1>2, <1>4, IoBoundsStay DEF Complete, InBounds
<1>6. LeftInOrder' /\ WritesRecorded'
  BY <1>3, <1>4 DEF LeftInOrder, WritesRecorded
<1> QED
  BY <1>1, <1>5, <1>6 DEF Complete

\* The rewound copy goes on from what the target has for certain.
LEMMA RewoundIsThere ==
    ASSUME Complete, AllFinished, pc # "final", NEW d, d = CancelOpPhase2(ctx, io)
    PROVE  /\ d.writeOffset \in Nat
           /\ \A u \in 0..(d.writeOffset - 1) : IsThere(u) /\ u \in 0..MaxLen - 1
<1>1. Context(ctx) /\ Counted(ctx) /\ Tiled(ctx, fileSize)
  BY DEF Complete, Ended, Order, Laid
<1>2. /\ d.writeOffset <= ctx.writeOffset /\ d.writeOffset \in Nat
      /\ \A i \in Blocks : ctx.blk[i].st = "writing" /\ io[i].res # "ok" =>
                              d.writeOffset <= ctx.blk[i].off
  BY <1>1, Rewound DEF Tiled
<1>3. ASSUME NEW u \in 0..(d.writeOffset - 1) PROVE IsThere(u) /\ u \in 0..MaxLen - 1
  <2>1. u \in 0..(ctx.writeOffset - 1) /\ u < d.writeOffset /\ u \in 0..MaxLen - 1
    BY <1>2, <1>3, OffsetsInBounds
  <2>2. IsThere(u) \/ \E i \in Blocks : Awaited(i) /\ Covers(ctx, i, u)
    BY <2>1 DEF Complete, WrittenUpTo
  <2>3. ASSUME NEW i \in Blocks, Awaited(i), Covers(ctx, i, u) PROVE FALSE
    <3>1. ctx.blk[i].st = "writing" /\ io[i].st = "done" /\ io[i].res # "ok"
      BY <2>3 DEF Awaited, AllFinished, InProgress, InProgressStates
    <3>2. ctx.blk[i].off \in Nat /\ ctx.blk[i].off <= u
      BY <2>3, <3>1, OffsetsInBounds DEF Covers
    <3> QED
      BY <1>2, <2>1, <3>1, <3>2
  <2> QED
    BY <2>1, <2>2, <2>3
<1> QED
  BY <1>2, <1>3

LEMMA RewindKeepsComplete ==
    ASSUME Complete, Ended', AllFinished, TakeOver, SameLayout(CancelOpPhase2(ctx, io), ctx'),
           UNCHANGED <<tgt, tgtLen, fileSize, opSize, srcLen>>,
           pc # "final", pc' # "final"
    PROVE  Complete'
<1>1. PICK d : d = CancelOpPhase2(ctx, io)
  OBVIOUS
<1>2. \A u \in 0..(d.writeOffset - 1) : IsThere(u)
  BY <1>1, RewoundIsThere
<1>3. ctx'.writeOffset = d.writeOffset /\ ctx'.blk = d.blk
  BY <1>1 DEF SameLayout
<1>4. \A i \in Blocks : ctx'.blk[i].st # "writing"
  BY <1>1, <1>3, RewindStopsAll DEF Complete
<1>5. \A i \in Blocks : io'[i] = NoIo \/ SameIo(io[i], io'[i])
  BY DEF TakeOver, SameIo
<1>6. InBounds'
  BY <1>5, IoBoundsStay DEF Complete, InBounds
<1>7. WrittenUpTo' /\ WritesRecorded'
  BY <1>2, <1>3, <1>4 DEF WrittenUpTo, WritesRecorded, IsThere
<1>8. result' # "ok"
  BY NotReported
<1> QED
  BY <1>6, <1>7, <1>8 DEF Complete

\* the copy is given up
LEMMA AbandonKeepsComplete ==
    ASSUME Complete, Ended', NEW how \in {"error", "skip"}, Abandon(how), Phase2,
           pc # "final"
    PROVE  Complete'
<1>1. PICK d : d = CancelOpPhase2(ctx, io) /\ ctx' = d
  BY DEF Phase2
<1>2. /\ d.writeOffset \in Nat
      /\ \A u \in 0..(d.writeOffset - 1) : tgt[u] = u /\ u \in 0..MaxLen - 1
  BY <1>1, RewoundIsThere DEF Phase2, IsThere
<1>3. \A i \in Blocks : d.blk[i].st # "writing"
  BY <1>1, RewindStopsAll DEF Complete
<1>4. tgtLen' = 0 \/ \E cut : TargetStays(cut, ctx'.writeOffset)
  BY DEF Abandon
<1> QED
  BY <1>1, <1>2, <1>3, <1>4, EndsKeepsComplete DEF Abandon, Phase2


LEMMA StartReadingKeepsComplete ==
    ASSUME Complete, Ended', StartReading
    PROVE  Complete'
<1>1. Order /\ Order'
  BY DEF Complete, Ended
<1>2. /\ UNCHANGED <<tgt, tgtLen>>
      /\ \A j \in Blocks :
            \/ SameIo(io[j], io'[j])
            \/ /\ io'[j].op = "read" /\ io'[j].off \in Nat /\ io'[j].len \in Nat
               /\ io'[j].st = "done" => io'[j].bytes = Available(io'[j].off, io'[j].len)
  BY <1>1, ReadGets
<1>3. /\ UNCHANGED <<fileSize, srcLen, opSize, cancel>> /\ pc = "top"
  BY DEF StartReading, env, setup
<1>4. InBounds'
  <2>1. ASSUME NEW i \in Blocks, io'[i].op = "read", io'[i].st = "done",
               io'[i].res \in {"ok", "eof"}
        PROVE  io'[i].bytes = 0 \/ io'[i].off + io'[i].bytes <= MaxLen
    <3>1. CASE SameIo(io[i], io'[i])
      BY <2>1, <3>1 DEF Complete, InBounds, SameIo
    <3>2. CASE /\ io'[i].off \in Nat /\ io'[i].len \in Nat
               /\ io'[i].bytes = Available(io'[i].off, io'[i].len)
      <4>1. srcLen \in 0..MaxLen
        BY DEF Complete, InBounds
      <4>2. PICK b : b = Available(io'[i].off, io'[i].len)
        OBVIOUS
      <4>3. b \in Nat /\ (b = 0 \/ io'[i].off + b <= srcLen)
        BY <3>2, <4>1, <4>2, AvailableIsThere
      <4>4. MaxLen \in Nat /\ io'[i].bytes = b
        BY <3>2, <4>2, CopyAssumption
      <4> QED
        BY ONLY <3>2, <4>1, <4>3, <4>4
    <3> QED
      BY <1>2, <2>1, <3>1, <3>2
  <2> QED
    BY <1>2, <1>3, <2>1 DEF Complete, InBounds
<1>5. PICK i \in Blocks :
          /\ ctx.blk[i].st = "free"
          /\ cancel => SameLayout(ctx, ctx') /\ pc' = "rderr"
          /\ ~cancel => \E len, test : Starts(i, len, test, ctx') /\ pc' = pc
          /\ \A j \in Blocks \ {i} :
                /\ io'[j].op = io[j].op /\ io'[j].off = io[j].off /\ io'[j].len = io[j].len
                /\ io'[j].st = io[j].st /\ io'[j].res = io[j].res
  BY <1>1, ReadStarts
<1>6. ctx'.writeOffset = ctx.writeOffset /\ \A j \in Blocks \ {i} : ctx'.blk[j] = ctx.blk[j]
  BY <1>5 DEF Starts, SameLayout
<1>7. \A j \in Blocks : Awaited(j) => j # i
  BY <1>5 DEF Awaited
<1>8. \A j \in Blocks : \A u :
        Awaited(j) /\ Covers(ctx, j, u) => Awaited(j)' /\ Covers(ctx', j, u)
  BY <1>5, <1>6, <1>7 DEF Awaited, Covers
<1>9. WrittenUpTo'
  <2>1. WrittenUpTo
    BY <1>3 DEF Complete
  <2> QED
    BY <1>2, <1>6, <1>8, <2>1 DEF WrittenUpTo, IsThere
<1>10. WritesRecorded'
  <2>1. CASE cancel
    BY <1>5, <2>1 DEF WritesRecorded, Complete, SameLayout
  <2>2. CASE ~cancel
    BY <1>1, <1>3, <2>2, GoingRecords DEF Going
  <2> QED
    BY <2>1, <2>2
<1>11. pc' # "final"
  BY <1>3, <1>5
<1>12. result' # "ok"
  BY <1>11, NotReported
<1> QED
  BY <1>4, <1>9, <1>10, <1>11, <1>12 DEF Complete

\* the units of a block that gets to the target
LEMMA TargetGrows ==
    ASSUME tgtLen \in Nat, NEW off \in Nat, NEW len \in Nat, off + len <= MaxLen,
           MaxLen \in Nat, DOMAIN tgt = 0..MaxLen - 1,
           tgt' = [u \in 0..MaxLen - 1 |-> IF u \in off..off + len - 1 THEN u ELSE tgt[u]],
           tgtLen' = Max({tgtLen, off + len})
    PROVE  /\ tgtLen' \in Nat /\ (tgtLen' = tgtLen \/ tgtLen' = off + len)
           /\ \A u \in 0..MaxLen - 1 : IsThere(u) => IsThere(u)'
           /\ \A u \in off..off + len - 1 : IsThere(u)'
<1>1. PICK e \in Nat : e = off + len
  OBVIOUS
<1>2. Max({tgtLen, e}) \in {tgtLen, e} /\ Max({tgtLen, e}) >= tgtLen /\ Max({tgtLen, e}) >= e
  BY MaxOfTwo
<1>3. /\ tgtLen' \in Nat /\ (tgtLen' = tgtLen \/ tgtLen' = off + len)
      /\ tgtLen' >= tgtLen /\ tgtLen' >= off + len
  BY <1>1, <1>2
<1>4. \A u \in 0..MaxLen - 1 : tgt'[u] = IF u \in off..off + len - 1 THEN u ELSE tgt[u]
  OBVIOUS
<1>5. ASSUME NEW u \in 0..MaxLen - 1, IsThere(u) PROVE IsThere(u)'
  BY <1>3, <1>4, <1>5, ThereStays DEF IsThere
<1>6. ASSUME NEW u \in off..off + len - 1 PROVE IsThere(u)'
  <2>1. u \in 0..MaxLen - 1 /\ u < off + len
    OBVIOUS
  <2>2. tgt'[u] = u
    BY <1>4, <1>6, <2>1
  <2>3. u < tgtLen'
    BY <1>3, <2>1
  <2> QED
    BY <2>2, <2>3 DEF IsThere
<1> QED
  BY <1>3, <1>5, <1>6

LEMMA StartWritingKeepsComplete ==
    ASSUME Complete, Ended', StartWriting
    PROVE  Complete'
<1>1. Order
  BY DEF Complete, Ended
<1>2. PICK i \in Blocks, sync \in BOOLEAN :
              /\ ctx.blk[i].st = "read" /\ ctx.blk[i].off = ctx.writeOffset
              /\ cancel => SameLayout(ctx, ctx') /\ pc' = "wrerr"
              /\ ~cancel => Writes(i, ctx') /\ pc' = pc
              /\ \A j \in Blocks \ {i} : SameIo(io[j], io'[j])
              /\ io'[i].op = "write"
              /\ sync => io'[i].st = "done" /\ io'[i].res = "ok" /\ TargetGets(i)
              /\ ~sync => io'[i].st = "pending" /\ tgt' = tgt /\ tgtLen' = tgtLen
  BY <1>1, WriteStarts DEF SameIo
<1>3. UNCHANGED <<fileSize, srcLen, opSize, cancel>> /\ pc = "scan"
  BY DEF StartWriting, CanStartWriting, EndOfScan, env, setup
<1>4. /\ ctx.blk[i].off \in Nat /\ ctx.blk[i].len \in Nat /\ ctx.writeOffset \in Nat
      /\ ctx.blk[i].off + ctx.blk[i].len <= MaxLen /\ MaxLen \in Nat
      /\ DOMAIN tgt = 0..MaxLen - 1 /\ tgtLen \in Nat
      /\ ctx.writeOffset <= MaxLen
  <2>1. tgtLen \in Nat
    BY DEF Complete, InBounds
  <2> QED
    BY <1>2, <2>1, OffsetsInBounds
<1>5. /\ tgtLen' \in Nat
      /\ \A u \in 0..MaxLen - 1 : IsThere(u) => IsThere(u)'
      /\ sync => \A u \in ctx.blk[i].off..ctx.blk[i].off + ctx.blk[i].len - 1 : IsThere(u)'
  <2>1. CASE sync
    <3>1. /\ tgt' = [u \in 0..MaxLen - 1 |->
                 IF u \in ctx.blk[i].off..ctx.blk[i].off + ctx.blk[i].len - 1 THEN u ELSE tgt[u]]
          /\ tgtLen' = Max({tgtLen, ctx.blk[i].off + ctx.blk[i].len})
      BY <1>2, <2>1 DEF TargetGets
    <3>2. /\ tgtLen' \in Nat
          /\ \A u \in 0..MaxLen - 1 : IsThere(u) => IsThere(u)'
          /\ \A u \in ctx.blk[i].off..ctx.blk[i].off + ctx.blk[i].len - 1 : IsThere(u)'
      BY ONLY <1>4, <3>1, TargetGrows
    <3> QED
      BY <3>2
  <2>2. CASE ~sync
    BY <1>2, <1>4, <2>2 DEF IsThere
  <2> QED
    BY <2>1, <2>2
<1>6. InBounds'
  BY <1>2, <1>3, <1>5 DEF Complete, InBounds, SameIo
<1>7. ASSUME ~cancel PROVE WrittenUpTo'
  <2>1. /\ ctx'.blk[i] = [ctx.blk[i] EXCEPT !.st = "writing"]
        /\ \A j \in Blocks \ {i} : ctx'.blk[j] = ctx.blk[j]
        /\ ctx'.writeOffset = ctx.writeOffset + ctx.blk[i].len
    BY <1>2, <1>7 DEF Writes
  <2>2. /\ ctx'.blk[i].st = "writing" /\ ctx'.blk[i].off = ctx.writeOffset
        /\ ctx'.blk[i].len = ctx.blk[i].len
    <3>1. DOMAIN ctx.blk[i] = {"st", "off", "len"}
      BY <1>1 DEF Order, Laid, Context
    <3> QED
      BY <1>2, <2>1, <3>1
  <2>3. \A j \in Blocks : \A u :
          Awaited(j) /\ Covers(ctx, j, u) => Awaited(j)' /\ Covers(ctx', j, u)
    <3>1. \A j \in Blocks : Awaited(j) => j # i
      BY <1>2 DEF Awaited
    <3> QED
      BY <1>2, <2>1, <3>1 DEF Awaited, Covers, SameIo
  <2>4. WrittenUpTo
    BY <1>3 DEF Complete
  <2>5. ASSUME NEW u \in 0..(ctx'.writeOffset - 1)
        PROVE  IsThere(u)' \/ \E j \in Blocks : Awaited(j)' /\ Covers(ctx', j, u)
    <3>1. CASE u < ctx.writeOffset
      <4>1. u \in 0..(ctx.writeOffset - 1) /\ u \in 0..MaxLen - 1
        BY <1>4, <2>1, <3>1
      <4> QED
        BY <1>5, <2>3, <2>4, <4>1 DEF WrittenUpTo
    <3>2. CASE ~(u < ctx.writeOffset)
      <4>1. /\ u \in ctx.blk[i].off..ctx.blk[i].off + ctx.blk[i].len - 1
            /\ ctx.writeOffset <= u /\ u < ctx.writeOffset + ctx.blk[i].len
        BY <1>2, <1>4, <2>1, <3>2
      <4>2. CASE sync
        BY <1>5, <4>1, <4>2
      <4>3. CASE ~sync
        <5>1. Awaited(i)'
          BY <1>2, <2>2, <4>3 DEF Awaited
        <5>2. Covers(ctx', i, u)
          BY <2>2, <4>1 DEF Covers
        <5> QED
          BY <5>1, <5>2
      <4> QED
        BY <4>2, <4>3
    <3> QED
      BY <3>1, <3>2
  <2> QED
    BY <2>5 DEF WrittenUpTo
<1>8. ASSUME cancel PROVE WrittenUpTo' /\ WritesRecorded'
  <2>1. WrittenUpTo /\ ctx'.blk = ctx.blk /\ ctx'.writeOffset = ctx.writeOffset
    BY <1>2, <1>3, <1>8 DEF Complete, SameLayout
  <2>2. \A j \in Blocks : Awaited(j) => j # i /\ Awaited(j)'
    BY <1>2, <2>1 DEF Awaited, SameIo
  <2>3. WritesRecorded'
    BY <1>2, <2>1 DEF Complete, WritesRecorded, SameIo
  <2>4. ASSUME NEW u \in 0..(ctx.writeOffset - 1)
        PROVE  IsThere(u)' \/ \E j \in Blocks : Awaited(j)' /\ Covers(ctx', j, u)
    <3>1. u \in 0..MaxLen - 1
      BY <1>4
    <3> QED
      BY <1>5, <2>1, <2>2, <3>1 DEF WrittenUpTo, Covers
  <2> QED
    BY <2>1, <2>3, <2>4 DEF WrittenUpTo
<1>9. ~cancel => WritesRecorded'
  BY <1>2, <1>3, GoingRecords DEF Going, Ended
<1>10. result' # "ok" /\ pc' # "final"
  BY <1>2, <1>3, NotReported
<1> QED
  BY <1>6, <1>7, <1>8, <1>9, <1>10 DEF Complete

LEMMA IoCompletesKeepsComplete ==
    ASSUME Complete, Ended', NEW i \in Blocks, IoCompletes(i)
    PROVE  Complete'
<1>1. PICK o \in {GoodOutcome(io[i])} \cup BadOutcomes(io[i]) :
         /\ io' = [io EXCEPT ![i].st = "done", ![i].res = o.res, ![i].bytes = o.bytes]
         /\ Effect(i, io[i], o)
  BY DEF IoCompletes
<1>2. /\ UNCHANGED <<ctx, fileSize, srcLen, opSize, pc, cancel>>
      /\ pc # "final" /\ io[i].st = "pending"
  BY DEF IoCompletes, env, setup
<1>3. DOMAIN io[i] = {"op", "off", "len", "st", "res", "bytes", "abort"} /\ DOMAIN io = Blocks
  BY DEF Complete, Ended, Order, IInv, Types
<1>4. /\ io'[i].op = io[i].op /\ io'[i].off = io[i].off /\ io'[i].len = io[i].len
      /\ io'[i].st = "done" /\ io'[i].res = o.res /\ io'[i].bytes = o.bytes
      /\ \A j \in Blocks \ {i} : io'[j] = io[j]
  BY <1>1, <1>3
<1>5. /\ io[i].off \in Nat /\ io[i].len \in Nat /\ srcLen \in 0..MaxLen /\ srcLen \in Nat
      /\ tgtLen \in Nat
  BY DEF Complete, Ended, Order, InBounds
<1>6. /\ io[i].op = "write" /\ o.res = "ok" => buf[i] = io[i].off
      /\ io[i].op # "write" /\ o.res \in {"ok", "eof"} =>
            o.bytes = 0 \/ io[i].off + o.bytes <= MaxLen
  <2>1. io[i].op = "write" => buf[i] = io[i].off
    BY <1>2 DEF Complete, Ended, Order, IInv, Honest
  <2>2. ASSUME o = GoodOutcome(io[i]), io[i].op # "write"
        PROVE  o.bytes = 0 \/ io[i].off + o.bytes <= MaxLen
    <3>1. PICK b : b = Available(io[i].off, io[i].len)
      OBVIOUS
    <3>2. b \in Nat /\ (b = 0 \/ io[i].off + b <= srcLen)
      BY <1>5, <3>1, AvailableIsThere
    <3>3. o.bytes = b
      BY <2>2, <3>1 DEF GoodOutcome
    <3>4. MaxLen \in Nat
      BY CopyAssumption
    <3> QED
      BY ONLY <1>5, <3>2, <3>3, <3>4
  <2>3. o \in BadOutcomes(io[i]) => o.res \in {"aborted", "netname", "other"}
    BY DEF BadOutcomes
  <2> QED
    BY <2>1, <2>2, <2>3
<1>7. io[i].op = "write" => o.bytes \in 0..io[i].len /\ (o.res = "ok" => o.bytes = io[i].len)
  <2>1. o = GoodOutcome(io[i]) /\ io[i].op = "write" => o.bytes = io[i].len
    BY DEF GoodOutcome
  <2>2. o \in BadOutcomes(io[i]) /\ io[i].op = "write" =>
           o.bytes \in 0..io[i].len - 1 /\ o.res # "ok"
    BY DEF BadOutcomes
  <2> QED
    BY <1>5, <2>1, <2>2
<1>8. \A j \in Blocks : io'[j].op = io[j].op /\ io'[j].off = io[j].off /\ io'[j].len = io[j].len
  BY <1>4
<1>9. WritesRecorded'
  BY <1>2, <1>8 DEF Complete, WritesRecorded
<1>10. WrittenUpTo
  BY <1>2 DEF Complete
<1>11. CASE io[i].op = "write" /\ o.bytes > 0
  <2>1. \A u : Written(i, io[i], u) = u
    BY <1>2, <1>11 DEF Written, Complete, Ended, Order, IInv, Honest
  <2>2. /\ tgt' = [u \in 0..MaxLen - 1 |->
                     IF u \in io[i].off..io[i].off + o.bytes - 1 THEN u ELSE tgt[u]]
        /\ tgtLen' = Max({tgtLen, io[i].off + o.bytes})
    BY <1>1, <1>11, <2>1 DEF Effect
  <2>3. PICK e \in Nat : e = io[i].off + o.bytes
    BY <1>5, <1>7, <1>11
  <2>4. /\ tgtLen' \in Nat /\ tgtLen' >= tgtLen /\ tgtLen' >= io[i].off + o.bytes
    <3>1. Max({tgtLen, e}) \in {tgtLen, e} /\ Max({tgtLen, e}) >= tgtLen /\ Max({tgtLen, e}) >= e
      BY <1>5, MaxOfTwo
    <3> QED
      BY <1>5, <2>2, <2>3, <3>1
  <2>5. InBounds'
    BY <1>2, <1>4, <1>11, <2>4 DEF Complete, InBounds
  <2>6. WrittenUpTo'
    <3>1. ASSUME NEW u \in 0..(ctx.writeOffset - 1), IsThere(u) PROVE IsThere(u)'
      <4>1. u \in 0..MaxLen - 1 /\ u \in Nat
        BY <3>1, OffsetsInBounds
      <4>2. tgt'[u] \in {u, tgt[u]}
        BY <2>2, <4>1
      <4> QED
        BY <1>5, <2>4, <3>1, <4>1, <4>2, ThereStays
    <3>2. ASSUME NEW u \in 0..(ctx.writeOffset - 1), Awaited(i), Covers(ctx, i, u), o.res = "ok"
          PROVE  IsThere(u)'
      <4>1. io[i].off = ctx.blk[i].off /\ io[i].len = ctx.blk[i].len /\ o.bytes = io[i].len
        <5>1. ctx.blk[i].st = "writing" /\ WritesRecorded
          BY <3>2 DEF Awaited, Complete
        <5>2. io[i].off = ctx.blk[i].off /\ io[i].len = ctx.blk[i].len
          BY <5>1 DEF WritesRecorded
        <5>3. o.bytes = io[i].len
          BY ONLY <1>7, <1>11, <3>2
        <5> QED
          BY <5>2, <5>3
      <4>2. u \in io[i].off..io[i].off + o.bytes - 1 /\ u \in 0..MaxLen - 1
        <5>1. /\ ctx.blk[i].st = "writing"
              /\ ctx.blk[i].off <= u /\ u < ctx.blk[i].off + ctx.blk[i].len
          BY <3>2 DEF Awaited, Covers
        <5>2. /\ ctx.blk[i].off \in Nat /\ ctx.blk[i].len \in Nat
              /\ ctx.writeOffset \in Nat /\ MaxLen \in Nat /\ ctx.writeOffset <= MaxLen
          BY ONLY Complete, i \in Blocks, <5>1, OffsetsInBounds
        <5>3. u \in 0..MaxLen - 1
          BY ONLY <3>2, <5>2
        <5> QED
          BY ONLY <4>1, <5>1, <5>2, <5>3
      <4>3. tgt'[u] = u /\ u < tgtLen'
        BY <1>5, <2>2, <2>4, <4>1, <4>2
      <4> QED
        BY <4>3 DEF IsThere
    <3>3. ASSUME NEW u \in 0..(ctx.writeOffset - 1), NEW j \in Blocks, Awaited(j),
                 Covers(ctx, j, u), j # i \/ o.res # "ok"
          PROVE  Awaited(j)' /\ Covers(ctx', j, u)
      BY <1>2, <1>4, <3>3 DEF Awaited, Covers
    <3> QED
      BY <1>2, <1>10, <3>1, <3>2, <3>3 DEF WrittenUpTo
  <2> QED
    BY <1>2, <1>9, <2>5, <2>6, NotReported DEF Complete
<1>12. CASE ~(io[i].op = "write" /\ o.bytes > 0)
  <2>1. UNCHANGED <<tgt, tgtLen>>
    BY <1>1, <1>12 DEF Effect
  <2>2. InBounds'
    BY <1>2, <1>4, <1>6, <2>1 DEF Complete, InBounds
  <2>3. WrittenUpTo'
    <3>1. \A j \in Blocks : Awaited(j) => Awaited(j)'
      <4>1. ASSUME Awaited(i) PROVE Awaited(i)'
        <5>1. ctx.blk[i].st = "writing" /\ ctx.blk[i].len \in Nat \ {0}
          BY <4>1, OffsetsInBounds DEF Awaited
        <5>2. io[i].op = "write" /\ io[i].len = ctx.blk[i].len
          BY <5>1 DEF Complete, WritesRecorded
        <5>3. o.res # "ok"
          BY <1>7, <1>12, <5>1, <5>2
        <5> QED
          BY <1>2, <1>4, <5>1, <5>3 DEF Awaited
      <4> QED
        BY <1>2, <1>4, <4>1 DEF Awaited
    <3> QED
      BY <1>2, <1>10, <2>1, <3>1 DEF WrittenUpTo, IsThere, Covers
  <2> QED
    BY <1>2, <1>9, <2>2, <2>3, NotReported DEF Complete
<1> QED
  BY <1>11, <1>12

LEMMA ReadDoneKeepsComplete ==
    ASSUME Complete, Ended', ReadDone
    PROVE  Complete'
<1>1. Order /\ Laid(ctx, fileSize)
  BY DEF Complete, Ended, Order
<1>2. PICK i \in Blocks :
              /\ ScanAt(i) /\ Finished(i) /\ ctx.blk[i].st \in {"reading", "testing"}
              /\ io[i].res \in {"ok", "eof"}
              /\ io[i].bytes \in Nat /\ io[i].bytes <= ctx.blk[i].len
              /\ Takes(ctx, i, io[i].bytes, ctx')
              /\ fileSize' \in Nat /\ ctx'.readOffset <= fileSize'
              /\ fileSize' = IF Short(ctx, i, io[i].bytes)
                             THEN IF ~Testing(ctx, i) \/ io[i].bytes # 0
                                  THEN ReadEnd(ctx, i, io[i].bytes) ELSE fileSize
                             ELSE IF Testing(ctx, i)
                                  THEN Max({srcLen, ReadEnd(ctx, i, io[i].bytes)}) ELSE fileSize
              /\ io' = [io EXCEPT ![i] = NoIo] /\ ScanNext(ctx')
              /\ UNCHANGED <<limit, opDone, err, out, result, env, setup>> /\ Quiet
  BY <1>1, ReadIsTaken
<1>3. PICK bytes \in Nat : bytes = io[i].bytes
  BY <1>2
<1>4. PICK new \in Nat : new = fileSize'
  BY <1>2
<1>5. /\ \A j \in Blocks : ctx'.blk[j].st = "writing" <=> ctx.blk[j].st = "writing"
      /\ \A j \in Blocks : ctx'.blk[j].st = "writing" => ctx'.blk[j] = ctx.blk[j]
  <2>1. bytes <= ctx.blk[i].len /\ Takes(ctx, i, bytes, ctx') /\ ctx'.readOffset <= new
    BY <1>2, <1>3, <1>4
  <2> QED
    BY <1>1, <1>2, <2>1, TakenIsLaid
<1>6. ctx'.writeOffset = ctx.writeOffset /\ UNCHANGED <<tgt, tgtLen, srcLen, opSize, cancel>>
  BY <1>2 DEF Takes, Quiet, env, setup
<1>7. io'[i] = NoIo /\ \A j \in Blocks \ {i} : io'[j] = io[j]
  BY <1>1, <1>2 DEF Order, IInv, Types
<1>8. new <= MaxLen
  <2>1. /\ ctx.blk[i].off \in Nat /\ ctx.blk[i].len \in Nat \ {0} /\ ctx.readOffset \in Nat
        /\ fileSize \in Nat /\ ctx.readOffset <= fileSize
        /\ ~Testing(ctx, i) => EndOf(ctx, i) <= ctx.readOffset
    BY <1>1, <1>2, TakenBlock
  <2>2. fileSize \in 0..MaxLen /\ srcLen \in 0..MaxLen /\ MaxLen \in Nat
    BY CopyAssumption DEF Complete, InBounds
  <2>3. io[i].op = "read" /\ io[i].off = ctx.blk[i].off
    BY <1>1, <1>2 DEF Order, IInv, Going, Agrees, ScanAt
  <2>4. bytes = 0 \/ ctx.blk[i].off + bytes <= MaxLen
    BY <1>2, <1>3, <2>3 DEF Complete, InBounds, Finished
  <2>5. PICK end \in Nat : end = ReadEnd(ctx, i, bytes) /\ end = ctx.blk[i].off + bytes
    BY <2>1 DEF ReadEnd
  <2>6. bytes <= ctx.blk[i].len
    BY <1>2, <1>3
  <2>7. CASE ~Testing(ctx, i)
    <3>1. end <= fileSize
      BY <2>1, <2>5, <2>6, <2>7 DEF EndOf
    <3>2. new = end \/ new = fileSize
      BY <1>2, <1>3, <1>4, <2>5, <2>7
    <3> QED
      BY <2>2, <3>1, <3>2
  <2>8. CASE Testing(ctx, i) /\ bytes = 0
    <3>1. Short(ctx, i, bytes)
      BY <2>1, <2>8 DEF Short
    <3>2. new = fileSize
      BY <1>2, <1>3, <1>4, <2>8, <3>1
    <3> QED
      BY <2>2, <3>2
  <2>9. CASE Testing(ctx, i) /\ bytes # 0
    <3>1. end <= MaxLen
      BY <2>4, <2>5, <2>9
    <3>2. new = end \/ new = Max({srcLen, end})
      BY <1>2, <1>3, <1>4, <2>5, <2>9
    <3>3. Max({srcLen, end}) \in {srcLen, end}
      BY <2>2, MaxOfTwo
    <3> QED
      BY <2>2, <3>1, <3>2, <3>3
  <2> QED
    BY <2>7, <2>8, <2>9
<1>9. InBounds'
  BY <1>4, <1>6, <1>7, <1>8, CopyAssumption DEF Complete, InBounds, NoIo
<1>10. pc = "scan" /\ pc' \in {"scan", "finish"}
  BY <1>2 DEF ScanAt, ScanNext
<1>11. WrittenUpTo'
  <2>1. WrittenUpTo
    BY <1>10 DEF Complete
  <2>2. \A j \in Blocks : Awaited(j) => j # i /\ Awaited(j)' /\ ctx'.blk[j] = ctx.blk[j]
    BY <1>2, <1>5, <1>7 DEF Awaited
  <2> QED
    BY <1>6, <2>1, <2>2 DEF WrittenUpTo, IsThere, Covers
<1>12. result' # "ok"
  BY <1>10, NotReported
<1>13. WritesRecorded'
  BY <1>10, GoingRecords DEF Going, Ended
<1> QED
  BY <1>9, <1>10, <1>11, <1>12, <1>13 DEF Complete


\* a block is written, or a discarded read is over
LEMMA ScanKeepsComplete ==
    ASSUME Complete, Ended', WriteDone \/ DiscardedDone
    PROVE  Complete'
<1>1. PICK i \in Blocks :
          /\ ScanAt(i) /\ ctx' = FreeBlock(ctx, i) /\ ScanNext(ctx')
          /\ io' = [io EXCEPT ![i] = NoIo]
          /\ UNCHANGED <<tgt, tgtLen, fileSize, srcLen, opSize>>
          /\ \/ ctx.blk[i].st = "writing" /\ io[i].res = "ok" /\ io[i].st = "done"
             \/ ctx.blk[i].st = "discarded"
  BY DEF WriteDone, DiscardedDone, Finished, Quiet, env, setup
<1>2. /\ ctx'.writeOffset = ctx.writeOffset
      /\ \A j \in Blocks : ctx'.blk[j] = IF j = i THEN FreeBlk ELSE ctx.blk[j]
  <2>1. Laid(ctx, fileSize) /\ ctx.blk[i].st \in {"writing", "discarded"}
    BY <1>1 DEF Complete, Ended, Order
  <2> QED
    BY <1>1, <2>1, FreedIsLaid DEF SameCounts
<1>3. DOMAIN io = Blocks
  BY DEF Complete, Ended, Order, IInv, Types
<1>4. io'[i] = NoIo /\ \A j \in Blocks \ {i} : io'[j] = io[j]
  BY <1>1, <1>3
<1>5. InBounds'
  <2>1. \A j \in Blocks : io'[j] = NoIo \/ SameIo(io[j], io'[j])
    BY <1>4 DEF SameIo
  <2> QED
    BY <1>1, <2>1, IoBoundsStay DEF Complete, InBounds
<1>6. pc = "scan" /\ pc' \in {"scan", "finish"}
  BY <1>1 DEF ScanAt, ScanNext
<1>7. WrittenUpTo'
  <2>1. WrittenUpTo
    BY <1>6 DEF Complete
  <2>2. \A j \in Blocks : Awaited(j) => j # i /\ Awaited(j)' /\ ctx'.blk[j] = ctx.blk[j]
    BY <1>1, <1>2, <1>4 DEF Awaited
  <2> QED
    BY <1>1, <1>2, <2>1, <2>2 DEF WrittenUpTo, IsThere, Covers
<1>8. result' # "ok"
  BY <1>6, NotReported
<1>9. WritesRecorded'
  BY <1>6, GoingRecords DEF Going, Ended
<1> QED
  BY <1>5, <1>6, <1>7, <1>8, <1>9 DEF Complete

LEMMA ErrorsKeepComplete ==
    ASSUME Complete, Ended',
           \/ CancelledInLoop \/ CancelledInErr \/ SkippedInErr \/ AutoRetry \/ UserAnswers
    PROVE  Complete'
<1>1. ASSUME NEW how \in {"error", "skip"}, Abandon(how), Phase2 PROVE Complete'
  BY <1>1, AbandonKeepsComplete
     DEF CancelledInLoop, CancelledInErr, SkippedInErr, AutoRetry, UserAnswers, HandlingErr
<1>2. CASE CancelledInLoop \/ CancelledInErr \/ SkippedInErr
  BY <1>1, <1>2 DEF CancelledInLoop, CancelledInErr, SkippedInErr
<1>3. CASE AutoRetry
  <2>1. Context(CancelOpPhase2(ctx, io))
    BY TakenOver DEF Complete, Ended, Order, IInv, Types
  <2>2. SameLayout(CancelOpPhase2(ctx, io), ctx')
    BY <1>3, <2>1 DEF AutoRetry, Context, CtxFields, SameLayout
  <2>3. /\ AllFinished /\ TakeOver /\ UNCHANGED <<tgt, tgtLen, fileSize, opSize, srcLen>>
        /\ pc # "final" /\ pc' # "final"
    BY <1>3 DEF AutoRetry, Quiet, env, setup
  <2> QED
    BY <2>2, <2>3, RewindKeepsComplete
<1>4. CASE UserAnswers
  <2>1. CASE /\ pc' = (IF pc = "rderr" THEN "rdretry" ELSE "wrretry")
             /\ UNCHANGED <<scan, fileSize, limit, opDone, err, out, result, env, setup>>
             /\ Quiet
    <3>1. SameLayout(CancelOpPhase2(ctx, io), ctx')
      BY <1>4 DEF UserAnswers, Phase2, SameLayout, Ended, Order, IInv, Types
    <3>2. /\ AllFinished /\ TakeOver /\ UNCHANGED <<tgt, tgtLen, fileSize, opSize, srcLen>>
          /\ pc # "final" /\ pc' # "final"
      BY <1>4, <2>1 DEF UserAnswers, HandlingErr, Phase2, Quiet, env, setup
    <3> QED
      BY <3>1, <3>2, RewindKeepsComplete
  <2>2. CASE \E how \in {"error", "skip"} : Abandon(how) /\ Phase2
    BY <1>1, <2>2
  <2> QED
    BY <1>4, <2>1, <2>2 DEF UserAnswers
<1> QED
  BY <1>2, <1>3, <1>4

\* what the target has before WriteOffset, when no write is in progress
LEMMA AllIsThere ==
    ASSUME Complete, pc # "final", \A i \in Blocks : ctx.blk[i].st # "writing"
    PROVE  \A u \in 0..(ctx.writeOffset - 1) : IsThere(u) /\ u \in 0..MaxLen - 1
<1>1. WrittenUpTo /\ \A i \in Blocks : ~Awaited(i)
  BY DEF Complete, Awaited
<1> QED
  BY <1>1, OffsetsInBounds DEF WrittenUpTo

\* The target is cut behind what was written, or left alone.
LEMMA CutKeepsComplete ==
    ASSUME Complete, Ended', pc # "final", pc' # "final", NEW len \in Nat,
           \A i \in Blocks : ctx.blk[i].st # "writing", ctx.writeOffset <= len,
           tgtLen' = len, len <= tgtLen \/ len = ctx.writeOffset,
           tgt' = [u \in 0..MaxLen - 1 |-> IF u < len THEN tgt[u] ELSE Hole],
           ctx'.blk = ctx.blk, ctx'.writeOffset = ctx.writeOffset,
           io' = io, UNCHANGED <<fileSize, opSize, srcLen>>
    PROVE  Complete'
<1>1. InBounds'
  BY DEF Complete, InBounds
<1>2. ASSUME NEW u \in 0..(ctx.writeOffset - 1) PROVE IsThere(u)'
  <2>1. IsThere(u) /\ u \in 0..MaxLen - 1
    BY AllIsThere
  <2>2. u < len
    BY OffsetsInBounds
  <2> QED
    BY <2>1, <2>2 DEF IsThere
<1>3. WrittenUpTo' /\ WritesRecorded'
  BY <1>2 DEF WrittenUpTo, WritesRecorded, IsThere
<1> QED
  BY <1>1, <1>3, NotReported DEF Complete

\* the target is read again, or stays as it is
LEMMA CopyAgainKeepsComplete ==
    ASSUME Complete, Ended', NEW mode, NEW cut, CopyAgain(mode, cut), pc # "final",
           Settled \/ AfterLoop
    PROVE  Complete'
<1>1. CASE ReadAgain(mode)
  BY <1>1, ReadAgainKeepsComplete
<1>2. CASE /\ Ends("exists") /\ TargetStays(cut, ctx.writeOffset)
           /\ UNCHANGED <<ctx, io, skipAll>>
  <2>1. \A i \in Blocks : ctx.blk[i].st # "writing"
    BY NothingRuns DEF Complete, InProgress, InProgressStates
  <2>2. /\ ctx.writeOffset \in Nat
        /\ \A u \in 0..(ctx.writeOffset - 1) : tgt[u] = u /\ u \in 0..MaxLen - 1
    BY <2>1, AllIsThere, OffsetsInBounds DEF IsThere
  <2>3. ctx' = ctx /\ UNCHANGED io /\ \E c : TargetStays(c, ctx'.writeOffset)
    BY <1>2
  <2> QED
    BY <1>2, <2>1, <2>2, <2>3, EndsKeepsComplete
<1> QED
  BY <1>1, <1>2 DEF CopyAgain

LEMMA RetriesKeepComplete ==
    ASSUME Complete, Ended',
           \/ ReopenFails \/ RetryReading \/ RetryWriting \/ DeleteUntrusted
           \/ CloseErrAnswered
    PROVE  Complete'
<1>1. pc # "final" /\ (Settled \/ AfterLoop)
  BY DEF ReopenFails, RetryReading, RetryWriting, DeleteUntrusted, CloseErrAnswered, Settled,
         AfterLoop
<1>2. ASSUME Resume, pc \in {"rdretry", "wrretry"}
      PROVE  /\ ctx'.blk = ctx.blk /\ ctx'.writeOffset = ctx.writeOffset
             /\ UNCHANGED <<io, fileSize, opSize, srcLen>>
             /\ pc # "final" /\ pc' # "final"
             /\ \A i \in Blocks : ctx.blk[i].st # "writing"
  <2>1. ctx'.blk = ctx.blk /\ ctx'.writeOffset = ctx.writeOffset
    BY <1>2 DEF Resume, Complete, Ended, Order, IInv, Types, Context, CtxFields
  <2>2. pc' # "final"
    BY <1>2 DEF Resume, Complete, Ended
  <2>3. \A i \in Blocks : ctx.blk[i].st # "writing"
    BY <1>2 DEF Complete, Ended, Settled, InProgress, InProgressStates
  <2>4. UNCHANGED <<io, fileSize, opSize, srcLen>>
    BY <1>2 DEF Resume, env, setup
  <2> QED
    BY <1>2, <2>1, <2>2, <2>3, <2>4
<1>3. CASE RetryReading
  <2>1. ASSUME Resume, UNCHANGED <<tgt, tgtLen>>, pc = "rdretry" PROVE Complete'
    <3>1. \A i \in Blocks : SameIo(io[i], io'[i])
      BY <1>2, <2>1 DEF SameIo
    <3>2. srcLen' \in 0..MaxLen
      BY <1>2, <2>1 DEF Complete, InBounds
    <3> QED
      BY <1>2, <2>1, <3>1, <3>2, StillComplete
  <2> QED
    BY <1>1, <1>3, <2>1, CopyAgainKeepsComplete DEF RetryReading
<1>4. CASE RetryWriting
  <2> DEFINE Length(cut) == IF cut THEN ctx.writeOffset ELSE tgtLen
             Content(len) == [u \in 0..MaxLen - 1 |-> IF u < len THEN tgt[u] ELSE Hole]
  <2>1. PICK cut \in BOOLEAN :
          \/ /\ Length(cut) >= ctx.writeOffset /\ Resume
             /\ tgt' = Content(Length(cut)) /\ tgtLen' = Length(cut)
          \/ CopyAgain(allocMode, cut)
    BY <1>4 DEF RetryWriting
  <2>2. PICK len : len = Length(cut) /\ len \in {ctx.writeOffset, tgtLen}
    OBVIOUS
  <2>3. CASE len >= ctx.writeOffset /\ Resume /\ tgt' = Content(len) /\ tgtLen' = len
    <3>1. len \in Nat /\ ctx.writeOffset <= len /\ (len <= tgtLen \/ len = ctx.writeOffset)
      BY <2>2, <2>3, OffsetsInBounds DEF Complete, InBounds
    <3>2. pc = "wrretry"
      BY <1>4 DEF RetryWriting
    <3>3. /\ tgtLen' = len
          /\ tgt' = [u \in 0..MaxLen - 1 |-> IF u < len THEN tgt[u] ELSE Hole]
      BY <2>3
    <3> QED
      BY <1>2, <2>3, <3>1, <3>2, <3>3, CutKeepsComplete
  <2> QED
    BY <1>1, <2>1, <2>2, <2>3, CopyAgainKeepsComplete
<1>5. CASE DeleteUntrusted
  BY <1>5, ReadAgainKeepsComplete DEF DeleteUntrusted
<1>6. \A i \in Blocks : ctx.blk[i].st # "writing"
  BY <1>1, NothingRuns DEF Complete, InProgress, InProgressStates
<1>7. /\ ctx.writeOffset \in Nat /\ tgtLen \in Nat
      /\ \A u \in 0..(ctx.writeOffset - 1) : IsThere(u) /\ u \in 0..MaxLen - 1
  BY <1>1, <1>6, AllIsThere, OffsetsInBounds DEF Complete, InBounds
<1>8. CASE CloseErrAnswered
  <2>1. ASSUME NEW how \in {"error", "skip"}, Abandon(how), UNCHANGED <<ctx, io>>
        PROVE  Complete'
    <3>1. \A u \in 0..(ctx.writeOffset - 1) : tgt[u] = u /\ u \in 0..MaxLen - 1
      BY <1>7 DEF IsThere
    <3>2. /\ ctx' = ctx /\ UNCHANGED io /\ Ends(how) /\ how # "ok"
          /\ tgtLen' = 0 \/ \E cut : TargetStays(cut, ctx'.writeOffset)
      BY <2>1 DEF Abandon
    <3> QED
      BY <1>6, <1>7, <3>1, <3>2, EndsKeepsComplete
  <2> QED
    BY <1>1, <1>8, <2>1, CopyAgainKeepsComplete DEF CloseErrAnswered
<1>9. CASE ReopenFails
  <2>1. UNCHANGED <<ctx, io, fileSize, opSize, srcLen>> /\ pc' # "final"
    BY <1>9 DEF ReopenFails, env, setup
  <2>2. ASSUME tgtLen' \in Nat, \A u \in 0..(ctx.writeOffset - 1) : IsThere(u)'
        PROVE  Complete'
    <3>1. InBounds'
      BY <2>1, <2>2 DEF Complete, InBounds
    <3>2. WrittenUpTo' /\ WritesRecorded'
      BY <2>1, <2>2 DEF Complete, WrittenUpTo, WritesRecorded, IsThere
    <3> QED
      BY <2>1, <3>1, <3>2, NotReported DEF Complete
  <2>3. CASE UNCHANGED <<tgt, tgtLen>>
    BY <1>7, <2>2, <2>3 DEF IsThere
  <2>4. ASSUME NEW cut \in BOOLEAN, TargetStays(cut, ctx.writeOffset) PROVE Complete'
    <3>1. tgtLen' \in Nat /\ \A u \in 0..(ctx.writeOffset - 1) : tgt'[u] = u
      BY <1>7, <2>4, StayedInOrder DEF IsThere
    <3>2. ASSUME NEW u \in 0..(ctx.writeOffset - 1) PROVE u < tgtLen'
      BY <1>7, <2>4 DEF TargetStays, IsThere
    <3> QED
      BY <2>2, <3>1, <3>2 DEF IsThere
  <2> QED
    BY <1>9, <2>3, <2>4 DEF ReopenFails
<1> QED
  BY <1>3, <1>4, <1>5, <1>8, <1>9

\* behind the loop every block is free, and all units before WriteOffset are there
LEMMA LoopIsOver ==
    ASSUME Complete, AfterLoop
    PROVE  /\ \A i \in Blocks : ctx.blk[i].st = "free"
           /\ Cardinality(InFlight(ctx)) = 0
<1>1. \A i \in Blocks : ctx.blk[i].st = "free"
  BY AllAreFree DEF Complete, Ended, Order, Laid
<1> QED
  BY <1>1, NoneInFlight

LEMMA TrimKeepsComplete ==
    ASSUME Complete, Ended', Trim
    PROVE  Complete'
<1>1. pc = "trim" /\ pc' = "test" /\ UNCHANGED <<ctx, io, fileSize, opSize, srcLen>>
  BY DEF Trim, env, setup
<1>2. AfterLoop
  BY <1>1 DEF AfterLoop
<1>3. CASE wholeAlloc /\ opDone < opSize
  <2>1. \A i \in Blocks : ctx.blk[i].st # "writing"
    BY <1>2, LoopIsOver
  <2>2. PICK len \in Nat : len = ctx.writeOffset
    BY OffsetsInBounds
  <2>3. /\ tgtLen' = len
        /\ tgt' = [u \in 0..MaxLen - 1 |-> IF u < len THEN tgt[u] ELSE Hole]
    BY <1>3, <2>2 DEF Trim
  <2>4. ctx.writeOffset <= len /\ ctx'.writeOffset = ctx.writeOffset
    BY <1>1, <2>2
  <2> QED
    BY <1>1, <1>2, <2>1, <2>2, <2>3, <2>4, CutKeepsComplete
<1>4. CASE ~(wholeAlloc /\ opDone < opSize)
  <2>1. UNCHANGED <<tgt, tgtLen>>
    BY <1>4 DEF Trim
  <2>2. \A i \in Blocks : SameIo(io[i], io'[i])
    BY <1>1 DEF SameIo
  <2>3. srcLen' \in 0..MaxLen
    BY <1>1 DEF Complete, InBounds
  <2> QED
    BY <1>1, <1>2, <2>1, <2>2, <2>3, StillComplete
<1> QED
  BY <1>3, <1>4

LEMMA CloseKeepsComplete ==
    ASSUME Complete, Ended', Close
    PROVE  Complete'
<1>1. /\ pc = "close" /\ pc' = "final"
      /\ UNCHANGED <<ctx, io, tgt, tgtLen, fileSize, opSize, srcLen, opDone>>
  BY DEF Close, Quiet, env, setup
<1>2. AfterLoop
  BY <1>1 DEF AfterLoop
<1>3. \A i \in Blocks : ctx.blk[i].st # "writing"
  BY <1>2, LoopIsOver
<1>4. \A u \in 0..(ctx.writeOffset - 1) : IsThere(u)
  BY <1>1, <1>2, <1>3, AllIsThere
<1>5. opDone = ctx.writeOffset /\ ctx.writeOffset \in Nat
  <2>1. opDone + Cardinality(InFlight(ctx)) = ctx.writeOffset /\ opDone \in Int
    BY <1>1 DEF Complete, Ended, Counting
  <2> QED
    BY <1>2, <2>1, LoopIsOver, OffsetsInBounds
<1>6. tgtLen >= opDone
  <2>1. tgtLen \in Nat
    BY DEF Complete, InBounds
  <2>2. CASE ctx.writeOffset = 0
    BY <1>5, <2>1, <2>2
  <2>3. CASE ctx.writeOffset # 0
    <3>1. IsThere(ctx.writeOffset - 1)
      BY <1>4, <1>5, <2>3
    <3> QED
      BY <1>5, <2>1, <3>1 DEF IsThere
  <2> QED
    BY <2>2, <2>3
<1>7. InBounds'
  BY <1>1 DEF Complete, InBounds
<1>8. LeftInOrder' /\ WritesRecorded'
  BY <1>1, <1>3, <1>4 DEF LeftInOrder, WritesRecorded, IsThere
<1> QED
  BY <1>1, <1>4, <1>5, <1>6, <1>7, <1>8 DEF Complete, IsThere

LEMMA InitEstablishesComplete == Init => Complete
<1> SUFFICES ASSUME Init PROVE Complete
  OBVIOUS
<1>1. /\ opSize \in Sizes /\ srcLen = opSize /\ fileSize = opSize /\ tgtLen \in {0, opSize}
      /\ io = [i \in Blocks |-> NoIo] /\ ctx.writeOffset = 0 /\ result = "none"
  BY DEF Init, NewCtx
<1>2. InBounds
  BY <1>1, CopyAssumption DEF InBounds, NoIo
<1>3. WrittenUpTo /\ pc # "final"
  BY <1>1 DEF WrittenUpTo, Init
<1>4. WritesRecorded
  BY DEF WritesRecorded, Init, NewCtx, FreeBlk
<1> QED
  BY <1>1, <1>2, <1>3, <1>4, InitEstablishesEnd DEF Complete

LEMMA NextKeepsComplete == Complete /\ [Next]_vars => Complete'
<1> SUFFICES ASSUME Complete, [Next]_vars PROVE Complete'
  OBVIOUS
<1>1. Ended'
  BY NextKeepsEnd DEF Complete
<1>2. CASE Worker
  BY <1>1, <1>2, StartReadingKeepsComplete, StartWritingKeepsComplete, ReadDoneKeepsComplete,
     ScanKeepsComplete, ErrorsKeepComplete, OthersKeepComplete, RetriesKeepComplete,
     TrimKeepsComplete, CloseKeepsComplete DEF Worker
<1>3. CASE (\E i \in Blocks : IoCompletes(i)) \/ ResizeSource \/ UserCancels
  BY <1>1, <1>3, OthersKeepComplete, IoCompletesKeepsComplete
<1>4. CASE Terminated \/ UNCHANGED vars
  <2>1. UNCHANGED <<ctx, io, opDone, result, pc, cancel, tgt, tgtLen, srcLen, fileSize, opSize>>
    BY <1>4 DEF Terminated, vars
  <2>2. InBounds' /\ (WrittenUpTo' <=> WrittenUpTo) /\ (LeftInOrder' <=> LeftInOrder)
        /\ WritesRecorded'
    BY <2>1 DEF Complete, InBounds, WrittenUpTo, LeftInOrder, WritesRecorded, IsThere,
                Awaited, Covers
  <2> QED
    BY <1>1, <2>1, <2>2 DEF Complete
<1> QED
  BY <1>2, <1>3, <1>4 DEF Next

LEMMA CompleteIsKept == Spec => []Complete
  BY InitEstablishesComplete, NextKeepsComplete, PTL DEF Spec

(* However the copy of a file ends, by success, an error, an answer or Cancel,  *)
(* no operation uses its buffers any more, unless it was cancelled, and a       *)
(* target that stays, by intention or because it could not be deleted, has in   *)
(* its place every unit DoCopyFile counts as written.                           *)
THEOREM EndIsInOrder == Spec => []EndIsOrderly
<1>1. ASSUME Complete, result # "none" PROVE EndIsOrderly
  <2>1. pc = "final"
    BY <1>1 DEF Complete, Ended, Results
  <2>2. tgtLen > 0 => \A u \in 0..ctx.writeOffset - 1 : tgt[u] = u
    <3>1. LeftInOrder
      BY <1>1, <2>1 DEF Complete
    <3> QED
      BY <3>1 DEF LeftInOrder
  <2>3. ASSUME ~cancel, NEW i \in Blocks PROVE io[i].st = "idle"
    <3>1. ~InProgress(ctx, i)
      BY <1>1, <2>1 DEF Complete, Ended, Settled
    <3>2. Agrees(i)
      BY <1>1, <2>3 DEF Complete, Ended, Order, IInv, Going
    <3> QED
      BY <3>1, <3>2 DEF Agrees
  <2> QED
    BY <2>2, <2>3 DEF EndIsOrderly
<1>2. Complete => EndIsOrderly
  BY <1>1 DEF EndIsOrderly
<1> QED
  BY <1>2, CompleteIsKept, PTL

-----------------------------------------------------------------------------
(* The whole source, when the target makes no errors                       *)

Looping == pc \in {"top", "scan", "wait"}
GoesAhead == Going /\ pc # "final"

\* the source has its first size, and a finished read returned what it has
Unresized ==
    resizes = 0 =>
        /\ srcLen = opSize /\ fileSize = opSize
        /\ \A i \in Blocks :
              io[i].op = "read" /\ io[i].st = "done" /\ io[i].res \in {"ok", "eof"} =>
                 io[i].bytes = Available(io[i].off, io[i].len)

\* in the loop nothing was asked to end, and no write failed
Undisturbed ==
    /\ Looping => \A i \in Blocks : io[i].st # "idle" =>
          ~io[i].abort /\ (io[i].op = "write" /\ io[i].st = "done" => io[i].res = "ok")
    /\ pc # "wrretry" /\ (pc = "wrerr" => cancel)

\* once the end of the source was found nothing is read, nor read again
EndIsReached ==
    /\ GoesAhead /\ ctx.readingDone =>
          Reading(ctx) = {} /\ pc \notin {"rderr", "rdretry"} /\ ctx.readOffset = fileSize
    /\ AfterLoop => ctx.readingDone

\* writes stay inside the source
NotTooLong ==
    /\ GoesAhead => \A i \in Blocks :
          io[i].op = "write" /\ io[i].st # "idle" => ctx.blk[i].st = "writing"
    /\ GoesAhead /\ resizes = 0 => tgtLen <= opSize

Whole ==
    /\ Complete /\ resizes \in Nat /\ \A i \in Blocks : io[i].res \in Outcomes
    /\ Unresized /\ Undisturbed /\ EndIsReached /\ NotTooLong
    /\ result = "ok" /\ resizes = 0 => opDone = opSize /\ tgtLen = opSize

\* a read inside the source is full, one at its end returns nothing
LEMMA AvailableInside ==
    ASSUME srcLen \in Nat, NEW off \in Nat, NEW len \in Nat
    PROVE  /\ off + len <= srcLen => Available(off, len) = len
           /\ srcLen <= off => Available(off, len) = 0
<1>1. PICK gap \in Int : gap = srcLen - off
  OBVIOUS
<1>2. PICK left : left = Max({0, gap})
  OBVIOUS
<1>3. \E x \in {0, gap} : \A y \in {0, gap} : x >= y
  <2>1. CASE gap >= 0
    BY <2>1
  <2>2. CASE ~(gap >= 0)
    BY <2>2
  <2> QED
    BY <2>1, <2>2
<1>4. \A y \in {0, gap} : left \in {0, gap} /\ left >= y
  BY <1>2, <1>3 DEF Max
<1>5. left \in Nat /\ left >= gap /\ (left = 0 \/ left = gap)
  BY <1>4
<1>6. Min({len, left}) \in {len, left} /\ Min({len, left}) <= len /\ Min({len, left}) <= left
  BY <1>5, MinOfTwo
<1>7. Available(off, len) = Min({len, left})
  BY <1>1, <1>2 DEF Available
<1> QED
  BY <1>1, <1>5, <1>6, <1>7

\* Nothing happens to the blocks, the target and the size of the source.
LEMMA MoveKeepsWhole ==
    ASSUME Whole, Complete', UNCHANGED <<ctx, fileSize, opSize, tgtLen>>,
           (resizes' = resizes /\ srcLen' = srcLen) \/ resizes' \in Nat \ {0},
           \A i \in Blocks : SameIo(io[i], io'[i]),
           Looping' => Looping /\ io' = io,
           Going' => Going, pc # "final", pc' # "final",
           pc' # "wrretry", pc' = "wrerr" => cancel',
           GoesAhead' /\ pc' \in {"rderr", "rdretry"} => ~ctx.readingDone,
           AfterLoop' => AfterLoop
    PROVE  Whole'
<1>1. resizes' \in Nat /\ (resizes' = 0 => resizes = 0 /\ srcLen' = srcLen)
  BY DEF Whole
<1>2. Unresized'
  BY <1>1 DEF Whole, Unresized, Available, SameIo
<1>3. Undisturbed'
  BY DEF Whole, Undisturbed
<1>4. EndIsReached'
  BY DEF Whole, EndIsReached, GoesAhead, Reading
<1>5. NotTooLong'
  BY <1>1 DEF Whole, NotTooLong, GoesAhead, SameIo
<1>6. result' # "ok"
  BY NotReported DEF Complete
<1>7. \A i \in Blocks : io'[i].res \in Outcomes
  BY DEF Whole, SameIo
<1> QED
  BY <1>1, <1>2, <1>3, <1>4, <1>5, <1>6, <1>7 DEF Whole

\* where the worker is while it scans or starts operations
LEMMA InTheLoop ==
    ASSUME Whole, Looping
    PROVE  /\ Going /\ GoesAhead /\ ~AfterLoop /\ pc # "final"
           /\ \A i \in Blocks : Agrees(i) /\ Matches(i)
           /\ ctx.readingDone => Reading(ctx) = {}
<1>1. Going /\ GoesAhead /\ ~AfterLoop /\ pc # "final"
  BY DEF Looping, Going, GoesAhead, AfterLoop
<1> QED
  BY <1>1 DEF Whole, Complete, Ended, Order, IInv, EndIsReached

\* Steps that start nothing and take nothing over.
LEMMA OthersKeepWhole ==
    ASSUME ~WriteErrors, Whole, Complete',
           \/ ReadFileFails \/ BeginScan \/ ScanSkips \/ ReadFailed \/ WriteFailed
           \/ WriteDoneCancelled \/ WriteFileFails \/ EndOfWriting \/ WaitForOldest
           \/ ReopenFails \/ Finish \/ TrimFails \/ TestAllocation \/ DeleteFails
           \/ CloseFails \/ ResizeSource \/ UserCancels
    PROVE  Whole'
<1>1. ~MayFail("write")
  BY DEF MayFail
<1>2. /\ UNCHANGED <<ctx, fileSize, opSize, tgtLen>>
      /\ (resizes' = resizes /\ srcLen' = srcLen) \/ resizes' = resizes + 1
      /\ io' = io \/ io' = CancelIo(io)
      /\ Looping' => Looping /\ io' = io
      /\ Going' => Going
      /\ pc # "final" /\ pc' # "final"
      /\ pc' # "wrretry" /\ (pc' = "wrerr" => cancel')
      /\ GoesAhead' /\ pc' \in {"rderr", "rdretry"} => ~ctx.readingDone
      /\ AfterLoop' => AfterLoop
  <2>1. CASE ReadFileFails
    BY <2>1 DEF ReadFileFails, CanStartReading, EnterError, env, setup, Going, Looping, AfterLoop
  <2>2. CASE ReadFailed
    <3>1. PICK i \in Blocks :
             /\ pc = "scan" /\ ctx.blk[i].st \in {"reading", "testing"}
             /\ EnterError(io[i].res, "loop", 0, io)
             /\ UNCHANGED <<ctx, tgtLen, fileSize, env, setup>>
      BY <2>2 DEF ReadFailed, ScanAt, Quiet
    <3>2. ~ctx.readingDone
      BY <3>1, InTheLoop DEF Looping, Reading
    <3>3. io[i].res # "write"
      BY DEF Whole, Outcomes
    <3>4. pc' = "rderr" /\ err'.at = "loop" /\ io' = CancelIo(io)
      BY <3>1, <3>3 DEF EnterError
    <3> QED
      BY <3>1, <3>2, <3>4 DEF env, setup, Going, Looping, AfterLoop
  <2>3. CASE WriteFailed
    <3>1. PICK i \in Blocks :
             pc = "scan" /\ ctx.blk[i].st = "writing" /\ Finished(i) /\ io[i].res # "ok"
      BY <2>3 DEF WriteFailed, ScanAt
    <3>2. io[i].op = "write" /\ io[i].st = "done"
      BY <3>1, InTheLoop DEF Looping, Agrees, Finished
    <3> QED
      BY <3>1, <3>2 DEF Whole, Undisturbed, Looping
  <2>4. CASE WriteDoneCancelled
    BY <2>4 DEF WriteDoneCancelled, ScanAt, Quiet, env, setup, Going, Looping, AfterLoop
  <2>5. CASE WriteFileFails \/ TrimFails \/ DeleteFails \/ CloseFails
    BY <1>1, <2>5 DEF WriteFileFails, TrimFails, DeleteFails, CloseFails
  <2>6. CASE BeginScan \/ ScanSkips \/ EndOfWriting
    BY <2>6 DEF BeginScan, ScanSkips, ScanAt, EndOfWriting, EndOfScan, Quiet,
                env, setup, Going, Looping, AfterLoop
  <2>7. CASE WaitForOldest
    BY <2>7 DEF WaitForOldest, Quiet, env, setup, Going, Looping, AfterLoop
  <2>8. CASE ReopenFails
    <3>1. pc = "rdretry" /\ pc' = "rderr" /\ UNCHANGED <<ctx, io, tgtLen, fileSize, env, setup>>
          /\ err' = [err EXCEPT !.kind = "other"]
      BY <1>1, <2>8 DEF ReopenFails, Whole, Undisturbed
    <3>2. err'.at = err.at
      BY <3>1 DEF Whole, Complete, Ended
    <3>3. Going /\ ~ctx.readingDone
      BY <3>1 DEF Whole, EndIsReached, GoesAhead, Going
    <3> QED
      BY <3>1, <3>2, <3>3 DEF env, setup, Going, Looping, AfterLoop
  <2>9. CASE Finish
    BY <2>9 DEF Finish, Quiet, env, setup, Going, Looping, AfterLoop
  <2>10. CASE TestAllocation
    BY <2>10 DEF TestAllocation, env, Going, Looping, AfterLoop
  <2>11. CASE ResizeSource
    BY <2>11 DEF ResizeSource, setup, Going, Looping, AfterLoop, Whole, Undisturbed,
                 EndIsReached, GoesAhead
  <2>12. CASE UserCancels
    BY <2>12 DEF UserCancels, setup, Going, Looping, AfterLoop, Whole, Undisturbed,
                 EndIsReached, GoesAhead
  <2> QED
    BY <2>1, <2>2, <2>3, <2>4, <2>5, <2>6, <2>7, <2>8, <2>9, <2>10, <2>11, <2>12
<1>3. \A i \in Blocks : SameIo(io[i], io'[i])
  BY <1>2, AskedIsSame DEF Whole, Complete, Ended
<1>4. (resizes' = resizes /\ srcLen' = srcLen) \/ resizes' \in Nat \ {0}
  BY <1>2 DEF Whole
<1> QED
  BY <1>2, <1>3, <1>4, MoveKeepsWhole

\* Every operation is over, and what is left of the data is read again or was read.
LEMMA RestartKeepsWhole ==
    ASSUME Whole, Complete', UNCHANGED <<resizes, srcLen, opSize>>,
           fileSize' = fileSize \/ fileSize' = opSize,
           \A i \in Blocks : io'[i].st = "idle" /\ io'[i].res \in Outcomes,
           ctx'.readingDone =>
              /\ ctx.readingDone /\ Reading(ctx') = {} /\ pc' \notin {"rderr", "rdretry"}
              /\ ctx'.readOffset = fileSize',
           AfterLoop' => ctx'.readingDone,
           resizes = 0 => tgtLen' <= opSize,
           pc' # "final", pc' \notin {"wrerr", "wrretry"}
    PROVE  Whole'
<1>1. Unresized'
  BY DEF Whole, Unresized
<1>2. Undisturbed'
  BY DEF Undisturbed
<1>3. EndIsReached'
  BY DEF Whole, EndIsReached
<1>4. NotTooLong'
  BY DEF NotTooLong
<1>5. result' # "ok"
  BY NotReported DEF Complete
<1> QED
  BY <1>1, <1>2, <1>3, <1>4, <1>5 DEF Whole

LEMMA ReadAgainKeepsWhole ==
    ASSUME Whole, Complete', NEW mode, ReadAgain(mode)
    PROVE  Whole'
<1>1. /\ pc' = "top" /\ ctx' = NewCtx /\ UNCHANGED <<opSize, srcLen, resizes>>
      /\ fileSize' = opSize /\ err' = NoErr
      /\ tgtLen' \in {0, opSize} /\ io' = [i \in Blocks |-> NoIo]
  BY DEF ReadAgain, FreshCopy, env
<1>2. ~ctx'.readingDone
  BY <1>1 DEF NewCtx
<1>3. \A i \in Blocks : io'[i].st = "idle" /\ io'[i].res \in Outcomes
  BY <1>1 DEF NoIo, Outcomes
<1>4. tgtLen' <= opSize
  BY <1>1 DEF Whole, Complete, Ended, Order
<1>5. ~AfterLoop'
  BY <1>1 DEF AfterLoop
<1> QED
  BY <1>1, <1>2, <1>3, <1>4, <1>5, RestartKeepsWhole

\* the copy is given up
LEMMA AbandonKeepsWhole ==
    ASSUME Whole, Complete', NEW how \in {"error", "skip"}, Abandon(how),
           TakeOver \/ UNCHANGED io
    PROVE  Whole'
<1>1. /\ pc' = "final" /\ result' = how /\ err' = NoErr
      /\ UNCHANGED <<fileSize, opSize, srcLen, resizes>>
  BY DEF Abandon, Ends, env
<1>2. \A i \in Blocks : io'[i] = NoIo \/ io'[i] = io[i]
  BY DEF TakeOver
<1>3. Unresized'
  BY <1>1, <1>2 DEF Whole, Unresized, NoIo, Available
<1>4. Undisturbed' /\ EndIsReached' /\ NotTooLong'
  BY <1>1 DEF Undisturbed, EndIsReached, NotTooLong, Looping, GoesAhead, AfterLoop
<1>5. \A i \in Blocks : io'[i].res \in Outcomes
  BY <1>2 DEF Whole, NoIo, Outcomes
<1> QED
  BY <1>1, <1>3, <1>4, <1>5 DEF Whole

\* a retry: the operations are over, and not all of the source was read
LEMMA RewindKeepsWhole ==
    ASSUME Whole, Complete', AllFinished, TakeOver,
           ctx'.readingDone = CancelOpPhase2(ctx, io).readingDone,
           UNCHANGED <<tgtLen, fileSize, opSize, srcLen, resizes, err>>, ~cancel,
           pc = "rderr", pc' = "rdretry"
    PROVE  Whole'
<1>1. Going /\ GoesAhead
  BY DEF Going, GoesAhead
<1>2. ~ctx.readingDone /\ ~AfterLoop
  BY <1>1 DEF Whole, EndIsReached
<1>3. ctx'.readingDone = ctx.readingDone
  <2>1. PICK d : d = CancelOpPhase2(ctx, io)
    OBVIOUS
  <2>2. Context(ctx) /\ Counted(ctx) /\ Tiled(ctx, fileSize)
    BY DEF Whole, Complete, Ended, Order, Laid
  <2>3. d.readingDone = ctx.readingDone
    BY <2>1, <2>2, Rewound
  <2> QED
    BY <2>1, <2>3
<1>4. \A i \in Blocks : io'[i].st = "idle" /\ io'[i].res \in Outcomes
  <2>1. \A i \in Blocks : InProgress(ctx, i) \/ io[i].st = "idle"
    BY <1>1 DEF Whole, Complete, Ended, Order, IInv, Agrees
  <2>2. \A i \in Blocks : io'[i] = NoIo \/ (io'[i] = io[i] /\ io[i].st = "idle")
    BY <2>1 DEF TakeOver, AllFinished
  <2> QED
    BY <2>2 DEF Whole, NoIo, Outcomes
<1>5. ~AfterLoop'
  BY <1>2 DEF AfterLoop
<1>6. resizes = 0 => tgtLen' <= opSize
  BY <1>1 DEF Whole, NotTooLong
<1> QED
  BY <1>2, <1>3, <1>4, <1>5, <1>6, RestartKeepsWhole

LEMMA ErrorsKeepWhole ==
    ASSUME Whole, Complete',
           \/ CancelledInLoop \/ CancelledInErr \/ SkippedInErr \/ AutoRetry \/ UserAnswers
    PROVE  Whole'
<1>1. ASSUME NEW how \in {"error", "skip"}, Abandon(how), Phase2 PROVE Whole'
  BY <1>1, AbandonKeepsWhole DEF Phase2
<1>2. CASE CancelledInLoop \/ CancelledInErr \/ SkippedInErr
  BY <1>1, <1>2 DEF CancelledInLoop, CancelledInErr, SkippedInErr
<1>3. CASE AutoRetry
  <2>1. Context(CancelOpPhase2(ctx, io))
    BY TakenOver DEF Whole, Complete, Ended, Order, IInv, Types
  <2>2. ctx'.readingDone = CancelOpPhase2(ctx, io).readingDone
    BY <1>3, <2>1 DEF AutoRetry, Context, CtxFields
  <2>3. /\ AllFinished /\ TakeOver /\ ~cancel /\ pc = "rderr" /\ pc' = "rdretry"
        /\ UNCHANGED <<tgtLen, fileSize, opSize, srcLen, resizes, err>>
    BY <1>3 DEF AutoRetry, Quiet, env, setup
  <2> QED
    BY <2>2, <2>3, RewindKeepsWhole
<1>4. CASE UserAnswers
  <2>1. CASE /\ pc' = (IF pc = "rderr" THEN "rdretry" ELSE "wrretry")
             /\ UNCHANGED <<scan, fileSize, limit, opDone, err, out, result, env, setup>>
             /\ Quiet
    <3>1. pc = "rderr" /\ pc' = "rdretry" /\ ~cancel
      BY <1>4, <2>1 DEF UserAnswers, HandlingErr, Whole, Undisturbed
    <3>2. ctx'.readingDone = CancelOpPhase2(ctx, io).readingDone
      BY <1>4 DEF UserAnswers, Phase2
    <3>3. /\ AllFinished /\ TakeOver
          /\ UNCHANGED <<tgtLen, fileSize, opSize, srcLen, resizes, err>>
      BY <1>4, <2>1 DEF UserAnswers, Phase2, Quiet, env, setup
    <3> QED
      BY <3>1, <3>2, <3>3, RewindKeepsWhole
  <2>2. CASE \E how \in {"error", "skip"} : Abandon(how) /\ Phase2
    BY <1>1, <2>2
  <2> QED
    BY <1>4, <2>1, <2>2 DEF UserAnswers
<1> QED
  BY <1>2, <1>3, <1>4

LEMMA RetriesKeepWhole ==
    ASSUME ~WriteErrors, Whole, Complete',
           RetryReading \/ RetryWriting \/ DeleteUntrusted \/ CloseErrAnswered
    PROVE  Whole'
<1>1. ASSUME NEW mode, NEW cut, CopyAgain(mode, cut) \/ ReadAgain(mode) PROVE Whole'
  BY <1>1, ReadAgainKeepsWhole DEF CopyAgain
<1>2. CASE RetryReading
  <2>1. ASSUME Resume, UNCHANGED <<tgt, tgtLen>> PROVE Whole'
    <3>1. pc = "rdretry" /\ Going /\ GoesAhead
      BY <1>2 DEF RetryReading, Going, GoesAhead
    <3>2. ~ctx.readingDone /\ ~AfterLoop
      BY <3>1 DEF Whole, EndIsReached
    <3>3. err.at = "loop"
      BY <3>1, <3>2 DEF AfterLoop, Whole, Complete, Ended
    <3>4. /\ pc' = "top" /\ err' = NoErr /\ ctx'.readingDone = ctx.readingDone
          /\ UNCHANGED <<io, fileSize, opSize, srcLen, resizes>>
      BY <2>1, <3>3
         DEF Resume, Whole, Complete, Ended, Order, IInv, Types, Context, CtxFields, env, setup
    <3>5. \A i \in Blocks : ~InProgress(ctx, i)
      BY <3>1 DEF Whole, Complete, Ended, Settled
    <3>6. \A i \in Blocks : io'[i].st = "idle" /\ io'[i].res \in Outcomes
      BY <3>1, <3>4, <3>5 DEF Whole, Complete, Ended, Order, IInv, Agrees
    <3>7. ~AfterLoop'
      BY <3>4 DEF AfterLoop
    <3>8. resizes = 0 => tgtLen' <= opSize
      BY <2>1, <3>1 DEF Whole, NotTooLong
    <3> QED
      BY <3>2, <3>4, <3>6, <3>7, <3>8, RestartKeepsWhole
  <2> QED
    BY <1>1, <1>2, <2>1 DEF RetryReading
<1>3. CASE RetryWriting
  BY <1>3 DEF RetryWriting, Whole, Undisturbed
<1>4. CASE DeleteUntrusted
  BY <1>1, <1>4 DEF DeleteUntrusted
<1>5. CASE CloseErrAnswered
  <2>1. ASSUME NEW how \in {"error", "skip"}, Abandon(how), UNCHANGED io PROVE Whole'
    BY <2>1, AbandonKeepsWhole
  <2> QED
    BY <1>1, <1>5, <2>1 DEF CloseErrAnswered
<1> QED
  BY <1>2, <1>3, <1>4, <1>5

\* the end of the loop: everything was read and written
LEMMA AllWasCopied ==
    ASSUME Whole, AfterLoop, Going, pc # "final"
    PROVE  /\ ctx.readingDone /\ ctx.readOffset = fileSize /\ ctx.writeOffset = fileSize
           /\ Reading(ctx) = {} /\ \A i \in Blocks : io[i].st = "idle"
           /\ resizes = 0 => fileSize = opSize /\ tgtLen <= opSize
<1>1. ctx.readingDone /\ Reading(ctx) = {} /\ ctx.readOffset = fileSize
  BY DEF Whole, EndIsReached, GoesAhead
<1>2. \A i \in Blocks : ctx.blk[i].st = "free"
  BY LoopIsOver DEF Whole
<1>3. \A i \in Blocks : io[i].st = "idle"
  BY <1>2 DEF Whole, Complete, Ended, Order, IInv, Agrees, InProgress, InProgressStates
<1>4. ctx.writeOffset = ctx.readOffset
  <2>1. Tiled(ctx, fileSize) /\ Ahead(ctx) = {}
    BY <1>2 DEF Whole, Complete, Ended, Order, Laid, Ahead
  <2>2. /\ ctx.writeOffset \in Nat /\ ctx.readOffset \in Nat
        /\ ctx.writeOffset <= ctx.readOffset
        /\ \A u \in ctx.writeOffset..(ctx.readOffset - 1) : FALSE
    BY <2>1 DEF Tiled
  <2> QED
    BY <2>2
<1>5. resizes = 0 => fileSize = opSize /\ tgtLen <= opSize
  BY DEF Whole, Unresized, NotTooLong, GoesAhead
<1> QED
  BY <1>1, <1>3, <1>4, <1>5

LEMMA EndKeepsWhole ==
    ASSUME Whole, Complete', Trim \/ Close
    PROVE  Whole'
<1>1. pc \in {"trim", "close"} /\ UNCHANGED <<ctx, io, fileSize, opSize, srcLen, resizes>>
  BY DEF Trim, Close, Quiet, env, setup
<1>2. AfterLoop /\ Going /\ pc # "final"
  BY <1>1 DEF AfterLoop, Going
<1>3. /\ ctx.readingDone /\ ctx.readOffset = fileSize /\ ctx.writeOffset = fileSize
      /\ Reading(ctx) = {} /\ \A i \in Blocks : io[i].st = "idle"
      /\ resizes = 0 => fileSize = opSize /\ tgtLen <= opSize
  BY <1>2, AllWasCopied
<1>4. fileSize \in Nat /\ opSize \in Nat
  BY DEF Whole, Complete, Ended, Order
<1>5. CASE Trim
  <2>1. pc' = "test" /\ tgtLen' \in {tgtLen, ctx.writeOffset}
    BY <1>5 DEF Trim
  <2>2. resizes = 0 => tgtLen' <= opSize
    BY <1>3, <1>4, <2>1
  <2>3. Reading(ctx') = {} /\ \A i \in Blocks : io'[i].st = "idle" /\ io'[i].res \in Outcomes
    BY <1>1, <1>3 DEF Whole
  <2> QED
    BY <1>1, <1>3, <2>1, <2>2, <2>3, RestartKeepsWhole
<1>6. CASE Close
  <2>1. /\ pc = "close" /\ pc' = "final" /\ result' = "ok" /\ UNCHANGED <<err, opDone, tgtLen>>
    BY <1>6 DEF Close, Quiet
  <2>2. opDone = ctx.writeOffset
    <3>1. opDone + Cardinality(InFlight(ctx)) = ctx.writeOffset /\ opDone \in Int
      BY <2>1 DEF Whole, Complete, Ended, Counting
    <3>2. Cardinality(InFlight(ctx)) = 0
      BY <1>2, LoopIsOver DEF Whole
    <3> QED
      BY <3>1, <3>2
  <2>3. tgtLen >= opDone /\ tgtLen \in Nat
    BY <2>1 DEF Complete, InBounds
  <2>4. resizes = 0 => opDone = opSize /\ tgtLen = opSize
    BY <1>3, <1>4, <2>2, <2>3
  <2>5. Unresized'
    BY <1>1 DEF Whole, Unresized, Available
  <2>6. Undisturbed' /\ EndIsReached' /\ NotTooLong'
    BY <2>1 DEF Undisturbed, EndIsReached, NotTooLong, Looping, GoesAhead, AfterLoop
  <2> QED
    BY <1>1, <2>1, <2>4, <2>5, <2>6 DEF Whole
<1> QED
  BY <1>5, <1>6


LEMMA StartReadingKeepsWhole ==
    ASSUME Whole, Complete', StartReading
    PROVE  Whole'
<1>1. Order /\ UNCHANGED <<fileSize, srcLen, opSize, resizes, cancel>> /\ pc = "top"
      /\ ~ctx.readingDone
  BY DEF Whole, Complete, Ended, StartReading, CanStartReading, env, setup
<1>2. PICK i \in Blocks, len \in Nat \ {0}, test \in BOOLEAN :
         /\ ctx.blk[i].st = "free"
         /\ cancel => ctx'.readingDone = ctx.readingDone /\ pc' = "rderr"
         /\ ~cancel => Starts(i, len, test, ctx') /\ pc' = pc
  BY <1>1, ReadStarts
<1>3. /\ UNCHANGED <<tgt, tgtLen>>
      /\ \A j \in Blocks :
            \/ SameIo(io[j], io'[j]) /\ (~cancel => io'[j] = io[j])
            \/ /\ io'[j].op = "read" /\ (~cancel => ~io'[j].abort)
               /\ io'[j].off \in Nat /\ io'[j].len \in Nat /\ io'[j].res \in Outcomes
               /\ io'[j].st = "done" => io'[j].bytes = Available(io'[j].off, io'[j].len)
  BY <1>1, ReadGets
<1>4. Going /\ GoesAhead /\ Looping
  BY <1>1 DEF Going, GoesAhead, Looping
<1>5. Unresized'
  <2>1. ASSUME resizes' = 0, NEW j \in Blocks, io'[j].op = "read", io'[j].st = "done",
               io'[j].res \in {"ok", "eof"}
        PROVE  io'[j].bytes = Available(io'[j].off, io'[j].len)
    BY <1>1, <1>3, <2>1 DEF Whole, Unresized, SameIo
  <2>2. resizes' = 0 => srcLen' = opSize' /\ fileSize' = opSize'
    BY <1>1 DEF Whole, Unresized
  <2> QED
    BY <1>1, <2>1, <2>2 DEF Unresized, Available
<1>6. Undisturbed'
  <2>1. CASE cancel
    BY <1>2, <2>1 DEF Undisturbed, Looping
  <2>2. CASE ~cancel
    BY <1>1, <1>2, <1>3, <1>4, <2>2 DEF Whole, Undisturbed
  <2> QED
    BY <2>1, <2>2
<1>7. EndIsReached'
  <2>1. ~ctx'.readingDone
    BY <1>1, <1>2 DEF Starts
  <2>2. ~AfterLoop'
    <3>1. CASE cancel
      <4>1. \E c, ios : EnterError("other", "loop", 0, ios)
        BY <3>1 DEF StartReading
      <4> QED
        BY <4>1 DEF EnterError, AfterLoop
    <3>2. CASE ~cancel
      BY <1>1, <1>2, <3>2 DEF AfterLoop
    <3> QED
      BY <3>1, <3>2
  <2> QED
    BY <2>1, <2>2 DEF EndIsReached
<1>8. NotTooLong'
  <2>1. cancel => ~GoesAhead'
    BY <1>1, <1>2 DEF GoesAhead, Going
  <2>2. ASSUME ~cancel, NEW j \in Blocks, io'[j].op = "write", io'[j].st # "idle"
        PROVE  ctx'.blk[j].st = "writing"
    <3>1. io'[j] = io[j]
      BY <1>3, <2>2
    <3>2. ctx.blk[j].st = "writing"
      BY <1>4, <2>2, <3>1 DEF Whole, NotTooLong
    <3> QED
      BY <1>2, <2>2, <3>2 DEF Starts
  <2> QED
    BY <1>1, <1>3, <1>4, <2>1, <2>2 DEF Whole, NotTooLong
<1>9. result' # "ok"
  BY <1>1, <1>2, NotReported DEF Complete
<1>10. \A j \in Blocks : io'[j].res \in Outcomes
  BY <1>3 DEF Whole, SameIo
<1> QED
  BY <1>1, <1>5, <1>6, <1>7, <1>8, <1>9, <1>10 DEF Whole

LEMMA StartWritingKeepsWhole ==
    ASSUME Whole, Complete', StartWriting
    PROVE  Whole'
<1>1. Order /\ UNCHANGED <<fileSize, srcLen, opSize, resizes, cancel>> /\ pc = "scan"
  BY DEF Whole, Complete, Ended, StartWriting, CanStartWriting, EndOfScan, env, setup
<1>2. PICK i \in Blocks, sync \in BOOLEAN :
         /\ ctx.blk[i].st = "read" /\ ctx.blk[i].off = ctx.writeOffset
         /\ cancel => ctx'.readingDone = ctx.readingDone /\ pc' = "wrerr"
         /\ ~cancel => Writes(i, ctx') /\ pc' = pc
         /\ \A j \in Blocks \ {i} : SameIo(io[j], io'[j])
         /\ io'[i].op = "write"
         /\ sync => io'[i].st = "done" /\ io'[i].res = "ok" /\ TargetGets(i)
         /\ ~sync => io'[i].st = "pending" /\ io'[i].res = "none" /\ tgtLen' = tgtLen
  BY <1>1, WriteStarts DEF SameIo
<1>3. Going /\ GoesAhead /\ Looping
  BY <1>1 DEF Going, GoesAhead, Looping
<1>4. Unresized'
  <2>1. \A j \in Blocks : io'[j].op = "read" => SameIo(io[j], io'[j])
    BY <1>2
  <2> QED
    BY <1>1, <2>1 DEF Whole, Unresized, SameIo, Available
<1>5. ASSUME ~cancel, NEW j \in Blocks
      PROVE  io'[j] = io[j] \/ (~io'[j].abort /\ io'[j].res \in {"none", "ok"})
  BY <1>1, <1>5, WriteGets
<1>6. Undisturbed'
  <2>1. CASE cancel
    BY <1>1, <1>2, <2>1 DEF Undisturbed, Looping
  <2>2. CASE ~cancel
    <3>1. ASSUME NEW j \in Blocks, io'[j].st # "idle"
          PROVE  ~io'[j].abort /\ (io'[j].op = "write" /\ io'[j].st = "done" => io'[j].res = "ok")
      <4>1. CASE io'[j] = io[j]
        BY <1>3, <3>1, <4>1 DEF Whole, Undisturbed
      <4>2. CASE j = i /\ io'[j] # io[j]
        BY <1>2, <1>5, <2>2, <4>2
      <4>3. CASE j # i /\ io'[j] # io[j]
        BY <1>2, <1>3, <1>5, <2>2, <3>1, <4>3 DEF Whole, Undisturbed, SameIo
      <4> QED
        BY <4>1, <4>2, <4>3
    <3> QED
      BY <1>1, <1>2, <2>2, <3>1 DEF Undisturbed
  <2> QED
    BY <2>1, <2>2
<1>7. EndIsReached'
  <2>1. CASE cancel
    <3>1. ~GoesAhead'
      BY <1>1, <1>2, <2>1 DEF GoesAhead, Going
    <3>2. ~AfterLoop'
      <4>1. \E off, ios : EnterError("write", "loop", off, ios)
        BY <2>1 DEF StartWriting
      <4> QED
        BY <4>1 DEF EnterError, AfterLoop
    <3> QED
      BY <3>1, <3>2 DEF EndIsReached
  <2>2. CASE ~cancel
    <3>1. Writes(i, ctx') /\ pc' = "scan"
      BY <1>1, <1>2, <2>2
    <3>2. /\ ctx'.readingDone = ctx.readingDone /\ ctx'.readOffset = ctx.readOffset
          /\ Reading(ctx) = {} => Reading(ctx') = {}
      <4>1. ctx'.blk[i].st = "writing" /\ \A j \in Blocks \ {i} : ctx'.blk[j] = ctx.blk[j]
        BY <1>1, <3>1 DEF Writes, Order, Laid, Context
      <4> QED
        BY <3>1, <4>1 DEF Writes, Reading
    <3>3. ~AfterLoop'
      BY <3>1 DEF AfterLoop
    <3> QED
      BY <1>1, <1>3, <3>1, <3>2, <3>3 DEF Whole, EndIsReached
  <2> QED
    BY <2>1, <2>2
<1>8. NotTooLong'
  <2>1. cancel => ~GoesAhead'
    BY <1>1, <1>2 DEF GoesAhead, Going
  <2>2. ASSUME ~cancel, NEW j \in Blocks, io'[j].op = "write", io'[j].st # "idle"
        PROVE  ctx'.blk[j].st = "writing"
    <3>1. CASE j = i
      BY <1>1, <1>2, <2>2, <3>1 DEF Writes, Order, Laid, Context
    <3>2. CASE j # i
      BY <1>2, <1>3, <2>2, <3>2 DEF Whole, NotTooLong, SameIo, Writes
    <3> QED
      BY <3>1, <3>2
  <2>3. resizes = 0 => tgtLen' <= opSize
    <3>1. resizes = 0 => tgtLen <= opSize /\ fileSize = opSize
      BY <1>3 DEF Whole, NotTooLong, Unresized
    <3>2. /\ ctx.blk[i].off + ctx.blk[i].len <= fileSize /\ ctx.blk[i].off \in Nat
          /\ ctx.blk[i].len \in Nat /\ fileSize \in Nat /\ tgtLen \in Nat
      BY <1>2, OffsetsInBounds DEF Whole, Complete, InBounds
    <3>3. PICK e \in Nat : e = ctx.blk[i].off + ctx.blk[i].len
      BY <3>2
    <3>4. tgtLen' = tgtLen \/ tgtLen' = e
      <4>1. Max({tgtLen, e}) \in {tgtLen, e}
        BY <3>2, MaxOfTwo
      <4> QED
        BY <1>2, <3>3, <4>1 DEF TargetGets
    <3> QED
      BY <3>1, <3>2, <3>3, <3>4
  <2> QED
    BY <1>1, <2>1, <2>2, <2>3 DEF NotTooLong
<1>9. result' # "ok"
  BY <1>1, <1>2, NotReported DEF Complete
<1>10. \A j \in Blocks : io'[j].res \in Outcomes
  <2>1. \A j \in Blocks \ {i} : io'[j].res \in Outcomes
    BY <1>2 DEF Whole, SameIo
  <2>2. io'[i].res \in Outcomes
    BY <1>2 DEF Outcomes
  <2> QED
    BY <2>1, <2>2
<1> QED
  BY <1>1, <1>4, <1>6, <1>7, <1>8, <1>9, <1>10 DEF Whole

LEMMA IoCompletesKeepsWhole ==
    ASSUME ~WriteErrors, Whole, Complete', NEW i \in Blocks, IoCompletes(i)
    PROVE  Whole'
<1>1. PICK o \in {GoodOutcome(io[i])} \cup BadOutcomes(io[i]) :
         /\ io' = [io EXCEPT ![i].st = "done", ![i].res = o.res, ![i].bytes = o.bytes]
         /\ Effect(i, io[i], o)
  BY DEF IoCompletes
<1>2. /\ UNCHANGED <<ctx, fileSize, srcLen, opSize, resizes, pc, cancel, err>>
      /\ pc # "final" /\ io[i].st = "pending"
  BY DEF IoCompletes, env, setup
<1>3. DOMAIN io[i] = {"op", "off", "len", "st", "res", "bytes", "abort"} /\ DOMAIN io = Blocks
  BY DEF Whole, Complete, Ended, Order, IInv, Types
<1>4. /\ io'[i].op = io[i].op /\ io'[i].off = io[i].off /\ io'[i].len = io[i].len
      /\ io'[i].abort = io[i].abort
      /\ io'[i].st = "done" /\ io'[i].res = o.res /\ io'[i].bytes = o.bytes
      /\ \A j \in Blocks \ {i} : io'[j] = io[j]
  BY <1>1, <1>3
<1>5. /\ o = GoodOutcome(io[i]) \/ o \in BadOutcomes(io[i])
      /\ o \in BadOutcomes(io[i]) => o.res \in {"aborted", "netname", "other"}
      /\ o \in BadOutcomes(io[i]) /\ io[i].op = "write" => io[i].abort
  <2>1. ~MayFail("write")
    BY DEF MayFail
  <2> QED
    BY <1>1, <2>1 DEF BadOutcomes
<1>6. /\ o = GoodOutcome(io[i]) => o.res \in {"ok", "eof"}
      /\ o = GoodOutcome(io[i]) /\ io[i].op = "write" => o.res = "ok"
      /\ o = GoodOutcome(io[i]) /\ io[i].op = "read" =>
            o.bytes = Available(io[i].off, io[i].len)
  BY DEF GoodOutcome
<1>7. Unresized'
  <2>1. ASSUME resizes = 0, NEW j \in Blocks, io'[j].op = "read", io'[j].st = "done",
               io'[j].res \in {"ok", "eof"}
        PROVE  io'[j].bytes = Available(io'[j].off, io'[j].len)
    <3>1. CASE j = i
      BY <1>4, <1>5, <1>6, <2>1, <3>1
    <3>2. CASE j # i
      BY <1>4, <2>1, <3>2 DEF Whole, Unresized
    <3> QED
      BY <3>1, <3>2
  <2> QED
    BY <1>2, <2>1 DEF Whole, Unresized, Available
<1>8. Undisturbed'
  <2>1. ASSUME Looping, NEW j \in Blocks, io'[j].st # "idle"
        PROVE  ~io'[j].abort /\ (io'[j].op = "write" /\ io'[j].st = "done" => io'[j].res = "ok")
    <3>1. CASE j = i
      <4>1. ~io[i].abort
        BY <1>2, <2>1 DEF Whole, Undisturbed
      <4> QED
        BY <1>4, <1>5, <1>6, <3>1, <4>1
    <3>2. CASE j # i
      BY <1>4, <2>1, <3>2 DEF Whole, Undisturbed
    <3> QED
      BY <3>1, <3>2
  <2> QED
    BY <1>2, <2>1 DEF Whole, Undisturbed, Looping
<1>9. EndIsReached'
  BY <1>2 DEF Whole, EndIsReached, GoesAhead, Going, Reading, AfterLoop
<1>10. NotTooLong'
  <2>1. GoesAhead => \A j \in Blocks :
           io'[j].op = "write" /\ io'[j].st # "idle" => ctx.blk[j].st = "writing"
    <3>1. \A j \in Blocks : io'[j].op = io[j].op /\ (io'[j].st # "idle" => io[j].st # "idle")
      BY <1>2, <1>4
    <3> QED
      BY <3>1 DEF Whole, NotTooLong
  <2>2. ASSUME GoesAhead, resizes = 0 PROVE tgtLen' <= opSize
    <3>1. tgtLen <= opSize /\ fileSize = opSize /\ tgtLen \in Nat /\ opSize \in Nat
      BY <2>2 DEF Whole, NotTooLong, Unresized, Complete, InBounds, Ended, Order
    <3>2. CASE io[i].op = "write" /\ o.bytes > 0
      <4>1. ctx.blk[i].st = "writing"
        BY <1>2, <2>2, <3>2 DEF Whole, NotTooLong
      <4>2. io[i].off = ctx.blk[i].off /\ io[i].len = ctx.blk[i].len
        BY <2>2, <4>1 DEF GoesAhead, Whole, Complete, Ended, Order, Matches
      <4>3. /\ ctx.blk[i].off + ctx.blk[i].len <= opSize
            /\ ctx.blk[i].off \in Nat /\ ctx.blk[i].len \in Nat
        <5>1. /\ ctx.blk[i].off + ctx.blk[i].len <= ctx.writeOffset
              /\ ctx.writeOffset <= ctx.readOffset /\ ctx.readOffset <= fileSize
              /\ ctx.blk[i].off \in Nat /\ ctx.blk[i].len \in Nat
              /\ ctx.writeOffset \in Nat /\ ctx.readOffset \in Nat /\ fileSize \in Nat
          BY <4>1, OffsetsInBounds DEF Whole
        <5> QED
          BY <3>1, <5>1
      <4>4. PICK e \in Nat : e = io[i].off + o.bytes /\ e <= io[i].off + io[i].len
        <5>1. o.bytes \in 0..io[i].len
          BY <1>1, <3>2, <4>2, <4>3 DEF GoodOutcome, BadOutcomes
        <5> QED
          BY <4>2, <4>3, <5>1
      <4>5. tgtLen' = Max({tgtLen, e})
        BY <1>1, <3>2, <4>4 DEF Effect
      <4>6. Max({tgtLen, e}) \in {tgtLen, e}
        BY <3>1, MaxOfTwo
      <4> QED
        BY <3>1, <4>2, <4>3, <4>4, <4>5, <4>6
    <3>3. CASE ~(io[i].op = "write" /\ o.bytes > 0)
      BY <1>1, <3>1, <3>3 DEF Effect
    <3> QED
      BY <3>2, <3>3
  <2> QED
    BY <1>2, <2>1, <2>2 DEF NotTooLong, GoesAhead, Going
<1>11. result' # "ok"
  BY <1>2, NotReported DEF Complete
<1>12. \A j \in Blocks : io'[j].res \in Outcomes
  <2>1. io'[i].res \in Outcomes
    BY <1>4, <1>5, <1>6 DEF Outcomes
  <2> QED
    BY <1>4, <2>1 DEF Whole
<1> QED
  BY <1>2, <1>7, <1>8, <1>9, <1>10, <1>11, <1>12 DEF Whole

LEMMA ReadDoneKeepsWhole ==
    ASSUME Whole, Complete', ReadDone
    PROVE  Whole'
<1>1. Order /\ Laid(ctx, fileSize)
  BY DEF Whole, Complete, Ended, Order
<1>2. PICK i \in Blocks :
              /\ ScanAt(i) /\ Finished(i) /\ ctx.blk[i].st \in {"reading", "testing"}
              /\ io[i].res \in {"ok", "eof"}
              /\ io[i].bytes \in Nat /\ io[i].bytes <= ctx.blk[i].len
              /\ Takes(ctx, i, io[i].bytes, ctx')
              /\ fileSize' \in Nat /\ ctx'.readOffset <= fileSize'
              /\ fileSize' = IF Short(ctx, i, io[i].bytes)
                             THEN IF ~Testing(ctx, i) \/ io[i].bytes # 0
                                  THEN ReadEnd(ctx, i, io[i].bytes) ELSE fileSize
                             ELSE IF Testing(ctx, i)
                                  THEN Max({srcLen, ReadEnd(ctx, i, io[i].bytes)}) ELSE fileSize
              /\ (ctx'.readingDone <=> ctx.readingDone \/ (io[i].res = "eof" /\ Testing(ctx, i)))
              /\ io' = [io EXCEPT ![i] = NoIo] /\ ScanNext(ctx')
              /\ UNCHANGED <<limit, opDone, err, out, result, env, setup>> /\ Quiet
  BY <1>1, ReadIsTaken
<1>3. PICK bytes \in Nat : bytes = io[i].bytes
  BY <1>2
<1>4. PICK new \in Nat : new = fileSize'
  BY <1>2
<1>5. /\ UNCHANGED <<srcLen, opSize, resizes, cancel, tgtLen, err>>
      /\ pc = "scan" /\ pc' = (IF IsOperationDone(ctx') THEN "finish" ELSE "scan")
  BY <1>2 DEF Quiet, env, setup, ScanAt, ScanNext
<1>6. Going /\ GoesAhead /\ Looping /\ Agrees(i) /\ Matches(i) /\ ~ctx.readingDone
  BY <1>2, <1>5, InTheLoop DEF Looping, Reading
<1>7. /\ ctx.blk[i].off \in Nat /\ ctx.blk[i].len \in Nat \ {0} /\ ctx.readOffset \in Nat
      /\ fileSize \in Nat /\ ctx.readOffset <= fileSize
      /\ ~Testing(ctx, i) => EndOf(ctx, i) <= ctx.readOffset
      /\ Testing(ctx, i) => ctx.blk[i].off = ctx.readOffset /\ ctx.readOffset = fileSize
  BY <1>1, <1>2, TakenBlock
<1>8. /\ \A j \in Blocks : ctx'.blk[j].st = "writing" <=> ctx.blk[j].st = "writing"
      /\ \A j \in Blocks : ctx'.blk[j].st \in {"reading", "testing"} =>
            ctx'.blk[j] = ctx.blk[j]
      /\ ctx'.blk[i].st \in {"free", "read"}
  <2>1. bytes <= ctx.blk[i].len /\ Takes(ctx, i, bytes, ctx') /\ ctx'.readOffset <= new
    BY <1>2, <1>3, <1>4
  <2> QED
    BY <1>1, <1>2, <2>1, TakenIsLaid
<1>9. io'[i] = NoIo /\ \A j \in Blocks \ {i} : io'[j] = io[j]
  BY <1>1, <1>2 DEF Order, IInv, Types
<1>10. Unresized'
  <2>1. ASSUME resizes = 0 PROVE fileSize' = opSize /\ srcLen = opSize
    <3>1. srcLen = opSize /\ fileSize = opSize /\ srcLen \in Nat
      BY <1>1, <2>1 DEF Whole, Unresized, Order
    <3>2. io[i].op = "read" /\ io[i].off = ctx.blk[i].off /\ io[i].len = ctx.blk[i].len
      BY <1>2, <1>6 DEF Agrees, Matches
    <3>3. bytes = Available(ctx.blk[i].off, ctx.blk[i].len)
      BY <1>2, <1>3, <2>1, <3>2 DEF Whole, Unresized, Finished
    <3>4. CASE Testing(ctx, i)
      <4>1. bytes = 0
        BY <1>7, <3>1, <3>3, <3>4, AvailableInside
      <4>2. Short(ctx, i, bytes)
        BY <1>7, <4>1 DEF Short
      <4>3. new = fileSize
        BY <1>2, <1>3, <1>4, <3>4, <4>1, <4>2
      <4> QED
        BY <1>4, <3>1, <4>3
    <3>5. CASE ~Testing(ctx, i)
      <4>1. ctx.blk[i].off + ctx.blk[i].len <= srcLen
        BY <1>7, <3>1, <3>5 DEF EndOf
      <4>2. bytes = ctx.blk[i].len
        BY <1>7, <3>1, <3>3, <4>1, AvailableInside
      <4>3. ~Short(ctx, i, bytes)
        BY <1>7, <4>2 DEF Short
      <4>4. new = fileSize
        BY <1>2, <1>3, <1>4, <3>5, <4>3
      <4> QED
        BY <1>4, <3>1, <4>4
    <3> QED
      BY <3>4, <3>5
  <2>2. \A j \in Blocks : io'[j] = NoIo \/ io'[j] = io[j]
    BY <1>9
  <2> QED
    BY <1>5, <2>1, <2>2 DEF Whole, Unresized, NoIo, Available
<1>11. Undisturbed'
  <2>1. \A j \in Blocks : io'[j] = NoIo \/ io'[j] = io[j]
    BY <1>9
  <2> QED
    BY <1>5, <1>6, <2>1 DEF Whole, Undisturbed, NoIo
<1>12. EndIsReached'
  <2>1. ASSUME ctx'.readingDone PROVE Reading(ctx') = {} /\ ctx'.readOffset = fileSize'
    <3>1. io[i].res = "eof" /\ Testing(ctx, i)
      BY <1>2, <1>6, <2>1
    <3>2. bytes = 0
      BY <1>1, <1>3, <3>1 DEF Order, IInv, Honest
    <3>3. Short(ctx, i, bytes) /\ ReadEnd(ctx, i, bytes) = ctx.readOffset
      BY <1>7, <3>1, <3>2 DEF Short, ReadEnd
    <3>4. new = fileSize
      BY <1>2, <1>3, <1>4, <3>1, <3>2, <3>3
    <3>5. ctx'.readOffset = ctx.readOffset
      BY <1>2, <1>3, <3>1, <3>3 DEF Takes, NewReadOffset
    <3>6. Reading(ctx) = {i}
      BY <1>1, <1>2, <3>1 DEF Laid, Tiled, Testing
    <3>7. Reading(ctx') = {}
      BY <1>8, <3>6 DEF Reading
    <3> QED
      BY <1>4, <1>7, <3>1, <3>4, <3>5, <3>7
  <2>2. AfterLoop' => ctx'.readingDone
    BY <1>5 DEF AfterLoop, IsOperationDone
  <2> QED
    BY <1>5, <2>1, <2>2 DEF EndIsReached
<1>13. NotTooLong'
  <2>1. ASSUME NEW j \in Blocks, io'[j].op = "write", io'[j].st # "idle"
        PROVE  ctx'.blk[j].st = "writing"
    <3>1. j # i
      BY <1>9, <2>1 DEF NoIo
    <3> QED
      BY <1>6, <1>8, <1>9, <2>1, <3>1 DEF Whole, NotTooLong
  <2> QED
    BY <1>5, <1>6, <2>1 DEF Whole, NotTooLong
<1>14. result' # "ok"
  BY <1>5, NotReported DEF Complete
<1>15. \A j \in Blocks : io'[j].res \in Outcomes
  BY <1>9 DEF Whole, NoIo, Outcomes
<1> QED
  BY <1>5, <1>10, <1>11, <1>12, <1>13, <1>14, <1>15 DEF Whole

LEMMA ScanKeepsWhole ==
    ASSUME Whole, Complete', WriteDone \/ DiscardedDone
    PROVE  Whole'
<1>1. PICK i \in Blocks :
          /\ ScanAt(i) /\ ctx' = FreeBlock(ctx, i) /\ ScanNext(ctx')
          /\ io' = [io EXCEPT ![i] = NoIo]
          /\ UNCHANGED <<tgtLen, fileSize, srcLen, opSize, resizes, cancel, err>>
          /\ ctx.blk[i].st \in {"writing", "discarded"}
  BY DEF WriteDone, DiscardedDone, Quiet, env, setup
<1>2. /\ SameCounts(ctx, ctx')
      /\ \A j \in Blocks : ctx'.blk[j] = IF j = i THEN FreeBlk ELSE ctx.blk[j]
  <2>1. Laid(ctx, fileSize)
    BY DEF Whole, Complete, Ended, Order
  <2> QED
    BY <1>1, <2>1, FreedIsLaid
<1>3. DOMAIN io = Blocks
  BY DEF Whole, Complete, Ended, Order, IInv, Types
<1>4. io'[i] = NoIo /\ \A j \in Blocks \ {i} : io'[j] = io[j]
  BY <1>1, <1>3
<1>5. pc = "scan" /\ pc' = (IF IsOperationDone(ctx') THEN "finish" ELSE "scan")
  BY <1>1 DEF ScanAt, ScanNext
<1>6. Going /\ GoesAhead /\ Looping
  BY <1>5 DEF Going, GoesAhead, Looping
<1>7. \A j \in Blocks : io'[j] = NoIo \/ io'[j] = io[j]
  BY <1>4
<1>8. Unresized'
  BY <1>1, <1>7 DEF Whole, Unresized, NoIo, Available
<1>9. Undisturbed'
  BY <1>5, <1>6, <1>7 DEF Whole, Undisturbed, NoIo
<1>10. EndIsReached'
  <2>1. /\ ctx'.readingDone = ctx.readingDone /\ ctx'.readOffset = ctx.readOffset
        /\ Reading(ctx) = {} => Reading(ctx') = {}
    BY <1>2 DEF SameCounts, Reading, FreeBlk
  <2>2. AfterLoop' => ctx'.readingDone
    BY <1>1, <1>5 DEF AfterLoop, IsOperationDone
  <2> QED
    BY <1>1, <1>5, <1>6, <2>1, <2>2 DEF Whole, EndIsReached
<1>11. NotTooLong'
  <2>1. ASSUME NEW j \in Blocks, io'[j].op = "write", io'[j].st # "idle"
        PROVE  ctx'.blk[j].st = "writing"
    <3>1. j # i
      BY <1>4, <2>1 DEF NoIo
    <3> QED
      BY <1>2, <1>4, <1>6, <2>1, <3>1 DEF Whole, NotTooLong
  <2> QED
    BY <1>1, <1>6, <2>1 DEF Whole, NotTooLong
<1>12. result' # "ok"
  BY <1>5, NotReported DEF Complete
<1>13. \A j \in Blocks : io'[j].res \in Outcomes
  BY <1>7 DEF Whole, NoIo, Outcomes
<1> QED
  BY <1>1, <1>8, <1>9, <1>10, <1>11, <1>12, <1>13 DEF Whole

LEMMA InitEstablishesWhole == Init => Whole
<1> SUFFICES ASSUME Init PROVE Whole
  OBVIOUS
<1>1. /\ srcLen = opSize /\ fileSize = opSize /\ opSize \in Nat /\ tgtLen \in {0, opSize}
      /\ io = [i \in Blocks |-> NoIo] /\ ctx = NewCtx /\ pc = "top" /\ result = "none"
      /\ resizes = 0
  BY LimitIsPositive DEF Init
<1>2. ~ctx.readingDone
  BY <1>1 DEF NewCtx
<1>3. \A i \in Blocks : io[i].st = "idle" /\ io[i].res \in Outcomes
  BY <1>1 DEF NoIo, Outcomes
<1>4. Unresized /\ Undisturbed /\ NotTooLong
  BY <1>1, <1>3 DEF Unresized, Undisturbed, NotTooLong
<1>5. EndIsReached
  BY <1>1, <1>2 DEF EndIsReached, AfterLoop
<1> QED
  BY <1>1, <1>3, <1>4, <1>5, InitEstablishesComplete DEF Whole

LEMMA NextKeepsWhole == ~WriteErrors /\ Whole /\ [Next]_vars => Whole'
<1> SUFFICES ASSUME ~WriteErrors, Whole, [Next]_vars PROVE Whole'
  OBVIOUS
<1>1. Complete'
  BY NextKeepsComplete DEF Whole
<1>2. CASE Worker
  BY <1>1, <1>2, StartReadingKeepsWhole, StartWritingKeepsWhole, ReadDoneKeepsWhole,
     ScanKeepsWhole, ErrorsKeepWhole, OthersKeepWhole, RetriesKeepWhole, EndKeepsWhole
     DEF Worker
<1>3. CASE (\E i \in Blocks : IoCompletes(i)) \/ ResizeSource \/ UserCancels
  BY <1>1, <1>3, OthersKeepWhole, IoCompletesKeepsWhole
<1>4. CASE Terminated \/ UNCHANGED vars
  <2>1. UNCHANGED <<ctx, io, opDone, result, pc, cancel, tgtLen, srcLen, fileSize, opSize,
                    resizes, err>>
    BY <1>4 DEF Terminated, vars
  <2>2. /\ Unresized' <=> Unresized
        /\ Undisturbed' <=> Undisturbed
    BY <2>1 DEF Unresized, Undisturbed, Looping, Available
  <2>3. /\ EndIsReached' <=> EndIsReached
        /\ NotTooLong' <=> NotTooLong
    BY <2>1 DEF EndIsReached, NotTooLong, GoesAhead, Going, AfterLoop
  <2> QED
    BY <1>1, <2>1, <2>2, <2>3 DEF Whole
<1> QED
  BY <1>2, <1>3, <1>4 DEF Next

(* What is reported as copied is in the target, every unit in its place:       *)
(* operationDone never counts what a retry, a rewind or an aborted write left   *)
(* out.                                                                         *)
THEOREM CountedIsThere ==
    Spec => [](result = "ok" => tgtLen >= opDone /\ \A u \in 0..(opDone - 1) : tgt[u] = u)
<1>1. Complete => (result = "ok" => tgtLen >= opDone /\ \A u \in 0..(opDone - 1) : tgt[u] = u)
  BY DEF Complete
<1> QED
  BY <1>1, CompleteIsKept, PTL

(* Unless writing the target fails, a copy reported as done is the whole       *)
(* source, no longer and no shorter: whatever reading does, in whatever order  *)
(* operations finish, and however often the user retries or cancels too late.  *)
(* (With errors of the target it is not: see NoSilentlyPartialTarget.)         *)
THEOREM CopyIsComplete == ASSUME ~WriteErrors PROVE Spec => []ReportedCopyIsComplete
<1>1. Init => Whole
  BY InitEstablishesWhole
<1>2. Whole /\ [Next]_vars => Whole'
  BY NextKeepsWhole
<1>3. Whole => ReportedCopyIsComplete
  BY DEF Whole, Complete, ReportedCopyIsComplete
<1> QED
  BY <1>1, <1>2, <1>3, PTL DEF Spec
=============================================================================
