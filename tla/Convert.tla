------------------------------ MODULE Convert ------------------------------
(***************************************************************************)
(* Two callers of SalReplaceWithTempW: converting the ends of lines and    *)
(* the code page of a file (DoConvert, src/src/worker.cpp), which replaces *)
(* a file block by block and asks the user about every error, and the      *)
(* export of the configuration (WriteExportedConfiguration,                *)
(* src/src/salamdr2.cpp), which writes a file that may not exist yet.      *)
(***************************************************************************)
EXTENDS SafeReplace, SequencesExt, Filters

CONSTANTS
    Letters,        \* what files are made of: "cr", "lf" and letters
    MaxLength,      \* bound: length of the file to convert
    BlockSize,      \* OPERATION_BUFFER
    Callers         \* subset of {"convert", "export"}

ASSUME ConvertAssumption ==
    /\ MaxLength \in Nat /\ BlockSize \in Nat \ {0}
    /\ Callers \subseteq {"convert", "export"}

VARIABLES
    source,         \* the file to convert; it is also the target
    convertEnds,    \* EOFType # 0: ends of lines are replaced
    caller,         \* who replaces the target
    existed,        \* the target was there when the caller looked
    wasReadOnly,    \* srcAttrs: the target was read-only
    pc, offset, buffer, crlfBreak,
    partly          \* history: a part of a block was written before the block

callerVars == <<source, convertEnds, caller, existed, wasReadOnly, pc, offset, buffer, crlfBreak, partly>>
vars == <<replaceVars, callerVars>>
fixed == <<source, convertEnds, caller, existed, wasReadOnly>>

-----------------------------------------------------------------------------
(* The conversion *)

End == <<"end">>            \* the end of a line in the form asked for
Code(c) == <<"coded", c>>   \* CodeTable
Dropped == <<"dropped">>

\* the line feed of a CR LF; split is crlfBreak, "CR LF which splits across the
\* buffer boundary"
IsRest(b, i, split) == b[i] = "lf" /\ (IF i = 1 THEN split ELSE b[i-1] = "cr")

Emitted == {Code(c) : c \in Letters} \union {End}

\* what becomes of c, which is the rest of a CR LF or not
OutOf(c, isRest) ==
    IF ~convertEnds \/ c \notin {"cr", "lf"} THEN Code(c) ELSE IF isRest THEN Dropped ELSE End

\* one block
Translated(b, split) ==
    Kept([i \in DOMAIN b |-> OutOf(b[i], IsRest(b, i, split))], Emitted)

\* fault: a CR at the end of a block is not remembered
NeverSplit(b, split) == FALSE

SplitAfter(b, split) == convertEnds /\ (Last(b) = "cr" \/ (split /\ b[1] # "lf"))

-----------------------------------------------------------------------------
(* The callers *)

At(place) == pc = place
GoTo(place) == pc' = place
NoReplace == UNCHANGED <<replace, others, meddling, mishaps>>

Old == <<<<"old">>>>
Exported == <<<<"configuration">>>>

Init ==
    /\ ReplaceInit
    /\ caller \in Callers /\ convertEnds \in BOOLEAN
    /\ source \in IF caller = "convert" THEN SeqOf(Letters, MaxLength) ELSE {<<>>}
    /\ existed \in BOOLEAN /\ wasReadOnly \in BOOLEAN
    /\ caller = "convert" => existed
    /\ disk = [target |-> IF existed THEN [FileOf(Old) EXCEPT !.readOnly = wasReadOnly]
                                     ELSE Absent,
               temp |-> Absent]
    /\ pc = "open" /\ offset = 0 /\ buffer = <<>> /\ crlfBreak = FALSE /\ partly = FALSE
    /\ ~existed => ~wasReadOnly

\* the result of SalDeleteFile is not looked at
RemoveTemp == disk' \in {[disk EXCEPT !["temp"] = Absent], disk}

\* CONVERT_AGAIN; the export looks whether the target exists
Open ==
    /\ At("open")
    /\ \/ (caller = "convert" => There("target")) /\ GoTo("temp")
       \/ caller = "convert" /\ GoTo("end")
    /\ offset' = 0 /\ crlfBreak' = FALSE /\ partly' = FALSE
    /\ UNCHANGED <<fixed, buffer, disk>> /\ NoReplace

CreateTemp ==
    /\ At("temp")
    /\ \/ GoTo("copy") /\ disk' = [disk EXCEPT !["temp"] = FileOf(<<>>)]
       \/ GoTo("end") /\ UNCHANGED disk
    /\ UNCHANGED <<fixed, partly, offset, buffer, crlfBreak>> /\ NoReplace

NextBlock == SubSeq(source, offset + 1, Min({offset + BlockSize, Len(source)}))

Advance == Len(NextBlock)

ReadBlock ==
    /\ At("copy") /\ caller = "convert"
    /\ IF offset = Len(source) THEN GoTo("flush") /\ UNCHANGED <<buffer, crlfBreak, offset>>
       ELSE /\ buffer' = Translated(NextBlock, crlfBreak)
            /\ crlfBreak' = SplitAfter(NextBlock, crlfBreak)
            /\ offset' = offset + Advance /\ GoTo("write")
    /\ UNCHANGED <<fixed, partly, disk>> /\ NoReplace

AppendToTemp(b) == disk' = [disk EXCEPT !["temp"].data = @ \o b]

WriteBlock ==
    /\ At("write") /\ AppendToTemp(buffer) /\ GoTo("copy")
    /\ UNCHANGED <<fixed, partly, offset, buffer, crlfBreak>> /\ NoReplace

\* a part of the block is written; IDRETRY writes the block again, where it is
WriteShort ==
    /\ At("write") /\ ~partly /\ partly' = TRUE
    /\ \E n \in 1..Len(buffer) - 1 : AppendToTemp(SubSeq(buffer, 1, n))
    /\ UNCHANGED <<fixed, pc, offset, buffer, crlfBreak>> /\ NoReplace

WriteExport ==
    /\ At("copy") /\ caller = "export" /\ AppendToTemp(Exported) /\ GoTo("flush")
    /\ UNCHANGED <<fixed, partly, offset, buffer, crlfBreak>> /\ NoReplace

\* an error or the user ends it: skip, cancel
GiveUp ==
    /\ pc \in {"copy", "write", "flush"} /\ RemoveTemp /\ GoTo("end")
    /\ UNCHANGED <<fixed, partly, offset, buffer, crlfBreak>> /\ NoReplace

\* IDRETRY after a failed flush or close
FlushFails ==
    /\ At("flush") /\ caller = "convert" /\ RemoveTemp /\ GoTo("open")
    /\ UNCHANGED <<fixed, partly, offset, buffer, crlfBreak>> /\ NoReplace

\* without memory for the wide names convert does not call the function
CallReplace ==
    /\ \/ IF caller = "convert" THEN Call(TRUE, TRUE) ELSE Call(existed, FALSE)
       \/ caller = "convert" /\ Goes("failedKept")
    /\ Unmeddled /\ NoMishap

Flush ==
    /\ At("flush") /\ CallReplace /\ GoTo("replacing")
    /\ UNCHANGED <<fixed, partly, offset, buffer, crlfBreak, disk>>

\* the attributes of the old file for the new one, if they were read and can be set
SetReadOnly(name) ==
    \/ /\ caller = "convert" /\ There(name)
       /\ disk' = [disk EXCEPT ![name].readOnly = wasReadOnly]
    \/ UNCHANGED disk

Replaced ==
    /\ At("replacing") /\ ReplacerAt("done") /\ SetReadOnly("target") /\ GoTo("end")
    /\ UNCHANGED <<fixed, partly, offset, buffer, crlfBreak>> /\ NoReplace

\* the temporary file holds the only copy: convert tries to move it, export names it
LeftAtTemp ==
    /\ At("replacing") /\ ReplacerAt("leftAtTemp") /\ SetReadOnly("temp")
    /\ GoTo(IF caller = "convert" THEN "move" ELSE "end")
    /\ UNCHANGED <<fixed, partly, offset, buffer, crlfBreak>> /\ NoReplace

MoveTemp ==
    /\ At("move") /\ GoTo("end")
    /\ \/ ~There("target") /\ There("temp") /\ disk' = Moved
       \/ UNCHANGED disk
    /\ UNCHANGED <<fixed, partly, offset, buffer, crlfBreak>> /\ NoReplace

\* fault: the temporary file is deleted after every failure
AnyFailure == {"failedKept", "bothGone", "leftAtTemp"}

Useless == {"failedKept", "bothGone"}

\* the target is as it was: convert may try again, else the temporary file goes
NotReplaced ==
    /\ At("replacing") /\ replace.pc \in Useless
    /\ \/ caller = "convert" /\ CallReplace /\ UNCHANGED <<disk, pc>>
       \/ RemoveTemp /\ GoTo("end") /\ NoReplace
    /\ UNCHANGED <<fixed, partly, offset, buffer, crlfBreak>>

\* files that are open and not shared for deleting
Held ==
    (IF caller = "convert" /\ pc \in {"temp", "copy", "write", "flush"} THEN {"target"} ELSE {})
    \union (IF pc \in {"copy", "write", "flush"} THEN {"temp"} ELSE {})

OtherPrograms ==
    /\ pc \notin {"open", "end"}
    /\ \/ \E name \in {"target", "temp"} \ Held : OthersRemove(name)
       \/ OthersCreate
    /\ UNCHANGED callerVars

Next ==
    \/ Open \/ CreateTemp \/ ReadBlock \/ WriteBlock \/ WriteShort \/ WriteExport
    \/ GiveUp \/ FlushFails \/ Flush
    \/ ReplaceStep /\ UNCHANGED callerVars
    \/ Replaced \/ LeftAtTemp \/ MoveTemp \/ NotReplaced \/ OtherPrograms

Spec == Init /\ [][Next]_vars

-----------------------------------------------------------------------------
TypeOK ==
    /\ ReplaceTypeOK
    /\ pc \in {"open", "temp", "copy", "write", "flush", "replacing", "move", "end"}
    /\ offset \in 0..Len(source) /\ {crlfBreak, existed, wasReadOnly, partly} \subseteq BOOLEAN
    /\ pc \in {"copy", "write", "flush"} => There("temp")

\* the conversion of the file as a whole: CR, LF and CR LF are ends of lines
Converted ==
    Kept([i \in DOMAIN source |->
             OutOf(source[i], source[i] = "lf" /\ i > 1 /\ source[i-1] = "cr")], Emitted)

Wanted == IF caller = "convert" THEN Converted ELSE Exported

(* DoConvert: "CR, LF, and CRLF are all considered end-of-line markers", each  *)
(* of which is replaced by one end of line.                                    *)
LineEndsAreConverted == There("target") => disk["target"].data \in {Old, Foreign, Wanted}

\* a block begins with a line feed of its own, and a block before it ended in CR
StrayLineFeed ==
    \E i, j \in DOMAIN source :
        /\ i % BlockSize = 0 /\ j % BlockSize = 1 % BlockSize /\ i + 1 < j
        /\ source[i] = "cr" /\ source[j] = "lf" /\ source[j-1] # "cr"

Spoilt == StrayLineFeed \/ partly

(* The target is never part of a file: it has its old content or all of the    *)
(* new one, whatever fails, and whether the temporary file was written in one  *)
(* go or again after an error (but for the two cases of Spoilt).               *)
TargetIsWhole == Spoilt \/ LineEndsAreConverted

Holds(name, data) == There(name) /\ disk[name].data = data

Misread == "misread" \in mishaps
NotRestored == "notRestored" \in mishaps

(* While no other program touches the files, the old content or all of the new *)
(* one is in the target or in the temporary file, in every state, so also when *)
(* the program dies there, when ReplaceFileW fails half way, and at the end.   *)
(* One case is exempted, for it goes wrong: SalPathIsGoneW could not read the  *)
(* attributes of a target that ReplaceFileW had moved away, the caller is told *)
(* that nothing has changed, and deletes the temporary file (worker.cpp        *)
(* 7985-7986, salamdr2.cpp 3030).  Until the caller has ended nothing is lost  *)
(* in that case either.                                                        *)
NothingLost ==
    existed /\ others = {} /\ ~Spoilt =>
        \/ Holds("target", Old) \/ Holds("target", Wanted) \/ Holds("temp", Wanted)
        \/ Misread /\ At("end")

(* What SalReplaceWithTempW answers is what has happened: the target has the   *)
(* new content, is as it was (with its read-only attribute), or is gone and    *)
(* the temporary file has the new content.  "Kept" means less in two cases,    *)
(* and no less than this: the read-only attribute could not be put back; or    *)
(* the target is gone and its attributes could not be read, and then the       *)
(* temporary file, which the caller is told to delete, has the new content.    *)
ResultIsTrue ==
    At("replacing") /\ others = {} /\ ~Spoilt =>
        /\ ReplacerAt("done") => Holds("target", Wanted) /\ ~There("temp")
        /\ ReplacerAt("failedKept") /\ existed =>
              IF There("target")
              THEN /\ Holds("target", Old)
                   /\ disk["target"].readOnly = wasReadOnly \/ NotRestored
              ELSE Misread /\ Holds("temp", Wanted)
        /\ ReplacerAt("failedKept") /\ ~existed => ~There("target")
        /\ ReplacerAt("leftAtTemp") => ~There("target") /\ Holds("temp", Wanted)
        /\ ~ReplacerAt("bothGone")

(* A target the caller has not seen is not touched: a file another program has *)
(* created since the caller looked is never overwritten.                       *)
UnseenFileIsKept ==
    [][~existed /\ There("target") /\ meddling' = meddling =>
          disk'["target"] = disk["target"]]_vars

=============================================================================
