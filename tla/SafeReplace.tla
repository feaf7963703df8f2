---------------------------- MODULE SafeReplace ----------------------------
(***************************************************************************)
(* Putting a complete temporary file in the place of a file                *)
(* (SalReplaceWithTempW, src/src/common/salsafereplace.h), while other     *)
(* programs remove the two files or create the target.  Every call of the  *)
(* system is a step, so a crash between two of them is a state of its own. *)
(* The modules that call the function extend this one: they set the place  *)
(* of replace to "attributes" or "place", and see its result.              *)
(***************************************************************************)
EXTENDS Integers, Sequences

CONSTANT MaxMeddling    \* bound: steps of other programs

ASSUME MeddlingAssumption == MaxMeddling \in Nat

VARIABLES
    disk,           \* the target and the temporary file next to it
    replace,        \* the locals of SalReplaceWithTempW
    others,         \* history: what other programs have done to the two files
    meddling,
    mishaps         \* history: "misread", "notRestored"

replaceVars == <<disk, replace, others, meddling, mishaps>>

Absent == [there |-> FALSE, data |-> <<>>, readOnly |-> FALSE]
FileOf(data) == [there |-> TRUE, data |-> data, readOnly |-> FALSE]
Foreign == <<<<"foreign">>>>        \* what other programs write

There(name) == disk[name].there

\* SalPathIsGoneW: "an entry whose attributes cannot be read for another reason (access
\* denied, ...) counts as present", so one that is gone may count as present too
LooksThere(name, answer) == There(name) => answer

Moved == [target |-> disk["temp"], temp |-> Absent]

Results == {"done", "failedKept", "leftAtTemp", "bothGone"}
ReplacerAt(place) == replace.pc = place

ReplaceInit ==
    /\ replace = [pc |-> "idle", clearReadOnly |-> FALSE, readOnly |-> FALSE, cleared |-> FALSE,
                  fallback |-> FALSE, unsupported |-> FALSE, targetThere |-> FALSE]
    /\ others = {} /\ meddling = 0 /\ mishaps = {}

Call(targetExisted, clearReadOnly) ==
    replace' = [replace EXCEPT !.pc = IF targetExisted THEN "attributes" ELSE "place",
                               !.clearReadOnly = clearReadOnly, !.cleared = FALSE,
                               !.fallback = FALSE, !.unsupported = FALSE]

Goes(place) == replace' = [replace EXCEPT !.pc = place]
Unmeddled == UNCHANGED <<others, meddling>>
NoMishap == UNCHANGED mishaps

\* fault: a new target is put in place with MOVEFILE_REPLACE_EXISTING
AlwaysFree == TRUE

Free == ~There("target")

\* MoveFileExW(temp, target, 0), for a new target and to finish a replacement
PlaceNew ==
    /\ ReplacerAt("place")
    /\ \/ Free /\ There("temp") /\ disk' = Moved /\ Goes("done")
       \/ Goes("failedKept") /\ UNCHANGED disk
    /\ Unmeddled /\ NoMishap

\* attributes that cannot be read are no read-only attribute
ReadAttributes ==
    /\ ReplacerAt("attributes")
    /\ \E readable \in BOOLEAN :
          replace' = [replace EXCEPT !.pc = "clear",
                        !.readOnly = readable /\ replace.clearReadOnly /\ disk["target"].readOnly]
    /\ UNCHANGED disk /\ Unmeddled /\ NoMishap

ClearReadOnly ==
    /\ ReplacerAt("clear")
    /\ \/ /\ replace.readOnly /\ There("target")
          /\ disk' = [disk EXCEPT !["target"].readOnly = FALSE]
          /\ replace' = [replace EXCEPT !.pc = "replace", !.cleared = TRUE]
       \/ Goes("replace") /\ UNCHANGED disk
    /\ Unmeddled /\ NoMishap

ReplaceFailed(unsupported) ==
    replace' = [replace EXCEPT !.pc = "look", !.unsupported = unsupported]

\* ReplaceFileW without a backup name: it succeeds and the target keeps its
\* attributes, it fails and leaves both files, or it fails when it has moved the
\* target away already (ERROR_UNABLE_TO_MOVE_REPLACEMENT)
ReplaceFile ==
    /\ ReplacerAt("replace")
    /\ \/ /\ There("target") /\ There("temp") /\ ~disk["target"].readOnly
          /\ \/ /\ disk' = [target |-> [FileOf(disk["temp"].data) EXCEPT
                                          !.readOnly = disk["target"].readOnly],
                            temp |-> Absent]
                /\ Goes("done")
             \/ disk' = [disk EXCEPT !["target"] = Absent] /\ ReplaceFailed(FALSE)
       \/ \E unsupported \in BOOLEAN : ReplaceFailed(unsupported) /\ UNCHANGED disk
    /\ Unmeddled /\ NoMishap

\* SalPathIsGoneW for the target, then for the temporary file
LookForTarget ==
    /\ ReplacerAt("look")
    /\ \E answer \in BOOLEAN :
          /\ LooksThere("target", answer)
          /\ replace' = [replace EXCEPT !.pc = "lookTemp", !.targetThere = answer]
          /\ mishaps' = mishaps \union (IF answer /\ ~There("target") THEN {"misread"} ELSE {})
    /\ UNCHANGED disk /\ Unmeddled

\* fault: a target that is gone is given up like one that was kept
AlwaysKept(targetThere, tempThere) == "keep"

\* SalReplaceFailureNext
FailureNext(targetThere, tempThere) ==
    IF ~targetThere THEN IF tempThere THEN "finish" ELSE "bothGone"
    ELSE IF tempThere /\ replace.unsupported /\ ~replace.fallback THEN "fallback" ELSE "keep"

LookForTemp ==
    /\ ReplacerAt("lookTemp")
    /\ \E answer \in BOOLEAN :
          LooksThere("temp", answer) /\ Goes(FailureNext(replace.targetThere, answer))
    /\ UNCHANGED disk /\ Unmeddled /\ NoMishap

\* MoveFileExW with MOVEFILE_REPLACE_EXISTING
FallbackMove ==
    /\ ReplacerAt("fallback")
    /\ \/ /\ There("temp") /\ ~disk["target"].readOnly
          /\ disk' = Moved /\ Goes("done")
       \/ replace' = [replace EXCEPT !.pc = "look", !.fallback = TRUE] /\ UNCHANGED disk
    /\ Unmeddled /\ NoMishap

\* the target is gone: the temporary file is moved into place, or kept
FinishMove ==
    /\ ReplacerAt("finish")
    /\ \/ Free /\ There("temp") /\ disk' = Moved /\ Goes("done")
       \/ Goes("leftAtTemp") /\ UNCHANGED disk
    /\ Unmeddled /\ NoMishap

\* the result of SetFileAttributesW is not looked at
RestoreReadOnly ==
    IF ~replace.cleared THEN UNCHANGED <<disk, mishaps>>
    ELSE \/ /\ There("target") /\ disk' = [disk EXCEPT !["target"].readOnly = TRUE]
            /\ UNCHANGED mishaps
         \/ mishaps' = mishaps \union {"notRestored"} /\ UNCHANGED disk

KeepTarget ==
    /\ ReplacerAt("keep") /\ RestoreReadOnly /\ Goes("failedKept") /\ Unmeddled

ReplaceStep ==
    \/ PlaceNew \/ ReadAttributes \/ ClearReadOnly \/ ReplaceFile \/ LookForTarget
    \/ LookForTemp \/ FallbackMove \/ FinishMove \/ KeepTarget

-----------------------------------------------------------------------------
(* Other programs *)

Meddle(what) ==
    /\ meddling < MaxMeddling /\ meddling' = meddling + 1
    /\ others' = others \union {what} /\ UNCHANGED <<replace, mishaps>>

OthersRemove(name) ==
    /\ There(name) /\ disk' = [disk EXCEPT ![name] = Absent] /\ Meddle("removed")

OthersCreate ==
    /\ ~There("target") /\ disk' = [disk EXCEPT !["target"] = FileOf(Foreign)]
    /\ Meddle("created")

OthersStep == (\E name \in {"target", "temp"} : OthersRemove(name)) \/ OthersCreate

FileTypeOK(f) ==
    /\ DOMAIN f = {"there", "data", "readOnly"} /\ {f.there, f.readOnly} \subseteq BOOLEAN
    /\ ~f.there => f = Absent

ReplaceTypeOK ==
    /\ DOMAIN disk = {"target", "temp"} /\ FileTypeOK(disk["target"]) /\ FileTypeOK(disk["temp"])
    /\ replace \in [pc : {"idle", "place", "attributes", "clear", "replace", "look", "lookTemp",
                          "fallback", "finish", "keep"} \union Results,
                    clearReadOnly : BOOLEAN, readOnly : BOOLEAN, cleared : BOOLEAN,
                    fallback : BOOLEAN, unsupported : BOOLEAN, targetThere : BOOLEAN]
    /\ others \subseteq {"removed", "created"} /\ meddling \in 0..MaxMeddling
    /\ mishaps \subseteq {"misread", "notRestored"}
=============================================================================
