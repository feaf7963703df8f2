------------------------------ MODULE Filters ------------------------------
(***************************************************************************)
(* What SelectSeq gives, as a recursive function: SelectSeq cannot be      *)
(* expanded in a proof.  The loops of the program that take elements out   *)
(* of a list, or write some of what they read, are modelled by it.         *)
(***************************************************************************)
EXTENDS Integers, Sequences

\* the elements of q that are in S, in the order of q
Kept(q, S) ==
    LET kept[i \in 0..Len(q)] ==
            IF i = 0 THEN <<>>
            ELSE IF q[i] \in S THEN Append(kept[i - 1], q[i]) ELSE kept[i - 1]
    IN  kept[Len(q)]
=============================================================================
