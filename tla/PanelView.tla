----------------------------- MODULE PanelView -----------------------------
(***************************************************************************)
(* What automatic refreshing promises: a directory changes whenever it     *)
(* likes, and a panel that shows an old listing reads the directory again. *)
(***************************************************************************)
CONSTANT Panels

VARIABLE stale      \* the panels whose directory has changed since it was read

Init == stale = {}

Change == stale' \in SUBSET Panels /\ stale \subseteq stale'

Read(p) == stale' = stale \ {p}

Next == Change \/ \E p \in Panels : Read(p)

Spec == Init /\ [][Next]_stale /\ \A p \in Panels : WF_stale(Read(p))
=============================================================================
