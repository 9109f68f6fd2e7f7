------------------------------- MODULE Roster -------------------------------
(***************************************************************************)
(* What the roster of the web map promises: the dispatchers it lists come  *)
(* and go one at a time, each because the database has it or has it no     *)
(* longer, and the list catches up with the database.                      *)
(***************************************************************************)
CONSTANT Ids

VARIABLES
    db,     \* the ids of the crowds in the database
    shown   \* the ids of the crowds that are listed

vars == <<db, shown>>

Init ==
    /\ db \in SUBSET Ids
    /\ shown = {}

Change ==
    /\ db' \in SUBSET Ids
    /\ UNCHANGED shown

Show(id) ==
    /\ id \in db \ shown
    /\ shown' = shown \cup {id}
    /\ UNCHANGED db

Hide(id) ==
    /\ id \in shown \ db
    /\ shown' = shown \ {id}
    /\ UNCHANGED db

CatchUp == \E id \in Ids : Show(id) \/ Hide(id)

Next == Change \/ CatchUp

Spec == Init /\ [][Next]_vars /\ WF_vars(CatchUp)
=============================================================================
