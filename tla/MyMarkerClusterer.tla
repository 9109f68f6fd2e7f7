------------------------- MODULE MyMarkerClusterer -------------------------
(***************************************************************************)
(* The list of markers of the web map                                      *)
(* (haj_web/src/Components/MyMarkerClusterer.js): which crowds it knows,   *)
(* and which crowd each mounted marker is bound to.                        *)
(*                                                                         *)
(* A MyMarker copies its props into its state when it is mounted and       *)
(* listens to that crowd from then on. React tells the markers apart by    *)
(* their key, which is the position in the list, so a marker stays bound   *)
(* to the crowd that was at its position when it was mounted.              *)
(*                                                                         *)
(* One life of the page is modelled, from the mounting of the component.   *)
(***************************************************************************)
EXTENDS Naturals, FiniteSets, SequencesExt

CONSTANTS
    Ids,          \* keys of the crowds, numbered in the order of the keys
    MaxRemovals   \* bound: crowds removed in one life of the page

ASSUME IdsAssumption == Ids \subseteq Nat /\ IsFiniteSet(Ids)
ASSUME MaxRemovalsAssumption == MaxRemovals \in Nat

VARIABLES
    db,         \* the crowds in the database, as the SDK last saw it
    listening,  \* the two listeners are registered
    crowds,     \* the keys of state.crowds, in their order
    markers,    \* the crowd each mounted marker is bound to, by position
    gap,        \* history: the lowest position a crowd was removed from
    removals    \* history: the crowds removed so far

vars == <<db, listening, crowds, markers, gap, removals>>

TypeOK ==
    /\ db \in SUBSET Ids
    /\ listening \in BOOLEAN
    /\ crowds \in Seq(Ids)
    /\ markers \in Seq(Ids)
    /\ gap \in Nat
    /\ removals \in Nat

NoGap == Cardinality(Ids) + 1

\* The events the SDK still has to raise for its last update.
Gone == Range(crowds) \ db
Fresh == IF listening THEN db \ Range(crowds) ELSE {}

-----------------------------------------------------------------------------
Init ==
    /\ db \in SUBSET Ids
    /\ listening = FALSE
    /\ crowds = <<>>
    /\ markers = <<>>
    /\ gap = NoGap
    /\ removals = 0

\* The database changes, by one write or by all that was missed while the
\* page had no connection. The events of the last update are all raised by
\* then.
Sync(new) ==
    /\ new # db
    /\ Gone = {} /\ Fresh = {}
    /\ removals + Cardinality(Range(crowds) \ new) <= MaxRemovals
    /\ db' = new
    /\ UNCHANGED <<listening, crowds, markers, gap, removals>>

\* once('value') has answered.
Listen ==
    /\ ~listening
    /\ listening' = TRUE
    /\ UNCHANGED <<db, crowds, markers, gap, removals>>

\* Mutation: a removed crowd stays in the list.
ChildRemovedKept(id) ==
    /\ id = Min(Gone)
    /\ \E i \in DOMAIN crowds :
         /\ crowds[i] = id
         /\ gap' = IF i < gap THEN i ELSE gap
    /\ UNCHANGED <<db, listening, crowds, markers, removals>>

\* child_removed: the marker at the last position unmounts.
ChildRemoved(id) ==
    /\ id = Min(Gone)
    /\ \E i \in DOMAIN crowds :
         /\ crowds[i] = id
         /\ crowds' = RemoveAt(crowds, i)
         /\ gap' = IF i < gap THEN i ELSE gap
    /\ markers' = Front(markers)
    /\ removals' = removals + 1
    /\ UNCHANGED <<db, listening>>

\* Mutation: the new crowd comes first in the list.
ChildAddedFirst(id) ==
    /\ id = Min(Fresh)
    /\ crowds' = <<id>> \o crowds
    /\ markers' = Append(markers, crowds'[Len(markers) + 1])
    /\ UNCHANGED <<db, listening, gap, removals>>

\* child_added: a marker is mounted at the last position.
ChildAdded(id) ==
    /\ id = Min(Fresh)
    /\ crowds' = Append(crowds, id)
    /\ markers' = Append(markers, id)
    /\ UNCHANGED <<db, listening, gap, removals>>

\* Removals are raised before additions, each in the order of the keys.
Raise ==
    \/ Gone # {} /\ \E id \in Gone : ChildRemoved(id)
    \/ Gone = {} /\ \E id \in Fresh : ChildAdded(id)

Next ==
    \/ \E new \in SUBSET Ids : Sync(new)
    \/ Listen
    \/ Raise

Spec == Init /\ [][Next]_vars

\* The SDK answers the first query and raises the events it has.
FairSpec == Spec /\ WF_vars(Listen) /\ WF_vars(Raise)

-----------------------------------------------------------------------------
\* The crowds before the first position a crowd was ever removed from have
\* their own markers; all of them do while nothing was removed.
UntouchedPrefix ==
    \A i \in DOMAIN crowds : i < gap => markers[i] = crowds[i]

\* Each removal costs at most one crowd its marker.
LossIsBounded ==
    Cardinality(Range(crowds) \ Range(markers)) <= removals

\* The list of crowds is what the roster promises.
R == INSTANCE Roster WITH shown <- Range(crowds)
FollowsRoster == R!Spec
=============================================================================
