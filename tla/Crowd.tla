------------------------------- MODULE Crowd -------------------------------
(***************************************************************************)
(* The nodes Crowd/<id> of the Firebase Realtime Database, through which   *)
(* the dispatchers' phones and the web map talk to each other, and the     *)
(* child_changed events the Firebase SDK raises for such a node.           *)
(*                                                                         *)
(* A location (latitude, longitude and the time of the fix, so that each   *)
(* fix differs from the last) is a member of Places when its latitude is   *)
(* not 0, and Nowhere when it is the <<0, 0>> a phone registers with:      *)
(* JavaScript takes a latitude of 0 for false, so the map tells exactly    *)
(* these apart.                                                            *)
(***************************************************************************)

CONSTANTS
    Undefined,  \* a child the node does not have
    Places,     \* locations with a latitude other than 0
    Nowhere,    \* the location lat 0, lng 0
    Counts,     \* values of numberOfPeople (numbers, or strings of digits)
    NoOne,      \* the count 0
    Campaigns   \* campaign ids, none of them a numeral

Status == {"Active", "inActive", "InActive"}

\* The four kinds of value are told apart by the handler of the map, which
\* looks at the value of a changed child and never at its key.
ASSUME CrowdValues ==
    /\ Places \cap Counts = {} /\ Places \cap Campaigns = {}
    /\ Counts \cap Campaigns = {}
    /\ NoOne \in Counts
    /\ Nowhere \notin Places \cup Counts \cup Campaigns
    /\ Undefined \notin Places \cup Counts \cup Campaigns \cup Status
    /\ Undefined # Nowhere /\ Undefined # "Terminated"
    /\ (Status \cup {"Terminated"})
         \cap (Places \cup Counts \cup Campaigns \cup {Nowhere}) = {}

Node ==
    [campaign_id    : Campaigns \cup {Undefined},
     location       : Places \cup {Nowhere, Undefined},
     numberOfPeople : Counts \cup {Undefined},
     status         : Status \cup {Undefined}]

\* The SDK raises child_changed for a child that was there before, is there
\* now and differs: not for one that appears (child_added) or disappears
\* (child_removed).
ChildChanged(old, new, child) ==
    /\ old[child] # Undefined
    /\ new[child] # Undefined
    /\ old[child] # new[child]

-----------------------------------------------------------------------------
(* What the two phone apps leave in a node. *)

\* VerificationActivity registers a dispatcher. The campaign is missing when
\* Android has restored the activity in a new process.
Registered(c) ==
    [campaign_id    |-> c,
     location       |-> Nowhere,
     numberOfPeople |-> NoOne,
     status         |-> "InActive"]

\* The Android app replaces the node as a whole: when it registers, at every
\* fix, and at Stop, which before the first fix of the activity writes neither
\* a campaign nor a location.
TafweejNodes ==
    {Registered(c) : c \in Campaigns \cup {Undefined}}
      \cup [campaign_id : Campaigns \cup {Undefined}, location : Places,
            numberOfPeople : Counts, status : Status]
      \cup [campaign_id : {Undefined}, location : {Undefined},
            numberOfPeople : Counts, status : {"inActive"}]

\* The iOS app creates the node with a campaign only and then sets one child
\* at a time; it never removes one. A node created anew by a phone whose
\* entry was deleted has no campaign.
HajjAppNodes ==
    [campaign_id    : Campaigns \cup {Undefined},
     location       : Places \cup {Undefined},
     numberOfPeople : Counts \cup {Undefined},
     status         : {"Active", "inActive", Undefined}]

HajjAppWrites(node) ==
    {[node EXCEPT !.location = p] : p \in Places}
      \cup {[node EXCEPT !.numberOfPeople = n] : n \in Counts}
      \cup {[node EXCEPT !.status = s] : s \in {"Active", "inActive"}}
=============================================================================
