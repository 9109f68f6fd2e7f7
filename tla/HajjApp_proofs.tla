--------------------------- MODULE HajjApp_proofs ---------------------------
(***************************************************************************)
(* Proofs about HajjApp, for any number of entries, of logins that run at  *)
(* the same time, and of writes and events under way.                      *)
(*                                                                         *)
(* What the server holds depends on what is still in the queue: an entry   *)
(* is created before it is written to only because the creation is ahead   *)
(* of the other writes in the queue, or was lost with them. IInv says so.  *)
(***************************************************************************)
EXTENDS HajjApp, TLAPS, SequenceTheorems, WellFoundedInduction

Values == [crowd_id : Ids, node : HajjAppNodes]

-----------------------------------------------------------------------------
(* The invariant. *)

Creates(w, id) == w.crowd_id = id /\ w.child = "campaign_id"

\* An entry that has its campaign, or will get it by what is in the queue.
Born(id) ==
    \/ crowd[id].campaign_id # Undefined
    \/ \E n \in DOMAIN pending : Creates(pending[n], id)

\* An id the app holds.
Held(id) == id # Undefined => id \in made /\ (id \in wiped \/ Born(id))

\* A write in the queue: a creation finds nothing there, any other finds the
\* campaign.
Timely(n) ==
    LET id == pending[n].crowd_id
    IN  /\ id \in made
        /\ IF pending[n].child = "campaign_id"
           THEN crowd[id] = Absent /\ \A m \in 1..(n - 1) : pending[m].crowd_id # id
           ELSE \/ id \in wiped
                \/ crowd[id].campaign_id # Undefined
                \/ \E m \in 1..(n - 1) : Creates(pending[m], id)

Entries ==
    /\ \A id \in Ids \ made : crowd[id] = Absent
    /\ \A n \in DOMAIN pending : Timely(n)
    /\ Held(saved)
    /\ Held(campaign)
    /\ \A n \in DOMAIN pushes : Held(pushes[n])
    /\ EntryHasCampaign

\* What is saved is what HomeVC has or will get.
Session ==
    /\ ~alive => pushes = <<>>
    /\ pushes # <<>> => pushes[Len(pushes)] = saved
    /\ SavedIsCurrent

IInv == TypeOK /\ Entries /\ Session /\ AlwaysTracked

-----------------------------------------------------------------------------
(* Nodes and writes. *)

\* A set of indices has a largest one.
LEMMA MaxOfIndices ==
    ASSUME NEW n \in Nat, NEW T \in SUBSET (1..n), T # {}
    PROVE  Max(T) \in T /\ \A y \in T : Max(T) >= y
<1> DEFINE D == {n - x : x \in T}
<1>1. D \subseteq Nat /\ D # {}
  <2>1. \A x \in T : n - x \in Nat
    OBVIOUS
  <2> QED
    BY <2>1
<1>2. PICK d \in D : \A e \in D : ~(<<e, d>> \in OpToRel(<, Nat))
  <2> HIDE DEF D
  <2> QED
    BY <1>1, NatLessThanWellFounded, WFMin
<1>3. \A e \in D : ~(e < d)
  BY <1>1, <1>2 DEF OpToRel
<1>4. PICK x \in T : d = n - x
  OBVIOUS
<1>5. \A y \in T : x >= y
  <2> SUFFICES ASSUME NEW y \in T PROVE x >= y
    OBVIOUS
  <2>1. ~(n - y < n - x)
    BY <1>3, <1>4
  <2>2. x \in 1..n /\ y \in 1..n
    OBVIOUS
  <2> QED
    BY <2>1, <2>2
<1> QED
  BY <1>5 DEF Max

\* What an entry can be, kind by kind.
LEMMA AbsentType == Absent \in HajjAppNodes
BY DEF Absent, HajjAppNodes

\* A write makes of an entry what MyMarker expects, or gives it a campaign.
LEMMA AppliedType ==
    ASSUME NEW node \in HajjAppNodes, NEW w \in Writes
    PROVE  /\ Applied(node, w) \in HajjAppNodes
           /\ w.child # "campaign_id" =>
                /\ Applied(node, w) \in HajjAppWrites(node)
                /\ Applied(node, w).campaign_id = node.campaign_id
           /\ w.child = "campaign_id" =>
                /\ w.value \in Campaigns
                /\ Applied(node, w) = [node EXCEPT !.campaign_id = w.value]
                /\ Applied(node, w).campaign_id = w.value
<1>1. CASE w \in [crowd_id : Ids, child : {"campaign_id"}, value : Campaigns]
  BY <1>1 DEF Applied, HajjAppNodes
<1>2. CASE w \in [crowd_id : Ids, child : {"location"}, value : Places]
  BY <1>2 DEF Applied, HajjAppNodes, HajjAppWrites
<1>3. CASE w \in [crowd_id : Ids, child : {"numberOfPeople"}, value : Counts]
  BY <1>3 DEF Applied, HajjAppNodes, HajjAppWrites
<1>4. CASE w \in [crowd_id : Ids, child : {"status"}, value : {"Active", "inActive"}]
  BY <1>4 DEF Applied, HajjAppNodes, HajjAppWrites
<1> QED
  BY <1>1, <1>2, <1>3, <1>4 DEF Writes

\* Each child has its kind of value.
LEMMA WriteKinds ==
    ASSUME NEW w \in Writes
    PROVE  /\ w.crowd_id \in Ids
           /\ w.child = "campaign_id" => w.value \in Campaigns
           /\ w.child = "location" => w.value \in Places
           /\ w.child = "numberOfPeople" => w.value \in Counts
           /\ w.child = "status" => w.value \in {"Active", "inActive"}
BY DEF Writes

\* The last value for a child in the queue is one of its kind.
LEMMA LatestType ==
    ASSUME TypeOK, NEW id \in Ids, NEW child, NEW value
    PROVE  \/ Latest(id, child, value) = value
           \/ \E n \in DOMAIN pending : /\ pending[n] \in Writes
                                        /\ pending[n].child = child
                                        /\ Latest(id, child, value) = pending[n].value
<1> DEFINE own == {i \in DOMAIN pending :
                     pending[i].crowd_id = id /\ pending[i].child = child}
<1>1. /\ Len(pending) \in Nat
      /\ DOMAIN pending = 1..Len(pending)
      /\ \A n \in DOMAIN pending : pending[n] \in Writes
  BY LenProperties, ElementOfSeq DEF TypeOK
<1>2. CASE own = {}
  BY <1>2 DEF Latest
<1>3. CASE own # {}
  <2>1. Max(own) \in own
    <3>1. own \in SUBSET (1..Len(pending))
      BY <1>1
    <3> HIDE DEF own
    <3> QED
      BY <1>1, <1>3, <3>1, MaxOfIndices
  <2>2. Latest(id, child, value) = pending[Max(own)].value
    BY <1>3 DEF Latest
  <2> QED
    BY <1>1, <2>1, <2>2
<1> QED
  BY <1>2, <1>3

\* What the phone sees is an entry.
LEMMA OverlaidType ==
    ASSUME TypeOK, NEW id \in Ids, NEW node \in HajjAppNodes
    PROVE  Overlaid(id, node) \in HajjAppNodes
<1>1. Latest(id, "campaign_id", node.campaign_id) \in Campaigns \cup {Undefined}
  BY LatestType, WriteKinds DEF HajjAppNodes
<1>2. Latest(id, "location", node.location) \in Places \cup {Undefined}
  BY LatestType, WriteKinds DEF HajjAppNodes
<1>3. Latest(id, "numberOfPeople", node.numberOfPeople) \in Counts \cup {Undefined}
  BY LatestType, WriteKinds DEF HajjAppNodes
<1>4. Latest(id, "status", node.status) \in {"Active", "inActive", Undefined}
  BY LatestType, WriteKinds DEF HajjAppNodes
<1> QED
  BY <1>1, <1>2, <1>3, <1>4 DEF Overlaid, HajjAppNodes

\* As it stands in the database with the queue on top.
LEMMA ViewType ==
    ASSUME TypeOK, NEW id \in Ids
    PROVE  View(id) \in HajjAppNodes
BY OverlaidType DEF View, TypeOK

\* An event is one more value, or none.
LEMMA RaisedType ==
    ASSUME TypeOK, NEW id \in Ids, NEW old, NEW new \in HajjAppNodes
    PROVE  Raised(id, old, new) \in Seq(Values)
<1>1. [crowd_id |-> id, node |-> new] \in Values
  BY DEF Values
<1>2. events \in Seq(Values)
  BY DEF TypeOK, Values
<1>3. Append(events, [crowd_id |-> id, node |-> new]) \in Seq(Values)
  BY <1>1, <1>2, AppendProperties
<1> QED
  BY <1>2, <1>3 DEF Raised

-----------------------------------------------------------------------------
(* Steps that several handlers share. *)

\* The invariant starts out true.
LEMMA IInvInit == Init => IInv
<1> SUFFICES ASSUME Init PROVE IInv
  OBVIOUS
<1>1. TypeOK
  BY EmptySeq, AbsentType DEF Init, TypeOK
<1>2. Entries
  BY DEF Init, Entries, Held, EntryHasCampaign
<1>3. Session /\ AlwaysTracked
  BY DEF Init, Session, SavedIsCurrent, AlwaysTracked
<1> QED
  BY <1>1, <1>2, <1>3 DEF IInv

\* The queue, index by index.
LEMMA QueueType ==
    ASSUME TypeOK
    PROVE  /\ Len(pending) \in Nat
           /\ DOMAIN pending = 1..Len(pending)
           /\ \A n \in DOMAIN pending : pending[n] \in Writes /\ pending[n].crowd_id \in Ids
BY LenProperties, ElementOfSeq, WriteKinds DEF TypeOK

\* The steps that touch nothing Entries speaks of.
LEMMA SameEntries ==
    ASSUME Entries, UNCHANGED <<crowd, wiped, made, saved, campaign, pushes, pending>>
    PROVE  Entries'
BY DEF Entries, Held, Born, Timely, EntryHasCampaign

\* Nor does Session.
LEMMA SameSession ==
    ASSUME Session, UNCHANGED <<alive, saved, campaign, pushes>>
    PROVE  Session'
BY DEF Session, SavedIsCurrent

\* The handlers that touch neither what is stored nor what is held.
LEMMA Idle ==
    ASSUME IInv, TypeOK', AlwaysTracked',
           UNCHANGED <<crowd, wiped, made, alive, saved, campaign, pushes, pending>>
    PROVE  IInv'
BY SameEntries, SameSession DEF IInv

\* One more write at the end of the queue leaves the earlier ones as they are.
LEMMA Appended ==
    ASSUME TypeOK, NEW w \in Writes, pending' = Append(pending, w),
           UNCHANGED <<crowd, wiped>>, made \subseteq made'
    PROVE  /\ pending' \in Seq(Writes)
           /\ DOMAIN pending' = 1..(Len(pending) + 1)
           /\ \A n \in DOMAIN pending : pending'[n] = pending[n]
           /\ pending'[Len(pending) + 1] = w
           /\ \A id : Born(id) => Born(id)'
           /\ \A n \in DOMAIN pending : Timely(n) => Timely(n)'
<1>1. /\ pending' \in Seq(Writes)
      /\ Len(pending) \in Nat
      /\ DOMAIN pending = 1..Len(pending)
      /\ DOMAIN pending' = 1..(Len(pending) + 1)
      /\ \A n \in DOMAIN pending : pending'[n] = pending[n]
      /\ pending'[Len(pending) + 1] = w
  BY AppendProperties, LenProperties DEF TypeOK
<1>2. \A id : Born(id) => Born(id)'
  BY <1>1 DEF Born
<1>3. \A n \in DOMAIN pending : Timely(n) => Timely(n)'
  <2> SUFFICES ASSUME NEW n \in DOMAIN pending, Timely(n) PROVE Timely(n)'
    OBVIOUS
  <2>1. pending'[n] = pending[n] /\ \A m \in 1..(n - 1) : pending'[m] = pending[m]
    BY <1>1
  <2> QED
    BY <2>1 DEF Timely
<1> QED
  BY <1>1, <1>2, <1>3

\* A tap or a fix writes to the entry of the campaign, which is or will be there.
LEMMA Written ==
    ASSUME IInv, NEW child, NEW value,
           \A id \in Ids : [crowd_id |-> id, child |-> child, value |-> value] \in Writes,
           child # "campaign_id",
           Write(child, value), homes' \in Seq(Homes),
           UNCHANGED <<stored, process, account, campaign>>
    PROVE  IInv'
<1> USE DEF stored, process, account
<1>1. CASE campaign = Undefined
  <2>1. TypeOK' /\ AlwaysTracked'
    BY <1>1 DEF IInv, TypeOK, Write, sdk, AlwaysTracked
  <2> QED
    BY <1>1, <2>1, Idle DEF Write, sdk
<1>2. CASE campaign # Undefined
  <2> DEFINE w == [crowd_id |-> campaign, child |-> child, value |-> value]
  <2>1. campaign \in Ids /\ w \in Writes
    BY <1>2 DEF IInv, TypeOK
  <2>2. pending' = Append(pending, w)
    BY <1>2 DEF Write
  <2>3. w.crowd_id = campaign /\ w.child = child
    OBVIOUS
  <2>4. events' \in Seq(Values)
    <3>1. Applied(View(campaign), w) \in HajjAppNodes
      BY <2>1, ViewType, AppliedType DEF IInv
    <3>2. events' = Raised(campaign, View(campaign), Applied(View(campaign), w))
      BY <1>2 DEF Write
    <3> QED
      BY <2>1, <3>1, <3>2, RaisedType DEF IInv
  <2> HIDE DEF w
  <2>5. /\ pending' \in Seq(Writes)
        /\ DOMAIN pending' = 1..(Len(pending) + 1)
        /\ \A n \in DOMAIN pending : pending'[n] = pending[n]
        /\ pending'[Len(pending) + 1] = w
        /\ \A id : Born(id) => Born(id)'
        /\ \A n \in DOMAIN pending : Timely(n) => Timely(n)'
    BY <2>1, <2>2, Appended DEF IInv
  <2>6. TypeOK'
    BY <2>4, <2>5 DEF IInv, TypeOK, Values
  <2>7. PICK k \in Nat : k = Len(pending) /\ DOMAIN pending = 1..k
    BY QueueType DEF IInv
  <2>8. Timely(k + 1)'
    <3>1. campaign \in made' /\ (campaign \in wiped' \/ Born(campaign))
      BY <1>2 DEF IInv, Entries, Held
    <3>2. 1..(k + 1 - 1) = DOMAIN pending
      BY <2>7
    <3>3. Born(campaign) => \/ crowd'[campaign].campaign_id # Undefined
                            \/ \E m \in 1..(k + 1 - 1) : Creates(pending'[m], campaign)
      BY <2>5, <3>2 DEF Born
    <3>4. pending'[k + 1].crowd_id = campaign /\ pending'[k + 1].child # "campaign_id"
      BY <2>3, <2>5, <2>7
    <3> QED
      BY <3>1, <3>3, <3>4 DEF Timely
  <2>9. Entries'
    <3>1. \A n \in DOMAIN pending' : Timely(n)'
      <4>1. \A n \in 1..(k + 1) : n \in DOMAIN pending \/ n = k + 1
        BY <2>7
      <4>2. \A n \in DOMAIN pending : Timely(n)'
        BY <2>5 DEF IInv, Entries
      <4> QED
        BY <2>5, <2>7, <2>8, <4>1, <4>2
    <3>2. Held(saved)' /\ Held(campaign)' /\ \A n \in DOMAIN pushes' : Held(pushes[n])'
      BY <2>5 DEF IInv, Entries, Held
    <3> QED
      BY <3>1, <3>2 DEF IInv, Entries, EntryHasCampaign
  <2> QED
    BY <2>6, <2>9, SameSession DEF IInv, AlwaysTracked
<1> QED
  BY <1>1, <1>2

\* The end of the process: an id that is saved has its campaign, or its
\* creation is lost.
LEMMA Death ==
    ASSUME IInv, Die, sources' \subseteq {"standard", "significant"},
           UNCHANGED <<crowd, online, signedIn, saved, made>>
    PROVE  IInv'
<1>1. wiped \subseteq wiped' /\ wiped' \subseteq Ids
  BY QueueType DEF IInv, TypeOK, Die
<1>2. TypeOK'
  BY <1>1, EmptySeq DEF IInv, TypeOK, Die
<1>3. Held(saved)'
  <2> SUFFICES ASSUME saved # Undefined PROVE saved \in made' /\ (saved \in wiped' \/ Born(saved)')
    BY DEF Held, Die
  <2>1. saved \in made /\ (saved \in wiped \/ Born(saved))
    BY DEF IInv, Entries, Held
  <2>2. ASSUME NEW n \in DOMAIN pending, Creates(pending[n], saved)
        PROVE  saved \in wiped'
    BY <2>2 DEF Die, Creates
  <2> QED
    BY <1>1, <2>1, <2>2 DEF Born
<1>4. Entries'
  BY <1>1, <1>3 DEF IInv, Entries, Held, Die, EntryHasCampaign
<1>5. Session' /\ AlwaysTracked'
  BY DEF Die, Session, SavedIsCurrent, AlwaysTracked
<1> QED
  BY <1>2, <1>4, <1>5 DEF IInv

-----------------------------------------------------------------------------
(* The SDK. *)

\* The oldest write reaches the server: it finds what Timely says.
LEMMA DeliverStep ==
    ASSUME IInv, Deliver
    PROVE  IInv'
<1> PICK w, id : w = pending[1] /\ id = w.crowd_id
  OBVIOUS
<1>1. /\ Head(pending) = w
      /\ w \in Writes /\ id \in Ids
      /\ pending' \in Seq(Writes)
  BY HeadTailProperties, QueueType, EmptySeq DEF IInv, TypeOK, Deliver
<1>2. PICK k \in Nat : DOMAIN pending = 1..(k + 1) /\ DOMAIN pending' = 1..k
                       /\ \A n \in 1..k : pending'[n] = pending[n + 1]
  <2>1. /\ pending \in Seq(Writes) /\ pending # <<>> /\ pending' = Tail(pending)
        /\ Len(pending) \in Nat \ {0}
    BY EmptySeq DEF IInv, TypeOK, Deliver
  <2>2. PICK k \in Nat : Len(pending) = k + 1
    BY <2>1
  <2>3. DOMAIN pending = 1..(k + 1) /\ DOMAIN pending' = 1..k
        /\ \A n \in 1..k : pending'[n] = pending[n + 1]
    BY <2>1, <2>2, HeadTailProperties, LenProperties
  <2> QED
    BY <2>3
<1>3. /\ crowd' = [crowd EXCEPT ![id] = Applied(crowd[id], w)]
      /\ crowd \in [Ids -> HajjAppNodes]
  BY <1>1 DEF Deliver, IInv, TypeOK
<1>4. crowd' \in [Ids -> HajjAppNodes]
  BY <1>1, <1>3, AppliedType
<1>5. \A i \in Ids : crowd[i].campaign_id # Undefined => crowd'[i].campaign_id # Undefined
  BY SMTT(60), <1>1, <1>3, AppliedType, CrowdValues
<1>6. w.child = "campaign_id" => crowd'[id].campaign_id # Undefined
  <2>1. crowd'[id] = Applied(crowd[id], w)
    BY <1>1, <1>3
  <2>2. w.child = "campaign_id" =>
          Applied(crowd[id], w).campaign_id = w.value /\ w.value \in Campaigns
    BY <1>1, <1>3, AppliedType
  <2> QED
    BY <2>1, <2>2, CrowdValues
<1>7. \A n \in 1..(k + 1) : Timely(n)
  BY <1>2 DEF IInv, Entries
<1>8. id \in made
  BY <1>2, <1>7 DEF Timely
<1>9. made' = made /\ wiped' = wiped /\ saved' = saved /\ campaign' = campaign /\ pushes' = pushes
      /\ alive' = alive
  BY DEF Deliver, stored, account, session, process
<1>10. \A i \in Ids : Born(i) => Born(i)'
  <2> SUFFICES ASSUME NEW i \in Ids, Born(i) PROVE Born(i)'
    OBVIOUS
  <2>1. CASE crowd[i].campaign_id # Undefined
    BY <1>5, <2>1 DEF Born
  <2>2. CASE \E n \in DOMAIN pending : Creates(pending[n], i)
    <3>1. PICK n \in 1..(k + 1) : Creates(pending[n], i)
      BY <1>2, <2>2
    <3>2. CASE n = 1
      BY <1>6, <3>1, <3>2 DEF Creates, Born
    <3>3. CASE n # 1
      <4>1. n - 1 \in DOMAIN pending' /\ pending'[n - 1] = pending[n]
        BY <1>2, <3>3
      <4> QED
        BY <3>1, <4>1 DEF Born
    <3> QED
      BY <3>2, <3>3
  <2> QED
    BY <2>1, <2>2 DEF Born
<1>11. \A n \in 1..k : Timely(n)'
  <2> SUFFICES ASSUME NEW n \in 1..k PROVE Timely(n)'
    OBVIOUS
  <2>1. /\ Timely(n + 1)
        /\ pending'[n] = pending[n + 1]
        /\ n + 1 \in DOMAIN pending
        /\ \A m \in 1..(n - 1) : m + 1 \in 1..(n + 1 - 1) /\ pending'[m] = pending[m + 1]
    BY <1>2, <1>7
  <2> PICK u, j : u = pending[n + 1] /\ j = u.crowd_id
    OBVIOUS
  <2>2. j \in Ids
    BY <2>1, QueueType DEF IInv
  <2>3. CASE u.child = "campaign_id"
    <3>1. /\ crowd[j] = Absent
          /\ j \in made
          /\ \A m \in 1..(n + 1 - 1) : pending[m].crowd_id # j
      BY <2>1, <2>3 DEF Timely
    <3>2. 1 \in 1..(n + 1 - 1)
      OBVIOUS
    <3>3. crowd'[j] = Absent
      BY <1>3, <2>2, <3>1, <3>2
    <3>4. \A m \in 1..(n - 1) : pending'[m].crowd_id # j
      BY <2>1, <3>1
    <3> QED
      BY <1>9, <2>1, <2>3, <3>1, <3>3, <3>4 DEF Timely
  <2>4. CASE u.child # "campaign_id"
    <3>1. /\ j \in made
          /\ \/ j \in wiped
             \/ crowd[j].campaign_id # Undefined
             \/ \E m \in 1..(n + 1 - 1) : Creates(pending[m], j)
      BY <2>1, <2>4 DEF Timely
    <3>2. ASSUME NEW m \in 1..(n + 1 - 1), Creates(pending[m], j)
          PROVE  \/ crowd'[j].campaign_id # Undefined
                 \/ \E l \in 1..(n - 1) : Creates(pending'[l], j)
      <4>1. CASE m = 1
        BY <1>6, <3>2, <4>1 DEF Creates
      <4>2. CASE m # 1
        <5>1. m - 1 \in 1..(n - 1) /\ (m - 1) + 1 = m
          BY <4>2
        <5> QED
          BY <2>1, <3>2, <5>1
      <4> QED
        BY <4>1, <4>2
    <3>3. \/ j \in wiped
          \/ crowd'[j].campaign_id # Undefined
          \/ \E l \in 1..(n - 1) : Creates(pending'[l], j)
      BY <1>5, <2>2, <3>1, <3>2
    <3> QED
      BY <1>9, <2>1, <2>4, <3>1, <3>3 DEF Timely
  <2> QED
    BY <2>3, <2>4
<1>12. EntryHasCampaign'
  <2> SUFFICES ASSUME NEW i \in Ids \ wiped, crowd'[i] # Absent
               PROVE  crowd'[i].campaign_id # Undefined
    BY <1>9 DEF EntryHasCampaign
  <2>1. CASE i # id
    BY <1>3, <2>1 DEF IInv, Entries, EntryHasCampaign
  <2>2. CASE i = id /\ w.child = "campaign_id"
    BY <1>6, <2>2
  <2>3. CASE i = id /\ w.child # "campaign_id"
    <3>1. crowd[id].campaign_id # Undefined
      BY <1>7, <2>3 DEF Timely
    <3> QED
      BY <1>5, <2>3, <3>1
  <2> QED
    BY <2>1, <2>2, <2>3
<1>13. \A i \in Ids \ made' : crowd'[i] = Absent
  BY <1>3, <1>8, <1>9 DEF IInv, Entries
<1>14. Held(saved)' /\ Held(campaign)' /\ \A n \in DOMAIN pushes' : Held(pushes[n])'
  <2>1. \A n \in DOMAIN pushes : pushes[n] \in Ids
    BY LenProperties, ElementOfSeq DEF IInv, TypeOK
  <2>2. saved # Undefined => saved \in Ids
    BY DEF IInv, TypeOK
  <2>3. campaign # Undefined => campaign \in Ids
    BY DEF IInv, TypeOK
  <2> QED
    BY <1>9, <1>10, <2>1, <2>2, <2>3 DEF IInv, Entries, Held
<1>15. Entries'
  BY <1>2, <1>11, <1>12, <1>13, <1>14 DEF Entries
<1>16. TypeOK'
  BY <1>1, <1>4 DEF IInv, TypeOK, Deliver, process, account, session
<1> QED
  BY <1>9, <1>15, <1>16, SameSession DEF IInv, AlwaysTracked, Deliver, process

\* A deleted entry is out of what Entries promises.
LEMMA DeleteStep ==
    ASSUME IInv, NEW id \in Ids, Delete(id)
    PROVE  IInv'
<1>1. /\ crowd' = [crowd EXCEPT ![id] = Absent]
      /\ wiped' = wiped \cup {id}
      /\ UNCHANGED <<online, process, account, session, pending>>
  BY DEF Delete
<1>2. crowd' \in [Ids -> HajjAppNodes]
  BY <1>1, AbsentType DEF IInv, TypeOK
<1>3. events' \in Seq(Values)
  BY OverlaidType, AbsentType, RaisedType DEF IInv, Delete
<1>4. TypeOK'
  BY <1>1, <1>2, <1>3 DEF IInv, TypeOK, process, account, session, Values
<1>5. \A i \in Ids : i # id => crowd'[i] = crowd[i] /\ (Born(i) => Born(i)')
  BY <1>1 DEF IInv, TypeOK, Born
<1>6. \A n \in DOMAIN pending' : Timely(n)'
  <2> SUFFICES ASSUME NEW n \in DOMAIN pending, Timely(n) PROVE Timely(n)'
    BY <1>1 DEF IInv, Entries
  <2>1. pending[n].crowd_id \in Ids
    BY QueueType DEF IInv
  <2>2. crowd'[id] = Absent
    BY <1>1 DEF IInv, TypeOK
  <2>3. made' = made
    BY <1>1 DEF account
  <2> QED
    BY <1>1, <1>5, <2>1, <2>2, <2>3 DEF Timely
<1>7. Held(saved)' /\ Held(campaign)' /\ \A n \in DOMAIN pushes' : Held(pushes[n])'
  <2>1. \A n \in DOMAIN pushes : pushes[n] \in Ids
    BY LenProperties, ElementOfSeq DEF IInv, TypeOK
  <2>2. ASSUME NEW i \in Ids, Held(i)
        PROVE  i \in made /\ (i \in wiped' \/ Born(i)')
    BY <1>1, <1>5, <2>2, IdAssumption DEF Held
  <2>3. saved # Undefined => saved \in Ids
    BY DEF IInv, TypeOK
  <2>4. campaign # Undefined => campaign \in Ids
    BY DEF IInv, TypeOK
  <2> QED
    BY <1>1, <2>1, <2>2, <2>3, <2>4 DEF IInv, Entries, Held, account, session
<1>8. EntryHasCampaign' /\ \A i \in Ids \ made' : crowd'[i] = Absent
  BY <1>1, <1>5 DEF IInv, TypeOK, Entries, EntryHasCampaign, account
<1>9. Entries'
  BY <1>6, <1>7, <1>8 DEF Entries
<1> QED
  BY <1>1, <1>4, <1>9, SameSession DEF IInv, AlwaysTracked, process, account, session

-----------------------------------------------------------------------------
(* AppDelegate *)

\* A screen starts out with nothing.
LEMMA NewHomeType ==
    ASSUME NEW id \in Ids \cup {Undefined}
    PROVE  NewHome(id) \in Homes
BY DEF NewHome, Homes

\* The campaign is what was saved.
LEMMA LaunchStep ==
    ASSUME IInv, didFinishLaunching
    PROVE  IInv'
<1> USE DEF stored, account, sdk
<1>1. homes' \in Seq(Homes)
  <2>1. NewHome(saved) \in Homes
    BY NewHomeType DEF IInv, TypeOK
  <2>2. <<NewHome(saved)>> \in Seq(Homes) /\ <<>> \in Seq(Homes)
    BY <2>1, EmptySeq
  <2> QED
    BY <2>2 DEF didFinishLaunching
<1>2. TypeOK'
  BY <1>1 DEF IInv, TypeOK, didFinishLaunching
<1>3. Entries'
  BY DEF IInv, Entries, Held, Born, Timely, EntryHasCampaign, didFinishLaunching
<1>4. Session'
  BY DEF IInv, Session, SavedIsCurrent, didFinishLaunching
<1>5. AlwaysTracked'
  BY DEF AlwaysTracked, didFinishLaunching
<1> QED
  BY <1>2, <1>3, <1>4, <1>5 DEF IInv

\* To the background and back.
LEMMA GroundStep ==
    ASSUME IInv, applicationDidEnterBackground \/ applicationWillEnterForeground
    PROVE  IInv'
<1> USE DEF stored, account, session, sdk,
            applicationDidEnterBackground, applicationWillEnterForeground
<1>1. TypeOK'
  BY DEF IInv, TypeOK
<1>2. AlwaysTracked'
  BY DEF AlwaysTracked
<1> QED
  BY <1>1, <1>2, Idle

\* A crash, or the end that iOS announces.
LEMMA DeathStep ==
    ASSUME IInv, Kill \/ applicationWillTerminate
    PROVE  IInv'
<1>1. sources' \subseteq {"standard", "significant"}
  BY DEF IInv, TypeOK, Kill, applicationWillTerminate
<1> QED
  BY <1>1, Death DEF Kill, applicationWillTerminate

\* A process that does not run holds nothing but what is saved.
LEMMA ReinstallStep ==
    ASSUME IInv, Reinstall
    PROVE  IInv'
<1> USE DEF stored, session, sdk
<1>1. TypeOK'
  BY DEF IInv, TypeOK, Reinstall
<1>2. Entries'
  BY DEF IInv, Entries, Held, Born, Timely, EntryHasCampaign, Reinstall
<1>3. Session' /\ AlwaysTracked'
  BY DEF IInv, Session, SavedIsCurrent, AlwaysTracked, Reinstall
<1> QED
  BY <1>1, <1>2, <1>3 DEF IInv

\* A location is one more write.
LEMMA LocationStep ==
    ASSUME IInv, NEW place \in Places, didUpdateLocations(place)
    PROVE  IInv'
<1>1. \A id \in Ids : [crowd_id |-> id, child |-> "location", value |-> place] \in Writes
  BY DEF Writes
<1>2. homes' \in Seq(Homes)
  BY DEF IInv, TypeOK, didUpdateLocations, session
<1> QED
  BY <1>1, <1>2, Written DEF didUpdateLocations, session

-----------------------------------------------------------------------------
(* ViewController *)

\* What happens to the taps on Login before the sign-in is completed.
LEMMA LoginsType ==
    ASSUME TypeOK, NEW k \in DOMAIN logins
    PROVE  /\ RemoveAt(logins, k) \in Seq(Logins)
           /\ \A step \in {"asked", "signing", "signed"} :
                [logins EXCEPT ![k].step = step] \in Seq(Logins)
           /\ logins[k].campaign_id \in Campaigns
<1>1. /\ logins \in Seq(Logins)
      /\ Len(logins) \in Nat
      /\ DOMAIN logins = 1..Len(logins)
      /\ \A n \in DOMAIN logins : logins[n] \in Logins
  BY LenProperties, ElementOfSeq DEF TypeOK
<1>2. SubSeq(logins, 1, k - 1) \in Seq(Logins)
  <2>1. \A n \in 1..(k - 1) : logins[n] \in Logins
    BY <1>1
  <2> QED
    BY <1>1, <2>1, SubSeqProperties
<1>3. SubSeq(logins, k + 1, Len(logins)) \in Seq(Logins)
  <2>1. \A n \in (k + 1)..Len(logins) : logins[n] \in Logins
    BY <1>1
  <2> QED
    BY <1>1, <2>1, SubSeqProperties
<1>4. RemoveAt(logins, k) \in Seq(Logins)
  BY <1>2, <1>3, ConcatProperties DEF RemoveAt
<1>5. ASSUME NEW step \in {"asked", "signing", "signed"}
      PROVE  [logins EXCEPT ![k].step = step] \in Seq(Logins)
  <2>1. [logins[k] EXCEPT !.step = step] \in Logins
    BY <1>1 DEF Logins
  <2>2. [logins EXCEPT ![k] = [logins[k] EXCEPT !.step = step]] \in Seq(Logins)
    BY <1>1, <2>1, ExceptSeq
  <2> QED
    BY <2>2
<1> QED
  BY <1>1, <1>4, <1>5 DEF Logins

\* A tap on Login, the answer and the sign-in hold no id yet.
LEMMA LoginStep ==
    ASSUME IInv,
           \/ \E c \in Campaigns, number \in Phones : loginHandler(c, number)
           \/ \E k \in DOMAIN logins : Answered(k) \/ SignIn(k) \/ SignInFails(k)
    PROVE  IInv'
<1> USE DEF stored, process, session, sdk
<1>1. CASE \E c \in Campaigns, number \in Phones : loginHandler(c, number)
  <2>1. PICK c \in Campaigns, number \in Phones : loginHandler(c, number)
    BY <1>1
  <2> DEFINE l == [campaign_id |-> c, number |-> number, step |-> "asked"]
  <2>2. l \in Logins
    BY DEF Logins
  <2>3. logins' = Append(logins, l)
    BY <2>1 DEF loginHandler
  <2> HIDE DEF l
  <2>4. logins' \in Seq(Logins)
    BY <2>2, <2>3, AppendProperties DEF IInv, TypeOK
  <2>5. TypeOK' /\ AlwaysTracked'
    BY <2>1, <2>4 DEF IInv, TypeOK, AlwaysTracked, loginHandler
  <2> QED
    BY <2>1, <2>5, Idle DEF loginHandler
<1>2. CASE \E k \in DOMAIN logins : Answered(k) \/ SignIn(k) \/ SignInFails(k)
  <2>1. PICK k \in DOMAIN logins : Answered(k) \/ SignIn(k) \/ SignInFails(k)
    BY <1>2
  <2>2. logins' \in Seq(Logins)
    BY <2>1, LoginsType DEF IInv, Answered, SignIn, SignInFails, Step, Done
  <2>3. TypeOK'
    <3>1. CASE Answered(k)
      BY <2>2, <3>1 DEF IInv, TypeOK, Answered
    <3>2. CASE SignIn(k)
      BY <2>2, <3>2 DEF IInv, TypeOK, SignIn
    <3>3. CASE SignInFails(k)
      BY <2>2, <3>3 DEF IInv, TypeOK, SignInFails
    <3> QED
      BY <2>1, <3>1, <3>2, <3>3
  <2>4. AlwaysTracked'
    <3>1. UNCHANGED process
      BY <2>1 DEF Answered, SignIn, SignInFails
    <3> QED
      BY <3>1 DEF IInv, AlwaysTracked
  <2> QED
    BY <2>1, <2>3, <2>4, Idle DEF Answered, SignIn, SignInFails
<1> QED
  BY <1>1, <1>2

\* The creation of a new entry is in the queue before anybody holds its id.
LEMMA CompletedStep ==
    ASSUME IInv, NEW k \in DOMAIN logins, NEW id \in Ids \ made, Completed(k, id)
    PROVE  IInv'
<1> USE DEF stored, process, session
<1> DEFINE w == [crowd_id |-> id, child |-> "campaign_id", value |-> logins[k].campaign_id]
<1>1. w \in Writes /\ w.crowd_id = id /\ w.child = "campaign_id"
  BY ZenonT(60), LoginsType DEF IInv, Writes
<1>2. /\ pending' = Append(pending, w)
      /\ UNCHANGED <<crowd, wiped, alive, campaign>>
      /\ made' = made \cup {id}
      /\ saved' = id
      /\ pushes' = Append(pushes, id)
  BY DEF Completed
<1> HIDE DEF w
<1>3. /\ pending' \in Seq(Writes)
      /\ DOMAIN pending' = 1..(Len(pending) + 1)
      /\ \A n \in DOMAIN pending : pending'[n] = pending[n]
      /\ pending'[Len(pending) + 1] = w
      /\ \A i : Born(i) => Born(i)'
      /\ \A n \in DOMAIN pending : Timely(n) => Timely(n)'
  BY <1>1, <1>2, Appended DEF IInv
<1>4. PICK len \in Nat : len = Len(pending) /\ DOMAIN pending = 1..len
  BY ZenonT(60), QueueType DEF IInv
<1>5. PICK n \in Nat : /\ DOMAIN pushes = 1..n /\ DOMAIN pushes' = 1..(n + 1)
                       /\ pushes' \in Seq(Ids) /\ pushes' # <<>> /\ Len(pushes') = n + 1
                       /\ pushes'[n + 1] = id
                       /\ \A m \in 1..n : pushes'[m] = pushes[m]
  <2>1. pushes \in Seq(Ids) /\ id \in Ids /\ pushes' = Append(pushes, id)
    BY <1>2 DEF IInv, TypeOK
  <2>2. PICK n \in Nat : n = Len(pushes) /\ DOMAIN pushes = 1..n
    BY <2>1, LenProperties
  <2>3. /\ pushes' \in Seq(Ids) /\ pushes' # <<>> /\ Len(pushes') = n + 1
        /\ pushes'[n + 1] = id
        /\ \A m \in 1..n : pushes'[m] = pushes[m]
    BY <2>1, <2>2, AppendProperties
  <2>4. DOMAIN pushes' = 1..(n + 1)
    BY <2>3, LenProperties
  <2> QED
    BY <2>2, <2>3, <2>4
<1>6. logins' \in Seq(Logins)
  BY LoginsType DEF IInv, Completed, Done
<1>7. TypeOK'
  BY <1>2, <1>3, <1>5, <1>6 DEF IInv, TypeOK, Completed
<1>8. Held(id)'
  <2>1. len + 1 \in DOMAIN pending' /\ Creates(pending'[len + 1], id)
    BY <1>1, <1>3, <1>4 DEF Creates
  <2> QED
    BY <1>2, <2>1 DEF Held, Born
<1>9. Timely(len + 1)'
  <2>1. crowd[id] = Absent
    BY DEF IInv, Entries
  <2>2. \A m \in 1..(len + 1 - 1) : pending'[m].crowd_id # id
    BY <1>3, <1>4 DEF IInv, Entries, Timely
  <2> QED
    BY <1>1, <1>2, <1>3, <1>4, <2>1, <2>2 DEF Timely
<1>10. \A m \in DOMAIN pending' : Timely(m)'
  <2>1. \A m \in 1..(len + 1) : m \in DOMAIN pending \/ m = len + 1
    BY <1>4
  <2>2. \A m \in DOMAIN pending : Timely(m)'
    BY <1>3 DEF IInv, Entries
  <2> QED
    BY <1>3, <1>4, <1>9, <2>1, <2>2
<1>11. \A m \in DOMAIN pushes' : Held(pushes[m])'
  <2>1. \A m \in 1..n : Held(pushes[m])'
    BY <1>2, <1>3, <1>5 DEF IInv, Entries, Held
  <2>2. \A m \in 1..(n + 1) : m \in 1..n \/ m = n + 1
    OBVIOUS
  <2>3. Held(pushes[n + 1])'
    BY <1>5, <1>8 DEF Held, Born
  <2> QED
    BY <1>5, <2>1, <2>2, <2>3
<1>12. Held(saved)' /\ Held(campaign)'
  <2>1. Held(saved)'
    BY <1>2, <1>8 DEF Held, Born
  <2>2. Held(campaign)'
    BY <1>2, <1>3 DEF IInv, Entries, Held
  <2> QED
    BY <2>1, <2>2
<1>13. Entries'
  <2>1. \A i \in Ids \ made' : crowd'[i] = Absent
    BY <1>2 DEF IInv, Entries
  <2>2. EntryHasCampaign'
    BY <1>2 DEF IInv, Entries, EntryHasCampaign
  <2> QED
    BY <1>10, <1>11, <1>12, <2>1, <2>2 DEF Entries
<1>14. Session'
  BY <1>2, <1>5 DEF IInv, Session, SavedIsCurrent, Completed
<1>15. AlwaysTracked'
  BY DEF IInv, AlwaysTracked, Completed
<1> QED
  BY <1>7, <1>13, <1>14, <1>15 DEF IInv

\* The first id of the queue becomes the campaign; the last one is what is saved.
LEMMA PushStep ==
    ASSUME IInv, Push
    PROVE  IInv'
<1> USE DEF stored, process, sdk
<1>1. /\ pushes \in Seq(Ids) /\ pushes # <<>> /\ Len(pushes) \in Nat \ {0}
      /\ Head(pushes) = pushes[1]
      /\ pushes' = Tail(pushes)
      /\ Len(pushes') = Len(pushes) - 1
      /\ pushes' \in Seq(Ids)
      /\ \A n \in 1..Len(pushes') : pushes'[n] = pushes[n + 1]
      /\ DOMAIN pushes = 1..Len(pushes)
      /\ DOMAIN pushes' = 1..Len(pushes')
  BY EmptySeq, HeadTailProperties, LenProperties DEF IInv, TypeOK, Push
<1>2. pushes[1] \in Ids /\ campaign' = pushes[1]
  BY <1>1, ElementOfSeq DEF Push
<1>3. homes' \in Seq(Homes)
  <2>1. NewHome(pushes[1]) \in Homes
    BY <1>2, NewHomeType
  <2> QED
    BY <1>1, <2>1, AppendProperties DEF IInv, TypeOK, Push
<1>4. TypeOK'
  BY <1>1, <1>2, <1>3 DEF IInv, TypeOK, Push
<1>5. Entries'
  <2>1. \A n \in DOMAIN pushes' : n + 1 \in DOMAIN pushes /\ pushes'[n] = pushes[n + 1]
    BY <1>1
  <2>2. 1 \in DOMAIN pushes
    BY <1>1
  <2>3. \A i : Held(i) => Held(i)'
    BY DEF Held, Born, Push
  <2>4. Held(saved)' /\ Held(campaign)' /\ \A n \in DOMAIN pushes' : Held(pushes[n])'
    BY <1>2, <2>1, <2>2 DEF IInv, Entries, Held, Born, Push
  <2>5. \A n \in DOMAIN pending' : Timely(n)'
    BY DEF IInv, Entries, Timely, Push
  <2> QED
    BY <2>4, <2>5 DEF IInv, Entries, EntryHasCampaign, Push
<1>6. Session'
  <2>1. pushes[Len(pushes)] = saved /\ saved' = saved /\ alive' = alive /\ alive
    BY <1>1 DEF IInv, Session, Push, TypeOK
  <2>2. CASE Len(pushes) = 1
    <3>1. pushes' = <<>>
      BY <1>1, <2>2, EmptySeq
    <3> QED
      BY <1>2, <2>1, <2>2, <3>1 DEF Session, SavedIsCurrent
  <2>3. CASE Len(pushes) # 1
    <3>1. Len(pushes') \in 1..Len(pushes') /\ pushes'[Len(pushes')] = pushes[Len(pushes)]
      BY <1>1, <2>3
    <3>2. pushes' # <<>>
      <4>1. Len(pushes') # 0
        BY <1>1, <2>3
      <4>2. Len(<<>>) = 0
        BY EmptySeq
      <4> QED
        BY <4>1, <4>2
    <3> QED
      BY <2>1, <3>1, <3>2 DEF Session, SavedIsCurrent
  <2> QED
    BY <2>2, <2>3
<1>7. AlwaysTracked'
  BY DEF IInv, AlwaysTracked, Push
<1> QED
  BY <1>4, <1>5, <1>6, <1>7 DEF IInv

-----------------------------------------------------------------------------
(* HomeVC *)

\* A swipe back leaves a sequence of screens.
LEMMA BackStep ==
    ASSUME IInv, Back
    PROVE  IInv'
<1> USE DEF stored, process, account, sdk
<1>1. /\ homes \in Seq(Homes)
      /\ Len(homes) \in Nat
      /\ \A n \in 1..Len(homes) : homes[n] \in Homes
  BY LenProperties, ElementOfSeq DEF IInv, TypeOK
<1>2. \A n \in 1..(Len(homes) - 1) : homes[n] \in Homes
  BY <1>1
<1>3. homes' \in Seq(Homes)
  BY <1>1, <1>2, SubSeqProperties DEF Back, Front
<1>4. TypeOK' /\ AlwaysTracked'
  BY <1>3 DEF IInv, TypeOK, AlwaysTracked, Back
<1> QED
  BY <1>4, Idle DEF Back

\* A screen that is changed is a screen.
LEMMA HomeChanged ==
    ASSUME TypeOK, NEW i \in DOMAIN homes
    PROVE  /\ homes[i] \in Homes
           /\ \A h \in Homes : [homes EXCEPT ![i] = h] \in Seq(Homes)
<1>1. homes \in Seq(Homes) /\ DOMAIN homes = 1..Len(homes)
  BY LenProperties DEF TypeOK
<1> QED
  BY <1>1, ElementOfSeq, ExceptSeq

\* The first value of an observer.
LEMMA CheckStep ==
    ASSUME IInv, NEW i \in DOMAIN homes, checkStatus(i)
    PROVE  IInv'
<1> USE DEF stored, process, account
<1>1. [homes[i] EXCEPT !.known = TRUE] \in Homes
  BY HomeChanged DEF IInv, Homes
<1>2. homes' \in Seq(Homes)
  BY <1>1, HomeChanged DEF IInv, checkStatus
<1>3. events' \in Seq(Values)
  <2>1. homes[i].observes \in Ids
    BY HomeChanged DEF IInv, Homes, checkStatus
  <2>2. [crowd_id |-> homes[i].observes, node |-> View(homes[i].observes)] \in Values
    BY <2>1, ViewType DEF IInv, Values
  <2>3. events \in Seq(Values)
    BY DEF IInv, TypeOK, Values
  <2> QED
    BY <2>2, <2>3, AppendProperties DEF checkStatus
<1>4. TypeOK' /\ AlwaysTracked'
  BY <1>2, <1>3 DEF IInv, TypeOK, AlwaysTracked, checkStatus, Values
<1> QED
  BY <1>4, Idle DEF checkStatus

\* Later values.
LEMMA ObserveStep ==
    ASSUME IInv, Observe
    PROVE  IInv'
<1> USE DEF stored, process, account
<1> DEFINE e == Head(events)
<1>1. events \in Seq(Values) /\ events # <<>>
  BY DEF IInv, TypeOK, Observe, Values
<1>2. e \in Values /\ events' \in Seq(Values)
  BY <1>1, HeadTailProperties DEF Observe
<1>3. \A h \in Homes : Shown(h, e.node) \in Homes
  <2>1. e.node.numberOfPeople \in Counts \cup {Undefined}
    BY <1>2 DEF Values, HajjAppNodes
  <2> HIDE DEF e
  <2> SUFFICES ASSUME NEW h \in Homes PROVE Shown(h, e.node) \in Homes
    OBVIOUS
  <2>2. [h EXCEPT !.connected = (e.node.status = "Active")] \in Homes
    BY DEF Homes
  <2> QED
    BY ZenonT(60), <2>1, <2>2, CrowdValues DEF Shown, toggleStatus, Homes
<1>4. PICK n \in Nat : n = Len(homes) /\ DOMAIN homes = 1..n /\ \A i \in 1..n : homes[i] \in Homes
  BY LenProperties, ElementOfSeq DEF IInv, TypeOK
<1>5. homes' = [i \in 1..n |-> IF homes[i].observes = e.crowd_id THEN Shown(homes[i], e.node)
                               ELSE homes[i]]
  BY <1>4 DEF Observe
<1>6. homes' \in [1..n -> Homes]
  <2> HIDE DEF e
  <2> QED
    BY <1>3, <1>4, <1>5
<1>7. homes' \in Seq(Homes)
  BY <1>6, SeqDef
<1>8. TypeOK' /\ AlwaysTracked'
  BY <1>2, <1>7 DEF IInv, TypeOK, AlwaysTracked, Observe, Values
<1> QED
  BY <1>8, Idle DEF Observe

\* Start and Stop
LEMMA ButtonStep ==
    ASSUME IInv, NEW i \in DOMAIN homes, startBtnHandler(i) \/ stopBtnHandler(i)
    PROVE  IInv'
<1>1. \A b \in BOOLEAN : toggleStatus(homes[i], b) \in Homes
  BY HomeChanged DEF IInv, toggleStatus, Homes
<1>2. homes' \in Seq(Homes)
  BY <1>1, HomeChanged DEF IInv, startBtnHandler, stopBtnHandler
<1>3. \A id \in Ids, s \in {"Active", "inActive"} :
        [crowd_id |-> id, child |-> "status", value |-> s] \in Writes
  BY DEF Writes
<1>4. CASE startBtnHandler(i)
  BY <1>2, <1>3, <1>4, Written DEF startBtnHandler
<1>5. CASE stopBtnHandler(i)
  BY <1>2, <1>3, <1>5, Written DEF stopBtnHandler
<1> QED
  BY <1>4, <1>5

\* The taps on the number
LEMMA CountStep ==
    ASSUME IInv, NEW i \in DOMAIN homes, incrementHandler(i) \/ decrementHandler(i)
    PROVE  IInv'
<1>1. PICK total \in 0..MaxTens : Counted(i, total)
  <2>1. \A n \in 0..(MaxTens - 1) : n + 1 \in 0..MaxTens
    BY TextAssumption
  <2>2. \A n \in 1..MaxTens : n - 1 \in 0..MaxTens
    BY TextAssumption
  <2> QED
    BY <2>1, <2>2 DEF incrementHandler, decrementHandler
<1>2. Text[total] \in Counts
  BY TextAssumption
<1>3. [homes[i] EXCEPT !.number = Text[total]] \in Homes
  BY <1>2, HomeChanged DEF IInv, Homes
<1>4. homes' \in Seq(Homes)
  BY <1>1, <1>3, HomeChanged DEF IInv, Counted
<1>5. \A id \in Ids : [crowd_id |-> id, child |-> "numberOfPeople", value |-> Text[total]] \in Writes
  BY <1>2 DEF Writes
<1> QED
  BY <1>1, <1>4, <1>5, Written DEF Counted

-----------------------------------------------------------------------------
(* The theorems. *)

\* Every step keeps the invariant.
LEMMA IInvNext ==
    ASSUME IInv, [Next]_vars
    PROVE  IInv'
<1>1. CASE Deliver
  BY <1>1, DeliverStep
<1>2. CASE SwitchOnline
  <2> USE DEF SwitchOnline, process, account, session, sdk
  <2>1. TypeOK' /\ AlwaysTracked'
    BY <1>2 DEF IInv, TypeOK, AlwaysTracked
  <2> QED
    BY <1>2, <2>1, Idle
<1>3. CASE \E id \in Ids : Delete(id)
  BY <1>3, DeleteStep
<1>4. CASE didFinishLaunching
  BY <1>4, LaunchStep
<1>5. CASE Kill \/ applicationWillTerminate
  BY <1>5, DeathStep
<1>6. CASE Reinstall
  BY <1>6, ReinstallStep
<1>7. CASE applicationDidEnterBackground \/ applicationWillEnterForeground
  BY <1>7, GroundStep
<1>8. CASE \E place \in Places : didUpdateLocations(place)
  BY <1>8, LocationStep
<1>9. CASE \E c \in Campaigns, number \in Phones : loginHandler(c, number)
  BY <1>9, LoginStep
<1>10. CASE Login
  <2>1. PICK k \in DOMAIN logins :
          \/ Answered(k) \/ SignIn(k) \/ SignInFails(k)
          \/ \E id \in Ids \ made : Completed(k, id)
    BY <1>10 DEF Login
  <2> QED
    BY <2>1, LoginStep, CompletedStep
<1>11. CASE Push
  BY <1>11, PushStep
<1>12. CASE Back
  BY <1>12, BackStep
<1>13. CASE \E i \in DOMAIN homes : checkStatus(i)
  BY <1>13, CheckStep
<1>14. CASE Observe
  BY <1>14, ObserveStep
<1>15. CASE Tap
  BY <1>15, ButtonStep, CountStep DEF Tap
<1>16. CASE UNCHANGED vars
  <2> USE DEF vars, stored, process, account, session, sdk
  <2>1. TypeOK' /\ AlwaysTracked'
    BY <1>16 DEF IInv, TypeOK, AlwaysTracked
  <2> QED
    BY <1>16, <2>1, Idle
<1> QED
  BY <1>1, <1>2, <1>3, <1>4, <1>5, <1>6, <1>7, <1>8, <1>9, <1>10, <1>11, <1>12, <1>13,
     <1>14, <1>15, <1>16 DEF Next

\* The invariant holds in every reachable state.
LEMMA Invariance == Spec => []IInv
BY IInvInit, IInvNext, PTL DEF Spec

\* Every state has its type: what is in the queue, in an event and on a screen
\* too.
THEOREM Typing == Spec => []TypeOK
BY Invariance, PTL DEF IInv

\* An entry that was not deleted, and whose creation was not lost, has its
\* campaign, whatever is written to it and in whatever order logins, taps,
\* restarts and the connection come (ViewController.swift:83-95).
THEOREM EntryHasCampaignAlways == Spec => []EntryHasCampaign
BY Invariance, PTL DEF IInv, Entries

\* The app writes to the entry it comes back to, after any number of taps on
\* Login at the same time (ViewController.swift:92-99).
THEOREM SavedIsCurrentAlways == Spec => []SavedIsCurrent
BY Invariance, PTL DEF IInv, Session

\* Locations come in the fore- and in the background (AppDelegate.swift:59-100).
THEOREM AlwaysTrackedAlways == Spec => []AlwaysTracked
BY Invariance, PTL DEF IInv

\* A step changes an entry as MyMarker expects: by one child, unless it creates
\* or deletes it.
LEMMA MakesStep ==
    ASSUME IInv, [Next]_vars, NEW id \in Ids
    PROVE  \/ crowd'[id] \in HajjAppWrites(crowd[id]) \cup {crowd[id], Absent}
           \/ /\ crowd[id] = Absent
              /\ \E c \in Campaigns : crowd'[id] = [Absent EXCEPT !.campaign_id = c]
<1>1. CASE Deliver
  <2> PICK w, j : w = pending[1] /\ j = w.crowd_id
    OBVIOUS
  <2>1. w \in Writes /\ j \in Ids /\ Head(pending) = w /\ 1 \in DOMAIN pending
    BY <1>1, QueueType, EmptySeq, HeadTailProperties DEF IInv, TypeOK, Deliver
  <2>2. crowd' = [crowd EXCEPT ![j] = Applied(crowd[j], w)] /\ crowd \in [Ids -> HajjAppNodes]
    BY <1>1, <2>1 DEF Deliver, IInv, TypeOK
  <2>3. CASE id # j
    BY <2>2, <2>3
  <2>4. CASE id = j /\ w.child # "campaign_id"
    BY <2>1, <2>2, <2>4, AppliedType
  <2>5. CASE id = j /\ w.child = "campaign_id"
    <3>1. crowd[j] = Absent
      BY <2>1, <2>5 DEF IInv, Entries, Timely
    <3>2. w.value \in Campaigns /\ Applied(Absent, w) = [Absent EXCEPT !.campaign_id = w.value]
      BY <2>1, <2>5, AbsentType, AppliedType
    <3> QED
      BY <2>2, <2>5, <3>1, <3>2
  <2> QED
    BY <2>3, <2>4, <2>5
<1>2. CASE \E j \in Ids : Delete(j)
  BY <1>2 DEF Delete, IInv, TypeOK
<1>3. CASE crowd' = crowd
  BY <1>3
<1>4. Deliver \/ (\E j \in Ids : Delete(j)) \/ crowd' = crowd
  BY DEF Next, vars, stored, SwitchOnline, didFinishLaunching, Kill, applicationWillTerminate,
         Reinstall, applicationDidEnterBackground, applicationWillEnterForeground,
         didUpdateLocations, loginHandler, Login, Answered, SignIn, SignInFails, Completed,
         Push, Back, checkStatus, Observe, Tap, startBtnHandler, stopBtnHandler,
         incrementHandler, decrementHandler, Counted
<1> QED
  BY <1>1, <1>2, <1>3, <1>4

\* The phone changes its entries as MyMarker assumes of its environment
\* (HomeVC.swift:158-258, ViewController.swift:83-89).
THEOREM MakesHajjAppWritesAlways == Spec => MakesHajjAppWrites
<1>1. IInv /\ [Next]_vars
      => [\A id \in Ids :
            \/ crowd'[id] \in HajjAppWrites(crowd[id]) \cup {crowd[id], Absent}
            \/ /\ crowd[id] = Absent
               /\ \E c \in Campaigns : crowd'[id] = [Absent EXCEPT !.campaign_id = c]]_vars
  BY MakesStep
<1> QED
  BY <1>1, Invariance, PTL DEF Spec, MakesHajjAppWrites

-----------------------------------------------------------------------------
(* The screen shows the entry it writes to, once the events under way have   *)
(* come in. What the phone sees of an entry is what the server has with the  *)
(* queue on top. It does not change when a write moves from one to the       *)
(* other, and whenever it does change, an event that says so goes to the     *)
(* screen. So the last event under way for an entry always says what the     *)
(* entry is; and if there is none, the screen said so already.               *)


Agrees(home, node) ==
    /\ home.connected <=> node.status = "Active"
    /\ home.number \in Counts
    /\ node.numberOfPeople \in {home.number, Undefined}
    /\ node.numberOfPeople = Undefined => home.number = NoOne

\* No event for the entry is under way; or the last one says what it is.
Quiet(id) == \A n \in DOMAIN events : events[n].crowd_id # id

Awaited(id) ==
    \E n \in DOMAIN events :
      /\ events[n].crowd_id = id /\ events[n].node = View(id)
      /\ \A k \in DOMAIN events : n < k => events[k].crowd_id # id

Follows(home) ==
    home.known =>
      \/ Awaited(home.observes)
      \/ /\ Quiet(home.observes)
         /\ home.observes = campaign /\ View(campaign) # Absent
              => Agrees(home, View(campaign))

Synced == \A i \in DOMAIN homes : Follows(homes[i])

\* The entries on the screens were made here, and the ones to come are others:
\* an entry that another has replaced as the campaign never is it again.
Observed ==
    \A i \in DOMAIN homes :
      /\ homes[i].observes \in made \cup {Undefined}
      /\ homes[i].known => homes[i].observes # Undefined

Unseen ==
    \A k \in DOMAIN pushes :
      /\ \A i \in DOMAIN homes : homes[i].observes # pushes[k]
      /\ \A l \in DOMAIN pushes : pushes[l] = pushes[k] => l = k

SInv == Synced /\ Observed /\ Unseen

-----------------------------------------------------------------------------
(* The queue. *)

\* The largest index is the one that is not below another.
LEMMA MaxIs ==
    ASSUME NEW T \in SUBSET Nat, NEW m \in T, \A y \in T : y <= m
    PROVE  Max(T) = m
<1>1. \A y \in T : m >= y
  OBVIOUS
<1>2. /\ Max(T) \in T
      /\ \A y \in T : Max(T) >= y
  BY <1>1 DEF Max
<1>3. Max(T) >= m /\ m >= Max(T) /\ Max(T) \in Nat /\ m \in Nat
  BY <1>1, <1>2
<1> QED
  BY <1>3

Own(q, id, child) == {i \in DOMAIN q : q[i].crowd_id = id /\ q[i].child = child}

LatestIn(q, id, child, value) ==
    IF Own(q, id, child) = {} THEN value ELSE q[Max(Own(q, id, child))].value

OverlaidBy(q, id, node) ==
    [campaign_id    |-> LatestIn(q, id, "campaign_id", node.campaign_id),
     location       |-> LatestIn(q, id, "location", node.location),
     numberOfPeople |-> LatestIn(q, id, "numberOfPeople", node.numberOfPeople),
     status         |-> LatestIn(q, id, "status", node.status)]

\* The operators of HajjApp are these on the queue there is.
LEMMA OverlaidIs == \A id, node : Overlaid(id, node) = OverlaidBy(pending, id, node)
BY DEF Overlaid, OverlaidBy, Latest, LatestIn, Own

LEMMA ViewIs ==
    /\ \A id : View(id) = OverlaidBy(pending, id, crowd[id])
    /\ \A id : View(id)' = OverlaidBy(pending', id, crowd'[id])
BY DEF View, Overlaid, OverlaidBy, Latest, LatestIn, Own

\* A write that is queued is the latest of its child.
LEMMA LatestAppend ==
    ASSUME NEW q \in Seq(Writes), NEW w \in Writes, NEW id, NEW child, NEW value
    PROVE  LatestIn(Append(q, w), id, child, value)
             = IF w.crowd_id = id /\ w.child = child THEN w.value
               ELSE LatestIn(q, id, child, value)
<1> DEFINE r == Append(q, w)
           n == Len(q)
<1>1. /\ n \in Nat /\ DOMAIN q = 1..n /\ DOMAIN r = 1..(n + 1)
      /\ \A k \in 1..n : r[k] = q[k]
      /\ r[n + 1] = w
  BY AppendProperties, LenProperties
<1> HIDE DEF r, n
<1>2. CASE w.crowd_id = id /\ w.child = child
  <2>1. n + 1 \in Own(r, id, child) /\ Own(r, id, child) \in SUBSET Nat
        /\ \A y \in Own(r, id, child) : y <= n + 1
    BY <1>1, <1>2 DEF Own
  <2>2. Max(Own(r, id, child)) = n + 1
    BY <2>1, MaxIs
  <2> QED
    BY <1>1, <1>2, <2>1, <2>2 DEF LatestIn, r
<1>3. CASE ~(w.crowd_id = id /\ w.child = child)
  <2>1. Own(r, id, child) = Own(q, id, child)
    <3>1. \A k \in 1..(n + 1) : k \in 1..n \/ k = n + 1
      BY <1>1
    <3>2. 1..n \subseteq 1..(n + 1)
      BY <1>1
    <3> QED
      BY <1>1, <1>3, <3>1, <3>2 DEF Own
  <2>2. CASE Own(q, id, child) = {}
    BY <1>3, <2>1, <2>2 DEF LatestIn, r
  <2>3. CASE Own(q, id, child) # {}
    <3>1. Max(Own(q, id, child)) \in 1..n
      BY <1>1, <2>3, MaxOfIndices DEF Own
    <3> QED
      BY <1>1, <1>3, <2>1, <2>3, <3>1 DEF LatestIn, r
  <2> QED
    BY <2>2, <2>3
<1> QED
  BY <1>2, <1>3

\* What the first write says counts until a later one says otherwise, whether
\* it is in the queue or with the server.
LEMMA LatestTail ==
    ASSUME NEW q \in Seq(Writes), q # <<>>, NEW id, NEW child, NEW value
    PROVE  LatestIn(q, id, child, value)
             = LatestIn(Tail(q), id, child,
                        IF Head(q).crowd_id = id /\ Head(q).child = child THEN Head(q).value
                        ELSE value)
<1> DEFINE r == Tail(q)
           n == Len(q)
<1>1. /\ n \in Nat /\ n > 0 /\ DOMAIN q = 1..n /\ DOMAIN r = 1..(n - 1)
      /\ \A k \in 1..(n - 1) : r[k] = q[k + 1]
      /\ Head(q) = q[1]
  BY LenProperties
<1> HIDE DEF r, n
<1>2. ASSUME NEW k \in Own(r, id, child) PROVE k + 1 \in Own(q, id, child) /\ k \in 1..(n - 1)
  BY <1>1 DEF Own
<1>3. ASSUME NEW k \in Own(q, id, child), k # 1
      PROVE  k - 1 \in Own(r, id, child) /\ k \in 2..n
  <2>1. k - 1 \in 1..(n - 1) /\ (k - 1) + 1 = k /\ k \in 2..n
    BY <1>1, <1>3 DEF Own
  <2> QED
    BY <1>1, <2>1 DEF Own
<1>4. CASE Own(r, id, child) = {}
  <2>1. CASE Head(q).crowd_id = id /\ Head(q).child = child
    <3>1. 1 \in Own(q, id, child) /\ \A y \in Own(q, id, child) : y = 1
      BY <1>1, <1>3, <1>4, <2>1 DEF Own
    <3>2. Own(q, id, child) \in SUBSET Nat /\ \A y \in Own(q, id, child) : y <= 1
      BY <3>1
    <3>3. Max(Own(q, id, child)) = 1
      BY <3>1, <3>2, MaxIs
    <3> QED
      BY <1>1, <1>4, <2>1, <3>1, <3>3 DEF LatestIn, r
  <2>2. CASE ~(Head(q).crowd_id = id /\ Head(q).child = child)
    <3>1. Own(q, id, child) = {}
      BY <1>1, <1>3, <1>4, <2>2 DEF Own
    <3> QED
      BY <1>4, <2>2, <3>1 DEF LatestIn, r
  <2> QED
    BY <2>1, <2>2
<1>5. CASE Own(r, id, child) # {}
  <2> DEFINE m == Max(Own(r, id, child))
  <2>1. /\ m \in Own(r, id, child) /\ m \in 1..(n - 1)
        /\ \A y \in Own(r, id, child) : m >= y
    <3>1. Own(r, id, child) \in SUBSET (1..(n - 1)) /\ n - 1 \in Nat
      BY <1>1 DEF Own
    <3> QED
      BY <1>5, <3>1, MaxOfIndices
  <2> HIDE DEF m
  <2>2. m + 1 \in Own(q, id, child) /\ Own(q, id, child) \in SUBSET Nat
    BY <1>1, <1>2, <2>1 DEF Own
  <2>3. ASSUME NEW y \in Own(q, id, child) PROVE y <= m + 1
    <3>1. CASE y = 1
      BY <2>1, <3>1
    <3>2. CASE y # 1
      <4>1. m >= y - 1 /\ y \in 2..n
        BY <1>3, <2>1, <3>2
      <4> QED
        BY <1>1, <2>1, <4>1
    <3> QED
      BY <3>1, <3>2
  <2>4. Max(Own(q, id, child)) = m + 1
    BY <2>2, <2>3, MaxIs
  <2>5. q[m + 1] = r[m]
    BY <1>1, <2>1
  <2> QED
    BY <1>5, <2>2, <2>4, <2>5 DEF LatestIn, m, r
<1> QED
  BY <1>4, <1>5

\* A write that is queued shows at once.
LEMMA ViewAppended ==
    ASSUME TypeOK, NEW w \in Writes, pending' = Append(pending, w), UNCHANGED crowd,
           NEW id
    PROVE  View(id)' = IF w.crowd_id = id THEN Applied(View(id), w) ELSE View(id)
<1> DEFINE at(child, value) == LatestIn(pending, id, child, value)
<1>1. \A child, value :
        LatestIn(pending', id, child, value)
          = IF w.crowd_id = id /\ w.child = child THEN w.value ELSE at(child, value)
  BY LatestAppend DEF TypeOK
<1>2. w.child \in {"campaign_id", "location", "numberOfPeople", "status"}
  BY DEF Writes
<1>3. View(id) = [campaign_id    |-> at("campaign_id", crowd[id].campaign_id),
                  location       |-> at("location", crowd[id].location),
                  numberOfPeople |-> at("numberOfPeople", crowd[id].numberOfPeople),
                  status         |-> at("status", crowd[id].status)]
  BY ViewIs DEF OverlaidBy
<1>4. View(id)' =
        [campaign_id    |-> LatestIn(pending', id, "campaign_id", crowd[id].campaign_id),
         location       |-> LatestIn(pending', id, "location", crowd[id].location),
         numberOfPeople |-> LatestIn(pending', id, "numberOfPeople", crowd[id].numberOfPeople),
         status         |-> LatestIn(pending', id, "status", crowd[id].status)]
  BY ViewIs DEF OverlaidBy
<1> HIDE DEF at
<1>5. CASE w.crowd_id # id
  BY <1>1, <1>3, <1>4, <1>5
<1>6. CASE w.crowd_id = id
  BY <1>1, <1>2, <1>3, <1>4, <1>6 DEF Applied
<1> QED
  BY <1>5, <1>6

\* A write that gets to the server shows no different.
LEMMA ViewDelivered ==
    ASSUME TypeOK, Deliver, NEW id \in Ids
    PROVE  View(id)' = View(id)
<1> DEFINE w == Head(pending)
<1>1. /\ pending \in Seq(Writes) /\ pending # <<>> /\ w \in Writes
      /\ pending' = Tail(pending)
      /\ crowd' = [crowd EXCEPT ![w.crowd_id] = Applied(@, w)]
      /\ crowd \in [Ids -> HajjAppNodes]
  BY HeadTailProperties DEF Deliver, TypeOK
<1>2. w.crowd_id \in Ids /\ w.child \in {"campaign_id", "location", "numberOfPeople", "status"}
  BY <1>1 DEF Writes
<1>3. \A child, value :
        LatestIn(pending, id, child, value)
          = LatestIn(pending', id, child,
                     IF w.crowd_id = id /\ w.child = child THEN w.value ELSE value)
  BY <1>1, LatestTail
<1>4. crowd'[id] = IF w.crowd_id = id THEN Applied(crowd[id], w) ELSE crowd[id]
  BY <1>1
<1> HIDE DEF w
<1>5. \A child \in {"campaign_id", "location", "numberOfPeople", "status"} :
        crowd'[id][child] = IF w.crowd_id = id /\ w.child = child THEN w.value
                            ELSE crowd[id][child]
  BY <1>1, <1>4 DEF Applied, HajjAppNodes
<1>6. \A child \in {"campaign_id", "location", "numberOfPeople", "status"} :
        LatestIn(pending', id, child, crowd'[id][child])
          = LatestIn(pending, id, child, crowd[id][child])
  BY <1>3, <1>5
<1> QED
  BY <1>6, ViewIs DEF OverlaidBy
-----------------------------------------------------------------------------
(* The events. *)

\* An event that is added is the last one of its entry, and of no other.
LEMMA EventAppended ==
    ASSUME TypeOK, NEW e, events' = Append(events, e), NEW id
    PROVE  /\ e.crowd_id = id /\ e.node = View(id)' => Awaited(id)'
           /\ e.crowd_id # id /\ View(id)' = View(id) =>
                /\ Awaited(id) => Awaited(id)'
                /\ Quiet(id) => Quiet(id)'
<1> DEFINE n == Len(events)
<1>1. /\ n \in Nat /\ DOMAIN events = 1..n /\ DOMAIN events' = 1..(n + 1)
      /\ \A k \in 1..n : events'[k] = events[k]
      /\ events'[n + 1] = e
  BY DEF TypeOK
<1> HIDE DEF n
<1>2. \A k \in 1..(n + 1) : ~(n + 1 < k) /\ (k \in 1..n \/ k = n + 1)
  BY <1>1
<1>3. ASSUME e.crowd_id = id, e.node = View(id)' PROVE Awaited(id)'
  <2>1. n + 1 \in 1..(n + 1)
    BY <1>1
  <2> QED
    BY <1>1, <1>2, <1>3, <2>1 DEF Awaited
<1>4. ASSUME e.crowd_id # id, View(id)' = View(id), Awaited(id) PROVE Awaited(id)'
  <2>1. PICK k \in 1..n :
          /\ events[k].crowd_id = id /\ events[k].node = View(id)
          /\ \A l \in 1..n : k < l => events[l].crowd_id # id
    BY <1>1, <1>4 DEF Awaited
  <2>2. \A l \in 1..(n + 1) : k < l => events'[l].crowd_id # id
    BY <1>1, <1>2, <1>4, <2>1
  <2>3. k \in 1..(n + 1)
    BY <1>1, <2>1
  <2> QED
    BY <1>1, <1>4, <2>1, <2>2, <2>3 DEF Awaited
<1>5. ASSUME e.crowd_id # id, Quiet(id) PROVE Quiet(id)'
  BY <1>1, <1>2, <1>5 DEF Quiet
<1> QED
  BY <1>3, <1>4, <1>5

\* An entry that changes to what the phone now sees of it is announced to
\* the screens that show it.
LEMMA RaisedFollows ==
    ASSUME TypeOK, NEW id, NEW h,
           events' = Raised(id, View(id), View(id)'), UNCHANGED campaign,
           h.observes # id => View(h.observes)' = View(h.observes),
           h.known => h \in {homes[i] : i \in DOMAIN homes},
           Follows(h)
    PROVE  /\ h.known /\ h.observes = id /\ View(id)' # View(id) => Awaited(id)'
           /\ h.known /\ (h.observes # id \/ View(id)' = View(id)) =>
                 \/ Awaited(h.observes)'
                 \/ /\ Quiet(h.observes)'
                    /\ h.observes = campaign /\ View(campaign)' # Absent
                         => View(campaign)' = View(campaign) /\ Agrees(h, View(campaign))
<1> DEFINE e == [crowd_id |-> id, node |-> View(id)']
<1>1. events' = events \/ events' = Append(events, e)
  BY DEF Raised
<1>2. e.crowd_id = id /\ e.node = View(id)'
  OBVIOUS
<1>3. ASSUME h.known, h.observes = id, View(id)' # View(id) PROVE Awaited(id)'
  <2>1. events' = Append(events, e)
    BY <1>3 DEF Raised
  <2> HIDE DEF e
  <2> QED
    BY <1>2, <2>1, EventAppended
<1>4. ASSUME h.known, h.observes # id \/ View(id)' = View(id)
      PROVE  \/ Awaited(h.observes)'
             \/ /\ Quiet(h.observes)'
                /\ h.observes = campaign /\ View(campaign)' # Absent
                     => View(campaign)' = View(campaign) /\ Agrees(h, View(campaign))
  <2>1. View(h.observes)' = View(h.observes)
    BY <1>4
  <2>2. /\ Awaited(h.observes) => Awaited(h.observes)'
        /\ Quiet(h.observes) => Quiet(h.observes)'
    <3>1. CASE events' = events
      BY <2>1, <3>1 DEF Awaited, Quiet
    <3>2. CASE events' # events
      <4>1. h.observes # id /\ events' = Append(events, e)
        BY <1>1, <1>4, <3>2 DEF Raised
      <4> HIDE DEF e
      <4> QED
        BY <1>2, <2>1, <4>1, EventAppended
    <3> QED
      BY <3>1, <3>2
  <2> QED
    BY <1>4, <2>1, <2>2 DEF Follows
<1> QED
  BY <1>3, <1>4

-----------------------------------------------------------------------------
(* The steps. *)

\* The screens, one by one.
LEMMA HomeType ==
    ASSUME TypeOK, NEW i \in DOMAIN homes
    PROVE  /\ homes[i] \in Homes /\ homes[i].observes \in Ids \cup {Undefined}
           /\ homes[i].known \in BOOLEAN
           /\ Len(homes) \in Nat /\ DOMAIN homes = 1..Len(homes)
  BY HomeChanged, LenProperties DEF TypeOK, Homes

\* Screens that keep what they observe.
LEMMA SameObserved ==
    ASSUME Observed, Unseen, DOMAIN homes' = DOMAIN homes, UNCHANGED <<made, pushes>>,
           \A i \in DOMAIN homes :
             /\ homes'[i].observes = homes[i].observes
             /\ homes'[i].known => homes[i].known \/ homes[i].observes # Undefined
    PROVE  Observed' /\ Unseen'
BY DEF Observed, Unseen

\* Steps that leave the screens, the events and what the phone sees alone.
LEMMA SameScreens ==
    ASSUME SInv, UNCHANGED <<homes, campaign, events, made, pushes>>,
           TypeOK, \A id \in Ids : View(id)' = View(id)
    PROVE  SInv'
<1>1. ASSUME NEW i \in DOMAIN homes PROVE Follows(homes[i])'
  <2>1. homes[i].known => homes[i].observes \in Ids
    BY <1>1, HomeType DEF SInv, Observed
  <2> QED
    BY <1>1, <2>1 DEF SInv, Synced, Follows, Awaited, Quiet
<1>2. Observed' /\ Unseen'
  BY DEF SInv, Observed, Unseen
<1> QED
  BY <1>1, <1>2 DEF SInv, Synced

\* A process without screens.
LEMMA NoScreens ==
    ASSUME homes' = <<>>, pushes' = <<>>
    PROVE  SInv'
BY DEF SInv, Synced, Observed, Unseen

\* A write by one of the handlers of the screens, or by a fix.
LEMMA WriteScreens ==
    ASSUME IInv, SInv, NEW child, NEW value,
           \A id \in Ids : [crowd_id |-> id, child |-> child, value |-> value] \in Writes,
           Write(child, value), UNCHANGED <<crowd, campaign, made, pushes>>,
           DOMAIN homes' = DOMAIN homes,
           \A i \in DOMAIN homes :
             LET w == [crowd_id |-> campaign, child |-> child, value |-> value]
             IN  /\ homes'[i].observes = homes[i].observes
                 /\ homes'[i].known = homes[i].known
                 /\ /\ Agrees(homes[i], View(campaign)) /\ campaign \in Ids
                    /\ Applied(View(campaign), w) = View(campaign)
                    => Agrees(homes'[i], View(campaign))
    PROVE  SInv'
<1>1. Observed' /\ Unseen'
  BY SameObserved DEF SInv
<1>2. TypeOK /\ campaign \in Ids \cup {Undefined}
  BY DEF IInv, TypeOK
<1>3. ASSUME NEW i \in DOMAIN homes PROVE Follows(homes[i])'
  <2> DEFINE w == [crowd_id |-> campaign, child |-> child, value |-> value]
  <2>1. CASE campaign = Undefined
    <3>1. UNCHANGED <<pending, events, crowd>>
      BY <2>1 DEF Write, sdk
    <3>2. \A id : View(id)' = View(id)
      BY <3>1, ViewIs
    <3>3. homes[i].known => homes[i].observes # campaign
      BY <2>1 DEF SInv, Observed
    <3>4. (homes[i].known)' = homes[i].known /\ (homes[i].observes)' = homes[i].observes
      OBVIOUS
    <3>5. homes[i].known => Awaited(homes[i].observes) \/ Quiet(homes[i].observes)
      BY DEF SInv, Synced, Follows
    <3>6. \A id : (Awaited(id)' <=> Awaited(id)) /\ (Quiet(id)' <=> Quiet(id))
      BY <3>1, <3>2 DEF Awaited, Quiet
    <3> QED
      BY <3>3, <3>4, <3>5, <3>6 DEF Follows
  <2>2. CASE campaign # Undefined
    <3>1. campaign \in Ids /\ w \in Writes /\ w.crowd_id = campaign
      BY <1>2, <2>2
    <3>2. pending' = Append(pending, w)
          /\ events' = Raised(campaign, View(campaign), Applied(View(campaign), w))
      BY <2>2 DEF Write
    <3> HIDE DEF w
    <3>3. \A id : View(id)' = IF id = campaign THEN Applied(View(id), w) ELSE View(id)
      BY <1>2, <3>1, <3>2, ViewAppended
    <3>4. events' = Raised(campaign, View(campaign), View(campaign)')
      BY <3>2, <3>3
    <3>5. /\ homes[i].known /\ homes[i].observes = campaign /\ View(campaign)' # View(campaign)
               => Awaited(campaign)'
          /\ homes[i].known /\ (homes[i].observes # campaign \/ View(campaign)' = View(campaign)) =>
                \/ Awaited(homes[i].observes)'
                \/ /\ Quiet(homes[i].observes)'
                   /\ homes[i].observes = campaign /\ View(campaign)' # Absent
                        => /\ View(campaign)' = View(campaign)
                           /\ Agrees(homes[i], View(campaign))
      <4>1. Follows(homes[i])
        BY DEF SInv, Synced
      <4>2. homes[i] \in {homes[j] : j \in DOMAIN homes}
        OBVIOUS
      <4> QED
        BY <1>2, <3>3, <3>4, <4>1, <4>2, RaisedFollows
    <3>6. View(campaign)' = View(campaign) /\ Agrees(homes[i], View(campaign))
          => Agrees(homes[i], View(campaign))'
      <4>1. Agrees(homes[i], View(campaign))' <=> Agrees(homes'[i], View(campaign)')
        BY DEF Agrees
      <4> QED
        BY <3>1, <3>3, <4>1 DEF w
    <3>7. (homes[i].known)' = homes[i].known /\ (homes[i].observes)' = homes[i].observes
      OBVIOUS
    <3> QED
      BY <3>5, <3>6, <3>7 DEF Follows
  <2> QED
    BY <2>1, <2>2
<1> QED
  BY <1>1, <1>3 DEF SInv, Synced
\* What is deleted is announced, unless the queue hides it.
LEMMA DeleteScreens ==
    ASSUME IInv, SInv, NEW id \in Ids, Delete(id)
    PROVE  SInv'
<1>1. /\ UNCHANGED <<homes, campaign, made, pushes, pending>>
      /\ events' = Raised(id, View(id), Overlaid(id, Absent))
      /\ crowd' = [crowd EXCEPT ![id] = Absent] /\ crowd \in [Ids -> HajjAppNodes]
  BY DEF Delete, account, session, IInv, TypeOK
<1>2. View(id)' = Overlaid(id, Absent)
  BY <1>1, ViewIs, OverlaidIs
<1>3. \A other \in Ids : other # id => View(other)' = View(other)
  BY <1>1, ViewIs
<1>4. Observed' /\ Unseen'
  BY <1>1 DEF SInv, Observed, Unseen
<1>5. ASSUME NEW i \in DOMAIN homes, homes[i].known PROVE Follows(homes[i])'
  <2> PICK h : h = homes[i]
    OBVIOUS
  <2>1. h.known /\ h \in {homes[k] : k \in DOMAIN homes} /\ Follows(h)
    BY <1>5 DEF SInv, Synced
  <2>2. h.observes \in Ids
    BY <1>5, HomeType DEF SInv, Observed, IInv
  <2>3. (homes[i])' = h
    BY <1>1
  <2>4. /\ h.observes = id /\ View(id)' # View(id) => Awaited(id)'
        /\ (h.observes # id \/ View(id)' = View(id)) =>
              \/ Awaited(h.observes)'
              \/ /\ Quiet(h.observes)'
                 /\ h.observes = campaign /\ View(campaign)' # Absent
                      => View(campaign)' = View(campaign) /\ Agrees(h, View(campaign))
    <3>1. events' = Raised(id, View(id), View(id)') /\ campaign' = campaign /\ TypeOK
      BY <1>1, <1>2 DEF IInv
    <3>2. h.observes # id => View(h.observes)' = View(h.observes)
      BY <1>3, <2>2
    <3> QED
      BY <2>1, <3>1, <3>2, RaisedFollows
  <2>5. Agrees(homes[i], View(campaign))' <=> Agrees(h, View(campaign)')
    BY <2>3 DEF Agrees
  <2>6. (homes[i].known)' = h.known /\ (homes[i].observes)' = h.observes
    BY <2>3
  <2>7. campaign' = campaign
    BY <1>1
  <2> QED
    BY <2>1, <2>4, <2>5, <2>6, <2>7 DEF Follows
<1>6. \A i \in DOMAIN homes : Follows(homes[i])'
  BY <1>1, <1>5 DEF Follows
<1> QED
  BY <1>1, <1>4, <1>6 DEF SInv, Synced

\* The first screen has observed nothing yet.
LEMMA LaunchScreens ==
    ASSUME IInv, SInv, didFinishLaunching
    PROVE  SInv'
<1>1. pushes' = <<>> /\ saved \in made \cup {Undefined} /\ UNCHANGED made
  BY DEF IInv, Session, Entries, Held, didFinishLaunching, account
<1>2. homes' = <<>> \/ homes' = <<NewHome(saved)>>
  BY DEF didFinishLaunching
<1>3. CASE homes' = <<>>
  BY <1>1, <1>3, NoScreens
<1>4. CASE homes' = <<NewHome(saved)>>
  <2>1. DOMAIN homes' = {1} /\ homes'[1] = NewHome(saved)
    BY <1>4
  <2>2. Follows(homes[1])'
    BY <2>1 DEF Follows, NewHome
  <2>3. Observed' /\ Unseen'
    BY <1>1, <2>1 DEF Observed, Unseen, NewHome
  <2> QED
    BY <2>1, <2>2, <2>3 DEF SInv, Synced
<1> QED
  BY <1>2, <1>3, <1>4

\* A new entry is on no screen yet.
LEMMA CompletedScreens ==
    ASSUME IInv, SInv, NEW k \in DOMAIN logins, NEW id \in Ids \ made, Completed(k, id)
    PROVE  SInv'
<1> DEFINE w == [crowd_id |-> id, child |-> "campaign_id", value |-> logins[k].campaign_id]
<1>1. w \in Writes /\ w.crowd_id = id
  BY ZenonT(60), LoginsType DEF IInv, Writes
<1>2. /\ pending' = Append(pending, w)
      /\ UNCHANGED <<crowd, events, homes, campaign>>
      /\ made' = made \cup {id}
      /\ pushes' = Append(pushes, id)
  BY DEF Completed, stored, session
<1> HIDE DEF w
<1>3. \A other : other # id => View(other)' = View(other)
  BY <1>1, <1>2, ViewAppended DEF IInv
<1>4. id # Undefined /\ id \notin made
  BY IdAssumption
<1>5. \A i \in DOMAIN homes : homes[i].observes # id
  BY <1>4 DEF SInv, Observed
<1>6. Synced'
  <2> SUFFICES ASSUME NEW i \in DOMAIN homes PROVE Follows(homes[i])'
    BY <1>2 DEF Synced
  <2>1. View(homes[i].observes)' = View(homes[i].observes) /\ Follows(homes[i])
    <3>1. (homes[i].observes)' = homes[i].observes
      BY <1>2
    <3>2. View(homes[i].observes)' = View(homes[i].observes)
      BY <1>3, <1>5, <3>1
    <3> QED
      BY <3>2 DEF SInv, Synced
  <2> QED
    BY <1>2, <2>1 DEF Follows, Awaited, Quiet
<1>7. Observed'
  BY <1>2 DEF SInv, Observed
<1>8. PICK n \in Nat : /\ DOMAIN pushes = 1..n /\ DOMAIN pushes' = 1..(n + 1)
                       /\ pushes'[n + 1] = id
                       /\ \A m \in 1..n : pushes'[m] = pushes[m]
  <2>1. pushes \in Seq(Ids) /\ id \in Ids
    BY DEF IInv, TypeOK
  <2>2. Len(pushes) \in Nat /\ DOMAIN pushes = 1..Len(pushes)
    BY <2>1, LenProperties
  <2>3. DOMAIN pushes' = 1..(Len(pushes) + 1)
    BY <1>2, <2>1, <2>2, AppendProperties, LenProperties
  <2>4. pushes'[Len(pushes) + 1] = id /\ \A m \in 1..Len(pushes) : pushes'[m] = pushes[m]
    BY <1>2, <2>1, <2>2, AppendProperties
  <2> QED
    BY <2>2, <2>3, <2>4
<1>9. \A m \in 1..n : pushes[m] \in made
  <2> SUFFICES ASSUME NEW m \in 1..n PROVE pushes[m] \in made
    OBVIOUS
  <2>1. pushes[m] \in Ids
    BY <1>8, ElementOfSeq DEF IInv, TypeOK
  <2>2. Held(pushes[m])
    BY <1>8 DEF IInv, Entries
  <2> QED
    BY <2>1, <2>2, IdAssumption DEF Held
<1>10. Unseen'
  <2>1. \A m \in 1..(n + 1) : m \in 1..n \/ m = n + 1
    OBVIOUS
  <2> QED
    BY <1>2, <1>4, <1>5, <1>8, <1>9, <2>1 DEF SInv, Unseen
<1> QED
  BY <1>6, <1>7, <1>10 DEF SInv

\* What another entry replaces as the campaign is written to no more.
LEMMA PushScreens ==
    ASSUME IInv, SInv, Push
    PROVE  SInv'
<1> DEFINE id == pushes[1]
<1>1. /\ pushes \in Seq(Ids) /\ pushes # <<>> /\ Len(pushes) \in Nat
      /\ Head(pushes) = id
      /\ pushes' = Tail(pushes)
      /\ DOMAIN pushes = 1..Len(pushes) /\ 1 \in DOMAIN pushes
      /\ DOMAIN pushes' = 1..(Len(pushes) - 1)
      /\ \A n \in 1..(Len(pushes) - 1) : pushes'[n] = pushes[n + 1]
  BY EmptySeq, HeadTailProperties, LenProperties DEF IInv, TypeOK, Push
<1>2. id \in made /\ id # Undefined
  BY <1>1, ElementOfSeq, IdAssumption DEF IInv, Entries, Held
<1>3. /\ homes' = Append(homes, NewHome(id)) /\ campaign' = id
      /\ UNCHANGED <<crowd, pending, events, made>>
  BY <1>1 DEF Push, stored, sdk
<1>4. PICK n \in Nat : /\ DOMAIN homes = 1..n /\ DOMAIN homes' = 1..(n + 1)
                       /\ homes'[n + 1] = NewHome(id)
                       /\ \A m \in 1..n : homes'[m] = homes[m]
  <2>1. homes \in Seq(Homes) /\ NewHome(id) \in Homes
    BY <1>1, ElementOfSeq, NewHomeType DEF IInv, TypeOK
  <2> HIDE DEF id
  <2>2. Len(homes) \in Nat /\ DOMAIN homes = 1..Len(homes)
    BY <2>1, LenProperties
  <2>3. DOMAIN homes' = 1..(Len(homes) + 1)
    BY <1>3, <2>1, <2>2, AppendProperties, LenProperties
  <2>4. homes'[Len(homes) + 1] = NewHome(id) /\ \A m \in 1..Len(homes) : homes'[m] = homes[m]
    BY <1>3, <2>1, <2>2, AppendProperties
  <2> QED
    BY <2>2, <2>3, <2>4
<1>5. \A m \in 1..(n + 1) : m \in 1..n \/ m = n + 1
  OBVIOUS
<1>6. \A m \in 1..n : homes[m].observes # id
  BY <1>1, <1>4 DEF SInv, Unseen
<1> HIDE DEF id
<1>7. Synced'
  <2>1. ASSUME NEW m \in 1..n PROVE Follows(homes[m])'
    <3>1. (homes[m])' = homes[m] /\ Follows(homes[m]) /\ homes[m].observes # campaign'
      BY <1>3, <1>4, <1>6 DEF SInv, Synced
    <3>2. \A i : (Awaited(i)' <=> Awaited(i)) /\ (Quiet(i)' <=> Quiet(i))
      <4>1. \A i : View(i)' = View(i)
        BY <1>3, ViewIs
      <4> QED
        BY <1>3, <4>1 DEF Awaited, Quiet
    <3> QED
      BY <3>1, <3>2 DEF Follows
  <2>2. Follows(homes[n + 1])'
    BY <1>4 DEF Follows, NewHome
  <2> QED
    BY <1>4, <1>5, <2>1, <2>2 DEF Synced
<1>8. Observed'
  <2>1. NewHome(id).observes = id /\ ~NewHome(id).known
    BY DEF NewHome
  <2> QED
    BY <1>2, <1>3, <1>4, <1>5, <2>1 DEF SInv, Observed
<1>9. Unseen'
  <2>1. NewHome(id).observes = id
    BY DEF NewHome
  <2>2. \A k \in DOMAIN pushes' :
          k + 1 \in DOMAIN pushes /\ pushes'[k] = pushes[k + 1] /\ pushes'[k] # id
    <3>1. ASSUME NEW k \in DOMAIN pushes'
          PROVE  k + 1 \in DOMAIN pushes /\ pushes'[k] = pushes[k + 1] /\ k + 1 # 1
      BY <1>1
    <3> QED
      BY <1>1, <3>1 DEF SInv, Unseen, id
  <2>3. \A k, l \in DOMAIN pushes' : pushes'[k] = pushes'[l] => k = l
    <3>1. \A k, l \in DOMAIN pushes' : k + 1 = l + 1 => k = l
      BY <1>1
    <3> QED
      BY <2>2, <3>1 DEF SInv, Unseen
  <2>4. \A k \in DOMAIN pushes' : \A m \in 1..n : homes[m].observes # pushes'[k]
    BY <1>4, <2>2 DEF SInv, Unseen
  <2> QED
    BY <1>4, <1>5, <2>1, <2>2, <2>3, <2>4 DEF Unseen
<1> QED
  BY <1>7, <1>8, <1>9 DEF SInv
\* The screens under the one on top stay.
LEMMA BackScreens ==
    ASSUME IInv, SInv, Back
    PROVE  SInv'
<1>1. UNCHANGED <<crowd, pending, events, campaign, made, pushes>>
  BY DEF Back, stored, account, sdk
<1>2. PICK n \in Nat : /\ DOMAIN homes = 1..n /\ DOMAIN homes' \subseteq 1..n
                       /\ \A m \in DOMAIN homes' : homes'[m] = homes[m]
  <2>1. /\ homes \in Seq(Homes) /\ Len(homes) \in Nat /\ DOMAIN homes = 1..Len(homes)
        /\ \A m \in 1..(Len(homes) - 1) : homes[m] \in Homes
    BY LenProperties, ElementOfSeq DEF IInv, TypeOK
  <2>2. /\ homes' = SubSeq(homes, 1, Len(homes) - 1)
        /\ Len(homes) # 0
    BY <2>1, EmptySeq DEF Back, Front
  <2>3. /\ homes' \in Seq(Homes) /\ Len(homes') = Len(homes) - 1
        /\ \A m \in 1..(Len(homes) - 1) : homes'[m] = homes[m]
    BY <2>1, <2>2, SubSeqProperties
  <2>4. DOMAIN homes' = 1..(Len(homes) - 1)
    BY <2>3, LenProperties
  <2>5. 1..(Len(homes) - 1) \subseteq 1..Len(homes)
    BY <2>1
  <2> QED
    BY <2>1, <2>3, <2>4, <2>5
<1>3. \A i : (Awaited(i)' <=> Awaited(i)) /\ (Quiet(i)' <=> Quiet(i))
  <2>1. \A i : View(i)' = View(i)
    BY <1>1, ViewIs
  <2> QED
    BY <1>1, <2>1 DEF Awaited, Quiet
<1>4. ASSUME NEW i \in DOMAIN homes' PROVE Follows(homes[i])'
  <2>1. i \in DOMAIN homes /\ (homes[i])' = homes[i] /\ Follows(homes[i])
    BY <1>2, <1>4 DEF SInv, Synced
  <2>2. View(campaign)' = View(campaign)
    BY <1>1, ViewIs
  <2> QED
    BY <1>1, <1>3, <2>1, <2>2 DEF Follows, Agrees
<1>5. Observed' /\ Unseen'
  BY <1>1, <1>2 DEF SInv, Observed, Unseen
<1> QED
  BY <1>4, <1>5 DEF SInv, Synced

\* The first value is what the entry is.
LEMMA CheckScreens ==
    ASSUME IInv, SInv, NEW i \in DOMAIN homes, checkStatus(i)
    PROVE  SInv'
<1>1. /\ UNCHANGED <<crowd, pending, campaign, made, pushes>>
      /\ homes' = [homes EXCEPT ![i].known = TRUE]
      /\ homes[i].observes # Undefined
  BY DEF checkStatus, stored, account
<1> PICK o : o = homes[i].observes
  OBVIOUS
<1>2. events' = Append(events, [crowd_id |-> o, node |-> View(o)])
  BY DEF checkStatus
<1>3. /\ DOMAIN homes' = DOMAIN homes
      /\ \A j \in DOMAIN homes :
           /\ homes'[j].observes = homes[j].observes
           /\ homes'[j].known => homes[j].known \/ j = i
           /\ j # i => homes'[j] = homes[j]
  <2>1. \A j \in DOMAIN homes : homes[j] \in Homes
    BY HomeType DEF IInv
  <2>2. DOMAIN homes' = DOMAIN homes
    BY <1>1
  <2>3. ASSUME NEW j \in DOMAIN homes, j # i PROVE homes'[j] = homes[j]
    BY <1>1, <2>3
  <2>4. homes'[i] = [homes[i] EXCEPT !.known = TRUE]
    BY <1>1
  <2>5. homes'[i].observes = homes[i].observes
    BY <2>1, <2>4 DEF Homes
  <2> QED
    BY <2>2, <2>3, <2>5
<1>4. Observed' /\ Unseen'
  BY <1>1, <1>3, SameObserved DEF SInv
<1>5. \A id : View(id)' = View(id)
  BY <1>1, ViewIs
<1>6. \A id : /\ o = id => Awaited(id)'
              /\ o # id => (Awaited(id) => Awaited(id)') /\ (Quiet(id) => Quiet(id)')
  <2> PICK e : e = [crowd_id |-> o, node |-> View(o)]
    OBVIOUS
  <2>1. e.crowd_id = o /\ e.node = View(o) /\ events' = Append(events, e)
    BY <1>2
  <2> QED
    BY <1>5, <2>1, EventAppended DEF IInv
<1>7. ASSUME NEW j \in DOMAIN homes PROVE Follows(homes[j])'
  <2>1. (homes[j].observes)' = homes[j].observes
    BY <1>3
  <2>2. CASE homes[j].observes = o
    BY <1>6, <2>1, <2>2 DEF Follows
  <2>3. CASE homes[j].observes # o
    <3>1. homes'[j] = homes[j] /\ Follows(homes[j])
      BY <1>3, <2>3 DEF SInv, Synced
    <3>2. View(campaign)' = View(campaign) /\ campaign' = campaign
      BY <1>1, ViewIs
    <3> QED
      BY <1>6, <2>1, <2>3, <3>1, <3>2 DEF Follows, Agrees
  <2> QED
    BY <2>2, <2>3
<1> QED
  BY <1>3, <1>4, <1>7 DEF SInv, Synced

\* A screen that shows a value agrees with it, whatever it showed before.
LEMMA ShownAgrees ==
    ASSUME NEW h \in Homes, NEW node \in HajjAppNodes
    PROVE  /\ Shown(h, node).observes = h.observes
           /\ Shown(h, node).known = h.known
           /\ node # Absent => Agrees(Shown(h, node), node)
<1> DEFINE number == IF node.numberOfPeople = Undefined THEN NoOne ELSE node.numberOfPeople
           b == node.status = "Active"
<1>1. CASE node = Absent
  BY <1>1 DEF Shown
<1>2. CASE node # Absent
  <2>1. Shown(h, node) = [[h EXCEPT !.connected = b] EXCEPT !.number = number]
    BY <1>2 DEF Shown, toggleStatus
  <2>2. node.numberOfPeople \in Counts \cup {Undefined}
    BY DEF HajjAppNodes
  <2>3. number \in Counts
    BY <2>2, CrowdValues
  <2> HIDE DEF number, b
  <2>4. /\ Shown(h, node).observes = h.observes /\ Shown(h, node).known = h.known
        /\ Shown(h, node).connected = b /\ Shown(h, node).number = number
    BY <2>1 DEF Homes
  <2> QED
    BY <2>3, <2>4 DEF Agrees, number, b
<1> QED
  BY <1>1, <1>2

\* The last event under way is shown.
LEMMA ObserveScreens ==
    ASSUME IInv, SInv, Observe
    PROVE  SInv'
<1> PICK e : e = Head(events)
  OBVIOUS
<1>1. /\ UNCHANGED <<crowd, pending, campaign, made, pushes>>
      /\ events' = Tail(events)
      /\ homes' = [i \in DOMAIN homes |->
                     IF homes[i].observes = e.crowd_id THEN Shown(homes[i], e.node)
                     ELSE homes[i]]
  BY DEF Observe, stored, account
<1>2. PICK n \in Nat : /\ DOMAIN events = 1..n /\ n > 0 /\ events[1] = e
                       /\ DOMAIN events' = 1..(n - 1)
                       /\ \A k \in 1..(n - 1) : events'[k] = events[k + 1]
                       /\ e \in Values
  <2>1. events \in Seq(Values) /\ events # <<>>
    BY DEF IInv, TypeOK, Observe, Values
  <2>2. Len(events) \in Nat /\ Len(events) > 0 /\ DOMAIN events = 1..Len(events)
    BY <2>1, LenProperties, EmptySeq
  <2>3. DOMAIN events' = 1..(Len(events) - 1)
    BY <1>1, <2>1, <2>2, HeadTailProperties, LenProperties
  <2>4. events[1] = e /\ e \in Values /\ \A k \in 1..(Len(events) - 1) : events'[k] = events[k + 1]
    BY <1>1, <2>1, <2>2, HeadTailProperties
  <2> QED
    BY <2>2, <2>3, <2>4
<1>3. e.node \in HajjAppNodes
  BY <1>2 DEF Values
<1>4. /\ DOMAIN homes' = DOMAIN homes
      /\ \A i \in DOMAIN homes :
           /\ homes'[i].observes = homes[i].observes
           /\ homes'[i].known = homes[i].known
           /\ homes[i].observes = e.crowd_id =>
                (e.node # Absent => Agrees(homes'[i], e.node))
           /\ homes[i].observes # e.crowd_id => homes'[i] = homes[i]
  <2>1. \A i \in DOMAIN homes : homes[i] \in Homes
    BY HomeType DEF IInv
  <2>2. ASSUME NEW i \in DOMAIN homes, homes[i].observes = e.crowd_id
        PROVE  homes'[i] = Shown(homes[i], e.node)
    BY <1>1, <2>2
  <2>3. ASSUME NEW i \in DOMAIN homes, homes[i].observes # e.crowd_id
        PROVE  homes'[i] = homes[i]
    BY <1>1, <2>3
  <2> QED
    BY <1>1, <1>3, <2>1, <2>2, <2>3, ShownAgrees
<1>5. Observed' /\ Unseen'
  BY <1>1, <1>4, SameObserved DEF SInv
<1>6. \A id : View(id)' = View(id)
  BY <1>1, ViewIs
<1>7. ASSUME NEW id
      PROVE  /\ Quiet(id) => Quiet(id)' /\ e.crowd_id # id
             /\ Awaited(id) => \/ Awaited(id)'
                               \/ Quiet(id)' /\ e.crowd_id = id /\ e.node = View(id)
  <2>1. \A k \in 1..(n - 1) : k + 1 \in 1..n
    BY <1>2
  <2>2. Quiet(id) => Quiet(id)' /\ e.crowd_id # id
    BY <1>2, <2>1 DEF Quiet
  <2>3. ASSUME Awaited(id)
        PROVE  Awaited(id)' \/ (Quiet(id)' /\ e.crowd_id = id /\ e.node = View(id))
    <3>1. PICK k \in 1..n :
            /\ events[k].crowd_id = id /\ events[k].node = View(id)
            /\ \A l \in 1..n : k < l => events[l].crowd_id # id
      BY <1>2, <2>3 DEF Awaited
    <3>2. CASE k = 1
      <4>1. \A l \in 1..(n - 1) : events'[l].crowd_id # id
        <5>1. \A l \in 1..(n - 1) : l + 1 \in 1..n /\ 1 < l + 1
          BY <1>2
        <5> QED
          BY <1>2, <3>1, <3>2, <5>1
      <4> QED
        BY <1>2, <3>1, <3>2, <4>1 DEF Quiet
    <3>3. CASE k # 1
      <4>1. k - 1 \in 1..(n - 1) /\ (k - 1) + 1 = k
        BY <1>2, <3>3
      <4>2. events'[k - 1].crowd_id = id /\ events'[k - 1].node = View(id)'
        BY <1>2, <1>6, <3>1, <4>1
      <4>3. \A l \in 1..(n - 1) : k - 1 < l => events'[l].crowd_id # id
        <5>1. \A l \in 1..(n - 1) : l + 1 \in 1..n /\ (k - 1 < l => k < l + 1)
          BY <1>2
        <5> QED
          BY <1>2, <3>1, <5>1
      <4> QED
        BY <1>2, <4>1, <4>2, <4>3 DEF Awaited
    <3> QED
      BY <3>2, <3>3
  <2> QED
    BY <2>2, <2>3
<1>8. ASSUME NEW i \in DOMAIN homes PROVE Follows(homes[i])'
  <2> PICK o : o = homes[i].observes
    OBVIOUS
  <2>1. /\ (homes[i].observes)' = o /\ (homes[i].known)' = homes[i].known
        /\ campaign' = campaign /\ View(campaign)' = View(campaign)
    BY <1>1, <1>4, ViewIs
  <2>2. Follows(homes[i])
    BY DEF SInv, Synced
  <2>3. CASE homes[i].known /\ Awaited(o)
    <3>1. Awaited(o)' \/ (Quiet(o)' /\ e.crowd_id = o /\ e.node = View(o))
      BY <1>7, <2>3
    <3>2. e.crowd_id = o /\ e.node = View(o) /\ o = campaign /\ View(campaign) # Absent
          => Agrees(homes'[i], View(campaign))
      BY <1>4
    <3> QED
      BY <2>1, <3>1, <3>2 DEF Follows, Agrees
  <2>4. CASE homes[i].known /\ ~Awaited(o)
    <3>1. Quiet(o)' /\ e.crowd_id # o /\ homes'[i] = homes[i]
      BY <1>4, <1>7, <2>2, <2>4 DEF Follows
    <3> QED
      BY <2>1, <2>2, <2>4, <3>1 DEF Follows, Agrees
  <2>5. CASE ~homes[i].known
    BY <2>1, <2>5 DEF Follows
  <2> QED
    BY <2>3, <2>4, <2>5
<1> QED
  BY <1>4, <1>5, <1>8 DEF SInv, Synced
\* A fix changes nothing on the screens.
LEMMA LocationScreens ==
    ASSUME IInv, SInv, NEW place \in Places, didUpdateLocations(place)
    PROVE  SInv'
<1>1. \A id \in Ids : [crowd_id |-> id, child |-> "location", value |-> place] \in Writes
  BY DEF Writes
<1>2. /\ Write("location", place) /\ UNCHANGED <<crowd, homes, campaign, made, pushes>>
  BY DEF didUpdateLocations, stored, account, session
<1> QED
  BY <1>1, <1>2, WriteScreens

\* An entry that a write leaves as it is had its value.
LEMMA AppliedSame ==
    ASSUME TypeOK, NEW id \in Ids, NEW w \in Writes, Applied(View(id), w) = View(id)
    PROVE  /\ w.child = "status" => View(id).status = w.value
           /\ w.child = "numberOfPeople" => View(id).numberOfPeople = w.value
BY ViewType DEF Applied, HajjAppNodes

\* Start and Stop show what they write.
LEMMA ButtonScreens ==
    ASSUME IInv, SInv, NEW i \in DOMAIN homes, NEW b \in BOOLEAN,
           homes' = [homes EXCEPT ![i] = toggleStatus(@, b)],
           Write("status", IF b THEN "Active" ELSE "inActive"),
           UNCHANGED <<stored, process, account, campaign>>
    PROVE  SInv'
<1> DEFINE value == IF b THEN "Active" ELSE "inActive"
<1>1. \A id \in Ids : [crowd_id |-> id, child |-> "status", value |-> value] \in Writes
  BY DEF Writes
<1>2. b <=> value = "Active"
  OBVIOUS
<1>3. Write("status", value) /\ UNCHANGED <<crowd, campaign, made, pushes>>
  BY DEF stored, account
<1> HIDE DEF value
<1>4. DOMAIN homes' = DOMAIN homes
  OBVIOUS
<1>5. ASSUME NEW j \in DOMAIN homes
      PROVE  LET w == [crowd_id |-> campaign, child |-> "status", value |-> value]
             IN  /\ homes'[j].observes = homes[j].observes
                 /\ homes'[j].known = homes[j].known
                 /\ /\ Agrees(homes[j], View(campaign)) /\ campaign \in Ids
                    /\ Applied(View(campaign), w) = View(campaign)
                    => Agrees(homes'[j], View(campaign))
  <2> DEFINE w == [crowd_id |-> campaign, child |-> "status", value |-> value]
  <2>1. homes[j] \in Homes
    BY HomeType DEF IInv
  <2>2. CASE j # i
    BY <2>2
  <2>3. CASE j = i
    <3>1. homes'[j] = [homes[j] EXCEPT !.connected = b]
      BY <2>3 DEF toggleStatus
    <3>2. /\ homes'[j].observes = homes[j].observes /\ homes'[j].known = homes[j].known
          /\ homes'[j].number = homes[j].number /\ homes'[j].connected = b
      BY <2>1, <3>1 DEF Homes
    <3>3. ASSUME campaign \in Ids, Applied(View(campaign), w) = View(campaign)
          PROVE  View(campaign).status = value
      <4>1. w \in Writes /\ w.child = "status" /\ w.value = value
        BY <1>1, <3>3
      <4> HIDE DEF w
      <4> QED
        BY <3>3, <4>1, AppliedSame DEF IInv
    <3> QED
      BY <1>2, <3>2, <3>3 DEF Agrees
  <2> QED
    BY <2>2, <2>3
<1> QED
  BY <1>1, <1>3, <1>4, <1>5, WriteScreens

\* The taps on the number show what they write.
LEMMA CountScreens ==
    ASSUME IInv, SInv, NEW i \in DOMAIN homes, NEW total \in 0..MaxTens, Counted(i, total)
    PROVE  SInv'
<1> DEFINE value == Text[total]
<1>1. value \in Counts
  BY TextAssumption
<1>2. \A id \in Ids :
        [crowd_id |-> id, child |-> "numberOfPeople", value |-> value] \in Writes
  BY <1>1 DEF Writes
<1>3. /\ Write("numberOfPeople", value) /\ UNCHANGED <<crowd, campaign, made, pushes>>
      /\ homes' = [homes EXCEPT ![i].number = value]
  BY DEF Counted, stored, account
<1> HIDE DEF value
<1>4. DOMAIN homes' = DOMAIN homes
  BY <1>3
<1>5. ASSUME NEW j \in DOMAIN homes
      PROVE  LET w == [crowd_id |-> campaign, child |-> "numberOfPeople", value |-> value]
             IN  /\ homes'[j].observes = homes[j].observes
                 /\ homes'[j].known = homes[j].known
                 /\ /\ Agrees(homes[j], View(campaign)) /\ campaign \in Ids
                    /\ Applied(View(campaign), w) = View(campaign)
                    => Agrees(homes'[j], View(campaign))
  <2> DEFINE w == [crowd_id |-> campaign, child |-> "numberOfPeople", value |-> value]
  <2>1. homes[j] \in Homes
    BY HomeType DEF IInv
  <2>2. CASE j # i
    <3>1. homes'[j] = homes[j]
      BY <1>3, <2>2
    <3> QED
      BY <3>1
  <2>3. CASE j = i
    <3>1. homes'[j] = [homes[j] EXCEPT !.number = value]
      BY <1>3, <2>3
    <3>2. /\ homes'[j].observes = homes[j].observes /\ homes'[j].known = homes[j].known
          /\ homes'[j].connected = homes[j].connected /\ homes'[j].number = value
      BY <2>1, <3>1 DEF Homes
    <3>3. ASSUME campaign \in Ids, Applied(View(campaign), w) = View(campaign)
          PROVE  View(campaign).numberOfPeople = value
      <4>1. w \in Writes /\ w.child = "numberOfPeople" /\ w.value = value
        BY <1>2, <3>3
      <4> HIDE DEF w
      <4> QED
        BY <3>3, <4>1, AppliedSame DEF IInv
    <3>4. value # Undefined
      BY <1>1, CrowdValues
    <3> QED
      BY <1>1, <3>2, <3>3, <3>4 DEF Agrees
  <2> QED
    BY <2>2, <2>3
<1> QED
  BY <1>2, <1>3, <1>4, <1>5, WriteScreens

\* Every step keeps the screens in step with the entries.
LEMMA SInvNext ==
    ASSUME IInv, SInv, [Next]_vars
    PROVE  SInv'
<1>1. CASE Deliver
  <2>1. UNCHANGED <<homes, campaign, events, made, pushes>>
    BY <1>1 DEF Deliver, account, session
  <2> QED
    BY <1>1, <2>1, ViewDelivered, SameScreens DEF IInv
<1>2. CASE \E id \in Ids : Delete(id)
  BY <1>2, DeleteScreens
<1>3. CASE didFinishLaunching
  BY <1>3, LaunchScreens
<1>4. CASE Kill \/ applicationWillTerminate
  BY <1>4, NoScreens DEF Kill, applicationWillTerminate, Die
<1>5. CASE UNCHANGED <<crowd, pending, homes, campaign, events, made, pushes>>
  <2>1. \A id \in Ids : View(id)' = View(id)
    BY <1>5, ViewIs
  <2> QED
    BY <1>5, <2>1, SameScreens DEF IInv
<1>6. CASE \E place \in Places : didUpdateLocations(place)
  BY <1>6, LocationScreens
<1>7. CASE Login
  <2>1. PICK k \in DOMAIN logins :
          \/ Answered(k) \/ SignIn(k) \/ SignInFails(k)
          \/ \E id \in Ids \ made : Completed(k, id)
    BY <1>7 DEF Login
  <2>2. CASE Answered(k) \/ SignIn(k) \/ SignInFails(k)
    BY <1>5, <2>2 DEF Answered, SignIn, SignInFails, stored, session, sdk
  <2> QED
    BY <2>1, <2>2, CompletedScreens
<1>8. CASE Push
  BY <1>8, PushScreens
<1>9. CASE Back
  BY <1>9, BackScreens
<1>10. CASE \E i \in DOMAIN homes : checkStatus(i)
  BY <1>10, CheckScreens
<1>11. CASE Observe
  BY <1>11, ObserveScreens
<1>12. CASE Tap
  <2>1. PICK i \in DOMAIN homes :
          \/ startBtnHandler(i) \/ stopBtnHandler(i)
          \/ incrementHandler(i) \/ decrementHandler(i)
    BY <1>12 DEF Tap
  <2>2. CASE startBtnHandler(i)
    BY <2>2, ButtonScreens DEF startBtnHandler
  <2>3. CASE stopBtnHandler(i)
    BY <2>3, ButtonScreens DEF stopBtnHandler
  <2>4. CASE incrementHandler(i) \/ decrementHandler(i)
    <3>1. \A n \in 0..(MaxTens - 1) : n + 1 \in 0..MaxTens
      BY TextAssumption
    <3>2. \A n \in 1..MaxTens : n - 1 \in 0..MaxTens
      BY TextAssumption
    <3>3. PICK total \in 0..MaxTens : Counted(i, total)
      BY <2>4, <3>1, <3>2 DEF incrementHandler, decrementHandler
    <3> QED
      BY <3>3, CountScreens
  <2> QED
    BY <2>1, <2>2, <2>3, <2>4
<1>13. CASE SwitchOnline
  BY <1>5, <1>13 DEF SwitchOnline, account, session, sdk
<1>14. CASE Reinstall
  BY <1>5, <1>14 DEF Reinstall, stored, session, sdk
<1>15. CASE applicationDidEnterBackground \/ applicationWillEnterForeground
  BY <1>5, <1>15 DEF applicationDidEnterBackground, applicationWillEnterForeground, stored,
                     account, session, sdk
<1>16. CASE \E c \in Campaigns, number \in Phones : loginHandler(c, number)
  BY <1>5, <1>16 DEF loginHandler, stored, session, sdk
<1>17. CASE UNCHANGED vars
  BY <1>5, <1>17 DEF vars, stored, account, session, sdk
<1> QED
  BY <1>1, <1>2, <1>3, <1>4, <1>6, <1>7, <1>8, <1>9, <1>10, <1>11, <1>12, <1>13, <1>14,
     <1>15, <1>16, <1>17 DEF Next

-----------------------------------------------------------------------------
(* The theorem. *)

\* The screen shows the entry it writes to once no event for it is under way,
\* however many taps, older events, fixes, deletions and lost connections came
\* in between (HomeVC.swift:116-135).
THEOREM ScreenShowsEntryAlways == Spec => []ScreenShowsEntry
<1>1. Init => SInv
  BY DEF Init, SInv, Synced, Observed, Unseen
<1>2. SInv => ScreenShowsEntry
  <2> SUFFICES ASSUME SInv, NEW i \in DOMAIN homes,
                      homes[i].known /\ homes[i].observes = campaign,
                      \A n \in DOMAIN events : events[n].crowd_id # campaign,
                      View(campaign) # Absent
               PROVE  Agrees(homes[i], View(campaign))
    BY DEF ScreenShowsEntry, Agrees
  <2>1. Follows(homes[i]) /\ ~Awaited(campaign)
    BY DEF SInv, Synced, Awaited
  <2> QED
    BY <2>1 DEF Follows
<1>3. IInv /\ SInv /\ [Next]_vars => SInv'
  BY SInvNext
<1> QED
  BY <1>1, <1>2, <1>3, Invariance, PTL DEF Spec
=============================================================================
