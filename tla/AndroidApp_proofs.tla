-------------------------- MODULE AndroidApp_proofs --------------------------
(***************************************************************************)
(* Proofs about AndroidApp, for any number of ids, campaigns, activities   *)
(* and sign-ups.                                                           *)
(*                                                                         *)
(* The types and what is written depend on each other: an activity can     *)
(* only show an id the singleton has, and an entry is only complete if the *)
(* activity that writes it was created after a verification and started.   *)
(* IInv below says so.                                                     *)
(***************************************************************************)
EXTENDS AndroidApp, TLAPS, SequenceTheorems, FiniteSetTheorems

Requests == {"Verification", "Main"}

-----------------------------------------------------------------------------
(* The invariant. *)

\* What an activity is about to write is complete, or lacks the campaign and
\* the location together.
MainReady(m) ==
    /\ m.stop \/ m.current \/ m.older \/ m.late => m.data.numberOfPeople \in Counts
    /\ m.data.location \in Places \cup {Undefined}
    /\ m.data.location = Undefined => m.data.campaign_id = Undefined
    /\ m.asking => ~m.stop

AllReady == \A i \in DOMAIN mains : MainReady(mains[i])

\* Where there is a MainActivity, or one is asked for, somebody verified.
Verified ==
    mains # <<>> \/ (\E n \in DOMAIN launching : launching[n] = "Main")
      => tafweej.crowd_id \in Ids /\ tafweej.status \in Status

IInv == TypeOK /\ AllReady /\ Verified /\ NodesAreTafweej

-----------------------------------------------------------------------------
(* Sequences. *)

\* The task and its front are sequences of activities.
LEMMA FrontType ==
    ASSUME NEW s \in Seq(Activity)
    PROVE  Front(s) \in Seq(Activity)
<1>1. Len(s) \in Nat /\ \A i \in 1..Len(s) : s[i] \in Activity
  BY LenProperties, ElementOfSeq
<1>2. \A i \in 1..(Len(s) - 1) : s[i] \in Activity
  BY <1>1
<1> QED
  BY <1>1, <1>2, SubSeqProperties DEF Front

\* What is asked for are activities.
LEMMA RequestsAreActivities ==
    ASSUME NEW s \in Seq(Requests)
    PROVE  s \in Seq(Activity)
BY SeqMonotonic DEF Requests, Activity

\* Any number of verifications can be asked for.
LEMMA VerificationsType ==
    ASSUME NEW k \in Nat
    PROVE  /\ [n \in 1..k |-> "Verification"] \in Seq(Requests)
           /\ Len([n \in 1..k |-> "Verification"]) = k
<1> DEFINE new == [n \in 1..k |-> "Verification"]
<1>1. new \in [1..k -> Requests]
  BY DEF Requests
<1> HIDE DEF new
<1>2. new \in Seq(Requests)
  BY <1>1, SeqDef
<1>3. Len(new) \in Nat /\ 1..Len(new) = 1..k
  BY <1>1, <1>2, LenProperties
<1>4. Len(new) = k
  BY <1>3
<1> QED
  BY <1>2, <1>4 DEF new

\* The listeners that are called are finitely many.
LEMMA CalledAreFinite ==
    ASSUME NEW s \in Seq(SignUps), NEW called \in SUBSET (DOMAIN s)
    PROVE  IsFiniteSet(called) /\ Cardinality(called) \in Nat
<1>1. DOMAIN s = 1..Len(s) /\ Len(s) \in Nat
  BY LenProperties
<1>2. IsFiniteSet(1..Len(s))
  BY <1>1, FS_Interval
<1> QED
  BY <1>1, <1>2, FS_Subset, FS_CardinalityType

-----------------------------------------------------------------------------
(* What a handler makes of a MainActivity. *)

\* Start
LEMMA TrackingReady ==
    ASSUME NEW m \in Mains, MainReady(m), ~m.stop, gps \in BOOLEAN
    PROVE  Tracking(m) \in Mains /\ MainReady(Tracking(m))
<1> DEFINE d == [m.data EXCEPT !.numberOfPeople = m.progress]
<1>1. d \in Node /\ d.numberOfPeople \in Counts /\ d.location = m.data.location
      /\ d.campaign_id = m.data.campaign_id
  BY DEF Mains, Node
<1>2. Tracking(m) = [m EXCEPT !.stop = TRUE, !.seek = FALSE, !.data = d,
                              !.older = m.older \/ m.current, !.current = TRUE,
                              !.disabled = m.disabled \/ ~gps, !.asking = FALSE]
  BY DEF Tracking, Mains
<1> HIDE DEF d
<1>3. Tracking(m) \in Mains
  BY ZenonT(60), <1>1, <1>2 DEF Mains
<1>4. MainReady(Tracking(m))
  BY <1>1, <1>2 DEF MainReady, Mains
<1> QED
  BY <1>3, <1>4

\* Stop
LEMMA StoppedReady ==
    ASSUME NEW m \in Mains, MainReady(m), m.stop
    PROVE  /\ Stopped(m) \in Mains
           /\ MainReady(Stopped(m))
           /\ Stopped(m).data \in TafweejNodes
<1> DEFINE d == [m.data EXCEPT !.status = "inActive"]
<1>1. d \in Node /\ d.numberOfPeople = m.data.numberOfPeople /\ d.location = m.data.location
      /\ d.campaign_id = m.data.campaign_id /\ d.status = "inActive"
  BY DEF Mains, Node, Status
<1>2. Stopped(m) = [m EXCEPT !.stop = FALSE, !.seek = TRUE, !.current = FALSE,
                             !.late = m.current \/ m.older, !.data = d]
  BY DEF Stopped, Mains
<1>3. d \in TafweejNodes
  BY <1>1 DEF MainReady, TafweejNodes, Node, Status
<1> HIDE DEF d
<1>4. Stopped(m) \in Mains
  BY ZenonT(60), <1>1, <1>2 DEF Mains
<1>5. MainReady(Stopped(m))
  BY <1>1, <1>2 DEF MainReady, Mains
<1>6. Stopped(m).data = d
  BY <1>2 DEF Mains
<1> QED
  BY <1>3, <1>4, <1>5, <1>6

\* A fix
LEMMA LocatedReady ==
    ASSUME NEW m \in Mains, MainReady(m), m.current \/ m.older \/ m.late,
           tafweej \in Tafweej, tafweej.status \in Status, NEW place \in Places
    PROVE  /\ Located(m, place) \in Mains
           /\ MainReady(Located(m, place))
           /\ Located(m, place).data \in TafweejNodes
<1> DEFINE d == [m.data EXCEPT !.campaign_id = tafweej.campaign_id,
                               !.location = place, !.status = tafweej.status]
<1>1. d \in Node /\ d.numberOfPeople = m.data.numberOfPeople /\ d.location = place
      /\ d.campaign_id \in Campaigns \cup {Undefined} /\ d.status \in Status
  BY DEF Mains, Node, Tafweej
<1>2. Located(m, place) = [m EXCEPT !.late = FALSE, !.data = d]
  BY DEF Located, Mains
<1>3. d \in TafweejNodes
  BY <1>1 DEF MainReady, TafweejNodes, Node
<1>4. place # Undefined
  BY CrowdValues
<1> HIDE DEF d
<1>5. Located(m, place) \in Mains
  BY <1>1, <1>2 DEF Mains
<1>6. MainReady(Located(m, place))
  BY <1>1, <1>2, <1>4 DEF MainReady, Mains
<1>7. Located(m, place).data = d
  BY <1>2 DEF Mains
<1> QED
  BY <1>3, <1>5, <1>6, <1>7

\* onCreate
LEMMA NewMainReady ==
    ASSUME NEW id \in Ids
    PROVE  NewMain(id) \in Mains /\ MainReady(NewMain(id))
<1>1. EmptyData \in Node
  BY DEF EmptyData, Node
<1>2. NewMain(id) \in Mains
  BY <1>1, CrowdValues DEF NewMain, Mains
<1>3. MainReady(NewMain(id))
  BY DEF NewMain, EmptyData, MainReady
<1> QED
  BY <1>2, <1>3

-----------------------------------------------------------------------------
(* Steps that several handlers share. *)

\* The invariant starts out true.
LEMMA IInvInit == Init => IInv
<1> SUFFICES ASSUME Init PROVE IInv
  OBVIOUS
<1>1. TypeOK
  BY EmptySeq DEF Init, TypeOK, Tafweej, NewTafweej, Permission
<1>2. AllReady /\ Verified /\ NodesAreTafweej
  BY DEF Init, AllReady, Verified, NodesAreTafweej
<1> QED
  BY <1>1, <1>2 DEF IInv

\* The end of the process leaves nothing to be wrong about.
LEMMA Death ==
    ASSUME IInv, NEW task \in Seq(Activity), Die(task),
           campaign' \in Campaign, permission' \in Permission,
           UNCHANGED <<crowd, gps>>
    PROVE  IInv'
<1>1. TypeOK'
  BY EmptySeq DEF IInv, TypeOK, Die, Tafweej, NewTafweej
<1>2. AllReady' /\ Verified' /\ NodesAreTafweej'
  BY DEF IInv, Die, AllReady, Verified, NodesAreTafweej
<1> QED
  BY <1>1, <1>2 DEF IInv

\* The task is a sequence of activities.
LEMMA TaskType ==
    ASSUME TypeOK
    PROVE  Task \in Seq(Activity)
BY RequestsAreActivities, ConcatProperties DEF TypeOK, Task, Requests

\* A handler that leaves one MainActivity ready leaves all of them ready.
LEMMA OneChanged ==
    ASSUME TypeOK, AllReady, NEW i \in DOMAIN mains,
           NEW m \in Mains, MainReady(m), mains' = [mains EXCEPT ![i] = m]
    PROVE  mains' \in Seq(Mains) /\ AllReady' /\ mains # <<>>
<1>1. mains \in Seq(Mains) /\ DOMAIN mains = 1..Len(mains)
  BY LenProperties DEF TypeOK
<1>2. mains' \in Seq(Mains)
  BY <1>1, ExceptSeq
<1>3. AllReady'
  BY <1>1 DEF AllReady
<1>4. mains # <<>>
  BY <1>1, EmptySeq
<1> QED
  BY <1>2, <1>3, <1>4

\* The handlers that do not touch what the invariant speaks of.
LEMMA Idle ==
    ASSUME IInv, TypeOK', UNCHANGED <<crowd, tafweej, launching, mains>>
    PROVE  IInv'
BY DEF IInv, AllReady, Verified, NodesAreTafweej

-----------------------------------------------------------------------------
(* The process and LoginActivity. *)

\* Opening the app, whatever is on top of the task.
LEMMA OpenStep ==
    ASSUME IInv, OpenLogin \/ OpenVerification \/ OpenMain
    PROVE  IInv'
<1>1. CASE OpenLogin
  <2>1. <<"Login">> \in Seq(Activity)
    BY DEF Activity
  <2>2. TypeOK'
    BY <1>1, <2>1 DEF OpenLogin, IInv, TypeOK
  <2> QED
    BY <1>1, <2>2, Idle DEF OpenLogin
<1>2. CASE OpenVerification
  <2>1. TypeOK'
    BY <1>2 DEF OpenVerification, IInv, TypeOK
  <2> QED
    BY <1>2, <2>1, Idle DEF OpenVerification
<1>3. CASE OpenMain
  BY <1>3, FrontType, Death DEF OpenMain, Crash, IInv, TypeOK
<1> QED
  BY <1>1, <1>2, <1>3

\* The process is killed.
LEMMA KillStep ==
    ASSUME IInv, Kill
    PROVE  IInv'
<1>1. PICK task \in {Task, <<>>} : Die(task)
  BY DEF Kill
<1>2. task \in Seq(Activity)
  BY TaskType, EmptySeq DEF IInv
<1> QED
  BY <1>1, <1>2, Death DEF Kill, IInv, TypeOK

\* A MainActivity is created with the id of the singleton, which is there.
LEMMA CreateStep ==
    ASSUME IInv, NEW n \in DOMAIN launching, Create(n)
    PROVE  IInv'
<1>1. /\ launching \in Seq(Requests)
      /\ Len(launching) \in Nat
      /\ n \in 1..Len(launching)
      /\ \A j \in 1..Len(launching) : launching[j] \in Requests
  BY LenProperties, ElementOfSeq DEF IInv, TypeOK, Requests
<1>2. /\ SubSeq(launching, 1, n) \in Seq(Requests)
      /\ SubSeq(launching, n + 1, Len(launching)) \in Seq(Requests)
      /\ \A j \in DOMAIN SubSeq(launching, n + 1, Len(launching)) :
           \E k \in DOMAIN launching :
             SubSeq(launching, n + 1, Len(launching))[j] = launching[k]
  <2>1. \A j \in 1..n : launching[j] \in Requests
    BY <1>1
  <2>2. \A j \in (n + 1)..Len(launching) : launching[j] \in Requests
    BY <1>1
  <2> DEFINE rest == SubSeq(launching, n + 1, Len(launching))
  <2>3. /\ rest \in Seq(Requests)
        /\ Len(rest) = IF n + 1 <= Len(launching) THEN Len(launching) - (n + 1) + 1 ELSE 0
        /\ \A j \in 1..(Len(launching) - (n + 1) + 1) : rest[j] = launching[n + 1 + j - 1]
    BY <1>1, <2>2, SubSeqProperties
  <2>4. DOMAIN launching = 1..Len(launching) /\ DOMAIN rest = 1..Len(rest)
    BY <1>1, <2>3, LenProperties
  <2> HIDE DEF rest
  <2>5. \A j \in DOMAIN rest : n + j \in DOMAIN launching /\ rest[j] = launching[n + j]
    BY SMTT(60), <1>1, <2>3, <2>4
  <2>6. SubSeq(launching, 1, n) \in Seq(Requests)
    BY <1>1, <2>1, SubSeqProperties
  <2> QED
    BY <2>3, <2>5, <2>6 DEF rest
<1>3. stack' \in Seq(Activity)
  BY <1>2, RequestsAreActivities, ConcatProperties DEF IInv, TypeOK, Create
<1>4. CASE launching[n] = "Main"
  <2>1. tafweej.crowd_id \in Ids
    BY <1>4 DEF IInv, Verified
  <2> DEFINE m == NewMain(tafweej.crowd_id)
  <2>2. m \in Mains /\ MainReady(m)
    BY <2>1, NewMainReady
  <2>3. mains \in Seq(Mains) /\ mains' = Append(mains, m)
    BY <1>4 DEF IInv, TypeOK, Create
  <2> HIDE DEF m
  <2>4. /\ mains' \in Seq(Mains)
        /\ Len(mains) \in Nat
        /\ DOMAIN mains = 1..Len(mains)
        /\ DOMAIN mains' = 1..(Len(mains) + 1)
        /\ \A i \in 1..Len(mains) : mains'[i] = mains[i]
        /\ mains'[Len(mains) + 1] = m
    BY <2>2, <2>3, AppendProperties, LenProperties
  <2>5. AllReady'
    BY <2>2, <2>4 DEF IInv, AllReady
  <2>6. TypeOK'
    BY <1>2, <1>3, <2>4 DEF IInv, TypeOK, Create, Requests
  <2>7. Verified' /\ NodesAreTafweej'
    BY <1>4 DEF IInv, Verified, NodesAreTafweej, Create
  <2> QED
    BY <2>5, <2>6, <2>7 DEF IInv
<1>5. CASE launching[n] # "Main"
  <2>1. TypeOK'
    BY <1>2, <1>3, <1>5 DEF IInv, TypeOK, Create, Requests
  <2>2. AllReady' /\ Verified' /\ NodesAreTafweej'
    BY <1>2, <1>5 DEF IInv, AllReady, Verified, NodesAreTafweej, Create
  <2> QED
    BY <2>1, <2>2 DEF IInv
<1> QED
  BY <1>4, <1>5

\* The dialogs of LoginActivity.
LEMMA DialogStep ==
    ASSUME IInv, AnswerLogin \/ Cancel \/ Allow
    PROVE  IInv'
<1>1. CASE AnswerLogin
  <2>1. TypeOK'
    BY <1>1 DEF AnswerLogin, Answers, Permission, IInv, TypeOK
  <2> QED
    BY <1>1, <2>1, Idle DEF AnswerLogin
<1>2. CASE Cancel
  <2>1. TypeOK'
    BY <1>2 DEF Cancel, IInv, TypeOK
  <2> QED
    BY <1>2, <2>1, Idle DEF Cancel
<1>3. CASE Allow
  <2>1. CASE permission = "granted"
    BY <1>3, <2>1, TaskType, FrontType, Death DEF Allow, Crash, IInv, TypeOK
  <2>2. CASE permission # "granted"
    <3>1. TypeOK'
      BY <1>3, <2>2 DEF Allow, IInv, TypeOK
    <3> QED
      BY <1>3, <2>2, <3>1, Idle DEF Allow
  <2> QED
    BY <2>1, <2>2
<1> QED
  BY <1>1, <1>2, <1>3

\* A click on Sign Up.
LEMMA SignUpStep ==
    ASSUME IInv, NEW id \in Campaigns, NEW contacts \in Phones, SignUp(id, contacts)
    PROVE  IInv'
<1>1. [campaign_id |-> id, contacts |-> contacts, answered |-> FALSE] \in SignUps
  BY DEF SignUps
<1>2. signUps' \in Seq(SignUps)
  BY <1>1, AppendProperties DEF SignUp, IInv, TypeOK
<1>3. TypeOK'
  BY <1>2 DEF SignUp, IInv, TypeOK
<1> QED
  BY <1>3, Idle DEF SignUp

\* A snapshot of Campaign asks for verifications only, and what it keeps is a
\* campaign.
LEMMA OnDataChangeStep ==
    ASSUME IInv, NEW called \in SUBSET (DOMAIN signUps), NEW snapshot \in Campaign,
           OnDataChange(called, snapshot),
           campaign' \in Campaign, UNCHANGED <<crowd, permission, gps>>
    PROVE  IInv'
<1> DEFINE thrown   == {i \in called : Throws(signUps[i], snapshot)}
           matching == {i \in called : Matches(signUps[i], snapshot)
                                        /\ \A t \in thrown : i < t}
           asked    == launching \o [n \in 1..Cardinality(matching) |-> "Verification"]
<1>1. /\ signUps \in Seq(SignUps) /\ DOMAIN signUps = 1..Len(signUps)
      /\ \A i \in DOMAIN signUps : signUps[i] \in SignUps
  BY LenProperties, ElementOfSeq DEF IInv, TypeOK
<1>2. matching \in SUBSET (DOMAIN signUps)
  OBVIOUS
<1>3. Cardinality(matching) \in Nat
  BY <1>1, <1>2, CalledAreFinite
<1> DEFINE k == Cardinality(matching)
           new == [n \in 1..k |-> "Verification"]
<1>4. /\ (thrown # {} /\ Crash(stack \o asked))
         \/ /\ thrown = {}
            /\ launching' = asked
            /\ Kept(matching)
            /\ signUps' = [i \in DOMAIN signUps |->
                 [signUps[i] EXCEPT !.answered = @ \/ i \in called]]
            /\ UNCHANGED <<alive, stack, mains, dialog>>
  BY DEF OnDataChange
<1> HIDE DEF thrown, matching
<1>5. new \in Seq(Requests) /\ Len(new) = k
  BY <1>3, VerificationsType
<1>6. /\ asked \in Seq(Requests)
      /\ Len(launching) \in Nat /\ DOMAIN launching = 1..Len(launching)
      /\ DOMAIN asked = 1..(Len(launching) + k)
      /\ \A j \in 1..(Len(launching) + k) :
           asked[j] = IF j <= Len(launching) THEN launching[j] ELSE new[j - Len(launching)]
  <2>1. launching \in Seq(Requests)
    BY DEF IInv, TypeOK, Requests
  <2>2. asked = launching \o new
    OBVIOUS
  <2> HIDE DEF asked, k, new
  <2>3. /\ asked \in Seq(Requests)
        /\ Len(asked) = Len(launching) + Len(new)
        /\ \A j \in 1..(Len(launching) + Len(new)) :
             asked[j] = IF j <= Len(launching) THEN launching[j] ELSE new[j - Len(launching)]
    BY <1>5, <2>1, <2>2, ConcatProperties
  <2>4. /\ Len(launching) \in Nat
        /\ DOMAIN launching = 1..Len(launching)
        /\ DOMAIN asked = 1..Len(asked)
    BY <2>1, <2>3, LenProperties
  <2> QED
    BY <1>5, <2>3, <2>4
<1>7. \A j \in DOMAIN asked : asked[j] = "Main" =>
        j \in DOMAIN launching /\ launching[j] = "Main"
  <2> TAKE j \in DOMAIN asked
  <2>1. CASE j <= Len(launching)
    BY <1>6, <2>1
  <2>2. CASE ~(j <= Len(launching))
    <3>1. j - Len(launching) \in 1..k
      BY <1>3, <1>6, <2>2
    <3>2. new[j - Len(launching)] = "Verification"
      BY <3>1
    <3>3. asked[j] = "Verification"
      BY <1>6, <2>2, <3>2
    <3> QED
      BY <3>3
  <2> QED
    BY <2>1, <2>2
<1> HIDE DEF asked
<1>8. CASE thrown # {} /\ Crash(stack \o asked)
  <2>1. stack \o asked \in Seq(Activity)
    BY <1>6, RequestsAreActivities, ConcatProperties DEF IInv, TypeOK
  <2> QED
    BY <1>8, <2>1, FrontType, Death DEF Crash, IInv, TypeOK
<1>9. CASE /\ thrown = {}
           /\ launching' = asked
           /\ Kept(matching)
           /\ signUps' = [i \in DOMAIN signUps |->
                [signUps[i] EXCEPT !.answered = @ \/ i \in called]]
           /\ UNCHANGED <<alive, stack, mains, dialog>>
  <2>1. /\ tafweej' \in Tafweej
        /\ tafweej'.crowd_id = tafweej.crowd_id
        /\ tafweej'.status = tafweej.status
    <3>1. CASE matching = {}
      BY <1>9, <3>1 DEF Kept, IInv, TypeOK
    <3>2. CASE matching # {}
      <4>1. PICK last \in matching :
              tafweej' = [tafweej EXCEPT !.campaign_id = signUps[last].campaign_id]
        BY <1>9, <3>2 DEF Kept
      <4>2. signUps[last].campaign_id \in Campaigns
        BY <1>1, <1>2, <4>1 DEF SignUps
      <4> QED
        BY <4>1, <4>2 DEF IInv, TypeOK, Tafweej
    <3> QED
      BY <3>1, <3>2
  <2>2. signUps' \in Seq(SignUps)
    <3>1. \A i \in DOMAIN signUps :
            [signUps[i] EXCEPT !.answered = @ \/ i \in called] \in SignUps
      BY <1>1 DEF SignUps
    <3>2. signUps' \in [1..Len(signUps) -> SignUps] /\ Len(signUps) \in Nat
      BY <1>1, <1>9, <3>1, LenProperties
    <3> QED
      BY <3>2, SeqDef
  <2>3. TypeOK'
    BY <1>6, <1>9, <2>1, <2>2 DEF IInv, TypeOK, Requests
  <2>4. AllReady' /\ NodesAreTafweej'
    BY <1>9 DEF IInv, AllReady, NodesAreTafweej
  <2>5. Verified'
    BY <1>7, <1>9, <2>1 DEF IInv, Verified
  <2> QED
    BY <2>3, <2>4, <2>5 DEF IInv
<1> QED
  BY <1>4, <1>8, <1>9

\* The snapshots of one listener and of all of them.
LEMMA SnapshotStep ==
    ASSUME IInv,
           (\E i \in DOMAIN signUps : Answer(i)) \/ (\E new \in Campaign : EditCampaign(new))
    PROVE  IInv'
<1>1. ASSUME NEW i \in DOMAIN signUps, Answer(i) PROVE IInv'
  BY <1>1, OnDataChangeStep DEF Answer, IInv, TypeOK
<1>2. ASSUME NEW new \in Campaign, EditCampaign(new) PROVE IInv'
  <2>1. CASE alive
    <3> DEFINE called == {i \in DOMAIN signUps : signUps[i].answered}
    <3>1. called \in SUBSET (DOMAIN signUps) /\ OnDataChange(called, new)
      BY <1>2, <2>1 DEF EditCampaign
    <3> HIDE DEF called
    <3> QED
      BY <1>2, <3>1, OnDataChangeStep DEF EditCampaign
  <2>2. CASE ~alive
    <3>1. TypeOK'
      BY <1>2, <2>2 DEF EditCampaign, IInv, TypeOK
    <3> QED
      BY <1>2, <2>2, <3>1, Idle DEF EditCampaign
  <2> QED
    BY <2>1, <2>2
<1> QED
  BY <1>1, <1>2

-----------------------------------------------------------------------------
(* VerificationActivity and MainActivity. *)

\* Verify leaves an entry as registered, and the id for the activity to come.
LEMMA VerifyStep ==
    ASSUME IInv, NEW id \in Ids, Verify(id)
    PROVE  IInv'
<1>1. /\ tafweej' \in Tafweej
      /\ tafweej'.crowd_id \in Ids
      /\ tafweej'.status \in Status
  BY DEF Verify, IInv, TypeOK, Tafweej, Status
<1>2. Registered(tafweej.campaign_id) \in Node \cap TafweejNodes
  BY CrowdValues DEF Registered, TafweejNodes, Node, Status, IInv, TypeOK, Tafweej
<1>3. launching' \in Seq({"Verification", "Main"})
  BY AppendProperties DEF Verify, IInv, TypeOK
<1>4. TypeOK'
  BY <1>1, <1>2, <1>3 DEF Verify, IInv, TypeOK
<1>5. AllReady'
  BY DEF Verify, IInv, AllReady
<1>6. Verified'
  BY <1>1 DEF Verified
<1>7. NodesAreTafweej'
  BY <1>2 DEF Verify, IInv, TypeOK, NodesAreTafweej
<1> QED
  BY <1>4, <1>5, <1>6, <1>7 DEF IInv

\* What an activity of the list is.
LEMMA MainsElement ==
    ASSUME IInv, NEW i \in DOMAIN mains
    PROVE  mains[i] \in Mains /\ MainReady(mains[i]) /\ mains # <<>>
<1>1. mains \in Seq(Mains) /\ DOMAIN mains = 1..Len(mains)
  BY LenProperties DEF IInv, TypeOK
<1>2. mains[i] \in Mains
  BY <1>1, ElementOfSeq
<1>3. mains # <<>>
  BY <1>1, EmptySeq
<1> QED
  BY <1>2, <1>3 DEF IInv, AllReady

\* A handler that changes one activity, and no more than the status of the
\* singleton and the entry of the activity.
LEMMA OneChangedStep ==
    ASSUME IInv, NEW i \in DOMAIN mains,
           NEW m \in Mains, MainReady(m), mains' = [mains EXCEPT ![i] = m],
           NEW st \in Status,
           tafweej' = tafweej \/ tafweej' = [tafweej EXCEPT !.status = st],
           crowd' = crowd \/ \E d \in TafweejNodes : crowd' = [crowd EXCEPT ![mains[i].child] = d],
           permission' \in Permission, dialog' = dialog,
           UNCHANGED <<campaign, alive, signUps, stack, launching, gps>>
    PROVE  IInv'
<1>1. mains' \in Seq(Mains) /\ AllReady' /\ mains # <<>>
  BY OneChanged DEF IInv
<1>2. tafweej' \in Tafweej /\ tafweej'.crowd_id = tafweej.crowd_id
      /\ (tafweej'.status = tafweej.status \/ tafweej'.status = st)
  BY DEF IInv, TypeOK, Tafweej
<1>3. TafweejNodes \subseteq Node
  BY CrowdValues DEF TafweejNodes, Registered, Node, Status
<1>4. crowd' \in [Ids -> Node \cup {Undefined}] /\ NodesAreTafweej'
  <2>1. CASE crowd' = crowd
    BY <2>1 DEF IInv, TypeOK, NodesAreTafweej
  <2>2. ASSUME NEW d \in TafweejNodes, crowd' = [crowd EXCEPT ![mains[i].child] = d]
        PROVE  crowd' \in [Ids -> Node \cup {Undefined}] /\ NodesAreTafweej'
    <3>1. crowd \in [Ids -> Node \cup {Undefined}]
      BY DEF IInv, TypeOK
    <3>2. d \in Node
      BY <1>3
    <3>3. crowd' \in [Ids -> Node \cup {Undefined}]
      BY <2>2, <3>1, <3>2
    <3>4. \A id \in Ids : crowd'[id] = d \/ crowd'[id] = crowd[id]
      BY <2>2, <3>1
    <3> QED
      BY <3>3, <3>4 DEF IInv, NodesAreTafweej
  <2> QED
    BY <2>1, <2>2
<1>5. TypeOK'
  BY <1>1, <1>2, <1>4 DEF IInv, TypeOK
<1>6. Verified'
  BY <1>1, <1>2 DEF IInv, Verified
<1> QED
  BY <1>1, <1>4, <1>5, <1>6 DEF IInv

\* The seek bar, and a lost provider.
LEMMA ScreenStep ==
    ASSUME IInv, NEW i \in DOMAIN mains,
           (\E n \in Counts : SeekBar(i, n)) \/ onProviderDisabled(i)
    PROVE  IInv'
<1>0. mains[i] \in Mains /\ MainReady(mains[i])
  BY MainsElement
<1>1. ASSUME NEW n \in Counts, SeekBar(i, n) PROVE IInv'
  <2> DEFINE m == [mains[i] EXCEPT !.progress = n]
  <2>1. m \in Mains /\ MainReady(m)
    BY <1>0 DEF Mains, MainReady
  <2>2. mains' = [mains EXCEPT ![i] = m]
    BY <1>1 DEF SeekBar
  <2> HIDE DEF m
  <2> QED
    BY <1>1, <2>1, <2>2, OneChangedStep DEF SeekBar, IInv, TypeOK, Status
<1>2. CASE onProviderDisabled(i)
  <2> DEFINE m == [mains[i] EXCEPT !.stop = FALSE, !.disabled = FALSE]
  <2>1. m \in Mains /\ MainReady(m)
    BY <1>0 DEF Mains, MainReady
  <2>2. mains' = [mains EXCEPT ![i] = m]
    BY <1>2 DEF onProviderDisabled
  <2> HIDE DEF m
  <2> QED
    BY <1>2, <2>1, <2>2, OneChangedStep DEF onProviderDisabled, IInv, TypeOK, Status
<1> QED
  BY <1>1, <1>2

\* Start, and the answer to what it asks.
LEMMA StartStep ==
    ASSUME IInv, NEW i \in DOMAIN mains, buttonStart(i) \/ AnswerMain(i)
    PROVE  IInv'
<1>0. mains[i] \in Mains /\ MainReady(mains[i]) /\ ~mains[i].stop
  BY MainsElement DEF MainReady, buttonStart, AnswerMain
<1>1. permission' \in Permission
  BY DEF buttonStart, AnswerMain, Answers, Permission, IInv, TypeOK
<1>2. CASE getLocation(i)
  <2>1. Tracking(mains[i]) \in Mains /\ MainReady(Tracking(mains[i]))
    BY <1>0, TrackingReady DEF IInv, TypeOK
  <2>2. /\ mains' = [mains EXCEPT ![i] = Tracking(mains[i])]
        /\ tafweej' = [tafweej EXCEPT !.status = "Active"]
    BY <1>2 DEF getLocation
  <2> QED
    BY <1>1, <2>1, <2>2, OneChangedStep DEF buttonStart, AnswerMain, Status
<1>3. ASSUME NEW b \in BOOLEAN, mains' = [mains EXCEPT ![i].asking = b], UNCHANGED tafweej
      PROVE  IInv'
  <2> DEFINE m == [mains[i] EXCEPT !.asking = b]
  <2>1. m \in Mains /\ MainReady(m)
    BY <1>0 DEF Mains, MainReady
  <2>2. mains' = [mains EXCEPT ![i] = m]
    BY <1>3
  <2> HIDE DEF m
  <2> QED
    BY <1>1, <1>3, <2>1, <2>2, OneChangedStep DEF buttonStart, AnswerMain, Status
<1> QED
  BY <1>2, <1>3 DEF buttonStart, AnswerMain

\* Stop, and a fix.
LEMMA WriteStep ==
    ASSUME IInv, NEW i \in DOMAIN mains,
           buttonStop(i) \/ \E place \in Places : onLocationChanged(i, place)
    PROVE  IInv'
<1>0. mains[i] \in Mains /\ MainReady(mains[i]) /\ mains # <<>>
  BY MainsElement
<1>1. CASE buttonStop(i)
  <2> DEFINE m == Stopped(mains[i])
  <2>1. m \in Mains /\ MainReady(m) /\ m.data \in TafweejNodes
    BY <1>0, <1>1, StoppedReady DEF buttonStop
  <2>2. /\ mains' = [mains EXCEPT ![i] = m]
        /\ tafweej' = [tafweej EXCEPT !.status = "inActive"]
        /\ crowd' = [crowd EXCEPT ![mains[i].child] = m.data]
    BY <1>1 DEF buttonStop
  <2> HIDE DEF m
  <2> QED
    BY <1>1, <2>1, <2>2, OneChangedStep DEF buttonStop, IInv, TypeOK, Status
<1>2. ASSUME NEW place \in Places, onLocationChanged(i, place) PROVE IInv'
  <2> DEFINE m == Located(mains[i], place)
  <2>1. mains[i].current \/ mains[i].older \/ mains[i].late
    BY <1>2 DEF onLocationChanged, Listening
  <2>2. tafweej \in Tafweej /\ tafweej.status \in Status
    BY <1>0 DEF IInv, TypeOK, Verified
  <2>3. m \in Mains /\ MainReady(m) /\ m.data \in TafweejNodes
    BY <1>0, <2>1, <2>2, LocatedReady
  <2>4. /\ mains' = [mains EXCEPT ![i] = m]
        /\ crowd' = [crowd EXCEPT ![mains[i].child] = m.data]
    BY <1>2 DEF onLocationChanged
  <2> HIDE DEF m
  <2> QED
    BY ZenonT(60), <1>2, <2>2, <2>3, <2>4, OneChangedStep DEF onLocationChanged, IInv, TypeOK
<1> QED
  BY <1>1, <1>2

\* The GPS and the settings.
LEMMA PhoneStep ==
    ASSUME IInv, SwitchGps \/ ChangePermission
    PROVE  IInv'
<1>1. CASE SwitchGps
  <2>1. /\ mains \in Seq(Mains) /\ Len(mains) \in Nat /\ DOMAIN mains = 1..Len(mains)
        /\ \A i \in DOMAIN mains : mains[i] \in Mains
    BY LenProperties, ElementOfSeq DEF IInv, TypeOK
  <2> DEFINE m(i) == [mains[i] EXCEPT !.disabled = @ \/ (gps /\ Listening(mains[i]))]
  <2>2. \A i \in DOMAIN mains : m(i) \in Mains /\ MainReady(m(i))
    BY ZenonT(60), <2>1 DEF IInv, AllReady, Mains, MainReady
  <2>3. mains' = [i \in DOMAIN mains |-> m(i)]
    BY <1>1 DEF SwitchGps
  <2> HIDE DEF m
  <2>4. mains' \in [1..Len(mains) -> Mains]
    BY <2>1, <2>2, <2>3
  <2>5. mains' \in Seq(Mains)
    BY <2>1, <2>4, SeqDef
  <2>6. AllReady'
    BY <2>2, <2>3 DEF AllReady
  <2>7. TypeOK'
    BY <1>1, <2>5 DEF SwitchGps, IInv, TypeOK
  <2>8. mains' # <<>> => mains # <<>>
    BY <2>1, <2>3
  <2>9. Verified' /\ NodesAreTafweej'
    BY <1>1, <2>8 DEF SwitchGps, IInv, Verified, NodesAreTafweej
  <2> QED
    BY <2>6, <2>7, <2>9 DEF IInv
<1>2. CASE ChangePermission
  <2>1. CASE Die(Task)
    BY <1>2, <2>1, TaskType, Death DEF ChangePermission, Permission, IInv, TypeOK
  <2>2. CASE UNCHANGED <<alive, tafweej, signUps, stack, launching, mains, dialog>>
    <3>1. TypeOK'
      BY <1>2, <2>2 DEF ChangePermission, Permission, IInv, TypeOK
    <3> QED
      BY <1>2, <2>2, <3>1, Idle DEF ChangePermission
  <2> QED
    BY <1>2, <2>1, <2>2 DEF ChangePermission
<1> QED
  BY <1>1, <1>2

-----------------------------------------------------------------------------
(* Theorems. *)

\* Every step keeps the invariant.
LEMMA IInvStep == IInv /\ [Next]_vars => IInv'
<1> SUFFICES ASSUME IInv, [Next]_vars PROVE IInv'
  OBVIOUS
<1>1. CASE UNCHANGED vars
  BY <1>1 DEF vars, IInv, TypeOK, AllReady, Verified, NodesAreTafweej
<1>2. CASE Next
  BY <1>2, OpenStep, KillStep, CreateStep, DialogStep, SignUpStep, SnapshotStep,
     VerifyStep, ScreenStep, StartStep, WriteStep, PhoneStep DEF Next, Start, Fix
<1> QED
  BY <1>1, <1>2

\* The invariant holds.
LEMMA IInvAlways == Spec => []IInv
BY IInvInit, IInvStep, PTL DEF Spec

\* The type invariant: no activity shows an id that was never made up, and
\* nothing else than nodes is written.
THEOREM Typing == Spec => []TypeOK
<1>1. IInv => TypeOK
  BY DEF IInv
<1> QED
  BY <1>1, IInvAlways, PTL

\* Whatever the app does on a phone, it leaves in the database only what the
\* map is checked against (the setValue of VerificationActivity.java:60 and
\* MainActivity.java:134 and 187).
THEOREM NodesAreTafweejAlways == Spec => []NodesAreTafweej
<1>1. IInv => NodesAreTafweej
  BY DEF IInv
<1> QED
  BY <1>1, IInvAlways, PTL

-----------------------------------------------------------------------------
(* The status and the seek bar. *)

\* The status in the singleton agrees with the seek bar as long as nobody
\* verifies again, which asks for a second MainActivity; and where there is
\* no MainActivity, nobody has started.
Steady ==
    /\ ~alive => mains = <<>>
    /\ mains = <<>> => tafweej.status # "Active"
    /\ mains # <<>> => \E n \in DOMAIN stack : stack[n] = "Main"
    /\ StatusMatchesSeekBar

\* Steps that leave the status and the MainActivities alone.
LEMMA SteadyKept ==
    ASSUME IInv, Steady, mains' = mains, tafweej'.status = tafweej.status,
           \/ mains = <<>>
           \/ /\ alive' = alive
              /\ OneMain' => OneMain
              /\ \A n \in DOMAIN stack : n \in DOMAIN stack' /\ stack'[n] = stack[n]
    PROVE  Steady'
<1>1. CASE mains = <<>>
  <2>1. ~OneMain'
    BY <1>1 DEF OneMain
  <2> QED
    BY <1>1, <2>1 DEF Steady, StatusMatchesSeekBar
<1>2. CASE /\ alive' = alive
           /\ OneMain' => OneMain
           /\ \A n \in DOMAIN stack : n \in DOMAIN stack' /\ stack'[n] = stack[n]
  <2>1. StatusMatchesSeekBar'
    BY <1>2 DEF Steady, StatusMatchesSeekBar
  <2> QED
    BY <1>2, <2>1 DEF Steady
<1> QED
  BY <1>1, <1>2

\* A process that dies leaves no MainActivity.
LEMMA SteadyDeath ==
    ASSUME NEW task, Die(task)
    PROVE  Steady'
<1>1. ~OneMain'
  BY DEF Die, OneMain
<1> QED
  BY <1>1, CrowdValues DEF Die, NewTafweej, Steady, StatusMatchesSeekBar, Status

\* A handler of a MainActivity switches both or none.
LEMMA SteadyHandler ==
    ASSUME IInv, Steady, NEW i \in DOMAIN mains, NEW m, mains' = [mains EXCEPT ![i] = m],
           UNCHANGED <<alive, stack, launching>>,
           \/ m.seek = mains[i].seek /\ tafweej'.status = tafweej.status
           \/ tafweej'.status = "Active" <=> ~m.seek
    PROVE  Steady'
<1>1. mains \in Seq(Mains) /\ mains # <<>> /\ DOMAIN mains = 1..Len(mains)
  BY MainsElement, LenProperties DEF IInv, TypeOK
<1>2. Len(mains') = Len(mains) /\ mains' # <<>> /\ DOMAIN mains' = DOMAIN mains
  BY <1>1
<1>3. Task' = Task
  BY DEF Task
<1>4. OneMain' => OneMain
  BY <1>2, <1>3 DEF OneMain
<1>5. ASSUME OneMain PROVE i = 1 /\ mains'[1] = m
  BY <1>1, <1>5 DEF OneMain
<1>6. StatusMatchesSeekBar'
  BY <1>4, <1>5 DEF Steady, StatusMatchesSeekBar
<1> QED
  BY <1>1, <1>2, <1>6 DEF Steady

\* What is added to a sequence is behind what was there.
LEMMA PositionsKept ==
    ASSUME NEW s \in Seq(Activity), NEW t \in Seq(Activity)
    PROVE  /\ DOMAIN s \subseteq DOMAIN (s \o t)
           /\ \A n \in DOMAIN s : (s \o t)[n] = s[n]
           /\ \A n \in DOMAIN t : /\ Len(s) + n \in DOMAIN (s \o t) \ DOMAIN s
                                  /\ (s \o t)[Len(s) + n] = t[n]
<1>1. /\ Len(s) \in Nat /\ Len(t) \in Nat /\ DOMAIN s = 1..Len(s) /\ DOMAIN t = 1..Len(t)
      /\ s \o t \in Seq(Activity) /\ Len(s \o t) = Len(s) + Len(t)
      /\ \A n \in 1..Len(s) + Len(t) :
            (s \o t)[n] = IF n <= Len(s) THEN s[n] ELSE t[n - Len(s)]
  BY ConcatProperties, LenProperties
<1>2. DOMAIN (s \o t) = 1..Len(s) + Len(t)
  BY <1>1, LenProperties
<1>3. ASSUME NEW n \in DOMAIN t
      PROVE  /\ Len(s) + n \in 1..Len(s) + Len(t) /\ ~(Len(s) + n <= Len(s))
             /\ (Len(s) + n) - Len(s) = n
  BY <1>1
<1> QED
  BY <1>1, <1>2, <1>3

\* Asking for verifications asks for no MainActivity.
LEMMA SnapshotKeepsMains ==
    ASSUME IInv, NEW called \in SUBSET (DOMAIN signUps), NEW snapshot,
           OnDataChange(called, snapshot)
    PROVE  \/ \E task : Die(task)
           \/ /\ OneMain' => OneMain
              /\ tafweej'.status = tafweej.status /\ tafweej'.crowd_id = tafweej.crowd_id
              /\ UNCHANGED <<alive, stack, mains>>
<1> DEFINE thrown   == {i \in called : Throws(signUps[i], snapshot)}
           matching == {i \in called : Matches(signUps[i], snapshot)
                                        /\ \A t \in thrown : i < t}
           new      == [n \in 1..Cardinality(matching) |-> "Verification"]
           asked    == launching \o new
<1>1. \/ Crash(stack \o asked)
      \/ /\ launching' = asked
         /\ Kept(matching)
         /\ UNCHANGED <<alive, stack, mains, dialog>>
  BY DEF OnDataChange
<1>2. CASE Crash(stack \o asked)
  BY <1>2 DEF Crash
<1>3. CASE /\ launching' = asked
           /\ Kept(matching)
           /\ UNCHANGED <<alive, stack, mains, dialog>>
  <2>1. tafweej'.status = tafweej.status /\ tafweej'.crowd_id = tafweej.crowd_id
    BY <1>3 DEF Kept, IInv, TypeOK, Tafweej
  <2>2. new \in Seq(Activity)
    <3>1. signUps \in Seq(SignUps) /\ matching \in SUBSET (DOMAIN signUps)
      BY DEF IInv, TypeOK
    <3>2. Cardinality(matching) \in Nat
      BY <3>1, CalledAreFinite
    <3> HIDE DEF matching
    <3> QED
      BY <3>2, VerificationsType, RequestsAreActivities
  <2> HIDE DEF new, matching
  <2>3. stack \in Seq(Activity) /\ launching \in Seq(Activity)
    BY RequestsAreActivities DEF IInv, TypeOK, Requests
  <2>4. Task' = Task \o new /\ Task \in Seq(Activity)
    BY <1>3, <2>2, <2>3, ConcatAssociative, ConcatProperties DEF Task
  <2>5. \A k \in DOMAIN new : new[k] # "Main"
    BY DEF new
  <2>6. DOMAIN Task \subseteq DOMAIN Task' /\ \A k \in DOMAIN Task : Task'[k] = Task[k]
    BY <2>2, <2>4, PositionsKept
  <2>7. \A k \in DOMAIN Task' : k \in DOMAIN Task \/ Task'[k] # "Main"
    <3>1. DOMAIN Task = 1..Len(Task) /\ DOMAIN new = 1..Len(new)
          /\ Len(Task) \in Nat /\ Len(new) \in Nat
      BY <2>2, <2>4, LenProperties
    <3>2. DOMAIN Task' = 1..Len(Task) + Len(new)
      BY <2>2, <2>4, ConcatProperties, LenProperties
    <3>3. ASSUME NEW k \in DOMAIN Task', k \notin DOMAIN Task PROVE Task'[k] # "Main"
      <4>1. k - Len(Task) \in DOMAIN new /\ Len(Task) + (k - Len(Task)) = k
        BY <3>1, <3>2, <3>3
      <4>2. Task'[k] = new[k - Len(Task)]
        BY <2>2, <2>4, <4>1, PositionsKept
      <4> QED
        BY <2>5, <4>1, <4>2
    <3> QED
      BY <3>3
  <2>8. OneMain' => OneMain
    BY <1>3, <2>6, <2>7 DEF OneMain
  <2> QED
    BY <1>3, <2>1, <2>8
<1> QED
  BY <1>1, <1>2, <1>3

\* A snapshot leaves both alone.
LEMMA SteadySnapshot ==
    ASSUME IInv, Steady, NEW called \in SUBSET (DOMAIN signUps), NEW snapshot,
           OnDataChange(called, snapshot)
    PROVE  Steady'
<1>1. CASE \E task : Die(task)
  BY <1>1, SteadyDeath
<1>2. CASE /\ OneMain' => OneMain
           /\ tafweej'.status = tafweej.status
           /\ UNCHANGED <<alive, stack, mains>>
  BY <1>2, SteadyKept
<1> QED
  BY <1>1, <1>2, SnapshotKeepsMains

\* An activity that is created was in the task already.
LEMMA CreateKeepsTask ==
    ASSUME IInv, NEW n \in DOMAIN launching, Create(n)
    PROVE  Task' = Task
<1> DEFINE a == SubSeq(launching, 1, n)
           b == SubSeq(launching, n + 1, Len(launching))
<1>1. /\ stack \in Seq(Activity) /\ launching \in Seq(Activity)
      /\ Len(launching) \in Nat /\ n \in 1..Len(launching)
  BY RequestsAreActivities, LenProperties DEF IInv, TypeOK, Requests
<1>2. /\ a \in Seq(Activity) /\ Len(a) = n /\ DOMAIN a = 1..n
      /\ \A k \in 1..n : a[k] = launching[k]
  BY <1>1
<1>3. /\ b \in Seq(Activity) /\ Len(b) = Len(launching) - n
      /\ \A k \in 1..Len(launching) - n : b[k] = launching[n + k]
  BY <1>1
<1>4. stack' = stack \o a /\ launching' = b
  BY DEF Create
<1> HIDE DEF a, b
<1>5. a \o b = launching
  <2>1. /\ a \o b \in Seq(Activity) /\ Len(a \o b) = Len(launching)
        /\ \A k \in 1..Len(launching) :
              (a \o b)[k] = IF k <= n THEN a[k] ELSE b[k - n]
    BY <1>1, <1>2, <1>3, ConcatProperties
  <2>2. ASSUME NEW k \in 1..Len(launching) PROVE (a \o b)[k] = launching[k]
    <3>1. CASE k <= n
      BY <1>1, <1>2, <2>1, <3>1
    <3>2. CASE ~(k <= n)
      <4>1. k - n \in 1..Len(launching) - n /\ n + (k - n) = k
        BY <1>1, <3>2
      <4> QED
        BY <1>3, <2>1, <3>2, <4>1
    <3> QED
      BY <3>1, <3>2
  <2> QED
    BY <1>1, <2>1, <2>2, SeqEqual
<1>6. Task' = Task
  <2>1. (stack \o a) \o b = stack \o (a \o b)
    <3>1. stack \in Seq(Activity) /\ a \in Seq(Activity) /\ b \in Seq(Activity)
      BY <1>1, <1>2, <1>3
    <3> QED
      BY ONLY <3>1, ConcatAssociative
  <2> QED
    BY <1>4, <1>5, <2>1 DEF Task
<1> QED
  BY <1>6

\* A MainActivity that is created has not started, and is there alone only if
\* nobody else has.
LEMMA SteadyCreate ==
    ASSUME IInv, Steady, NEW n \in DOMAIN launching, Create(n)
    PROVE  Steady'
<1> DEFINE a == SubSeq(launching, 1, n)
           b == SubSeq(launching, n + 1, Len(launching))
<1>1. /\ stack \in Seq(Activity) /\ launching \in Seq(Activity)
      /\ Len(launching) \in Nat /\ n \in 1..Len(launching)
  BY RequestsAreActivities, LenProperties DEF IInv, TypeOK, Requests
<1>2. /\ a \in Seq(Activity) /\ Len(a) = n /\ DOMAIN a = 1..n
      /\ \A k \in 1..n : a[k] = launching[k]
  BY <1>1
<1>3. /\ b \in Seq(Activity) /\ Len(b) = Len(launching) - n
      /\ \A k \in 1..Len(launching) - n : b[k] = launching[n + k]
  BY <1>1
<1>4. stack' = stack \o a /\ launching' = b /\ UNCHANGED <<alive, tafweej>>
  BY DEF Create
<1> HIDE DEF a, b
<1>5. \A k \in DOMAIN stack : k \in DOMAIN stack' /\ stack'[k] = stack[k]
  BY <1>1, <1>2, <1>4, PositionsKept
<1>6. CASE launching[n] = "Main"
  <2>1. mains' = Append(mains, NewMain(tafweej.crowd_id)) /\ mains \in Seq(Mains)
    BY <1>6 DEF Create, IInv, TypeOK
  <2>2. \E k \in DOMAIN stack' : stack'[k] = "Main"
    <3>1. n \in DOMAIN a /\ a[n] = "Main"
      BY <1>1, <1>2, <1>6
    <3>2. /\ Len(stack) + n \in DOMAIN (stack \o a) \ DOMAIN stack
          /\ (stack \o a)[Len(stack) + n] = a[n]
      BY <1>1, <1>2, <3>1, PositionsKept
    <3> QED
      BY <1>4, <3>1, <3>2
  <2>3. /\ mains' # <<>> /\ Len(mains') = Len(mains) + 1
        /\ Len(mains) \in Nat /\ (Len(mains) = 0 => mains = <<>>)
        /\ mains = <<>> => mains'[1] = NewMain(tafweej.crowd_id)
    BY <2>1
  <2>4. alive
    BY DEF Create
  <2>5. StatusMatchesSeekBar'
    <3> SUFFICES ASSUME Len(mains') = 1
                 PROVE  (tafweej'.status = "Active" <=> ~mains'[1].seek)
      BY DEF StatusMatchesSeekBar, OneMain
    <3>1. mains = <<>>
      BY <2>3
    <3>2. mains'[1].seek = TRUE
      BY <2>3, <3>1 DEF NewMain
    <3> QED
      BY <1>4, <3>1, <3>2 DEF Steady
  <2> QED
    BY <1>4, <2>2, <2>3, <2>4, <2>5 DEF Steady
<1>7. CASE launching[n] # "Main"
  <2>1. mains' = mains
    BY <1>7 DEF Create
  <2>3. Task' = Task
    BY CreateKeepsTask
  <2>4. OneMain' => OneMain
    BY <1>4, <2>1, <2>3 DEF OneMain
  <2> QED
    BY <1>4, <1>5, <2>1, <2>4, SteadyKept
<1> QED
  BY <1>6, <1>7

\* Whoever verifies asks for a MainActivity besides the one there is.
LEMMA VerifyAsksForMain ==
    ASSUME IInv, Steady, NEW id \in Ids, Verify(id)
    PROVE  ~OneMain'
<1>1. /\ launching' = Append(launching, "Main")
      /\ UNCHANGED <<alive, stack, mains>>
  BY DEF Verify
<1>2. ASSUME mains # <<>> PROVE ~OneMain'
  <2>1. /\ stack \in Seq(Activity) /\ launching \in Seq(Activity)
        /\ launching' \in Seq(Activity)
    BY <1>1, RequestsAreActivities DEF IInv, TypeOK, Requests, Activity
  <2>2. PICK n \in DOMAIN stack : stack[n] = "Main"
    BY <1>2 DEF Steady
  <2>3. n \in DOMAIN Task' /\ Task'[n] = "Main"
    BY <1>1, <2>1, <2>2, PositionsKept DEF Task
  <2>4. PICK k \in DOMAIN launching' : launching'[k] = "Main"
    BY <1>1, <2>1
  <2>5. /\ Len(stack) + k \in DOMAIN Task' \ DOMAIN stack
        /\ Task'[Len(stack) + k] = "Main"
    BY <1>1, <2>1, <2>4, PositionsKept DEF Task
  <2> QED
    BY <2>2, <2>3, <2>5 DEF OneMain
<1>3. mains = <<>> => Len(mains') # 1
  BY <1>1
<1> QED
  BY <1>2, <1>3 DEF OneMain

\* Whoever verifies has not started yet.
LEMMA SteadyVerify ==
    ASSUME IInv, Steady, NEW id \in Ids, Verify(id)
    PROVE  Steady'
<1>1. tafweej'.status = "InActive" /\ UNCHANGED <<alive, stack, mains>>
  BY DEF Verify, IInv, TypeOK, Tafweej
<1>2. ~OneMain'
  BY VerifyAsksForMain
<1>3. StatusMatchesSeekBar'
  BY <1>2 DEF StatusMatchesSeekBar
<1> QED
  BY <1>1, <1>3 DEF Steady

\* The GPS leaves the buttons alone.
LEMMA SteadyGps ==
    ASSUME IInv, Steady, SwitchGps
    PROVE  Steady'
<1>1. /\ mains \in Seq(Mains) /\ Len(mains) \in Nat /\ DOMAIN mains = 1..Len(mains)
      /\ \A i \in DOMAIN mains : mains[i] \in Mains
  BY LenProperties, ElementOfSeq DEF IInv, TypeOK
<1>2. /\ mains' = [i \in DOMAIN mains |->
            [mains[i] EXCEPT !.disabled = @ \/ (gps /\ Listening(mains[i]))]]
      /\ UNCHANGED <<alive, tafweej, stack, launching>>
  BY DEF SwitchGps
<1>3. \A i \in DOMAIN mains : mains'[i].seek = mains[i].seek
  BY <1>1, <1>2 DEF Mains
<1>4. mains' \in Seq(Mains) /\ DOMAIN mains' = DOMAIN mains
  BY PhoneStep, <1>2 DEF IInv, TypeOK
<1>5. Len(mains') = Len(mains) /\ (mains' = <<>> <=> mains = <<>>)
  BY <1>1, <1>4
<1>6. Task' = Task
  BY <1>2 DEF Task
<1>7. StatusMatchesSeekBar'
  BY <1>1, <1>2, <1>3, <1>5, <1>6 DEF Steady, StatusMatchesSeekBar, OneMain
<1> QED
  BY <1>2, <1>5, <1>7 DEF Steady

LEMMA SteadyInit == Init => Steady
BY CrowdValues DEF Init, Steady, StatusMatchesSeekBar, OneMain, NewTafweej, Status

\* Every step keeps them in agreement.
LEMMA SteadyStep == IInv /\ Steady /\ [Next]_vars => Steady'
<1> SUFFICES ASSUME IInv, Steady, [Next]_vars PROVE Steady'
  OBVIOUS
<1>1. ASSUME UNCHANGED <<alive, tafweej, stack, launching, mains>> PROVE Steady'
  BY <1>1 DEF Steady, StatusMatchesSeekBar, OneMain, Task
<1>2. CASE OpenLogin \/ OpenVerification
  <2>1. mains = <<>> /\ UNCHANGED <<mains, tafweej>>
    BY <1>2 DEF Steady, OpenLogin, OpenVerification
  <2> QED
    BY <2>1, SteadyKept
<1>3. CASE OpenMain \/ Kill
  BY <1>3, SteadyDeath DEF OpenMain, Kill, Crash
<1>4. CASE AnswerLogin \/ Cancel \/ Allow
  BY <1>1, <1>4, SteadyDeath DEF AnswerLogin, Cancel, Allow, Crash
<1>5. CASE \E id \in Campaigns, contacts \in Phones : SignUp(id, contacts)
  BY <1>1, <1>5 DEF SignUp
<1>6. CASE \E i \in DOMAIN signUps : Answer(i)
  BY <1>6, SteadySnapshot DEF Answer
<1>7. CASE \E new \in Campaign : EditCampaign(new)
  <2>1. PICK new \in Campaign : EditCampaign(new)
    BY <1>7
  <2>2. CASE alive
    BY <2>1, <2>2, SteadySnapshot DEF EditCampaign
  <2>3. CASE ~alive
    BY <1>1, <2>1, <2>3 DEF EditCampaign
  <2> QED
    BY <2>2, <2>3
<1>8. ASSUME NEW i \in DOMAIN mains, NEW n \in Counts, SeekBar(i, n) PROVE Steady'
  <2>1. mains[i] \in Mains
    BY MainsElement
  <2> DEFINE m == [mains[i] EXCEPT !.progress = n]
  <2>2. m.seek = mains[i].seek
    BY <2>1 DEF Mains
  <2>3. mains' = [mains EXCEPT ![i] = m] /\ UNCHANGED <<alive, stack, launching, tafweej>>
    BY <1>8 DEF SeekBar
  <2> QED
    BY <2>2, <2>3, SteadyHandler
<1>9. ASSUME NEW i \in DOMAIN mains, getLocation(i), UNCHANGED <<alive, stack, launching>>
      PROVE  Steady'
  <2>1. mains[i] \in Mains
    BY MainsElement
  <2>2. Tracking(mains[i]).seek = FALSE
    BY <2>1 DEF Mains, Tracking
  <2>3. mains' = [mains EXCEPT ![i] = Tracking(mains[i])] /\ tafweej'.status = "Active"
    BY <1>9 DEF getLocation, IInv, TypeOK, Tafweej
  <2> QED
    BY <1>9, <2>2, <2>3, SteadyHandler
<1>10. ASSUME NEW i \in DOMAIN mains, NEW q \in BOOLEAN,
              mains' = [mains EXCEPT ![i].asking = q],
              UNCHANGED <<alive, stack, launching, tafweej>>
       PROVE  Steady'
  <2>1. mains[i] \in Mains
    BY MainsElement
  <2> DEFINE m == [mains[i] EXCEPT !.asking = q]
  <2>2. m.seek = mains[i].seek
    BY <2>1 DEF Mains
  <2>3. mains' = [mains EXCEPT ![i] = m]
    BY <1>10
  <2> QED
    BY <1>10, <2>2, <2>3, SteadyHandler
<1>11. ASSUME NEW i \in DOMAIN mains, buttonStart(i) \/ AnswerMain(i) PROVE Steady'
  BY <1>9, <1>10, <1>11 DEF buttonStart, AnswerMain
<1>12. ASSUME NEW i \in DOMAIN mains, buttonStop(i) PROVE Steady'
  <2>1. mains[i] \in Mains
    BY MainsElement
  <2>2. Stopped(mains[i]).seek = TRUE
    BY <2>1 DEF Mains, Stopped
  <2>3. /\ mains' = [mains EXCEPT ![i] = Stopped(mains[i])]
        /\ tafweej'.status = "inActive" /\ UNCHANGED <<alive, stack, launching>>
    BY <1>12 DEF buttonStop, IInv, TypeOK, Tafweej
  <2> QED
    BY <2>2, <2>3, SteadyHandler
<1>13. ASSUME NEW i \in DOMAIN mains, NEW place \in Places, onLocationChanged(i, place)
       PROVE  Steady'
  <2>1. mains[i] \in Mains
    BY MainsElement
  <2>2. Located(mains[i], place).seek = mains[i].seek
    BY <2>1 DEF Mains, Located
  <2>3. /\ mains' = [mains EXCEPT ![i] = Located(mains[i], place)]
        /\ UNCHANGED <<alive, stack, launching, tafweej>>
    BY <1>13 DEF onLocationChanged
  <2> QED
    BY <2>2, <2>3, SteadyHandler
<1>14. ASSUME NEW i \in DOMAIN mains, onProviderDisabled(i) PROVE Steady'
  <2>1. mains[i] \in Mains
    BY MainsElement
  <2> DEFINE m == [mains[i] EXCEPT !.stop = FALSE, !.disabled = FALSE]
  <2>2. m.seek = mains[i].seek
    BY <2>1 DEF Mains
  <2>3. mains' = [mains EXCEPT ![i] = m] /\ UNCHANGED <<alive, stack, launching, tafweej>>
    BY <1>14 DEF onProviderDisabled
  <2> QED
    BY <2>2, <2>3, SteadyHandler
<1>15. CASE ChangePermission
  BY <1>1, <1>15, SteadyDeath DEF ChangePermission
<1>16. CASE UNCHANGED vars
  BY <1>1, <1>16 DEF vars
<1> QED
  BY <1>2, <1>3, <1>4, <1>5, <1>6, <1>7, <1>8, <1>11, <1>12, <1>13, <1>14, <1>15, <1>16,
     SteadyCreate, SteadyVerify, SteadyGps DEF Next, Start, Fix

\* As long as there is one MainActivity, the next fix says what its seek bar
\* says, through refusals, a lost provider and a second Start
\* (MainActivity.java:123-190).
THEOREM StatusMatchesSeekBarAlways == Spec => []StatusMatchesSeekBar
<1>1. Steady => StatusMatchesSeekBar
  BY DEF Steady
<1> QED
  BY <1>1, SteadyInit, SteadyStep, IInvAlways, PTL DEF Spec
-----------------------------------------------------------------------------
(* Who has stopped stays stopped. *)

\* The entry of a session that has stopped, and the entry that a MainActivity
\* will show which is asked for while there is none, are not active.
Quiet ==
    /\ mains = <<>> => crowd[tafweej.crowd_id].status # "Active"
                         \/ tafweej.crowd_id = Undefined
    /\ StoppedStaysStopped

\* Steps that write no entry and enable no seek bar.
LEMMA QuietKept ==
    ASSUME Steady, Quiet, UNCHANGED crowd,
           mains' = <<>> => mains = <<>> /\ tafweej'.crowd_id = tafweej.crowd_id,
           OneMain' => /\ OneMain /\ mains'[1].child = mains[1].child
                       /\ mains'[1].seek => mains[1].seek
    PROVE  Quiet'
BY DEF Quiet, StoppedStaysStopped

\* A process that dies forgets the id.
LEMMA QuietDeath ==
    ASSUME NEW task, Die(task)
    PROVE  Quiet'
BY DEF Die, NewTafweej, Quiet, StoppedStaysStopped, OneMain

\* A handler of a MainActivity that writes no entry.
LEMMA QuietHandler ==
    ASSUME IInv, Steady, Quiet, NEW i \in DOMAIN mains, NEW m, mains' = [mains EXCEPT ![i] = m],
           UNCHANGED <<crowd, alive, stack, launching>>,
           m.child = mains[i].child, m.seek => mains[i].seek
    PROVE  Quiet'
<1>1. mains \in Seq(Mains) /\ mains # <<>> /\ DOMAIN mains = 1..Len(mains)
  BY MainsElement, LenProperties DEF IInv, TypeOK
<1>2. Len(mains') = Len(mains) /\ mains' # <<>> /\ DOMAIN mains' = DOMAIN mains
  BY <1>1
<1>3. Task' = Task
  BY DEF Task
<1>4. OneMain' => OneMain
  BY <1>2, <1>3 DEF OneMain
<1>5. OneMain => i = 1 /\ mains'[1] = m
  BY <1>1 DEF OneMain
<1> QED
  BY <1>2, <1>4, <1>5, QuietKept

\* A handler of a MainActivity that writes its entry: what it writes is active
\* only if its seek bar is disabled.
LEMMA QuietWriter ==
    ASSUME IInv, NEW i \in DOMAIN mains, NEW m, mains' = [mains EXCEPT ![i] = m],
           crowd' = [crowd EXCEPT ![mains[i].child] = m.data],
           UNCHANGED <<alive, stack, launching>>,
           m.child = mains[i].child, OneMain /\ m.seek => m.data.status # "Active"
    PROVE  Quiet'
<1>1. mains \in Seq(Mains) /\ mains # <<>> /\ DOMAIN mains = 1..Len(mains)
  BY MainsElement, LenProperties DEF IInv, TypeOK
<1>2. Len(mains') = Len(mains) /\ mains' # <<>> /\ DOMAIN mains' = DOMAIN mains
  BY <1>1
<1>3. Task' = Task
  BY DEF Task
<1>4. OneMain' => OneMain
  BY <1>2, <1>3 DEF OneMain
<1>5. OneMain => i = 1 /\ mains'[1] = m
  BY <1>1 DEF OneMain
<1>6. crowd'[m.child] = m.data
  <2>1. mains[i].child \in DOMAIN crowd
    BY MainsElement DEF IInv, TypeOK, Mains
  <2> QED
    BY <2>1
<1> QED
  BY <1>2, <1>4, <1>5, <1>6 DEF Quiet, StoppedStaysStopped

\* A MainActivity that comes up alone shows an entry that was registered, and that
\* nobody has written to since.
LEMMA QuietCreate ==
    ASSUME IInv, Steady, Quiet, NEW n \in DOMAIN launching, Create(n)
    PROVE  Quiet'
<1>1. /\ mains \in Seq(Mains) /\ Len(mains) \in Nat
      /\ UNCHANGED <<crowd, alive, tafweej>>
  BY LenProperties DEF Create, IInv, TypeOK
<1>2. CASE launching[n] = "Main"
  <2>1. mains' = Append(mains, NewMain(tafweej.crowd_id))
    BY <1>2 DEF Create
  <2>2. /\ mains' # <<>> /\ Len(mains') = Len(mains) + 1
        /\ Len(mains) = 0 => mains = <<>>
        /\ mains = <<>> => mains'[1] = NewMain(tafweej.crowd_id)
    BY <1>1, <2>1
  <2>3. tafweej.crowd_id # Undefined
    BY <1>2, IdAssumption DEF IInv, Verified
  <2>4. NewMain(tafweej.crowd_id).child = tafweej.crowd_id
    BY DEF NewMain
  <2>5. OneMain' => mains = <<>>
    <3>1. OneMain' => Len(mains') = 1
      BY DEF OneMain
    <3> QED
      BY ONLY <1>1, <2>2, <3>1
  <2> QED
    BY <1>1, <2>2, <2>3, <2>4, <2>5 DEF Quiet, StoppedStaysStopped
<1>3. CASE launching[n] # "Main"
  <2>1. mains' = mains
    BY <1>3 DEF Create
  <2>2. Task' = Task
    BY CreateKeepsTask
  <2>3. OneMain' => OneMain
    BY <1>1, <2>1, <2>2 DEF OneMain
  <2> QED
    BY <1>1, <2>1, <2>3, QuietKept
<1> QED
  BY <1>2, <1>3

\* A verification registers an entry that is not active.
LEMMA QuietVerify ==
    ASSUME IInv, Steady, Quiet, NEW id \in Ids, Verify(id)
    PROVE  Quiet'
<1>1. ~OneMain'
  BY VerifyAsksForMain
<1>2. crowd'[id] = Registered(tafweej.campaign_id) /\ tafweej'.crowd_id = id
  BY DEF Verify, IInv, TypeOK, Tafweej
<1> QED
  BY <1>1, <1>2 DEF Quiet, StoppedStaysStopped, Registered

LEMMA QuietInit == Init => Quiet
BY DEF Init, Quiet, StoppedStaysStopped, OneMain, NewTafweej

\* Every step leaves who has stopped in peace.
LEMMA QuietStep == IInv /\ Steady /\ Quiet /\ [Next]_vars => Quiet'
<1> SUFFICES ASSUME IInv, Steady, Quiet, [Next]_vars PROVE Quiet'
  OBVIOUS
<1>1. ASSUME UNCHANGED <<crowd, alive, tafweej, stack, launching, mains>> PROVE Quiet'
  BY <1>1 DEF Quiet, StoppedStaysStopped, OneMain, Task
<1>2. CASE OpenLogin \/ OpenVerification
  <2>1. mains = <<>> /\ UNCHANGED <<crowd, mains, tafweej>>
    BY <1>2 DEF Steady, OpenLogin, OpenVerification
  <2>2. ~OneMain'
    BY <2>1 DEF OneMain
  <2> QED
    BY <2>1, <2>2, QuietKept
<1>3. CASE OpenMain \/ Kill
  BY <1>3, QuietDeath DEF OpenMain, Kill, Crash
<1>4. CASE AnswerLogin \/ Cancel \/ Allow
  BY <1>1, <1>4, QuietDeath DEF AnswerLogin, Cancel, Allow, Crash
<1>5. CASE \E id \in Campaigns, contacts \in Phones : SignUp(id, contacts)
  BY <1>1, <1>5 DEF SignUp
<1>6. ASSUME NEW called \in SUBSET (DOMAIN signUps), NEW snapshot,
             OnDataChange(called, snapshot), UNCHANGED crowd
      PROVE  Quiet'
  <2>1. CASE \E task : Die(task)
    BY <2>1, QuietDeath
  <2>2. CASE /\ OneMain' => OneMain
             /\ tafweej'.crowd_id = tafweej.crowd_id
             /\ UNCHANGED mains
    BY <1>6, <2>2, QuietKept
  <2> QED
    BY <1>6, <2>1, <2>2, SnapshotKeepsMains
<1>7. CASE \E i \in DOMAIN signUps : Answer(i)
  BY <1>6, <1>7 DEF Answer
<1>8. CASE \E new \in Campaign : EditCampaign(new)
  <2>1. PICK new \in Campaign : EditCampaign(new)
    BY <1>8
  <2>2. CASE alive
    BY <1>6, <2>1, <2>2 DEF EditCampaign
  <2>3. CASE ~alive
    BY <1>1, <2>1, <2>3 DEF EditCampaign
  <2> QED
    BY <2>2, <2>3
<1>9. ASSUME NEW i \in DOMAIN mains, NEW n \in Counts, SeekBar(i, n) PROVE Quiet'
  <2>1. mains[i] \in Mains
    BY MainsElement
  <2> DEFINE m == [mains[i] EXCEPT !.progress = n]
  <2>2. m.seek = mains[i].seek /\ m.child = mains[i].child
    BY <2>1 DEF Mains
  <2>3. mains' = [mains EXCEPT ![i] = m] /\ UNCHANGED <<crowd, alive, stack, launching>>
    BY <1>9 DEF SeekBar
  <2> HIDE DEF m
  <2> QED
    BY <2>2, <2>3, QuietHandler
<1>10. ASSUME NEW i \in DOMAIN mains, getLocation(i),
              UNCHANGED <<crowd, alive, stack, launching>>
       PROVE  Quiet'
  <2>1. mains[i] \in Mains
    BY MainsElement
  <2>2. Tracking(mains[i]).seek = FALSE /\ Tracking(mains[i]).child = mains[i].child
    BY <2>1 DEF Mains, Tracking
  <2>3. mains' = [mains EXCEPT ![i] = Tracking(mains[i])]
    BY <1>10 DEF getLocation
  <2> QED
    BY <1>10, <2>2, <2>3, QuietHandler
<1>11. ASSUME NEW i \in DOMAIN mains, NEW q \in BOOLEAN,
              mains' = [mains EXCEPT ![i].asking = q],
              UNCHANGED <<crowd, alive, stack, launching>>
       PROVE  Quiet'
  <2>1. mains[i] \in Mains
    BY MainsElement
  <2> DEFINE m == [mains[i] EXCEPT !.asking = q]
  <2>2. m.seek = mains[i].seek /\ m.child = mains[i].child
    BY <2>1 DEF Mains
  <2>3. mains' = [mains EXCEPT ![i] = m]
    BY <1>11
  <2> HIDE DEF m
  <2> QED
    BY <1>11, <2>2, <2>3, QuietHandler
<1>12. ASSUME NEW i \in DOMAIN mains, buttonStart(i) \/ AnswerMain(i) PROVE Quiet'
  BY <1>10, <1>11, <1>12 DEF buttonStart, AnswerMain
<1>13. ASSUME NEW i \in DOMAIN mains, buttonStop(i) PROVE Quiet'
  <2>1. mains[i] \in Mains
    BY MainsElement
  <2>2. /\ Stopped(mains[i]).child = mains[i].child
        /\ Stopped(mains[i]).data.status = "inActive"
    BY <2>1 DEF Mains, Stopped, Node
  <2>3. /\ mains' = [mains EXCEPT ![i] = Stopped(mains[i])]
        /\ crowd' = [crowd EXCEPT ![mains[i].child] = Stopped(mains[i]).data]
        /\ UNCHANGED <<alive, stack, launching>>
    BY <1>13 DEF buttonStop
  <2> QED
    BY <2>2, <2>3, QuietWriter
<1>14. ASSUME NEW i \in DOMAIN mains, NEW place \in Places, onLocationChanged(i, place)
       PROVE  Quiet'
  <2>1. mains[i] \in Mains
    BY MainsElement
  <2> DEFINE m == Located(mains[i], place)
  <2>2. /\ m.child = mains[i].child
        /\ m.seek = mains[i].seek
        /\ m.data.status = tafweej.status
    BY <2>1 DEF Mains, Located, Node
  <2>3. /\ mains' = [mains EXCEPT ![i] = m]
        /\ crowd' = [crowd EXCEPT ![mains[i].child] = m.data]
        /\ UNCHANGED <<alive, stack, launching, tafweej>>
    BY <1>14 DEF onLocationChanged
  <2> HIDE DEF m
  <2>4. OneMain /\ m.seek => m.data.status # "Active"
    <3>1. mains \in Seq(Mains) /\ DOMAIN mains = 1..Len(mains)
      BY LenProperties DEF IInv, TypeOK
    <3>2. OneMain => i = 1
      BY <3>1 DEF OneMain
    <3> QED
      BY <2>2, <3>2 DEF Steady, StatusMatchesSeekBar
  <2> QED
    BY <2>2, <2>3, <2>4, QuietWriter
<1>15. ASSUME NEW i \in DOMAIN mains, onProviderDisabled(i) PROVE Quiet'
  <2>1. mains[i] \in Mains
    BY MainsElement
  <2> DEFINE m == [mains[i] EXCEPT !.stop = FALSE, !.disabled = FALSE]
  <2>2. m.seek = mains[i].seek /\ m.child = mains[i].child
    BY <2>1 DEF Mains
  <2>3. mains' = [mains EXCEPT ![i] = m] /\ UNCHANGED <<crowd, alive, stack, launching>>
    BY <1>15 DEF onProviderDisabled
  <2> HIDE DEF m
  <2> QED
    BY <2>2, <2>3, QuietHandler
<1>16. CASE SwitchGps
  <2>1. mains \in Seq(Mains) /\ DOMAIN mains = 1..Len(mains) /\ Len(mains) \in Nat
        /\ \A i \in DOMAIN mains : mains[i] \in Mains
    BY LenProperties, ElementOfSeq DEF IInv, TypeOK
  <2>2. mains' \in Seq(Mains) /\ DOMAIN mains' = DOMAIN mains
    BY <1>16, PhoneStep DEF SwitchGps, IInv, TypeOK
  <2>3. \A i \in DOMAIN mains : /\ mains'[i].seek = mains[i].seek
                                /\ mains'[i].child = mains[i].child
    BY <1>16, <2>1 DEF SwitchGps, Mains
  <2>4. Len(mains') = Len(mains) /\ (mains' = <<>> <=> mains = <<>>)
    BY <2>1, <2>2
  <2>5. UNCHANGED <<crowd, alive, tafweej, Task>>
    BY <1>16 DEF SwitchGps, Task
  <2>6. OneMain' => /\ OneMain /\ mains'[1].child = mains[1].child
                    /\ mains'[1].seek => mains[1].seek
    BY <2>1, <2>3, <2>4, <2>5 DEF OneMain
  <2> QED
    BY <2>4, <2>5, <2>6, QuietKept
<1>17. CASE ChangePermission
  BY <1>1, <1>17, QuietDeath DEF ChangePermission
<1>18. CASE UNCHANGED vars
  BY <1>1, <1>18 DEF vars
<1> QED
  BY <1>2, <1>3, <1>4, <1>5, <1>7, <1>8, <1>9, <1>12, <1>13, <1>14, <1>15, <1>16, <1>17,
     <1>18, QuietCreate, QuietVerify DEF Next, Start, Fix

\* Once a dispatcher has stopped, no fix makes the entry active again, however
\* many listeners a lost provider has left behind (MainActivity.java:123-190).
THEOREM StoppedStaysStoppedAlways == Spec => []StoppedStaysStopped
<1>1. Quiet => StoppedStaysStopped
  BY DEF Quiet
<1> QED
  BY <1>1, QuietInit, QuietStep, SteadyInit, SteadyStep, IInvAlways, PTL DEF Spec
=============================================================================
