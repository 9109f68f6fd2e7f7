----------------------------- MODULE AndroidApp -----------------------------
(***************************************************************************)
(* The Android app Tafweej on one dispatcher's phone: LoginActivity,       *)
(* VerificationActivity, MainActivity and the singleton Tafweej they share *)
(* as long as the process lives.                                           *)
(*                                                                         *)
(* Everything in the app runs on the main thread, so a click handler, a    *)
(* callback of Firebase or of the location manager is one step.            *)
(* startActivity only asks for an activity: it is created later, and the   *)
(* one on top still gets clicks until then; of several that are asked for, *)
(* Android may create only a later one. Neither VerificationActivity nor   *)
(* MainActivity can be left by the back button, so the stack grows until   *)
(* the process dies.                                                       *)
(*                                                                         *)
(* The phone is connected: what the app writes is in the database at once. *)
(***************************************************************************)
EXTENDS Naturals, SequencesExt, Crowd

CONSTANTS
    Ids,         \* what generateRandomChar and generateUnique can make up
    Phones,      \* contact numbers
    NoPhone,     \* a campaign in the database that has no phone
    MaxSignUps,  \* bound: clicks on Sign Up in one process
    MaxDepth     \* bound: activities, created or asked for

ASSUME NoPhoneAssumption == NoPhone \notin Phones
ASSUME PhoneAssumption == Undefined \notin Phones /\ Undefined # NoPhone
ASSUME IdAssumption == Undefined \notin Ids
ASSUME BoundAssumption == MaxSignUps \in Nat /\ MaxDepth \in Nat

VARIABLES
    campaign,    \* Campaign: its phone by id, as the SDK of the phone sees it
    crowd,       \* Crowd
    alive,       \* the process runs
    tafweej,     \* the singleton Tafweej
    signUps,     \* the listeners on Campaign, one for each click on Sign Up
    stack,       \* the activities of the task; Android keeps it if it kills
                 \* the process
    launching,   \* the activities that are asked for
    mains,       \* the MainActivity instances, the last one on top
    permission,  \* ACCESS_FINE_LOCATION
    dialog,      \* what LoginActivity asks
    gps          \* the GPS provider is enabled

vars == <<campaign, crowd, alive, tafweej, signUps, stack, launching, mains,
          permission, dialog, gps>>

Activity == {"Login", "Verification", "Main"}

\* "refused" once, or "never" to be asked again.
Permission == {"unasked", "granted", "refused", "never"}

\* What can come of asking for a permission; the first request can be left
\* without an answer.
Answers(was) ==
    CASE was = "unasked" -> {"unasked", "granted", "refused"}
      [] was = "never"   -> {"never"}
      [] OTHER           -> {"granted", "refused", "never"}

Campaign == [Campaigns -> Phones \cup {NoPhone, Undefined}]

Tafweej ==
    [crowd_id    : Ids \cup {Undefined},
     campaign_id : Campaigns \cup {Undefined},
     status      : Status \cup {Undefined}]

SignUps == [campaign_id : Campaigns, contacts : Phones, answered : BOOLEAN]

\* current is the listener in the field locationListener; older says that one
\* it replaced is still registered; late that a fix may be on its way to a
\* listener that was removed; disabled that onProviderDisabled is due; stop
\* that the Stop button is shown and the Start button is not.
Mains ==
    [child        : Ids,
     progress     : Counts,
     data         : Node,
     stop         : BOOLEAN,
     seek         : BOOLEAN,
     current      : BOOLEAN,
     older        : BOOLEAN,
     late         : BOOLEAN,
     disabled     : BOOLEAN,
     asking       : BOOLEAN]

TypeOK ==
    /\ campaign \in Campaign
    /\ crowd \in [Ids -> Node \cup {Undefined}]
    /\ alive \in BOOLEAN
    /\ tafweej \in Tafweej
    /\ signUps \in Seq(SignUps)
    /\ stack \in Seq(Activity)
    /\ launching \in Seq({"Verification", "Main"})
    /\ mains \in Seq(Mains)
    /\ permission \in Permission
    /\ dialog \in {"none", "Login", "Rationale"}
    /\ gps \in BOOLEAN

NewTafweej ==
    [crowd_id |-> Undefined, campaign_id |-> Undefined, status |-> Undefined]

EmptyData ==
    [campaign_id |-> Undefined, location |-> Undefined,
     numberOfPeople |-> Undefined, status |-> Undefined]

\* onCreate of MainActivity
NewMain(id) ==
    [child |-> id, progress |-> NoOne, data |-> EmptyData, stop |-> FALSE,
     seek |-> TRUE, current |-> FALSE, older |-> FALSE, late |-> FALSE,
     disabled |-> FALSE, asking |-> FALSE]

Listening(m) == m.current \/ m.older

\* The activity that gets the clicks: no dialog is in front of it.
OnTop(activity) ==
    /\ alive
    /\ stack # <<>> /\ Last(stack) = activity
    /\ dialog = "none"
    /\ \A i \in DOMAIN mains : ~mains[i].asking

Room(n) == Len(stack) + Len(launching) + n <= MaxDepth

-----------------------------------------------------------------------------
(* The process. *)

Init ==
    /\ campaign \in Campaign
    /\ crowd = [id \in Ids |-> Undefined]
    /\ alive = FALSE
    /\ tafweej = NewTafweej
    /\ signUps = <<>>
    /\ stack = <<>>
    /\ launching = <<>>
    /\ mains = <<>>
    /\ permission = "unasked"
    /\ dialog = "none"
    /\ gps \in BOOLEAN

\* Whatever the process held is lost, its listeners too.
Die(task) ==
    /\ alive' = FALSE
    /\ tafweej' = NewTafweej
    /\ signUps' = <<>>
    /\ launching' = <<>>
    /\ mains' = <<>>
    /\ dialog' = "none"
    /\ stack' = task

\* The task: Android has the activities that are asked for in it already.
Task == stack \o launching

\* An exception in a handler: Android drops the activity on top.
Crash(task) == Die(Front(task))

\* The user opens the app. Android restores the activity on top of the task
\* in the new process; for MainActivity, onCreate passes the missing crowd id
\* to child and throws.
OpenLogin ==
    /\ ~alive
    /\ stack # <<>> => Last(stack) = "Login"
    /\ alive' = TRUE
    /\ stack' = IF stack = <<>> THEN <<"Login">> ELSE stack
    /\ dialog' = IF permission = "granted" THEN "none" ELSE "Login"
    /\ UNCHANGED <<campaign, crowd, tafweej, signUps, launching, mains,
                   permission, gps>>

OpenVerification ==
    /\ ~alive
    /\ stack # <<>> /\ Last(stack) = "Verification"
    /\ alive' = TRUE
    /\ UNCHANGED <<campaign, crowd, tafweej, signUps, stack, launching, mains,
                   permission, dialog, gps>>

OpenMain ==
    /\ ~alive
    /\ stack # <<>> /\ Last(stack) = "Main"
    /\ Crash(stack)
    /\ UNCHANGED <<campaign, crowd, permission, gps>>

\* Android kills the process in the background and keeps the task, or the
\* user removes the task.
Kill ==
    /\ alive
    /\ \E task \in {Task, <<>>} : Die(task)
    /\ UNCHANGED <<campaign, crowd, permission, gps>>

\* An activity that was asked for is created; the ones below it are not.
Create(n) ==
    /\ alive
    /\ stack' = stack \o SubSeq(launching, 1, n)
    /\ launching' = SubSeq(launching, n + 1, Len(launching))
    /\ mains' = IF launching[n] = "Main" THEN Append(mains, NewMain(tafweej.crowd_id))
                ELSE mains
    /\ UNCHANGED <<campaign, crowd, alive, tafweej, signUps, permission, dialog, gps>>

-----------------------------------------------------------------------------
(* LoginActivity *)

\* onRequestPermissionsResult: a first refusal brings up the alert.
AnswerLogin ==
    /\ dialog = "Login"
    /\ permission' \in Answers(permission)
    /\ dialog' = IF permission' = "refused" THEN "Rationale" ELSE "none"
    /\ UNCHANGED <<campaign, crowd, alive, tafweej, signUps, stack, launching,
                   mains, gps>>

\* The alert: Cancel.
Cancel ==
    /\ dialog = "Rationale"
    /\ dialog' = "none"
    /\ UNCHANGED <<campaign, crowd, alive, tafweej, signUps, stack, launching,
                   mains, permission, gps>>

\* The alert: Allow asks once more. Asking for nothing, as the user has
\* granted the permission meanwhile, throws.
Allow ==
    /\ dialog = "Rationale"
    /\ IF permission = "granted"
       THEN Crash(Task)
       ELSE /\ dialog' = "Login"
            /\ UNCHANGED <<alive, tafweej, signUps, stack, launching, mains>>
    /\ UNCHANGED <<campaign, crowd, permission, gps>>

\* A click on Sign Up registers one more listener on Campaign.
SignUp(id, contacts) ==
    /\ OnTop("Login")
    /\ Len(signUps) < MaxSignUps
    /\ signUps' = Append(signUps, [campaign_id |-> id, contacts |-> contacts,
                                   answered |-> FALSE])
    /\ UNCHANGED <<campaign, crowd, alive, tafweej, stack, launching, mains,
                   permission, dialog, gps>>

\* onDataChange throws when there is no campaign at all, and when the one that
\* was typed in has no phone.
Throws(s, snapshot) ==
    \/ \A c \in Campaigns : snapshot[c] = Undefined
    \/ snapshot[s.campaign_id] = NoPhone

Matches(s, snapshot) == snapshot[s.campaign_id] = s.contacts

\* The campaign of the last match stays in the singleton.
Kept(matching) ==
    IF matching = {} THEN tafweej' = tafweej
    ELSE \E last \in matching :
           /\ \A i \in matching : i <= last
           /\ tafweej' = [tafweej EXCEPT !.campaign_id = signUps[last].campaign_id]

\* The listeners of called, in their order and until one throws, get the
\* snapshot: each match is one more VerificationActivity.
OnDataChange(called, snapshot) ==
    LET thrown   == {i \in called : Throws(signUps[i], snapshot)}
        matching == {i \in called : Matches(signUps[i], snapshot)
                                     /\ \A t \in thrown : i < t}
        asked    == launching \o [n \in 1..Cardinality(matching) |-> "Verification"]
    IN  /\ Room(Cardinality(matching))
        /\ \/ /\ thrown # {}
              /\ Crash(stack \o asked)
           \/ /\ thrown = {}
              /\ launching' = asked
              /\ Kept(matching)
              /\ signUps' = [i \in DOMAIN signUps |->
                   [signUps[i] EXCEPT !.answered = @ \/ i \in called]]
              /\ UNCHANGED <<alive, stack, mains, dialog>>

\* The first snapshot of a new listener arrives.
Answer(i) ==
    /\ alive
    /\ ~signUps[i].answered
    /\ OnDataChange({i}, campaign)
    /\ UNCHANGED <<campaign, crowd, permission, gps>>

\* Somebody edits Campaign: the listeners are still there and all called.
EditCampaign(new) ==
    /\ new # campaign
    /\ campaign' = new
    /\ IF alive
       THEN OnDataChange({i \in DOMAIN signUps : signUps[i].answered}, new)
       ELSE UNCHANGED <<alive, tafweej, signUps, stack, launching, mains, dialog>>
    /\ UNCHANGED <<crowd, permission, gps>>

-----------------------------------------------------------------------------
(* VerificationActivity *)

\* A click on Verify with the code 000: a new id is made up and registered,
\* without a look at the database.
Verify(id) ==
    /\ OnTop("Verification")
    /\ Room(1)
    /\ tafweej' = [tafweej EXCEPT !.crowd_id = id, !.status = "InActive"]
    /\ crowd' = [crowd EXCEPT ![id] = Registered(tafweej.campaign_id)]
    /\ launching' = Append(launching, "Main")
    /\ UNCHANGED <<campaign, alive, signUps, stack, mains, permission, dialog, gps>>

-----------------------------------------------------------------------------
(* MainActivity *)

\* A click goes to the instance on top.
Clicked(i) == OnTop("Main") /\ i = Len(mains)

\* onProgressChanged; the seek bar is disabled between Start and Stop.
SeekBar(i, n) ==
    /\ Clicked(i)
    /\ mains[i].seek
    /\ mains' = [mains EXCEPT ![i].progress = n]
    /\ UNCHANGED <<campaign, crowd, alive, tafweej, signUps, stack, launching,
                   permission, dialog, gps>>

\* Each call registers a new listener and forgets the one before. A disabled
\* provider is reported to it at once.
Tracking(m) ==
    [m EXCEPT !.stop = TRUE,
              !.seek = FALSE,
              !.data.numberOfPeople = m.progress,
              !.older = m.older \/ m.current,
              !.current = TRUE,
              !.disabled = m.disabled \/ ~gps,
              !.asking = FALSE]

\* Mutation: Start does not say that the dispatcher is active.
getLocationSilent(i) ==
    /\ UNCHANGED tafweej
    /\ mains' = [mains EXCEPT ![i] = Tracking(@)]

getLocation(i) ==
    /\ tafweej' = [tafweej EXCEPT !.status = "Active"]
    /\ mains' = [mains EXCEPT ![i] = Tracking(@)]

\* A click on Start. After a first refusal it does nothing; otherwise it asks,
\* if it must.
buttonStart(i) ==
    /\ Clicked(i)
    /\ ~mains[i].stop
    /\ permission # "refused"
    /\ IF permission = "granted"
       THEN getLocation(i)
       ELSE /\ mains' = [mains EXCEPT ![i].asking = TRUE]
            /\ UNCHANGED tafweej
    /\ UNCHANGED <<campaign, crowd, alive, signUps, stack, launching, permission,
                   dialog, gps>>

\* onRequestPermissionsResult
AnswerMain(i) ==
    /\ mains[i].asking
    /\ permission' \in Answers(permission)
    /\ IF permission' = "granted"
       THEN getLocation(i)
       ELSE /\ mains' = [mains EXCEPT ![i].asking = FALSE]
            /\ UNCHANGED tafweej
    /\ UNCHANGED <<campaign, crowd, alive, signUps, stack, launching, dialog, gps>>

\* Mutation: the new status stays in the singleton.
StoppedKeeps(m) ==
    [m EXCEPT !.stop = FALSE, !.seek = TRUE, !.current = FALSE,
              !.late = m.current \/ m.older]

\* The last listener is removed, an older one is not.
Stopped(m) ==
    [m EXCEPT !.stop = FALSE, !.seek = TRUE, !.current = FALSE,
              !.late = m.current \/ m.older, !.data.status = "inActive"]

\* A click on Stop writes what is there: before the first fix neither a
\* campaign nor a location.
buttonStop(i) ==
    /\ Clicked(i)
    /\ mains[i].stop
    /\ tafweej' = [tafweej EXCEPT !.status = "inActive"]
    /\ mains' = [mains EXCEPT ![i] = Stopped(@)]
    /\ crowd' = [crowd EXCEPT ![mains[i].child] = Stopped(mains[i]).data]
    /\ UNCHANGED <<campaign, alive, signUps, stack, launching, permission, dialog, gps>>

\* Mutation: a fix says Active, whatever the singleton says.
LocatedActive(m, place) ==
    [m EXCEPT !.late = FALSE, !.data.campaign_id = tafweej.campaign_id,
              !.data.location = place, !.data.status = "Active"]

Located(m, place) ==
    [m EXCEPT !.late = FALSE, !.data.campaign_id = tafweej.campaign_id,
              !.data.location = place, !.data.status = tafweej.status]

\* A fix: the listeners of an instance write the same, under its own id but
\* with the campaign and the status of the singleton.
onLocationChanged(i, place) ==
    /\ (gps /\ Listening(mains[i])) \/ mains[i].late
    /\ mains' = [mains EXCEPT ![i] = Located(@, place)]
    /\ crowd' = [crowd EXCEPT ![mains[i].child] = Located(mains[i], place).data]
    /\ UNCHANGED <<campaign, alive, tafweej, signUps, stack, launching, permission,
                   dialog, gps>>

\* onProviderDisabled shows the Start button again; everything else stays.
onProviderDisabled(i) ==
    /\ mains[i].disabled
    /\ mains' = [mains EXCEPT ![i] =
         [@ EXCEPT !.stop = FALSE, !.disabled = FALSE]]
    /\ UNCHANGED <<campaign, crowd, alive, tafweej, signUps, stack, launching,
                   permission, dialog, gps>>

-----------------------------------------------------------------------------
(* The phone. *)

\* The user switches the GPS on or off.
SwitchGps ==
    /\ gps' = ~gps
    /\ mains' = [i \in DOMAIN mains |->
         [mains[i] EXCEPT !.disabled = @ \/ (gps /\ Listening(mains[i]))]]
    /\ UNCHANGED <<campaign, crowd, alive, tafweej, signUps, stack, launching,
                   permission, dialog>>

\* The user grants the permission in the settings, or revokes it there, which
\* kills the process; a request that is open is answered first.
ChangePermission ==
    /\ dialog # "Login"
    /\ \A i \in DOMAIN mains : ~mains[i].asking
    /\ \/ /\ permission \in {"refused", "never"}
          /\ permission' = "granted"
          /\ UNCHANGED <<alive, tafweej, signUps, stack, launching, mains, dialog>>
       \/ /\ permission = "granted"
          /\ permission' = "refused"
          /\ Die(Task)
    /\ UNCHANGED <<campaign, crowd, gps>>

-----------------------------------------------------------------------------
Fix == \E i \in DOMAIN mains, place \in Places : onLocationChanged(i, place)

Start == \E i \in DOMAIN mains : buttonStart(i)

Next ==
    \/ OpenLogin \/ OpenVerification \/ OpenMain \/ Kill
    \/ \E n \in DOMAIN launching : Create(n)
    \/ AnswerLogin \/ Cancel \/ Allow
    \/ \E id \in Campaigns, contacts \in Phones : SignUp(id, contacts)
    \/ \E i \in DOMAIN signUps : Answer(i)
    \/ \E new \in Campaign : EditCampaign(new)
    \/ \E id \in Ids : Verify(id)
    \/ \E i \in DOMAIN mains, n \in Counts : SeekBar(i, n)
    \/ Start
    \/ \E i \in DOMAIN mains : AnswerMain(i)
    \/ \E i \in DOMAIN mains : buttonStop(i)
    \/ Fix
    \/ \E i \in DOMAIN mains : onProviderDisabled(i)
    \/ SwitchGps
    \/ ChangePermission

Spec == Init /\ [][Next]_vars

\* A provider that is enabled keeps sending fixes to the listeners it has;
\* users promise nothing.
FairSpec == Spec /\ WF_vars(Fix)

-----------------------------------------------------------------------------
(* Properties. *)

\* What the app leaves in the database is what the map is checked against
\* (Crowd, MyMarker): an entry as it was registered, one with everything, or
\* what Stop leaves when there was no fix, whichever of the instances that
\* share the singleton wrote it and in whatever order.
NodesAreTafweej == \A id \in Ids : crowd[id] \in TafweejNodes \cup {Undefined}

\* The one MainActivity of the task.
OneMain ==
    /\ alive
    /\ Len(mains) = 1
    /\ \E n \in DOMAIN Task : \A k \in DOMAIN Task : Task[k] = "Main" <=> k = n

\* The status in the singleton, which the next fix sends, and the seek bar,
\* which Start and Stop switch, agree: through refusals, a lost provider and
\* a second Start.
StatusMatchesSeekBar ==
    OneMain => (tafweej.status = "Active" <=> ~mains[1].seek)

\* Who has stopped is not active in the database, and does not get to be: neither
\* by a fix that was on its way when its listener was removed, nor by a listener
\* that a lost provider left behind a second Start and that no Stop removes any
\* more. It goes on sending, but what the singleton says when it does.
StoppedStaysStopped ==
    OneMain /\ mains[1].seek => crowd[mains[1].child].status # "Active"

\* Once the dispatcher has started, and as long as it has a provider, the
\* database gets to say so.
Started == OneMain /\ ~mains[1].seek /\ gps
StartedIsActive == Started ~> (~Started \/ crowd[mains[1].child].status = "Active")

=============================================================================
