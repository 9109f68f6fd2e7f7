------------------------------ MODULE HajjApp ------------------------------
(***************************************************************************)
(* The iOS app hajjApp on one dispatcher's phone: AppDelegate, which sends *)
(* the locations, ViewController, which logs in, and HomeVC, which shows   *)
(* and sets the status and the number of people of the phone's entry.      *)
(*                                                                         *)
(* The handlers run on the main thread, one at a time. A write returns at  *)
(* once: the SDK of Firebase queues it, shows it to the observers of this  *)
(* phone by an event that comes later, and hands it to the server in       *)
(* order when there is a connection. The queue is in memory and dies       *)
(* with the process; what the app saves and the signed-in user remain.     *)
(*                                                                         *)
(* A fix has two events, the second when the server has set its timestamp; *)
(* the second says the same and is left out. The app never starts heading  *)
(* updates, and nothing but the distance depends on the fix before.        *)
(***************************************************************************)
EXTENDS Naturals, FiniteSetsExt, SequencesExt, Crowd

CONSTANTS
    Ids,         \* what childByAutoId makes up, no two the same
    Phones,      \* contact numbers
    NoPhone,     \* the number of a campaign without one
    Registry,    \* the phone of each campaign in the database
    MaxTens,     \* bound: tens of people
    Text,        \* Text[n] is "\(10 * n)"
    MaxLogins,   \* bound: taps on Login that wait for an answer
    MaxPending,  \* bound: writes in the queue of the SDK
    MaxEvents,   \* bound: events on their way to the observers
    MaxQueued    \* bound: both together

ASSUME IdAssumption == Undefined \notin Ids
ASSUME RegistryAssumption ==
    /\ Undefined \notin Phones \cup {NoPhone} /\ NoPhone \notin Phones
    /\ Registry \in [Campaigns -> Phones \cup {NoPhone, Undefined}]
ASSUME TextAssumption ==
    /\ MaxTens \in Nat
    /\ Text \in [0..MaxTens -> Counts]
    /\ Text[0] = NoOne
    /\ \A m, n \in 0..MaxTens : Text[m] = Text[n] => m = n
ASSUME BoundAssumption == {MaxLogins, MaxPending, MaxEvents, MaxQueued} \subseteq Nat

VARIABLES
    crowd,       \* Crowd, the entries this phone makes
    online,      \* the phone has a connection
    alive,       \* the process runs
    foreground,  \* it is in the foreground
    sources,     \* where its locations come from
    signedIn,    \* there is an anonymous user
    saved,       \* crowd_id of the campaign in UserDefaults
    campaign,    \* crowd_id of HomeVC.campaign
    root,        \* the root of the navigation controller
    logins,      \* the taps on Login that wait for an answer
    pushes,      \* the ids whose HomeVC is to be pushed
    homes,       \* the HomeVCs, the one on top last
    pending,     \* the writes the server does not have yet
    events,      \* the values on their way to the observers
    made,        \* history: the ids that were made up
    wiped        \* history: the entries that were deleted, or whose creation
                 \* was lost with the process

stored == <<crowd, online, wiped>>
process == <<alive, foreground, sources, root>>
account == <<signedIn, saved, logins, pushes, made>>
session == <<campaign, homes>>
sdk == <<pending, events>>
vars == <<stored, process, account, session, sdk>>

\* A node without children does not exist.
Absent ==
    [campaign_id |-> Undefined, location |-> Undefined,
     numberOfPeople |-> Undefined, status |-> Undefined]

Writes ==
    [crowd_id : Ids, child : {"campaign_id"}, value : Campaigns]
      \cup [crowd_id : Ids, child : {"location"}, value : Places]
      \cup [crowd_id : Ids, child : {"numberOfPeople"}, value : Counts]
      \cup [crowd_id : Ids, child : {"status"}, value : {"Active", "inActive"}]

\* connected is what statusLabel says, and which of the two buttons is
\* enabled; number is the text of numberOfCrowd; known says that the observer
\* has had its first value.
Homes ==
    [observes  : Ids \cup {Undefined},
     known     : BOOLEAN,
     connected : BOOLEAN,
     number    : Counts \cup {Undefined}]

Logins ==
    [campaign_id : Campaigns, number : Phones,
     step : {"asked", "signing", "signed"}]

TypeOK ==
    /\ crowd \in [Ids -> HajjAppNodes]
    /\ online \in BOOLEAN /\ alive \in BOOLEAN /\ foreground \in BOOLEAN
    /\ sources \subseteq {"standard", "significant"}
    /\ signedIn \in BOOLEAN
    /\ saved \in Ids \cup {Undefined}
    /\ campaign \in Ids \cup {Undefined}
    /\ root \in {"Login", "Home"}
    /\ logins \in Seq(Logins)
    /\ pushes \in Seq(Ids)
    /\ homes \in Seq(Homes)
    /\ pending \in Seq(Writes)
    /\ events \in Seq([crowd_id : Ids, node : HajjAppNodes])
    /\ made \subseteq Ids
    /\ wiped \subseteq Ids

NewHome(id) ==
    [observes |-> id, known |-> FALSE, connected |-> FALSE, number |-> Undefined]

-----------------------------------------------------------------------------
(* The SDK of Firebase. *)

\* Mutation: the write replaces the entry, not one child of it.
AppliedToNode(node, w) == [Absent EXCEPT ![w.child] = w.value]

\* setValue of a child, updateChildValues of the location. The entry is
\* created with a campaign only; its id is new, so nothing is replaced.
Applied(node, w) == [node EXCEPT ![w.child] = w.value]

\* The last value in the queue for a child, if any.
Latest(id, child, value) ==
    LET own == {i \in DOMAIN pending :
                  pending[i].crowd_id = id /\ pending[i].child = child}
    IN  IF own = {} THEN value ELSE pending[Max(own)].value

\* An entry as the phone sees it: what is in the queue counts already.
Overlaid(id, node) ==
    [campaign_id    |-> Latest(id, "campaign_id", node.campaign_id),
     location       |-> Latest(id, "location", node.location),
     numberOfPeople |-> Latest(id, "numberOfPeople", node.numberOfPeople),
     status         |-> Latest(id, "status", node.status)]

View(id) == Overlaid(id, crowd[id])

\* A value that differs is on its way to the observer of the entry, if any.
Raised(id, old, new) ==
    IF old # new /\ \E i \in DOMAIN homes : homes[i].observes = id /\ homes[i].known
    THEN Append(events, [crowd_id |-> id, node |-> new])
    ELSE events

RoomForEvent == Len(events) < MaxEvents /\ Len(pending) + Len(events) < MaxQueued

Room == RoomForEvent /\ Len(pending) < MaxPending

\* A write to the entry of HomeVC.campaign, if there is one.
Write(child, value) ==
    IF campaign = Undefined THEN UNCHANGED sdk
    ELSE /\ Room
         /\ LET w == [crowd_id |-> campaign, child |-> child, value |-> value]
            IN  /\ pending' = Append(pending, w)
                /\ events' = Raised(campaign, View(campaign), Applied(View(campaign), w))

\* The server gets the oldest write.
Deliver ==
    /\ online
    /\ pending # <<>>
    /\ LET w == Head(pending)
       IN  crowd' = [crowd EXCEPT ![w.crowd_id] = Applied(@, w)]
    /\ pending' = Tail(pending)
    /\ UNCHANGED <<online, wiped, process, account, session, events>>

\* Somebody deletes an entry in the console of Firebase. A phone without a
\* connection would hear of it later: it is as if it happened then.
Delete(id) ==
    /\ online
    /\ RoomForEvent
    /\ crowd[id] # Absent
    /\ crowd' = [crowd EXCEPT ![id] = Absent]
    /\ wiped' = wiped \cup {id}
    /\ events' = Raised(id, View(id), Overlaid(id, Absent))
    /\ UNCHANGED <<online, process, account, session, pending>>

SwitchOnline ==
    /\ online' = ~online
    /\ UNCHANGED <<crowd, wiped, process, account, session, sdk>>

-----------------------------------------------------------------------------
(* AppDelegate *)

Init ==
    /\ crowd = [id \in Ids |-> Absent]
    /\ online \in BOOLEAN
    /\ alive = FALSE
    /\ foreground = FALSE
    /\ sources = {}
    /\ signedIn = FALSE
    /\ saved = Undefined
    /\ campaign = Undefined
    /\ root = "Login"
    /\ logins = <<>>
    /\ pushes = <<>>
    /\ homes = <<>>
    /\ pending = <<>>
    /\ events = <<>>
    /\ made = {}
    /\ wiped = {}

\* The campaign comes from UserDefaults, the first screen from the user: one
\* may be there without the other. iOS goes on monitoring significant changes
\* for a process that died.
didFinishLaunching ==
    /\ ~alive
    /\ alive' = TRUE
    /\ foreground' \in (IF "significant" \in sources THEN BOOLEAN ELSE {TRUE})
    /\ sources' = sources \cup {"standard"}
    /\ campaign' = saved
    /\ root' = IF signedIn THEN "Home" ELSE "Login"
    /\ homes' = IF signedIn THEN <<NewHome(saved)>> ELSE <<>>
    /\ UNCHANGED <<stored, account, sdk>>

\* Mutation: the significant changes are not monitored.
EnterBackgroundSilently ==
    /\ alive /\ foreground
    /\ foreground' = FALSE
    /\ sources' = sources \ {"standard"}
    /\ UNCHANGED <<stored, alive, root, account, session, sdk>>

applicationDidEnterBackground ==
    /\ alive /\ foreground
    /\ foreground' = FALSE
    /\ sources' = (sources \ {"standard"}) \cup {"significant"}
    /\ UNCHANGED <<stored, alive, root, account, session, sdk>>

applicationWillEnterForeground ==
    /\ alive /\ ~foreground
    /\ foreground' = TRUE
    /\ sources' = (sources \ {"significant"}) \cup {"standard"}
    /\ UNCHANGED <<stored, alive, root, account, session, sdk>>

\* The process ends, and with it the writes it had queued.
Die ==
    /\ alive' = FALSE
    /\ foreground' = FALSE
    /\ campaign' = Undefined
    /\ root' = "Login"
    /\ homes' = <<>>
    /\ logins' = <<>>
    /\ pushes' = <<>>
    /\ pending' = <<>>
    /\ events' = <<>>
    /\ wiped' = wiped \cup {pending[i].crowd_id : i \in
                              {i \in DOMAIN pending : pending[i].child = "campaign_id"}}

\* A crash, or iOS needs the memory.
Kill ==
    /\ alive
    /\ Die
    /\ sources' = sources \ {"standard"}
    /\ UNCHANGED <<crowd, online, signedIn, saved, made>>

applicationWillTerminate ==
    /\ alive
    /\ Die
    /\ sources' = {"significant"}
    /\ UNCHANGED <<crowd, online, signedIn, saved, made>>

\* The app is deleted and installed again: the user of Firebase, which is in
\* the keychain, stays; UserDefaults do not.
Reinstall ==
    /\ ~alive
    /\ saved' = Undefined
    /\ sources' = {}
    /\ UNCHANGED <<stored, alive, foreground, root, signedIn, logins, pushes, made,
                   session, sdk>>

\* A location is written under whatever id there is, started or not.
didUpdateLocations(place) ==
    /\ alive
    /\ IF foreground THEN "standard" \in sources ELSE "significant" \in sources
    /\ Write("location", place)
    /\ UNCHANGED <<stored, process, account, session>>

-----------------------------------------------------------------------------
(* ViewController *)

\* A tap on Login asks for the campaign.
loginHandler(c, number) ==
    /\ alive /\ foreground
    /\ root = "Login" /\ homes = <<>>
    /\ Len(logins) < MaxLogins
    /\ logins' = Append(logins, [campaign_id |-> c, number |-> number, step |-> "asked"])
    /\ UNCHANGED <<stored, process, signedIn, saved, pushes, made, session, sdk>>

Step(k, step) == logins' = [logins EXCEPT ![k].step = step]

Done(k) == logins' = RemoveAt(logins, k)

\* The answer, if there is a campaign with that number, leads to the sign-in.
Answered(k) ==
    /\ alive /\ online
    /\ logins[k].step = "asked"
    /\ IF Registry[logins[k].campaign_id] = logins[k].number
       THEN Step(k, "signing")
       ELSE Done(k)
    /\ UNCHANGED <<stored, process, signedIn, saved, pushes, made, session, sdk>>

\* signInAnonymously: the SDK stores the user and calls back after that.
SignIn(k) ==
    /\ alive /\ online
    /\ logins[k].step = "signing"
    /\ signedIn' = TRUE
    /\ Step(k, "signed")
    /\ UNCHANGED <<stored, process, saved, pushes, made, session, sdk>>

SignInFails(k) ==
    /\ alive
    /\ logins[k].step = "signing"
    /\ Done(k)
    /\ UNCHANGED <<stored, process, signedIn, saved, pushes, made, session, sdk>>

\* Mutation: the entry is not created.
CompletedSilently(k, id) ==
    /\ alive
    /\ logins[k].step = "signed"
    /\ Room
    /\ saved' = id
    /\ made' = made \cup {id}
    /\ pushes' = Append(pushes, id)
    /\ Done(k)
    /\ UNCHANGED <<stored, process, signedIn, session, sdk>>

\* The completion of the sign-in creates the entry, saves the campaign and
\* leaves the rest to the main queue.
Completed(k, id) ==
    /\ alive
    /\ logins[k].step = "signed"
    /\ Room
    /\ pending' = Append(pending, [crowd_id |-> id, child |-> "campaign_id",
                                   value |-> logins[k].campaign_id])
    /\ saved' = id
    /\ made' = made \cup {id}
    /\ pushes' = Append(pushes, id)
    /\ Done(k)
    /\ UNCHANGED <<stored, process, signedIn, session, events>>

\* The block on the main queue: HomeVC observes the entry of the campaign.
Push ==
    /\ pushes # <<>>
    /\ campaign' = Head(pushes)
    /\ homes' = Append(homes, NewHome(Head(pushes)))
    /\ pushes' = Tail(pushes)
    /\ UNCHANGED <<stored, process, signedIn, saved, logins, made, sdk>>

\* A swipe from the edge of the screen: hiding the bar leaves it working.
Back ==
    /\ alive /\ foreground
    /\ homes # <<>>
    /\ root = "Home" => Len(homes) > 1
    /\ homes' = Front(homes)
    /\ UNCHANGED <<stored, process, account, campaign, sdk>>

-----------------------------------------------------------------------------
(* HomeVC *)

toggleStatus(home, status) == [home EXCEPT !.connected = status]

\* checkStatus: the observer gets its first value from the server, or from
\* the queue while the creation is in it.
checkStatus(i) ==
    /\ homes[i].observes # Undefined
    /\ ~homes[i].known
    /\ \/ online
       \/ \E n \in DOMAIN pending : /\ pending[n].crowd_id = homes[i].observes
                                    /\ pending[n].child = "campaign_id"
    /\ RoomForEvent
    /\ homes' = [homes EXCEPT ![i].known = TRUE]
    /\ events' = Append(events, [crowd_id |-> homes[i].observes,
                                 node |-> View(homes[i].observes)])
    /\ UNCHANGED <<stored, process, account, campaign, pending>>

\* Mutation: the number stays if the entry has none.
ShownKeeps(home, node) ==
    IF node = Absent THEN home
    ELSE [toggleStatus(home, node.status = "Active") EXCEPT
            !.number = IF node.numberOfPeople = Undefined THEN home.number
                       ELSE node.numberOfPeople]

\* What the observer shows of a value.
Shown(home, node) ==
    IF node = Absent THEN home
    ELSE [toggleStatus(home, node.status = "Active") EXCEPT
            !.number = IF node.numberOfPeople = Undefined THEN NoOne
                       ELSE node.numberOfPeople]

Observe ==
    /\ events # <<>>
    /\ LET e == Head(events)
       IN  homes' = [i \in DOMAIN homes |->
                       IF homes[i].observes = e.crowd_id THEN Shown(homes[i], e.node)
                       ELSE homes[i]]
    /\ events' = Tail(events)
    /\ UNCHANGED <<stored, process, account, campaign, pending>>

\* A tap goes to the HomeVC on top.
Tapped(i) == alive /\ foreground /\ i = Len(homes)

startBtnHandler(i) ==
    /\ Tapped(i)
    /\ ~homes[i].connected
    /\ homes' = [homes EXCEPT ![i] = toggleStatus(@, TRUE)]
    /\ Write("status", "Active")
    /\ UNCHANGED <<stored, process, account, campaign>>

\* Mutation: only the screen changes.
stopBtnSilent(i) ==
    /\ Tapped(i)
    /\ homes[i].connected
    /\ homes' = [homes EXCEPT ![i] = toggleStatus(@, FALSE)]
    /\ UNCHANGED <<stored, process, account, campaign, sdk>>

stopBtnHandler(i) ==
    /\ Tapped(i)
    /\ homes[i].connected
    /\ homes' = [homes EXCEPT ![i] = toggleStatus(@, FALSE)]
    /\ Write("status", "inActive")
    /\ UNCHANGED <<stored, process, account, campaign>>

\* Both taps on the number start from what is shown, and do nothing before
\* there is a value or without a campaign.
Counted(i, total) ==
    /\ Tapped(i)
    /\ campaign # Undefined
    /\ homes' = [homes EXCEPT ![i].number = Text[total]]
    /\ Write("numberOfPeople", Text[total])
    /\ UNCHANGED <<stored, process, account, campaign>>

incrementHandler(i) ==
    \E n \in 0..(MaxTens - 1) : homes[i].number = Text[n] /\ Counted(i, n + 1)

decrementHandler(i) ==
    \E n \in 1..MaxTens : homes[i].number = Text[n] /\ Counted(i, n - 1)

-----------------------------------------------------------------------------
Tap == \E i \in DOMAIN homes :
    startBtnHandler(i) \/ stopBtnHandler(i) \/ incrementHandler(i) \/ decrementHandler(i)

Login == \E k \in DOMAIN logins :
    \/ Answered(k) \/ SignIn(k) \/ SignInFails(k)
    \/ \E id \in Ids \ made : Completed(k, id)

Next ==
    \/ Deliver \/ SwitchOnline
    \/ \E id \in Ids : Delete(id)
    \/ didFinishLaunching \/ Kill \/ applicationWillTerminate \/ Reinstall
    \/ applicationDidEnterBackground \/ applicationWillEnterForeground
    \/ \E place \in Places : didUpdateLocations(place)
    \/ \E c \in Campaigns, number \in Phones : loginHandler(c, number)
    \/ Login
    \/ Push \/ Back
    \/ \E i \in DOMAIN homes : checkStatus(i)
    \/ Observe
    \/ Tap

Spec == Init /\ [][Next]_vars

\* A connection takes the writes there are, and the main queue goes on.
FairSpec == Spec /\ WF_vars(Deliver) /\ WF_vars(Observe)

-----------------------------------------------------------------------------
(* Properties. *)

\* What MyMarker assumes of the phone: an entry is created with a campaign
\* and changes by one child at a time, unless somebody deletes it, through
\* taps and fixes in any order, lost connections and lost queues.
MakesHajjAppWrites ==
    [][\A id \in Ids :
         \/ crowd'[id] \in HajjAppWrites(crowd[id]) \cup {crowd[id], Absent}
         \/ /\ crowd[id] = Absent
            /\ \E c \in Campaigns : crowd'[id] = [Absent EXCEPT !.campaign_id = c]]_vars

\* An entry has its campaign, unless it was deleted, or the process died with
\* the creation of it in the queue: then the saved id brings it up again
\* without.
EntryHasCampaign ==
    \A id \in Ids \ wiped : crowd[id] # Absent => crowd[id].campaign_id # Undefined

\* When no event is on its way the screen shows the entry it writes to, however
\* taps, older events and fixes came in between, and a connection was lost.
ScreenShowsEntry ==
    \A i \in DOMAIN homes :
      /\ i = Len(homes) /\ homes[i].known /\ homes[i].observes = campaign
      /\ \A n \in DOMAIN events : events[n].crowd_id # campaign
      /\ View(campaign) # Absent
      => /\ homes[i].connected <=> View(campaign).status = "Active"
         /\ homes[i].number \in Counts
         /\ View(campaign).numberOfPeople \in {homes[i].number, Undefined}
         /\ View(campaign).numberOfPeople = Undefined => homes[i].number = NoOne

\* The entry the app writes to is the one it comes back to when it is started
\* again, also after two taps on Login.
SavedIsCurrent == alive /\ pushes = <<>> => campaign = saved

\* The app gets locations wherever it is, also when iOS has started it in the
\* background.
AlwaysTracked ==
    alive => IF foreground THEN "standard" \in sources ELSE "significant" \in sources

\* Stop gets through: while the connection lasts and the screen says that the
\* dispatcher is disconnected, the database comes to say so.
Disconnected ==
    /\ alive /\ online /\ homes # <<>>
    /\ campaign # Undefined
    /\ Last(homes).observes = campaign /\ Last(homes).known /\ ~Last(homes).connected
StoppedIsWritten ==
    Disconnected ~> (~Disconnected \/ crowd[campaign].status # "Active")
=============================================================================
