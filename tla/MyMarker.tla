------------------------------ MODULE MyMarker ------------------------------
(***************************************************************************)
(* One marker of the web map (haj_web/src/Components/MyMarker.js): the     *)
(* React state it copies from the database, its child_changed listener,    *)
(* and the intervals it sets and clears, with the node it listens to and   *)
(* the check boxes of App.js that filter it.                               *)
(*                                                                         *)
(* Outside React's own event handlers setState of React 16 is synchronous, *)
(* so a handler, the state it sets and the render it causes are one step,  *)
(* and so are the handlers of all the events one update of the node        *)
(* raises, which the SDK runs back to back.                                *)
(*                                                                         *)
(* marker.interval is the interval whose id state.intervalId holds, and    *)
(* marker.orphans those still running whose id was overwritten. Orphans    *)
(* with the same callback and the same time left fire together and do the  *)
(* same, so a set of them loses nothing.                                   *)
(***************************************************************************)
EXTENDS Naturals, Crowd

CONSTANTS
    Period,  \* the 10000 ms of every interval, in ticks
    Boxes,   \* bound: the check boxes the operator of the map clicks
    None     \* no interval

ASSUME PeriodAssumption == Period \in Nat \ {0}

VARIABLES
    app,        \* the phone app the dispatcher carries
    node,       \* Crowd/<id>, as the SDK of the map last saw it
    marker,     \* the component
    show,       \* the check boxes that are ticked
    sinceFix,   \* history: ticks since a position other than <<0, 0>> came in
    sinceWord   \* history: ticks since anything but a head count came in

vars == <<app, node, marker, show, sinceFix, sinceWord>>

Callback == {"timer", "removeMarker"}
Category == {"Active", "inActive", "Lost"}

ASSUME BoxesAssumption == Boxes \subseteq Category

Interval == [run : Callback, left : 0..Period]
ASSUME NoneAssumption == None \notin Interval

\* Whatever the status branch of the listener may store as a status.
MarkerStatus == Status \cup {"Terminated", Nowhere, Undefined} \cup Campaigns

CrowdState ==
    [status         : MarkerStatus,
     lost           : BOOLEAN,
     location       : Places \cup {Nowhere, Undefined},
     numberOfPeople : Counts \cup {Undefined}]

Marker ==
    [mounted  : BOOLEAN,
     crowd    : CrowdState,
     interval : Interval \cup {None},
     orphans  : SUBSET Interval]

\* The type invariant.
TypeOK ==
    /\ app \in {"Tafweej", "hajjApp"}
    /\ node \in Node
    /\ marker \in Marker
    /\ show \in SUBSET Category
    /\ sinceFix \in 0..(Period + 1)
    /\ sinceWord \in 0..(Period + 1)

Running(m) == m.orphans \cup ({m.interval} \ {None})

-----------------------------------------------------------------------------
(* Intervals and rendering. *)

Started(run) == [run |-> run, left |-> Period]

\* clearInterval(this.state.intervalId)
ClearInterval(m) == [m EXCEPT !.interval = None]

\* this.state.intervalId = setInterval(run, 10000), whatever was there before.
SetInterval(m, run) ==
    [m EXCEPT !.interval = Started(run), !.orphans = Running(m)]

\* Mutation: a render that starts no removal interval.
RenderOnly(m) == m

\* Every render of an inactive crowd starts one more removal interval.
Render(m) ==
    IF m.crowd.status = "inActive" THEN SetInterval(m, "removeMarker") ELSE m

\* setState does nothing once the component is unmounted.
SetState(m, crowd) ==
    IF m.mounted THEN Render([m EXCEPT !.crowd = crowd]) ELSE m

\* The constructor starts the first interval; then come the first render and
\* that of the setState in componentDidMount.
Mounted(n) ==
    Render(Render(
        [mounted  |-> TRUE,
         crowd    |-> [status         |-> n.status,
                       lost           |-> FALSE,
                       location       |-> n.location,
                       numberOfPeople |-> n.numberOfPeople],
         interval |-> Started("timer"),
         orphans  |-> {}]))

-----------------------------------------------------------------------------
(* The child_changed listener. *)

\* Mutation: the lost-timer is not restarted by a fix.
OnLocationNoRestart(m, place) ==
    IF m.crowd.location = Undefined
    THEN m
    ELSE SetState(m, [m.crowd EXCEPT !.location = place,
                                     !.lost = FALSE,
                                     !.status = "Active"])

\* Mutation: a marker that was taken off ignores its dispatcher's fixes.
OnLocationOnceRemoved(m, place) ==
    IF m.crowd.location = Undefined \/ m.crowd.status = "Terminated"
    THEN m
    ELSE SetState(SetInterval(ClearInterval(m), "timer"),
                  [m.crowd EXCEPT !.location = place,
                                  !.lost = FALSE,
                                  !.status = "Active"])

\* A crowd mounted without a location has none to compute a heading from:
\* the listener throws before it changes anything.
OnLocation(m, place) ==
    IF m.crowd.location = Undefined
    THEN m
    ELSE SetState(SetInterval(ClearInterval(m), "timer"),
                  [m.crowd EXCEPT !.location = place,
                                  !.lost = FALSE,
                                  !.status = "Active"])

OnNumberOfPeople(m, count) ==
    SetState(m, [m.crowd EXCEPT !.numberOfPeople = count])

\* Mutation: a status starts no lost-timer.
OnStatusNoTimer(m, value) ==
    SetState(ClearInterval(m), [m.crowd EXCEPT !.status = value])

\* Mutation: only inActive clears the interval.
OnStatusNoClear(m, value) ==
    SetState(IF value = "inActive" THEN ClearInterval(m) ELSE m,
             [m.crowd EXCEPT !.status = value])

OnStatus(m, value) ==
    SetState(IF value = "inActive"
             THEN ClearInterval(m)
             ELSE SetInterval(ClearInterval(m), "timer"),
             [m.crowd EXCEPT !.status = value])

OnChildChanged(m, value) ==
    CASE value \in Places -> OnLocation(m, value)
      [] value \in Counts -> OnNumberOfPeople(m, value)
      [] OTHER            -> OnStatus(m, value)

Notify(m, old, new, child) ==
    IF ChildChanged(old, new, child) THEN OnChildChanged(m, new[child]) ELSE m

\* The events of one update of the node come in the order of the keys.
Notified(m, old, new) ==
    LET m1 == Notify(m, old, new, "campaign_id")
        m2 == Notify(m1, old, new, "location")
        m3 == Notify(m2, old, new, "numberOfPeople")
    IN  Notify(m3, old, new, "status")

-----------------------------------------------------------------------------
(* Actions. *)

Init ==
    /\ app \in {"Tafweej", "hajjApp"}
    /\ node \in IF app = "Tafweej" THEN TafweejNodes ELSE HajjAppNodes
    /\ marker = Mounted(node)
    /\ show = Category
    /\ sinceFix = 0
    /\ sinceWord = 0

\* An update of the node reaches the map. The listener stays registered when
\* the component unmounts.
Update(new) ==
    /\ new # node
    /\ node' = new
    /\ marker' = Notified(marker, node, new)
    /\ sinceFix' = IF ChildChanged(node, new, "location") /\ new.location \in Places
                   THEN 0 ELSE sinceFix
    /\ sinceWord' = IF \E child \in {"campaign_id", "location", "status"} :
                           ChildChanged(node, new, child)
                    THEN 0 ELSE sinceWord
    /\ UNCHANGED <<app, show>>

TafweejUpdate ==
    /\ app = "Tafweej"
    /\ \E new \in TafweejNodes : Update(new)

HajjAppUpdate ==
    /\ app = "hajjApp"
    /\ \E new \in HajjAppWrites(node) : Update(new)

Elapsed(t) == [t EXCEPT !.left = @ - 1]

\* A tick of the clock; it waits for the callbacks that are due.
Tick ==
    /\ \A t \in Running(marker) : t.left > 0
    /\ marker' = [marker EXCEPT
         !.interval = IF @ = None THEN None ELSE Elapsed(@),
         !.orphans  = {Elapsed(t) : t \in @}]
    /\ sinceFix' = IF sinceFix > Period THEN sinceFix ELSE sinceFix + 1
    /\ sinceWord' = IF sinceWord > Period THEN sinceWord ELSE sinceWord + 1
    /\ UNCHANGED <<app, node, show>>

\* What a callback does to the state of the component.
Fired(run, crowd) ==
    IF run = "timer" THEN [crowd EXCEPT !.lost = TRUE]
                     ELSE [crowd EXCEPT !.status = "Terminated"]

Restarted(m, t) ==
    [m EXCEPT !.interval = IF @ = t THEN Started(t.run) ELSE @,
              !.orphans  = {IF o = t THEN Started(t.run) ELSE o : o \in @}]

\* An interval that is due runs its callback and starts over.
Fire(t) ==
    /\ t.left = 0
    /\ marker' = SetState(Restarted(marker, t), Fired(t.run, marker.crowd))
    /\ UNCHANGED <<app, node, show, sinceFix, sinceWord>>

FireSome == \E t \in Running(marker) : Fire(t)

\* handleShowActive, handleShowInActive and handleShowLost re-render the map.
ToggleShow(category) ==
    /\ marker.mounted
    /\ show' = IF category \in show THEN show \ {category} ELSE show \cup {category}
    /\ marker' = Render(marker)
    /\ UNCHANGED <<app, node, sinceFix, sinceWord>>

\* Any other render: a crowd comes or goes, or the info window of this marker
\* opens, gets its campaign or closes.
Rerender ==
    /\ marker.mounted
    /\ marker' = Render(marker)
    /\ UNCHANGED <<app, node, show, sinceFix, sinceWord>>

\* componentWillUnmount
Unmount ==
    /\ marker.mounted
    /\ marker' = [ClearInterval(marker) EXCEPT !.mounted = FALSE]
    /\ UNCHANGED <<app, node, show, sinceFix, sinceWord>>

Next ==
    \/ TafweejUpdate
    \/ HajjAppUpdate
    \/ Tick
    \/ FireSome
    \/ \E category \in Boxes : ToggleShow(category)
    \/ Rerender
    \/ Unmount

Spec == Init /\ [][Next]_vars

\* The event loop of the browser runs the callbacks that are due and time
\* passes; the phones, the operator and React promise nothing.
FairSpec == Spec /\ WF_vars(Tick) /\ WF_vars(FireSome)

-----------------------------------------------------------------------------
(* What the map shows. *)

Hidden ==
    LET c == marker.crowd IN
    \/ c.status = "Terminated"
    \/ c.status = "Active" /\ "Active" \notin show /\ ~c.lost
    \/ c.status = "inActive" /\ "inActive" \notin show
    \/ c.lost /\ "Lost" \notin show
    \/ c.location = Undefined

OnMap == marker.mounted /\ ~Hidden

\* The red circle of a dispatcher that went silent.
Red == OnMap /\ marker.crowd.lost /\ marker.crowd.status = "Active"
-----------------------------------------------------------------------------
(* Properties. *)

\* A dispatcher shown as active that has sent neither a position nor a status
\* for longer than the period is marked lost: whatever was cleared, cleared
\* twice or overwritten meanwhile, an active marker is being timed.
SilentIsLost ==
    marker.mounted /\ marker.crowd.status = "Active" /\ sinceWord > Period
      => marker.crowd.lost

\* A stopped dispatcher does not stay on the map: within a period of its last
\* word its marker has been taken off or has another status, although every
\* render of the stopped crowd overwrites the id of the removal interval.
StoppedIsRemoved ==
    marker.mounted /\ marker.crowd.status = "inActive" => sinceWord <= Period

\* No marker is painted lost before its dispatcher has been silent for a
\* period, as long as no lost-timer runs that nobody can clear any more (the
\* marker of a crowd that is already stopped when it is mounted leaves one).
LostMeansSilent ==
    Red /\ (\A t \in marker.orphans : t.run # "timer") => sinceFix >= Period

\* While no interval is orphaned, only the marker of a dispatcher whose status
\* in the database is inActive is taken off the map.
TerminatedIsStopped ==
    /\ marker.mounted
    /\ marker.crowd.status = "Terminated"
    /\ marker.orphans = {}
    => node.status = "inActive"

\* The marker of an iOS dispatcher that had a location when it was mounted is
\* where the database says, through every status, loss and removal.
MarkerFollowsPhone ==
    app = "hajjApp" /\ marker.mounted /\ marker.crowd.location # Undefined
      => marker.crowd.location = node.location

\* A marker that turned inactive is eventually taken off the map or changes
\* its status, by the callbacks of its own intervals.
StoppedLeavesMap ==
    (marker.mounted /\ marker.crowd.status = "inActive")
      ~> (~marker.mounted \/ marker.crowd.status # "inActive")
-----------------------------------------------------------------------------
(* What the documentation says and the code does not do. *)

\* README.md:6-7, the map displays the dispatchers' locations: a marker is
\* taken off only while its dispatcher is stopped.
RemovedOnlyWhenStopped ==
    marker.mounted /\ marker.crowd.status = "Terminated"
      => node.status = "inActive"
=============================================================================
