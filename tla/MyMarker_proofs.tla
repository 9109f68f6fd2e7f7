-------------------------- MODULE MyMarker_proofs --------------------------
(***************************************************************************)
(* The invariants of MyMarker, proved for every period, every set of       *)
(* locations, head counts and campaigns, and both phone apps.              *)
(*                                                                         *)
(* One update of the node runs up to four handlers in a row, so each part  *)
(* of the inductive invariant is an operator of the marker, and a lemma    *)
(* says what each handler does to it.                                      *)
(***************************************************************************)
EXTENDS MyMarker, TLAPS

-----------------------------------------------------------------------------
(* Which handler runs for which child. *)

\* A campaign id, a status or <<0, 0>> runs the status branch of the listener.
LEMMA DispatchWord ==
    ASSUME NEW m, NEW v \in Campaigns \cup Status \cup {Nowhere}
    PROVE  OnChildChanged(m, v) = OnStatus(m, v)
BY CrowdValues DEF OnChildChanged, Status

\* A number of people runs its own branch.
LEMMA DispatchCount ==
    ASSUME NEW m, NEW v \in Counts
    PROVE  OnChildChanged(m, v) = OnNumberOfPeople(m, v)
BY CrowdValues DEF OnChildChanged

\* A location with a latitude runs its own branch.
LEMMA DispatchPlace ==
    ASSUME NEW m, NEW v \in Places
    PROVE  OnChildChanged(m, v) = OnLocation(m, v)
BY CrowdValues DEF OnChildChanged

-----------------------------------------------------------------------------
(* Types. *)

\* setInterval keeps the type of a marker.
LEMMA SetIntervalType ==
    ASSUME NEW m \in Marker, NEW run \in Callback
    PROVE  SetInterval(m, run) \in Marker
<1>1. Started(run) \in Interval
  BY PeriodAssumption DEF Started, Interval
<1>2. Running(m) \in SUBSET Interval
  BY DEF Running, Marker
<1> QED
  BY <1>1, <1>2 DEF SetInterval, Marker

\* So does clearInterval,
LEMMA ClearIntervalType ==
    ASSUME NEW m \in Marker
    PROVE  ClearInterval(m) \in Marker
BY DEF ClearInterval, Marker

\* and a render,
LEMMA RenderType ==
    ASSUME NEW m \in Marker
    PROVE  Render(m) \in Marker
BY SetIntervalType DEF Render, Callback

\* and setState, for a crowd of the right type,
LEMMA SetStateType ==
    ASSUME NEW m \in Marker, NEW crowd \in CrowdState
    PROVE  SetState(m, crowd) \in Marker
<1>1. [m EXCEPT !.crowd = crowd] \in Marker
  BY DEF Marker
<1> QED
  BY <1>1, RenderType DEF SetState

\* and the status branch,
LEMMA OnStatusType ==
    ASSUME NEW m \in Marker, NEW v \in MarkerStatus
    PROVE  OnStatus(m, v) \in Marker
<1>1. ClearInterval(m) \in Marker /\ SetInterval(ClearInterval(m), "timer") \in Marker
  BY ClearIntervalType, SetIntervalType DEF Callback
<1>2. [m.crowd EXCEPT !.status = v] \in CrowdState
  BY DEF Marker, CrowdState
<1> QED
  BY <1>1, <1>2, SetStateType DEF OnStatus

\* and the branch of the number of people,
LEMMA OnNumberOfPeopleType ==
    ASSUME NEW m \in Marker, NEW v \in Counts
    PROVE  OnNumberOfPeople(m, v) \in Marker
<1>1. [m.crowd EXCEPT !.numberOfPeople = v] \in CrowdState
  BY DEF Marker, CrowdState
<1> QED
  BY <1>1, SetStateType DEF OnNumberOfPeople

\* and the branch of the location,
LEMMA OnLocationType ==
    ASSUME NEW m \in Marker, NEW v \in Places
    PROVE  OnLocation(m, v) \in Marker
<1>1. SetInterval(ClearInterval(m), "timer") \in Marker
  BY ClearIntervalType, SetIntervalType DEF Callback
<1>2. [m.crowd EXCEPT !.location = v, !.lost = FALSE, !.status = "Active"] \in CrowdState
  BY DEF Marker, CrowdState, MarkerStatus, Status
<1> QED
  BY <1>1, <1>2, SetStateType DEF OnLocation

\* and the event of one child,
LEMMA NotifyType ==
    ASSUME NEW m \in Marker, NEW old \in Node, NEW new \in Node,
           NEW child \in {"campaign_id", "location", "numberOfPeople", "status"}
    PROVE  Notify(m, old, new, child) \in Marker
<1>1. CASE ~ChildChanged(old, new, child)
  BY <1>1 DEF Notify
<1>2. CASE ChildChanged(old, new, child)
  <2>1. Notify(m, old, new, child) = OnChildChanged(m, new[child])
    BY <1>2 DEF Notify
  <2>2. new[child] \in Campaigns \cup Places \cup {Nowhere} \cup Counts \cup Status
    BY <1>2 DEF ChildChanged, Node
  <2>3. CASE new[child] \in Campaigns \cup Status \cup {Nowhere}
    BY <2>1, <2>3, DispatchWord, OnStatusType DEF MarkerStatus
  <2>4. CASE new[child] \in Counts
    BY <2>1, <2>4, DispatchCount, OnNumberOfPeopleType
  <2>5. CASE new[child] \in Places
    BY <2>1, <2>5, DispatchPlace, OnLocationType
  <2> QED
    BY <2>2, <2>3, <2>4, <2>5
<1> QED
  BY <1>1, <1>2

\* and all the events of one update.
LEMMA NotifiedType ==
    ASSUME NEW m \in Marker, NEW old \in Node, NEW new \in Node
    PROVE  Notified(m, old, new) \in Marker
<1> DEFINE m1 == Notify(m, old, new, "campaign_id")
           m2 == Notify(m1, old, new, "location")
           m3 == Notify(m2, old, new, "numberOfPeople")
<1>1. m1 \in Marker
  BY NotifyType
<1>2. m2 \in Marker
  BY <1>1, NotifyType
<1>3. m3 \in Marker
  BY <1>2, NotifyType
<1>4. Notify(m3, old, new, "status") \in Marker
  BY <1>3, NotifyType
<1> QED
  BY <1>4 DEF Notified

\* A marker that is mounted on a node has the right type.
LEMMA MountedType ==
    ASSUME NEW n \in Node
    PROVE  Mounted(n) \in Marker
<1> DEFINE m0 == [mounted  |-> TRUE,
                  crowd    |-> [status         |-> n.status,
                                lost           |-> FALSE,
                                location       |-> n.location,
                                numberOfPeople |-> n.numberOfPeople],
                  interval |-> Started("timer"),
                  orphans  |-> {}]
<1>1. Started("timer") \in Interval
  BY PeriodAssumption DEF Started, Interval, Callback
<1>2. m0 \in Marker
  BY <1>1 DEF Marker, CrowdState, MarkerStatus, Node
<1>3. Mounted(n) = Render(Render(m0))
  BY DEF Mounted
<1> QED
  BY <1>2, <1>3, RenderType

\* An interval that starts over keeps the type of its marker.
LEMMA RestartedType ==
    ASSUME NEW m \in Marker, NEW t \in Interval
    PROVE  Restarted(m, t) \in Marker
<1>1. Started(t.run) \in Interval
  BY PeriodAssumption DEF Started, Interval
<1> QED
  BY <1>1 DEF Restarted, Marker

\* A callback leaves a crowd of the right type.
LEMMA FiredType ==
    ASSUME NEW crowd \in CrowdState, NEW run \in Callback
    PROVE  Fired(run, crowd) \in CrowdState
BY DEF Fired, CrowdState, MarkerStatus

\* Both apps write nodes, and none of their writes removes a status.
LEMMA UpdateType ==
    ASSUME node \in Node,
           NEW new \in IF app = "Tafweej" THEN TafweejNodes ELSE HajjAppWrites(node)
    PROVE  /\ new \in Node
           /\ node.status # Undefined => new.status # Undefined
<1>1. CASE app = "Tafweej"
  BY <1>1, CrowdValues DEF TafweejNodes, Registered, Node, Status
<1>2. CASE app # "Tafweej"
  BY <1>2, CrowdValues DEF HajjAppWrites, Node, Status
<1> QED
  BY <1>1, <1>2

\* The type invariant holds at the mounting,
LEMMA TypingInit == Init => TypeOK
<1> SUFFICES ASSUME Init PROVE TypeOK
  OBVIOUS
<1>1. node \in Node
  BY CrowdValues DEF Init, TafweejNodes, HajjAppNodes, Registered, Node, Status
<1> QED
  BY <1>1, MountedType, PeriodAssumption DEF Init, TypeOK

\* and every step keeps it.
LEMMA TypingStep == TypeOK /\ [Next]_vars => TypeOK'
<1> SUFFICES ASSUME TypeOK, [Next]_vars PROVE TypeOK'
  OBVIOUS
<1> USE DEF TypeOK
<1>1. ASSUME NEW new \in IF app = "Tafweej" THEN TafweejNodes ELSE HajjAppWrites(node),
             Update(new)
      PROVE  TypeOK'
  BY <1>1, UpdateType, NotifiedType, PeriodAssumption DEF Update
<1>2. CASE TafweejUpdate
  BY <1>1, <1>2 DEF TafweejUpdate
<1>3. CASE HajjAppUpdate
  BY <1>1, <1>3 DEF HajjAppUpdate
<1>4. CASE Tick
  <2>1. \A t \in Running(marker) : Elapsed(t) \in Interval
    BY <1>4, PeriodAssumption DEF Tick, Running, Marker, Interval, Elapsed
  <2> DEFINE i == IF marker.interval = None THEN None
                  ELSE Elapsed(marker.interval)
             o == {Elapsed(t) : t \in marker.orphans}
  <2>2. i \in Interval \cup {None}
    BY <2>1 DEF Running
  <2>3. o \in SUBSET Interval
    BY <2>1 DEF Running
  <2>4. marker' = [marker EXCEPT !.interval = i, !.orphans = o]
    BY <1>4 DEF Tick
  <2>5. marker' \in Marker
    <3> HIDE DEF i, o
    <3> QED
      BY <2>2, <2>3, <2>4 DEF Marker
  <2> QED
    BY <1>4, <2>5, PeriodAssumption DEF Tick
<1>5. CASE FireSome
  <2> SUFFICES ASSUME NEW t \in Running(marker), Fire(t)
               PROVE  TypeOK'
    BY <1>5 DEF FireSome
  <2>1. t \in Interval
    BY DEF Running, Marker
  <2>2. Restarted(marker, t) \in Marker
    BY <2>1, RestartedType
  <2>3. Fired(t.run, marker.crowd) \in CrowdState
    BY <2>1, FiredType DEF Interval, Marker
  <2> QED
    BY <2>2, <2>3, SetStateType DEF Fire
<1>6. ASSUME NEW category \in Boxes, ToggleShow(category)
      PROVE  TypeOK'
  BY <1>6, RenderType, BoxesAssumption DEF ToggleShow
<1>7. CASE Rerender
  BY <1>7, RenderType DEF Rerender
<1>8. CASE Unmount
  <2>1. [ClearInterval(marker) EXCEPT !.mounted = FALSE] \in Marker
    BY ClearIntervalType DEF Marker
  <2> QED
    BY <1>8, <2>1 DEF Unmount
<1>9. CASE UNCHANGED vars
  BY <1>9 DEF vars
<1> QED
  BY <1>2, <1>3, <1>4, <1>5, <1>6, <1>7, <1>8, <1>9 DEF Next

\* The type invariant.
THEOREM Typing == Spec => []TypeOK
BY TypingInit, TypingStep, PTL DEF Spec

-----------------------------------------------------------------------------
(* What a handler leaves behind: of a mounted marker the render of a       *)
(* marker w that is known field by field, of another an unmounted one.     *)

\* What a new interval is.
LEMMA StartedIs ==
    ASSUME NEW run \in Callback
    PROVE  /\ Started(run) \in Interval
           /\ Started(run) # None
           /\ Started(run).run = run
           /\ Started(run).left = Period
BY PeriodAssumption, NoneAssumption DEF Started, Interval

\* What runs are intervals.
LEMMA RunningType ==
    ASSUME NEW m \in Marker
    PROVE  Running(m) \subseteq Interval
BY DEF Running, Marker

\* What clearInterval changes, and that only orphans run after it.
LEMMA ClearIntervalFrame ==
    ASSUME NEW m \in Marker
    PROVE  /\ ClearInterval(m).interval = None
           /\ ClearInterval(m).orphans = m.orphans
           /\ ClearInterval(m).crowd = m.crowd
           /\ ClearInterval(m).mounted = m.mounted
           /\ Running(ClearInterval(m)) = m.orphans
BY NoneAssumption DEF ClearInterval, Running, Marker

\* What setInterval changes: what ran is orphaned.
LEMMA SetIntervalFrame ==
    ASSUME NEW m \in Marker, NEW run \in Callback
    PROVE  /\ SetInterval(m, run).interval = Started(run)
           /\ SetInterval(m, run).orphans = Running(m)
           /\ SetInterval(m, run).crowd = m.crowd
           /\ SetInterval(m, run).mounted = m.mounted
BY DEF SetInterval, Marker

\* A render of a stopped crowd starts a removal interval, another one nothing.
LEMMA RenderShape ==
    ASSUME NEW m \in Marker
    PROVE  /\ Render(m).crowd = m.crowd
           /\ Render(m).mounted = m.mounted
           /\ m.crowd.status = "inActive" =>
                /\ Render(m).interval = Started("removeMarker")
                /\ Render(m).orphans = Running(m)
           /\ m.crowd.status # "inActive" => Render(m) = m
BY SetIntervalFrame DEF Render, Callback

\* What the status branch leaves.
LEMMA OnStatusShape ==
    ASSUME NEW m \in Marker, NEW v \in MarkerStatus
    PROVE  \E w \in Marker :
             /\ w.crowd = [m.crowd EXCEPT !.status = v]
             /\ w.mounted = m.mounted
             /\ w.orphans = m.orphans
             /\ w.interval = IF v = "inActive" THEN None ELSE Started("timer")
             /\ m.mounted => OnStatus(m, v) = Render(w)
             /\ ~m.mounted => ~OnStatus(m, v).mounted
<1> DEFINE k == IF v = "inActive" THEN ClearInterval(m)
                                  ELSE SetInterval(ClearInterval(m), "timer")
           c == [m.crowd EXCEPT !.status = v]
           w == [k EXCEPT !.crowd = c]
<1>1. /\ k \in Marker /\ k.mounted = m.mounted /\ k.orphans = m.orphans
      /\ k.interval = IF v = "inActive" THEN None ELSE Started("timer")
      /\ k.crowd = m.crowd
  BY ClearIntervalType, ClearIntervalFrame, SetIntervalType, SetIntervalFrame DEF Callback
<1>2. c \in CrowdState
  BY DEF Marker, CrowdState
<1>3. OnStatus(m, v) = IF k.mounted THEN Render(w) ELSE k
  BY <1>1 DEF OnStatus, SetState
<1> HIDE DEF k, c
<1>4. /\ w \in Marker /\ w.crowd = c /\ w.mounted = k.mounted
      /\ w.orphans = k.orphans /\ w.interval = k.interval
  BY <1>1, <1>2 DEF Marker
<1> HIDE DEF w
<1> QED
  BY <1>1, <1>3, <1>4 DEF c

\* What the branch of the location leaves.
LEMMA OnLocationShape ==
    ASSUME NEW m \in Marker, NEW v \in Places, m.crowd.location # Undefined
    PROVE  \E w \in Marker :
             /\ w.crowd = [m.crowd EXCEPT !.location = v, !.lost = FALSE, !.status = "Active"]
             /\ w.mounted = m.mounted
             /\ w.orphans = m.orphans
             /\ w.interval = Started("timer")
             /\ m.mounted => OnLocation(m, v) = w
             /\ ~m.mounted => ~OnLocation(m, v).mounted
<1> DEFINE k == SetInterval(ClearInterval(m), "timer")
           c == [m.crowd EXCEPT !.location = v, !.lost = FALSE, !.status = "Active"]
           w == [k EXCEPT !.crowd = c]
<1>1. /\ k \in Marker /\ k.mounted = m.mounted /\ k.orphans = m.orphans
      /\ k.interval = Started("timer") /\ k.crowd = m.crowd
  BY ZenonT(60), ClearIntervalType, ClearIntervalFrame, SetIntervalType, SetIntervalFrame DEF Callback
<1>2. c \in CrowdState /\ c.status # "inActive"
  BY DEF Marker, CrowdState, MarkerStatus, Status
<1>3. OnLocation(m, v) = IF k.mounted THEN Render(w) ELSE k
  BY <1>1 DEF OnLocation, SetState
<1> HIDE DEF k, c
<1>4. /\ w \in Marker /\ w.crowd = c /\ w.mounted = k.mounted
      /\ w.orphans = k.orphans /\ w.interval = k.interval
  BY <1>1, <1>2 DEF Marker
<1> HIDE DEF w
<1>5. Render(w) = w
  BY <1>2, <1>4, RenderShape
<1> QED
  BY <1>1, <1>3, <1>4, <1>5 DEF c

\* What the branch of the number of people leaves.
LEMMA OnNumberOfPeopleShape ==
    ASSUME NEW m \in Marker, NEW v \in Counts
    PROVE  \E w \in Marker :
             /\ w.crowd = [m.crowd EXCEPT !.numberOfPeople = v]
             /\ w.mounted = m.mounted
             /\ w.orphans = m.orphans
             /\ w.interval = m.interval
             /\ m.mounted => OnNumberOfPeople(m, v) = Render(w)
             /\ ~m.mounted => ~OnNumberOfPeople(m, v).mounted
<1> DEFINE c == [m.crowd EXCEPT !.numberOfPeople = v]
           w == [m EXCEPT !.crowd = c]
<1>1. c \in CrowdState
  BY DEF Marker, CrowdState
<1>2. OnNumberOfPeople(m, v) = IF m.mounted THEN Render(w) ELSE m
  BY DEF OnNumberOfPeople, SetState
<1> HIDE DEF c
<1>3. /\ w \in Marker /\ w.crowd = c /\ w.mounted = m.mounted
      /\ w.orphans = m.orphans /\ w.interval = m.interval
  BY <1>1 DEF Marker
<1> HIDE DEF w
<1> QED
  BY <1>2, <1>3 DEF c

\* What a callback leaves.
LEMMA FireShape ==
    ASSUME NEW m \in Marker, NEW t \in Running(m)
    PROVE  \E w \in Marker :
             /\ w.crowd = Fired(t.run, m.crowd)
             /\ w.mounted = m.mounted
             /\ w.orphans = {IF o = t THEN Started(t.run) ELSE o : o \in m.orphans}
             /\ w.interval = IF m.interval = t THEN Started(t.run) ELSE m.interval
             /\ m.mounted => SetState(Restarted(m, t), Fired(t.run, m.crowd)) = Render(w)
             /\ ~m.mounted => ~SetState(Restarted(m, t), Fired(t.run, m.crowd)).mounted
<1> DEFINE r == Restarted(m, t)
           c == Fired(t.run, m.crowd)
           w == [r EXCEPT !.crowd = c]
<1>1. t \in Interval
  BY RunningType
<1>2. r \in Marker /\ c \in CrowdState
  BY <1>1, RestartedType, FiredType DEF Interval, Marker
<1>3. /\ r.mounted = m.mounted
      /\ r.orphans = {IF o = t THEN Started(t.run) ELSE o : o \in m.orphans}
      /\ r.interval = IF m.interval = t THEN Started(t.run) ELSE m.interval
  BY DEF Restarted, Marker
<1>4. SetState(r, c) = IF r.mounted THEN Render(w) ELSE r
  BY DEF SetState
<1> HIDE DEF r, c
<1>5. /\ w \in Marker /\ w.crowd = c /\ w.mounted = r.mounted
      /\ w.orphans = r.orphans /\ w.interval = r.interval
  BY <1>2 DEF Marker
<1> HIDE DEF w
<1> QED
  BY <1>3, <1>4, <1>5 DEF r, c

\* The effect of a callback that is due.
LEMMA FireStep ==
    ASSUME TypeOK, NEW t \in Running(marker), Fire(t)
    PROVE  /\ t \in Interval
           /\ \E w \in Marker :
                /\ w.crowd = Fired(t.run, marker.crowd)
                /\ w.mounted = marker.mounted
                /\ w.orphans = {IF o = t THEN Started(t.run) ELSE o : o \in marker.orphans}
                /\ w.interval = IF marker.interval = t THEN Started(t.run) ELSE marker.interval
                /\ marker.mounted => marker' = Render(w)
                /\ ~marker.mounted => ~marker'.mounted
<1> DEFINE f == SetState(Restarted(marker, t), Fired(t.run, marker.crowd))
<1>1. marker \in Marker /\ t \in Interval
  BY RunningType DEF TypeOK
<1>2. \E w \in Marker :
         /\ w.crowd = Fired(t.run, marker.crowd)
         /\ w.mounted = marker.mounted
         /\ w.orphans = {IF o = t THEN Started(t.run) ELSE o : o \in marker.orphans}
         /\ w.interval = IF marker.interval = t THEN Started(t.run) ELSE marker.interval
         /\ marker.mounted => f = Render(w)
         /\ ~marker.mounted => ~f.mounted
  BY <1>1, FireShape
<1>3. marker' = f
  BY DEF Fire
<1> HIDE DEF f
<1> QED
  BY <1>1, <1>2, <1>3

\* What a tick leaves.
LEMMA TickShape ==
    ASSUME TypeOK, Tick
    PROVE  /\ marker'.crowd = marker.crowd
           /\ marker'.mounted = marker.mounted
           /\ marker'.orphans = {Elapsed(t) : t \in marker.orphans}
           /\ marker'.interval = IF marker.interval = None THEN None ELSE Elapsed(marker.interval)
           /\ \A t \in Running(marker) :
                /\ Elapsed(t) \in Interval /\ Elapsed(t) # None
                /\ Elapsed(t).run = t.run /\ Elapsed(t).left = t.left - 1
<1>1. marker \in Marker
  BY DEF TypeOK
<1>2. \A t \in Running(marker) : t \in Interval /\ t.left > 0
  BY <1>1, RunningType DEF Tick
<1>3. \A t \in Running(marker) :
        /\ Elapsed(t) \in Interval /\ Elapsed(t) # None
        /\ Elapsed(t).run = t.run /\ Elapsed(t).left = t.left - 1
  BY <1>2, PeriodAssumption, NoneAssumption DEF Elapsed, Interval
<1> QED
  BY <1>1, <1>3 DEF Tick, Marker

\* What the mounting leaves.
LEMMA MountedShape ==
    ASSUME NEW n \in Node
    PROVE  \E w \in Marker :
             /\ w.crowd.status = n.status
             /\ w.crowd.location = n.location
             /\ ~w.crowd.lost
             /\ w.interval = Started("timer")
             /\ w.orphans = {}
             /\ Mounted(n) = Render(Render(w))
<1> DEFINE m0 == [mounted  |-> TRUE,
                  crowd    |-> [status         |-> n.status,
                                lost           |-> FALSE,
                                location       |-> n.location,
                                numberOfPeople |-> n.numberOfPeople],
                  interval |-> Started("timer"),
                  orphans  |-> {}]
<1>1. m0 \in Marker
  BY StartedIs DEF Marker, CrowdState, MarkerStatus, Node, Callback
<1> QED
  BY <1>1 DEF Mounted

-----------------------------------------------------------------------------
(* Some interval runs out in time.                                         *)
(*                                                                         *)
(* Awaits(m, run, s): an interval of m will call run before the word that  *)
(* was s ticks ago is older than the period.                               *)

Awaits(m, run, s) == \E t \in Running(m) : t.run = run /\ t.left + s <= Period

Timely(m, s) ==
    m.mounted =>
      /\ m.crowd.status = "Active" /\ ~m.crowd.lost => Awaits(m, "timer", s)
      /\ m.crowd.status = "inActive" => Awaits(m, "removeMarker", s)

\* An interval that has just been started is in time.
LEMMA AwaitsZero ==
    ASSUME NEW m \in Marker, NEW run \in Callback, Started(run) \in Running(m)
    PROVE  Awaits(m, run, 0)
BY StartedIs, PeriodAssumption DEF Awaits

\* A render orphans what is awaited but does not stop it.
LEMMA RenderTimely ==
    ASSUME NEW m \in Marker, NEW s \in Nat, Timely(m, s)
    PROVE  Timely(Render(m), s)
<1>1. Running(m) \subseteq Running(Render(m))
  BY RenderShape DEF Running
<1> QED
  BY <1>1, RenderShape DEF Timely, Awaits

\* A stopped crowd is taken off by the interval its render starts.
LEMMA RenderTimelyZero ==
    ASSUME NEW m \in Marker,
           m.crowd.status # "inActive" => Started("timer") \in Running(m)
    PROVE  Timely(Render(m), 0)
<1>1. Render(m) \in Marker
  BY RenderType
<1>2. CASE m.crowd.status = "inActive"
  <2>1. Started("removeMarker") \in Running(Render(m))
    BY <1>2, RenderShape, StartedIs DEF Running, Callback
  <2> QED
    BY <1>1, <1>2, <2>1, RenderShape, AwaitsZero DEF Timely, Callback
<1>3. CASE m.crowd.status # "inActive"
  BY <1>1, <1>3, RenderShape, AwaitsZero DEF Timely, Callback
<1> QED
  BY <1>2, <1>3

\* Right after a word whatever runs is in time.
LEMMA TimelyZero ==
    ASSUME NEW m \in Marker, NEW s \in Nat, Timely(m, s)
    PROVE  Timely(m, 0)
<1>1. \A run \in Callback : Awaits(m, run, s) => Awaits(m, run, 0)
  BY RunningType, PeriodAssumption DEF Awaits, Interval
<1> QED
  BY <1>1 DEF Timely, Callback

\* A number of people stops no interval.
LEMMA OnNumberOfPeopleTimely ==
    ASSUME NEW m \in Marker, NEW v \in Counts, NEW s \in Nat, Timely(m, s)
    PROVE  Timely(OnNumberOfPeople(m, v), s)
<1>1. PICK w \in Marker :
             /\ w.crowd = [m.crowd EXCEPT !.numberOfPeople = v]
             /\ w.mounted = m.mounted
             /\ w.orphans = m.orphans
             /\ w.interval = m.interval
             /\ m.mounted => OnNumberOfPeople(m, v) = Render(w)
             /\ ~m.mounted => ~OnNumberOfPeople(m, v).mounted
  BY OnNumberOfPeopleShape
<1>2. w.crowd.status = m.crowd.status /\ w.crowd.lost = m.crowd.lost
  BY <1>1 DEF Marker, CrowdState
<1>3. Timely(w, s)
  BY <1>1, <1>2 DEF Timely, Awaits, Running
<1> QED
  BY ZenonT(60), <1>1, <1>3, RenderTimely DEF Timely

\* A status that is not inActive starts a timer, inActive a removal by the render.
LEMMA OnStatusTimely ==
    ASSUME NEW m \in Marker, NEW v \in MarkerStatus
    PROVE  Timely(OnStatus(m, v), 0)
<1>1. PICK w \in Marker :
             /\ w.crowd = [m.crowd EXCEPT !.status = v]
             /\ w.mounted = m.mounted
             /\ w.orphans = m.orphans
             /\ w.interval = IF v = "inActive" THEN None ELSE Started("timer")
             /\ m.mounted => OnStatus(m, v) = Render(w)
             /\ ~m.mounted => ~OnStatus(m, v).mounted
  BY OnStatusShape
<1>2. w.crowd.status = v
  BY <1>1 DEF Marker, CrowdState
<1>3. v # "inActive" => Started("timer") \in Running(w)
  BY <1>1, StartedIs DEF Running, Callback
<1> QED
  BY <1>1, <1>2, <1>3, RenderTimelyZero DEF Timely

\* A location starts a timer.
LEMMA OnLocationTimely ==
    ASSUME NEW m \in Marker, NEW v \in Places, Timely(m, 0)
    PROVE  Timely(OnLocation(m, v), 0)
<1>1. CASE m.crowd.location = Undefined
  BY <1>1 DEF OnLocation
<1>2. CASE m.crowd.location # Undefined
  <2>1. PICK w \in Marker :
             /\ w.crowd = [m.crowd EXCEPT !.location = v, !.lost = FALSE, !.status = "Active"]
             /\ w.mounted = m.mounted
             /\ w.orphans = m.orphans
             /\ w.interval = Started("timer")
             /\ m.mounted => OnLocation(m, v) = w
             /\ ~m.mounted => ~OnLocation(m, v).mounted
    BY <1>2, OnLocationShape
  <2>2. w.crowd.status = "Active" /\ Started("timer") \in Running(w)
    BY <2>1, StartedIs DEF Marker, CrowdState, Running, Callback
  <2>3. Timely(w, 0)
    BY <2>2, AwaitsZero DEF Timely, Callback
  <2> QED
    BY <2>1, <2>3 DEF Timely
<1> QED
  BY <1>1, <1>2

\* So the event of one child leaves what runs in time,
LEMMA NotifyTimely ==
    ASSUME NEW m \in Marker, NEW old \in Node, NEW new \in Node,
           NEW child \in {"campaign_id", "location", "numberOfPeople", "status"},
           Timely(m, 0)
    PROVE  Timely(Notify(m, old, new, child), 0)
<1>1. CASE ~ChildChanged(old, new, child)
  BY <1>1 DEF Notify
<1>2. CASE ChildChanged(old, new, child)
  <2>1. Notify(m, old, new, child) = OnChildChanged(m, new[child])
    BY <1>2 DEF Notify
  <2>2. new[child] \in Campaigns \cup Places \cup {Nowhere} \cup Counts \cup Status
    BY <1>2 DEF ChildChanged, Node
  <2>3. CASE new[child] \in Campaigns \cup Status \cup {Nowhere}
    BY <2>1, <2>3, DispatchWord, OnStatusTimely DEF MarkerStatus
  <2>4. CASE new[child] \in Counts
    BY <2>1, <2>4, DispatchCount, OnNumberOfPeopleTimely
  <2>5. CASE new[child] \in Places
    BY <2>1, <2>5, DispatchPlace, OnLocationTimely
  <2> QED
    BY <2>2, <2>3, <2>4, <2>5
<1> QED
  BY <1>1, <1>2

\* and so do all the events of one update,
LEMMA NotifiedTimely ==
    ASSUME NEW m \in Marker, NEW old \in Node, NEW new \in Node, Timely(m, 0)
    PROVE  Timely(Notified(m, old, new), 0)
<1> DEFINE m1 == Notify(m, old, new, "campaign_id")
           m2 == Notify(m1, old, new, "location")
           m3 == Notify(m2, old, new, "numberOfPeople")
<1>1. m1 \in Marker /\ Timely(m1, 0)
  BY NotifyType, NotifyTimely
<1>2. m2 \in Marker /\ Timely(m2, 0)
  BY <1>1, NotifyType, NotifyTimely
<1>3. m3 \in Marker /\ Timely(m3, 0)
  BY <1>2, NotifyType, NotifyTimely
<1>4. Timely(Notify(m3, old, new, "status"), 0)
  BY <1>3, NotifyTimely
<1> QED
  BY <1>4 DEF Notified

\* An update that changes the head count at most leaves the age of the last
\* word as it is.
LEMMA CountTimely ==
    ASSUME NEW m \in Marker, NEW old \in Node, NEW new \in Node,
           NEW s \in Nat, Timely(m, s),
           \A child \in {"campaign_id", "location", "status"} : ~ChildChanged(old, new, child)
    PROVE  Timely(Notified(m, old, new), s)
<1>1. Notified(m, old, new) = Notify(m, old, new, "numberOfPeople")
  BY DEF Notified, Notify
<1>2. CASE ~ChildChanged(old, new, "numberOfPeople")
  BY <1>1, <1>2 DEF Notify
<1>3. CASE ChildChanged(old, new, "numberOfPeople")
  <2>1. new.numberOfPeople \in Counts
    BY <1>3 DEF ChildChanged, Node
  <2> QED
    BY <1>1, <1>3, <2>1, DispatchCount, OnNumberOfPeopleTimely DEF Notify
<1> QED
  BY <1>2, <1>3

\* and the mounting,
LEMMA MountedIsTimely ==
    ASSUME NEW n \in Node
    PROVE  Timely(Mounted(n), 0)
<1>1. PICK w \in Marker :
             /\ w.crowd.status = n.status
             /\ w.crowd.location = n.location
             /\ ~w.crowd.lost
             /\ w.interval = Started("timer")
             /\ w.orphans = {}
             /\ Mounted(n) = Render(Render(w))
  BY MountedShape
<1>2. Started("timer") \in Running(w)
  BY <1>1, StartedIs DEF Running, Callback
<1> QED
  BY <1>1, <1>2, RenderType, RenderTimelyZero, RenderTimely

TimelyInv == TypeOK /\ Timely(marker, sinceWord)

\* and an update, whether or not it is a word of the dispatcher,
LEMMA TimelyUpdate ==
    ASSUME TypeOK, Timely(marker, sinceWord),
           NEW new \in Node, Update(new)
    PROVE  Timely(marker', sinceWord')
<1>1. marker \in Marker /\ node \in Node /\ sinceWord \in Nat
  BY PeriodAssumption DEF TypeOK
<1>2. CASE \E child \in {"campaign_id", "location", "status"} : ChildChanged(node, new, child)
  BY <1>1, <1>2, TimelyZero, NotifiedTimely DEF Update
<1>3. CASE ~\E child \in {"campaign_id", "location", "status"} : ChildChanged(node, new, child)
  BY <1>1, <1>3, CountTimely DEF Update
<1> QED
  BY <1>2, <1>3

\* and a tick, which waits for what is due,
LEMMA TimelyTick ==
    ASSUME TypeOK, Timely(marker, sinceWord), Tick
    PROVE  Timely(marker', sinceWord')
<1>1. marker \in Marker /\ sinceWord \in Nat /\ sinceWord' \in Nat /\ sinceWord' <= sinceWord + 1
  BY PeriodAssumption DEF TypeOK, Tick
<1>2. \A t \in Running(marker) : Elapsed(t) \in Running(marker')
  BY TickShape DEF Running
<1>3. ASSUME NEW run \in Callback, Awaits(marker, run, sinceWord)
      PROVE  Awaits(marker', run, sinceWord')
  <2>1. PICK t \in Running(marker) : t.run = run /\ t.left + sinceWord <= Period
    BY <1>3 DEF Awaits
  <2>2. t.left \in Nat
    BY <1>1, RunningType DEF Interval
  <2>3. Elapsed(t).run = run /\ Elapsed(t).left + sinceWord' <= Period
    BY <1>1, <2>1, <2>2, TickShape, PeriodAssumption
  <2> QED
    BY <1>2, <2>3 DEF Awaits
<1> QED
  BY <1>3, TickShape DEF Timely, Callback

\* and a callback, after which the crowd is lost or taken off.
LEMMA TimelyFire ==
    ASSUME TypeOK, Timely(marker, sinceWord), NEW t \in Running(marker), Fire(t)
    PROVE  Timely(marker', sinceWord')
<1>0. marker \in Marker /\ sinceWord \in Nat /\ sinceWord' = sinceWord
  BY PeriodAssumption DEF TypeOK, Fire
<1>1. PICK w \in Marker :
             /\ t \in Interval
             /\ w.crowd = Fired(t.run, marker.crowd)
             /\ w.mounted = marker.mounted
             /\ w.orphans = {IF o = t THEN Started(t.run) ELSE o : o \in marker.orphans}
             /\ w.interval = IF marker.interval = t THEN Started(t.run) ELSE marker.interval
             /\ marker.mounted => marker' = Render(w)
             /\ ~marker.mounted => ~marker'.mounted
  BY FireStep
<1>2. /\ t.run = "timer" => w.crowd.lost /\ w.crowd.status = marker.crowd.status
      /\ t.run # "timer" => w.crowd.status = "Terminated"
  BY <1>0, <1>1 DEF Fired, Marker, CrowdState
<1>3. \A o \in Running(marker) : o # t => o \in Running(w)
  BY <1>1 DEF Running
<1>4. Awaits(marker, "removeMarker", sinceWord) /\ t.run = "timer"
        => Awaits(w, "removeMarker", sinceWord)
  BY <1>3 DEF Awaits
<1>5. Timely(w, sinceWord)
  BY <1>1, <1>2, <1>4 DEF Timely
<1> QED
  BY <1>0, <1>1, <1>5, RenderTimely DEF Timely

\* What an active or a stopped marker needs is always being timed.
LEMMA TimelyInvariance == Spec => []TimelyInv
<1>1. Init => TimelyInv
  <2> SUFFICES ASSUME Init PROVE Timely(marker, sinceWord)
    BY TypingInit DEF TimelyInv
  <2> QED
    BY TypingInit, MountedIsTimely DEF Init, TypeOK
<1>2. TimelyInv /\ [Next]_vars => TimelyInv'
  <2> SUFFICES ASSUME TimelyInv, [Next]_vars
               PROVE  Timely(marker', sinceWord')
    BY TypingStep DEF TimelyInv
  <2>0. TypeOK /\ Timely(marker, sinceWord) /\ marker \in Marker /\ sinceWord \in Nat
    BY PeriodAssumption DEF TimelyInv, TypeOK
  <2>1. CASE TafweejUpdate
    BY <2>0, <2>1, UpdateType, TimelyUpdate DEF TafweejUpdate, TypeOK
  <2>2. CASE HajjAppUpdate
    BY <2>0, <2>2, UpdateType, TimelyUpdate DEF HajjAppUpdate, TypeOK
  <2>3. CASE Tick
    BY <2>0, <2>3, TimelyTick
  <2>4. CASE FireSome
    BY <2>0, <2>4, TimelyFire DEF FireSome
  <2>5. ASSUME NEW category \in Boxes, ToggleShow(category)
        PROVE  Timely(marker', sinceWord')
    BY <2>0, <2>5, RenderTimely DEF ToggleShow
  <2>6. CASE Rerender
    BY <2>0, <2>6, RenderTimely DEF Rerender
  <2>7. CASE Unmount
    BY <2>0, <2>7, ClearIntervalType DEF Unmount, Timely, Marker
  <2>8. CASE UNCHANGED vars
    BY <2>0, <2>8 DEF vars
  <2> QED
    BY <2>1, <2>2, <2>3, <2>4, <2>5, <2>6, <2>7, <2>8 DEF Next
<1> QED
  BY <1>1, <1>2, PTL DEF Spec

\* A dispatcher that has been silent for longer than the period is marked lost
\* (the timer of MyMarker.js:22-26).
THEOREM SilentIsLostAlways == Spec => []SilentIsLost
<1>1. TimelyInv => SilentIsLost
  BY RunningType, PeriodAssumption DEF TimelyInv, TypeOK, Timely, Awaits, SilentIsLost, Interval
<1> QED
  BY <1>1, TimelyInvariance, PTL

\* A stopped dispatcher is off the map within a period of its last word
\* (removeMarker, MyMarker.js:28-32, and the intervals render starts).
THEOREM StoppedIsRemovedAlways == Spec => []StoppedIsRemoved
<1>1. TimelyInv => StoppedIsRemoved
  BY RunningType, PeriodAssumption DEF TimelyInv, TypeOK, Timely, Awaits, StoppedIsRemoved, Interval
<1> QED
  BY <1>1, TimelyInvariance, PTL

-----------------------------------------------------------------------------
(* Nobody is lost too early.                                               *)
(*                                                                         *)
(* Prompt(m, f): while no lost-timer of m is orphaned, the current one is  *)
(* not due before a period has passed since the location that came in f    *)
(* ticks ago.                                                              *)

NoStray(m) == \A t \in m.orphans : t.run # "timer"

Prompt(m, f) ==
    m.mounted /\ m.crowd.location # Undefined /\ NoStray(m) =>
      /\ m.crowd.lost => f >= Period
      /\ m.interval # None /\ m.interval.run = "timer" => m.interval.left + f >= Period

\* A render starts no lost-timer.
LEMMA RenderPrompt ==
    ASSUME NEW m \in Marker, NEW f \in Nat, Prompt(m, f)
    PROVE  Prompt(Render(m), f)
<1>1. CASE m.crowd.status = "inActive"
  <2>1. m.orphans \subseteq Running(m) /\ (m.interval # None => m.interval \in Running(m))
    BY DEF Running
  <2> QED
    BY <1>1, <2>1, RenderShape, StartedIs DEF Prompt, NoStray, Callback
<1>2. CASE m.crowd.status # "inActive"
  BY <1>2, RenderShape
<1> QED
  BY <1>1, <1>2

\* A status starts the lost-timer anew.
LEMMA OnStatusPrompt ==
    ASSUME NEW m \in Marker, NEW v \in MarkerStatus, NEW f \in Nat, Prompt(m, f)
    PROVE  Prompt(OnStatus(m, v), f)
<1>1. PICK w \in Marker :
             /\ w.crowd = [m.crowd EXCEPT !.status = v]
             /\ w.mounted = m.mounted
             /\ w.orphans = m.orphans
             /\ w.interval = IF v = "inActive" THEN None ELSE Started("timer")
             /\ m.mounted => OnStatus(m, v) = Render(w)
             /\ ~m.mounted => ~OnStatus(m, v).mounted
  BY OnStatusShape
<1>2. w.crowd.location = m.crowd.location /\ w.crowd.lost = m.crowd.lost
  BY <1>1 DEF Marker, CrowdState
<1>3. Prompt(w, f)
  BY <1>1, <1>2, StartedIs, PeriodAssumption DEF Prompt, NoStray, Callback
<1> QED
  BY <1>1, <1>3, RenderPrompt DEF Prompt

\* A number of people leaves it alone.
LEMMA OnNumberOfPeoplePrompt ==
    ASSUME NEW m \in Marker, NEW v \in Counts, NEW f \in Nat, Prompt(m, f)
    PROVE  Prompt(OnNumberOfPeople(m, v), f)
<1>1. PICK w \in Marker :
             /\ w.crowd = [m.crowd EXCEPT !.numberOfPeople = v]
             /\ w.mounted = m.mounted
             /\ w.orphans = m.orphans
             /\ w.interval = m.interval
             /\ m.mounted => OnNumberOfPeople(m, v) = Render(w)
             /\ ~m.mounted => ~OnNumberOfPeople(m, v).mounted
  BY OnNumberOfPeopleShape
<1>2. w.crowd.location = m.crowd.location /\ w.crowd.lost = m.crowd.lost
  BY <1>1 DEF Marker, CrowdState
<1>3. Prompt(w, f)
  BY <1>1, <1>2 DEF Prompt, NoStray
<1> QED
  BY <1>1, <1>3, RenderPrompt DEF Prompt

\* A location is a new start, whatever was before.
LEMMA OnLocationPrompt ==
    ASSUME NEW m \in Marker, NEW v \in Places
    PROVE  Prompt(OnLocation(m, v), 0)
<1>1. CASE m.crowd.location = Undefined
  BY <1>1 DEF OnLocation, Prompt
<1>2. CASE m.crowd.location # Undefined
  <2>1. PICK w \in Marker :
             /\ w.crowd = [m.crowd EXCEPT !.location = v, !.lost = FALSE, !.status = "Active"]
             /\ w.mounted = m.mounted
             /\ w.orphans = m.orphans
             /\ w.interval = Started("timer")
             /\ m.mounted => OnLocation(m, v) = w
             /\ ~m.mounted => ~OnLocation(m, v).mounted
    BY <1>2, OnLocationShape
  <2>2. ~w.crowd.lost
    BY <2>1 DEF Marker, CrowdState
  <2>3. w.interval.left + 0 >= Period
    BY <2>1, StartedIs, PeriodAssumption DEF Callback
  <2>4. Prompt(w, 0)
    BY <2>2, <2>3 DEF Prompt
  <2> QED
    BY <2>1, <2>4 DEF Prompt
<1> QED
  BY <1>1, <1>2

\* Only a location other than <<0, 0>> is a fix.
LEMMA NotifyPrompt ==
    ASSUME NEW m \in Marker, NEW old \in Node, NEW new \in Node,
           NEW child \in {"campaign_id", "location", "numberOfPeople", "status"},
           NEW f \in Nat, Prompt(m, f),
           ~(ChildChanged(old, new, child) /\ new[child] \in Places)
    PROVE  Prompt(Notify(m, old, new, child), f)
<1>1. CASE ~ChildChanged(old, new, child)
  BY <1>1 DEF Notify
<1>2. CASE ChildChanged(old, new, child)
  <2>1. Notify(m, old, new, child) = OnChildChanged(m, new[child])
    BY <1>2 DEF Notify
  <2>2. new[child] \in Campaigns \cup {Nowhere} \cup Counts \cup Status
    BY <1>2 DEF ChildChanged, Node
  <2>3. CASE new[child] \in Campaigns \cup Status \cup {Nowhere}
    BY <2>1, <2>3, DispatchWord, OnStatusPrompt DEF MarkerStatus
  <2>4. CASE new[child] \in Counts
    BY <2>1, <2>4, DispatchCount, OnNumberOfPeoplePrompt
  <2> QED
    BY <2>2, <2>3, <2>4
<1> QED
  BY <1>1, <1>2

\* An update leaves the lost-timer no younger than the last fix,
LEMMA PromptUpdate ==
    ASSUME TypeOK, Prompt(marker, sinceFix), NEW new \in Node, Update(new)
    PROVE  Prompt(marker', sinceFix')
<1> DEFINE m1 == Notify(marker, node, new, "campaign_id")
           m2 == Notify(m1, node, new, "location")
           m3 == Notify(m2, node, new, "numberOfPeople")
           m4 == Notify(m3, node, new, "status")
<1>0. /\ marker \in Marker /\ node \in Node /\ sinceFix \in Nat /\ sinceFix' \in Nat
      /\ marker' = m4
  BY PeriodAssumption DEF TypeOK, Update, Notified
<1>1. \A child \in {"campaign_id", "numberOfPeople", "status"} :
        ~(ChildChanged(node, new, child) /\ new[child] \in Places)
  BY CrowdValues DEF ChildChanged, Node, Status
<1>2. m1 \in Marker /\ Prompt(m1, sinceFix)
  BY <1>0, <1>1, NotifyType, NotifyPrompt
<1> HIDE DEF m1
<1>3. m2 \in Marker
  BY <1>0, <1>2, NotifyType
<1>4. Prompt(m2, sinceFix')
  <2>1. CASE ChildChanged(node, new, "location") /\ new.location \in Places
    BY <1>2, <2>1, DispatchPlace, OnLocationPrompt DEF Notify, Update
  <2>2. CASE ~(ChildChanged(node, new, "location") /\ new.location \in Places)
    BY <1>0, <1>2, <2>2, NotifyPrompt DEF Update
  <2> QED
    BY <2>1, <2>2
<1> HIDE DEF m2
<1>5. m3 \in Marker /\ Prompt(m3, sinceFix')
  BY <1>0, <1>1, <1>3, <1>4, NotifyType, NotifyPrompt
<1> HIDE DEF m3
<1>6. Prompt(m4, sinceFix')
  BY <1>0, <1>1, <1>5, NotifyPrompt
<1> QED
  BY <1>0, <1>6

\* and a tick ages both,
LEMMA PromptTick ==
    ASSUME TypeOK, Prompt(marker, sinceFix), Tick
    PROVE  Prompt(marker', sinceFix')
<1>1. /\ sinceFix \in 0..(Period + 1) /\ marker \in Marker
      /\ sinceFix' = IF sinceFix > Period THEN sinceFix ELSE sinceFix + 1
  BY DEF TypeOK, Tick
<1>2. NoStray(marker') => NoStray(marker)
  BY TickShape DEF NoStray, Running
<1>3. marker.interval # None =>
        /\ marker.interval \in Interval
        /\ marker'.interval.run = marker.interval.run
        /\ marker'.interval.left = marker.interval.left - 1
        /\ marker.interval.left > 0
  BY <1>1, TickShape DEF Running, Marker, Tick
<1>4. marker'.interval # None => marker.interval # None
  BY TickShape
<1>5. sinceFix >= Period => sinceFix' >= Period
  BY <1>1, PeriodAssumption
<1>6. ASSUME marker.interval # None, marker.interval.left + sinceFix >= Period
      PROVE  marker'.interval.left + sinceFix' >= Period
  <2>1. marker.interval.left \in Nat
    BY <1>3, <1>6 DEF Interval
  <2> QED
    BY <1>1, <1>3, <1>6, <2>1, PeriodAssumption
<1>7. marker'.crowd = marker.crowd /\ marker'.mounted = marker.mounted
  BY TickShape
<1> QED
  BY <1>2, <1>3, <1>4, <1>5, <1>6, <1>7 DEF Prompt

\* and a callback that is due comes a period after the last fix.
LEMMA PromptFire ==
    ASSUME TypeOK, Prompt(marker, sinceFix), NEW t \in Running(marker), Fire(t)
    PROVE  Prompt(marker', sinceFix')
<1>0. /\ marker \in Marker /\ sinceFix \in Nat /\ sinceFix' = sinceFix
      /\ t \in Interval /\ t.left = 0
      /\ marker' = SetState(Restarted(marker, t), Fired(t.run, marker.crowd))
  BY PeriodAssumption, RunningType DEF TypeOK, Fire
<1>1. PICK w \in Marker :
             /\ t \in Interval
             /\ w.crowd = Fired(t.run, marker.crowd)
             /\ w.mounted = marker.mounted
             /\ w.orphans = {IF o = t THEN Started(t.run) ELSE o : o \in marker.orphans}
             /\ w.interval = IF marker.interval = t THEN Started(t.run) ELSE marker.interval
             /\ marker.mounted => marker' = Render(w)
             /\ ~marker.mounted => ~marker'.mounted
  BY FireStep
<1>2. /\ w.crowd.location = marker.crowd.location
      /\ t.run # "timer" => w.crowd.lost = marker.crowd.lost
  BY <1>0, <1>1 DEF Fired, Marker, CrowdState
<1>3. Started(t.run) \in Interval /\ Started(t.run).run = t.run /\ Started(t.run).left = Period
  BY <1>0, StartedIs DEF Interval
<1>4. NoStray(w) => NoStray(marker)
  BY <1>1, <1>3 DEF NoStray
<1>5. Prompt(w, sinceFix)
  <2> SUFFICES ASSUME w.mounted, w.crowd.location # Undefined, NoStray(w)
               PROVE  /\ w.crowd.lost => sinceFix >= Period
                      /\ w.interval # None /\ w.interval.run = "timer"
                           => w.interval.left + sinceFix >= Period
    BY DEF Prompt
  <2>1. /\ marker.crowd.lost => sinceFix >= Period
        /\ marker.interval # None /\ marker.interval.run = "timer"
             => marker.interval.left + sinceFix >= Period
    BY <1>1, <1>2, <1>4 DEF Prompt
  <2>2. t.run = "timer" => marker.interval = t
    BY <1>4 DEF NoStray, Running
  <2>3. t.run = "timer" => sinceFix >= Period
    BY <1>0, <2>1, <2>2, NoneAssumption, PeriodAssumption
  <2> QED
    BY <1>0, <1>1, <1>2, <1>3, <2>1, <2>3, PeriodAssumption
<1> QED
  BY <1>0, <1>1, <1>5, RenderPrompt DEF Prompt

PromptInv == TypeOK /\ Prompt(marker, sinceFix)

\* Without an orphaned timer, lost means silent for a period.
LEMMA PromptInvariance == Spec => []PromptInv
<1>1. Init => PromptInv
  <2> SUFFICES ASSUME Init PROVE Prompt(marker, 0)
    BY TypingInit DEF PromptInv, Init
  <2>1. PICK w \in Marker :
             /\ w.crowd.status = node.status
             /\ w.crowd.location = node.location
             /\ ~w.crowd.lost
             /\ w.interval = Started("timer")
             /\ w.orphans = {}
             /\ marker = Render(Render(w))
    BY TypingInit, MountedShape DEF Init, TypeOK
  <2>2. Prompt(w, 0)
    <3>1. w.interval.left + 0 >= Period
      BY <2>1, StartedIs, PeriodAssumption DEF Callback
    <3> QED
      BY <2>1, <3>1 DEF Prompt
  <2> QED
    BY <2>1, <2>2, RenderType, RenderPrompt
<1>2. PromptInv /\ [Next]_vars => PromptInv'
  <2> SUFFICES ASSUME PromptInv, [Next]_vars
               PROVE  Prompt(marker', sinceFix')
    BY TypingStep DEF PromptInv
  <2>0. TypeOK /\ Prompt(marker, sinceFix) /\ marker \in Marker /\ sinceFix \in Nat
    BY PeriodAssumption DEF PromptInv, TypeOK
  <2>1. CASE TafweejUpdate
    BY <2>0, <2>1, UpdateType, PromptUpdate DEF TafweejUpdate, TypeOK
  <2>2. CASE HajjAppUpdate
    BY <2>0, <2>2, UpdateType, PromptUpdate DEF HajjAppUpdate, TypeOK
  <2>3. CASE Tick
    BY <2>0, <2>3, PromptTick
  <2>4. CASE FireSome
    BY <2>0, <2>4, PromptFire DEF FireSome
  <2>5. ASSUME NEW category \in Boxes, ToggleShow(category)
        PROVE  Prompt(marker', sinceFix')
    BY <2>0, <2>5, RenderPrompt DEF ToggleShow
  <2>6. CASE Rerender
    BY <2>0, <2>6, RenderPrompt DEF Rerender
  <2>7. CASE Unmount
    BY <2>0, <2>7, ClearIntervalType DEF Unmount, Prompt, Marker
  <2>8. CASE UNCHANGED vars
    BY <2>0, <2>8 DEF vars
  <2> QED
    BY <2>1, <2>2, <2>3, <2>4, <2>5, <2>6, <2>7, <2>8 DEF Next
<1> QED
  BY <1>1, <1>2, PTL DEF Spec

\* Unless a lost-timer was orphaned, a dispatcher painted red has been silent
\* for a period (MyMarker.js:58-62 restarts the timer at every location).
THEOREM LostMeansSilentAlways == Spec => []LostMeansSilent
<1>1. PromptInv => LostMeansSilent
  BY DEF PromptInv, Prompt, NoStray, LostMeansSilent, Red, OnMap, Hidden
<1> QED
  BY <1>1, PromptInvariance, PTL

-----------------------------------------------------------------------------
(* Nobody is taken off who has not stopped.                                *)
(*                                                                         *)
(* Honest(m, st): where m shows a stopped crowd, or will take it off by    *)
(* the only interval it has, st is the status of a stopped crowd.          *)

Honest(m, st) ==
    m.mounted =>
      /\ m.crowd.status = "inActive" => st = "inActive"
      /\ m.orphans = {} =>
           /\ m.crowd.status = "Terminated" => st = "inActive"
           /\ m.interval # None /\ m.interval.run = "removeMarker" => st = "inActive"

\* A render does not change what is taken off.
LEMMA RenderHonest ==
    ASSUME NEW m \in Marker, NEW st, Honest(m, st)
    PROVE  Honest(Render(m), st)
BY RenderShape DEF Honest

\* Every status is a new start.
LEMMA OnStatusHonest ==
    ASSUME NEW m \in Marker, NEW v \in MarkerStatus, v # "Terminated",
           NEW st, v = "inActive" => st = "inActive"
    PROVE  Honest(OnStatus(m, v), st)
<1>1. PICK w \in Marker :
             /\ w.crowd = [m.crowd EXCEPT !.status = v]
             /\ w.mounted = m.mounted
             /\ w.orphans = m.orphans
             /\ w.interval = IF v = "inActive" THEN None ELSE Started("timer")
             /\ m.mounted => OnStatus(m, v) = Render(w)
             /\ ~m.mounted => ~OnStatus(m, v).mounted
  BY OnStatusShape
<1>2. w.crowd.status = v
  BY <1>1 DEF Marker, CrowdState
<1>3. Honest(w, st)
  BY <1>1, <1>2, StartedIs DEF Honest, Callback
<1> QED
  BY <1>1, <1>3, RenderHonest DEF Honest

\* A number of people does not, either.
LEMMA OnNumberOfPeopleHonest ==
    ASSUME NEW m \in Marker, NEW v \in Counts, NEW st, Honest(m, st)
    PROVE  Honest(OnNumberOfPeople(m, v), st)
<1>1. PICK w \in Marker :
             /\ w.crowd = [m.crowd EXCEPT !.numberOfPeople = v]
             /\ w.mounted = m.mounted
             /\ w.orphans = m.orphans
             /\ w.interval = m.interval
             /\ m.mounted => OnNumberOfPeople(m, v) = Render(w)
             /\ ~m.mounted => ~OnNumberOfPeople(m, v).mounted
  BY OnNumberOfPeopleShape
<1>2. w.crowd.status = m.crowd.status
  BY <1>1 DEF Marker, CrowdState
<1>3. Honest(w, st)
  BY <1>1, <1>2 DEF Honest
<1> QED
  BY <1>1, <1>3, RenderHonest DEF Honest

\* A location puts the marker back.
LEMMA OnLocationHonest ==
    ASSUME NEW m \in Marker, NEW v \in Places, NEW st, Honest(m, st)
    PROVE  Honest(OnLocation(m, v), st)
<1>1. CASE m.crowd.location = Undefined
  BY <1>1 DEF OnLocation
<1>2. CASE m.crowd.location # Undefined
  <2>1. PICK w \in Marker :
             /\ w.crowd = [m.crowd EXCEPT !.location = v, !.lost = FALSE, !.status = "Active"]
             /\ w.mounted = m.mounted
             /\ w.orphans = m.orphans
             /\ w.interval = Started("timer")
             /\ m.mounted => OnLocation(m, v) = w
             /\ ~m.mounted => ~OnLocation(m, v).mounted
    BY <1>2, OnLocationShape
  <2>2. w.crowd.status = "Active"
    BY <2>1 DEF Marker, CrowdState
  <2>3. Honest(w, st)
    BY <2>1, <2>2, StartedIs DEF Honest, Callback
  <2> QED
    BY <2>1, <2>3 DEF Honest
<1> QED
  BY <1>1, <1>2

\* So the event of one child leaves the removal honest,
LEMMA NotifyHonest ==
    ASSUME NEW m \in Marker, NEW old \in Node, NEW new \in Node,
           NEW child \in {"campaign_id", "location", "numberOfPeople"},
           NEW st, Honest(m, st)
    PROVE  Honest(Notify(m, old, new, child), st)
<1>1. CASE ~ChildChanged(old, new, child)
  BY <1>1 DEF Notify
<1>2. CASE ChildChanged(old, new, child)
  <2>1. Notify(m, old, new, child) = OnChildChanged(m, new[child])
    BY <1>2 DEF Notify
  <2>2. new[child] \in Campaigns \cup Places \cup {Nowhere} \cup Counts
    BY <1>2 DEF ChildChanged, Node
  <2>3. CASE new[child] \in Campaigns \cup {Nowhere}
    <3>1. new[child] # "Terminated" /\ new[child] # "inActive" /\ new[child] \in MarkerStatus
      BY <2>3, CrowdValues DEF MarkerStatus, Status
    <3> QED
      BY <2>1, <2>3, <3>1, DispatchWord, OnStatusHonest
  <2>4. CASE new[child] \in Counts
    BY <2>1, <2>4, DispatchCount, OnNumberOfPeopleHonest
  <2>5. CASE new[child] \in Places
    BY <2>1, <2>5, DispatchPlace, OnLocationHonest
  <2> QED
    BY <2>2, <2>3, <2>4, <2>5
<1> QED
  BY <1>1, <1>2

\* and an update,
LEMMA HonestUpdate ==
    ASSUME TypeOK, Honest(marker, node.status), NEW new \in Node,
           node.status # Undefined => new.status # Undefined, Update(new)
    PROVE  Honest(marker', node'.status)
<1> DEFINE m1 == Notify(marker, node, new, "campaign_id")
           m2 == Notify(m1, node, new, "location")
           m3 == Notify(m2, node, new, "numberOfPeople")
           m4 == Notify(m3, node, new, "status")
<1>0. marker \in Marker /\ node \in Node /\ marker' = m4 /\ node' = new
  BY DEF TypeOK, Update, Notified
<1>1. m1 \in Marker /\ Honest(m1, node.status)
  BY <1>0, NotifyType, NotifyHonest
<1> HIDE DEF m1
<1>2. m2 \in Marker /\ Honest(m2, node.status)
  BY <1>0, <1>1, NotifyType, NotifyHonest
<1> HIDE DEF m2
<1>3. m3 \in Marker /\ Honest(m3, node.status)
  BY <1>0, <1>2, NotifyType, NotifyHonest
<1> HIDE DEF m3
<1>4. CASE ChildChanged(node, new, "status")
  <2>1. new.status \in Status
    BY <1>4 DEF ChildChanged, Node
  <2>2. m4 = OnStatus(m3, new.status)
    BY <1>4, <2>1, DispatchWord DEF Notify
  <2> QED
    BY <1>0, <1>3, <2>1, <2>2, OnStatusHonest DEF MarkerStatus, Status
<1>5. CASE ~ChildChanged(node, new, "status")
  <2>1. m4 = m3
    BY <1>5 DEF Notify
  <2>2. node.status = "inActive" => new.status = "inActive"
    BY <1>0, <1>5, CrowdValues DEF ChildChanged, Status
  <2> QED
    BY <1>0, <1>3, <2>1, <2>2 DEF Honest
<1> QED
  BY <1>4, <1>5

\* and a tick,
LEMMA HonestTick ==
    ASSUME TypeOK, Honest(marker, node.status), Tick
    PROVE  Honest(marker', node'.status)
<1>1. marker'.orphans = {} => marker.orphans = {}
  BY TickShape
<1>2. marker'.interval # None => marker.interval # None /\ marker'.interval.run = marker.interval.run
  BY TickShape DEF Running
<1>3. node' = node
  BY DEF Tick
<1> QED
  BY <1>1, <1>2, <1>3, TickShape DEF Honest

\* and a callback: without orphans, only the removal of a stopped crowd is due.
LEMMA HonestFire ==
    ASSUME TypeOK, Honest(marker, node.status), NEW t \in Running(marker), Fire(t)
    PROVE  Honest(marker', node'.status)
<1>0. marker \in Marker /\ t \in Interval /\ node' = node
  BY RunningType DEF TypeOK, Fire
<1>1. PICK w \in Marker :
             /\ t \in Interval
             /\ w.crowd = Fired(t.run, marker.crowd)
             /\ w.mounted = marker.mounted
             /\ w.orphans = {IF o = t THEN Started(t.run) ELSE o : o \in marker.orphans}
             /\ w.interval = IF marker.interval = t THEN Started(t.run) ELSE marker.interval
             /\ marker.mounted => marker' = Render(w)
             /\ ~marker.mounted => ~marker'.mounted
  BY FireStep
<1>2. w.crowd.status = IF t.run = "timer" THEN marker.crowd.status ELSE "Terminated"
  BY <1>0, <1>1 DEF Fired, Marker, CrowdState
<1>3. Started(t.run).run = t.run
  BY <1>0, StartedIs DEF Interval
<1>4. w.orphans = {} => marker.orphans = {}
  BY <1>1
<1>5. marker.orphans = {} => marker.interval = t
  BY DEF Running
<1>6. t # None /\ (t.run = "timer" \/ t.run = "removeMarker")
  BY <1>0, NoneAssumption DEF Interval, Callback
<1>7. Honest(w, node.status)
  BY <1>1, <1>2, <1>3, <1>4, <1>5, <1>6 DEF Honest
<1> QED
  BY <1>0, <1>1, <1>7, RenderHonest DEF Honest

HonestInv == TypeOK /\ Honest(marker, node.status)

\* Without orphans, a marker that is taken off is that of a stopped dispatcher.
LEMMA HonestInvariance == Spec => []HonestInv
<1>1. Init => HonestInv
  <2> SUFFICES ASSUME Init PROVE Honest(marker, node.status)
    BY TypingInit DEF HonestInv
  <2>0. node \in Node
    BY TypingInit DEF TypeOK
  <2>1. PICK w \in Marker :
             /\ w.crowd.status = node.status
             /\ w.crowd.location = node.location
             /\ ~w.crowd.lost
             /\ w.interval = Started("timer")
             /\ w.orphans = {}
             /\ marker = Render(Render(w))
    BY <2>0, MountedShape DEF Init
  <2>2. node.status # "Terminated"
    BY <2>0, CrowdValues DEF Node, Status
  <2>3. Honest(w, node.status)
    BY <2>1, <2>2, StartedIs DEF Honest, Callback
  <2> QED
    BY <2>1, <2>3, RenderType, RenderHonest
<1>2. HonestInv /\ [Next]_vars => HonestInv'
  <2> SUFFICES ASSUME HonestInv, [Next]_vars
               PROVE  Honest(marker', node'.status)
    BY TypingStep DEF HonestInv
  <2>0. TypeOK /\ Honest(marker, node.status) /\ marker \in Marker
    BY DEF HonestInv, TypeOK
  <2>1. CASE TafweejUpdate
    BY <2>0, <2>1, UpdateType, HonestUpdate DEF TafweejUpdate, TypeOK
  <2>2. CASE HajjAppUpdate
    BY <2>0, <2>2, UpdateType, HonestUpdate DEF HajjAppUpdate, TypeOK
  <2>3. CASE Tick
    BY <2>0, <2>3, HonestTick
  <2>4. CASE FireSome
    BY <2>0, <2>4, HonestFire DEF FireSome
  <2>5. ASSUME NEW category \in Boxes, ToggleShow(category)
        PROVE  Honest(marker', node'.status)
    BY <2>0, <2>5, RenderHonest DEF ToggleShow
  <2>6. CASE Rerender
    BY <2>0, <2>6, RenderHonest DEF Rerender
  <2>7. CASE Unmount
    BY <2>0, <2>7, ClearIntervalType DEF Unmount, Honest, Marker
  <2>8. CASE UNCHANGED vars
    BY <2>0, <2>8 DEF vars
  <2> QED
    BY <2>1, <2>2, <2>3, <2>4, <2>5, <2>6, <2>7, <2>8 DEF Next
<1> QED
  BY <1>1, <1>2, PTL DEF Spec

\* While nothing is orphaned, a marker that was taken off is that of a stopped
\* dispatcher (removeMarker, MyMarker.js:28-32).
THEOREM TerminatedIsStoppedAlways == Spec => []TerminatedIsStopped
<1>1. HonestInv => TerminatedIsStopped
  BY DEF HonestInv, Honest, TerminatedIsStopped
<1> QED
  BY <1>1, HonestInvariance, PTL

-----------------------------------------------------------------------------
(* The marker of an iOS dispatcher is where the database says.             *)

Follows(m, place) ==
    m.mounted /\ m.crowd.location # Undefined => m.crowd.location = place

\* A status does not move the marker.
LEMMA OnStatusFollows ==
    ASSUME NEW m \in Marker, NEW v \in MarkerStatus, NEW place, Follows(m, place)
    PROVE  Follows(OnStatus(m, v), place)
<1>1. PICK w \in Marker :
             /\ w.crowd = [m.crowd EXCEPT !.status = v]
             /\ w.mounted = m.mounted
             /\ w.orphans = m.orphans
             /\ w.interval = IF v = "inActive" THEN None ELSE Started("timer")
             /\ m.mounted => OnStatus(m, v) = Render(w)
             /\ ~m.mounted => ~OnStatus(m, v).mounted
  BY OnStatusShape
<1>2. w.crowd.location = m.crowd.location
  BY <1>1 DEF Marker, CrowdState
<1> QED
  BY <1>1, <1>2, RenderShape DEF Follows

\* A number of people does not, either.
LEMMA OnNumberOfPeopleFollows ==
    ASSUME NEW m \in Marker, NEW v \in Counts, NEW place, Follows(m, place)
    PROVE  Follows(OnNumberOfPeople(m, v), place)
<1>1. PICK w \in Marker :
             /\ w.crowd = [m.crowd EXCEPT !.numberOfPeople = v]
             /\ w.mounted = m.mounted
             /\ w.orphans = m.orphans
             /\ w.interval = m.interval
             /\ m.mounted => OnNumberOfPeople(m, v) = Render(w)
             /\ ~m.mounted => ~OnNumberOfPeople(m, v).mounted
  BY OnNumberOfPeopleShape
<1>2. w.crowd.location = m.crowd.location
  BY <1>1 DEF Marker, CrowdState
<1> QED
  BY <1>1, <1>2, RenderShape DEF Follows

\* A location moves it there.
LEMMA OnLocationFollows ==
    ASSUME NEW m \in Marker, NEW v \in Places
    PROVE  Follows(OnLocation(m, v), v)
<1>1. CASE m.crowd.location = Undefined
  BY <1>1 DEF OnLocation, Follows
<1>2. CASE m.crowd.location # Undefined
  <2>1. PICK w \in Marker :
             /\ w.crowd = [m.crowd EXCEPT !.location = v, !.lost = FALSE, !.status = "Active"]
             /\ w.mounted = m.mounted
             /\ w.orphans = m.orphans
             /\ w.interval = Started("timer")
             /\ m.mounted => OnLocation(m, v) = w
             /\ ~m.mounted => ~OnLocation(m, v).mounted
    BY <1>2, OnLocationShape
  <2>2. w.crowd.location = v
    BY <2>1 DEF Marker, CrowdState
  <2> QED
    BY <2>1, <2>2 DEF Follows
<1> QED
  BY <1>1, <1>2

\* An update of the iOS app leaves the marker where the database says.
LEMMA FollowsUpdate ==
    ASSUME TypeOK, Follows(marker, node.location), NEW new \in HajjAppWrites(node),
           new \in Node, Update(new)
    PROVE  Follows(marker', node'.location)
<1>0. marker \in Marker /\ node \in Node /\ node' = new /\ marker' = Notified(marker, node, new)
  BY DEF TypeOK, Update
<1>1. CASE \E p \in Places : new = [node EXCEPT !.location = p]
  <2>1. PICK p \in Places : new = [node EXCEPT !.location = p]
    BY <1>1
  <2>2. /\ \A child \in {"campaign_id", "numberOfPeople", "status"} : new[child] = node[child]
        /\ new["location"] = p
    BY <1>0, <2>1 DEF Node
  <2>3. Notified(marker, node, new) = Notify(marker, node, new, "location")
    BY <2>2 DEF Notified, Notify, ChildChanged
  <2>4. CASE ChildChanged(node, new, "location")
    BY <1>0, <2>2, <2>3, <2>4, DispatchPlace, OnLocationFollows DEF Notify
  <2>5. CASE ~ChildChanged(node, new, "location")
    <3>1. node.location = Undefined \/ node.location = new.location
      BY <2>2, <2>5, CrowdValues DEF ChildChanged
    <3>2. marker' = marker
      BY <1>0, <2>3, <2>5 DEF Notify
    <3> QED
      BY <1>0, <3>1, <3>2 DEF Follows
  <2> QED
    BY <2>4, <2>5
<1>2. CASE \E n \in Counts : new = [node EXCEPT !.numberOfPeople = n]
  <2>1. PICK n \in Counts : new = [node EXCEPT !.numberOfPeople = n]
    BY <1>2
  <2>2. /\ \A child \in {"campaign_id", "location", "status"} : new[child] = node[child]
        /\ new["numberOfPeople"] = n
    BY <1>0, <2>1 DEF Node
  <2>3. Notified(marker, node, new) = Notify(marker, node, new, "numberOfPeople")
    BY <2>2 DEF Notified, Notify, ChildChanged
  <2> QED
    BY <1>0, <2>2, <2>3, DispatchCount, OnNumberOfPeopleFollows DEF Notify
<1>3. CASE \E s \in {"Active", "inActive"} : new = [node EXCEPT !.status = s]
  <2>1. PICK s \in {"Active", "inActive"} : new = [node EXCEPT !.status = s]
    BY <1>3
  <2>2. /\ \A child \in {"campaign_id", "location", "numberOfPeople"} : new[child] = node[child]
        /\ new["status"] = s
    BY <1>0, <2>1 DEF Node
  <2>3. Notified(marker, node, new) = Notify(marker, node, new, "status")
    BY <2>2 DEF Notified, Notify, ChildChanged
  <2> QED
    BY <1>0, <2>1, <2>2, <2>3, DispatchWord, OnStatusFollows DEF Notify, Status, MarkerStatus
<1> QED
  BY <1>1, <1>2, <1>3 DEF HajjAppWrites

FollowsInv == TypeOK /\ (app = "hajjApp" => Follows(marker, node.location))

\* The marker of an iOS dispatcher that had a location when it was mounted is
\* where the database says (MyMarker.js:62 keeps each location, and no other
\* handler loses it).
THEOREM MarkerFollowsPhoneAlways == Spec => []MarkerFollowsPhone
<1>1. Init => FollowsInv
  <2> SUFFICES ASSUME Init PROVE Follows(marker, node.location)
    BY TypingInit DEF FollowsInv
  <2>0. node \in Node
    BY TypingInit DEF TypeOK
  <2>1. PICK w \in Marker :
             /\ w.crowd.status = node.status
             /\ w.crowd.location = node.location
             /\ ~w.crowd.lost
             /\ w.interval = Started("timer")
             /\ w.orphans = {}
             /\ marker = Render(Render(w))
    BY <2>0, MountedShape DEF Init
  <2> QED
    BY <2>1, RenderType, RenderShape DEF Follows
<1>2. FollowsInv /\ [Next]_vars => FollowsInv'
  <2>a. ASSUME [Next]_vars PROVE app' = app
    BY <2>a DEF Next, vars, TafweejUpdate, HajjAppUpdate, Update, Tick, FireSome, Fire,
                ToggleShow, Rerender, Unmount
  <2> SUFFICES ASSUME FollowsInv, [Next]_vars, app = "hajjApp"
               PROVE  Follows(marker', node'.location)
    BY <2>a, TypingStep DEF FollowsInv
  <2>0. TypeOK /\ Follows(marker, node.location) /\ marker \in Marker
    BY DEF FollowsInv, TypeOK
  <2>1. CASE TafweejUpdate
    BY <2>1 DEF TafweejUpdate
  <2>2. CASE HajjAppUpdate
    BY <2>0, <2>2, UpdateType, FollowsUpdate DEF HajjAppUpdate, TypeOK
  <2>3. CASE Tick
    BY <2>0, <2>3, TickShape DEF Tick, Follows
  <2>4. CASE FireSome
    <3> SUFFICES ASSUME NEW t \in Running(marker), Fire(t)
                 PROVE  Follows(marker', node'.location)
      BY <2>4 DEF FireSome
    <3>1. PICK w \in Marker :
             /\ t \in Interval
             /\ w.crowd = Fired(t.run, marker.crowd)
             /\ w.mounted = marker.mounted
             /\ w.orphans = {IF o = t THEN Started(t.run) ELSE o : o \in marker.orphans}
             /\ w.interval = IF marker.interval = t THEN Started(t.run) ELSE marker.interval
             /\ marker.mounted => marker' = Render(w)
             /\ ~marker.mounted => ~marker'.mounted
      BY ZenonT(60), <2>0, FireStep
    <3>2. w.crowd.location = marker.crowd.location
      BY <2>0, <3>1 DEF Fired, Marker, CrowdState
    <3> QED
      BY <2>0, <3>1, <3>2, RenderShape DEF Follows, Fire
  <2>5. ASSUME NEW category \in Boxes, ToggleShow(category)
        PROVE  Follows(marker', node'.location)
    BY <2>0, <2>5, RenderShape DEF ToggleShow, Follows
  <2>6. CASE Rerender
    BY <2>0, <2>6, RenderShape DEF Rerender, Follows
  <2>7. CASE Unmount
    BY <2>0, <2>7, ClearIntervalType DEF Unmount, Follows, Marker
  <2>8. CASE UNCHANGED vars
    BY <2>0, <2>8 DEF vars
  <2> QED
    BY <2>1, <2>2, <2>3, <2>4, <2>5, <2>6, <2>7, <2>8 DEF Next
<1>3. FollowsInv => MarkerFollowsPhone
  BY DEF FollowsInv, Follows, MarkerFollowsPhone
<1> QED
  BY <1>1, <1>2, <1>3, PTL DEF Spec
=============================================================================
