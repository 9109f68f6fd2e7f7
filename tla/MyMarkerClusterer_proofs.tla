---------------------- MODULE MyMarkerClusterer_proofs ----------------------
(***************************************************************************)
(* The list of markers for any number of crowds and of removals: how far   *)
(* the markers can be off, and that the list is a roster.                  *)
(***************************************************************************)
EXTENDS MyMarkerClusterer, FiniteSetTheorems, TLAPS

\* No crowd is listed twice, and there is a marker for every position.
Listed ==
    /\ \A i, j \in DOMAIN crowds : crowds[i] = crowds[j] => i = j
    /\ Len(markers) = Len(crowds)

IInv == TypeOK /\ Listed /\ UntouchedPrefix /\ LossIsBounded

-----------------------------------------------------------------------------
\* Without its element at i a sequence is what was before i, then what was behind.
LEMMA RemoveAtElements ==
    ASSUME NEW S, NEW s \in Seq(S), NEW i \in 1 .. Len(s)
    PROVE  /\ RemoveAt(s, i) \in Seq(S)
           /\ Len(RemoveAt(s, i)) = Len(s) - 1
           /\ \A j \in 1 .. Len(s) - 1 :
                 RemoveAt(s, i)[j] = IF j < i THEN s[j] ELSE s[j + 1]
  <1> DEFINE a == SubSeq(s, 1, i - 1)
             b == SubSeq(s, i + 1, Len(s))
  <1>1. /\ a \in Seq(S) /\ Len(a) = i - 1
        /\ \A j \in 1 .. i - 1 : a[j] = s[j]
    OBVIOUS
  <1>2. /\ b \in Seq(S) /\ Len(b) = Len(s) - i
        /\ \A j \in 1 .. Len(s) - i : b[j] = s[i + j]
    OBVIOUS
  <1>3. RemoveAt(s, i) = a \o b
    BY DEF RemoveAt
  <1> HIDE DEF a, b
  <1>4. a \o b \in Seq(S) /\ Len(a \o b) = Len(s) - 1
    <2>1. a \o b \in Seq(S) /\ Len(a \o b) = Len(a) + Len(b)
      <3>1. \A x, y \in Seq(S) : x \o y \in Seq(S) /\ Len(x \o y) = Len(x) + Len(y)
        OBVIOUS
      <3> QED BY <1>1, <1>2, <3>1
    <2>2. i \in Nat /\ Len(s) \in Nat
      OBVIOUS
    <2>3. (i - 1) + (Len(s) - i) = Len(s) - 1
      BY <2>2
    <2> QED BY <1>1, <1>2, <2>1, <2>3
  <1>5. ASSUME NEW j \in 1 .. Len(s) - 1
        PROVE  (a \o b)[j] = IF j < i THEN s[j] ELSE s[j + 1]
    <2>1. CASE j < i
      BY <2>1, <1>1, <1>2
    <2>2. CASE ~ (j < i)
      <3>1. j - (i - 1) \in 1 .. Len(s) - i /\ (a \o b)[j] = b[j - (i - 1)]
        BY <2>2, <1>1, <1>2
      <3>2. i + (j - (i - 1)) = j + 1
        OBVIOUS
      <3> QED BY <2>2, <3>1, <3>2, <1>2
    <2> QED BY <2>1, <2>2
  <1> QED BY <1>3, <1>4, <1>5

\* The last marker goes, the others keep their positions.
LEMMA FrontElements ==
    ASSUME NEW S, NEW s \in Seq(S), Len(s) > 0
    PROVE  /\ Front(s) \in Seq(S) /\ Len(Front(s)) = Len(s) - 1
           /\ \A j \in 1 .. Len(s) - 1 : Front(s)[j] = s[j]
  <1>1. Len(s) - 1 \in 0 .. Len(s)
    OBVIOUS
  <1>2. \A m \in 0 .. Len(s) :
            /\ SubSeq(s, 1, m) \in Seq(S) /\ Len(SubSeq(s, 1, m)) = m
            /\ \A j \in 1 .. m : SubSeq(s, 1, m)[j] = s[j]
    OBVIOUS
  <1> QED BY <1>1, <1>2 DEF Front

\* What is listed is among the ids, and finite as they are.
LEMMA RangeFinite ==
    ASSUME NEW s \in Seq(Ids)
    PROVE  /\ Range(s) = {s[i] : i \in 1 .. Len(s)}
           /\ Range(s) \in SUBSET Ids /\ IsFiniteSet(Range(s))
  <1>1. Range(s) = {s[i] : i \in 1 .. Len(s)} /\ Range(s) \in SUBSET Ids
    BY DEF Range
  <1> QED BY <1>1, FS_Subset, IdsAssumption

\* A child that is removed leaves the list, and one marker at most goes that
\* was somebody's.
LEMMA RemovalEffect ==
    ASSUME IInv, NEW id \in Gone, ChildRemoved(id)
    PROVE  /\ crowds' \in Seq(Ids) /\ markers' \in Seq(Ids) /\ gap' \in Nat
           /\ Listed' /\ UntouchedPrefix'
           /\ Range(crowds') = Range(crowds) \ {id}
           /\ \E x \in Ids : Range(markers) \subseteq Range(markers') \cup {x}
  <1>1. PICK i \in DOMAIN crowds :
          /\ crowds[i] = id
          /\ crowds' = RemoveAt(crowds, i)
          /\ gap' = IF i < gap THEN i ELSE gap
    BY DEF ChildRemoved
  <1>2. /\ crowds \in Seq(Ids) /\ markers \in Seq(Ids) /\ gap \in Nat
        /\ Len(markers) = Len(crowds) /\ i \in 1 .. Len(crowds) /\ Len(markers) > 0
    BY DEF IInv, TypeOK, Listed
  <1> DEFINE n == Len(crowds)
  <1>3. /\ crowds' \in Seq(Ids) /\ Len(crowds') = n - 1
        /\ \A j \in 1 .. n - 1 : crowds'[j] = IF j < i THEN crowds[j] ELSE crowds[j + 1]
    BY <1>1, <1>2, RemoveAtElements
  <1>4. /\ markers' \in Seq(Ids) /\ Len(markers') = n - 1
        /\ \A j \in 1 .. n - 1 : markers'[j] = markers[j]
    BY <1>2, FrontElements DEF ChildRemoved
  <1>5. /\ n \in Nat /\ DOMAIN crowds = 1 .. n /\ DOMAIN crowds' = 1 .. n - 1
    BY <1>2, <1>3
  <1>6. Listed'
    <2> SUFFICES ASSUME NEW j \in 1 .. n - 1, NEW k \in 1 .. n - 1, crowds'[j] = crowds'[k]
                 PROVE  j = k
      BY <1>3, <1>4, <1>5 DEF Listed
    <2> DEFINE was(l) == IF l < i THEN l ELSE l + 1
    <2>1. was(j) \in 1 .. n /\ was(k) \in 1 .. n
      BY <1>2, <1>5
    <2>2. crowds[was(j)] = crowds[was(k)]
      BY <1>3
    <2>3. was(j) = was(k)
      BY <1>5, <2>1, <2>2 DEF IInv, Listed
    <2> QED BY <1>2, <2>3
  <1>7. UntouchedPrefix'
    <2> SUFFICES ASSUME NEW j \in 1 .. n - 1, j < gap' PROVE markers'[j] = crowds'[j]
      BY <1>5 DEF UntouchedPrefix
    <2>1. j < i /\ j < gap /\ j \in 1 .. n
      BY <1>1, <1>2, <1>5
    <2>2. markers[j] = crowds[j]
      BY <2>1, <1>5 DEF IInv, UntouchedPrefix
    <2> QED BY <2>1, <2>2, <1>3, <1>4
  <1>8. Range(crowds') = Range(crowds) \ {id}
    <2>1. /\ Range(crowds) = {crowds[j] : j \in 1 .. n}
          /\ Range(crowds') = {crowds'[j] : j \in 1 .. n - 1}
      BY <1>2, <1>3, RangeFinite
    <2>2. \A j \in 1 .. n - 1 : \E k \in 1 .. n \ {i} : crowds'[j] = crowds[k]
      BY <1>2, <1>3, <1>5
    <2>3. \A k \in 1 .. n \ {i} : \E j \in 1 .. n - 1 : crowds'[j] = crowds[k]
      <3> SUFFICES ASSUME NEW k \in 1 .. n \ {i}
                   PROVE  \E j \in 1 .. n - 1 : crowds'[j] = crowds[k]
        OBVIOUS
      <3>1. CASE k < i
        BY <3>1, <1>2, <1>3, <1>5
      <3>2. CASE k > i
        <4>1. k - 1 \in 1 .. n - 1 /\ ~ (k - 1 < i) /\ (k - 1) + 1 = k
          BY <3>2, <1>2, <1>5
        <4> QED BY <4>1, <1>3
      <3> QED BY <3>1, <3>2, <1>2, <1>5
    <2>4. \A k \in 1 .. n : crowds[k] = id <=> k = i
      BY <1>1, <1>5 DEF IInv, Listed
    <2> HIDE DEF n
    <2> QED BY <2>1, <2>2, <2>3, <2>4
  <1>9. Range(markers) \subseteq Range(markers') \cup {markers[n]}
    <2>1. /\ Range(markers) = {markers[j] : j \in 1 .. n}
          /\ Range(markers') = {markers'[j] : j \in 1 .. n - 1}
      BY <1>2, <1>4, RangeFinite
    <2> HIDE DEF n
    <2>2. \A j \in 1 .. n : j = n \/ j \in 1 .. n - 1
      BY <1>5
    <2> QED BY <2>1, <2>2, <1>4
  <1>10. markers[n] \in Ids /\ gap' \in Nat
    BY <1>1, <1>2, <1>5
  <1> QED BY <1>3, <1>4, <1>6, <1>7, <1>8, <1>9, <1>10

\* A child that is added comes with its marker.
LEMMA AdditionEffect ==
    ASSUME IInv, NEW id \in Fresh, ChildAdded(id)
    PROVE  /\ crowds' \in Seq(Ids) /\ markers' \in Seq(Ids)
           /\ Listed' /\ UntouchedPrefix'
           /\ Range(crowds') = Range(crowds) \cup {id}
           /\ Range(markers') = Range(markers) \cup {id}
  <1> DEFINE n == Len(crowds)
  <1>1. /\ crowds \in Seq(Ids) /\ markers \in Seq(Ids) /\ gap \in Nat
        /\ Len(markers) = n /\ n \in Nat /\ DOMAIN crowds = 1 .. n
    BY DEF IInv, TypeOK, Listed
  <1>2. id \in Ids /\ id \notin Range(crowds)
    BY DEF Fresh, IInv, TypeOK
  <1>3. /\ crowds' \in Seq(Ids) /\ Len(crowds') = n + 1 /\ DOMAIN crowds' = 1 .. n + 1
        /\ \A j \in 1 .. n + 1 : crowds'[j] = IF j = n + 1 THEN id ELSE crowds[j]
    BY <1>1, <1>2 DEF ChildAdded
  <1>4. /\ markers' \in Seq(Ids) /\ Len(markers') = n + 1
        /\ \A j \in 1 .. n + 1 : markers'[j] = IF j = n + 1 THEN id ELSE markers[j]
    BY <1>1, <1>2 DEF ChildAdded
  <1>5. /\ Range(crowds) = {crowds[j] : j \in 1 .. n}
        /\ Range(markers) = {markers[j] : j \in 1 .. n}
        /\ Range(crowds') = {crowds'[j] : j \in 1 .. n + 1}
        /\ Range(markers') = {markers'[j] : j \in 1 .. n + 1}
    BY <1>1, <1>3, <1>4, RangeFinite
  <1>6. \A j \in 1 .. n : crowds[j] # id
    BY <1>2, <1>5
  <1>7. /\ n + 1 \in 1 .. n + 1 /\ 1 .. n \subseteq 1 .. n + 1
        /\ \A j \in 1 .. n + 1 : j = n + 1 \/ j \in 1 .. n
        /\ n + 1 \notin 1 .. n
    BY <1>1
  <1>8. UNCHANGED gap
    BY DEF ChildAdded
  <1> HIDE DEF n
  <1>9. Listed'
    BY <1>1, <1>3, <1>4, <1>6, <1>7 DEF IInv, Listed
  <1>10. UntouchedPrefix'
    BY <1>1, <1>3, <1>4, <1>7, <1>8 DEF IInv, UntouchedPrefix
  <1>11. /\ Range(crowds') = Range(crowds) \cup {id}
         /\ Range(markers') = Range(markers) \cup {id}
    BY <1>3, <1>4, <1>5, <1>7
  <1> QED BY <1>3, <1>4, <1>9, <1>10, <1>11

-----------------------------------------------------------------------------
LEMMA IInit == Init => IInv
  <1> SUFFICES ASSUME Init PROVE IInv
    OBVIOUS
  <1>1. NoGap \in Nat
    BY IdsAssumption, FS_CardinalityType DEF NoGap
  <1>2. crowds \in Seq(Ids) /\ markers \in Seq(Ids) /\ DOMAIN crowds = {}
    BY DEF Init
  <1>5. TypeOK
    BY <1>1, <1>2 DEF Init, TypeOK
  <1>6. Listed /\ UntouchedPrefix
    BY <1>2 DEF Init, Listed, UntouchedPrefix
  <1>3. Range(crowds) \ Range(markers) = {}
    BY DEF Init
  <1>4. LossIsBounded
    BY <1>3, FS_EmptySet DEF Init, LossIsBounded
  <1> QED BY <1>4, <1>5, <1>6 DEF IInv

LEMMA INext == IInv /\ [Next]_vars => IInv'
  <1> SUFFICES ASSUME IInv, [Next]_vars PROVE IInv'
    OBVIOUS
  <1> DEFINE lost == Range(crowds) \ Range(markers)
  <1>1. IsFiniteSet(lost) /\ Cardinality(lost) \in Nat /\ Cardinality(lost) =< removals
        /\ removals \in Nat
    BY RangeFinite, FS_Subset, FS_CardinalityType DEF IInv, TypeOK, LossIsBounded
  <1>2. ASSUME UNCHANGED <<crowds, markers, gap, removals>>, db' \in SUBSET Ids,
               listening' \in BOOLEAN
        PROVE  IInv'
    BY <1>2 DEF IInv, TypeOK, Listed, UntouchedPrefix, LossIsBounded
  <1>3. ASSUME NEW new \in SUBSET Ids, Sync(new) PROVE IInv'
    BY <1>2, <1>3 DEF Sync, IInv, TypeOK
  <1>4. CASE Listen
    BY <1>2, <1>4 DEF Listen, IInv, TypeOK
  <1>5. ASSUME NEW id \in Gone, ChildRemoved(id) PROVE IInv'
    <2>1. PICK x \in Ids : Range(markers) \subseteq Range(markers') \cup {x}
      BY <1>5, RemovalEffect
    <2>2. Range(crowds') = Range(crowds) \ {id}
      BY <1>5, RemovalEffect
    <2>3. Range(crowds') \ Range(markers') \subseteq lost \cup {x}
      BY <2>1, <2>2
    <2>4. /\ IsFiniteSet(lost \cup {x})
          /\ Cardinality(lost \cup {x}) =< Cardinality(lost) + 1
      <3>1. lost \cup {x} = lost \/ x \notin lost
        OBVIOUS
      <3> HIDE DEF lost
      <3>2. CASE lost \cup {x} = lost
        <4>1. Cardinality(lost \cup {x}) = Cardinality(lost)
          BY <3>2
        <4> QED BY <1>1, <3>2, <4>1
      <3>3. CASE x \notin lost
        <4>1. /\ IsFiniteSet(lost \cup {x})
              /\ Cardinality(lost \cup {x}) = Cardinality(lost) + 1
          BY <1>1, <3>3, FS_AddElement
        <4> QED BY <1>1, <4>1
      <3> QED BY <3>1, <3>2, <3>3
    <2>5. /\ Cardinality(Range(crowds') \ Range(markers')) =< Cardinality(lost \cup {x})
          /\ Cardinality(Range(crowds') \ Range(markers')) \in Nat
          /\ Cardinality(lost \cup {x}) \in Nat
      BY <2>3, <2>4, FS_Subset, FS_CardinalityType
    <2>6. removals' = removals + 1 /\ db' = db /\ listening' = listening
      BY <1>5 DEF ChildRemoved
    <2>7. LossIsBounded'
      BY <1>1, <2>4, <2>5, <2>6 DEF LossIsBounded
    <2>8. TypeOK'
      BY <1>1, <1>5, <2>6, RemovalEffect DEF IInv, TypeOK
    <2> QED BY <1>5, <2>7, <2>8, RemovalEffect DEF IInv
  <1>6. ASSUME NEW id \in Fresh, ChildAdded(id) PROVE IInv'
    <2>1. Range(crowds') \ Range(markers') \subseteq lost
      BY <1>6, AdditionEffect
    <2>2. UNCHANGED <<db, listening, gap, removals>>
      BY <1>6 DEF ChildAdded
    <2>3. /\ Cardinality(Range(crowds') \ Range(markers')) =< Cardinality(lost)
          /\ Cardinality(Range(crowds') \ Range(markers')) \in Nat
      BY <1>1, <2>1, FS_Subset, FS_CardinalityType
    <2>4. LossIsBounded'
      BY <1>1, <2>2, <2>3 DEF LossIsBounded
    <2>5. TypeOK'
      BY <1>6, <2>2, AdditionEffect DEF IInv, TypeOK
    <2> QED BY <1>6, <2>4, <2>5, AdditionEffect DEF IInv
  <1>7. CASE UNCHANGED vars
    BY <1>2, <1>7 DEF vars, IInv, TypeOK
  <1> QED BY <1>3, <1>4, <1>5, <1>6, <1>7 DEF Next, Raise

\* The list, the markers and what is counted have their types.
THEOREM Typing == Spec => []TypeOK
  <1>1. IInv => TypeOK
    BY DEF IInv
  <1> QED BY <1>1, IInit, INext, PTL DEF Spec

\* The markers before the lowest position a crowd was ever removed from are
\* those of the crowds that are listed there.
THEOREM PrefixIsUntouched == Spec => []UntouchedPrefix
  <1>1. IInv => UntouchedPrefix
    BY DEF IInv
  <1> QED BY <1>1, IInit, INext, PTL DEF Spec

\* A removal costs one crowd its marker, at most: the list and the markers do not
\* drift further apart than that.
THEOREM LossStaysBounded == Spec => []LossIsBounded
  <1>1. IInv => LossIsBounded
    BY DEF IInv
  <1> QED BY <1>1, IInit, INext, PTL DEF Spec

-----------------------------------------------------------------------------
\* The list of crowds does what the roster promises, step by step: crowds
\* come and go one at a time, because the database has them or no longer has them
\* (MyMarkerClusterer.js:28-42).
THEOREM ListIsRoster == Spec => R!Init /\ [][R!Next]_R!vars
  <1>1. Init => R!Init
    BY DEF Init, R!Init, Range
  <1>2. IInv /\ [Next]_vars => [R!Next]_R!vars
    <2> SUFFICES ASSUME IInv, [Next]_vars PROVE [R!Next]_R!vars
      OBVIOUS
    <2>1. ASSUME NEW new \in SUBSET Ids, Sync(new) PROVE R!Change
      BY <2>1 DEF Sync, R!Change
    <2>2. CASE Listen
      BY <2>2 DEF Listen, R!vars
    <2>3. ASSUME NEW id \in Gone, ChildRemoved(id) PROVE R!CatchUp
      <3>1. Range(crowds') = Range(crowds) \ {id}
        BY <2>3, RemovalEffect
      <3>2. id \in Ids
        BY RangeFinite DEF Gone, IInv, TypeOK
      <3>3. R!Hide(id)
        BY <2>3, <3>1 DEF R!Hide, ChildRemoved, Gone
      <3> QED BY <3>2, <3>3 DEF R!CatchUp
    <2>4. ASSUME NEW id \in Fresh, ChildAdded(id) PROVE R!CatchUp
      <3>1. Range(crowds') = Range(crowds) \cup {id}
        BY <2>4, AdditionEffect
      <3>2. id \in Ids /\ id \in db \ Range(crowds)
        BY DEF Fresh, IInv, TypeOK
      <3>3. R!Show(id)
        BY <2>4, <3>1, <3>2 DEF R!Show, ChildAdded
      <3> QED BY <3>2, <3>3 DEF R!CatchUp
    <2>5. CASE UNCHANGED vars
      BY <2>5 DEF vars, R!vars
    <2> QED BY <2>1, <2>2, <2>3, <2>4, <2>5 DEF Next, Raise, R!Next
  <1> QED BY <1>1, <1>2, IInit, INext, PTL DEF Spec
=============================================================================
