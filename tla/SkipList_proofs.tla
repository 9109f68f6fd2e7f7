--------------------------- MODULE SkipList_proofs ---------------------------
(* Theorems about SkipList, for any number of keys, levels and readers.      *)
EXTENDS SkipList, TLAPS

\* p is the last node before key k at level l, and k is not published there.
IsPrev(l, p, k) ==
    /\ p \in linked[l] \cup {Head}
    /\ p < k
    /\ k < next[l][p]

\* No key is published above max_height_.
Unreached == \A l \in Levels : maxHeight =< l => linked[l] = {}

\* A thread in its loop stands on a node of its level that is before its target.
OnItsWay ==
    \A t \in Threads :
        pc[t] = "search" =>
            /\ level[t] < maxHeight
            /\ x[t] \in linked[level[t]] \cup {Head}
            /\ x[t] < target[t]

\* The key of Insert is new; behind the loop prev[] holds its neighbours.
Finding ==
    pc[Writer] \in {"search", "height"} =>
        /\ target[Writer] \in Keys \ linked[0]
        /\ \A l \in Levels :
               /\ l < maxHeight
               /\ pc[Writer] = "search" => level[Writer] < l
               => IsPrev(l, prev[l], target[Writer])

\* Below i the new node is published, from i on prev[] holds its neighbours.
Linking ==
    pc[Writer] \in {"link", "publish"} =>
        /\ target[Writer] \in Keys
        /\ i < height
        /\ height =< maxHeight
        /\ \A l \in Levels : IF l < i THEN target[Writer] \in linked[l]
                             ELSE target[Writer] \notin linked[l]
        /\ \A l \in Levels : i =< l /\ l < height => IsPrev(l, prev[l], target[Writer])
        /\ pc[Writer] = "publish" => next[i][target[Writer]] = next[i][prev[i]]

Iterating ==
    \A r \in Readers :
        /\ pc[r] \in {"idle", "search"}
        /\ pc[r] = "search" => op[r] \in {"Seek", "SeekToLast", "Prev"}
        /\ known[r] \subseteq linked[0]
        /\ node[r] \in linked[0] \cup {Null}

IInv ==
    /\ TypeOK
    /\ WellLinked
    /\ Unreached
    /\ OnItsWay
    /\ Finding
    /\ Linking
    /\ Iterating
    /\ ScanIsComplete

USE KAssumption, HeightAssumption, ThreadAssumption
    DEF Keys, Head, Null, Wild, Nodes, Levels, Threads, Inserted

\* The types of IInv, one application at a time.
LEMMA Typed ==
    ASSUME IInv
    PROVE  /\ maxHeight \in 1 .. MaxHeight
           /\ \A l \in Levels : \A n \in Nodes : next[l][n] \in 1 .. Wild
           /\ \A l \in Levels : linked[l] \subseteq Keys
           /\ \A t \in Threads : /\ target[t] \in 1 .. Null
                                 /\ x[t] \in Nodes
                                 /\ level[t] \in Levels
           /\ \A r \in Readers : /\ node[r] \in 1 .. Null
                                 /\ known[r] \subseteq Keys
           /\ height \in 1 .. MaxHeight
           /\ i \in 0 .. MaxHeight
           /\ 0 \in Levels
           /\ DOMAIN pc = Threads /\ DOMAIN x = Threads
           /\ DOMAIN level = Threads /\ DOMAIN target = Threads
           /\ DOMAIN op = Readers /\ DOMAIN node = Readers
           /\ DOMAIN known = Readers /\ DOMAIN scanned = Readers
           /\ DOMAIN prev = Levels /\ DOMAIN linked = Levels
           /\ DOMAIN next = Levels /\ \A l \in Levels : DOMAIN next[l] = Nodes
  <1> TypeOK
    BY DEF IInv
  <1>1. maxHeight \in 1 .. MaxHeight /\ height \in 1 .. MaxHeight /\ i \in 0 .. MaxHeight
    BY DEF TypeOK
  <1>2. \A l \in Levels : next[l] \in [Nodes -> 1 .. Wild]
    BY DEF TypeOK
  <1>3. \A l \in Levels : \A n \in Nodes : next[l][n] \in 1 .. Wild
    BY <1>2
  <1>4. \A l \in Levels : linked[l] \in SUBSET Keys
    BY DEF TypeOK
  <1>5. \A t \in Threads : target[t] \in 1 .. Null
    BY DEF TypeOK
  <1>6. \A t \in Threads : x[t] \in Nodes /\ level[t] \in Levels
    BY DEF TypeOK
  <1>7. \A r \in Readers : node[r] \in 1 .. Null
    BY DEF TypeOK
  <1>8. \A r \in Readers : known[r] \in SUBSET Keys
    BY DEF TypeOK
  <1>9. 0 \in Levels
    OBVIOUS
  <1>10. /\ DOMAIN pc = Threads /\ DOMAIN x = Threads
         /\ DOMAIN level = Threads /\ DOMAIN target = Threads
    BY DEF TypeOK
  <1>11. /\ DOMAIN op = Readers /\ DOMAIN node = Readers
         /\ DOMAIN known = Readers /\ DOMAIN scanned = Readers
    BY DEF TypeOK
  <1>12. /\ DOMAIN prev = Levels /\ DOMAIN linked = Levels
         /\ DOMAIN next = Levels /\ \A l \in Levels : DOMAIN next[l] = Nodes
    BY <1>2 DEF TypeOK
  <1> QED BY <1>1, <1>3, <1>4, <1>5, <1>6, <1>7, <1>8, <1>9, <1>10, <1>11, <1>12

LEMMA InitInv == Init => IInv
  <1> SUFFICES ASSUME Init PROVE IInv
    OBVIOUS
  <1> USE DEF Init
  <1>1. TypeOK
    BY DEF TypeOK
  <1>2. WellLinked
    <2>1. \A l \in Levels : linked[l] = {} /\ next[l][Head] = Null
      OBVIOUS
    <2>2. \A l \in Levels : \A m \in 0 .. l : m \in Levels
      OBVIOUS
    <2> HIDE DEF Init
    <2> QED BY <2>1, <2>2 DEF WellLinked
  <1>3. Unreached /\ OnItsWay /\ Finding /\ Linking
    BY DEF Unreached, OnItsWay, Finding, Linking
  <1>4. Iterating /\ ScanIsComplete
    BY DEF Iterating, ScanIsComplete
  <1> QED BY <1>1, <1>2, <1>3, <1>4 DEF IInv

\* Where a thread in its loop looks is a published node, or NULL.
LEMMA AheadIsPublished ==
    ASSUME IInv, NEW t \in Threads, pc[t] = "search"
    PROVE  /\ level[t] \in Levels
           /\ Ahead(t) \in linked[level[t]] \cup {Null}
           /\ Ahead(t) \in 1 .. Null
           /\ x[t] < Ahead(t)
           /\ \A k \in linked[level[t]] : x[t] < k => Ahead(t) =< k
  <1>1. level[t] \in Levels /\ x[t] \in linked[level[t]] \cup {Head}
    BY Typed DEF IInv, OnItsWay
  <1>2. linked[level[t]] \subseteq 1 .. K
    BY <1>1, Typed DEF IInv
  <1> QED BY <1>1, <1>2, KAssumption DEF IInv, WellLinked, Ahead

LEMMA AdvanceInv ==
    ASSUME IInv, NEW t \in Threads, Advance(t)
    PROVE  IInv'
  <1> USE DEF iter, insert, Advance, KeyIsAfterNode
  <1>1. /\ level[t] \in Levels
        /\ Ahead(t) \in linked[level[t]] \cup {Null}
        /\ Ahead(t) < target[t]
        /\ target[t] \in 1 .. Null
        /\ Ahead(t) \in Nodes
    BY SMTT(60), AheadIsPublished, Typed DEF IInv
  <1>2. TypeOK'
    BY <1>1 DEF IInv, TypeOK
  <1>3. WellLinked' /\ Unreached' /\ Iterating' /\ ScanIsComplete'
    BY DEF IInv, WellLinked, Unreached, Iterating, ScanIsComplete
  <1>4. OnItsWay'
    <2> SUFFICES ASSUME NEW q \in Threads, pc[q] = "search"
                 PROVE  /\ level[q] < maxHeight
                        /\ x'[q] \in linked[level[q]] \cup {Head}
                        /\ x'[q] < target[q]
      BY DEF OnItsWay
    <2>1. x'[q] = IF q = t THEN Ahead(t) ELSE x[q]
      BY Typed
    <2>2. level[q] < maxHeight
      BY DEF IInv, OnItsWay
    <2>3. CASE q = t
      BY <1>1, <2>1, <2>2, <2>3
    <2>4. CASE q # t
      BY <2>1, <2>4 DEF IInv, OnItsWay
    <2> QED BY <2>3, <2>4
  <1>5. Finding' /\ Linking'
    BY DEF IInv, Finding, Linking, IsPrev
  <1> QED BY <1>2, <1>3, <1>4, <1>5 DEF IInv

LEMMA DescendInv ==
    ASSUME IInv, NEW t \in Threads, Descend(t)
    PROVE  IInv'
  <1> USE DEF iter, Descend, KeyIsAfterNode
  <1>1. /\ level[t] \in Levels /\ level[t] - 1 \in Levels
        /\ Ahead(t) \in 1 .. Null
        /\ target[t] \in 1 .. Null
        /\ target[t] =< Ahead(t)
        /\ x[t] \in linked[level[t]] \cup {Head}
        /\ x[t] < target[t]
        /\ x[t] \in Nodes
    <2>1. level[t] \in Levels /\ target[t] \in 1 .. Null /\ x[t] \in Nodes
      BY Typed
    <2>2. x[t] \in linked[level[t]] \cup {Head} /\ x[t] < target[t]
      BY DEF IInv, OnItsWay
    <2>3. Ahead(t) \in 1 .. Null
      BY AheadIsPublished
    <2> QED BY <2>1, <2>2, <2>3
  <1>2. TypeOK'
    BY <1>1 DEF IInv, TypeOK, NotePrev
  <1>3. WellLinked' /\ Unreached' /\ Iterating' /\ ScanIsComplete'
    BY DEF IInv, WellLinked, Unreached, Iterating, ScanIsComplete
  <1>4. OnItsWay'
    <2>1. linked[level[t]] \subseteq linked[level[t] - 1]
      BY <1>1 DEF IInv, WellLinked
    <2> SUFFICES ASSUME NEW q \in Threads, pc[q] = "search"
                 PROVE  /\ level'[q] < maxHeight
                        /\ x[q] \in linked[level'[q]] \cup {Head}
                        /\ x[q] < target[q]
      BY DEF OnItsWay
    <2>2. level'[q] = IF q = t THEN level[t] - 1 ELSE level[q]
      BY Typed
    <2>3. CASE q = t
      <3>1. level[t] < maxHeight /\ maxHeight \in 1 .. MaxHeight
        BY Typed DEF IInv, OnItsWay
      <3> QED BY <1>1, <2>1, <2>2, <2>3, <3>1
    <2>4. CASE q # t
      BY <2>2, <2>4 DEF IInv, OnItsWay
    <2> QED BY <2>3, <2>4
  <1>5. Finding'
    <2>1. CASE t = Writer
      <3>1. target[t] # Ahead(t)
        <4>1. target[t] \in Keys \ linked[0] /\ linked[level[t]] \subseteq linked[0]
          BY <1>1, <2>1 DEF IInv, Finding, WellLinked
        <4> QED BY <1>1, <4>1, AheadIsPublished
      <3>2. IsPrev(level[t], x[t], target[t])
        BY <1>1, <3>1 DEF IsPrev, Ahead
      <3>3. prev' = [prev EXCEPT ![level[t]] = x[t]]
        BY <2>1 DEF NotePrev
      <3>4. level'[t] = level[t] - 1
        BY <1>1, Typed DEF IInv
      <3>5. target[t] \in Keys \ linked[0]
        BY <2>1 DEF IInv, Finding
      <3>6. ASSUME NEW l \in Levels, l < maxHeight, level'[t] < l
            PROVE  IsPrev(l, prev'[l], target[t])
        <4>1. CASE l = level[t]
          BY <3>2, <3>3, <4>1, Typed
        <4>2. CASE l # level[t]
          <5>1. level[t] < l /\ prev'[l] = prev[l]
            BY SMTT(60), <1>1, <3>3, <3>4, <3>6, <4>2, Typed
          <5> QED BY <2>1, <3>6, <5>1 DEF IInv, Finding
        <4> QED BY <4>1, <4>2
      <3> QED BY <2>1, <3>5, <3>6 DEF Finding, IsPrev
    <2>2. CASE t # Writer
      BY <2>2, Typed DEF IInv, Finding, IsPrev, NotePrev
    <2> QED BY <2>1, <2>2
  <1>6. Linking'
    BY DEF IInv, Linking, IsPrev, NotePrev
  <1> QED BY <1>2, <1>3, <1>4, <1>5, <1>6 DEF IInv

LEMMA StartIterationInv ==
    ASSUME IInv, NEW r \in Readers, NEW what \in {"Seek", "SeekToLast", "Prev"},
           NEW key \in 1 .. Null, StartIteration(r, what, key)
    PROVE  IInv'
  <1> PICK h \in 1 .. maxHeight :
              /\ pc[r] = "idle"
              /\ StartSearch(r, key, h)
              /\ pc' = [pc EXCEPT ![r] = "search"]
              /\ op' = [op EXCEPT ![r] = what]
              /\ known' = [known EXCEPT ![r] = Inserted]
              /\ scanned' = [scanned EXCEPT ![r] = {}]
              /\ UNCHANGED <<next, maxHeight, linked, node, insert>>
    BY DEF StartIteration
  <1> USE DEF StartSearch, insert
  <1>1. h - 1 \in Levels /\ h - 1 < maxHeight /\ r # Writer
    BY SMTT(60), Typed DEF IInv
  <1>2. TypeOK'
    <2>1. TypeOK
      BY DEF IInv
    <2>2. target' \in [Threads -> 1 .. Null]
      <3>1. target \in [Threads -> 1 .. Null]
        BY <2>1 DEF TypeOK
      <3> QED BY <3>1
    <2>7. x' \in [Threads -> Nodes]
      <3>1. x \in [Threads -> Nodes]
        BY <2>1 DEF TypeOK
      <3> QED BY <3>1
    <2>3. level' \in [Threads -> Levels]
      BY <1>1, <2>1 DEF TypeOK
    <2>4. /\ pc' \in [Threads -> {"idle", "search", "height", "link", "publish"}]
          /\ op' \in [Readers -> {"none", "scan", "Seek", "SeekToLast", "Prev"}]
      BY <2>1 DEF TypeOK
    <2>5. known' \in [Readers -> SUBSET Keys]
      BY <2>1, Typed DEF TypeOK
    <2>6. scanned' \in [Readers -> SUBSET (1 .. Null)]
      BY <2>1 DEF TypeOK
    <2> QED BY <2>1, <2>2, <2>3, <2>4, <2>5, <2>6, <2>7 DEF TypeOK
  <1>3. WellLinked' /\ Unreached'
    BY DEF IInv, WellLinked, Unreached
  <1>4. OnItsWay'
    <2> SUFFICES ASSUME NEW q \in Threads, pc'[q] = "search"
                 PROVE  /\ level'[q] < maxHeight
                        /\ x'[q] \in linked[level'[q]] \cup {Head}
                        /\ x'[q] < target'[q]
      BY DEF OnItsWay
    <2>1. CASE q = r
      <3>1. level'[q] = h - 1 /\ x'[q] = Head /\ target'[q] = key
        BY <2>1, Typed
      <3> QED BY <1>1, <3>1
    <2>2. CASE q # r
      <3>1. pc[q] = "search" /\ level'[q] = level[q] /\ x'[q] = x[q]
            /\ target'[q] = target[q]
        BY <2>2, Typed
      <3> QED BY <3>1 DEF IInv, OnItsWay
    <2> QED BY <2>1, <2>2
  <1>5. Finding' /\ Linking'
    BY <1>1, Typed DEF IInv, Finding, Linking, IsPrev
  <1>6. Iterating'
    BY Typed DEF IInv, Iterating
  <1>7. ScanIsComplete'
    BY Typed DEF IInv, ScanIsComplete
  <1> QED BY <1>2, <1>3, <1>4, <1>5, <1>6, <1>7 DEF IInv

LEMMA FinishIterationInv ==
    ASSUME IInv, NEW r \in Readers, FinishIteration(r)
    PROVE  IInv'
  <1> USE DEF FinishIteration, search, insert
  <1>1. /\ level[r] = 0
        /\ Ahead(r) \in linked[0] \cup {Null}
        /\ Ahead(r) \in 1 .. Null
        /\ x[r] \in linked[0] \cup {Head}
        /\ r # Writer
        /\ linked[0] \subseteq Keys
    BY AheadIsPublished, Typed DEF IInv, OnItsWay
  <1>2. node'[r] \in linked[0] \cup {Null} /\ node'[r] \in 1 .. Null
    BY SMTT(60), <1>1, Typed DEF IInv
  <1>3. TypeOK'
    BY <1>2 DEF IInv, TypeOK
  <1>4. WellLinked' /\ Unreached'
    BY DEF IInv, WellLinked, Unreached
  <1>5. OnItsWay'
    BY Typed DEF IInv, OnItsWay
  <1>6. Finding' /\ Linking'
    BY <1>1, Typed DEF IInv, Finding, Linking, IsPrev
  <1>7. Iterating'
    BY <1>2, Typed DEF IInv, Iterating
  <1>8. ScanIsComplete'
    BY Typed DEF IInv, ScanIsComplete
  <1> QED BY <1>3, <1>4, <1>5, <1>6, <1>7, <1>8 DEF IInv

LEMMA SeekToFirstInv ==
    ASSUME IInv, NEW r \in Readers, SeekToFirst(r)
    PROVE  IInv'
  <1> USE DEF SeekToFirst, search, insert
  <1>1. /\ next[0][Head] \in linked[0] \cup {Null}
        /\ next[0][Head] \in 1 .. Null
        /\ \A k \in linked[0] : next[0][Head] =< k
    <2>1. 0 \in Levels /\ Head \in Nodes /\ linked[0] \subseteq Keys
      BY Typed
    <2>2. /\ next[0][Head] \in linked[0] \cup {Null}
          /\ \A k \in linked[0] : Head < k => next[0][Head] =< k
      BY <2>1 DEF IInv, WellLinked
    <2> QED BY <2>1, <2>2
  <1>2. TypeOK'
    <2>1. TypeOK
      BY DEF IInv
    <2>2. /\ node' \in [Readers -> 1 .. Null]
          /\ op' \in [Readers -> {"none", "scan", "Seek", "SeekToLast", "Prev"}]
      BY <1>1, <2>1 DEF TypeOK
    <2>3. known' \in [Readers -> SUBSET Keys]
      BY <2>1, Typed DEF TypeOK
    <2>4. scanned' \in [Readers -> SUBSET (1 .. Null)]
      BY <1>1, <2>1 DEF TypeOK
    <2> QED BY <2>1, <2>2, <2>3, <2>4 DEF TypeOK
  <1>3. WellLinked' /\ Unreached' /\ OnItsWay' /\ Finding' /\ Linking'
    BY DEF IInv, WellLinked, Unreached, OnItsWay, Finding, Linking, IsPrev
  <1>4. Iterating'
    BY <1>1, Typed DEF IInv, Iterating
  <1>5. ScanIsComplete'
    <2> SUFFICES ASSUME NEW q \in Readers, op'[q] = "scan",
                        NEW k \in known'[q], k =< node'[q]
                 PROVE  k \in scanned'[q]
      BY DEF ScanIsComplete
    <2>1. CASE q = r
      <3>1. /\ k \in linked[0] /\ k =< next[0][Head] /\ linked[0] \subseteq Keys
            /\ scanned'[q] = {next[0][Head]}
        BY <2>1, Typed
      <3> QED BY <1>1, <3>1
    <2>2. CASE q # r
      BY <2>2, Typed DEF IInv, ScanIsComplete
    <2> QED BY <2>1, <2>2
  <1> QED BY <1>2, <1>3, <1>4, <1>5 DEF IInv

LEMMA NextKeyInv ==
    ASSUME IInv, NEW r \in Readers, NextKey(r)
    PROVE  IInv'
  <1> USE DEF NextKey, search, insert
  <1>1. /\ node[r] \in linked[0]
        /\ next[0][node[r]] \in linked[0] \cup {Null}
        /\ next[0][node[r]] \in 1 .. Null
        /\ \A k \in linked[0] : node[r] < k => next[0][node[r]] =< k
    <2>1. node[r] \in linked[0] /\ linked[0] \subseteq Keys
      BY Typed DEF IInv, Iterating
    <2>2. 0 \in Levels /\ node[r] \in Nodes
      BY SMTT(60), <2>1, Typed
    <2>3. /\ next[0][node[r]] \in linked[0] \cup {Null}
          /\ \A k \in linked[0] : node[r] < k => next[0][node[r]] =< k
      BY <2>1, <2>2 DEF IInv, WellLinked
    <2> QED BY <2>1, <2>3
  <1>2. TypeOK'
    BY <1>1 DEF IInv, TypeOK
  <1>3. WellLinked' /\ Unreached' /\ OnItsWay' /\ Finding' /\ Linking'
    BY DEF IInv, WellLinked, Unreached, OnItsWay, Finding, Linking, IsPrev
  <1>4. Iterating'
    BY <1>1, Typed DEF IInv, Iterating
  <1>5. ScanIsComplete'
    <2> SUFFICES ASSUME NEW q \in Readers, op'[q] = "scan",
                        NEW k \in known'[q], k =< node'[q]
                 PROVE  k \in scanned'[q]
      BY DEF ScanIsComplete
    <2>1. k \in linked[0] /\ k \in Keys
      BY Typed DEF IInv, Iterating
    <2>2. CASE q = r
      <3>1. /\ op[r] = "scan" /\ k \in known[r] /\ k =< next[0][node[r]]
            /\ scanned'[q] = scanned[r] \cup {next[0][node[r]]}
            /\ node[r] \in 1 .. Null
        BY <2>2, Typed
      <3>2. k =< node[r] => k \in scanned[r]
        BY <3>1 DEF IInv, ScanIsComplete
      <3> QED BY <1>1, <2>1, <2>2, <3>1, <3>2
    <2>3. CASE q # r
      BY <2>3, Typed DEF IInv, ScanIsComplete
    <2> QED BY <2>2, <2>3
  <1> QED BY <1>2, <1>3, <1>4, <1>5 DEF IInv

LEMMA BeginInsertInv ==
    ASSUME IInv, NEW key \in Keys, BeginInsert(key)
    PROVE  IInv'
  <1> USE DEF BeginInsert, StartSearch, iter
  <1>1. maxHeight - 1 \in Levels /\ maxHeight - 1 < maxHeight
    BY SMTT(60), Typed DEF IInv
  <1>2. TypeOK'
    <2>1. TypeOK
      BY DEF IInv
    <2>2. target' \in [Threads -> 1 .. Null]
      <3>1. target \in [Threads -> 1 .. Null]
        BY <2>1 DEF TypeOK
      <3> QED BY <3>1
    <2>7. x' \in [Threads -> Nodes]
      <3>1. x \in [Threads -> Nodes]
        BY <2>1 DEF TypeOK
      <3> QED BY <3>1
    <2>3. level' \in [Threads -> Levels]
      BY <1>1, <2>1 DEF TypeOK
    <2>4. pc' \in [Threads -> {"idle", "search", "height", "link", "publish"}]
      BY <2>1 DEF TypeOK
    <2>5. prev' \in [Levels -> Nodes \cup {Wild}]
      OBVIOUS
    <2> QED BY <2>1, <2>2, <2>3, <2>4, <2>5, <2>7 DEF TypeOK
  <1>3. WellLinked' /\ Unreached'
    BY DEF IInv, WellLinked, Unreached
  <1>4. OnItsWay'
    BY SMTT(60), <1>1, Typed DEF IInv, OnItsWay
  <1>5. Finding' /\ Linking'
    BY SMTT(60), <1>1, Typed DEF IInv, Finding, Linking, IsPrev
  <1>6. Iterating' /\ ScanIsComplete'
    BY Typed DEF IInv, Iterating, ScanIsComplete
  <1> QED BY <1>2, <1>3, <1>4, <1>5, <1>6 DEF IInv

LEMMA EndFindInv ==
    ASSUME IInv, EndFind
    PROVE  IInv'
  <1> USE DEF EndFind, KeyIsAfterNode, search, iter
  <1> DEFINE t == Writer
  <1>1. /\ Ahead(t) \in linked[0] \cup {Null}
        /\ Ahead(t) \in 1 .. Null
        /\ target[t] \in Keys \ linked[0]
        /\ target[t] =< Ahead(t)
        /\ x[t] \in linked[0] \cup {Head}
        /\ x[t] < target[t]
        /\ x[t] \in Nodes
        /\ 0 \in Levels
    BY SMTT(60), AheadIsPublished, Typed DEF IInv, OnItsWay, Finding
  <1>2. prev' = [prev EXCEPT ![0] = x[t]]
    BY DEF NotePrev
  <1>3. TypeOK'
    BY <1>1, <1>2 DEF IInv, TypeOK
  <1>4. WellLinked' /\ Unreached'
    BY DEF IInv, WellLinked, Unreached
  <1>5. OnItsWay'
    BY Typed DEF IInv, OnItsWay
  <1>6. Finding'
    <2>1. IsPrev(0, x[t], target[t])
      BY <1>1 DEF IsPrev, Ahead
    <2> QED BY SMTT(60), <1>1, <1>2, <2>1, Typed DEF IInv, Finding, IsPrev
  <1>7. Linking'
    BY Typed DEF IInv, Linking
  <1>8. Iterating' /\ ScanIsComplete'
    BY Typed DEF IInv, Iterating, ScanIsComplete
  <1> QED BY <1>3, <1>4, <1>5, <1>6, <1>7, <1>8 DEF IInv

LEMMA GrowInv ==
    ASSUME IInv, NEW h \in 1 .. MaxHeight, Grow(h)
    PROVE  IInv'
  <1> USE DEF Grow, search, iter
  <1>1. /\ maxHeight \in 1 .. MaxHeight /\ maxHeight' \in 1 .. MaxHeight
        /\ maxHeight =< maxHeight' /\ h =< maxHeight'
    BY SMTT(60), Typed DEF IInv
  <1>2. TypeOK'
    <2>1. TypeOK
      BY DEF IInv
    <2>2. prev' \in [Levels -> Nodes \cup {Wild}]
      BY <2>1 DEF TypeOK
    <2>3. pc' \in [Threads -> {"idle", "search", "height", "link", "publish"}]
      BY <2>1 DEF TypeOK
    <2>4. height' \in 1 .. MaxHeight /\ i' \in 0 .. MaxHeight
      OBVIOUS
    <2> QED BY <1>1, <2>1, <2>2, <2>3, <2>4 DEF TypeOK
  <1>3. WellLinked'
    BY DEF IInv, WellLinked
  <1>4. Unreached'
    BY <1>1 DEF IInv, Unreached
  <1>5. OnItsWay'
    BY SMTT(60), <1>1, Typed DEF IInv, OnItsWay
  <1>6. Finding'
    BY Typed DEF IInv, Finding
  <1>7. Linking'
    <2>1. target[Writer] \in Keys \ linked[0]
      BY DEF IInv, Finding
    <2>2. \A l \in Levels : target[Writer] \notin linked[l]
      BY <2>1 DEF IInv, WellLinked
    <2>3. ASSUME NEW l \in Levels, l < h
          PROVE  IsPrev(l, prev[l], target[Writer])'
      <3>1. CASE l < maxHeight
        BY <1>1, <2>3, <3>1 DEF IInv, Finding, IsPrev
      <3>2. CASE maxHeight =< l
        <4>1. linked[l] = {} /\ prev'[l] = Head
          BY <1>1, <2>3, <3>2 DEF IInv, Unreached
        <4>2. next[l][Head] = Null
          BY <4>1 DEF IInv, WellLinked
        <4> QED BY <2>1, <4>1, <4>2 DEF IsPrev
      <3> QED BY <1>1, <3>1, <3>2
    <2> QED BY <1>1, <2>1, <2>2, <2>3, Typed DEF IInv, Linking
  <1>8. Iterating' /\ ScanIsComplete'
    BY Typed DEF IInv, Iterating, ScanIsComplete
  <1> QED BY <1>2, <1>3, <1>4, <1>5, <1>6, <1>7, <1>8 DEF IInv

LEMMA LinkOutInv ==
    ASSUME IInv, LinkOut
    PROVE  IInv'
  <1> USE DEF LinkOut, search, iter, insert
  <1> DEFINE k == target[Writer]
  <1>1. /\ k \in Keys /\ i \in Levels
        /\ k \notin linked[i]
        /\ IsPrev(i, prev[i], k)
        /\ prev[i] \in linked[i] \cup {Head} /\ prev[i] # k /\ prev[i] \in Nodes
        /\ next[i][prev[i]] \in 1 .. Null
    <2>1. k \in Keys /\ i \in Levels /\ k \notin linked[i] /\ IsPrev(i, prev[i], k)
      BY SMTT(60), Typed DEF IInv, Linking
    <2>2. prev[i] \in linked[i] \cup {Head} /\ linked[i] \subseteq Keys
      BY <2>1, Typed DEF IsPrev, IInv
    <2> QED BY <2>1, <2>2 DEF IInv, WellLinked, IsPrev
  <1>2. \A l \in Levels : \A n \in linked[l] \cup {Head} : next'[l][n] = next[l][n]
    BY SMTT(60), <1>1, Typed DEF IInv
  <1>3. next'[i][k] = next[i][prev[i]] /\ next'[i][prev[i]] = next[i][prev[i]]
    BY SMTT(60), <1>1, Typed DEF IInv
  <1>4. TypeOK'
    <2>1. TypeOK
      BY DEF IInv
    <2>2. next[i] \in [Nodes -> 1 .. Wild]
      BY <1>1, <2>1 DEF TypeOK
    <2>3. [next[i] EXCEPT ![k] = next[i][prev[i]]] \in [Nodes -> 1 .. Wild]
      BY <1>1, <2>2
    <2>4. next' = [next EXCEPT ![i] = [next[i] EXCEPT ![k] = next[i][prev[i]]]]
      OBVIOUS
    <2>5. next' \in [Levels -> [Nodes -> 1 .. Wild]]
      BY ZenonT(60), <1>1, <2>1, <2>3, <2>4 DEF TypeOK
    <2>6. pc' \in [Threads -> {"idle", "search", "height", "link", "publish"}]
      BY <2>1 DEF TypeOK
    <2> QED BY <2>1, <2>5, <2>6 DEF TypeOK
  <1>5. WellLinked'
    BY <1>2 DEF IInv, WellLinked
  <1>6. Unreached' /\ Iterating' /\ ScanIsComplete'
    BY Typed DEF IInv, Unreached, Iterating, ScanIsComplete
  <1>7. OnItsWay'
    BY Typed DEF IInv, OnItsWay
  <1>8. Finding'
    BY Typed DEF IInv, Finding
  <1>9. Linking'
    <2>1. \A l \in Levels : i =< l /\ l < height => IsPrev(l, prev[l], k)'
      BY <1>2 DEF IInv, Linking, IsPrev
    <2> QED BY <1>1, <1>3, <2>1, Typed DEF IInv, Linking
  <1> QED BY <1>4, <1>5, <1>6, <1>7, <1>8, <1>9 DEF IInv

LEMMA PublishInv ==
    ASSUME IInv, Publish
    PROVE  IInv'
  <1> USE DEF Publish, search, iter
  <1> DEFINE k == target[Writer]
             p == prev[i]
  <1>1. /\ k \in Keys /\ i \in Levels
        /\ k \notin linked[i]
        /\ p \in linked[i] \cup {Head} /\ p \in Nodes
        /\ p < k /\ k < next[i][p]
        /\ next[i][k] = next[i][p]
        /\ next[i][p] \in linked[i] \cup {Null}
        /\ linked[i] \subseteq Keys
        /\ \A m \in linked[i] : p < m => next[i][p] =< m
    <2>1. k \in Keys /\ i \in Levels /\ k \notin linked[i] /\ IsPrev(i, p, k)
          /\ next[i][k] = next[i][p]
      BY SMTT(60), Typed DEF IInv, Linking
    <2>2. p \in linked[i] \cup {Head} /\ linked[i] \subseteq Keys
      BY <2>1, Typed DEF IsPrev, IInv
    <2> QED BY <2>1, <2>2 DEF IInv, WellLinked, IsPrev
  <1>2. /\ linked'[i] = linked[i] \cup {k}
        /\ \A l \in Levels : l # i => linked'[l] = linked[l] /\ next'[l] = next[l]
        /\ \A n \in Nodes : next'[i][n] = IF n = p THEN k ELSE next[i][n]
    BY <1>1, Typed DEF IInv
  <1>3. TypeOK'
    <2>1. TypeOK
      BY DEF IInv
    <2>2. next[i] \in [Nodes -> 1 .. Wild]
      BY <1>1, <2>1 DEF TypeOK
    <2>3. [next[i] EXCEPT ![p] = k] \in [Nodes -> 1 .. Wild]
      BY SMTT(60), <1>1, <2>2
    <2>4. next' = [next EXCEPT ![i] = [next[i] EXCEPT ![p] = k]]
      OBVIOUS
    <2>5. next' \in [Levels -> [Nodes -> 1 .. Wild]]
      <3>1. next \in [Levels -> [Nodes -> 1 .. Wild]] /\ i \in Levels
        BY <1>1, <2>1 DEF TypeOK
      <3> HIDE DEF Nodes, Levels, Wild, k, p, Publish
      <3> QED BY <2>3, <2>4, <3>1
    <2>6. pc' \in [Threads -> {"idle", "search", "height", "link", "publish"}]
      BY <2>1 DEF TypeOK
    <2>7. linked' \in [Levels -> SUBSET Keys]
      BY <1>1, <2>1 DEF TypeOK
    <2>8. i' \in 0 .. MaxHeight
      BY <1>1
    <2> QED BY <2>1, <2>5, <2>6, <2>7, <2>8 DEF TypeOK
  <1>4. WellLinked'
    <2>1. ASSUME NEW l \in Levels, NEW n \in linked'[l] \cup {Head}
          PROVE  /\ next'[l][n] \in linked'[l] \cup {Null}
                 /\ n < next'[l][n]
                 /\ \A m \in linked'[l] : n < m => next'[l][n] =< m
      <3>1. CASE l # i
        BY <1>2, <2>1, <3>1 DEF IInv, WellLinked
      <3>2. CASE l = i /\ n = p
        BY <1>1, <1>2, <3>2
      <3>3. CASE l = i /\ n = k
        BY <1>1, <1>2, <3>3
      <3>4. CASE l = i /\ n # p /\ n # k
        <4>1. n \in linked[i] \cup {Head} /\ next'[i][n] = next[i][n]
          BY <1>1, <1>2, <2>1, <3>4
        <4>2. /\ next[i][n] \in linked[i] \cup {Null}
              /\ n < next[i][n]
              /\ \A m \in linked[i] : n < m => next[i][n] =< m
          BY <1>1, <4>1 DEF IInv, WellLinked
        <4>3. n < k => next[i][n] =< k
          BY <1>1, <3>4, <4>1, <4>2
        <4> QED BY <1>2, <3>4, <4>1, <4>2, <4>3
      <3> QED BY <3>1, <3>2, <3>3, <3>4
    <2>2. ASSUME NEW l \in Levels, NEW m \in 0 .. l
          PROVE  linked'[l] \subseteq linked'[m]
      <3>1. m \in Levels /\ linked[l] \subseteq linked[m]
        BY DEF IInv, WellLinked
      <3>2. i # 0 /\ m < i => k \in linked[m]
        BY <1>1, <3>1 DEF IInv, Linking
      <3> QED BY <1>1, <1>2, <3>1, <3>2
    <2> QED BY <2>1, <2>2 DEF WellLinked
  <1>5. Unreached'
    <2>1. i < maxHeight
      BY <1>1, Typed DEF IInv, Linking
    <2> QED BY SMTT(60), <1>2, <2>1, Typed DEF IInv, Unreached
  <1>6. OnItsWay'
    BY <1>2, Typed DEF IInv, OnItsWay
  <1>7. Finding'
    BY Typed DEF IInv, Finding
  <1>8. Linking'
    <2> SUFFICES ASSUME pc'[Writer] \in {"link", "publish"}
                 PROVE  Linking'
      BY DEF Linking
    <2>1. i + 1 < height /\ pc'[Writer] = "link" /\ i' = i + 1
      BY Typed DEF IInv
    <2>2. \A l \in Levels : IF l < i + 1 THEN k \in linked'[l] ELSE k \notin linked'[l]
      BY <1>1, <1>2 DEF IInv, Linking
    <2>3. \A l \in Levels : i + 1 =< l /\ l < height => IsPrev(l, prev[l], k)'
      BY <1>1, <1>2 DEF IInv, Linking, IsPrev
    <2> QED BY ZenonT(60), <1>1, <2>1, <2>2, <2>3, Typed DEF IInv, Linking
  <1>9. Iterating'
    BY ZenonT(60), <1>1, <1>2, Typed DEF IInv, Iterating
  <1>10. ScanIsComplete'
    BY DEF IInv, ScanIsComplete
  <1> QED BY <1>3, <1>4, <1>5, <1>6, <1>7, <1>8, <1>9, <1>10 DEF IInv

LEMMA StutterInv ==
    ASSUME IInv, UNCHANGED vars
    PROVE  IInv'
  BY DEF IInv, vars, search, iter, insert, TypeOK, WellLinked, Unreached, OnItsWay,
         Finding, Linking, IsPrev, Iterating, ScanIsComplete

LEMMA NextInv == IInv /\ [Next]_vars => IInv'
  <1> SUFFICES ASSUME IInv, [Next]_vars PROVE IInv'
    OBVIOUS
  <1>1. CASE UNCHANGED vars
    BY <1>1, StutterInv
  <1>2. CASE Insert
    <2>1. CASE Step(Writer)
      BY <2>1, AdvanceInv, DescendInv DEF Step
    <2>2. CASE \E key \in Keys : BeginInsert(key)
      BY <2>2, BeginInsertInv
    <2>3. CASE EndFind
      BY <2>3, EndFindInv
    <2>4. CASE \E h \in 1 .. MaxHeight : Grow(h)
      BY <2>4, GrowInv
    <2>5. CASE LinkOut
      BY <2>5, LinkOutInv
    <2>6. CASE Publish
      BY <2>6, PublishInv
    <2> QED BY <1>2, <2>1, <2>2, <2>3, <2>4, <2>5, <2>6 DEF Insert
  <1>3. ASSUME NEW r \in Readers, Reader(r) PROVE IInv'
    <2>1. CASE Step(r)
      BY <2>1, AdvanceInv, DescendInv DEF Step
    <2>2. CASE \E key \in Keys : Seek(r, key)
      BY <2>2, StartIterationInv, KAssumption DEF Seek
    <2>3. CASE SeekToLast(r)
      BY <2>3, StartIterationInv, KAssumption DEF SeekToLast
    <2>4. CASE SeekToFirst(r)
      BY <2>4, SeekToFirstInv
    <2>5. CASE NextKey(r)
      BY <2>5, NextKeyInv
    <2>6. CASE Prev(r)
      <3>1. node[r] \in 1 .. Null
        BY Typed DEF IInv
      <3> QED BY <2>6, <3>1, StartIterationInv DEF Prev
    <2>7. CASE FinishIteration(r)
      BY <2>7, FinishIterationInv
    <2> QED BY <1>3, <2>1, <2>2, <2>3, <2>4, <2>5, <2>6, <2>7 DEF Reader
  <1> QED BY <1>1, <1>2, <1>3 DEF Next

LEMMA Invariance == Spec => []IInv
  BY InitInv, NextInv, PTL DEF Spec

\* Every variable keeps its type, the pointers above all.
THEOREM TypeCorrect == Spec => []TypeOK
  BY Invariance, PTL DEF IInv

\* Between any two stores of Insert every level is a sorted list of exactly the
\* nodes published at it, and a part of the level below.
THEOREM AlwaysWellLinked == Spec => []WellLinked
  BY Invariance, PTL DEF IInv

\* No reader follows a pointer that Insert has not written yet.
THEOREM NoWildRead == Spec => []ReadsAreInitialized
  <1>1. IInv => ReadsAreInitialized
    <2> SUFFICES ASSUME IInv, NEW t \in Threads, pc[t] = "search" PROVE Ahead(t) # Wild
      BY DEF ReadsAreInitialized
    <2> QED BY AheadIsPublished, KAssumption
  <1> QED BY <1>1, Invariance, PTL

\* A scan passes over no key that was in the list when it began.
THEOREM ScanMissesNothing == Spec => []ScanIsComplete
  BY Invariance, PTL DEF IInv

SearchResult ==
    \A r \in Readers :
        pc[r] = "search" /\ pc'[r] = "idle" =>
            LET found == node'[r] IN
            IF op[r] = "Seek"
            THEN /\ found >= target[r] /\ found \in Inserted \cup {Null}
                 /\ \A k \in known[r] : k >= target[r] => found =< k
            ELSE IF found = Null
            THEN \A k \in known[r] : k >= target[r]
            ELSE /\ found < target[r] /\ found \in Inserted
                 /\ \A k \in known[r] : k < target[r] => k =< found

\* Only FinishIteration ends a reader's search.
LEMMA OnlyFinishEnds ==
    ASSUME IInv, [Next]_vars, NEW r \in Readers, pc[r] = "search", pc'[r] = "idle"
    PROVE  FinishIteration(r)
  <1> USE ThreadAssumption DEF IInv, TypeOK
  <1>1. CASE UNCHANGED vars
    BY <1>1 DEF vars
  <1>2. CASE Insert
    BY <1>2 DEF Insert, Step, Advance, Descend, BeginInsert, EndFind, Grow, LinkOut, Publish
  <1>3. ASSUME NEW q \in Readers, Reader(q), ~ FinishIteration(q) PROVE FALSE
    BY <1>3 DEF Reader, Step, Advance, Descend, Seek, SeekToLast, Prev, StartIteration,
                SeekToFirst, NextKey
  <1>4. ASSUME NEW q \in Readers, FinishIteration(q) PROVE q = r
    BY <1>4 DEF FinishIteration
  <1> QED BY <1>1, <1>2, <1>3, <1>4 DEF Next

\* What Seek, Prev and SeekToLast promise while keys are being inserted.
THEOREM SearchCorrect == Spec => SearchFindsWhatWasThere
  <1>1. IInv /\ [Next]_vars => SearchResult
    <2> SUFFICES ASSUME IInv, [Next]_vars, NEW r \in Readers,
                        pc[r] = "search", pc'[r] = "idle"
                 PROVE  LET found == node'[r] IN
                        IF op[r] = "Seek"
                        THEN /\ found >= target[r] /\ found \in Inserted \cup {Null}
                             /\ \A k \in known[r] : k >= target[r] => found =< k
                        ELSE IF found = Null
                        THEN \A k \in known[r] : k >= target[r]
                        ELSE /\ found < target[r] /\ found \in Inserted
                             /\ \A k \in known[r] : k < target[r] => k =< found
      BY DEF SearchResult
    <2>1. FinishIteration(r)
      BY OnlyFinishEnds
    <2>2. /\ level[r] = 0
          /\ target[r] \in 1 .. Null
          /\ Ahead(r) \in linked[0] \cup {Null} /\ Ahead(r) \in 1 .. Null
          /\ target[r] =< Ahead(r)
          /\ x[r] \in linked[0] \cup {Head} /\ x[r] < target[r] /\ x[r] \in Nodes
          /\ known[r] \subseteq linked[0] /\ linked[0] \subseteq Keys
          /\ \A k \in linked[0] : x[r] < k => Ahead(r) =< k
      BY SMTT(60), <2>1, AheadIsPublished, HeightAssumption, KAssumption
        , Typed DEF FinishIteration, KeyIsAfterNode, IInv, OnItsWay, Iterating
    <2>3. node'[r] = IF op[r] = "Seek" THEN Ahead(r) ELSE IF x[r] = Head THEN Null ELSE x[r]
      BY <2>1, Typed DEF FinishIteration, IInv
    <2> QED BY <2>2, <2>3, KAssumption
  <1>2. [][SearchResult]_vars <=> SearchFindsWhatWasThere
    BY DEF SearchResult, SearchFindsWhatWasThere
  <1> QED BY <1>1, <1>2, Invariance, PTL DEF Spec
=============================================================================
