------------------------------ MODULE SkipList ------------------------------
(****************************************************************************)
(* The skip list under leveldb's memtable (db/skiplist.h).  One writer, its *)
(* caller holding the write lock, inserts keys; any number of readers walk  *)
(* the same nodes without a lock while it does.  A node is never removed.   *)
(*                                                                          *)
(* A node is its key, a pointer is the node it points to: keys are 1..K,    *)
(* the head node is 0 and NULL, which the code takes for infinite, is K+1,  *)
(* so that KeyIsAfterNode is "<".  A pointer that nobody has set is Wild.   *)
(* Every read or write of a pointer that another thread may touch is a step *)
(* of its own.                                                              *)
(****************************************************************************)
EXTENDS Integers

CONSTANTS
    K,            \* the keys are 1..K
    MaxHeight,    \* kMaxHeight
    Readers,      \* threads that hold an iterator
    Writer        \* the thread in Insert

ASSUME KAssumption == K \in Nat \ {0}
ASSUME HeightAssumption == MaxHeight \in Nat \ {0}
ASSUME ThreadAssumption == Writer \notin Readers

Keys    == 1 .. K
Head    == 0
Null    == K + 1
Wild    == K + 2
Nodes   == 0 .. K
Levels  == 0 .. MaxHeight - 1
Threads == Readers \cup {Writer}

VARIABLES
    next,         \* next[l][n]: pointer next_[l] of node n
    maxHeight,    \* max_height_
    pc,           \* where each thread is
    target,       \* the key a thread searches for; Null stands for "the last"
    x, level,     \* the locals x and level of a thread's search
    op,           \* the iterator's operation in progress
    node,         \* node_ of each iterator
    prev,         \* the local prev[] of Insert
    height, i,    \* the locals height and i of Insert
    linked,       \* history: the keys published at each level
    known,        \* history: the keys published when the operation began
    scanned       \* history: what a scan from the first key has returned

search  == <<x, level, target>>
iter    == <<op, node, known, scanned>>
insert  == <<prev, height, i>>
vars    == <<next, maxHeight, linked, pc, search, iter, insert>>

Inserted == linked[0]

Init ==
    /\ next = [l \in Levels |-> [n \in Nodes |-> IF n = Head THEN Null ELSE Wild]]
    /\ maxHeight = 1
    /\ linked = [l \in Levels |-> {}]
    /\ pc = [t \in Threads |-> "idle"]
    /\ target = [t \in Threads |-> Null]
    /\ x = [t \in Threads |-> Head]
    /\ level = [t \in Threads |-> 0]
    /\ op = [r \in Readers |-> "none"]
    /\ node = [r \in Readers |-> Null]
    /\ known = [r \in Readers |-> {}]
    /\ scanned = [r \in Readers |-> {}]
    /\ prev = [l \in Levels |-> Wild]
    /\ height = 1
    /\ i = 0

-----------------------------------------------------------------------------
(* FindGreaterOrEqual, FindLessThan and FindLast: one loop, one load of a   *)
(* pointer per turn.                                                       *)

\* Mutation: the search starts where the iterator stands.
StartSearchHere(t, key, h) ==
    /\ target' = [target EXCEPT ![t] = key]
    /\ x' = [x EXCEPT ![t] = IF t \in Readers /\ node[t] < key THEN node[t] ELSE Head]
    /\ level' = [level EXCEPT ![t] = h - 1]

\* The loop starts at the head, on the highest of the h levels the thread saw.
StartSearch(t, key, h) ==
    /\ target' = [target EXCEPT ![t] = key]
    /\ x' = [x EXCEPT ![t] = Head]
    /\ level' = [level EXCEPT ![t] = h - 1]

Ahead(t) == next[level[t]][x[t]]

KeyIsAfterNode(key, n) == n < key

\* x = next
Advance(t) ==
    /\ pc[t] = "search"
    /\ KeyIsAfterNode(target[t], Ahead(t))
    /\ x' = [x EXCEPT ![t] = Ahead(t)]
    /\ UNCHANGED <<next, maxHeight, linked, pc, level, target, iter, insert>>

\* prev[level] = x, when the caller asked for it
NotePrev(t) ==
    prev' = IF t = Writer THEN [prev EXCEPT ![level[t]] = x[t]] ELSE prev

\* level--
Descend(t) ==
    /\ pc[t] = "search"
    /\ ~ KeyIsAfterNode(target[t], Ahead(t))
    /\ level[t] > 0
    /\ NotePrev(t)
    /\ level' = [level EXCEPT ![t] = @ - 1]
    /\ UNCHANGED <<next, maxHeight, linked, pc, x, target, iter, height, i>>

-----------------------------------------------------------------------------
(* Readers: SkipList::Iterator.                                            *)

\* max_height_ is read without a barrier: a reader may see an older value.
StartIteration(r, what, key) ==
    \E h \in 1 .. maxHeight :
        /\ pc[r] = "idle"
        /\ StartSearch(r, key, h)
        /\ pc' = [pc EXCEPT ![r] = "search"]
        /\ op' = [op EXCEPT ![r] = what]
        /\ known' = [known EXCEPT ![r] = Inserted]
        /\ scanned' = [scanned EXCEPT ![r] = {}]
        /\ UNCHANGED <<next, maxHeight, linked, node, insert>>

Seek(r, key) == StartIteration(r, "Seek", key)

SeekToLast(r) == StartIteration(r, "SeekToLast", Null)

Prev(r) == node[r] # Null /\ StartIteration(r, "Prev", node[r])

\* Mutation: the search ends on the level where it is.
FinishIterationAbove(r) ==
    /\ pc[r] = "search"
    /\ ~ KeyIsAfterNode(target[r], Ahead(r))
    /\ node' = [node EXCEPT ![r] =
                    IF op[r] = "Seek" THEN Ahead(r)
                    ELSE IF x[r] = Head THEN Null ELSE x[r]]
    /\ pc' = [pc EXCEPT ![r] = "idle"]
    /\ op' = [op EXCEPT ![r] = "none"]
    /\ UNCHANGED <<next, maxHeight, linked, search, known, scanned, insert>>

\* FindGreaterOrEqual returns next; the other two return x, and the head for
\* "none", which the iterator turns into NULL.
FinishIteration(r) ==
    /\ pc[r] = "search"
    /\ level[r] = 0
    /\ ~ KeyIsAfterNode(target[r], Ahead(r))
    /\ node' = [node EXCEPT ![r] =
                    IF op[r] = "Seek" THEN Ahead(r)
                    ELSE IF x[r] = Head THEN Null ELSE x[r]]
    /\ pc' = [pc EXCEPT ![r] = "idle"]
    /\ op' = [op EXCEPT ![r] = "none"]
    /\ UNCHANGED <<next, maxHeight, linked, search, known, scanned, insert>>

\* Mutation: the first node of the highest level.
SeekToFirstAbove(r) ==
    /\ pc[r] = "idle"
    /\ node' = [node EXCEPT ![r] = next[maxHeight - 1][Head]]
    /\ op' = [op EXCEPT ![r] = "scan"]
    /\ known' = [known EXCEPT ![r] = Inserted]
    /\ scanned' = [scanned EXCEPT ![r] = {next[maxHeight - 1][Head]}]
    /\ UNCHANGED <<next, maxHeight, linked, pc, search, insert>>

SeekToFirst(r) ==
    /\ pc[r] = "idle"
    /\ node' = [node EXCEPT ![r] = next[0][Head]]
    /\ op' = [op EXCEPT ![r] = "scan"]
    /\ known' = [known EXCEPT ![r] = Inserted]
    /\ scanned' = [scanned EXCEPT ![r] = {next[0][Head]}]
    /\ UNCHANGED <<next, maxHeight, linked, pc, search, insert>>

NextKey(r) ==
    /\ pc[r] = "idle"
    /\ node[r] # Null
    /\ node' = [node EXCEPT ![r] = next[0][node[r]]]
    /\ scanned' = [scanned EXCEPT ![r] =
                      IF op[r] = "scan" THEN @ \cup {next[0][node[r]]} ELSE @]
    /\ UNCHANGED <<next, maxHeight, linked, pc, search, op, known, insert>>

-----------------------------------------------------------------------------
(* The writer: Insert.                                                     *)

\* The list takes no key twice: a memtable's keys carry fresh sequence numbers.
BeginInsert(key) ==
    /\ pc[Writer] = "idle"
    /\ key \notin Inserted
    /\ StartSearch(Writer, key, maxHeight)
    /\ prev' = [l \in Levels |-> Wild]
    /\ pc' = [pc EXCEPT ![Writer] = "search"]
    /\ UNCHANGED <<next, maxHeight, linked, iter, height, i>>

EndFind ==
    /\ pc[Writer] = "search"
    /\ level[Writer] = 0
    /\ ~ KeyIsAfterNode(target[Writer], Ahead(Writer))
    /\ NotePrev(Writer)
    /\ pc' = [pc EXCEPT ![Writer] = "height"]
    /\ UNCHANGED <<next, maxHeight, linked, search, iter, height, i>>

\* Mutation: one level more than the node has.
GrowOneMore(h) ==
    /\ pc[Writer] = "height"
    /\ height' = h
    /\ i' = 0
    /\ prev' = [l \in Levels |-> IF maxHeight =< l /\ l < h THEN Head ELSE prev[l]]
    /\ maxHeight' = IF h > maxHeight THEN h + 1 ELSE maxHeight
    /\ pc' = [pc EXCEPT ![Writer] = "link"]
    /\ UNCHANGED <<next, linked, search, iter>>

\* RandomHeight, and the store into max_height_ that readers race with
Grow(h) ==
    /\ pc[Writer] = "height"
    /\ height' = h
    /\ i' = 0
    /\ prev' = [l \in Levels |-> IF maxHeight =< l /\ l < h THEN Head ELSE prev[l]]
    /\ maxHeight' = IF h > maxHeight THEN h ELSE maxHeight
    /\ pc' = [pc EXCEPT ![Writer] = "link"]
    /\ UNCHANGED <<next, linked, search, iter>>

\* Mutation: the new node ends the list.
LinkOutToEnd ==
    /\ pc[Writer] = "link"
    /\ next' = [next EXCEPT ![i][target[Writer]] = Null]
    /\ pc' = [pc EXCEPT ![Writer] = "publish"]
    /\ UNCHANGED <<maxHeight, linked, search, iter, insert>>

\* x->NoBarrier_SetNext(i, prev[i]->NoBarrier_Next(i))
LinkOut ==
    /\ pc[Writer] = "link"
    /\ next' = [next EXCEPT ![i][target[Writer]] = next[i][prev[i]]]
    /\ pc' = [pc EXCEPT ![Writer] = "publish"]
    /\ UNCHANGED <<maxHeight, linked, search, iter, insert>>

\* prev[i]->SetNext(i, x)
Publish ==
    /\ pc[Writer] = "publish"
    /\ next' = [next EXCEPT ![i][prev[i]] = target[Writer]]
    /\ linked' = [linked EXCEPT ![i] = @ \cup {target[Writer]}]
    /\ i' = i + 1
    /\ pc' = [pc EXCEPT ![Writer] = IF i + 1 < height THEN "link" ELSE "idle"]
    /\ UNCHANGED <<maxHeight, search, iter, prev, height>>

-----------------------------------------------------------------------------
Step(t) == Advance(t) \/ Descend(t)

Reader(r) ==
    \/ Step(r)
    \/ \E key \in Keys : Seek(r, key)
    \/ SeekToLast(r)
    \/ SeekToFirst(r)
    \/ NextKey(r)
    \/ Prev(r)
    \/ FinishIteration(r)

Insert ==
    \/ Step(Writer)
    \/ \E key \in Keys : BeginInsert(key)
    \/ EndFind
    \/ \E h \in 1 .. MaxHeight : Grow(h)
    \/ LinkOut
    \/ Publish

Next == Insert \/ \E r \in Readers : Reader(r)

Spec == Init /\ [][Next]_vars

-----------------------------------------------------------------------------
TypeOK ==
    /\ next \in [Levels -> [Nodes -> 1 .. Wild]]
    /\ maxHeight \in 1 .. MaxHeight
    /\ linked \in [Levels -> SUBSET Keys]
    /\ pc \in [Threads -> {"idle", "search", "height", "link", "publish"}]
    /\ target \in [Threads -> 1 .. Null]
    /\ x \in [Threads -> Nodes]
    /\ level \in [Threads -> Levels]
    /\ op \in [Readers -> {"none", "scan", "Seek", "SeekToLast", "Prev"}]
    /\ node \in [Readers -> 1 .. Null]
    /\ known \in [Readers -> SUBSET Keys]
    /\ scanned \in [Readers -> SUBSET (1 .. Null)]
    /\ prev \in [Levels -> Nodes \cup {Wild}]
    /\ height \in 1 .. MaxHeight
    /\ i \in 0 .. MaxHeight

\* At every level, and between any two stores of Insert, each published node
\* (and the head) points to the next greater node published at that level, or
\* to NULL when there is none; and a node is published from the bottom up.
WellLinked ==
    \A l \in Levels :
        /\ \A n \in linked[l] \cup {Head} :
               /\ next[l][n] \in linked[l] \cup {Null}
               /\ n < next[l][n]
               /\ \A k \in linked[l] : n < k => next[l][n] =< k
        /\ \A m \in 0 .. l : linked[l] \subseteq linked[m]

\* A reader, at whatever moment it runs, stands on a node that Insert has
\* finished writing at the reader's level: it never follows a pointer that has
\* not been initialised ("a concurrent reader ... will see either the old value
\* ... or a new value").
ReadsAreInitialized ==
    \A t \in Threads : pc[t] = "search" => Ahead(t) # Wild

\* A scan from the first key that takes Next, while keys are being inserted in
\* front of it and behind it, passes over no key that was there when it began.
ScanIsComplete ==
    \A r \in Readers :
        op[r] = "scan" => \A k \in known[r] : k =< node[r] => k \in scanned[r]

\* Whatever is inserted meanwhile, Seek ends on a key of the list that is not
\* before its target and passes over none that was there when it began; Prev
\* and SeekToLast end on the last key before the target in the same sense.
SearchFindsWhatWasThere ==
    [][\A r \in Readers :
          pc[r] = "search" /\ pc'[r] = "idle" =>
              LET found == node'[r] IN
              IF op[r] = "Seek"
              THEN /\ found >= target[r] /\ found \in Inserted \cup {Null}
                   /\ \A k \in known[r] : k >= target[r] => found =< k
              ELSE IF found = Null
              THEN \A k \in known[r] : k >= target[r]
              ELSE /\ found < target[r] /\ found \in Inserted
                   /\ \A k \in known[r] : k < target[r] => k =< found]_vars
=============================================================================
