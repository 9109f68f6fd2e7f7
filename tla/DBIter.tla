------------------------------- MODULE DBIter -------------------------------
(********************************************************************************)
(* An iterator over the database (db/db_iter.cc), on the merging iterator       *)
(* (table/merger.cc) over the memtable and the table files of the version       *)
(* it holds, while others keep writing into that memtable.                      *)
(*                                                                              *)
(* A child iterator goes through a memtable, a sorted set of entries, through a *)
(* file of level 0, or through the files of another level one after the other   *)
(* (Table).  One turn of a loop, which moves the merging iterator once, is one  *)
(* step.                                                                        *)
(********************************************************************************)
EXTENDS Table

CONSTANTS
    Level0Files,  \* bound: the files of level 0
    Levels,       \* bound: the levels below, deeper ones after
    BlockSize,    \* of each child on disk: when a block is full
    FileSize,     \* of each child on disk: when a file is full
    Flushed,      \* bound: how many writes there are before the iterator is made
    Newer         \* bound: how many of those are newer than its snapshot

ASSUME ChildrenAssumption == Level0Files \in Nat /\ Levels \in Nat
ASSUME FlushedAssumption == Flushed \in 0 .. MaxSeq /\ Newer \in 0 .. Flushed

Tables == Level0Files + Levels

ASSUME SizeAssumption == {BlockSize, FileSize} \subseteq [1 .. Tables -> Nat \ {0}]

MemTable == 0
Children == 0 .. Tables
NoChild  == Tables + 1
NoEntry  == [key |-> 0, seq |-> 0, type |-> "deletion"]
End      == [entry |-> NoEntry, place |-> Off]   \* a child not Valid()
NoKey    == 0

ASSUME NoKeyAssumption == NoKey \notin UserKeys

VARIABLES
    sequence,     \* sequence_: the iterator's snapshot
    lastSequence, \* last_sequence_
    content,      \* what is in each child
    files,        \* and how it is laid out on the disk
    pos,          \* where each child is, and the entry there (IteratorWrapper::key_)
    current,      \* current_ of MergingIterator
    forward,      \* direction_ of MergingIterator is kForward
    pc,           \* the loop that DBIter is in
    reverse,      \* direction_ of DBIter is kReverse
    valid,        \* valid_
    savedKey,     \* saved_key_
    savedValue,   \* saved_value_
    skipping,     \* the local of FindNextUserEntry
    valueType,    \* the local of FindPrevUserEntry
    goal          \* history: the key the last call had to reach

merger == <<pos, current, forward>>
locals == <<skipping, valueType>>
vars == <<sequence, lastSequence, content, files, merger, pc, reverse, valid,
          savedKey, savedValue, locals, goal>>

\* Where Flushed writes may be when the iterator is made: the memtable has the
\* last ones, and of a key the deeper table has the older entries.
Placed(c) ==
    /\ \A e \in c[MemTable], i \in 1 .. Tables : \A d \in c[i] : d.seq < e.seq
    /\ \A i, j \in Children : i < j =>
           \A e \in c[i], d \in c[j] : e.key = d.key => d.seq < e.seq

Init ==
    /\ lastSequence = Flushed
    /\ sequence \in Flushed - Newer .. Flushed
    /\ \E k \in [1 .. Flushed -> UserKeys], t \in [1 .. Flushed -> Types],
          w \in [1 .. Flushed -> Children] :
           content = [c \in Children |->
                         {[key |-> k[n], seq |-> n, type |-> t[n]] :
                              n \in {m \in 1 .. Flushed : w[m] = c}}]
    /\ Placed(content)
    /\ files = [c \in 1 .. Tables |->
                   LET s == Sorted(content[c])
                       f == IF c =< Level0Files THEN <<s>> ELSE Pieces(s, FileSize[c])
                   IN  [i \in DOMAIN f |-> TableOf(f[i], BlockSize[c])]]
    /\ pos = [c \in Children |-> End]
    /\ current = NoChild
    /\ forward = TRUE
    /\ pc = "idle"
    /\ reverse = FALSE
    /\ valid = FALSE
    /\ savedKey = NoKey
    /\ savedValue = 0
    /\ skipping = FALSE
    /\ valueType = "deletion"
    /\ goal = NoKey

-----------------------------------------------------------------------------
(* A child: the iterator of a memtable, of a table, or of a level.            *)

First(es) == IF es = {} THEN NoEntry ELSE CHOOSE e \in es : \A o \in es \ {e} : Before(e, o)
Last(es)  == IF es = {} THEN NoEntry ELSE CHOOSE e \in es : \A o \in es \ {e} : Before(o, e)

InMemTable(e) == [entry |-> e, place |-> Off]

InFiles(c, p) ==
    [entry |-> IF p = Off THEN NoEntry
               ELSE IF c =< Level0Files THEN TableEntry(files[c][1], p)
               ELSE LevelEntry(files[c], p),
     place |-> p]

ChildSeekToFirst(c) ==
    IF c = MemTable THEN InMemTable(First(content[c]))
    ELSE InFiles(c, IF c =< Level0Files THEN TableFirst(files[c][1]) ELSE LevelFirst(files[c]))

ChildSeekToLast(c) ==
    IF c = MemTable THEN InMemTable(Last(content[c]))
    ELSE InFiles(c, IF c =< Level0Files THEN TableLast(files[c][1]) ELSE LevelLast(files[c]))

ChildSeek(c, e) ==
    IF c = MemTable THEN InMemTable(First({o \in content[c] : ~ Before(o, e)}))
    ELSE InFiles(c, IF c =< Level0Files THEN TableSeek(files[c][1], e)
                    ELSE LevelSeek(files[c], e))

ChildNext(c, p) ==
    IF c = MemTable THEN InMemTable(First({o \in content[c] : Before(p.entry, o)}))
    ELSE InFiles(c, IF c =< Level0Files THEN TableNext(files[c][1], p.place)
                    ELSE LevelNext(files[c], p.place))

ChildPrev(c, p) ==
    IF c = MemTable THEN InMemTable(Last({o \in content[c] : Before(o, p.entry)}))
    ELSE InFiles(c, IF c =< Level0Files THEN TablePrev(files[c][1], p.place)
                    ELSE LevelPrev(files[c], p.place))

-----------------------------------------------------------------------------
(* MergingIterator.                                                         *)

FindSmallest(p) ==
    IF \A c \in Children : p[c] = End THEN NoChild
    ELSE CHOOSE c \in Children :
             /\ p[c] # End
             /\ \A d \in Children \ {c} : p[d] # End => Before(p[c].entry, p[d].entry)

FindLargest(p) ==
    IF \A c \in Children : p[c] = End THEN NoChild
    ELSE CHOOSE c \in Children :
             /\ p[c] # End
             /\ \A d \in Children \ {c} : p[d] # End => Before(p[d].entry, p[c].entry)

\* All children at p, and the first of them, or the last, is the current one.
Ahead(p) == pos' = p /\ current' = FindSmallest(p) /\ forward' = TRUE
Back(p)  == pos' = p /\ current' = FindLargest(p) /\ forward' = FALSE

MergingSeekToFirst == Ahead([c \in Children |-> ChildSeekToFirst(c)])
MergingSeekToLast  == Back([c \in Children |-> ChildSeekToLast(c)])
MergingSeek(e)     == Ahead([c \in Children |-> ChildSeek(c, e)])

Entry == pos[current].entry

\* Mutation: the children are left where they are when the direction changes.
MergingNextUnturned ==
    Ahead([c \in Children |-> IF c = current THEN ChildNext(c, pos[c]) ELSE pos[c]])

\* A child past the current entry, or before it.
MovedPast(c) ==
    LET p == ChildSeek(c, Entry)
    IN  IF p # End /\ p.entry = Entry THEN ChildNext(c, p) ELSE p

\* The children that are not the current one are brought to the other side of
\* the current entry when the direction changes.
MergingNext ==
    Ahead([c \in Children |-> IF c = current THEN ChildNext(c, pos[c])
                              ELSE IF forward THEN pos[c] ELSE MovedPast(c)])

Turned(c) ==
    LET p == ChildSeek(c, Entry)
    IN  IF p = End THEN ChildSeekToLast(c) ELSE ChildPrev(c, p)

MergingPrev ==
    Back([c \in Children |-> IF c = current THEN ChildPrev(c, pos[c])
                             ELSE IF forward THEN Turned(c) ELSE pos[c]])

-----------------------------------------------------------------------------
(* DBIter.                                                                  *)

\* The keys an iterator at its snapshot is to show.
Written == UNION {content[c] : c \in Children}
Shown   == {k \in UserKeys : Latest(Written, k, sequence) # 0}

Least(ks)    == IF ks = {} THEN NoKey ELSE CHOOSE k \in ks : \A o \in ks : k =< o
Greatest(ks) == IF ks = {} THEN NoKey ELSE CHOOSE k \in ks : \A o \in ks : o =< k

Key   == IF reverse THEN savedKey ELSE Entry.key
Value == IF reverse THEN savedValue ELSE Entry.seq

\* FindNextUserEntry is entered if the merging iterator is on an entry; if it is
\* not, the iterator ends.
EnterFindNext(skip) ==
    /\ pc' = IF current' = NoChild THEN "idle" ELSE "next"
    /\ valid' = IF current' = NoChild THEN FALSE ELSE valid
    /\ skipping' = skip

Seek(target) ==
    /\ pc = "idle"
    /\ goal' = Least({k \in Shown : k >= target})
    /\ reverse' = FALSE
    /\ MergingSeek([key |-> target, seq |-> sequence])
    /\ savedKey' = target
    /\ savedValue' = 0
    /\ EnterFindNext(FALSE)
    /\ UNCHANGED <<sequence, lastSequence, content, files, valueType>>

SeekToFirst ==
    /\ pc = "idle"
    /\ goal' = Least(Shown)
    /\ reverse' = FALSE
    /\ MergingSeekToFirst
    /\ savedValue' = 0
    /\ EnterFindNext(FALSE)
    /\ UNCHANGED <<sequence, lastSequence, content, files, savedKey, valueType>>

SeekToLast ==
    /\ pc = "idle"
    /\ goal' = Greatest(Shown)
    /\ reverse' = TRUE
    /\ savedValue' = 0
    /\ MergingSeekToLast
    /\ pc' = "prev"
    /\ valueType' = "deletion"
    /\ UNCHANGED <<sequence, lastSequence, content, files, valid, savedKey, skipping>>

\* Forward, the entry's key is the one to skip.  In reverse the merging iterator
\* is before the entries of saved_key_, or off the start, and has to turn.
NextKey ==
    /\ pc = "idle"
    /\ valid
    /\ goal' = Least({k \in Shown : k > Key})
    /\ reverse' = FALSE
    /\ IF ~ reverse
       THEN /\ savedKey' = Entry.key
            /\ UNCHANGED merger
            /\ EnterFindNext(TRUE)
       ELSE /\ IF current = NoChild THEN MergingSeekToFirst ELSE MergingNext
            /\ savedKey' = IF current' = NoChild THEN NoKey ELSE savedKey
            /\ EnterFindNext(TRUE)
    /\ UNCHANGED <<sequence, lastSequence, content, files, savedValue, valueType>>

\* An entry of the key to skip, or of one before it.
Hidden(e) == skipping /\ e.key =< savedKey

\* One turn of the loop in FindNextUserEntry.
FindNextUserEntry ==
    /\ pc = "next"
    /\ LET e    == Entry
           sees == e.seq =< sequence
       IN  IF sees /\ e.type = "value" /\ ~ Hidden(e)
           THEN /\ valid' = TRUE
                /\ savedKey' = NoKey
                /\ pc' = "idle"
                /\ UNCHANGED <<merger, skipping>>
           ELSE /\ MergingNext
                /\ skipping' = (skipping \/ (sees /\ e.type = "deletion"))
                /\ savedKey' = IF current' = NoChild THEN NoKey
                               ELSE IF sees /\ e.type = "deletion" THEN e.key ELSE savedKey
                /\ valid' = IF current' = NoChild THEN FALSE ELSE valid
                /\ pc' = IF current' = NoChild THEN "idle" ELSE "next"
    /\ UNCHANGED <<sequence, lastSequence, content, files, reverse, savedValue, valueType, goal>>

PrevKey ==
    /\ pc = "idle"
    /\ valid
    /\ goal' = Greatest({k \in Shown : k < Key})
    /\ savedKey' = Key
    /\ valueType' = "deletion"
    /\ pc' = IF reverse THEN "prev" ELSE "turn"
    /\ UNCHANGED <<sequence, lastSequence, content, files, merger, reverse, valid, savedValue, skipping>>

\* One turn of the loop that scans backwards until the key changes.
Turn ==
    /\ pc = "turn"
    /\ MergingPrev
    /\ LET ended == current' = NoChild
           past  == ~ ended /\ pos'[current'].entry.key < savedKey
       IN  /\ valid' = IF ended THEN FALSE ELSE valid
           /\ savedKey' = IF ended THEN NoKey ELSE savedKey
           /\ savedValue' = IF ended THEN 0 ELSE savedValue
           /\ pc' = IF ended THEN "idle" ELSE IF past THEN "prev" ELSE "turn"
           /\ reverse' = past
    /\ UNCHANGED <<sequence, lastSequence, content, files, locals, goal>>

\* The end of FindPrevUserEntry.
ReturnPrev(type) ==
    /\ pc' = "idle"
    /\ valid' = (type # "deletion")
    /\ reverse' = (type # "deletion")

\* An entry of a key before the one that was found: break.
FoundPrev ==
    /\ ReturnPrev(valueType)
    /\ UNCHANGED <<merger, savedKey, savedValue, valueType>>

\* One turn of the loop in FindPrevUserEntry: it goes back until it has seen all
\* entries of a key, the newest last, and that one is a value.
FindPrevUserEntry ==
    /\ pc = "prev"
    /\ IF current = NoChild
       THEN /\ ReturnPrev(valueType)
            /\ savedKey' = IF valueType = "deletion" THEN NoKey ELSE savedKey
            /\ savedValue' = IF valueType = "deletion" THEN 0 ELSE savedValue
            /\ UNCHANGED <<merger, valueType>>
       ELSE LET e    == Entry
                sees == e.seq =< sequence
            IN  IF sees /\ valueType # "deletion" /\ e.key < savedKey
                THEN FoundPrev
                ELSE /\ MergingPrev
                     /\ valueType' = IF sees THEN e.type ELSE valueType
                     /\ savedKey' = IF ~ sees THEN savedKey
                                    ELSE IF e.type = "value" THEN e.key ELSE NoKey
                     /\ savedValue' = IF ~ sees THEN savedValue
                                      ELSE IF e.type = "value" THEN e.seq ELSE 0
                     /\ UNCHANGED <<pc, valid, reverse>>
    /\ UNCHANGED <<sequence, lastSequence, content, files, skipping, goal>>

\* Mutation: the last sequence number is moved past an entry that is not there.
WriteTwo(k, type) ==
    /\ lastSequence < MaxSeq
    /\ lastSequence' = lastSequence + 2
    /\ content' = [content EXCEPT ![MemTable] =
                      @ \cup {[key |-> k, seq |-> lastSequence + 1, type |-> type]}]
    /\ UNCHANGED <<sequence, files, merger, pc, reverse, valid, savedKey, savedValue, locals, goal>>

\* Somebody writes into the memtable, between any two steps of the iterator.
Write(k, type) ==
    /\ lastSequence < MaxSeq
    /\ lastSequence' = lastSequence + 1
    /\ content' = [content EXCEPT ![MemTable] =
                      @ \cup {[key |-> k, seq |-> lastSequence + 1, type |-> type]}]
    /\ UNCHANGED <<sequence, files, merger, pc, reverse, valid, savedKey, savedValue, locals, goal>>

Next ==
    \/ \E k \in UserKeys : Seek(k)
    \/ SeekToFirst
    \/ SeekToLast
    \/ NextKey
    \/ FindNextUserEntry
    \/ PrevKey
    \/ Turn
    \/ FindPrevUserEntry
    \/ \E k \in UserKeys, type \in Types : Write(k, type)

Spec == Init /\ [][Next]_vars

-----------------------------------------------------------------------------
TypeOK ==
    /\ sequence \in 0 .. MaxSeq
    /\ lastSequence \in 0 .. MaxSeq
    /\ content \in [Children -> SUBSET Entries]
    /\ \A c \in Children : pos[c] = End \/ pos[c].entry \in content[c]
    /\ current \in Children \cup {NoChild}
    /\ forward \in BOOLEAN /\ reverse \in BOOLEAN
    /\ valid \in BOOLEAN /\ skipping \in BOOLEAN
    /\ pc \in {"idle", "next", "prev", "turn"}
    /\ savedKey \in UserKeys \cup {NoKey}
    /\ savedValue \in 0 .. MaxSeq
    /\ valueType \in Types
    /\ goal \in UserKeys \cup {NoKey}

\* After any sequence of Seek, SeekToFirst, SeekToLast, Next and Prev, turning
\* round as often as it likes, the iterator is on the key that its snapshot says
\* is next, with the value it had then, or is not valid when there is none; and
\* it stays there while others write around it.
IteratorIsExact ==
    pc = "idle" =>
        IF goal = NoKey THEN ~ valid
        ELSE valid /\ Key = goal /\ Value = Latest(Written, goal, sequence)

\* "If we are moving in the forward direction, it is already true for all of the
\* non-current_ children", and the same in reverse (merger.cc): no child has left
\* behind an entry that the iterator may see and has not come to, though the
\* memtable gets entries between a child's place and the current one.
ChildrenMissNothing ==
    current # NoChild =>
        \A c \in Children : \A e \in content[c] :
            e.seq =< sequence /\ c # current =>
                IF forward THEN Before(Entry, e) => pos[c] # End /\ ~ Before(e, pos[c].entry)
                ELSE Before(e, Entry) => pos[c] # End /\ ~ Before(pos[c].entry, e)

\* "When moving backwards, the internal iterator is positioned just before all
\* entries whose user key == this->key()" (db_iter.cc:45).
ReverseIsJustBefore ==
    pc = "idle" /\ valid /\ reverse =>
        \A e \in Written :
            e.seq =< sequence =>
                (e.key < savedKey <=> current # NoChild /\ ~ Before(Entry, e))
=============================================================================
