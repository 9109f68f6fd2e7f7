----------------------------- MODULE VersionSet -----------------------------
(****************************************************************************)
(* Where leveldb keeps an entry, and how it is found again: the memtable,   *)
(* the levels of table files of the current version, and the background     *)
(* work that moves entries down them (db/version_set.cc, and the parts of   *)
(* db/db_impl.cc that flush a memtable and run a compaction).               *)
(*                                                                          *)
(* A table file is the set of its entries.  Only flushes write files of     *)
(* level 0, in the order of their sequence numbers, so that the newest file *)
(* there is the one with the greatest.  Sizes only decide when work is done *)
(* and where a file ends: any choice is allowed.                            *)
(****************************************************************************)
EXTENDS DBFormat

CONSTANTS
    NumLevels,            \* config::kNumLevels
    MaxMemCompactLevel,   \* config::kMaxMemCompactLevel
    MaxSnapshots          \* bound: the snapshots held at the same time

ASSUME LevelsAssumption == /\ NumLevels \in Nat /\ MaxMemCompactLevel \in Nat
                           /\ MaxMemCompactLevel < NumLevels
ASSUME SnapshotsAssumption == MaxSnapshots \in Nat

Levels  == 0 .. NumLevels - 1
Idle    == [level |-> -1]

VARIABLES
    lastSequence,   \* last_sequence_
    mem,            \* mem_ and imm_: the entries in no table yet
    files,          \* files_[level] of the current version
    snapshots,      \* the sequence numbers in snapshots_
    compaction,     \* the compaction that runs without the mutex, or Idle
    written,        \* history: every entry ever written
    torn,           \* history: a compaction took a key's newer entry only
    held            \* history: somebody has taken a snapshot

vars == <<lastSequence, mem, files, snapshots, compaction, written, torn, held>>

Init ==
    /\ lastSequence = 0
    /\ mem = {}
    /\ files = [l \in Levels |-> {}]
    /\ snapshots = {}
    /\ compaction = Idle
    /\ written = {}
    /\ torn = FALSE
    /\ held = FALSE

-----------------------------------------------------------------------------
(* Files and ranges.                                                        *)

Smallest(f) == CHOOSE e \in f : \A o \in f \ {e} : Before(e, o)
Largest(f)  == CHOOSE e \in f : \A o \in f \ {e} : Before(o, e)

Newest(f) == CHOOSE n \in {e.seq : e \in f} : \A e \in f : e.seq =< n

\* The range of user keys of some files: VersionSet::GetRange.
GetRange(fs) ==
    [lo |-> CHOOSE k \in {Smallest(f).key : f \in fs} :
                \A f \in fs : k =< Smallest(f).key,
     hi |-> CHOOSE k \in {Largest(f).key : f \in fs} :
                \A f \in fs : Largest(f).key =< k]

\* Not BeforeFile and not AfterFile.
Overlaps(f, r) == r.lo =< Largest(f).key /\ Smallest(f).key =< r.hi

Within(f, r) == r.lo =< Smallest(f).key /\ Largest(f).key =< r.hi

\* The binary search: the first file whose last entry is not before (k, s).
FindFile(fs, k, s) ==
    LET after == {f \in fs : ~ Before(Largest(f), [key |-> k, seq |-> s])}
    IN  {f \in after : \A g \in after \ {f} : Before(Largest(f), Largest(g))}

\* A level above 0 is searched for the only file that could hold the range's
\* first key or the next one.
OverlapInLevel(l, r) ==
    IF l = 0 THEN \E f \in files[0] : Overlaps(f, r)
    ELSE \E f \in FindFile(files[l], r.lo, MaxSeq + 1) : Smallest(f).key =< r.hi

\* Version::GetOverlappingInputs: in level 0 the range grows until no file
\* sticks out of it.
GetOverlappingInputs(l, r) ==
    LET closed == {q \in [lo : UserKeys, hi : UserKeys] :
                      /\ q.lo =< r.lo /\ r.hi =< q.hi
                      /\ \A f \in files[0] : Overlaps(f, q) => Within(f, q)}
        least  == CHOOSE q \in closed : \A o \in closed : o.lo =< q.lo /\ q.hi =< o.hi
    IN  {f \in files[l] : Overlaps(f, IF l = 0 THEN least ELSE r)}

-----------------------------------------------------------------------------
(* Reads.                                                                   *)

NotFound == [seq |-> 0, type |-> "deletion"]

\* The files that Version::Get reads at a level, those of level 0 newest first.
Candidates(l, k, s) ==
    IF l = 0
    THEN {f \in files[0] : Overlaps(f, [lo |-> k, hi |-> k])}
    ELSE {f \in FindFile(files[l], k, s) : Smallest(f).key =< k}

\* The levels in order; in each the first file that has the key ends the search.
VersionGet(k, s) ==
    LET hit(l)   == {f \in Candidates(l, k, s) : Visible(f, k, s) # {}}
        level    == CHOOSE l \in Levels : hit(l) # {} /\ \A m \in 0 .. l - 1 : hit(m) = {}
        file     == CHOOSE f \in hit(level) : \A g \in hit(level) : Newest(g) =< Newest(f)
    IN  IF \A l \in Levels : hit(l) = {} THEN NotFound ELSE FirstVisible(file, k, s)

\* DBImpl::Get: the memtables first; a deletion is an answer like a value.
Get(k, s) ==
    LET e == IF Visible(mem, k, s) # {} THEN FirstVisible(mem, k, s) ELSE VersionGet(k, s)
    IN  IF e.type = "value" THEN e.seq ELSE 0

-----------------------------------------------------------------------------
(* Writes, snapshots and flushes.                                           *)

Write(k, type) ==
    /\ lastSequence < MaxSeq
    /\ lastSequence' = lastSequence + 1
    /\ LET e == [key |-> k, seq |-> lastSequence + 1, type |-> type]
       IN  mem' = mem \cup {e} /\ written' = written \cup {e}
    /\ UNCHANGED <<files, snapshots, compaction, torn, held>>

\* Two snapshots of the same number are one here: one can only be held longer.
GetSnapshot ==
    /\ Cardinality(snapshots) < MaxSnapshots
    /\ snapshots' = snapshots \cup {lastSequence}
    /\ held' = TRUE
    /\ UNCHANGED <<lastSequence, mem, files, compaction, written, torn>>

ReleaseSnapshot(s) ==
    /\ snapshots' = snapshots \ {s}
    /\ UNCHANGED <<lastSequence, mem, files, compaction, written, torn, held>>

\* Mutation: the level it goes to is not looked at.
PickLevelUnseen(r) ==
    {level \in 0 .. MaxMemCompactLevel :
        /\ level > 0 => \A l \in 0 .. level - 1 : ~ OverlapInLevel(l, r)
        /\ \/ level = MaxMemCompactLevel
           \/ \E l \in {0, level + 1} : OverlapInLevel(l, r)
           \/ level + 2 < NumLevels /\ GetOverlappingInputs(level + 2, r) # {}}

\* Version::PickLevelForMemTableOutput: down while nothing overlaps, and while
\* what overlaps one level further, if anything, is not too much.
PickLevelForMemTableOutput(r) ==
    {level \in 0 .. MaxMemCompactLevel :
        /\ level > 0 => \A l \in 0 .. level : ~ OverlapInLevel(l, r)
        /\ \/ level = MaxMemCompactLevel
           \/ \E l \in {0, level + 1} : OverlapInLevel(l, r)
           \/ level + 2 < NumLevels /\ GetOverlappingInputs(level + 2, r) # {}}

\* CompactMemTable, with a compaction running or not.  imm_ holds the writes up
\* to some point, which the switch of memtables fixed.
CompactMemTable(last) ==
    LET imm == {e \in mem : e.seq =< last}
    IN  /\ imm # {}
        /\ \E level \in PickLevelForMemTableOutput(GetRange({imm})) :
               files' = [files EXCEPT ![level] = @ \cup {imm}]
        /\ mem' = mem \ imm
        /\ UNCHANGED <<lastSequence, snapshots, compaction, written, torn, held>>

-----------------------------------------------------------------------------
(* Compactions.                                                             *)

\* SetupOtherInputs: the files of the next level, then those of this level that
\* come for free, unless they are too many bytes.
SetupOtherInputs(l, in0) ==
    LET in1       == GetOverlappingInputs(l + 1, GetRange(in0))
        expanded0 == GetOverlappingInputs(l, GetRange(in0 \cup in1))
        expanded1 == GetOverlappingInputs(l + 1, GetRange(expanded0))
    IN  {<<in0, in1>>} \cup
        IF /\ in1 # {}
           /\ Cardinality(expanded0) > Cardinality(in0)
           /\ Cardinality(expanded1) = Cardinality(in1)
        THEN {<<expanded0, expanded1>>} ELSE {}

\* PickCompaction: a level too large, or a file read too often for nothing,
\* chooses one file; in level 0 all that overlap with it come along.
PickCompaction(l, f) ==
    SetupOtherInputs(l, IF l = 0 THEN GetOverlappingInputs(0, GetRange({f})) ELSE {f})

\* Mutation: the search for older entries starts a level too deep.
HigherByOne(l) == UNION {files[m] : m \in l + 3 .. NumLevels - 1}

\* The files of the input version at least two levels down.
Higher(l) == UNION {files[m] : m \in l + 2 .. NumLevels - 1}

\* Inputs taken from level l leave a file there with an older entry of a key of
\* theirs: two entries of a key may be on both sides of a cut, and the ranges of
\* user keys are only compared where the code fills in a level's inputs.
LeavesOlder(l, inputs) ==
    \E f \in files[l] \ inputs, g \in inputs : \E e \in f, d \in g :
        e.key = d.key /\ e.seq < d.seq

Grandparents(l, inputs) ==
    IF l + 2 < NumLevels
    THEN GetOverlappingInputs(l + 2, GetRange(inputs[1] \cup inputs[2])) ELSE {}

IsTrivialMove(inputs) == Cardinality(inputs[1]) = 1 /\ inputs[2] = {}

TrivialMove(l, f) ==
    /\ compaction = Idle
    /\ \E inputs \in PickCompaction(l, f) :
           /\ IsTrivialMove(inputs)
           /\ files' = [files EXCEPT ![l] = @ \ inputs[1], ![l + 1] = @ \cup inputs[1]]
           /\ torn' = (torn \/ LeavesOlder(l, inputs[1]))
    /\ UNCHANGED <<lastSequence, mem, snapshots, compaction, written, held>>

\* Mutation: without a snapshot, the last write is not counted.
SmallestSnapshotLate ==
    IF snapshots = {} THEN lastSequence - 1
    ELSE CHOOSE s \in snapshots : \A o \in snapshots : s =< o

\* The oldest state that somebody may still read.
SmallestSnapshot ==
    IF snapshots = {} THEN lastSequence
    ELSE CHOOSE s \in snapshots : \A o \in snapshots : s =< o

\* DoCompactionWork up to where it lets the mutex go.  A move is no compaction
\* unless it would put too much under the file.
StartCompaction(l, f) ==
    /\ compaction = Idle
    /\ \E inputs \in PickCompaction(l, f) :
           /\ IsTrivialMove(inputs) => Grandparents(l, inputs) # {}
           /\ compaction' = [level |-> l, in0 |-> inputs[1], in1 |-> inputs[2],
                             higher |-> Higher(l),
                             smallest |-> SmallestSnapshot]
    /\ UNCHANGED <<lastSequence, mem, files, snapshots, written, torn, held>>

IsBaseLevelForKey(k) ==
    \A f \in compaction.higher : ~ Overlaps(f, [lo |-> k, hi |-> k])

\* (A) a newer entry of the key that every snapshot sees hides e; or e deletes
\* what is nowhere.
Drop(e, input) ==
    LET newer == {o.seq : o \in {o \in input : o.key = e.key /\ o.seq > e.seq}}
    IN  \/ \E n \in newer : n =< compaction.smallest
        \/ /\ e.type = "deletion"
           /\ e.seq =< compaction.smallest
           /\ IsBaseLevelForKey(e.key)

\* Mutation: a compaction that keeps nothing leaves an empty file.
OutputsNeverNone(keep) ==
    IF keep = {} THEN {{{}}}
    ELSE {{{e \in keep : /\ ~ Before(c, e)
                         /\ \A d \in cuts : Before(d, c) => Before(d, e)} : c \in cuts} :
             cuts \in {c \in SUBSET keep : Largest(keep) \in c}}

\* The loop's output files: the entries that are kept, cut after any of them.
Outputs(keep) ==
    {{{e \in keep : /\ ~ Before(c, e)
                    /\ \A d \in cuts : Before(d, c) => Before(d, e)} : c \in cuts} :
        cuts \in {c \in SUBSET keep : keep # {} => Largest(keep) \in c}}

FinishCompaction ==
    /\ compaction # Idle
    /\ LET l     == compaction.level
           input == UNION (compaction.in0 \cup compaction.in1)
           keep  == {e \in input : ~ Drop(e, input)}
       IN  /\ \E out \in Outputs(keep) :
                  files' = [files EXCEPT ![l] = @ \ compaction.in0,
                                         ![l + 1] = (@ \ compaction.in1) \cup out]
           /\ torn' = (torn \/ LeavesOlder(l, compaction.in0) \/ LeavesOlder(l + 1, compaction.in1))
    /\ compaction' = Idle
    /\ UNCHANGED <<lastSequence, mem, snapshots, written, held>>

-----------------------------------------------------------------------------
Next ==
    \/ \E k \in UserKeys, type \in Types : Write(k, type)
    \/ GetSnapshot
    \/ \E s \in snapshots : ReleaseSnapshot(s)
    \/ \E last \in 1 .. lastSequence : CompactMemTable(last)
    \/ \E l \in 0 .. NumLevels - 2 : \E f \in files[l] :
           TrivialMove(l, f) \/ StartCompaction(l, f)
    \/ FinishCompaction

Spec == Init /\ [][Next]_vars

-----------------------------------------------------------------------------
TypeOK ==
    /\ lastSequence \in 0 .. MaxSeq
    /\ mem \subseteq Entries
    /\ files \in [Levels -> SUBSET ((SUBSET Entries) \ {{}})]
    /\ snapshots \subseteq 0 .. lastSequence
    /\ written \subseteq Entries
    /\ torn \in BOOLEAN
    /\ held \in BOOLEAN
    /\ compaction # Idle =>
           /\ compaction.level \in 0 .. NumLevels - 2
           /\ compaction.in0 \subseteq files[compaction.level]
           /\ compaction.in1 \subseteq files[compaction.level + 1]
           /\ compaction.smallest \in 0 .. lastSequence

\* The files of a level above 0 have ranges of entries that do not overlap,
\* though a memtable may be put down in the middle of a compaction: what
\* Builder::SaveTo asserts ("Make sure there is no overlap in levels > 0") and
\* every binary search relies on.
LevelsDisjoint ==
    \A l \in Levels \ {0} : \A f, g \in files[l] :
        f # g => Before(Largest(f), Smallest(g)) \/ Before(Largest(g), Smallest(f))

\* A read of the current state or of a snapshot finds the newest entry it may
\* see, and no deleted one comes back, wherever flushes, moves and compactions
\* have put the entries: as long as no compaction took a newer entry of a key
\* and left an older one in the next file.  After that the older one may be
\* above the newer, or come back when the newer was a deletion and was dropped.
ReadsAreCurrent ==
    ~ torn => \A k \in UserKeys, s \in snapshots \cup {lastSequence} :
                    Get(k, s) = Latest(written, k, s)

\* And that takes a snapshot: where none was ever taken, as in this app, every
\* compaction keeps one entry of a key and there is nothing to tear apart.
TearNeedsSnapshot == torn => held

\* version_set.cc:346-348 "We can search level-by-level since entries never hop
\* across levels.  Therefore we are guaranteed that if we find data in an
\* smaller level, later levels are irrelevant."
EntriesNeverHop ==
    \A l \in Levels : \A m \in l + 1 .. NumLevels - 1 :
        \A e \in UNION files[l], d \in UNION files[m] :
            e.key = d.key => e.seq > d.seq
=============================================================================
