-------------------------- MODULE VersionSet_proofs --------------------------
(***************************************************************************)
(* For any number of keys, levels, writes and snapshots: the files of a    *)
(* level above 0 never overlap, and a read finds the newest entry.         *)
(*                                                                         *)
(* A compaction reads its inputs without the mutex, and a memtable may be  *)
(* put into the level it writes to meanwhile. That file overlaps none of   *)
(* the inputs, but an output has entries of several of them: what saves    *)
(* the level is that the inputs leave no gap for such a file to be in      *)
(* (VInv, the first half).                                                 *)
(*                                                                         *)
(* A read stops at the first level that has the key, so the levels must be *)
(* in the order of age key by key; a compaction drops what a newer entry   *)
(* hides from all readers, and a deletion of what is nowhere else: both    *)
(* rest on what was put down before and during the compaction (RInv, the   *)
(* second half).                                                           *)
(***************************************************************************)
EXTENDS VersionSet, FiniteSetTheorems, TLAPS

\* A table or a memtable: not empty, finite, and of what was written.
File(f) == f # {} /\ IsFiniteSet(f) /\ f \subseteq written

Files(fs) == IsFiniteSet(fs) /\ \A f \in fs : File(f)

Numbered ==
    /\ written \subseteq Entries
    /\ \A e \in written : e.seq =< lastSequence
    /\ \A e, d \in written : e.seq = d.seq => e = d

Stored ==
    /\ IsFiniteSet(mem) /\ mem \subseteq written
    /\ \A l \in Levels : Files(files[l])

\* All entries of one set come before all of the other.
Ahead(f, g) == \A e \in f, d \in g : Before(e, d)

Disjoint(fs) == \A f, g \in fs : f # g => Ahead(f, g) \/ Ahead(g, f)

LevelsApart == \A l \in Levels \ {0} : Disjoint(files[l])

\* Where no file overlaps with the user keys from a to b, all the files are on
\* one side of them.
NoGap(fs) ==
    \A a, b \in Int :
        /\ a =< b
        /\ \A f \in fs : Largest(f).key < a \/ b < Smallest(f).key
        => \/ \A f \in fs : Largest(f).key < a
           \/ \A f \in fs : b < Smallest(f).key

Inputs == compaction.in0 \cup compaction.in1

\* What a compaction will write fits between the files that it leaves there.
CompactionFits ==
    compaction # Idle =>
        /\ compaction.in0 # {}
        /\ NoGap(Inputs)
        /\ \A g \in files[compaction.level + 1] \ compaction.in1 :
              Ahead(UNION Inputs, g) \/ Ahead(g, UNION Inputs)

VInv == TypeOK /\ Numbered /\ Stored /\ LevelsApart /\ CompactionFits

-----------------------------------------------------------------------------
(* Finite sets have a first and a last element.                              *)

\* A strict order on a finite set has a minimal element: one with the fewest
\* below it.
LEMMA Minimal ==
    ASSUME NEW S, IsFiniteSet(S), S # {}, NEW R,
           \A x \in S : <<x, x>> \notin R,
           \A x, y, z \in S : <<x, y>> \in R /\ <<y, z>> \in R => <<x, z>> \in R
    PROVE  \E m \in S : \A x \in S : <<x, m>> \notin R
<1> DEFINE Below(y) == {x \in S : <<x, y>> \in R}
           T == {Below(y) : y \in S}
<1>1. T \subseteq FiniteSubsetsOf(S) /\ T # {}
  <2>1. \A y \in S : Below(y) \in SUBSET S /\ IsFiniteSet(Below(y))
    BY FS_Subset
  <2>2. \A y \in S : Below(y) \in FiniteSubsetsOf(S)
    BY <2>1 DEF FiniteSubsetsOf
  <2> HIDE DEF Below
  <2> QED
    BY <2>2
<1>2. PICK t \in T : \A u \in T : <<u, t>> \notin StrictSubsetOrdering(S)
  <2> HIDE DEF T
  <2> QED
    BY <1>1, FS_StrictSubsetOrderingWellFounded, WFMin
<1>3. PICK m \in S : t = Below(m)
  OBVIOUS
<1>4. ASSUME NEW x \in S, <<x, m>> \in R PROVE FALSE
  <2>1. Below(x) \subseteq Below(m)
    BY <1>4
  <2>2. x \in Below(m) /\ x \notin Below(x)
    BY <1>4
  <2>3. Below(x) \in T /\ Below(x) \in SUBSET S /\ Below(m) \in SUBSET S
    OBVIOUS
  <2>4. <<Below(x), Below(m)>> \in StrictSubsetOrdering(S)
    BY <2>1, <2>2, <2>3 DEF StrictSubsetOrdering
  <2> QED
    BY <1>2, <1>3, <2>3, <2>4
<1> QED
  BY <1>4

LEMMA LeastInt ==
    ASSUME NEW S \in SUBSET Int, IsFiniteSet(S), S # {}
    PROVE  \E m \in S : \A x \in S : m =< x
<1> DEFINE R == {p \in Int \X Int : p[1] < p[2]}
<1>1. \A x, y \in Int : (<<x, y>> \in R <=> x < y) /\ (~(x < y) => y =< x)
  OBVIOUS
<1> HIDE DEF R
<1>2. \E m \in S : \A x \in S : <<x, m>> \notin R
  <2>1. \A x \in S : <<x, x>> \notin R
    BY <1>1
  <2>2. \A x, y, z \in S : <<x, y>> \in R /\ <<y, z>> \in R => <<x, z>> \in R
    BY <1>1
  <2> QED
    BY <2>1, <2>2, Minimal
<1>3. PICK m \in S : \A x \in S : <<x, m>> \notin R
  BY <1>2
<1> QED
  BY <1>1, <1>3

LEMMA GreatestInt ==
    ASSUME NEW S \in SUBSET Int, IsFiniteSet(S), S # {}
    PROVE  \E m \in S : \A x \in S : x =< m
<1> DEFINE R == {p \in Int \X Int : p[2] < p[1]}
<1>1. \A x, y \in Int : (<<x, y>> \in R <=> y < x) /\ (~(y < x) => x =< y)
  OBVIOUS
<1> HIDE DEF R
<1>2. \E m \in S : \A x \in S : <<x, m>> \notin R
  <2>1. \A x \in S : <<x, x>> \notin R
    BY <1>1
  <2>2. \A x, y, z \in S : <<x, y>> \in R /\ <<y, z>> \in R => <<x, z>> \in R
    BY <1>1
  <2> QED
    BY <2>1, <2>2, Minimal
<1>3. PICK m \in S : \A x \in S : <<x, m>> \notin R
  BY <1>2
<1> QED
  BY <1>1, <1>3

-----------------------------------------------------------------------------
(* Entries and files.                                                        *)

LEMMA EntryType ==
    ASSUME NEW e \in Entries
    PROVE  e.key \in UserKeys /\ e.key \in Int /\ e.seq \in Int /\ e.seq =< MaxSeq
<1>1. e.key \in UserKeys /\ e.seq \in 1 .. MaxSeq
  BY DEF Entries
<1>2. e.key \in Int
  BY <1>1, KeysAssumption
<1>3. \A n \in 1 .. MaxSeq : n \in Int /\ n =< MaxSeq
  BY SeqAssumption
<1> QED
  BY <1>1, <1>2, <1>3

\* The entries are in a strict order, and any two that were written compare.
LEMMA Order ==
    ASSUME Numbered
    PROVE  /\ \A e \in written : ~ Before(e, e)
           /\ \A e, d, c \in written : Before(e, d) /\ Before(d, c) => Before(e, c)
           /\ \A e, d \in written : e = d \/ Before(e, d) \/ Before(d, e)
           /\ \A e, d \in written : Before(e, d) => e.key =< d.key /\ ~ Before(d, e)
           /\ \A e, d \in written : e.key < d.key => Before(e, d)
<1>1. \A e \in written : e.key \in Int /\ e.seq \in Int
  BY EntryType DEF Numbered
<1>2. \A e, d \in written : e.seq = d.seq => e = d
  BY DEF Numbered
<1> QED
  BY <1>1, <1>2 DEF Before

\* The first and the last entry of a file are its ends.
LEMMA Ends ==
    ASSUME Numbered, NEW f, File(f)
    PROVE  /\ Smallest(f) \in f /\ Smallest(f) \in written
           /\ \A o \in f : o = Smallest(f) \/ Before(Smallest(f), o)
           /\ Largest(f) \in f /\ Largest(f) \in written
           /\ \A o \in f : o = Largest(f) \/ Before(o, Largest(f))
<1> USE DEF File
<1>1. \E e \in f : \A o \in f \ {e} : Before(e, o)
  <2> DEFINE R == {p \in written \X written : Before(p[1], p[2])}
  <2>1. \A x, y \in written : <<x, y>> \in R <=> Before(x, y)
    OBVIOUS
  <2> HIDE DEF R
  <2>2. \A x \in f : <<x, x>> \notin R
    BY <2>1, Order
  <2>3. \A x, y, z \in f : <<x, y>> \in R /\ <<y, z>> \in R => <<x, z>> \in R
    BY <2>1, Order
  <2>4. \E m \in f : \A x \in f : <<x, m>> \notin R
    BY <2>2, <2>3, Minimal
  <2> QED
    BY <2>1, <2>4, Order
<1>2. \E e \in f : \A o \in f \ {e} : Before(o, e)
  <2> DEFINE R == {p \in written \X written : Before(p[2], p[1])}
  <2>1. \A x, y \in written : <<x, y>> \in R <=> Before(y, x)
    OBVIOUS
  <2> HIDE DEF R
  <2>2. \A x \in f : <<x, x>> \notin R
    BY <2>1, Order
  <2>3. \A x, y, z \in f : <<x, y>> \in R /\ <<y, z>> \in R => <<x, z>> \in R
    BY <2>1, Order
  <2>4. \E m \in f : \A x \in f : <<x, m>> \notin R
    BY <2>2, <2>3, Minimal
  <2> QED
    BY <2>1, <2>4, Order
<1> QED
  BY <1>1, <1>2 DEF Smallest, Largest

\* And so are their keys.
LEMMA EndKeys ==
    ASSUME Numbered, NEW f, File(f)
    PROVE  /\ Smallest(f).key \in UserKeys /\ Smallest(f).key \in Int
           /\ Largest(f).key \in UserKeys /\ Largest(f).key \in Int
           /\ Smallest(f).key =< Largest(f).key
           /\ \A o \in f : /\ o.key \in Int
                           /\ Smallest(f).key =< o.key /\ o.key =< Largest(f).key
<1>1. \A e \in written : e.key \in UserKeys /\ e.key \in Int
  BY EntryType DEF Numbered
<1>2. f \subseteq written
  BY DEF File
<1>3. \A o \in f : Smallest(f).key =< o.key /\ o.key =< Largest(f).key
  BY <1>1, <1>2, Ends, Order
<1> QED
  BY <1>1, <1>2, <1>3, Ends

\* What Builder::SaveTo compares are the ends; it is enough.
LEMMA DisjointEnds ==
    ASSUME Numbered, NEW f, NEW g, File(f), File(g)
    PROVE  Ahead(f, g) <=> Before(Largest(f), Smallest(g))
<1>1. ASSUME Before(Largest(f), Smallest(g)), NEW e \in f, NEW d \in g
      PROVE  Before(e, d)
  <2>1. e \in written /\ d \in written
    BY DEF File
  <2>2. e = Largest(f) \/ Before(e, Largest(f))
    BY Ends
  <2>3. d = Smallest(g) \/ Before(Smallest(g), d)
    BY Ends
  <2>4. Before(e, Smallest(g))
    BY <1>1, <2>1, <2>2, Ends, Order
  <2> QED
    BY <2>1, <2>3, <2>4, Ends, Order
<1> QED
  BY <1>1, Ends DEF Ahead
-----------------------------------------------------------------------------
(* Ranges of user keys.                                                      *)

\* The files of a level, or some of them.
LEMMA SomeFiles ==
    ASSUME NEW fs, Files(fs), NEW gs, gs \subseteq fs
    PROVE  Files(gs)
BY FS_Subset DEF Files

LEMMA RangeOf ==
    ASSUME Numbered, NEW fs, Files(fs), fs # {}
    PROVE  LET r == GetRange(fs)
           IN  /\ r.lo \in UserKeys /\ r.lo \in Int /\ r.hi \in UserKeys /\ r.hi \in Int
               /\ r.lo =< r.hi
               /\ \A f \in fs : r.lo =< Smallest(f).key /\ Largest(f).key =< r.hi
               /\ \E f \in fs : Smallest(f).key = r.lo
               /\ \E f \in fs : Largest(f).key = r.hi
<1> DEFINE los == {Smallest(f).key : f \in fs}
           his == {Largest(f).key : f \in fs}
<1>1. \A f \in fs : /\ Smallest(f).key \in UserKeys /\ Smallest(f).key \in Int
                    /\ Largest(f).key \in UserKeys /\ Largest(f).key \in Int
                    /\ Smallest(f).key =< Largest(f).key
  BY EndKeys DEF Files
<1>2. IsFiniteSet(los) /\ IsFiniteSet(his)
  <2>1. [f \in fs |-> Smallest(f).key] \in Surjection(fs, los)
    BY DEF Surjection
  <2>2. [f \in fs |-> Largest(f).key] \in Surjection(fs, his)
    BY DEF Surjection
  <2> HIDE DEF los, his
  <2> QED
    BY <2>1, <2>2, FS_Surjection DEF Files
<1>3. los \in SUBSET Int /\ los # {} /\ his \in SUBSET Int /\ his # {}
  BY <1>1
<1>4. (\E m \in los : \A x \in los : m =< x) /\ (\E m \in his : \A x \in his : x =< m)
  <2> HIDE DEF los, his
  <2> QED
    BY <1>2, <1>3, LeastInt, GreatestInt
<1>5. GetRange(fs).lo \in los /\ \A f \in fs : GetRange(fs).lo =< Smallest(f).key
  BY <1>4 DEF GetRange
<1>6. GetRange(fs).hi \in his /\ \A f \in fs : Largest(f).key =< GetRange(fs).hi
  BY <1>4 DEF GetRange
<1>7. PICK f \in fs : Smallest(f).key = GetRange(fs).lo
  BY <1>5
<1>8. PICK g \in fs : Largest(g).key = GetRange(fs).hi
  BY <1>6
<1>9. GetRange(fs).lo =< Largest(f).key /\ Largest(f).key =< GetRange(fs).hi
  BY <1>1, <1>6, <1>7
<1>10. GetRange(fs).lo =< GetRange(fs).hi
  BY <1>1, <1>7, <1>8, <1>9
<1> QED
  BY <1>1, <1>5, <1>6, <1>7, <1>8, <1>10

\* Files that overlap with the range of others leave no gap that those did not.
LEMMA NoGapAdded ==
    ASSUME Numbered, NEW fs, Files(fs), fs # {}, NoGap(fs),
           NEW r, r.lo \in Int, r.hi \in Int,
           GetRange(fs).lo =< r.lo, r.hi =< GetRange(fs).hi,
           NEW gs, \A g \in gs : File(g) /\ Overlaps(g, r)
    PROVE  NoGap(fs \cup gs)
<1> SUFFICES ASSUME NEW a \in Int, NEW b \in Int, a =< b,
                    \A f \in fs \cup gs : Largest(f).key < a \/ b < Smallest(f).key
             PROVE  \/ \A f \in fs \cup gs : Largest(f).key < a
                    \/ \A f \in fs \cup gs : b < Smallest(f).key
  BY DEF NoGap
<1> DEFINE q == GetRange(fs)
<1>1. /\ q.lo \in Int /\ q.hi \in Int
      /\ \E f \in fs : Smallest(f).key = q.lo
      /\ \E f \in fs : Largest(f).key = q.hi
  BY RangeOf
<1>2. \A g \in gs : /\ Smallest(g).key \in Int /\ Largest(g).key \in Int
                    /\ r.lo =< Largest(g).key /\ Smallest(g).key =< r.hi
  BY EndKeys DEF Overlaps
<1>3. (\A f \in fs : Largest(f).key < a) \/ (\A f \in fs : b < Smallest(f).key)
  BY DEF NoGap
<1>4. CASE \A f \in fs : Largest(f).key < a
  <2>1. q.hi < a
    BY <1>1, <1>4
  <2>2. \A g \in gs : Largest(g).key < a
    BY <1>1, <1>2, <2>1
  <2> QED
    BY <1>4, <2>2
<1>5. CASE \A f \in fs : b < Smallest(f).key
  <2>1. b < q.lo
    BY <1>1, <1>5
  <2>2. \A g \in gs : b < Smallest(g).key
    BY <1>1, <1>2, <2>1
  <2> QED
    BY <1>5, <2>2
<1> QED
  BY <1>3, <1>4, <1>5

-----------------------------------------------------------------------------
(* The range that grows in level 0.                                          *)

Closed(r) ==
    {q \in [lo : UserKeys, hi : UserKeys] :
        /\ q.lo =< r.lo /\ r.hi =< q.hi
        /\ \A f \in files[0] : Overlaps(f, q) => Within(f, q)}

IsLeast(q, r) == q \in Closed(r) /\ \A o \in Closed(r) : o.lo =< q.lo /\ q.hi =< o.hi

\* What a search in a level returns.
LEMMA OverlappingIs ==
    ASSUME NEW l, NEW r
    PROVE  /\ l # 0 => GetOverlappingInputs(l, r) = {f \in files[l] : Overlaps(f, r)}
           /\ \A q : IsLeast(q, r) =>
                \E p : /\ IsLeast(p, r)
                       /\ GetOverlappingInputs(0, r) = {f \in files[0] : Overlaps(f, p)}
<1>1. ASSUME NEW q, IsLeast(q, r)
      PROVE  \E p : /\ IsLeast(p, r)
                    /\ GetOverlappingInputs(0, r) = {f \in files[0] : Overlaps(f, p)}
  <2> DEFINE p == CHOOSE p \in Closed(r) : \A o \in Closed(r) : o.lo =< p.lo /\ p.hi =< o.hi
  <2>1. IsLeast(p, r)
    BY <1>1 DEF IsLeast
  <2>2. GetOverlappingInputs(0, r) = {f \in files[0] : Overlaps(f, p)}
    BY DEF GetOverlappingInputs, Closed
  <2> QED
    BY <2>1, <2>2
<1> QED
  BY <1>1 DEF GetOverlappingInputs

\* The growing ends: ranges that no file sticks out of have such a range in
\* common.
LEMMA LeastExists ==
    ASSUME Numbered, Stored, NEW r, r.lo \in UserKeys, r.hi \in UserKeys, r.lo =< r.hi
    PROVE  \E q : IsLeast(q, r)
<1>1. /\ r.lo \in Int /\ r.hi \in Int
      /\ \A q \in Closed(r) : q.lo \in Int /\ q.hi \in Int
  BY KeysAssumption DEF Closed
<1>2. Files(files[0])
  BY LevelsAssumption DEF Stored, Levels
<1>3. \A f \in files[0] :
        /\ Smallest(f).key \in UserKeys /\ Smallest(f).key \in Int
        /\ Largest(f).key \in UserKeys /\ Largest(f).key \in Int
        /\ Smallest(f).key =< Largest(f).key
  BY <1>2, EndKeys DEF Files
<1>4. \E q : q \in Closed(r)
  <2>1. CASE files[0] = {}
    <3>1. [lo |-> r.lo, hi |-> r.hi] \in Closed(r)
      BY <1>1, <2>1 DEF Closed
    <3> QED
      BY <3>1
  <2>2. CASE files[0] # {}
    <3> DEFINE w == GetRange(files[0])
               q == [lo |-> IF w.lo < r.lo THEN w.lo ELSE r.lo,
                     hi |-> IF r.hi < w.hi THEN w.hi ELSE r.hi]
    <3>1. /\ w.lo \in UserKeys /\ w.lo \in Int /\ w.hi \in UserKeys /\ w.hi \in Int
          /\ \A f \in files[0] : w.lo =< Smallest(f).key /\ Largest(f).key =< w.hi
      BY <1>2, <2>2, RangeOf
    <3>2. /\ q \in [lo : UserKeys, hi : UserKeys]
          /\ q.lo =< r.lo /\ r.hi =< q.hi /\ q.lo =< w.lo /\ w.hi =< q.hi
          /\ q.lo \in Int /\ q.hi \in Int
      BY <1>1, <3>1
    <3> HIDE DEF q, w
    <3>3. \A f \in files[0] : Within(f, q)
      BY <1>3, <3>1, <3>2 DEF Within
    <3>4. q \in Closed(r)
      BY <3>2, <3>3 DEF Closed
    <3> QED
      BY <3>4
  <2> QED
    BY <2>1, <2>2
<1>5. PICK q0 : q0 \in Closed(r)
  BY <1>4
<1>6. q0.lo \in Int /\ q0.hi \in Int /\ q0.lo =< r.lo /\ r.hi =< q0.hi
  BY <1>1, <1>5 DEF Closed
<1>7. PICK q1 \in Closed(r) : \A o \in Closed(r) : o.lo =< q1.lo
  <2> DEFINE los == {n \in q0.lo .. r.lo : \E o \in Closed(r) : o.lo = n}
  <2>1. los \in SUBSET Int /\ IsFiniteSet(los) /\ q0.lo \in los
    <3>1. IsFiniteSet(q0.lo .. r.lo) /\ los \in SUBSET (q0.lo .. r.lo)
      BY <1>1, <1>6, FS_Interval
    <3>2. IsFiniteSet(los)
      BY <3>1, FS_Subset
    <3> QED
      BY <1>1, <1>5, <1>6, <3>2
  <2>2. PICK m \in los : \A n \in los : n =< m
    <3> HIDE DEF los
    <3> QED
      BY <2>1, GreatestInt
  <2>3. PICK q1 \in Closed(r) : q1.lo = m
    OBVIOUS
  <2>4. ASSUME NEW o \in Closed(r) PROVE o.lo =< m
    <3>1. o.lo \in Int /\ o.lo =< r.lo /\ m \in Int /\ q0.lo =< m
      BY <1>1, <2>1, <2>2 DEF Closed
    <3>2. CASE q0.lo =< o.lo
      BY <1>1, <1>6, <2>2, <3>1, <3>2
    <3>3. CASE o.lo < q0.lo
      BY <1>6, <3>1, <3>3
    <3> QED
      BY <1>6, <3>1, <3>2, <3>3
  <2> QED
    BY <2>3, <2>4
<1>8. PICK q2 \in Closed(r) : \A o \in Closed(r) : q2.hi =< o.hi
  <2> DEFINE his == {n \in r.hi .. q0.hi : \E o \in Closed(r) : o.hi = n}
  <2>1. his \in SUBSET Int /\ IsFiniteSet(his) /\ q0.hi \in his
    <3>1. IsFiniteSet(r.hi .. q0.hi) /\ his \in SUBSET (r.hi .. q0.hi)
      BY <1>1, <1>6, FS_Interval
    <3>2. IsFiniteSet(his)
      BY <3>1, FS_Subset
    <3> QED
      BY <1>1, <1>5, <1>6, <3>2
  <2>2. PICK m \in his : \A n \in his : m =< n
    <3> HIDE DEF his
    <3> QED
      BY <2>1, LeastInt
  <2>3. PICK q2 \in Closed(r) : q2.hi = m
    OBVIOUS
  <2>4. ASSUME NEW o \in Closed(r) PROVE m =< o.hi
    <3>1. o.hi \in Int /\ r.hi =< o.hi /\ m \in Int /\ m =< q0.hi
      BY <1>1, <2>1, <2>2 DEF Closed
    <3>2. CASE o.hi =< q0.hi
      BY <1>1, <1>6, <2>2, <3>1, <3>2
    <3>3. CASE q0.hi < o.hi
      BY <1>6, <3>1, <3>3
    <3> QED
      BY <1>6, <3>1, <3>2, <3>3
  <2> QED
    BY <2>3, <2>4
<1> DEFINE q == [lo |-> q1.lo, hi |-> q2.hi]
<1>9. q \in Closed(r)
  <2>1. /\ q \in [lo : UserKeys, hi : UserKeys] /\ q.lo = q1.lo /\ q.hi = q2.hi
        /\ q.lo \in Int /\ q.hi \in Int
        /\ q1.hi \in Int /\ q2.lo \in Int /\ q2.lo =< q.lo /\ q.hi =< q1.hi
        /\ q.lo =< r.lo /\ r.hi =< q.hi
    BY <1>1, <1>7, <1>8 DEF Closed
  <2> HIDE DEF q
  <2>2. ASSUME NEW f \in files[0], Overlaps(f, q) PROVE Within(f, q)
    <3>1. Overlaps(f, q1) /\ Overlaps(f, q2)
      BY <1>3, <2>1, <2>2 DEF Overlaps
    <3>2. Within(f, q1) /\ Within(f, q2)
      BY <1>7, <1>8, <3>1 DEF Closed
    <3> QED
      BY <2>1, <3>2 DEF Within
  <2> QED
    BY <2>1, <2>2 DEF Closed
<1>10. \A o \in Closed(r) : o.lo =< q.lo /\ q.hi =< o.hi
  BY <1>7, <1>8
<1> QED
  BY <1>9, <1>10 DEF IsLeast
-----------------------------------------------------------------------------
(* The inputs of a compaction.                                               *)

\* A level is searched for what overlaps with some files: it finds those of
\* them that are there, and together they leave no gap. In level 0 the range has
\* grown no further than the files it met reach.
LEMMA Grown ==
    ASSUME Numbered, Stored, NEW l \in Levels,
           NEW fs, Files(fs), fs # {}, NoGap(fs)
    PROVE  LET gs == GetOverlappingInputs(l, GetRange(fs))
           IN  /\ gs \subseteq files[l] /\ Files(gs)
               /\ fs \cap files[l] \subseteq gs
               /\ NoGap(fs \cup gs)
<1> DEFINE r == GetRange(fs)
           gs == GetOverlappingInputs(l, r)
<1>1. /\ r.lo \in UserKeys /\ r.lo \in Int /\ r.hi \in UserKeys /\ r.hi \in Int
      /\ r.lo =< r.hi
      /\ \A f \in fs : r.lo =< Smallest(f).key /\ Largest(f).key =< r.hi
      /\ \E f \in fs : Smallest(f).key = r.lo
      /\ \E f \in fs : Largest(f).key = r.hi
  BY RangeOf
<1>2. Files(files[l])
  BY DEF Stored
<1>3. \A f \in fs \cup files[l] :
        /\ File(f)
        /\ Smallest(f).key \in UserKeys /\ Smallest(f).key \in Int
        /\ Largest(f).key \in UserKeys /\ Largest(f).key \in Int
        /\ Smallest(f).key =< Largest(f).key
  BY <1>2, EndKeys DEF Files
<1>4. CASE l # 0
  <2>1. gs = {f \in files[l] : Overlaps(f, r)}
    BY <1>4, OverlappingIs
  <2>2. \A f \in fs : Overlaps(f, r)
    <3> HIDE DEF r
    <3> QED
      BY <1>1, <1>3 DEF Overlaps
  <2>3. \A g \in gs : File(g) /\ Overlaps(g, r)
    BY <1>3, <2>1
  <2>4. NoGap(fs \cup gs)
    <3> HIDE DEF gs
    <3>1. GetRange(fs).lo =< r.lo /\ r.hi =< GetRange(fs).hi
      BY <1>1
    <3> QED
      BY <1>1, <2>3, <3>1, NoGapAdded
  <2> QED
    BY <1>2, <2>1, <2>2, <2>4, SomeFiles
<1>5. CASE l = 0
  <2>1. PICK q : IsLeast(q, r) /\ gs = {f \in files[0] : Overlaps(f, q)}
    <3> HIDE DEF r
    <3>1. \E q : IsLeast(q, r)
      BY <1>1, LeastExists
    <3> QED
      BY <1>5, <3>1, OverlappingIs
  <2>2. /\ q.lo \in UserKeys /\ q.lo \in Int /\ q.hi \in UserKeys /\ q.hi \in Int
        /\ q.lo =< r.lo /\ r.hi =< q.hi
        /\ \A f \in files[0] : Overlaps(f, q) => Within(f, q)
        /\ \A o \in Closed(r) : o.lo =< q.lo /\ q.hi =< o.hi
    BY <2>1, KeysAssumption DEF IsLeast, Closed
  <2> HIDE DEF r, gs
  <2>3. \A f \in fs : Overlaps(f, q)
    BY <1>1, <1>3, <2>2 DEF Overlaps
  <2>4. gs \subseteq files[0] /\ Files(gs) /\ fs \cap files[0] \subseteq gs
    BY <1>2, <1>5, <2>1, <2>3, SomeFiles
  <2>5. \A g \in gs : q.lo =< Smallest(g).key /\ Largest(g).key =< q.hi
    BY <2>1, <2>2 DEF Within
  <2>6. \A f \in fs : q.lo =< Smallest(f).key /\ Largest(f).key =< q.hi
    BY <1>1, <1>3, <2>2
  <2>7. ASSUME NEW a \in Int, NEW b \in Int, a =< b,
               \A f \in fs \cup gs : Largest(f).key < a \/ b < Smallest(f).key
        PROVE  \/ \A f \in fs \cup gs : Largest(f).key < a
               \/ \A f \in fs \cup gs : b < Smallest(f).key
    <3>1. (\A f \in fs : Largest(f).key < a) \/ (\A f \in fs : b < Smallest(f).key)
      BY <2>7 DEF NoGap
    <3>2. ASSUME \A f \in fs : Largest(f).key < a, NEW g \in gs
          PROVE  Largest(g).key < a
      <4> DEFINE near == {f \in gs : Largest(f).key < a} \cup fs
      <4>1. Files(near) /\ near # {} /\ fs \subseteq near
        <5>1. Files({f \in gs : Largest(f).key < a})
          BY <2>4, SomeFiles
        <5> QED
          BY <5>1, FS_Union DEF Files
      <4>2. PICK hi \in UserKeys :
              /\ hi \in Int /\ hi < a /\ hi =< q.hi
              /\ \A f \in near : Largest(f).key =< hi
        <5>1. \A f \in near : Largest(f).key < a /\ Largest(f).key =< q.hi
          BY <2>5, <2>6, <3>2
        <5> HIDE DEF near
        <5>2. /\ GetRange(near).hi \in UserKeys /\ GetRange(near).hi \in Int
              /\ \A f \in near : Largest(f).key =< GetRange(near).hi
              /\ \E f \in near : Largest(f).key = GetRange(near).hi
          BY <4>1, RangeOf
        <5>3. GetRange(near).hi < a /\ GetRange(near).hi =< q.hi
          BY <5>1, <5>2
        <5> QED
          BY <5>2, <5>3
      <4> PICK o : o = [lo |-> q.lo, hi |-> hi]
        OBVIOUS
      <4>3. o \in [lo : UserKeys, hi : UserKeys] /\ o.lo = q.lo /\ o.hi = hi /\ r.hi =< hi
        BY <1>1, <2>2, <4>1, <4>2
      <4>4. ASSUME NEW f \in files[0], Overlaps(f, o) PROVE Within(f, o)
        <5>1. q.lo =< Largest(f).key /\ Smallest(f).key =< hi
          BY <4>3, <4>4 DEF Overlaps
        <5>2. Overlaps(f, q)
          BY <1>3, <1>5, <2>2, <4>2, <5>1 DEF Overlaps
        <5>3. f \in gs /\ Within(f, q)
          BY <2>1, <2>2, <5>2
        <5>4. Smallest(f).key < a
          BY <1>3, <1>5, <4>2, <5>1
        <5>5. f \in near
          BY <1>3, <1>5, <2>7, <5>3, <5>4
        <5> QED
          BY <4>2, <4>3, <5>3, <5>5 DEF Within
      <4>5. o \in Closed(r)
        BY <2>2, <4>3, <4>4 DEF Closed
      <4>6. q.hi < a
        BY <2>2, <4>2, <4>3, <4>5
      <4> QED
        BY <1>3, <1>5, <2>2, <2>4, <2>5, <4>6
    <3>3. ASSUME \A f \in fs : b < Smallest(f).key, NEW g \in gs
          PROVE  b < Smallest(g).key
      <4> DEFINE near == {f \in gs : b < Smallest(f).key} \cup fs
      <4>1. Files(near) /\ near # {} /\ fs \subseteq near
        <5>1. Files({f \in gs : b < Smallest(f).key})
          BY <2>4, SomeFiles
        <5> QED
          BY <5>1, FS_Union DEF Files
      <4>2. PICK lo \in UserKeys :
              /\ lo \in Int /\ b < lo /\ q.lo =< lo
              /\ \A f \in near : lo =< Smallest(f).key
        <5>1. \A f \in near : b < Smallest(f).key /\ q.lo =< Smallest(f).key
          BY <2>5, <2>6, <3>3
        <5> HIDE DEF near
        <5>2. /\ GetRange(near).lo \in UserKeys /\ GetRange(near).lo \in Int
              /\ \A f \in near : GetRange(near).lo =< Smallest(f).key
              /\ \E f \in near : Smallest(f).key = GetRange(near).lo
          BY <4>1, RangeOf
        <5>3. b < GetRange(near).lo /\ q.lo =< GetRange(near).lo
          BY <5>1, <5>2
        <5> QED
          BY <5>2, <5>3
      <4> PICK o : o = [lo |-> lo, hi |-> q.hi]
        OBVIOUS
      <4>3. o \in [lo : UserKeys, hi : UserKeys] /\ o.lo = lo /\ o.hi = q.hi /\ lo =< r.lo
        BY <1>1, <2>2, <4>1, <4>2
      <4>4. ASSUME NEW f \in files[0], Overlaps(f, o) PROVE Within(f, o)
        <5>1. lo =< Largest(f).key /\ Smallest(f).key =< q.hi
          BY <4>3, <4>4 DEF Overlaps
        <5>2. Overlaps(f, q)
          BY <1>3, <1>5, <2>2, <4>2, <5>1 DEF Overlaps
        <5>3. f \in gs /\ Within(f, q)
          BY <2>1, <2>2, <5>2
        <5>4. b < Largest(f).key
          BY <1>3, <1>5, <4>2, <5>1
        <5>5. f \in near
          BY <1>3, <1>5, <2>7, <5>3, <5>4
        <5> QED
          BY <4>2, <4>3, <5>3, <5>5 DEF Within
      <4>5. o \in Closed(r)
        BY <2>2, <4>3, <4>4 DEF Closed
      <4>6. b < q.lo
        BY <2>2, <4>2, <4>3, <4>5
      <4> QED
        BY <1>3, <1>5, <2>2, <2>4, <2>5, <4>6
    <3> QED
      BY <3>1, <3>2, <3>3
  <2>8. NoGap(fs \cup gs)
    BY <2>7 DEF NoGap
  <2> QED
    BY <1>5, <2>4, <2>8 DEF gs, r
<1> QED
  BY <1>4, <1>5

\* Whichever inputs are taken, and however they are extended: those of the next
\* level are all that overlap with those of this one, and there is no gap.
LEMMA Picked ==
    ASSUME Numbered, Stored, NEW l \in 0 .. NumLevels - 2, NEW f \in files[l],
           NEW inputs \in PickCompaction(l, f)
    PROVE  /\ inputs[1] \subseteq files[l] /\ inputs[1] # {}
           /\ inputs[2] = {g \in files[l + 1] : Overlaps(g, GetRange(inputs[1]))}
           /\ NoGap(inputs[1] \cup inputs[2])
<1>1. l \in Levels /\ l + 1 \in Levels /\ l + 1 # 0
  BY LevelsAssumption DEF Levels
<1>2. Files(files[l]) /\ Files(files[l + 1])
  BY <1>1 DEF Stored
<1> PICK in0 : in0 = IF l = 0 THEN GetOverlappingInputs(0, GetRange({f})) ELSE {f}
  OBVIOUS
<1>3. /\ in0 \subseteq files[l] /\ f \in in0 /\ Files(in0) /\ NoGap(in0)
  <2>1. Files({f}) /\ {f} # {}
    BY <1>2, SomeFiles
  <2>2. NoGap({f})
    BY DEF NoGap
  <2>3. CASE l = 0
    <3>1. /\ in0 \subseteq files[l] /\ Files(in0)
          /\ {f} \cap files[l] \subseteq in0 /\ NoGap({f} \cup in0)
      BY <1>1, <2>1, <2>2, <2>3, Grown
    <3>2. {f} \cup in0 = in0
      BY <3>1
    <3> QED
      BY <3>1, <3>2
  <2>4. CASE l # 0
    BY <2>1, <2>2, <2>4
  <2> QED
    BY <2>3, <2>4
<1> PICK in1 : in1 = GetOverlappingInputs(l + 1, GetRange(in0))
  OBVIOUS
<1>4. /\ in1 = {g \in files[l + 1] : Overlaps(g, GetRange(in0))}
      /\ Files(in1) /\ NoGap(in0 \cup in1)
  BY <1>1, <1>3, Grown, OverlappingIs
<1> PICK expanded0 : expanded0 = GetOverlappingInputs(l, GetRange(in0 \cup in1))
  OBVIOUS
<1> PICK expanded1 : expanded1 = GetOverlappingInputs(l + 1, GetRange(expanded0))
  OBVIOUS
<1>5. inputs = <<in0, in1>> \/ inputs = <<expanded0, expanded1>>
  BY DEF PickCompaction, SetupOtherInputs
<1>6. CASE inputs = <<in0, in1>>
  BY <1>3, <1>4, <1>6
<1>7. CASE inputs = <<expanded0, expanded1>>
  <2>1. Files(in0 \cup in1) /\ in0 \cup in1 # {}
    BY <1>3, <1>4, FS_Union DEF Files
  <2>2. /\ expanded0 \subseteq files[l] /\ Files(expanded0) /\ in0 \subseteq expanded0
        /\ NoGap((in0 \cup in1) \cup expanded0)
    BY <1>1, <1>3, <1>4, <2>1, Grown
  <2> PICK base : base = (in0 \cup in1) \cup expanded0
    OBVIOUS
  <2>3. Files(base) /\ base # {} /\ NoGap(base) /\ expanded0 # {}
    BY <1>3, <2>1, <2>2, FS_Union DEF Files
  <2>4. expanded1 = {g \in files[l + 1] : Overlaps(g, GetRange(expanded0))}
    BY <1>1, OverlappingIs
  <2> PICK b, r : b = GetRange(base) /\ r = GetRange(expanded0)
    OBVIOUS
  <2> PICK q : q = GetRange(in0)
    OBVIOUS
  <2>5. /\ b.lo \in Int /\ b.hi \in Int
        /\ \A g \in base : b.lo =< Smallest(g).key /\ Largest(g).key =< b.hi
    <3>1. b = GetRange(base) /\ Files(base) /\ base # {}
      BY <2>3
    <3> QED
      BY ONLY Numbered, <3>1, RangeOf
  <2>6. /\ r.lo \in Int /\ r.hi \in Int
        /\ \A g \in expanded0 : r.lo =< Smallest(g).key /\ Largest(g).key =< r.hi
        /\ \E g \in expanded0 : Smallest(g).key = r.lo
        /\ \E g \in expanded0 : Largest(g).key = r.hi
    BY <2>2, <2>3, RangeOf
  <2>7. /\ q.lo \in Int /\ q.hi \in Int
        /\ \E g \in in0 : Smallest(g).key = q.lo
        /\ \E g \in in0 : Largest(g).key = q.hi
    BY <1>3, RangeOf
  <2>8. b.lo =< r.lo /\ r.hi =< b.hi
    BY <2>5, <2>6
  <2>9. r.lo =< q.lo /\ q.hi =< r.hi
    BY <2>2, <2>6, <2>7
  <2>10. \A g \in expanded1 : File(g) /\ Overlaps(g, r)
    BY <1>2, <2>4 DEF Files
  <2>11. NoGap(base \cup expanded1)
    BY <2>3, <2>6, <2>8, <2>10, NoGapAdded
  <2>12. in1 \subseteq expanded1
    <3>1. ASSUME NEW g \in in1 PROVE Overlaps(g, r)
      <4>1. Smallest(g).key \in Int /\ Largest(g).key \in Int
        BY <1>4, EndKeys DEF Files
      <4>2. Overlaps(g, q)
        BY <1>4
      <4> QED
        BY <2>6, <2>7, <2>9, <4>1, <4>2 DEF Overlaps
    <3> QED
      BY <1>4, <2>4, <3>1
  <2>13. base \cup expanded1 = expanded0 \cup expanded1
    BY <2>2, <2>12
  <2> QED
    BY <1>7, <2>2, <2>3, <2>4, <2>11, <2>13
<1> QED
  BY <1>5, <1>6, <1>7

\* Nothing that stays in the level below is between the inputs: it does not
\* overlap with those of the upper level, and not with the others as they were
\* in one level with it.
LEMMA Fits ==
    ASSUME Numbered, Stored, NEW in0, Files(in0), in0 # {},
           NEW level, Files(level), Disjoint(level),
           NEW in1, in1 = {g \in level : Overlaps(g, GetRange(in0))},
           NEW g \in level \ in1
    PROVE  Ahead(UNION (in0 \cup in1), g) \/ Ahead(g, UNION (in0 \cup in1))
<1> PICK r : r = GetRange(in0)
  OBVIOUS
<1>1. /\ r.lo \in Int /\ r.hi \in Int /\ r.lo =< r.hi
      /\ \A f \in in0 : r.lo =< Smallest(f).key /\ Largest(f).key =< r.hi
  BY RangeOf
<1>2. \A f \in in0 \cup level :
        /\ File(f) /\ Smallest(f) \in f /\ Largest(f) \in f
        /\ Smallest(f).key \in Int /\ Largest(f).key \in Int
        /\ Smallest(f).key =< Largest(f).key
        /\ \A o \in f : /\ o \in written /\ o.key \in Int
                        /\ Smallest(f).key =< o.key /\ o.key =< Largest(f).key
  BY Ends, EndKeys DEF Files, File
<1>3. Largest(g).key < r.lo \/ r.hi < Smallest(g).key
  BY <1>1, <1>2 DEF Overlaps
<1>4. CASE r.hi < Smallest(g).key
  <2>1. ASSUME NEW f \in in0 PROVE Ahead(f, g)
    <3> SUFFICES ASSUME NEW e \in f, NEW d \in g PROVE Before(e, d)
      BY DEF Ahead
    <3>1. e.key < d.key
      BY <1>1, <1>2, <1>4
    <3> QED
      BY <1>2, <3>1, Order
  <2>2. ASSUME NEW f \in in1 PROVE Ahead(f, g)
    <3>1. Smallest(f).key =< r.hi /\ Smallest(f) \in f /\ Smallest(g) \in g /\ f # g
      BY <1>2 DEF Overlaps
    <3>2. ~ Ahead(g, f)
      <4>1. Smallest(f).key < Smallest(g).key
        BY <1>1, <1>2, <1>4, <3>1
      <4>2. ~ Before(Smallest(g), Smallest(f))
        BY <1>2, <4>1 DEF Before
      <4> QED
        BY <3>1, <4>2 DEF Ahead
    <3> QED
      BY <3>1, <3>2 DEF Disjoint
  <2> QED
    BY <2>1, <2>2 DEF Ahead
<1>5. CASE Largest(g).key < r.lo
  <2>1. ASSUME NEW f \in in0 PROVE Ahead(g, f)
    <3> SUFFICES ASSUME NEW e \in g, NEW d \in f PROVE Before(e, d)
      BY DEF Ahead
    <3>1. e.key < d.key
      BY <1>1, <1>2, <1>5
    <3> QED
      BY <1>2, <3>1, Order
  <2>2. ASSUME NEW f \in in1 PROVE Ahead(g, f)
    <3>1. r.lo =< Largest(f).key /\ Largest(f) \in f /\ Largest(g) \in g /\ f # g
      BY <1>2 DEF Overlaps
    <3>2. ~ Ahead(f, g)
      <4>1. Largest(g).key < Largest(f).key
        BY <1>1, <1>2, <1>5, <3>1
      <4>2. ~ Before(Largest(f), Largest(g))
        BY <1>2, <4>1 DEF Before
      <4> QED
        BY <3>1, <4>2 DEF Ahead
    <3> QED
      BY <3>1, <3>2 DEF Disjoint
  <2> QED
    BY <2>1, <2>2 DEF Ahead
<1> QED
  BY <1>3, <1>4, <1>5

\* The binary search finds one file at most: the first that reaches as far.
LEMMA FindFileIs ==
    ASSUME Numbered, Stored, LevelsApart, NEW l \in Levels, l # 0, NEW k, NEW s
    PROVE  LET found == FindFile(files[l], k, s)
               Reaches(f) == ~ Before(Largest(f), [key |-> k, seq |-> s])
           IN  /\ \A g, h \in found : g = h
               /\ \A g \in found : g \in files[l] /\ Reaches(g)
               /\ \A f \in files[l] : Reaches(f) => \E m \in found : m = f \/ Ahead(m, f)
<1> DEFINE Reaches(f) == ~ Before(Largest(f), [key |-> k, seq |-> s])
           after == {g \in files[l] : Reaches(g)}
           found == FindFile(files[l], k, s)
<1>1. found = {f \in after : \A g \in after \ {f} : Before(Largest(f), Largest(g))}
  BY DEF FindFile
<1>2. /\ IsFiniteSet(files[l]) /\ Disjoint(files[l])
      /\ \A g \in files[l] : Largest(g) \in g /\ Largest(g) \in written
  BY Ends DEF Stored, LevelsApart, Files
<1>3. /\ after \subseteq files[l] /\ IsFiniteSet(after)
      /\ \A f \in files[l] : Reaches(f) => f \in after
  BY <1>2, FS_Subset
<1>4. \A g \in after : Reaches(g)
  OBVIOUS
<1> HIDE DEF Reaches, after, found
<1>5. \A g, h \in found : g = h
  <2> SUFFICES ASSUME NEW g \in found, NEW h \in found, g # h PROVE FALSE
    OBVIOUS
  <2>1. Before(Largest(g), Largest(h)) /\ Before(Largest(h), Largest(g))
    BY <1>1
  <2>2. Largest(g) \in written /\ Largest(h) \in written
    BY <1>1, <1>2, <1>3
  <2> QED
    BY <2>1, <2>2, Order
<1>6. ASSUME NEW f \in files[l], Reaches(f)
      PROVE  \E m \in found : m = f \/ Ahead(m, f)
  <2> DEFINE R == {p \in files[l] \X files[l] : Before(Largest(p[1]), Largest(p[2]))}
  <2>1. \A x, y \in files[l] : <<x, y>> \in R <=> Before(Largest(x), Largest(y))
    OBVIOUS
  <2> HIDE DEF R
  <2>2. PICK m \in after : \A x \in after : <<x, m>> \notin R
    <3>1. \A x \in after : <<x, x>> \notin R
      BY <1>2, <1>3, <2>1, Order
    <3>2. \A x, y, z \in after : <<x, y>> \in R /\ <<y, z>> \in R => <<x, z>> \in R
      BY <1>2, <1>3, <2>1, Order
    <3>3. after # {}
      BY <1>3, <1>6
    <3> QED
      BY <1>3, <3>1, <3>2, <3>3, Minimal
  <2>3. \A x \in after : ~ Before(Largest(x), Largest(m))
    BY <1>3, <2>1, <2>2
  <2>4. ASSUME NEW g \in after, g # m PROVE Ahead(m, g)
    <3>1. ~ Ahead(g, m)
      BY <1>2, <1>3, <2>2, <2>3 DEF Ahead
    <3> QED
      BY <1>2, <1>3, <2>2, <2>4, <3>1 DEF Disjoint
  <2>5. m \in found
    BY <1>1, <1>2, <1>3, <2>2, <2>4 DEF Ahead
  <2> QED
    BY <1>3, <1>6, <2>4, <2>5
<1>7. \A g \in found : g \in files[l] /\ Reaches(g)
  BY <1>1, <1>3, <1>4
<1> QED
  BY <1>5, <1>6, <1>7 DEF Reaches, found

\* The binary search misses nothing in a level whose files are in order.
LEMMA NoneOverlaps ==
    ASSUME Numbered, Stored, LevelsApart, NEW l \in Levels,
           NEW r, r.lo \in Int, r.hi \in Int, ~ OverlapInLevel(l, r)
    PROVE  \A f \in files[l] : ~ Overlaps(f, r)
<1>1. CASE l = 0
  BY <1>1 DEF OverlapInLevel
<1>2. ASSUME l # 0, NEW f \in files[l], Overlaps(f, r) PROVE FALSE
  <2> PICK target : target = [key |-> r.lo, seq |-> MaxSeq + 1]
    OBVIOUS
  <2>1. \A g \in files[l] :
          /\ Smallest(g) \in g /\ Smallest(g) \in written /\ Largest(g) \in written
          /\ Smallest(g).key \in Int /\ Largest(g).key \in Int
    BY Ends, EndKeys DEF Stored, Files
  <2>2. ~ Before(Largest(f), target)
    <3>1. Largest(f).seq \in Int /\ Largest(f).seq =< MaxSeq
      BY <1>2, <2>1, EntryType DEF Numbered
    <3>2. r.lo =< Largest(f).key
      BY <1>2 DEF Overlaps
    <3>3. target.key = r.lo /\ target.seq = MaxSeq + 1
      OBVIOUS
    <3> QED
      BY <1>2, <2>1, <3>1, <3>2, <3>3, SeqAssumption DEF Before
  <2>3. PICK m \in FindFile(files[l], r.lo, MaxSeq + 1) :
          m \in files[l] /\ (m = f \/ Ahead(m, f))
    BY <1>2, <2>2, FindFileIs
  <2>4. Smallest(m).key =< Smallest(f).key
    <3>1. CASE m = f
      BY <2>1, <2>3, <3>1
    <3>2. CASE Ahead(m, f)
      <4>1. Before(Smallest(m), Smallest(f))
        BY <1>2, <2>1, <2>3, <3>2 DEF Ahead
      <4> QED
        BY <1>2, <2>1, <2>3, <4>1, Order
    <3> QED
      BY <2>3, <3>1, <3>2
  <2>5. Smallest(m).key =< r.hi
    BY <1>2, <2>1, <2>3, <2>4 DEF Overlaps
  <2> QED
    BY <1>2, <2>3, <2>5 DEF OverlapInLevel
<1> QED
  BY <1>1, <1>2

\* A file that overlaps with none of those that leave no gap is on one side.
LEMMA OneSide ==
    ASSUME Numbered, NEW f, File(f), NEW fs, Files(fs), NoGap(fs),
           \A g \in fs : ~ Overlaps(g, GetRange({f}))
    PROVE  Ahead(UNION fs, f) \/ Ahead(f, UNION fs)
<1> PICK r : r = GetRange({f})
  OBVIOUS
<1>1. Files({f}) /\ {f} # {}
  BY FS_Singleton DEF Files
<1>2. /\ r.lo \in Int /\ r.hi \in Int /\ r.lo =< r.hi
      /\ r.lo = Smallest(f).key /\ r.hi = Largest(f).key
  <2>1. /\ r.lo \in Int /\ r.hi \in Int /\ r.lo =< r.hi
        /\ \E g \in {f} : Smallest(g).key = r.lo
        /\ \E g \in {f} : Largest(g).key = r.hi
    BY <1>1, RangeOf
  <2> QED
    BY <2>1
<1>3. \A g \in fs \cup {f} :
        /\ Smallest(g).key \in Int /\ Largest(g).key \in Int
        /\ \A o \in g : /\ o \in written /\ o.key \in Int
                        /\ Smallest(g).key =< o.key /\ o.key =< Largest(g).key
  BY EndKeys DEF Files, File
<1>4. \A g \in fs : Largest(g).key < r.lo \/ r.hi < Smallest(g).key
  <2>1. ASSUME NEW g \in fs
        PROVE  Largest(g).key < r.lo \/ r.hi < Smallest(g).key
    <3>1. ~ (r.lo =< Largest(g).key /\ Smallest(g).key =< r.hi)
      BY DEF Overlaps
    <3>2. Smallest(g).key \in Int /\ Largest(g).key \in Int
      BY <1>3
    <3> QED
      BY <1>2, <3>1, <3>2
  <2> QED
    BY <2>1
<1>5. CASE \A g \in fs : Largest(g).key < r.lo
  <2>1. ASSUME NEW g \in fs, NEW e \in g, NEW d \in f PROVE Before(e, d)
    <3>1. /\ e.key \in Int /\ e.key =< Largest(g).key /\ Largest(g).key \in Int
          /\ d.key \in Int /\ r.lo =< d.key
      BY <1>2, <1>3
    <3>2. e.key < d.key
      BY <1>2, <1>5, <3>1
    <3> QED
      BY <1>3, <3>2, Order
  <2> QED
    BY <2>1 DEF Ahead
<1>6. CASE \A g \in fs : r.hi < Smallest(g).key
  <2>1. ASSUME NEW g \in fs, NEW e \in g, NEW d \in f PROVE Before(d, e)
    <3>1. /\ e.key \in Int /\ Smallest(g).key =< e.key /\ Smallest(g).key \in Int
          /\ d.key \in Int /\ d.key =< r.hi
      BY <1>2, <1>3
    <3>2. d.key < e.key
      BY <1>2, <1>6, <3>1
    <3> QED
      BY <1>3, <3>2, Order
  <2> QED
    BY <2>1 DEF Ahead
<1>7. (\A g \in fs : Largest(g).key < r.lo) \/ (\A g \in fs : r.hi < Smallest(g).key)
  BY <1>2, <1>4 DEF NoGap
<1> QED
  BY <1>5, <1>6, <1>7

\* The output files hold what is kept, in order.
LEMMA OutputsFit ==
    ASSUME Numbered, NEW keep, keep \subseteq written, IsFiniteSet(keep),
           NEW out \in Outputs(keep)
    PROVE  Files(out) /\ Disjoint(out) /\ \A f \in out : f \subseteq keep
<1> PICK cuts \in SUBSET keep :
      out = {{e \in keep : /\ ~ Before(c, e)
                           /\ \A d \in cuts : Before(d, c) => Before(d, e)} : c \in cuts}
  BY DEF Outputs
<1> DEFINE Piece(c) == {e \in keep : /\ ~ Before(c, e)
                                     /\ \A d \in cuts : Before(d, c) => Before(d, e)}
<1>1. out = {Piece(c) : c \in cuts}
  OBVIOUS
<1>2. \A c \in cuts : c \in Piece(c) /\ Piece(c) \subseteq keep
  BY Order
<1>3. \A c \in cuts : \A e \in Piece(c) :
        ~ Before(c, e) /\ \A d \in cuts : Before(d, c) => Before(d, e)
  OBVIOUS
<1> HIDE DEF Piece
<1>4. Files(out)
  <2>1. \A c \in cuts : File(Piece(c))
    BY <1>2, FS_Subset DEF File
  <2>2. IsFiniteSet(cuts) /\ [c \in cuts |-> Piece(c)] \in Surjection(cuts, out)
    BY <1>1, FS_Subset DEF Surjection
  <2> QED
    BY <1>1, <2>1, <2>2, FS_Surjection DEF Files
<1>5. ASSUME NEW c \in cuts, NEW d \in cuts, Before(c, d)
      PROVE  Ahead(Piece(c), Piece(d))
  <2> SUFFICES ASSUME NEW e \in Piece(c), NEW x \in Piece(d) PROVE Before(e, x)
    BY DEF Ahead
  <2>1. e \in written /\ x \in written /\ c \in written
    BY <1>2
  <2>2. e = c \/ Before(e, c)
    BY <1>3, <2>1, Order
  <2>3. Before(c, x)
    BY <1>3, <1>5
  <2> QED
    BY <2>1, <2>2, <2>3, Order
<1>6. \A c, d \in cuts : c = d \/ Before(c, d) \/ Before(d, c)
  BY Order
<1>7. Disjoint(out)
  BY <1>1, <1>5, <1>6 DEF Disjoint
<1> QED
  BY <1>1, <1>2, <1>4, <1>7

\* The least of the snapshots, or the last number when there is none.
LEMMA SmallestIsKnown ==
    ASSUME TypeOK
    PROVE  SmallestSnapshot \in 0 .. lastSequence
<1>1. lastSequence \in Int /\ lastSequence \in 0 .. lastSequence
  BY SeqAssumption DEF TypeOK
<1>2. CASE snapshots # {}
  <2>1. snapshots \in SUBSET Int /\ IsFiniteSet(snapshots) /\ snapshots \subseteq 0 .. lastSequence
    <3>1. snapshots \subseteq 0 .. lastSequence
      BY DEF TypeOK
    <3>2. IsFiniteSet(0 .. lastSequence)
      BY <1>1, FS_Interval
    <3>3. IsFiniteSet(snapshots)
      BY ONLY <3>1, <3>2, FS_Subset
    <3> QED
      BY <1>1, <3>1, <3>3
  <2>2. \E m \in snapshots : \A x \in snapshots : m =< x
    BY <1>2, <2>1, LeastInt
  <2>3. SmallestSnapshot \in snapshots
    BY <1>2, <2>2 DEF SmallestSnapshot
  <2> QED
    BY <2>1, <2>3
<1> QED
  BY <1>1, <1>2 DEF SmallestSnapshot

LEMMA FilesTyped ==
    ASSUME Numbered, NEW fs, Files(fs)
    PROVE  fs \in SUBSET ((SUBSET Entries) \ {{}})
BY DEF Files, File, Numbered

-----------------------------------------------------------------------------
(* The invariant is kept.                                                    *)

LEMMA VInit == Init => VInv
<1> SUFFICES ASSUME Init PROVE VInv
  OBVIOUS
<1> USE DEF Init
<1>1. TypeOK
  <2>1. lastSequence \in 0 .. MaxSeq
    BY SeqAssumption
  <2>2. files \in [Levels -> SUBSET ((SUBSET Entries) \ {{}})]
    OBVIOUS
  <2> QED
    BY <2>1, <2>2 DEF TypeOK
<1>2. Numbered
  BY DEF Numbered
<1>3. Stored
  BY FS_EmptySet DEF Stored, Files
<1>4. LevelsApart /\ CompactionFits
  BY DEF LevelsApart, Disjoint, CompactionFits
<1> QED
  BY <1>1, <1>2, <1>3, <1>4 DEF VInv

LEMMA WriteStep ==
    ASSUME VInv, NEW k \in UserKeys, NEW type \in Types, Write(k, type)
    PROVE  VInv'
<1> USE DEF VInv
<1> PICK e : e = [key |-> k, seq |-> lastSequence + 1, type |-> type]
  OBVIOUS
<1>1. /\ lastSequence \in Int /\ lastSequence \in 0 .. MaxSeq
      /\ lastSequence + 1 \in 1 .. MaxSeq
      /\ lastSequence' = lastSequence + 1
  BY SeqAssumption DEF Write, TypeOK
<1>2. e \in Entries /\ e.seq = lastSequence + 1
  BY <1>1 DEF Entries
<1>3. /\ mem' = mem \cup {e} /\ written' = written \cup {e}
      /\ UNCHANGED <<files, snapshots, compaction, torn, held>>
  BY DEF Write
<1>4. TypeOK'
  <2>1. lastSequence' \in 0 .. MaxSeq /\ \A n \in 0 .. lastSequence : n \in 0 .. lastSequence'
    BY <1>1, SeqAssumption
  <2>2. mem' \subseteq Entries /\ written' \subseteq Entries
    BY <1>2, <1>3 DEF TypeOK
  <2> QED
    BY <1>3, <2>1, <2>2 DEF TypeOK
<1>5. Numbered'
  <2>1. \A d \in written : d.seq \in Int /\ d.seq =< lastSequence
    BY EntryType DEF Numbered
  <2>2. \A d \in written' : d.seq =< lastSequence'
    BY <1>1, <1>2, <1>3, <2>1
  <2>3. \A d \in written : d.seq # e.seq
    BY <1>1, <1>2, <2>1
  <2>4. \A d, c \in written' : d.seq = c.seq => d = c
    BY <1>3, <2>3 DEF Numbered
  <2>5. written' \subseteq Entries
    BY <1>2, <1>3 DEF Numbered
  <2> QED
    BY <2>2, <2>4, <2>5 DEF Numbered
<1>6. Stored'
  BY <1>3, FS_AddElement DEF Stored, Files, File
<1>7. LevelsApart' /\ CompactionFits'
  BY <1>3 DEF LevelsApart, CompactionFits, Inputs
<1> QED
  BY <1>4, <1>5, <1>6, <1>7

LEMMA SnapshotStep ==
    ASSUME VInv, GetSnapshot \/ \E s \in snapshots : ReleaseSnapshot(s)
    PROVE  VInv'
<1> USE DEF VInv
<1>1. /\ UNCHANGED <<lastSequence, mem, files, compaction, written, torn>>
      /\ snapshots' \subseteq snapshots \cup {lastSequence}
      /\ held' \in BOOLEAN
  BY DEF GetSnapshot, ReleaseSnapshot, TypeOK
<1>2. TypeOK'
  <2>1. lastSequence \in 0 .. lastSequence
    BY SeqAssumption DEF TypeOK
  <2> QED
    BY <1>1, <2>1 DEF TypeOK
<1>3. Numbered' /\ Stored' /\ LevelsApart' /\ CompactionFits'
  BY <1>1 DEF Numbered, Stored, Files, File, LevelsApart, CompactionFits, Inputs
<1> QED
  BY <1>2, <1>3

\* A memtable put into a level, with a compaction running or not, overlaps
\* neither with what is there nor with what the compaction reads.
LEMMA CompactMemTableStep ==
    ASSUME VInv, NEW last \in 1 .. lastSequence, CompactMemTable(last)
    PROVE  VInv'
<1> USE DEF VInv
<1> PICK imm : imm = {e \in mem : e.seq =< last}
  OBVIOUS
<1> PICK r : r = GetRange({imm})
  OBVIOUS
<1>1. PICK level \in PickLevelForMemTableOutput(r) :
        files' = [files EXCEPT ![level] = @ \cup {imm}]
  BY DEF CompactMemTable
<1>2. /\ imm # {} /\ mem' = mem \ imm
      /\ UNCHANGED <<lastSequence, snapshots, compaction, written, torn, held>>
  BY DEF CompactMemTable
<1>3. File(imm) /\ Files({imm})
  <2>1. File(imm)
    BY <1>2, FS_Subset DEF File, Stored
  <2> QED
    BY <2>1, FS_Singleton DEF Files
<1>4. r.lo \in Int /\ r.hi \in Int
  BY <1>3, RangeOf
<1>5. /\ level \in Levels /\ level \in 0 .. MaxMemCompactLevel
      /\ \A l \in 0 .. level : l \in Levels
  BY LevelsAssumption DEF PickLevelForMemTableOutput, Levels
<1>6. ASSUME level # 0, NEW l \in 0 .. level
      PROVE  \A f \in files[l] : ~ Overlaps(f, r)
  <2>1. ~ OverlapInLevel(l, r)
    BY <1>5, <1>6 DEF PickLevelForMemTableOutput
  <2> QED
    BY <1>4, <1>5, <2>1, NoneOverlaps
<1>7. /\ DOMAIN files = Levels /\ DOMAIN files' = Levels
      /\ files'[level] = files[level] \cup {imm}
      /\ \A l \in Levels \ {level} : files'[l] = files[l]
      /\ \A l \in Levels : files[l] \subseteq files'[l]
  BY <1>1, <1>5 DEF TypeOK
<1>8. Numbered'
  BY <1>2 DEF Numbered
<1>9. Stored'
  <2>1. \A l \in Levels : Files(files'[l])
    <3>1. Files(files[level])
      BY <1>5 DEF Stored
    <3>2. Files(files[level] \cup {imm})
      BY <1>3, <3>1, FS_Union DEF Files
    <3> QED
      BY <1>7, <3>2 DEF Stored
  <2>2. IsFiniteSet(mem') /\ mem' \subseteq written
    BY <1>2, FS_Subset DEF Stored
  <2> QED
    BY <1>2, <2>1, <2>2 DEF Stored, Files, File
<1>10. TypeOK'
  <2>1. \A l \in Levels : files'[l] \in SUBSET ((SUBSET Entries) \ {{}})
    <3>1. imm \in (SUBSET Entries) \ {{}}
      BY <1>2 DEF TypeOK
    <3> QED
      BY <1>7, <3>1 DEF TypeOK
  <2>2. files' \in [Levels -> SUBSET ((SUBSET Entries) \ {{}})]
    BY <1>1, <2>1 DEF TypeOK
  <2>3. compaction # Idle =>
          /\ compaction.level \in Levels /\ compaction.level + 1 \in Levels
    BY LevelsAssumption DEF TypeOK, Levels
  <2> QED
    BY <1>2, <1>7, <2>2, <2>3 DEF TypeOK
<1>11. LevelsApart'
  <2>1. ASSUME level # 0, NEW f \in files[level] PROVE Ahead(f, imm) \/ Ahead(imm, f)
    <3>1. Files({f}) /\ NoGap({f}) /\ UNION {f} = f
      BY <1>5, SomeFiles DEF Stored, NoGap
    <3>2. \A g \in {f} : ~ Overlaps(g, r)
      BY <1>5, <1>6, <2>1
    <3> QED
      BY <1>3, <3>1, <3>2, OneSide
  <2>2. level # 0 => Disjoint(files'[level])
    BY <1>5, <1>7, <2>1 DEF LevelsApart, Disjoint
  <2> QED
    BY <1>7, <2>2 DEF LevelsApart
<1>12. CompactionFits'
  <2> SUFFICES ASSUME compaction # Idle
               PROVE  /\ compaction.in0 # {} /\ NoGap(Inputs)
                      /\ \A g \in files'[compaction.level + 1] \ compaction.in1 :
                            Ahead(UNION Inputs, g) \/ Ahead(g, UNION Inputs)
    BY <1>2 DEF CompactionFits, Inputs
  <2> PICK l : l = compaction.level
    OBVIOUS
  <2>1. /\ l \in 0 .. NumLevels - 2 /\ l \in Levels /\ l + 1 \in Levels /\ l + 1 # 0
        /\ compaction.in0 \subseteq files[l] /\ compaction.in1 \subseteq files[l + 1]
    BY LevelsAssumption DEF TypeOK, Levels
  <2>2. Files(Inputs)
    <3>1. Files(compaction.in0) /\ Files(compaction.in1)
      BY <2>1, SomeFiles DEF Stored
    <3> QED
      BY <3>1, FS_Union DEF Files, Inputs
  <2>3. ASSUME level = l + 1 PROVE Ahead(UNION Inputs, imm) \/ Ahead(imm, UNION Inputs)
    <3>1. l \in 0 .. level /\ level \in 0 .. level /\ level # 0
      BY <2>1, <2>3
    <3>2. \A g \in Inputs : ~ Overlaps(g, r)
      BY <1>6, <2>1, <2>3, <3>1 DEF Inputs
    <3> QED
      BY <1>3, <2>2, <3>2, OneSide DEF CompactionFits
  <2> QED
    BY <1>7, <2>1, <2>3 DEF CompactionFits
<1> QED
  BY <1>8, <1>9, <1>10, <1>11, <1>12

\* What both kinds of compaction find: inputs that leave no gap, with all that
\* stays in the level below on one side of them.
LEMMA Chosen ==
    ASSUME VInv, NEW l \in 0 .. NumLevels - 2, NEW f \in files[l],
           NEW inputs \in PickCompaction(l, f)
    PROVE  /\ l \in Levels /\ l + 1 \in Levels /\ l + 1 # 0
           /\ inputs[1] \subseteq files[l] /\ inputs[1] # {}
           /\ inputs[2] \subseteq files[l + 1]
           /\ NoGap(inputs[1] \cup inputs[2])
           /\ \A g \in files[l + 1] \ inputs[2] :
                 \/ Ahead(UNION (inputs[1] \cup inputs[2]), g)
                 \/ Ahead(g, UNION (inputs[1] \cup inputs[2]))
<1> USE DEF VInv
<1>1. l \in Levels /\ l + 1 \in Levels /\ l + 1 # 0
  BY LevelsAssumption DEF Levels
<1>2. /\ inputs[1] \subseteq files[l] /\ inputs[1] # {}
      /\ inputs[2] = {g \in files[l + 1] : Overlaps(g, GetRange(inputs[1]))}
      /\ NoGap(inputs[1] \cup inputs[2])
  BY Picked
<1>3. Files(files[l]) /\ Files(files[l + 1]) /\ Disjoint(files[l + 1])
  BY <1>1 DEF Stored, LevelsApart
<1>4. Files(inputs[1])
  BY <1>2, <1>3, SomeFiles
<1> PICK in0, in1 : in0 = inputs[1] /\ in1 = inputs[2]
  OBVIOUS
<1>5. \A g \in files[l + 1] \ in1 :
        Ahead(UNION (in0 \cup in1), g) \/ Ahead(g, UNION (in0 \cup in1))
  BY <1>2, <1>3, <1>4, Fits
<1> QED
  BY <1>1, <1>2, <1>5

LEMMA TrivialMoveStep ==
    ASSUME VInv, NEW l \in 0 .. NumLevels - 2, NEW f \in files[l], TrivialMove(l, f)
    PROVE  VInv'
<1> USE DEF VInv
<1> PICK inputs \in PickCompaction(l, f) :
      /\ IsTrivialMove(inputs)
      /\ files' = [files EXCEPT ![l] = @ \ inputs[1], ![l + 1] = @ \cup inputs[1]]
      /\ torn' = (torn \/ LeavesOlder(l, inputs[1]))
  BY DEF TrivialMove
<1> PICK in0 : in0 = inputs[1]
  OBVIOUS
<1>1. /\ compaction = Idle /\ compaction' = Idle
      /\ UNCHANGED <<lastSequence, mem, snapshots, written, held>>
  BY DEF TrivialMove
<1>2. /\ l \in Levels /\ l + 1 \in Levels /\ l + 1 # 0
      /\ in0 \subseteq files[l] /\ in0 # {}
      /\ \A g \in files[l + 1] : Ahead(UNION in0, g) \/ Ahead(g, UNION in0)
  <2>1. inputs[2] = {} /\ inputs[1] \cup {} = inputs[1]
    BY DEF IsTrivialMove
  <2> QED
    BY <2>1, Chosen
<1>3. /\ files'[l] = files[l] \ in0 /\ files'[l + 1] = files[l + 1] \cup in0
      /\ \A m \in Levels \ {l, l + 1} : files'[m] = files[m]
      /\ DOMAIN files' = Levels
  <2>1. l # l + 1 /\ DOMAIN files = Levels
    BY DEF TypeOK
  <2> QED
    BY <1>2, <2>1
<1>4. Numbered'
  BY <1>1 DEF Numbered
<1>5. \A m \in Levels : Files(files'[m])
  <2>1. Files(files[l] \ in0) /\ Files(in0)
    BY <1>2, SomeFiles DEF Stored
  <2>2. Files(files[l + 1] \cup in0)
    BY <1>2, <2>1, FS_Union DEF Stored, Files
  <2> QED
    BY <1>3, <2>1, <2>2 DEF Stored
<1>6. Stored'
  BY <1>1, <1>5 DEF Stored, Files, File
<1>7. TypeOK'
  <2>1. \A m \in Levels : files'[m] \in SUBSET ((SUBSET Entries) \ {{}})
    BY <1>5, FilesTyped
  <2>2. files' = [m \in Levels |-> files'[m]]
    BY <1>3 DEF TypeOK
  <2>3. files' \in [Levels -> SUBSET ((SUBSET Entries) \ {{}})]
    BY <2>1, <2>2
  <2>4. torn' \in BOOLEAN
    BY DEF LeavesOlder, TypeOK
  <2> QED
    BY <1>1, <2>3, <2>4 DEF TypeOK
<1>8. LevelsApart'
  <2>1. \A g, h \in in0 : g = h
    <3>1. Cardinality(in0) = 1 /\ IsFiniteSet(in0)
      BY <1>2, SomeFiles DEF IsTrivialMove, Stored, Files
    <3>2. \E x : in0 = {x}
      BY <3>1, FS_Singleton
    <3> QED
      BY <3>2
  <2>2. \A g \in files[l + 1], h \in in0 : Ahead(h, g) \/ Ahead(g, h)
    BY <1>2 DEF Ahead
  <2>3. Disjoint(files[l + 1])
    BY <1>2 DEF LevelsApart
  <2>4. Disjoint(files[l + 1] \cup in0)
    BY <2>1, <2>2, <2>3 DEF Disjoint
  <2>5. l # 0 => Disjoint(files[l] \ in0)
    BY <1>2 DEF LevelsApart, Disjoint
  <2> QED
    BY <1>3, <2>4, <2>5 DEF LevelsApart
<1>9. CompactionFits'
  BY <1>1 DEF CompactionFits
<1> QED
  BY <1>4, <1>6, <1>7, <1>8, <1>9

LEMMA StartCompactionStep ==
    ASSUME VInv, NEW l \in 0 .. NumLevels - 2, NEW f \in files[l], StartCompaction(l, f)
    PROVE  VInv'
<1> USE DEF VInv
<1> PICK inputs \in PickCompaction(l, f) :
      compaction' = [level |-> l, in0 |-> inputs[1], in1 |-> inputs[2],
                     higher |-> Higher(l), smallest |-> SmallestSnapshot]
  BY DEF StartCompaction
<1>1. UNCHANGED <<lastSequence, mem, files, snapshots, written, torn, held>>
  BY DEF StartCompaction
<1>2. /\ compaction'.level = l /\ compaction'.in0 = inputs[1]
      /\ compaction'.in1 = inputs[2] /\ compaction'.smallest = SmallestSnapshot
  OBVIOUS
<1>3. TypeOK'
  <2>1. /\ compaction'.level \in 0 .. NumLevels - 2
        /\ compaction'.in0 \subseteq files[compaction'.level]
        /\ compaction'.in1 \subseteq files[compaction'.level + 1]
        /\ compaction'.smallest \in 0 .. lastSequence
    BY <1>2, Chosen, SmallestIsKnown
  <2> QED
    BY <1>1, <2>1 DEF TypeOK
<1>4. Numbered' /\ Stored' /\ LevelsApart'
  BY <1>1 DEF Numbered, Stored, Files, File, LevelsApart
<1>5. CompactionFits'
  <2>1. Inputs' = inputs[1] \cup inputs[2]
    BY <1>2 DEF Inputs
  <2> QED
    BY <1>1, <1>2, <2>1, Chosen DEF CompactionFits
<1> QED
  BY <1>3, <1>4, <1>5

LEMMA FinishCompactionStep ==
    ASSUME VInv, FinishCompaction
    PROVE  VInv'
<1> USE DEF VInv
<1> PICK l : l = compaction.level
  OBVIOUS
<1> PICK keep : keep = {e \in UNION Inputs : ~ Drop(e, UNION Inputs)}
  OBVIOUS
<1>1. /\ compaction # Idle /\ compaction' = Idle
      /\ UNCHANGED <<lastSequence, mem, snapshots, written, held>>
  BY DEF FinishCompaction
<1>2. PICK out \in Outputs(keep) :
        files' = [files EXCEPT ![l] = @ \ compaction.in0,
                               ![l + 1] = (@ \ compaction.in1) \cup out]
  BY DEF FinishCompaction, Inputs
<1>3. /\ l \in Levels /\ l + 1 \in Levels /\ l + 1 # 0
      /\ compaction.in0 \subseteq files[l] /\ compaction.in1 \subseteq files[l + 1]
  BY <1>1, LevelsAssumption DEF TypeOK, Levels
<1>4. Files(compaction.in0) /\ Files(compaction.in1) /\ Files(Inputs)
  <2>1. Files(compaction.in0) /\ Files(compaction.in1)
    BY <1>3, SomeFiles DEF Stored
  <2> QED
    BY <2>1, FS_Union DEF Files, Inputs
<1>5. keep \subseteq written /\ keep \subseteq UNION Inputs /\ IsFiniteSet(keep)
  <2>1. IsFiniteSet(UNION Inputs)
    BY <1>4, FS_UNION DEF Files, File
  <2>2. keep \subseteq UNION Inputs /\ UNION Inputs \subseteq written
    BY <1>4 DEF Files, File
  <2> QED
    BY ONLY <2>1, <2>2, FS_Subset
<1>6. Files(out) /\ Disjoint(out) /\ \A g \in out : g \subseteq keep
  BY <1>5, OutputsFit
<1>7. /\ files'[l] = files[l] \ compaction.in0
      /\ files'[l + 1] = (files[l + 1] \ compaction.in1) \cup out
      /\ \A m \in Levels \ {l, l + 1} : files'[m] = files[m]
      /\ DOMAIN files' = Levels
  <2>1. l # l + 1 /\ DOMAIN files = Levels
    BY <1>3 DEF TypeOK, Levels
  <2> QED
    BY <1>2, <1>3, <2>1
<1>8. Numbered'
  BY <1>1 DEF Numbered
<1>9. \A m \in Levels : Files(files'[m])
  <2>1. Files(files[l] \ compaction.in0) /\ Files(files[l + 1] \ compaction.in1)
    BY <1>3, SomeFiles DEF Stored
  <2>2. Files((files[l + 1] \ compaction.in1) \cup out)
    BY <1>6, <2>1, FS_Union DEF Files
  <2> QED
    BY <1>7, <2>1, <2>2 DEF Stored
<1>10. Stored'
  BY <1>1, <1>9 DEF Stored, Files, File
<1>11. TypeOK'
  <2>1. \A m \in Levels : files'[m] \in SUBSET ((SUBSET Entries) \ {{}})
    BY <1>9, FilesTyped
  <2>2. files' = [m \in Levels |-> files'[m]]
    BY <1>2, <1>7 DEF TypeOK
  <2>3. files' \in [Levels -> SUBSET ((SUBSET Entries) \ {{}})]
    BY <2>1, <2>2
  <2>4. torn' \in BOOLEAN
    BY DEF FinishCompaction, LeavesOlder, TypeOK
  <2> QED
    BY <1>1, <2>3, <2>4 DEF TypeOK
<1>12. LevelsApart'
  <2>1. \A g \in files[l + 1] \ compaction.in1, h \in out : Ahead(h, g) \/ Ahead(g, h)
    BY <1>1, <1>5, <1>6 DEF CompactionFits, Ahead
  <2>2. Disjoint(files[l + 1])
    BY <1>3 DEF LevelsApart
  <2>3. Disjoint((files[l + 1] \ compaction.in1) \cup out)
    BY <1>6, <2>1, <2>2 DEF Disjoint
  <2>4. l # 0 => Disjoint(files[l] \ compaction.in0)
    BY <1>3 DEF LevelsApart, Disjoint
  <2> QED
    BY <1>7, <2>3, <2>4 DEF LevelsApart
<1>13. CompactionFits'
  BY <1>1 DEF CompactionFits
<1> QED
  BY <1>8, <1>10, <1>11, <1>12, <1>13

LEMMA VNext == VInv /\ [Next]_vars => VInv'
<1> SUFFICES ASSUME VInv, [Next]_vars PROVE VInv'
  OBVIOUS
<1>1. CASE \E k \in UserKeys, type \in Types : Write(k, type)
  BY <1>1, WriteStep
<1>2. CASE GetSnapshot \/ \E s \in snapshots : ReleaseSnapshot(s)
  BY <1>2, SnapshotStep
<1>3. CASE \E last \in 1 .. lastSequence : CompactMemTable(last)
  BY <1>3, CompactMemTableStep
<1>4. CASE \E l \in 0 .. NumLevels - 2 : \E f \in files[l] :
              TrivialMove(l, f) \/ StartCompaction(l, f)
  BY <1>4, TrivialMoveStep, StartCompactionStep
<1>5. CASE FinishCompaction
  BY <1>5, FinishCompactionStep
<1>6. CASE UNCHANGED vars
  BY <1>6 DEF vars, VInv, TypeOK, Numbered, Stored, Files, File, LevelsApart,
         CompactionFits, Inputs
<1> QED
  BY <1>1, <1>2, <1>3, <1>4, <1>5, <1>6 DEF Next

LEMMA VInvariance == Spec => []VInv
BY VInit, VNext, PTL DEF Spec

-----------------------------------------------------------------------------
\* The state has its type (version_set.h, db_impl.h): no table file is empty, as
\* DoCompactionWork opens an output only for an entry that it keeps, and what a
\* compaction reads is still there while memtables are put down around it.
THEOREM Typing == Spec => []TypeOK
<1>1. VInv => TypeOK
  BY DEF VInv
<1> QED
  BY <1>1, VInvariance, PTL

\* The files of a level above 0 never overlap, though a memtable may be put into
\* the level that a compaction is writing to: Builder::SaveTo asserts it
\* (version_set.cc:741-755) and every binary search relies on it.
THEOREM LevelsNeverOverlap == Spec => []LevelsDisjoint
<1>1. VInv => LevelsDisjoint
  <2> SUFFICES ASSUME VInv, NEW l \in Levels \ {0}, NEW f \in files[l], NEW g \in files[l],
                      f # g
               PROVE  Before(Largest(f), Smallest(g)) \/ Before(Largest(g), Smallest(f))
    BY DEF LevelsDisjoint
  <2>1. File(f) /\ File(g) /\ Numbered
    BY DEF VInv, Stored, Files
  <2>2. Ahead(f, g) \/ Ahead(g, f)
    BY DEF VInv, LevelsApart, Disjoint
  <2> QED
    BY <2>1, <2>2, DisjointEnds
<1> QED
  BY <1>1, VInvariance, PTL

-----------------------------------------------------------------------------
(* What a reader finds.                                                      *)

\* Two files have an entry of the same key.
Share(f, g) == \E e \in f, d \in g : e.key = d.key

\* All of one is older than all of the other.
Older(f, g) == \A e \in f, d \in g : e.seq < d.seq

\* The entries in the tables, and all the entries there still are.
InTables == {e \in written : \E l \in Levels : \E f \in files[l] : e \in f}
Present  == {e \in written : e \in mem \/ e \in InTables}

\* The numbers somebody may read at.
Live == snapshots \cup {lastSequence}

\* The memtable is newer than every table, and so is a table of level 0 than
\* those flushed there before it.
MemNewest  == \A e \in mem, d \in InTables : d.seq < e.seq
FlushOrder == \A f, g \in files[0] : f # g => Older(f, g) \/ Older(g, f)

\* The levels are in the order of age, key by key.
Stacked == ~ torn => EntriesNeverHop

\* What a running compaction relies on when it drops an entry: nobody reads
\* below smallest, and what was put down meanwhile has none of its keys.
CompactionKnows ==
    compaction # Idle =>
        /\ \A s \in Live : compaction.smallest =< s
        /\ \A f \in files[compaction.level + 1] \ compaction.in1 :
              \A g \in compaction.in0 : ~ Share(f, g)
        /\ \A m \in compaction.level + 2 .. NumLevels - 1 :
              \A f \in files[m] \ compaction.higher : \A g \in Inputs : ~ Share(f, g)
        /\ compaction.level = 0 => ~ LeavesOlder(0, compaction.in0)
        /\ ~ held => \A g \in Inputs : \A e \in g : e.seq =< compaction.smallest

\* The newest entry that a live reader may see is still there, or it deleted the
\* key and nothing is left of what it deleted.
Faithful ==
    ~ torn =>
        \A k \in UserKeys, s \in Live :
            Visible(written, k, s) # {} =>
                \/ FirstVisible(written, k, s) \in Present
                \/ /\ FirstVisible(written, k, s).type = "deletion"
                   /\ Visible(Present, k, s) = {}

\* Where nobody took a snapshot, a key is in one file of a level above 0.
Unheld ==
    ~ held =>
        /\ snapshots = {}
        /\ ~ torn
        /\ \A l \in Levels \ {0} : \A f, g \in files[l] : f # g => ~ Share(f, g)

RInv ==
    /\ IsFiniteSet(written)
    /\ MemNewest /\ FlushOrder /\ Stacked /\ CompactionKnows /\ Faithful /\ Unheld

LEMMA WrittenType ==
    ASSUME Numbered, NEW e \in written
    PROVE  /\ e.key \in UserKeys /\ e.key \in Int
           /\ e.seq \in Int /\ 0 < e.seq /\ e.seq =< lastSequence
           /\ e.type \in Types
<1>1. e \in Entries
  BY DEF Numbered
<1>2. e.seq \in 1 .. MaxSeq /\ e.type \in Types
  BY <1>1 DEF Entries
<1>3. 0 < e.seq
  BY <1>2, SeqAssumption
<1> QED
  BY <1>1, <1>2, <1>3, EntryType DEF Numbered

\* The newest entry of those that a reader may see.
LEMMA FirstIs ==
    ASSUME Numbered, NEW f, f \subseteq written, IsFiniteSet(f), NEW k, NEW s,
           Visible(f, k, s) # {}
    PROVE  /\ FirstVisible(f, k, s) \in Visible(f, k, s)
           /\ FirstVisible(f, k, s) \in f
           /\ \A o \in Visible(f, k, s) : o.seq =< FirstVisible(f, k, s).seq
<1> DEFINE V == Visible(f, k, s)
           R == {p \in written \X written : p[2].seq < p[1].seq}
<1>1. \A x, y \in written : <<x, y>> \in R <=> y.seq < x.seq
  OBVIOUS
<1>2. V \subseteq f /\ V \subseteq written /\ IsFiniteSet(V)
  <2>1. V \subseteq f
    BY DEF Visible
  <2> QED
    BY <2>1, FS_Subset
<1>3. \A x \in V : x.seq \in Int
  BY <1>2, WrittenType
<1> HIDE DEF R, V
<1>4. PICK m \in V : \A x \in V : <<x, m>> \notin R
  <2>1. \A x \in V : <<x, x>> \notin R
    BY <1>1, <1>2, <1>3
  <2>2. \A x, y, z \in V : <<x, y>> \in R /\ <<y, z>> \in R => <<x, z>> \in R
    BY <1>1, <1>2, <1>3
  <2>3. V # {}
    BY DEF V
  <2> QED
    BY <1>2, <2>1, <2>2, <2>3, Minimal
<1>5. ASSUME NEW x \in V PROVE x.seq =< m.seq
  <2>1. ~ (m.seq < x.seq)
    BY <1>1, <1>2, <1>4
  <2>2. x.seq \in Int /\ m.seq \in Int
    BY <1>3
  <2> QED
    BY <2>1, <2>2
<1> QED
  BY <1>2, <1>5 DEF FirstVisible, V

LEMMA FirstIsOnly ==
    ASSUME Numbered, NEW f, f \subseteq written, IsFiniteSet(f), NEW k, NEW s,
           NEW e \in Visible(f, k, s), \A o \in Visible(f, k, s) : o.seq =< e.seq
    PROVE  FirstVisible(f, k, s) = e
<1>1. /\ FirstVisible(f, k, s) \in Visible(f, k, s) /\ FirstVisible(f, k, s) \in f
      /\ \A o \in Visible(f, k, s) : o.seq =< FirstVisible(f, k, s).seq
  BY FirstIs
<1>2. e \in f
  BY DEF Visible
<1>3. FirstVisible(f, k, s).seq \in Int /\ e.seq \in Int
  BY <1>1, <1>2, WrittenType
<1>4. FirstVisible(f, k, s).seq = e.seq
  BY <1>1, <1>3
<1> QED
  BY <1>1, <1>2, <1>4 DEF Numbered

LEMMA NewestIs ==
    ASSUME Numbered, NEW f, File(f)
    PROVE  /\ Newest(f) \in Int
           /\ \E e \in f : e.seq = Newest(f)
           /\ \A e \in f : e.seq =< Newest(f)
<1> DEFINE ns == {e.seq : e \in f}
<1>1. ns \in SUBSET Int /\ ns # {}
  BY WrittenType DEF File
<1>2. IsFiniteSet(ns)
  <2>1. [e \in f |-> e.seq] \in Surjection(f, ns)
    BY DEF Surjection
  <2> HIDE DEF ns
  <2> QED
    BY <2>1, FS_Surjection DEF File
<1>3. \E n \in ns : \A x \in ns : x =< n
  <2> HIDE DEF ns
  <2> QED
    BY <1>1, <1>2, GreatestInt
<1>4. Newest(f) \in ns /\ \A e \in f : e.seq =< Newest(f)
  BY <1>3 DEF Newest
<1> QED
  BY <1>1, <1>4

-----------------------------------------------------------------------------
(* A read finds the newest entry that is left.                               *)

\* The files of a level that end the search.
Hits(l, k, s) == {f \in Candidates(l, k, s) : Visible(f, k, s) # {}}

Hit(l, k, s) ==
    CHOOSE f \in Hits(l, k, s) : \A g \in Hits(l, k, s) : Newest(g) =< Newest(f)

LEMMA VersionGetIs ==
    ASSUME NEW k, NEW s
    PROVE  VersionGet(k, s) =
              IF \A l \in Levels : Hits(l, k, s) = {} THEN NotFound
              ELSE FirstVisible(Hit(CHOOSE l \in Levels :
                                       /\ Hits(l, k, s) # {}
                                       /\ \A m \in 0 .. l - 1 : Hits(m, k, s) = {}, k, s),
                                k, s)
BY DEF VersionGet, Hits, Hit

\* The hit has the newest entry of its level, and there is one if any file has
\* an entry for the reader.
LEMMA LevelHit ==
    ASSUME VInv, FlushOrder, NEW l \in Levels, NEW k \in Int, NEW s \in Int
    PROVE  /\ \A f \in files[l] : Visible(f, k, s) # {} => Hits(l, k, s) # {}
           /\ Hits(l, k, s) # {} =>
                 /\ Hit(l, k, s) \in files[l]
                 /\ Visible(Hit(l, k, s), k, s) # {}
                 /\ \A f \in files[l] : \A o \in Visible(f, k, s) :
                       o.seq =< FirstVisible(Hit(l, k, s), k, s).seq
<1> USE DEF VInv
<1> DEFINE H == Hits(l, k, s)
<1>1. /\ IsFiniteSet(files[l])
      /\ \A f \in files[l] :
            /\ File(f) /\ f \subseteq written /\ IsFiniteSet(f)
            /\ Largest(f) \in f
            /\ \A o \in f : o = Largest(f) \/ Before(o, Largest(f))
            /\ Smallest(f).key \in Int /\ Largest(f).key \in Int
            /\ \A o \in f : /\ o \in written /\ o.key \in Int /\ o.seq \in Int
                            /\ Smallest(f).key =< o.key /\ o.key =< Largest(f).key
  BY Ends, EndKeys, WrittenType DEF Stored, Files, File
<1>2. \A f \in files[l] : \A o \in Visible(f, k, s) : o \in f /\ o.key = k /\ o.seq =< s
  BY DEF Visible
<1>3. CASE l = 0
  <2>1. H = {f \in files[0] : Overlaps(f, [lo |-> k, hi |-> k]) /\ Visible(f, k, s) # {}}
    BY <1>3 DEF Hits, Candidates
  <2>2. ASSUME NEW f \in files[0], Visible(f, k, s) # {} PROVE f \in H
    <3>1. PICK o : o \in Visible(f, k, s)
      BY <2>2
    <3>2. o \in f /\ o.key = k
      BY <1>2, <1>3, <3>1
    <3>3. Overlaps(f, [lo |-> k, hi |-> k])
      BY <1>1, <1>3, <3>2 DEF Overlaps
    <3> QED
      BY <2>1, <2>2, <3>3
  <2>3. H \subseteq files[0] /\ IsFiniteSet(H) /\ \A f \in H : Visible(f, k, s) # {}
    <3>1. H \subseteq files[0] /\ \A f \in H : Visible(f, k, s) # {}
      BY <2>1
    <3> HIDE DEF H
    <3> QED
      BY <1>1, <1>3, <3>1, FS_Subset
  <2>4. ASSUME H # {}
        PROVE  Hit(l, k, s) \in H /\ \A g \in H : Newest(g) =< Newest(Hit(l, k, s))
    <3> DEFINE R == {p \in files[0] \X files[0] : Newest(p[2]) < Newest(p[1])}
    <3>1. \A x, y \in files[0] : <<x, y>> \in R <=> Newest(y) < Newest(x)
      OBVIOUS
    <3> HIDE DEF R, H
    <3>2. \A f \in H : Newest(f) \in Int
      BY <1>1, <1>3, <2>3, NewestIs
    <3>3. PICK m \in H : \A x \in H : <<x, m>> \notin R
      <4>1. \A x \in H : <<x, x>> \notin R
        BY <2>3, <3>1, <3>2
      <4>2. \A x, y, z \in H : <<x, y>> \in R /\ <<y, z>> \in R => <<x, z>> \in R
        <5> SUFFICES ASSUME NEW x \in H, NEW y \in H, NEW z \in H,
                            <<x, y>> \in R, <<y, z>> \in R
                     PROVE  <<x, z>> \in R
          OBVIOUS
        <5>1. Newest(y) < Newest(x) /\ Newest(z) < Newest(y)
          BY <2>3, <3>1
        <5>2. Newest(z) < Newest(x)
          BY <3>2, <5>1
        <5> QED
          BY <2>3, <3>1, <5>2
      <4> QED
        BY <2>3, <2>4, <4>1, <4>2, Minimal
    <3>4. ASSUME NEW x \in H PROVE Newest(x) =< Newest(m)
      <4>1. ~ (Newest(m) < Newest(x))
        BY <2>3, <3>1, <3>3
      <4> QED
        BY <3>2, <3>3, <4>1
    <3>5. \E f \in H : \A g \in H : Newest(g) =< Newest(f)
      BY <3>4
    <3> QED
      BY <3>5 DEF Hit, H
  <2>5. ASSUME H # {}, NEW f \in files[0], NEW o \in Visible(f, k, s)
        PROVE  o.seq =< FirstVisible(Hit(l, k, s), k, s).seq
    <3> PICK h : h = Hit(l, k, s)
      OBVIOUS
    <3> HIDE DEF H
    <3>1. h \in files[0] /\ Visible(h, k, s) # {}
      BY <2>3, <2>4, <2>5
    <3>2. /\ FirstVisible(h, k, s) \in h /\ FirstVisible(h, k, s).seq \in Int
          /\ \A x \in Visible(h, k, s) : x.seq =< FirstVisible(h, k, s).seq
      BY <1>1, <1>3, <3>1, FirstIs
    <3>3. CASE f = h
      BY <2>5, <3>2, <3>3
    <3>4. CASE f # h
      <4>1. f \in H /\ Newest(f) =< Newest(h)
        BY <2>2, <2>4, <2>5
      <4>2. ~ Older(h, f)
        <5>1. PICK x \in f : x.seq = Newest(f)
          BY <1>1, <1>3, NewestIs
        <5>2. PICK y \in h : y.seq = Newest(h)
          BY <1>1, <1>3, <3>1, NewestIs
        <5>3. ~ (y.seq < x.seq)
          BY <1>1, <1>3, <3>1, <4>1, <5>1, <5>2
        <5> QED
          BY <5>3 DEF Older
      <4>3. Older(f, h)
        BY <3>1, <3>4, <4>2 DEF FlushOrder
      <4>4. o \in f /\ o.seq \in Int
        BY <1>1, <1>2, <1>3, <2>5
      <4>5. o.seq < FirstVisible(h, k, s).seq
        BY <3>2, <4>3, <4>4 DEF Older
      <4> QED
        BY <3>2, <4>4, <4>5
    <3> QED
      BY <3>3, <3>4
  <2> HIDE DEF H
  <2>6. \A f \in files[l] : Visible(f, k, s) # {} => H # {}
    BY <1>3, <2>2
  <2> QED
    BY <1>3, <2>3, <2>4, <2>5, <2>6 DEF H
<1>4. CASE l # 0
  <2> DEFINE found == FindFile(files[l], k, s)
             Reaches(f) == ~ Before(Largest(f), [key |-> k, seq |-> s])
  <2>1. /\ \A g, h \in found : g = h
        /\ \A g \in found : g \in files[l] /\ Reaches(g)
        /\ \A f \in files[l] : Reaches(f) => \E m \in found : m = f \/ Ahead(m, f)
    BY <1>4, FindFileIs
  <2>2. H = {f \in found : Smallest(f).key =< k /\ Visible(f, k, s) # {}}
    BY <1>4 DEF Hits, Candidates
  <2>3. ASSUME NEW f \in files[l]
        PROVE  Reaches(f) <=> ~ \/ Largest(f).key < k
                                \/ Largest(f).key = k /\ Largest(f).seq > s
    BY DEF Before
  <2> HIDE DEF found, Reaches
  <2>4. ASSUME NEW f \in files[l], NEW o \in Visible(f, k, s)
        PROVE  \E m \in found : m \in H /\ o.seq =< FirstVisible(m, k, s).seq
    <3>1. o \in f /\ o.key = k /\ o.seq =< s /\ o.seq \in Int
      BY <1>1, <1>2, <2>4
    <3>2. Reaches(f)
      <4>1. Largest(f).seq \in Int /\ Largest(f).key \in Int
        BY <1>1
      <4>2. CASE o = Largest(f)
        BY <2>3, <3>1, <4>1, <4>2
      <4>3. CASE Before(o, Largest(f))
        BY <2>3, <3>1, <4>1, <4>3 DEF Before
      <4> QED
        BY <1>1, <3>1, <4>2, <4>3
    <3>3. PICK m \in found : m = f \/ Ahead(m, f)
      BY <2>1, <3>2
    <3>4. m \in files[l] /\ Reaches(m)
      BY <2>1, <3>3
    <3>5. \E x \in Visible(m, k, s) : o.seq =< x.seq
      <4>1. CASE m = f
        BY <3>1, <4>1
      <4>2. CASE Ahead(m, f)
        <5> PICK x : x = Largest(m)
          OBVIOUS
        <5>1. x \in m /\ x.key \in Int /\ x.seq \in Int
          BY <1>1, <3>4
        <5>2. Before(x, o)
          BY <3>1, <4>2, <5>1 DEF Ahead
        <5>3. ~ (x.key < k \/ (x.key = k /\ x.seq > s))
          BY <2>3, <3>4
        <5>4. x.key = k /\ x.seq =< s /\ o.seq =< x.seq
          BY <3>1, <5>1, <5>2, <5>3 DEF Before
        <5> QED
          BY <5>1, <5>4 DEF Visible
      <4> QED
        BY <3>3, <4>1, <4>2
    <3>6. PICK x \in Visible(m, k, s) : o.seq =< x.seq
      BY <3>5
    <3>7. x \in m /\ x.key = k /\ x.seq \in Int
      BY <1>1, <1>2, <3>4, <3>6
    <3>8. m \in H
      BY <1>1, <2>2, <3>4, <3>6, <3>7
    <3>9. /\ FirstVisible(m, k, s).seq \in Int
          /\ x.seq =< FirstVisible(m, k, s).seq
      <4>1. Visible(m, k, s) # {}
        BY <3>6
      <4> QED
        BY <1>1, <3>4, <3>6, <4>1, FirstIs
    <3> QED
      BY <3>1, <3>6, <3>7, <3>8, <3>9
  <2>5. \A g, h \in H : g = h
    BY <2>1, <2>2
  <2>6. H \subseteq files[l] /\ \A f \in H : Visible(f, k, s) # {}
    BY <2>1, <2>2
  <2>7. H # {} => Hit(l, k, s) \in H
    <3> SUFFICES ASSUME NEW h \in H PROVE Hit(l, k, s) \in H
      OBVIOUS
    <3>1. Newest(h) \in Int
      BY <1>1, <2>6, NewestIs
    <3>2. \A g \in H : Newest(g) =< Newest(h)
      BY <2>5, <3>1
    <3> QED
      BY <3>2 DEF Hit
  <2>8. \A f \in files[l] : Visible(f, k, s) # {} => H # {}
    BY <2>4
  <2>9. ASSUME H # {}, NEW f \in files[l], NEW o \in Visible(f, k, s)
        PROVE  o.seq =< FirstVisible(Hit(l, k, s), k, s).seq
    BY <2>4, <2>5, <2>7, <2>9
  <2> HIDE DEF H
  <2>10. H # {} => /\ Hit(l, k, s) \in files[l]
                   /\ Visible(Hit(l, k, s), k, s) # {}
    BY <2>6, <2>7
  <2> QED
    BY <2>8, <2>9, <2>10 DEF H
<1> QED
  BY <1>3, <1>4

-----------------------------------------------------------------------------

\* What is left of the history, by where it is.
LEMMA PresentIs ==
    ASSUME Stored
    PROVE  /\ mem \subseteq Present /\ InTables \subseteq Present
           /\ Present \subseteq written
           /\ \A l \in Levels : \A f \in files[l] : f \subseteq InTables
           /\ \A e \in Present : e \in mem \/ \E l \in Levels : \E f \in files[l] : e \in f
BY DEF Stored, Files, File, InTables, Present

\* DBImpl::Get finds the newest entry that is left for the reader, wherever it is:
\* the memtable is newer than the tables, a level newer than those below.
LEMMA GetIs ==
    ASSUME VInv, IsFiniteSet(written), MemNewest, FlushOrder, EntriesNeverHop,
           NEW k \in Int, NEW s \in Int
    PROVE  Get(k, s) = Latest(Present, k, s)
<1> USE DEF VInv
<1>1. /\ mem \subseteq Present /\ InTables \subseteq Present
      /\ Present \subseteq written /\ IsFiniteSet(Present)
      /\ \A l \in Levels : \A f \in files[l] : f \subseteq InTables
      /\ \A e \in Present : e \in mem \/ \E l \in Levels : \E f \in files[l] : e \in f
  BY PresentIs, FS_Subset
<1>2. \A e \in written : e.seq \in Int
  BY WrittenType
<1>3. CASE Visible(mem, k, s) # {}
  <2> PICK e : e = FirstVisible(mem, k, s)
    OBVIOUS
  <2>1. e \in mem /\ e \in Visible(mem, k, s) /\ \A o \in Visible(mem, k, s) : o.seq =< e.seq
    BY <1>3, FirstIs DEF Stored
  <2>2. e \in Visible(Present, k, s)
    BY <1>1, <2>1 DEF Visible
  <2>3. ASSUME NEW o \in Visible(Present, k, s) PROVE o.seq =< e.seq
    <3>1. o \in Present
      BY DEF Visible
    <3>2. CASE o \in mem
      <4>1. o \in Visible(mem, k, s)
        BY <3>2 DEF Visible
      <4> QED
        BY <2>1, <4>1
    <3>3. CASE o \in InTables
      <4>1. o.seq < e.seq /\ o \in written /\ e \in written
        BY <1>1, <2>1, <3>3 DEF MemNewest
      <4> QED
        BY <1>2, <4>1
    <3> QED
      BY <3>1, <3>2, <3>3 DEF Present
  <2>4. FirstVisible(Present, k, s) = e
    BY <1>1, <2>2, <2>3, FirstIsOnly
  <2> QED
    BY <1>3, <2>2, <2>4 DEF Get, Latest
<1>4. CASE Visible(mem, k, s) = {}
  <2>1. \A o \in Visible(Present, k, s) :
          \E l \in Levels : \E f \in files[l] : o \in Visible(f, k, s)
    BY <1>1, <1>4 DEF Visible
  <2>2. \A l \in Levels :
          /\ \A f \in files[l] : Visible(f, k, s) # {} => Hits(l, k, s) # {}
          /\ Hits(l, k, s) # {} =>
                /\ Hit(l, k, s) \in files[l]
                /\ Visible(Hit(l, k, s), k, s) # {}
                /\ \A f \in files[l] : \A o \in Visible(f, k, s) :
                      o.seq =< FirstVisible(Hit(l, k, s), k, s).seq
    BY LevelHit
  <2>3. CASE \A l \in Levels : Hits(l, k, s) = {}
    <3>1. Visible(Present, k, s) = {}
      BY <2>1, <2>2, <2>3
    <3>2. VersionGet(k, s) = NotFound
      BY <2>3, VersionGetIs
    <3> QED
      BY <1>4, <3>1, <3>2 DEF Get, Latest, NotFound
  <2>4. CASE \E l \in Levels : Hits(l, k, s) # {}
    <3> PICK level : level = CHOOSE l \in Levels :
                                /\ Hits(l, k, s) # {}
                                /\ \A m \in 0 .. l - 1 : Hits(m, k, s) = {}
      OBVIOUS
    <3>1. level \in Levels /\ Hits(level, k, s) # {} /\ \A m \in 0 .. level - 1 : Hits(m, k, s) = {}
      <4> DEFINE ls == {l \in Levels : Hits(l, k, s) # {}}
      <4>1. ls \in SUBSET Int /\ ls # {} /\ IsFiniteSet(ls)
        <5>1. IsFiniteSet(Levels) /\ Levels \in SUBSET Int
          BY LevelsAssumption, FS_Interval DEF Levels
        <5> QED
          BY <2>4, <5>1, FS_Subset
      <4>2. PICK n \in ls : \A x \in ls : n =< x
        <5> HIDE DEF ls
        <5> QED
          BY <4>1, LeastInt
      <4>3. ASSUME NEW m \in 0 .. n - 1 PROVE Hits(m, k, s) = {}
        <5>1. m \in Levels /\ ~ (n =< m)
          BY <4>2, LevelsAssumption DEF Levels
        <5> QED
          BY <4>2, <5>1
      <4> QED
        BY <4>2, <4>3
    <3> PICK h : h = Hit(level, k, s)
      OBVIOUS
    <3> PICK e : e = FirstVisible(h, k, s)
      OBVIOUS
    <3>2. VersionGet(k, s) = e
      BY <2>4, VersionGetIs
    <3>3. h \in files[level] /\ e \in Visible(h, k, s) /\ e \in h /\ e.key = k
      <4>1. h \in files[level] /\ Visible(h, k, s) # {}
        BY <2>2, <3>1
      <4>2. h \subseteq written /\ IsFiniteSet(h)
        BY <3>1, <4>1 DEF Stored, Files, File
      <4>3. e \in Visible(h, k, s) /\ e \in h
        BY <4>1, <4>2, FirstIs
      <4> QED
        BY <4>1, <4>3 DEF Visible
    <3>4. e \in Visible(Present, k, s)
      BY <1>1, <3>1, <3>3 DEF Visible
    <3>5. ASSUME NEW o \in Visible(Present, k, s) PROVE o.seq =< e.seq
      <4>1. PICK m \in Levels : \E f \in files[m] : o \in Visible(f, k, s)
        BY <2>1
      <4>2. Hits(m, k, s) # {}
        BY <2>2, <4>1
      <4>3. m \notin 0 .. level - 1 /\ m \in Int /\ level \in Int /\ 0 =< m
        BY <3>1, <4>2, LevelsAssumption DEF Levels
      <4>4. CASE m = level
        BY <2>2, <3>1, <4>1, <4>4
      <4>5. CASE m # level
        <5>1. m \in level + 1 .. NumLevels - 1
          BY <4>3, <4>5, LevelsAssumption DEF Levels
        <5>2. o \in UNION files[m] /\ e \in UNION files[level] /\ o.key = k
          BY <3>3, <4>1 DEF Visible
        <5>3. e.seq > o.seq
          BY <3>1, <3>3, <5>1, <5>2 DEF EntriesNeverHop
        <5>4. e.seq \in Int /\ o.seq \in Int
          BY <1>1, <1>2, <3>4 DEF Visible
        <5> QED
          BY <5>3, <5>4
      <4> QED
        BY <4>4, <4>5
    <3>6. FirstVisible(Present, k, s) = e
      BY <1>1, <3>4, <3>5, FirstIsOnly
    <3> QED
      BY <1>4, <3>2, <3>4, <3>6 DEF Get, Latest
  <2> QED
    BY <2>3, <2>4
<1> QED
  BY <1>3, <1>4

\* So a read is right when what is left is faithful to what was written.
LEMMA ReadsFollow ==
    ASSUME VInv, RInv
    PROVE  ReadsAreCurrent
<1> USE DEF VInv, RInv
<1> SUFFICES ASSUME ~ torn, NEW k \in UserKeys, NEW s \in Live
             PROVE  Get(k, s) = Latest(written, k, s)
  BY DEF ReadsAreCurrent, Live
<1>1. k \in Int /\ s \in Int
  <2>1. lastSequence \in Int
    BY SeqAssumption DEF TypeOK
  <2>2. \A x \in snapshots : x \in 0 .. lastSequence
    BY DEF TypeOK
  <2> QED
    BY <2>1, <2>2, KeysAssumption DEF Live
<1>2. Get(k, s) = Latest(Present, k, s)
  BY <1>1, GetIs DEF Stacked
<1>3. Present \subseteq written /\ IsFiniteSet(Present)
  BY PresentIs, FS_Subset
<1>4. CASE Visible(written, k, s) = {}
  <2>1. Visible(Present, k, s) = {}
    BY <1>3, <1>4 DEF Visible
  <2> QED
    BY <1>2, <1>4, <2>1 DEF Latest
<1>5. CASE Visible(written, k, s) # {}
  <2> PICK e : e = FirstVisible(written, k, s)
    OBVIOUS
  <2>1. e \in Visible(written, k, s) /\ \A o \in Visible(written, k, s) : o.seq =< e.seq
    BY <1>5, FirstIs
  <2>2. CASE e \in Present
    <3>1. e \in Visible(Present, k, s) /\ \A o \in Visible(Present, k, s) : o.seq =< e.seq
      BY <1>3, <2>1, <2>2 DEF Visible
    <3>2. FirstVisible(Present, k, s) = e
      BY <1>3, <3>1, FirstIsOnly
    <3> QED
      BY <1>2, <1>5, <3>1, <3>2 DEF Latest
  <2>3. CASE e.type = "deletion" /\ Visible(Present, k, s) = {}
    BY <1>2, <1>5, <2>3 DEF Latest
  <2> QED
    BY <1>5, <2>2, <2>3 DEF Faithful
<1> QED
  BY <1>4, <1>5

LEMMA TearFollows ==
    ASSUME VInv, RInv
    PROVE  TearNeedsSnapshot
BY DEF VInv, TypeOK, RInv, Unheld, TearNeedsSnapshot

-----------------------------------------------------------------------------
(* The invariant behind the reads is kept.                                   *)

LEMMA RInit == Init => RInv
<1> SUFFICES ASSUME Init PROVE RInv
  OBVIOUS
<1> USE DEF Init
<1>1. IsFiniteSet(written)
  BY FS_EmptySet
<1>2. MemNewest /\ FlushOrder /\ CompactionKnows
  BY LevelsAssumption DEF MemNewest, FlushOrder, CompactionKnows, Levels
<1>3. Stacked
  <2>1. \A l \in Levels : \A m \in l + 1 .. NumLevels - 1 : files[m] = {}
    BY LevelsAssumption DEF Levels
  <2>2. \A l \in Levels : \A m \in l + 1 .. NumLevels - 1 : UNION files[m] = {}
    BY <2>1
  <2> QED
    BY <2>2 DEF Stacked, EntriesNeverHop
<1>4. Faithful
  BY DEF Faithful, Visible
<1>5. Unheld
  BY DEF Unheld
<1> QED
  BY <1>1, <1>2, <1>3, <1>4, <1>5 DEF RInv

\* A step that writes nothing, loses nothing and lets nobody read earlier.
LEMMA FaithfulKept ==
    ASSUME Faithful, UNCHANGED written, Present' = Present, Live' \subseteq Live,
           torn => torn'
    PROVE  Faithful'
BY DEF Faithful, Visible, FirstVisible

LEMMA WriteReads ==
    ASSUME VInv, RInv, NEW k \in UserKeys, NEW type \in Types, Write(k, type)
    PROVE  RInv'
<1> USE DEF VInv, RInv
<1> PICK e : e = [key |-> k, seq |-> lastSequence + 1, type |-> type]
  OBVIOUS
<1>1. /\ mem' = mem \cup {e} /\ written' = written \cup {e}
      /\ lastSequence' = lastSequence + 1 /\ lastSequence \in Int /\ e.seq = lastSequence + 1
      /\ UNCHANGED <<files, snapshots, compaction, torn, held>>
  BY SeqAssumption DEF Write, TypeOK
<1>2. \A d \in written : d.seq \in Int /\ d.seq =< lastSequence
  BY WrittenType DEF Numbered
<1>3. InTables' = InTables /\ Present' = Present \cup {e} /\ InTables \subseteq written
  BY <1>1 DEF InTables, Present, Stored, Files, File
<1>4. IsFiniteSet(written')
  BY <1>1, FS_AddElement
<1>5. MemNewest'
  <2>1. \A d \in InTables : d.seq < e.seq
    BY <1>1, <1>2, <1>3
  <2> QED
    BY <1>1, <1>3, <2>1 DEF MemNewest
<1>6. FlushOrder' /\ Stacked' /\ Unheld'
  BY <1>1 DEF FlushOrder, Stacked, EntriesNeverHop, Unheld
<1>7. CompactionKnows'
  <2>1. ASSUME compaction # Idle, NEW s \in Live' PROVE compaction.smallest =< s
    <3>1. CASE s \in snapshots
      BY <2>1, <3>1 DEF CompactionKnows, Live
    <3>2. CASE s = lastSequence + 1
      <4>1. compaction.smallest \in Int /\ compaction.smallest =< lastSequence
        BY <1>1, <2>1 DEF TypeOK
      <4> QED
        BY <1>1, <3>2, <4>1
    <3> QED
      BY <1>1, <2>1, <3>1, <3>2 DEF Live
  <2> QED
    BY <1>1, <2>1 DEF CompactionKnows, LeavesOlder, Inputs
<1>8. Faithful'
  <2> SUFFICES ASSUME ~ torn, NEW q \in UserKeys, NEW s \in Live',
                      Visible(written', q, s) # {}
               PROVE  \/ FirstVisible(written', q, s) \in Present'
                      \/ /\ FirstVisible(written', q, s).type = "deletion"
                         /\ Visible(Present', q, s) = {}
    BY <1>1 DEF Faithful
  <2> DEFINE seen == IF s \in snapshots THEN s ELSE lastSequence
  <2>1. seen \in Live /\ seen \in Int /\ seen =< lastSequence
    BY <1>1 DEF Live, TypeOK
  <2>2. s = seen \/ (s = lastSequence + 1 /\ seen = lastSequence)
    BY <1>1 DEF Live
  <2> HIDE DEF seen
  <2>3. CASE q = k /\ s = lastSequence + 1
    <3>1. e \in Visible(written', q, s)
      BY <1>1, <2>3 DEF Visible
    <3>2. \A o \in Visible(written', q, s) : o.seq =< e.seq
      BY <1>1, <2>3 DEF Visible
    <3>3. FirstVisible(written', q, s) = e
      <4>1. \A o \in Visible(written', q, s) : e.seq =< o.seq => o = e
        BY <1>1, <1>2 DEF Visible
      <4>2. FirstVisible(written', q, s) \in Visible(written', q, s)
            /\ e.seq =< FirstVisible(written', q, s).seq
        BY <3>1, <3>2 DEF FirstVisible
      <4> QED
        BY <4>1, <4>2
    <3> QED
      BY <1>3, <3>3
  <2>4. CASE ~ (q = k /\ s = lastSequence + 1)
    <3>1. \A f : f \subseteq written => Visible(f \cup {e}, q, s) = Visible(f, q, seen)
      <4>1. ~ (e.key = q /\ e.seq =< s)
        BY <1>1, <2>1, <2>2, <2>4
      <4>2. \A d \in written : d.seq =< s <=> d.seq =< seen
        BY <1>1, <1>2, <2>1, <2>2
      <4> QED
        BY <4>1, <4>2 DEF Visible
    <3>2. /\ Visible(written', q, s) = Visible(written, q, seen)
          /\ Visible(Present', q, s) = Visible(Present, q, seen)
      BY <1>1, <1>3, <3>1 DEF Present
    <3>3. FirstVisible(written', q, s) = FirstVisible(written, q, seen)
      BY <3>2 DEF FirstVisible
    <3> QED
      BY <1>3, <2>1, <3>2, <3>3 DEF Faithful
  <2> QED
    BY <2>3, <2>4
<1> QED
  BY <1>4, <1>5, <1>6, <1>7, <1>8

LEMMA SnapshotReads ==
    ASSUME VInv, RInv, GetSnapshot \/ \E s \in snapshots : ReleaseSnapshot(s)
    PROVE  RInv'
<1> USE DEF RInv
<1>1. /\ UNCHANGED <<lastSequence, mem, files, compaction, written, torn>>
      /\ Live' \subseteq Live
      /\ held => held'
      /\ ~ held' => ~ held /\ snapshots' \subseteq snapshots
  BY DEF GetSnapshot, ReleaseSnapshot, Live
<1>2. IsFiniteSet(written') /\ MemNewest' /\ FlushOrder' /\ Stacked' /\ Present' = Present
  BY <1>1 DEF MemNewest, FlushOrder, Stacked, EntriesNeverHop, Present, InTables
<1>3. CompactionKnows'
  BY <1>1 DEF CompactionKnows, LeavesOlder, Inputs
<1>4. Faithful'
  BY <1>1, <1>2, FaithfulKept
<1>5. Unheld'
  BY <1>1 DEF Unheld
<1> QED
  BY <1>2, <1>3, <1>4, <1>5

\* A file outside the range of others has none of their keys.
LEMMA Clear ==
    ASSUME Numbered, NEW fs, Files(fs), NEW f, File(f), ~ Overlaps(f, GetRange(fs)),
           NEW g \in fs
    PROVE  ~ Share(f, g)
<1> PICK r : r = GetRange(fs)
  OBVIOUS
<1>1. /\ r.lo \in Int /\ r.hi \in Int
      /\ r.lo =< Smallest(g).key /\ Largest(g).key =< r.hi
  BY RangeOf
<1>2. \A h \in {f, g} :
        /\ Smallest(h).key \in Int /\ Largest(h).key \in Int
        /\ \A o \in h : /\ o.key \in Int
                        /\ Smallest(h).key =< o.key /\ o.key =< Largest(h).key
  BY EndKeys DEF Files
<1>3. Largest(f).key < r.lo \/ r.hi < Smallest(f).key
  BY <1>1, <1>2 DEF Overlaps
<1> SUFFICES ASSUME NEW e \in f, NEW d \in g, e.key = d.key PROVE FALSE
  BY DEF Share
<1>4. /\ e.key \in Int /\ Smallest(f).key =< e.key /\ e.key =< Largest(f).key
      /\ Smallest(g).key =< e.key /\ e.key =< Largest(g).key
  BY <1>2
<1> QED
  BY <1>1, <1>2, <1>3, <1>4

\* What CompactMemTable does, and what it looked at.
LEMMA FlushIs ==
    ASSUME VInv, NEW last \in 1 .. lastSequence, CompactMemTable(last)
    PROVE  \E level \in Levels, imm \in SUBSET mem :
              /\ imm = {e \in mem : e.seq =< last}
              /\ mem' = mem \ imm
              /\ UNCHANGED <<lastSequence, snapshots, compaction, written, torn, held>>
              /\ files'[level] = files[level] \cup {imm}
              /\ \A l \in Levels \ {level} : files'[l] = files[l]
              /\ level # 0 => \A l \in 0 .. level : \A f \in files[l] : ~ Share(f, imm)
<1> USE DEF VInv
<1> PICK imm : imm = {e \in mem : e.seq =< last}
  OBVIOUS
<1> PICK r : r = GetRange({imm})
  OBVIOUS
<1>1. PICK level \in PickLevelForMemTableOutput(r) :
        files' = [files EXCEPT ![level] = @ \cup {imm}]
  BY DEF CompactMemTable
<1>2. /\ imm # {} /\ imm \in SUBSET mem /\ mem' = mem \ imm
      /\ UNCHANGED <<lastSequence, snapshots, compaction, written, torn, held>>
  BY DEF CompactMemTable
<1>3. File(imm) /\ Files({imm})
  <2>1. File(imm)
    BY <1>2, FS_Subset DEF File, Stored
  <2> QED
    BY <2>1, FS_Singleton DEF Files
<1>4. r.lo \in Int /\ r.hi \in Int
  BY <1>3, RangeOf
<1>5. /\ level \in Levels /\ level \in 0 .. MaxMemCompactLevel
      /\ \A l \in 0 .. level : l \in Levels
  BY LevelsAssumption DEF PickLevelForMemTableOutput, Levels
<1>6. ASSUME level # 0, NEW l \in 0 .. level, NEW f \in files[l]
      PROVE  ~ Share(f, imm)
  <2>1. ~ OverlapInLevel(l, r)
    BY <1>5, <1>6 DEF PickLevelForMemTableOutput
  <2>2. ~ Overlaps(f, r) /\ File(f)
    BY <1>4, <1>5, <2>1, NoneOverlaps DEF Stored, Files
  <2> QED
    BY <1>3, <2>2, Clear
<1>7. /\ files'[level] = files[level] \cup {imm}
      /\ \A l \in Levels \ {level} : files'[l] = files[l]
  BY <1>1, <1>5 DEF TypeOK
<1> QED
  BY <1>2, <1>5, <1>6, <1>7

LEMMA CompactMemTableReads ==
    ASSUME VInv, RInv, NEW last \in 1 .. lastSequence, CompactMemTable(last)
    PROVE  RInv'
<1> USE DEF VInv, RInv
<1>1. PICK level \in Levels, imm \in SUBSET mem :
        /\ imm = {e \in mem : e.seq =< last}
        /\ mem' = mem \ imm
        /\ UNCHANGED <<lastSequence, snapshots, compaction, written, torn, held>>
        /\ files'[level] = files[level] \cup {imm}
        /\ \A l \in Levels \ {level} : files'[l] = files[l]
        /\ level # 0 => \A l \in 0 .. level : \A f \in files[l] : ~ Share(f, imm)
  BY FlushIs
<1>2. \A l \in Levels : \A f \in files'[l] : f \in files[l] \/ (l = level /\ f = imm)
  BY <1>1
<1>3. mem \subseteq written /\ \A e \in written : e.seq \in Int
  BY WrittenType DEF Stored
<1>4. \A l \in Levels : \A f \in files[l] : f \subseteq InTables
  BY PresentIs
<1>5. InTables' = InTables \cup imm
  BY <1>1, <1>2, <1>3 DEF InTables
<1>6. Present' = Present
  BY <1>1, <1>3, <1>5 DEF Present
<1>7. MemNewest'
  <2> SUFFICES ASSUME NEW e \in mem', NEW d \in InTables' PROVE d.seq < e.seq
    BY DEF MemNewest
  <2>1. e \in mem /\ ~ (e.seq =< last) /\ e.seq \in Int
    BY <1>1, <1>3
  <2>2. CASE d \in InTables
    BY <2>1, <2>2 DEF MemNewest
  <2>3. CASE d \in imm
    <3>1. d.seq =< last /\ d.seq \in Int /\ last \in Int
      BY <1>1, <1>3, <2>3
    <3> QED
      BY <2>1, <3>1
  <2> QED
    BY <1>5, <2>2, <2>3
<1>8. ASSUME NEW l \in Levels, NEW f \in files[l] PROVE Older(f, imm)
  BY <1>1, <1>4, <1>8 DEF MemNewest, Older
<1>9. FlushOrder'
  <2> SUFFICES ASSUME NEW f \in files'[0], NEW g \in files'[0], f # g
               PROVE  Older(f, g) \/ Older(g, f)
    BY DEF FlushOrder, Older
  <2>1. 0 \in Levels
    BY LevelsAssumption DEF Levels
  <2>2. CASE f \in files[0] /\ g \in files[0]
    BY <2>2 DEF FlushOrder
  <2>3. CASE 0 = level /\ f = imm
    BY <1>2, <1>8, <2>1, <2>3
  <2>4. CASE 0 = level /\ g = imm
    BY <1>2, <1>8, <2>1, <2>4
  <2> QED
    BY <1>2, <2>1, <2>2, <2>3, <2>4
<1>10. Stacked'
  <2> SUFFICES ASSUME ~ torn, NEW l \in Levels, NEW m \in l + 1 .. NumLevels - 1,
                      NEW f \in files'[l], NEW g \in files'[m],
                      NEW e \in f, NEW d \in g, e.key = d.key
               PROVE  e.seq > d.seq
    BY <1>1 DEF Stacked, EntriesNeverHop
  <2>1. m \in Levels /\ l # m /\ (m = level => level # 0 /\ l \in 0 .. level)
    BY LevelsAssumption DEF Levels
  <2>2. CASE f \in files[l] /\ g \in files[m]
    BY <1>1, <2>2 DEF Stacked, EntriesNeverHop
  <2>3. CASE l = level /\ f = imm
    <3>1. g \in files[m]
      BY <1>1, <2>1, <2>3
    <3>2. d \in InTables /\ e \in mem
      BY <1>1, <1>4, <2>1, <2>3, <3>1
    <3>3. d.seq < e.seq /\ d.seq \in Int /\ e.seq \in Int
      BY <1>3, <3>2 DEF MemNewest, InTables
    <3> QED
      BY <3>3
  <2>4. CASE m = level /\ g = imm
    <3>1. f \in files[l]
      BY <1>1, <2>1, <2>4
    <3> QED
      BY <1>1, <2>1, <2>4, <3>1 DEF Share
  <2> QED
    BY <1>2, <2>1, <2>2, <2>3, <2>4
<1>11. CompactionKnows'
  <2> SUFFICES ASSUME compaction # Idle
               PROVE  CompactionKnows'
    BY <1>1 DEF CompactionKnows
  <2> PICK l : l = compaction.level
    OBVIOUS
  <2>1. /\ l \in 0 .. NumLevels - 2 /\ l \in Levels /\ l + 1 \in Levels
        /\ compaction.in0 \subseteq files[l] /\ compaction.in1 \subseteq files[l + 1]
    BY LevelsAssumption DEF TypeOK, Levels
  <2>2. \A s \in Live' : compaction.smallest =< s
    BY <1>1 DEF CompactionKnows, Live
  <2>3. ASSUME NEW f \in files'[l + 1] \ compaction.in1, NEW g \in compaction.in0
        PROVE  ~ Share(f, g)
    <3>1. CASE f \in files[l + 1]
      BY <2>3, <3>1 DEF CompactionKnows
    <3>2. CASE l + 1 = level /\ f = imm
      <4>1. level # 0 /\ l \in 0 .. level /\ g \in files[l]
        BY <2>1, <3>2
      <4>2. ~ Share(g, imm)
        BY <1>1, <4>1
      <4> QED
        BY <3>2, <4>2 DEF Share
    <3> QED
      BY <1>2, <2>1, <3>1, <3>2
  <2>4. ASSUME NEW m \in l + 2 .. NumLevels - 1, NEW f \in files'[m] \ compaction.higher,
               NEW g \in Inputs
        PROVE  ~ Share(f, g)
    <3>1. m \in Levels /\ m # 0 /\ l \in 0 .. m /\ l + 1 \in 0 .. m
      BY <2>1, LevelsAssumption DEF Levels
    <3>2. CASE f \in files[m]
      BY <2>4, <3>2 DEF CompactionKnows
    <3>3. CASE m = level /\ f = imm
      <4>1. g \in files[l] \/ g \in files[l + 1]
        BY <2>1 DEF Inputs
      <4>2. ~ Share(g, imm)
        BY <1>1, <3>1, <3>3, <4>1
      <4> QED
        BY <3>3, <4>2 DEF Share
    <3> QED
      BY <1>2, <3>1, <3>2, <3>3
  <2>5. l = 0 => ~ LeavesOlder(0, compaction.in0)'
    <3> SUFFICES ASSUME l = 0, NEW f \in files'[0] \ compaction.in0, NEW g \in compaction.in0,
                        NEW e \in f, NEW d \in g, e.key = d.key, e.seq < d.seq
                 PROVE  FALSE
      BY <1>1 DEF LeavesOlder
    <3>1. f \in files[0] => FALSE
      BY DEF CompactionKnows, LeavesOlder
    <3>2. CASE f = imm
      <4>1. d.seq < e.seq
        BY <1>8, <2>1, <3>2 DEF Older
      <4>2. d \in InTables /\ e \in mem
        BY <1>1, <1>4, <2>1, <3>2
      <4>3. d.seq \in Int /\ e.seq \in Int
        BY <1>3, <4>2 DEF InTables
      <4> QED
        BY <4>1, <4>3
    <3> QED
      BY <1>2, <2>1, <3>1, <3>2
  <2>6. ~ held' => \A g \in Inputs : \A e \in g : e.seq =< compaction.smallest
    BY <1>1 DEF CompactionKnows
  <2> QED
    BY <1>1, <2>2, <2>3, <2>4, <2>5, <2>6 DEF CompactionKnows, Inputs
<1>12. Faithful'
  <2>1. Live' = Live
    BY <1>1 DEF Live
  <2> QED
    BY <1>1, <1>6, <2>1, FaithfulKept
<1>13. Unheld'
  <2> SUFFICES ASSUME ~ held, NEW l \in Levels \ {0}, NEW f \in files'[l], NEW g \in files'[l],
                      f # g
               PROVE  ~ Share(f, g)
    BY <1>1 DEF Unheld
  <2>1. ASSUME NEW h \in files[level], level # 0 PROVE ~ Share(h, imm) /\ ~ Share(imm, h)
    <3>1. level \in 0 .. level
      BY LevelsAssumption DEF Levels
    <3>2. ~ Share(h, imm)
      BY <1>1, <2>1, <3>1
    <3> QED
      BY <3>2 DEF Share
  <2>2. CASE f \in files[l] /\ g \in files[l]
    BY <2>2 DEF Unheld
  <2> QED
    BY <1>2, <2>1, <2>2
<1> QED
  BY <1>1, <1>7, <1>9, <1>10, <1>11, <1>12, <1>13

-----------------------------------------------------------------------------
(* Compactions and what is read.                                             *)

\* An entry is in one file of a level.
LEMMA OneFile ==
    ASSUME VInv, FlushOrder, NEW l \in Levels, NEW f \in files[l], NEW g \in files[l], f # g,
           NEW e \in f, NEW d \in g
    PROVE  e # d
<1> USE DEF VInv
<1>1. e \in written /\ d \in written /\ e.seq \in Int
  BY WrittenType DEF Stored, Files, File
<1>2. CASE l = 0
  <2>1. e.seq < d.seq \/ d.seq < e.seq
    BY <1>2 DEF FlushOrder, Older
  <2> QED
    BY <1>1, <2>1
<1>3. CASE l # 0
  <2>1. Before(e, d) \/ Before(d, e)
    BY <1>3 DEF LevelsApart, Disjoint, Ahead
  <2> QED
    BY <1>1, <2>1, Order
<1> QED
  BY <1>2, <1>3

\* A search in level 0 leaves no file that has a key of those it found.
LEMMA ZeroClosed ==
    ASSUME Numbered, Stored, NEW fs, Files(fs), fs # {},
           NEW g \in files[0] \ GetOverlappingInputs(0, GetRange(fs)),
           NEW h \in GetOverlappingInputs(0, GetRange(fs))
    PROVE  ~ Share(g, h)
<1> PICK r : r = GetRange(fs)
  OBVIOUS
<1>1. r.lo \in UserKeys /\ r.hi \in UserKeys /\ r.lo =< r.hi
  BY RangeOf
<1>2. \E q : IsLeast(q, r)
  BY <1>1, LeastExists
<1>3. PICK p : IsLeast(p, r) /\ GetOverlappingInputs(0, r) = {f \in files[0] : Overlaps(f, p)}
  BY <1>2, OverlappingIs
<1>4. /\ p.lo \in Int /\ p.hi \in Int
      /\ \A f \in files[0] : Overlaps(f, p) => Within(f, p)
  BY <1>3, KeysAssumption DEF IsLeast, Closed
<1>5. g \in files[0] /\ h \in files[0] /\ ~ Overlaps(g, p) /\ Within(h, p)
  BY <1>3, <1>4
<1>6. \A f \in {g, h} :
        /\ Smallest(f).key \in Int /\ Largest(f).key \in Int
        /\ \A o \in f : /\ o.key \in Int
                        /\ Smallest(f).key =< o.key /\ o.key =< Largest(f).key
  <2>1. 0 \in Levels
    BY LevelsAssumption DEF Levels
  <2> QED
    BY <1>5, <2>1, EndKeys DEF Stored, Files
<1> SUFFICES ASSUME NEW e \in g, NEW d \in h, e.key = d.key PROVE FALSE
  BY DEF Share
<1>7. /\ e.key \in Int /\ Smallest(g).key =< e.key /\ e.key =< Largest(g).key
      /\ Smallest(h).key =< e.key /\ e.key =< Largest(h).key
  BY <1>6
<1>8. p.lo =< Smallest(h).key /\ Largest(h).key =< p.hi
  BY <1>5 DEF Within
<1>9. ~ (p.lo =< Largest(g).key /\ Smallest(g).key =< p.hi)
  BY <1>5 DEF Overlaps
<1> QED
  BY <1>4, <1>6, <1>7, <1>8, <1>9

\* What the choice of the inputs has made sure of: no file that stays in the next
\* level has a key of the upper inputs, and none that stays in level 0.
LEMMA PickedClear ==
    ASSUME VInv, NEW l \in 0 .. NumLevels - 2, NEW f \in files[l],
           NEW inputs \in PickCompaction(l, f)
    PROVE  /\ \A g \in files[l + 1] \ inputs[2] : \A h \in inputs[1] : ~ Share(g, h)
           /\ l = 0 => \A g \in files[0] \ inputs[1] : \A h \in inputs[1] : ~ Share(g, h)
<1> USE DEF VInv
<1>1. l \in Levels /\ l + 1 \in Levels
  BY LevelsAssumption DEF Levels
<1>2. /\ inputs[1] \subseteq files[l]
      /\ inputs[2] = {g \in files[l + 1] : Overlaps(g, GetRange(inputs[1]))}
  BY Picked
<1>3. \A g \in files[l + 1] \ inputs[2] : \A h \in inputs[1] : ~ Share(g, h)
  <2>1. Files(inputs[1])
    BY <1>1, <1>2, SomeFiles DEF Stored
  <2>2. \A g \in files[l + 1] : File(g)
    BY <1>1 DEF Stored, Files
  <2> QED
    BY <1>2, <2>1, <2>2, Clear
<1>4. ASSUME l = 0 PROVE \A g \in files[0] \ inputs[1] : \A h \in inputs[1] : ~ Share(g, h)
  <2>1. \E fs : Files(fs) /\ fs # {} /\ inputs[1] = GetOverlappingInputs(0, GetRange(fs))
    <3> PICK in0 : in0 = GetOverlappingInputs(0, GetRange({f}))
      OBVIOUS
    <3> PICK in1 : in1 = GetOverlappingInputs(1, GetRange(in0))
      OBVIOUS
    <3>1. \/ inputs[1] = in0
          \/ inputs[1] = GetOverlappingInputs(0, GetRange(in0 \cup in1))
      BY <1>4 DEF PickCompaction, SetupOtherInputs
    <3>2. Files({f})
      BY <1>1, SomeFiles DEF Stored
    <3>3. Files(in0) /\ f \in in0
      <4>1. NoGap({f}) /\ {f} # {}
        BY DEF NoGap
      <4>2. Files(in0) /\ {f} \cap files[0] \subseteq in0
        BY <1>1, <1>4, <3>2, <4>1, Grown
      <4> QED
        BY <1>4, <4>2
    <3>4. Files(in1)
      <4>1. in1 \subseteq files[1] /\ Files(files[1])
        BY <1>1, <1>4 DEF GetOverlappingInputs, Stored
      <4> QED
        BY <4>1, SomeFiles
    <3>5. Files(in0 \cup in1) /\ in0 \cup in1 # {}
      BY <3>3, <3>4, FS_Union DEF Files
    <3>6. CASE inputs[1] = in0
      BY <3>2, <3>6
    <3>7. CASE inputs[1] = GetOverlappingInputs(0, GetRange(in0 \cup in1))
      BY <3>5, <3>7
    <3> QED
      BY <3>1, <3>6, <3>7
  <2> QED
    BY <2>1, ZeroClosed
<1> QED
  BY <1>3, <1>4

LEMMA SmallestIsLeast ==
    ASSUME TypeOK
    PROVE  \A s \in Live : SmallestSnapshot =< s
<1>1. lastSequence \in Int /\ \A s \in snapshots : s \in 0 .. lastSequence
  BY SeqAssumption DEF TypeOK
<1>2. CASE snapshots = {}
  BY <1>1, <1>2 DEF SmallestSnapshot, Live
<1>3. CASE snapshots # {}
  <2>1. IsFiniteSet(snapshots) /\ snapshots \in SUBSET Int
    <3>1. IsFiniteSet(0 .. lastSequence) /\ snapshots \subseteq 0 .. lastSequence
      BY <1>1, FS_Interval
    <3>2. IsFiniteSet(snapshots)
      BY ONLY <3>1, FS_Subset
    <3> QED
      BY <1>1, <3>2
  <2>2. \E s \in snapshots : \A o \in snapshots : s =< o
    BY <1>3, <2>1, LeastInt
  <2>3. SmallestSnapshot \in snapshots /\ \A o \in snapshots : SmallestSnapshot =< o
    BY <1>3, <2>2 DEF SmallestSnapshot
  <2> QED
    BY <1>1, <2>3 DEF Live
<1> QED
  BY <1>2, <1>3

LEMMA StartCompactionReads ==
    ASSUME VInv, RInv, NEW l \in 0 .. NumLevels - 2, NEW f \in files[l], StartCompaction(l, f)
    PROVE  RInv'
<1> USE DEF VInv, RInv
<1> PICK inputs \in PickCompaction(l, f) :
      compaction' = [level |-> l, in0 |-> inputs[1], in1 |-> inputs[2],
                     higher |-> Higher(l), smallest |-> SmallestSnapshot]
  BY DEF StartCompaction
<1>1. UNCHANGED <<lastSequence, mem, files, snapshots, written, torn, held>>
  BY DEF StartCompaction
<1>2. /\ compaction'.level = l /\ compaction'.in0 = inputs[1]
      /\ compaction'.in1 = inputs[2] /\ compaction'.smallest = SmallestSnapshot
      /\ compaction'.higher = Higher(l)
  OBVIOUS
<1>3. /\ l \in Levels /\ l + 1 \in Levels
      /\ inputs[1] \subseteq files[l] /\ inputs[2] \subseteq files[l + 1]
  BY Chosen
<1>4. IsFiniteSet(written') /\ MemNewest' /\ FlushOrder' /\ Stacked' /\ Faithful' /\ Unheld'
  BY <1>1 DEF MemNewest, FlushOrder, Stacked, EntriesNeverHop, Faithful, Unheld, Present,
     InTables, Live
<1>5. CompactionKnows'
  <2>1. \A s \in Live' : compaction'.smallest =< s
    BY <1>1, <1>2, SmallestIsLeast DEF Live
  <2>2. \A g \in files[l + 1] \ inputs[2] : \A h \in inputs[1] : ~ Share(g, h)
    BY PickedClear
  <2>3. \A m \in l + 2 .. NumLevels - 1 : files[m] \ Higher(l) = {}
    BY DEF Higher
  <2>4. l = 0 => ~ LeavesOlder(0, inputs[1])
    BY PickedClear DEF LeavesOlder, Share
  <2>5. ASSUME ~ held, NEW g \in inputs[1] \cup inputs[2], NEW e \in g
        PROVE  e.seq =< SmallestSnapshot
    <3>1. e \in written
      BY <1>3, <2>5 DEF Stored, Files, File
    <3>2. SmallestSnapshot = lastSequence
      BY <2>5 DEF SmallestSnapshot, Unheld
    <3> QED
      BY <3>1, <3>2 DEF Numbered
  <2> PICK inputs1, inputs2 : inputs1 = inputs[1] /\ inputs2 = inputs[2]
    OBVIOUS
  <2>6. Inputs' = inputs[1] \cup inputs[2]
    BY <1>2 DEF Inputs
  <2>7. l = 0 => ~ LeavesOlder(0, compaction.in0)'
    BY <1>1, <1>2, <2>4 DEF LeavesOlder
  <2> QED
    BY <1>1, <1>2, <2>1, <2>2, <2>3, <2>5, <2>6, <2>7 DEF CompactionKnows
<1> QED
  BY <1>4, <1>5

\* A move or a compaction: the files in0 leave level l, and out, which has only
\* entries of theirs, takes the place of in1 in the next.
Moved(l, in0, in1, out) ==
    /\ l \in 0 .. NumLevels - 2
    /\ in0 \in SUBSET files[l] /\ in1 \in SUBSET files[l + 1]
    /\ \A g \in out : \A e \in g : \E h \in in0 \cup in1 : e \in h
    /\ UNCHANGED <<mem, written>>
    /\ files'[l] = files[l] \ in0
    /\ files'[l + 1] = (files[l + 1] \ in1) \cup out
    /\ \A m \in Levels \ {l, l + 1} : files'[m] = files[m]

\* It keeps the order of ages if it leaves nothing older above.
LEMMA MovedOrder ==
    ASSUME VInv, MemNewest, FlushOrder, NEW l, NEW in0, NEW in1, NEW out,
           Moved(l, in0, in1, out)
    PROVE  /\ MemNewest' /\ FlushOrder'
           /\ Present' \subseteq Present
           /\ EntriesNeverHop /\ ~ LeavesOlder(l, in0) => EntriesNeverHop'
<1> USE DEF VInv, Moved
<1>1. l \in Levels /\ l + 1 \in Levels /\ l + 1 # 0 /\ l # l + 1
  BY LevelsAssumption DEF Levels
<1>2. \A m \in Levels : \A f \in files'[m] : f \in files[m] \/ (m = l + 1 /\ f \in out)
  BY <1>1
<1>3. InTables' \subseteq InTables
  <2> SUFFICES ASSUME NEW e \in written, NEW m \in Levels, NEW f \in files'[m], e \in f
               PROVE  \E n \in Levels : \E h \in files[n] : e \in h
    BY DEF InTables
  <2>1. CASE f \in files[m]
    BY <2>1
  <2>2. CASE f \in out
    <3>1. PICK h \in in0 \cup in1 : e \in h
      BY <2>2
    <3>2. h \in files[l] \/ h \in files[l + 1]
      OBVIOUS
    <3> QED
      BY <1>1, <3>1, <3>2
  <2> QED
    BY <1>2, <2>1, <2>2
<1>4. MemNewest'
  BY <1>3 DEF MemNewest
<1>5. Present' \subseteq Present
  BY <1>3 DEF Present
<1>6. FlushOrder'
  <2>1. files'[0] \subseteq files[0]
    <3>1. 0 \in Levels /\ l + 1 # 0
      BY <1>1, LevelsAssumption DEF Levels
    <3> QED
      BY <1>1, <3>1
  <2> QED
    BY <2>1 DEF FlushOrder, Older
<1>7. ASSUME EntriesNeverHop, ~ LeavesOlder(l, in0)
      PROVE  EntriesNeverHop'
  <2> SUFFICES ASSUME NEW n \in Levels, NEW m \in n + 1 .. NumLevels - 1,
                      NEW f \in files'[n], NEW g \in files'[m],
                      NEW e \in f, NEW d \in g, e.key = d.key
               PROVE  e.seq > d.seq
    BY DEF EntriesNeverHop
  <2>1. m \in Levels /\ n \in Int /\ m \in Int /\ n < m
    BY LevelsAssumption DEF Levels
  <2>2. \A a \in Levels, b \in Levels : a < b => b \in a + 1 .. NumLevels - 1
    BY LevelsAssumption DEF Levels
  <2>3. ASSUME NEW a \in Levels, NEW b \in Levels, a < b, NEW p \in files[a], NEW q \in files[b],
               e \in p, d \in q
        PROVE  e.seq > d.seq
    <3>1. b \in a + 1 .. NumLevels - 1
      BY <2>2, <2>3
    <3> QED
      BY <1>7, <2>3, <3>1 DEF EntriesNeverHop
  <2>4. CASE f \in files[n] /\ g \in files[m]
    BY <2>1, <2>3, <2>4
  <2>5. CASE n = l + 1 /\ f \in out
    <3>1. PICK p \in in0 \cup in1 : e \in p
      BY <2>5
    <3>2. g \in files[m] /\ l < m /\ l + 1 < m
      BY <1>1, <2>1, <2>5
    <3> QED
      BY <1>1, <2>1, <2>3, <3>1, <3>2
  <2>6. CASE m = l + 1 /\ g \in out /\ f \in files[n]
    <3>1. PICK q \in in0 \cup in1 : d \in q
      BY <2>6
    <3>2. n = l \/ n < l
      BY <2>1, <2>6
    <3>3. CASE n < l
      <4>1. n < l + 1
        BY <2>1, <3>3
      <4> QED
        BY <1>1, <2>3, <2>6, <3>1, <3>3, <4>1
    <3>4. CASE n = l /\ q \in in1
      BY <1>1, <2>1, <2>3, <2>6, <3>1, <3>4
    <3>5. CASE n = l /\ q \in in0
      <4>1. f \in files[l] \ in0 /\ q \in files[l] /\ f # q
        BY <3>5, <1>1
      <4>2. e # d
        BY <1>1, <3>1, <4>1, OneFile
      <4>3. ~ (e.seq < d.seq)
        BY <1>7, <3>1, <3>5, <4>1 DEF LeavesOlder
      <4>4. e \in written /\ d \in written /\ e.seq \in Int /\ d.seq \in Int
        BY <1>1, <3>1, <4>1, WrittenType DEF Stored, Files, File
      <4>5. e.seq # d.seq
        BY <4>2, <4>4 DEF Numbered
      <4> QED
        BY <4>3, <4>4, <4>5
    <3> QED
      BY <3>1, <3>2, <3>3, <3>4, <3>5
  <2> QED
    BY <1>2, <2>1, <2>4, <2>5, <2>6
<1> QED
  BY <1>4, <1>5, <1>6, <1>7

LEMMA TrivialMoveReads ==
    ASSUME VInv, RInv, NEW l \in 0 .. NumLevels - 2, NEW f \in files[l], TrivialMove(l, f)
    PROVE  RInv'
<1> USE DEF VInv, RInv
<1> PICK inputs \in PickCompaction(l, f) :
      /\ IsTrivialMove(inputs)
      /\ files' = [files EXCEPT ![l] = @ \ inputs[1], ![l + 1] = @ \cup inputs[1]]
      /\ torn' = (torn \/ LeavesOlder(l, inputs[1]))
  BY DEF TrivialMove
<1> PICK in0 : in0 = inputs[1]
  OBVIOUS
<1>1. /\ compaction = Idle /\ compaction' = Idle
      /\ UNCHANGED <<lastSequence, mem, snapshots, written, held>>
  BY DEF TrivialMove
<1>2. /\ l \in Levels /\ l + 1 \in Levels /\ l + 1 # 0 /\ l # l + 1
      /\ in0 \in SUBSET files[l] /\ inputs[2] = {}
  <2>1. l \in Levels /\ l + 1 \in Levels /\ l + 1 # 0 /\ in0 \in SUBSET files[l]
    BY Chosen
  <2>2. l # l + 1
    BY LevelsAssumption
  <2> QED
    BY <2>1, <2>2 DEF IsTrivialMove
<1>3. /\ \A g \in files[l + 1] : \A h \in in0 : ~ Share(g, h)
      /\ l = 0 => \A g \in files[0] \ in0 : \A h \in in0 : ~ Share(g, h)
  BY <1>2, PickedClear
<1>4. Moved(l, in0, {}, in0)
  BY <1>1, <1>2 DEF TypeOK, Moved
<1>5. /\ MemNewest' /\ FlushOrder' /\ Present' \subseteq Present
      /\ EntriesNeverHop /\ ~ LeavesOlder(l, in0) => EntriesNeverHop'
  BY <1>4, MovedOrder
<1>6. Present' = Present
  <2> SUFFICES ASSUME NEW e \in written, NEW m \in Levels, NEW g \in files[m], e \in g
               PROVE  \E n \in Levels : \E h \in files'[n] : e \in h
    BY <1>1, <1>5 DEF Present, InTables
  <2>1. g \in files'[m] \/ (m = l /\ g \in files'[l + 1])
    BY <1>2, <1>4 DEF Moved
  <2> QED
    BY <1>2, <2>1
<1>7. Stacked'
  BY <1>5 DEF Stacked
<1>8. Faithful'
  BY <1>1, <1>6, FaithfulKept DEF Live
<1>9. Unheld'
  <2> SUFFICES ASSUME ~ held PROVE Unheld'
    BY <1>1 DEF Unheld
  <2>1. ~ LeavesOlder(l, in0)
    BY <1>2, <1>3 DEF Unheld, LeavesOlder, Share
  <2>2. ASSUME NEW m \in Levels \ {0}, NEW g \in files'[m], NEW h \in files'[m], g # h
        PROVE  ~ Share(g, h)
    <3>1. CASE g \in files[m] /\ h \in files[m]
      BY <3>1, <2>2 DEF Unheld
    <3>2. CASE m = l + 1 /\ g \in in0 /\ h \in in0
      <4>1. Cardinality(in0) = 1 /\ IsFiniteSet(in0)
        BY <1>2, SomeFiles DEF IsTrivialMove, Stored, Files
      <4>2. \E x : in0 = {x}
        BY <4>1, FS_Singleton
      <4> QED
        BY <2>2, <3>2, <4>2
    <3>3. CASE m = l + 1 /\ g \in files[m] /\ h \in in0
      BY <1>3, <3>3
    <3>4. CASE m = l + 1 /\ g \in in0 /\ h \in files[m]
      BY <1>3, <3>4 DEF Share
    <3> QED
      BY <1>2, <1>4, <3>1, <3>2, <3>3, <3>4 DEF Moved
  <2> QED
    BY <1>1, <2>1, <2>2 DEF Unheld
<1> QED
  BY <1>1, <1>5, <1>7, <1>8, <1>9 DEF CompactionKnows

\* The output files hold all that is kept.
LEMMA OutputsHold ==
    ASSUME Numbered, NEW keep, keep \subseteq written, IsFiniteSet(keep),
           NEW out \in Outputs(keep), NEW e \in keep
    PROVE  \E f \in out : e \in f
<1> PICK cuts \in SUBSET keep :
      /\ keep # {} => Largest(keep) \in cuts
      /\ out = {{x \in keep : /\ ~ Before(c, x)
                              /\ \A d \in cuts : Before(d, c) => Before(d, x)} : c \in cuts}
  BY DEF Outputs
<1> DEFINE after == {c \in cuts : ~ Before(c, e)}
           R == {p \in written \X written : Before(p[1], p[2])}
<1>1. after \subseteq cuts /\ after \subseteq written /\ IsFiniteSet(after) /\ after # {}
  <2>1. File(keep)
    BY DEF File
  <2>2. Largest(keep) \in cuts /\ (e = Largest(keep) \/ Before(e, Largest(keep)))
    BY <2>1, Ends
  <2>3. Largest(keep) \in after
    BY <2>2, Order
  <2>4. after \subseteq keep
    OBVIOUS
  <2> QED
    BY <2>3, <2>4, FS_Subset
<1>2. \A x, y \in written : <<x, y>> \in R <=> Before(x, y)
  OBVIOUS
<1> HIDE DEF R
<1>3. PICK c \in after : \A x \in after : <<x, c>> \notin R
  <2> HIDE DEF after
  <2>1. \A x \in after : <<x, x>> \notin R
    BY <1>1, <1>2, Order
  <2>2. \A x, y, z \in after : <<x, y>> \in R /\ <<y, z>> \in R => <<x, z>> \in R
    BY <1>1, <1>2, Order
  <2> QED
    BY <1>1, <2>1, <2>2, Minimal
<1>4. \A d \in cuts : Before(d, c) => Before(d, e)
  BY <1>1, <1>2, <1>3
<1>5. ~ Before(c, e)
  BY <1>3
<1>6. /\ c \in cuts
      /\ e \in {x \in keep : /\ ~ Before(c, x)
                            /\ \A d \in cuts : Before(d, c) => Before(d, x)}
  BY <1>1, <1>3, <1>4, <1>5
<1> QED
  BY <1>6

\* What a deletion deleted is nowhere else when the compaction drops it: not in
\* the files that stay in the two levels, and nothing of the key is further down.
LEMMA DroppedDeletion ==
    ASSUME VInv, MemNewest, FlushOrder, EntriesNeverHop, CompactionKnows, compaction # Idle,
           ~ LeavesOlder(compaction.level, compaction.in0),
           ~ LeavesOlder(compaction.level + 1, compaction.in1),
           NEW p \in Inputs, NEW e \in p, IsBaseLevelForKey(e.key),
           NEW o \in Present, o.key = e.key, o.seq =< e.seq
    PROVE  \E q \in Inputs : o \in q
<1> USE DEF VInv
<1> PICK l : l = compaction.level
  OBVIOUS
<1> PICK in0, in1 : in0 = compaction.in0 /\ in1 = compaction.in1
  OBVIOUS
<1>1. /\ l \in 0 .. NumLevels - 2 /\ l \in Levels /\ l + 1 \in Levels /\ l + 1 # 0 /\ l < l + 1
      /\ in0 \subseteq files[l] /\ in1 \subseteq files[l + 1]
  BY LevelsAssumption DEF TypeOK, Levels
<1>2. p \in in0 \/ p \in in1
  BY DEF Inputs
<1>3. e \in InTables /\ e \in written /\ e.seq \in Int /\ e.key \in Int
  <2>1. e \in InTables
    BY <1>1, <1>2, PresentIs
  <2> QED
    BY <2>1, WrittenType DEF InTables
<1>4. o \in written /\ o.seq \in Int
  BY WrittenType DEF Present
<1>5. CASE o \in mem
  <2>1. e.seq < o.seq
    BY <1>3, <1>5 DEF MemNewest
  <2> QED
    BY <1>3, <1>4, <2>1
<1>6. ASSUME NEW m \in Levels, NEW f \in files[m], o \in f, f \notin Inputs
      PROVE  FALSE
  <2>1. \A a \in Levels, b \in Levels : a < b => b \in a + 1 .. NumLevels - 1
    BY LevelsAssumption DEF Levels
  <2>2. ASSUME NEW b \in Levels, m < b, p \in files[b] PROVE FALSE
    <3>1. b \in m + 1 .. NumLevels - 1
      BY <2>1, <2>2
    <3>2. o.seq > e.seq
      BY <1>6, <2>2, <3>1 DEF EntriesNeverHop
    <3> QED
      BY <1>3, <1>4, <3>2
  <2>3. m \in Int /\ l \in Int /\ (m < l \/ m = l \/ m = l + 1 \/ m \in l + 2 .. NumLevels - 1)
    BY <1>1, LevelsAssumption DEF Levels
  <2>4. CASE m < l
    <3>1. m < l + 1
      BY <2>3, <2>4
    <3> QED
      BY <1>1, <1>2, <2>2, <2>4, <3>1
  <2>5. CASE m \in l + 2 .. NumLevels - 1
    <3>1. CASE f \in compaction.higher
      <4>1. File(f)
        BY <1>6 DEF Stored, Files
      <4>2. Overlaps(f, [lo |-> e.key, hi |-> e.key])
        BY <1>6, <4>1, EndKeys DEF Overlaps
      <4> QED
        BY <3>1, <4>2 DEF IsBaseLevelForKey
    <3>2. CASE f \notin compaction.higher
      <4>1. ~ Share(f, p)
        BY <2>5, <3>2, <1>6 DEF CompactionKnows
      <4> QED
        BY <1>6, <4>1 DEF Share
    <3> QED
      BY <3>1, <3>2
  <2>6. CASE m = l
    <3>1. CASE p \in in1
      BY <1>1, <2>2, <2>6, <3>1
    <3>2. CASE p \in in0
      <4>1. f \in files[l] \ in0 /\ p \in files[l] /\ f # p
        BY <1>1, <1>6, <2>6, <3>2 DEF Inputs
      <4>2. o # e
        BY <1>1, <1>6, <4>1, OneFile
      <4>3. ~ (o.seq < e.seq)
        BY <1>6, <3>2, <4>1 DEF LeavesOlder
      <4> QED
        BY <1>3, <1>4, <4>2, <4>3 DEF Numbered
    <3> QED
      BY <1>2, <3>1, <3>2
  <2>7. CASE m = l + 1
    <3>1. CASE p \in in0
      <4>1. f \in files[l + 1] \ in1
        BY <1>6, <2>7 DEF Inputs
      <4>2. ~ Share(f, p)
        BY <3>1, <4>1 DEF CompactionKnows
      <4> QED
        BY <1>6, <4>2 DEF Share
    <3>2. CASE p \in in1
      <4>1. f \in files[l + 1] \ in1 /\ p \in files[l + 1] /\ f # p
        BY <1>1, <1>6, <2>7, <3>2 DEF Inputs
      <4>2. o # e
        BY <1>1, <1>6, <4>1, OneFile
      <4>3. ~ (o.seq < e.seq)
        BY <1>6, <3>2, <4>1 DEF LeavesOlder
      <4> QED
        BY <1>3, <1>4, <4>2, <4>3 DEF Numbered
    <3> QED
      BY <1>2, <3>1, <3>2
  <2> QED
    BY <2>3, <2>4, <2>5, <2>6, <2>7
<1> QED
  BY <1>5, <1>6 DEF Present, InTables

LEMMA FinishCompactionReads ==
    ASSUME VInv, RInv, FinishCompaction
    PROVE  RInv'
<1> USE DEF VInv, RInv
<1> PICK l : l = compaction.level
  OBVIOUS
<1> PICK in0, in1 : in0 = compaction.in0 /\ in1 = compaction.in1
  OBVIOUS
<1> PICK input : input = UNION Inputs
  OBVIOUS
<1> PICK keep : keep = {e \in input : ~ Drop(e, input)}
  OBVIOUS
<1>1. /\ compaction # Idle /\ compaction' = Idle
      /\ UNCHANGED <<lastSequence, mem, snapshots, written, held>>
      /\ torn' = (torn \/ LeavesOlder(l, in0) \/ LeavesOlder(l + 1, in1))
  BY DEF FinishCompaction
<1>2. PICK out \in Outputs(keep) :
        files' = [files EXCEPT ![l] = @ \ in0, ![l + 1] = (@ \ in1) \cup out]
  BY DEF FinishCompaction, Inputs
<1>3. /\ l \in 0 .. NumLevels - 2 /\ l \in Levels /\ l + 1 \in Levels
      /\ l + 1 # 0 /\ l # l + 1
      /\ in0 \in SUBSET files[l] /\ in1 \in SUBSET files[l + 1]
  BY <1>1, LevelsAssumption DEF TypeOK, Levels
<1>4. Files(Inputs) /\ IsFiniteSet(input) /\ input \subseteq written
  <2>1. Files(in0) /\ Files(in1)
    BY <1>3, SomeFiles DEF Stored
  <2>2. Files(Inputs)
    BY <2>1, FS_Union DEF Files, Inputs
  <2>3. IsFiniteSet(input)
    BY <2>2, FS_UNION DEF Files, File
  <2> QED
    BY <2>2, <2>3 DEF Files, File
<1>5. keep \subseteq input /\ keep \subseteq written /\ IsFiniteSet(keep)
  <2>1. keep \subseteq input
    OBVIOUS
  <2> QED
    BY ONLY <2>1, <1>4, FS_Subset
<1>6. /\ Files(out) /\ Disjoint(out)
      /\ \A g \in out : g \subseteq keep
      /\ \A e \in keep : \E g \in out : e \in g
  <2>1. Files(out) /\ Disjoint(out) /\ \A g \in out : g \subseteq keep
    BY <1>5, OutputsFit
  <2>2. \A e \in keep : \E g \in out : e \in g
    <3> HIDE DEF VInv, RInv
    <3>1. Numbered
      BY DEF VInv
    <3> SUFFICES ASSUME NEW e \in keep PROVE \E g \in out : e \in g
      OBVIOUS
    <3> QED
      BY ONLY <1>5, <3>1, out \in Outputs(keep), e \in keep, OutputsHold
  <2> QED
    BY <2>1, <2>2
<1>7. Moved(l, in0, in1, out)
  <2>1. \A g \in out : \A e \in g : \E h \in in0 \cup in1 : e \in h
    BY <1>5, <1>6 DEF Inputs
  <2> QED
    BY <1>1, <1>2, <1>3, <2>1 DEF TypeOK, Moved
<1>8. /\ MemNewest' /\ FlushOrder' /\ Present' \subseteq Present
      /\ EntriesNeverHop /\ ~ LeavesOlder(l, in0) => EntriesNeverHop'
  BY <1>7, MovedOrder
<1>9. Stacked'
  BY <1>1, <1>8 DEF Stacked
<1>10. ASSUME NEW e \in input PROVE e.seq \in Int /\ e.key \in Int /\ e \in written
  BY <1>4, WrittenType
<1>11. ASSUME NEW e \in Present, e \notin Present'
       PROVE  e \in input /\ Drop(e, input)
  <2>1. e \in written /\ e \notin mem /\ e \notin InTables'
    BY <1>1, <1>11 DEF Present
  <2>2. PICK m \in Levels : \E g \in files[m] : e \in g
    BY <1>11, <2>1 DEF Present, InTables
  <2>3. PICK g \in files[m] : e \in g
    BY <2>2
  <2>4. g \notin files'[m]
    BY <1>1, <2>1, <2>3 DEF InTables
  <2>5. g \in Inputs
    BY <1>7, <2>3, <2>4 DEF Moved, Inputs
  <2>6. e \in input
    BY <2>3, <2>5
  <2>7. e \notin keep
    <3> SUFFICES ASSUME e \in keep PROVE FALSE
      OBVIOUS
    <3>1. PICK h \in out : e \in h
      BY <1>6
    <3>2. h \in files'[l + 1]
      BY <1>7 DEF Moved
    <3> QED
      BY <1>1, <1>3, <2>1, <3>1, <3>2 DEF InTables
  <2> QED
    BY <2>6, <2>7
<1>12. Faithful'
  <2> SUFFICES ASSUME ~ torn', NEW k \in UserKeys, NEW s \in Live,
                      Visible(written, k, s) # {},
                      NEW e, e = FirstVisible(written, k, s)
               PROVE  e \in Present' \/ (e.type = "deletion" /\ Visible(Present', k, s) = {})
    BY <1>1 DEF Faithful, Visible, FirstVisible, Live
  <2>1. ~ torn /\ ~ LeavesOlder(l, in0) /\ ~ LeavesOlder(l + 1, in1)
    BY <1>1
  <2>2. /\ e \in written /\ e.key = k /\ e.seq =< s /\ e.seq \in Int
        /\ \A o \in Visible(written, k, s) : o.seq =< e.seq
    <3>1. /\ e \in Visible(written, k, s)
          /\ \A o \in Visible(written, k, s) : o.seq =< e.seq
      BY FirstIs
    <3> QED
      BY <3>1, WrittenType DEF Visible
  <2>3. s \in Int /\ compaction.smallest =< s /\ compaction.smallest \in Int
    <3>1. lastSequence \in Int /\ \A x \in snapshots : x \in 0 .. lastSequence
      BY SeqAssumption DEF TypeOK
    <3>2. compaction.smallest \in 0 .. lastSequence
      BY <1>1 DEF TypeOK
    <3> QED
      BY <1>1, <3>1, <3>2 DEF CompactionKnows, Live
  <2>4. CASE e \notin Present
    <3>1. e.type = "deletion" /\ Visible(Present, k, s) = {}
      BY <2>1, <2>4 DEF Faithful
    <3> QED
      BY <1>8, <3>1 DEF Visible
  <2>5. CASE e \in Present /\ e \notin Present'
    <3>1. e \in input /\ Drop(e, input)
      BY <1>11, <2>5
    <3>2. ASSUME NEW o \in input, o.key = e.key, o.seq > e.seq, o.seq =< compaction.smallest
          PROVE  FALSE
      <4>1. o.seq \in Int /\ o \in written
        BY <1>10
      <4>2. o.seq =< s
        BY <2>3, <3>2, <4>1
      <4>3. o \in Visible(written, k, s)
        BY <2>2, <3>2, <4>1, <4>2 DEF Visible
      <4> QED
        BY <2>2, <3>2, <4>1, <4>3
    <3>3. /\ e.type = "deletion" /\ e.seq =< compaction.smallest
          /\ IsBaseLevelForKey(e.key)
      BY <3>1, <3>2 DEF Drop
    <3>4. ASSUME NEW o \in Visible(Present', k, s) PROVE FALSE
      <4>1. o \in Present' /\ o \in Present /\ o \in written /\ o.key = e.key /\ o.seq =< e.seq
        BY <1>1, <1>8, <2>2 DEF Visible, Present
      <4>2. o # e /\ o.seq \in Int
        BY <2>5, <4>1, WrittenType
      <4>3. o.seq < e.seq
        BY <2>2, <4>1, <4>2 DEF Numbered
      <4>4. PICK p \in Inputs : e \in p
        BY <3>1
      <4>5. PICK q \in Inputs : o \in q
        BY <1>1, <2>1, <3>3, <4>1, <4>4, DroppedDeletion DEF Stacked
      <4>6. Drop(o, input)
        <5>1. e.seq \in {x.seq : x \in {x \in input : x.key = o.key /\ x.seq > o.seq}}
          BY <2>2, <3>1, <4>1, <4>2, <4>3
        <5> QED
          BY <3>3, <5>1 DEF Drop
      <4>7. o \notin mem
        <5>1. o \in InTables
          BY <1>3, <4>5, PresentIs DEF Inputs
        <5> QED
          BY <4>2, <5>1 DEF MemNewest
      <4>8. PICK m \in Levels : \E g \in files'[m] : o \in g
        BY <1>1, <4>1, <4>7 DEF Present, InTables
      <4>9. PICK g \in files'[m] : o \in g
        BY <4>8
      <4>10. g \notin out
        BY <1>6, <4>6, <4>9
      <4>11. g \in files[m] /\ g \notin Inputs
        <5>1. g \in files[m] /\ (m = l => g \notin in0) /\ (m = l + 1 => g \notin in1)
          BY <1>3, <1>7, <4>9, <4>10 DEF Moved
        <5>2. ASSUME g \in Inputs PROVE FALSE
          <6>1. PICK n \in {l, l + 1} : g \in files[n] /\ n \in Levels /\ m # n
            BY <1>3, <5>1, <5>2 DEF Inputs
          <6>2. ASSUME NEW a \in Levels, NEW b \in Levels, a < b,
                       g \in files[a], g \in files[b]
                PROVE  FALSE
            <7>1. b \in a + 1 .. NumLevels - 1
              BY <6>2, LevelsAssumption DEF Levels
            <7>2. o.seq > o.seq
              BY <2>1, <4>9, <6>2, <7>1 DEF Stacked, EntriesNeverHop
            <7> QED
              BY <4>2, <7>2
          <6>3. m < n \/ n < m
            BY <6>1, LevelsAssumption DEF Levels
          <6> QED
            BY <5>1, <6>1, <6>2, <6>3
        <5> QED
          BY <5>1, <5>2
      <4>12. q \in files[l] \/ q \in files[l + 1]
        BY <1>3 DEF Inputs
      <4>13. PICK n \in {l, l + 1} : q \in files[n] /\ n \in Levels
        BY <1>3, <4>12
      <4>14. CASE n = m
        <5>1. g # q
          BY <4>11
        <5> QED
          BY <4>5, <4>9, <4>11, <4>13, <4>14, <5>1, OneFile
      <4>15. ASSUME NEW a \in Levels, NEW b \in Levels, a < b,
                    NEW x \in files[a], NEW y \in files[b], o \in x, o \in y
             PROVE  FALSE
        <5>1. b \in a + 1 .. NumLevels - 1
          BY <4>15, LevelsAssumption DEF Levels
        <5>2. o.seq > o.seq
          BY <2>1, <4>15, <5>1 DEF Stacked, EntriesNeverHop
        <5> QED
          BY <4>2, <5>2
      <4>16. n = m \/ n < m \/ m < n
        BY <4>13, LevelsAssumption DEF Levels
      <4> QED
        BY <4>5, <4>9, <4>11, <4>13, <4>14, <4>15, <4>16
    <3> QED
      BY <3>3, <3>4
  <2> QED
    BY <2>4, <2>5
<1>13. Unheld'
  <2> SUFFICES ASSUME ~ held PROVE Unheld'
    BY <1>1 DEF Unheld
  <2>1. ~ LeavesOlder(l, in0) /\ ~ LeavesOlder(l + 1, in1)
    <3>1. ASSUME NEW m \in Levels \ {0}, NEW gs \in SUBSET files[m] PROVE ~ LeavesOlder(m, gs)
      BY <3>1 DEF Unheld, LeavesOlder, Share
    <3>2. l = 0 => ~ LeavesOlder(l, in0)
      BY <1>1 DEF CompactionKnows
    <3> QED
      BY <1>3, <3>1, <3>2
  <2>2. \A e, d \in keep : e.key = d.key => e = d
    <3>1. \A e \in input : e.seq =< compaction.smallest
      BY <1>1 DEF CompactionKnows
    <3>2. ASSUME NEW e \in keep, NEW d \in keep, e.key = d.key, e.seq < d.seq PROVE FALSE
      <4>1. d.seq \in {x.seq : x \in {x \in input : x.key = e.key /\ x.seq > e.seq}}
        BY <1>5, <1>10, <3>2
      <4>2. Drop(e, input)
        BY <1>5, <3>1, <4>1 DEF Drop
      <4> QED
        BY <4>2
    <3> SUFFICES ASSUME NEW e \in keep, NEW d \in keep, e.key = d.key PROVE e = d
      OBVIOUS
    <3>3. ~ (e.seq < d.seq) /\ ~ (d.seq < e.seq) /\ e.seq \in Int /\ d.seq \in Int
      BY <1>5, <1>10, <3>2
    <3>4. e.seq = d.seq
      BY <3>3
    <3>5. e \in written /\ d \in written
      BY <1>5
    <3> QED
      BY <3>4, <3>5 DEF Numbered
  <2>3. ASSUME NEW g \in out, NEW h \in files[l + 1] \ in1 PROVE ~ Share(g, h) /\ ~ Share(h, g)
    <3> SUFFICES ASSUME NEW e \in g, NEW d \in h, e.key = d.key PROVE FALSE
      BY DEF Share
    <3>1. PICK p \in Inputs : e \in p
      BY <1>5, <1>6
    <3>2. CASE p \in in0
      BY <1>1, <3>1, <3>2 DEF CompactionKnows, Share
    <3>3. CASE p \in in1
      BY <1>3, <3>1, <3>3 DEF Unheld, Share
    <3> QED
      BY <3>1, <3>2, <3>3 DEF Inputs
  <2>4. ASSUME NEW g \in out, NEW h \in out, g # h PROVE ~ Share(g, h)
    <3> SUFFICES ASSUME NEW e \in g, NEW d \in h, e.key = d.key PROVE FALSE
      BY DEF Share
    <3>1. e = d /\ e \in written
      BY <1>5, <1>6, <2>2
    <3>2. Before(e, d) \/ Before(d, e)
      BY <1>6, <2>4 DEF Disjoint, Ahead
    <3> QED
      BY <3>1, <3>2, Order
  <2>5. ASSUME NEW m \in Levels \ {0}, NEW g \in files'[m], NEW h \in files'[m], g # h
        PROVE  ~ Share(g, h)
    <3>1. CASE g \in files[m] /\ h \in files[m]
      BY <2>5, <3>1 DEF Unheld
    <3>2. m = l + 1 => (g \in out \/ g \in files[m] \ in1) /\ (h \in out \/ h \in files[m] \ in1)
      BY <1>7 DEF Moved
    <3>3. m # l + 1 => g \in files[m] /\ h \in files[m]
      BY <1>7 DEF Moved
    <3> QED
      BY <2>3, <2>4, <2>5, <3>1, <3>2, <3>3
  <2> QED
    BY <1>1, <2>1, <2>5 DEF Unheld
<1> QED
  BY <1>1, <1>8, <1>9, <1>12, <1>13 DEF CompactionKnows

LEMMA RNext == VInv /\ RInv /\ [Next]_vars => RInv'
<1> SUFFICES ASSUME VInv, RInv, [Next]_vars PROVE RInv'
  OBVIOUS
<1>1. CASE \E k \in UserKeys, type \in Types : Write(k, type)
  BY <1>1, WriteReads
<1>2. CASE GetSnapshot \/ \E s \in snapshots : ReleaseSnapshot(s)
  BY <1>2, SnapshotReads
<1>3. CASE \E last \in 1 .. lastSequence : CompactMemTable(last)
  BY <1>3, CompactMemTableReads
<1>4. CASE \E l \in 0 .. NumLevels - 2 : \E f \in files[l] :
              TrivialMove(l, f) \/ StartCompaction(l, f)
  BY <1>4, TrivialMoveReads, StartCompactionReads
<1>5. CASE FinishCompaction
  BY <1>5, FinishCompactionReads
<1>6. CASE UNCHANGED vars
  <2>1. UNCHANGED <<lastSequence, mem, files, snapshots, compaction, written, torn, held>>
    BY <1>6 DEF vars
  <2>2. IsFiniteSet(written') /\ MemNewest' /\ FlushOrder' /\ Stacked' /\ Unheld'
    BY <2>1 DEF RInv, MemNewest, InTables, FlushOrder, Stacked, EntriesNeverHop, Unheld
  <2>3. CompactionKnows'
    BY <2>1 DEF RInv, CompactionKnows, LeavesOlder, Inputs, Live
  <2>4. Faithful'
    <3>1. Live' = Live /\ Present' = Present
      BY <2>1 DEF Live, Present, InTables
    <3> QED
      BY <2>1, <3>1, FaithfulKept DEF RInv
  <2> QED
    BY <2>2, <2>3, <2>4 DEF RInv
<1> QED
  BY <1>1, <1>2, <1>3, <1>4, <1>5, <1>6 DEF Next

LEMMA RInvariance == Spec => [](VInv /\ RInv)
<1>1. Init => VInv /\ RInv
  BY VInit, RInit
<1>2. VInv /\ RInv /\ [Next]_vars => VInv' /\ RInv'
  BY VNext, RNext
<1> QED
  BY <1>1, <1>2, PTL DEF Spec

-----------------------------------------------------------------------------
\* "Entries never hop across levels" (version_set.cc:346-348) holds as long as no
\* compaction has separated two entries of a key: then, and with it the claim that
\* deeper levels are irrelevant once a level has the key.
THEOREM NoHopUntorn == Spec => [](~ torn => EntriesNeverHop)
<1>1. VInv /\ RInv => (~ torn => EntriesNeverHop)
  BY DEF RInv, Stacked
<1> QED
  BY <1>1, RInvariance, PTL

\* Get at the last number or at a snapshot (db_impl.cc, version_set.cc:332-409)
\* answers with the newest entry written up to there, and nothing for a deleted
\* key, wherever flushes, moves and compactions have put the entries or dropped
\* them, as long as no compaction has separated two entries of a key.
THEOREM ReadsStayCurrent == Spec => []ReadsAreCurrent
<1>1. VInv /\ RInv => ReadsAreCurrent
  BY ReadsFollow
<1> QED
  BY <1>1, RInvariance, PTL

\* And without a snapshot no compaction ever does: then it keeps one entry of a
\* key (the Drop loop of DoCompactionWork, db_impl.cc:936-969), a key is in one
\* file of a level, and in level 0 all files with one key go down together.
THEOREM NoTearUnheld == Spec => []TearNeedsSnapshot
<1>1. VInv /\ RInv => TearNeedsSnapshot
  BY TearFollows
<1> QED
  BY <1>1, RInvariance, PTL
=============================================================================
