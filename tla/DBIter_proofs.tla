---------------------------- MODULE DBIter_proofs ----------------------------
(***************************************************************************)
(* For any number of keys, writes, files and levels, any sizes of blocks   *)
(* and files and any placement of the entries: an iterator over the        *)
(* database shows what its snapshot says, in both directions.              *)
(*                                                                         *)
(* From the bottom up.  A block, a table and a level that are in order are *)
(* walked in order, and the two searches in them find the first entry that *)
(* is not before a key (BlockSeekIs, TableSeekIs, LevelSeekIs);            *)
(* TableBuilder lays entries out in that way (LaidDown); so each child     *)
(* goes where the memtable or its files say (SeekIs, NextIs, PrevIs).  The *)
(* merging iterator is on the next entry of all children in its direction  *)
(* and leaves none behind that the snapshot sees (Merged).  Each loop of   *)
(* DBIter still has its goal before it (Loop).                             *)
(***************************************************************************)
EXTENDS DBIter, FiniteSetTheorems, SequenceTheorems, TLAPS

\* A strict order on a finite set has a minimal element: one with the fewest
\* below it.
LEMMA Minimal ==
    ASSUME NEW S, IsFiniteSet(S), S # {}, NEW R,
           \A x \in S : <<x, x>> \notin R,
           \A x, y, z \in S : <<x, y>> \in R /\ <<y, z>> \in R => <<x, z>> \in R
    PROVE  \E m \in S : \A x \in S : <<x, m>> \notin R
<1> DEFINE Below(y) == {x \in S : <<x, y>> \in R}
           T == {Below(y) : y \in S}
<1>1. T \subseteq FiniteSubsetsOf(S) /\ T # {}
  <2>1. \A y \in S : Below(y) \in SUBSET S /\ IsFiniteSet(Below(y))
    BY FS_Subset
  <2>2. \A y \in S : Below(y) \in FiniteSubsetsOf(S)
    BY <2>1 DEF FiniteSubsetsOf
  <2> HIDE DEF Below
  <2> QED
    BY <2>2
<1>2. PICK t \in T : \A u \in T : <<u, t>> \notin StrictSubsetOrdering(S)
  <2> HIDE DEF T
  <2> QED
    BY <1>1, FS_StrictSubsetOrderingWellFounded, WFMin
<1>3. PICK m \in S : t = Below(m)
  OBVIOUS
<1>4. ASSUME NEW x \in S, <<x, m>> \in R PROVE FALSE
  <2>1. Below(x) \subseteq Below(m)
    BY <1>4
  <2>2. x \in Below(m) /\ x \notin Below(x)
    BY <1>4
  <2>3. Below(x) \in T /\ Below(x) \in SUBSET S /\ Below(m) \in SUBSET S
    OBVIOUS
  <2>4. <<Below(x), Below(m)>> \in StrictSubsetOrdering(S)
    BY <2>1, <2>2, <2>3 DEF StrictSubsetOrdering
  <2> QED
    BY <1>2, <1>3, <2>3, <2>4
<1> QED
  BY <1>4

LEMMA LeastInt ==
    ASSUME NEW S \in SUBSET Int, IsFiniteSet(S), S # {}
    PROVE  \E m \in S : \A x \in S : m =< x
<1> DEFINE R == {p \in Int \X Int : p[1] < p[2]}
<1>1. \A x, y \in Int : (<<x, y>> \in R <=> x < y) /\ (~(x < y) => y =< x)
  OBVIOUS
<1> HIDE DEF R
<1>2. \E m \in S : \A x \in S : <<x, m>> \notin R
  <2>1. \A x \in S : <<x, x>> \notin R
    BY <1>1
  <2>2. \A x, y, z \in S : <<x, y>> \in R /\ <<y, z>> \in R => <<x, z>> \in R
    BY <1>1
  <2> QED
    BY <2>1, <2>2, Minimal
<1>3. PICK m \in S : \A x \in S : <<x, m>> \notin R
  BY <1>2
<1> QED
  BY <1>1, <1>3

LEMMA GreatestInt ==
    ASSUME NEW S \in SUBSET Int, IsFiniteSet(S), S # {}
    PROVE  \E m \in S : \A x \in S : x =< m
<1> DEFINE R == {p \in Int \X Int : p[2] < p[1]}
<1>1. \A x, y \in Int : (<<x, y>> \in R <=> y < x) /\ (~(y < x) => x =< y)
  OBVIOUS
<1> HIDE DEF R
<1>2. \E m \in S : \A x \in S : <<x, m>> \notin R
  <2>1. \A x \in S : <<x, x>> \notin R
    BY <1>1
  <2>2. \A x, y, z \in S : <<x, y>> \in R /\ <<y, z>> \in R => <<x, z>> \in R
    BY <1>1
  <2> QED
    BY <2>1, <2>2, Minimal
<1>3. PICK m \in S : \A x \in S : <<x, m>> \notin R
  BY <1>2
<1> QED
  BY <1>1, <1>3

\* Sequence numbers tell entries apart.
Numbered(S) == S \subseteq Entries /\ \A a, b \in S : a.seq = b.seq => a = b

\* The entries that show their keys to somebody who sees V: the newest, if values.
Live(V) == {e \in V : e.type = "value" /\ \A o \in V : o.key = e.key => o.seq =< e.seq}

Keys(T) == {t.key : t \in T}

-----------------------------------------------------------------------------
(* The order of entries.                                                      *)

LEMMA EntryFields ==
    ASSUME NEW e \in Entries
    PROVE  e.key \in UserKeys /\ e.key \in Int /\ e.key # NoKey
           /\ e.seq \in Int /\ 1 =< e.seq /\ e.seq =< MaxSeq /\ e.type \in Types
<1>1. e.key \in UserKeys /\ e.seq \in 1 .. MaxSeq /\ e.type \in Types
  BY DEF Entries
<1>2. e.key \in Int /\ e.key # NoKey
  BY <1>1, KeysAssumption, NoKeyAssumption
<1> QED
  BY <1>1, <1>2, SeqAssumption

LEMMA BeforeOrder ==
    ASSUME NEW a, NEW b, NEW c, a.key \in Int, b.key \in Int, c.key \in Int,
           a.seq \in Int, b.seq \in Int, c.seq \in Int
    PROVE  /\ ~ Before(a, a)
           /\ ~ (Before(a, b) /\ Before(b, a))
           /\ Before(a, b) /\ Before(b, c) => Before(a, c)
           /\ ~ Before(a, b) /\ ~ Before(b, c) => ~ Before(a, c)
           /\ Before(a, b) /\ ~ Before(c, b) => Before(a, c)
           /\ ~ Before(b, a) /\ Before(b, c) => Before(a, c)
           /\ ~ Before(a, b) /\ ~ Before(b, a) => a.key = b.key /\ a.seq = b.seq
           /\ Before(a, b) => a.key =< b.key
           /\ ~ Before(a, b) => b.key =< a.key
BY DEF Before

LEMMA NumberedOrder ==
    ASSUME NEW S, Numbered(S), NEW a \in S, NEW b \in S
    PROVE  a = b \/ Before(a, b) \/ Before(b, a)
BY EntryFields DEF Numbered, Before

LEMMA NumberedFinite ==
    ASSUME NEW S, Numbered(S)
    PROVE  IsFiniteSet(S)
<1> DEFINE f == [e \in S |-> e.seq]
<1>1. f \in Injection(S, 1 .. MaxSeq)
  BY EntryFields DEF Numbered, Injection, IsInjective
<1>2. IsFiniteSet(1 .. MaxSeq)
  BY SeqAssumption, FS_Interval
<1> QED
  BY <1>1, <1>2, FS_Injection

\* The first and the last of a set of entries.
LEMMA FirstExists ==
    ASSUME NEW S, Numbered(S), S # {}
    PROVE  \E e \in S : \A o \in S \ {e} : Before(e, o)
<1> DEFINE R == {p \in S \X S : Before(p[1], p[2])}
<1>1. \A x, y \in S : <<x, y>> \in R <=> Before(x, y)
  OBVIOUS
<1> HIDE DEF R
<1>2. PICK m \in S : \A x \in S : <<x, m>> \notin R
  <2>1. \A x \in S : x.key \in Int /\ x.seq \in Int
    BY EntryFields DEF Numbered
  <2>2. \A x \in S : <<x, x>> \notin R
    BY <1>1, <2>1, BeforeOrder
  <2>3. \A x, y, z \in S : <<x, y>> \in R /\ <<y, z>> \in R => <<x, z>> \in R
    BY <1>1, <2>1, BeforeOrder
  <2> QED
    BY <2>2, <2>3, NumberedFinite, Minimal
<1> QED
  BY <1>1, <1>2, NumberedOrder

LEMMA LastExists ==
    ASSUME NEW S, Numbered(S), S # {}
    PROVE  \E e \in S : \A o \in S \ {e} : Before(o, e)
<1> DEFINE R == {p \in S \X S : Before(p[2], p[1])}
<1>1. \A x, y \in S : <<x, y>> \in R <=> Before(y, x)
  OBVIOUS
<1> HIDE DEF R
<1>2. PICK m \in S : \A x \in S : <<x, m>> \notin R
  <2>1. \A x \in S : x.key \in Int /\ x.seq \in Int
    BY EntryFields DEF Numbered
  <2>2. \A x \in S : <<x, x>> \notin R
    BY <1>1, <2>1, BeforeOrder
  <2>3. \A x, y, z \in S : <<x, y>> \in R /\ <<y, z>> \in R => <<x, z>> \in R
    BY <1>1, <2>1, BeforeOrder
  <2> QED
    BY <2>2, <2>3, NumberedFinite, Minimal
<1> QED
  BY <1>1, <1>2, NumberedOrder

LEMMA FirstIs ==
    ASSUME NEW S, Numbered(S), S # {}
    PROVE  First(S) \in S /\ \A o \in S : ~ Before(o, First(S))
<1>1. First(S) \in S /\ \A o \in S \ {First(S)} : Before(First(S), o)
  BY FirstExists DEF First
<1>2. \A x \in S : x.key \in Int /\ x.seq \in Int
  BY EntryFields DEF Numbered
<1> QED
  BY <1>1, <1>2, BeforeOrder

LEMMA LastIs ==
    ASSUME NEW S, Numbered(S), S # {}
    PROVE  Last(S) \in S /\ \A o \in S : ~ Before(Last(S), o)
<1>1. Last(S) \in S /\ \A o \in S \ {Last(S)} : Before(o, Last(S))
  BY LastExists DEF Last
<1>2. \A x \in S : x.key \in Int /\ x.seq \in Int
  BY EntryFields DEF Numbered
<1> QED
  BY <1>1, <1>2, BeforeOrder

-----------------------------------------------------------------------------
(* The least and the greatest key of a set of entries.                        *)

LEMMA KeysFinite ==
    ASSUME NEW S, Numbered(S)
    PROVE  IsFiniteSet(Keys(S)) /\ Keys(S) \subseteq Int /\ Keys(S) \subseteq UserKeys
<1> DEFINE f == [e \in S |-> e.key]
<1>1. f \in Surjection(S, Keys(S))
  BY DEF Surjection, Keys
<1>2. IsFiniteSet(Keys(S))
  BY <1>1, NumberedFinite, FS_Surjection
<1> QED
  BY <1>2, EntryFields DEF Numbered, Keys

LEMMA LeastTyped ==
    ASSUME NEW S, Numbered(S)
    PROVE  Least(Keys(S)) \in UserKeys \cup {NoKey}
BY KeysFinite, LeastInt DEF Least

LEMMA GreatestTyped ==
    ASSUME NEW S, Numbered(S)
    PROVE  Greatest(Keys(S)) \in UserKeys \cup {NoKey}
BY KeysFinite, GreatestInt DEF Greatest

LEMMA LeastIs ==
    ASSUME NEW ks, ks \subseteq Int, NEW k \in ks, \A o \in ks : k =< o
    PROVE  Least(ks) = k
<1>1. \A j \in ks : (\A o \in ks : j =< o) => j = k
  OBVIOUS
<1> QED
  BY <1>1 DEF Least

LEMMA GreatestIs ==
    ASSUME NEW ks, ks \subseteq Int, NEW k \in ks, \A o \in ks : o =< k
    PROVE  Greatest(ks) = k
<1>1. \A j \in ks : (\A o \in ks : o =< j) => j = k
  OBVIOUS
<1> QED
  BY <1>1 DEF Greatest

LEMMA NoneLeast == Least({}) = NoKey /\ Greatest({}) = NoKey
BY DEF Least, Greatest

-----------------------------------------------------------------------------
(* What is to be shown of V, seen from the place e: forward to the first entry *)
(* of a key that is not hidden, and backward to the last of a key.             *)

Onward(V, e, skip, k, g) ==
    /\ \A v \in V : Before(v, e) /\ v.key = e.key => skip /\ e.key =< k
    /\ skip => \A v \in V : ~ Before(v, e) => k =< v.key
    /\ g = Least(Keys({t \in Live(V) : ~ Before(t, e) /\ ~ (skip /\ t.key =< k)}))

\* The loop forward is on the entry it looks for.
LEMMA OnwardFound ==
    ASSUME NEW V, Numbered(V), NEW e \in V, NEW skip \in BOOLEAN, NEW k \in Int, NEW g,
           Onward(V, e, skip, k, g), e.type = "value", ~ (skip /\ e.key =< k)
    PROVE  e \in Live(V) /\ g = e.key
<1> DEFINE T == {t \in Live(V) : ~ Before(t, e) /\ ~ (skip /\ t.key =< k)}
<1>1. \A v \in V : v.key \in Int /\ v.seq \in Int
  BY EntryFields DEF Numbered
<1>2. e \in Live(V)
  BY <1>1 DEF Onward, Live, Before
<1>3. e \in T
  BY <1>1, <1>2, BeforeOrder
<1>4. Keys(T) \subseteq Int /\ e.key \in Keys(T)
  BY <1>1, <1>3 DEF Keys, Live
<1>5. \A t \in T : e.key =< t.key
  BY <1>1, BeforeOrder DEF Live
<1>6. \A o \in Keys(T) : e.key =< o
  BY <1>5 DEF Keys
<1>7. Least(Keys(T)) = e.key
  <2> HIDE DEF T
  <2> QED
    BY <1>4, <1>6, LeastIs
<1> QED
  BY <1>2, <1>7 DEF Onward

\* It passes an entry that it does not look for: what it looks for stays.
LEMMA LiveStays ==
    ASSUME NEW V, Numbered(V), NEW e \in Entries, NEW skip \in BOOLEAN, NEW k \in Int, NEW g,
           Onward(V, e, skip, k, g), \A v \in V : v.seq = e.seq => v = e,
           e \in V /\ e.type = "value" => skip /\ e.key =< k,
           NEW t \in Live(V)
    PROVE  /\ ~ Before(t, e) /\ ~ (skip /\ t.key =< k) => Before(e, t)
           /\ e \in V /\ e.type = "deletion" =>
                  (~ Before(t, e) /\ ~ (skip /\ t.key =< k) <=> e.key < t.key)
<1>1. \A v \in V : v.key \in Int /\ v.seq \in Int
  BY EntryFields DEF Numbered
<1>2. e.key \in Int /\ e.seq \in Int
  BY EntryFields
<1>3. t \in V /\ t.type = "value" /\ \A o \in V : o.key = t.key => o.seq =< t.seq
  BY DEF Live
<1>4. ~ Before(t, e) /\ ~ (skip /\ t.key =< k) => Before(e, t)
  BY <1>1, <1>2, <1>3 DEF Before
<1>5. ASSUME e \in V, e.type = "deletion"
      PROVE  ~ Before(t, e) /\ ~ (skip /\ t.key =< k) <=> e.key < t.key
  <2>1. t # e
    BY <1>3, <1>5
  <2>2. ASSUME ~ Before(t, e) PROVE e.key < t.key
    BY <1>1, <1>2, <1>3, <1>5, <2>1, <2>2 DEF Before
  <2>3. skip => k =< e.key
    BY <1>1, <1>5, BeforeOrder DEF Onward
  <2>4. ASSUME e.key < t.key PROVE ~ Before(t, e) /\ ~ (skip /\ t.key =< k)
    BY <1>1, <1>2, <1>3, <2>3, <2>4 DEF Before
  <2> QED
    BY <2>2, <2>4
<1> QED
  BY <1>4, <1>5

LEMMA OnwardOn ==
    ASSUME NEW V, Numbered(V), NEW e \in Entries, NEW skip \in BOOLEAN, NEW k \in Int, NEW g,
           Onward(V, e, skip, k, g), \A v \in V : v.seq = e.seq => v = e,
           e \in V /\ e.type = "value" => skip /\ e.key =< k,
           NEW d \in Entries, Before(e, d), \A v \in V : Before(e, v) => ~ Before(v, d),
           NEW deleted \in BOOLEAN, deleted <=> e \in V /\ e.type = "deletion"
    PROVE  Onward(V, d, skip \/ deleted, IF deleted THEN e.key ELSE k, g)
<1>1. \A v \in V : v.key \in Int /\ v.seq \in Int
  BY EntryFields DEF Numbered
<1>2. e.key \in Int /\ e.seq \in Int /\ d.key \in Int /\ d.seq \in Int /\ e.type \in Types
  BY EntryFields
<1>3. ASSUME NEW v \in V, Before(v, d), v.key = d.key
      PROVE  (skip \/ deleted) /\ d.key =< (IF deleted THEN e.key ELSE k)
  <2>1. ~ Before(e, v)
    BY <1>3
  <2>2. v.key =< e.key /\ e.key =< d.key
    BY <1>1, <1>2, <2>1, BeforeOrder
  <2>3. v.key = e.key /\ d.key = e.key
    BY <1>1, <1>2, <1>3, <2>2
  <2>4. v = e \/ Before(v, e)
    BY <1>1, <1>2, <2>1, <2>3 DEF Before
  <2>5. CASE v = e
    BY <1>2, <2>3, <2>5 DEF Types
  <2>6. CASE Before(v, e)
    BY <1>2, <2>3, <2>6 DEF Onward
  <2> QED
    BY <2>4, <2>5, <2>6
<1>4. ASSUME skip \/ deleted, NEW v \in V, ~ Before(v, d)
      PROVE  (IF deleted THEN e.key ELSE k) =< v.key
  <2>1. Before(e, v)
    BY <1>1, <1>2, <1>4, BeforeOrder
  <2>2. e.key =< v.key /\ ~ Before(v, e)
    BY <1>1, <1>2, <2>1, BeforeOrder
  <2>3. CASE deleted
    BY <2>2, <2>3
  <2>4. CASE ~ deleted
    BY <1>4, <2>2, <2>4 DEF Onward
  <2> QED
    BY <2>3, <2>4
<1>5. ASSUME NEW t \in Live(V)
      PROVE  ~ Before(t, d) /\ ~ ((skip \/ deleted) /\ t.key =< (IF deleted THEN e.key ELSE k))
             <=> ~ Before(t, e) /\ ~ (skip /\ t.key =< k)
  <2>1. t \in V
    BY DEF Live
  <2>2. ~ Before(t, d) => Before(e, t) /\ ~ Before(t, e)
    BY <1>1, <1>2, <2>1, BeforeOrder
  <2>3. ~ Before(t, e) /\ ~ (skip /\ t.key =< k) => Before(e, t) /\ ~ Before(t, d)
    BY <2>1, LiveStays
  <2>4. CASE deleted
    <3>1. ~ Before(t, e) /\ ~ (skip /\ t.key =< k) <=> e.key < t.key
      BY <2>4, LiveStays
    <3>2. t.key =< e.key <=> ~ (e.key < t.key)
      BY <1>1, <1>2, <2>1
    <3> QED
      BY <2>2, <2>3, <2>4, <3>1, <3>2
  <2>5. CASE ~ deleted
    BY <2>2, <2>3, <2>5
  <2> QED
    BY <2>4, <2>5
<1>6. {t \in Live(V) : ~ Before(t, d)
           /\ ~ ((skip \/ deleted) /\ t.key =< (IF deleted THEN e.key ELSE k))}
      = {t \in Live(V) : ~ Before(t, e) /\ ~ (skip /\ t.key =< k)}
  BY <1>5
<1>7. g = Least(Keys({t \in Live(V) : ~ Before(t, d)
           /\ ~ ((skip \/ deleted) /\ t.key =< (IF deleted THEN e.key ELSE k))}))
  BY <1>6 DEF Onward
<1> QED
  BY <1>3, <1>4, <1>7 DEF Onward

\* It comes to the end.
LEMMA OnwardEnd ==
    ASSUME NEW V, Numbered(V), NEW e \in Entries, NEW skip \in BOOLEAN, NEW k \in Int, NEW g,
           Onward(V, e, skip, k, g), \A v \in V : v.seq = e.seq => v = e,
           e \in V /\ e.type = "value" => skip /\ e.key =< k,
           \A v \in V : ~ Before(e, v)
    PROVE  g = NoKey
<1>1. \A t \in Live(V) : ~ (~ Before(t, e) /\ ~ (skip /\ t.key =< k))
  BY LiveStays DEF Live
<1>2. {t \in Live(V) : ~ Before(t, e) /\ ~ (skip /\ t.key =< k)} = {}
  BY <1>1
<1>3. Keys({}) = {}
  BY DEF Keys
<1> QED
  BY <1>2, <1>3, NoneLeast DEF Onward

-----------------------------------------------------------------------------
(* Backward: R is what is still to come, x the last value that has come.        *)

Pending(V, R, x, k, n, g) ==
    /\ x.key = k /\ x.seq = n /\ x.type = "value"
    /\ \A v \in R : Before(v, x)
    /\ \A v \in V \ R : ~ Before(v, x)
    /\ g = Greatest(Keys(Live(V) \cap (R \cup {x})))

Backward(V, R, type, k, n, g) ==
    /\ type = "deletion" => g = Greatest(Keys(Live(V) \cap R))
    /\ type = "value" => \E x \in V \ R : Pending(V, R, x, k, n, g)

\* The loop backward has passed all entries of the key it has found.
LEMMA BackwardFound ==
    ASSUME NEW V, Numbered(V), NEW R \in SUBSET V, NEW k, NEW n, NEW g,
           Backward(V, R, "value", k, n, g), \A v \in R : v.key < k
    PROVE  \E x \in Live(V) : x.key = k /\ x.seq = n /\ g = k
                              /\ \A v \in V : v.key < k <=> v \in R
<1>1. \A v \in V : v.key \in Int /\ v.seq \in Int
  BY EntryFields DEF Numbered
<1>2. PICK x \in V \ R : Pending(V, R, x, k, n, g)
  BY DEF Backward
<1> DEFINE T == Live(V) \cap (R \cup {x})
<1>3. x.key = k /\ x.seq = n /\ x.type = "value" /\ g = Greatest(Keys(T))
      /\ \A v \in V \ R : ~ Before(v, x)
  BY <1>2 DEF Pending
<1>4. \A v \in V \ R : k =< v.key /\ (v.key = k => v.seq =< x.seq)
  BY <1>1, <1>3 DEF Before
<1>5. \A v \in V : v.key < k <=> v \in R
  BY <1>1, <1>3, <1>4
<1>6. x \in Live(V)
  BY <1>1, <1>3, <1>4, <1>5 DEF Live
<1>7. Keys(T) \subseteq Int /\ x.key \in Keys(T)
  BY <1>1, <1>6 DEF Keys, Live
<1>8. \A t \in T : t.key =< x.key
  BY <1>1, <1>3
<1>9. \A o \in Keys(T) : o =< x.key
  BY <1>8 DEF Keys
<1>10. Greatest(Keys(T)) = x.key
  <2> HIDE DEF T
  <2> QED
    BY <1>7, <1>9, GreatestIs
<1> QED
  BY <1>3, <1>5, <1>6, <1>10

LEMMA BackwardNone ==
    ASSUME NEW V, NEW k, NEW n, NEW g, Backward(V, {}, "deletion", k, n, g)
    PROVE  g = NoKey
<1>1. Live(V) \cap {} = {} /\ Keys({}) = {}
  BY DEF Keys
<1> QED
  BY <1>1, NoneLeast DEF Backward

\* It passes the last entry of what is to come.
LEMMA BackwardOn ==
    ASSUME NEW V, Numbered(V), NEW R \in SUBSET V, NEW type \in Types, NEW k \in Int, NEW n,
           NEW g, Backward(V, R, type, k, n, g),
           NEW e \in R, \A v \in R : ~ Before(e, v), \A v \in V \ R : Before(e, v),
           ~ (type = "value" /\ e.key < k)
    PROVE  Backward(V, R \ {e}, e.type, IF e.type = "value" THEN e.key ELSE NoKey,
                    IF e.type = "value" THEN e.seq ELSE 0, g)
<1> DEFINE Q == R \ {e}
<1>1. \A v \in V : v.key \in Int /\ v.seq \in Int /\ v.type \in Types
  BY EntryFields DEF Numbered
<1>2. g = Greatest(Keys(Live(V) \cap R))
  <2>1. CASE type = "deletion"
    BY <2>1 DEF Backward
  <2>2. CASE type = "value"
    <3>1. PICK x \in V \ R : Pending(V, R, x, k, n, g)
      BY <2>2 DEF Backward
    <3>2. Before(e, x) /\ x.key = k
      BY <3>1 DEF Pending
    <3>3. e.key = x.key /\ x.seq < e.seq
      BY <1>1, <2>2, <3>2 DEF Before
    <3>4. x \notin Live(V)
      BY <1>1, <3>3 DEF Live
    <3>5. Live(V) \cap (R \cup {x}) = Live(V) \cap R
      BY <3>4
    <3> QED
      BY <3>1, <3>5 DEF Pending
  <2> QED
    BY <2>1, <2>2 DEF Types
<1>3. CASE e.type = "value"
  <2>1. \A v \in Q : Before(v, e)
    BY NumberedOrder
  <2>2. \A v \in V \ Q : ~ Before(v, e)
    BY <1>1, BeforeOrder
  <2>3. Live(V) \cap (Q \cup {e}) = Live(V) \cap R
    OBVIOUS
  <2>4. Pending(V, Q, e, e.key, e.seq, g)
    BY <1>2, <1>3, <2>1, <2>2, <2>3 DEF Pending
  <2>5. e \in V \ Q
    OBVIOUS
  <2> QED
    BY <1>3, <2>4, <2>5 DEF Backward
<1>4. CASE e.type = "deletion"
  <2>1. e \notin Live(V)
    BY <1>4 DEF Live
  <2>2. Live(V) \cap Q = Live(V) \cap R
    BY <2>1
  <2> QED
    BY <1>2, <1>4, <2>2 DEF Backward
<1> QED
  BY <1>1, <1>3, <1>4 DEF Types

-----------------------------------------------------------------------------
(* Numbers.                                                                   *)

LEMMA LowestIs ==
    ASSUME NEW S \in SUBSET Int, NEW m \in S, \A x \in S : m =< x
    PROVE  Lowest(S) = m
<1>1. \A x \in S : (\A y \in S : x =< y) => x = m
  OBVIOUS
<1> QED
  BY <1>1 DEF Lowest

LEMMA HighestIs ==
    ASSUME NEW S \in SUBSET Int, NEW m \in S, \A x \in S : x =< m
    PROVE  Highest(S) = m
<1>1. \A x \in S : (\A y \in S : y =< x) => x = m
  OBVIOUS
<1> QED
  BY <1>1 DEF Highest

LEMMA LowestExists ==
    ASSUME NEW a \in Int, NEW b \in Int, NEW S \in SUBSET (a .. b), S # {}
    PROVE  Lowest(S) \in S /\ \A x \in S : Lowest(S) =< x
<1>1. IsFiniteSet(S)
  BY FS_Interval, FS_Subset
<1>2. S \in SUBSET Int
  OBVIOUS
<1> QED
  BY <1>1, <1>2, LeastInt DEF Lowest

LEMMA HighestExists ==
    ASSUME NEW a \in Int, NEW b \in Int, NEW S \in SUBSET (a .. b), S # {}
    PROVE  Highest(S) \in S /\ \A x \in S : x =< Highest(S)
<1>1. IsFiniteSet(S)
  BY FS_Interval, FS_Subset
<1>2. S \in SUBSET Int
  OBVIOUS
<1> QED
  BY <1>1, <1>2, GreatestInt DEF Highest

LEMMA Division ==
    ASSUME NEW m \in Nat, NEW k \in Nat \ {0}
    PROVE  /\ m \div k \in Nat
           /\ (m \div k) * k =< m
           /\ m < (m \div k) * k + k
OBVIOUS

LEMMA Times ==
    ASSUME NEW a \in Int, NEW b \in Int, NEW k \in Nat \ {0}
    PROVE  /\ a * k \in Int
           /\ a =< b => a * k =< b * k
           /\ a < b => a * k + k =< b * k
           /\ a * k < b * k => a < b
<1>1. a * k \in Int /\ b * k \in Int
  OBVIOUS
<1>2. ASSUME NEW x \in Int, NEW y \in Int, x =< y PROVE x * k =< y * k
  BY <1>2
<1>3. a < b => a * k + k =< b * k
  <2>1. a < b => (a + 1) * k =< b * k
    BY <1>2
  <2>2. (a + 1) * k = a * k + k
    OBVIOUS
  <2> QED
    BY <2>1, <2>2
<1>4. b =< a => b * k =< a * k
  BY <1>2
<1> QED
  BY <1>1, <1>2, <1>3, <1>4

-----------------------------------------------------------------------------
(* Sequences of entries in order.                                             *)

Elems(s) == {s[i] : i \in DOMAIN s}

Ascending(s) ==
    /\ s \in Seq(Elems(s))
    /\ \A e \in Elems(s) : e.key \in Int /\ e.seq \in Int
    /\ \A i, j \in DOMAIN s : i < j => Before(s[i], s[j])

LEMMA AscendingIs ==
    ASSUME NEW s, Ascending(s)
    PROVE  /\ Len(s) \in Nat /\ DOMAIN s = 1 .. Len(s)
           /\ \A i \in 1 .. Len(s) : s[i] \in Elems(s) /\ s[i].key \in Int /\ s[i].seq \in Int
           /\ \A i, j \in 1 .. Len(s) : i < j => Before(s[i], s[j])
           /\ \A i, j \in 1 .. Len(s) : Before(s[i], s[j]) <=> i < j
           /\ s = <<>> <=> Len(s) = 0
<1>1. Len(s) \in Nat /\ DOMAIN s = 1 .. Len(s) /\ (s = <<>> <=> Len(s) = 0)
  BY DEF Ascending
<1>2. \A i \in 1 .. Len(s) : s[i] \in Elems(s) /\ s[i].key \in Int /\ s[i].seq \in Int
  BY <1>1 DEF Ascending, Elems
<1>3. \A i, j \in 1 .. Len(s) : i < j => Before(s[i], s[j])
  BY <1>1 DEF Ascending
<1>4. ASSUME NEW i \in 1 .. Len(s), NEW j \in 1 .. Len(s), Before(s[i], s[j]) PROVE i < j
  <2>1. i # j /\ ~ Before(s[j], s[i])
    BY <1>2, <1>4, BeforeOrder
  <2> QED
    BY <1>1, <1>3, <2>1
<1> QED
  BY <1>1, <1>2, <1>3, <1>4

-----------------------------------------------------------------------------
(* Blocks.                                                                    *)

GoodBlock(b) == Ascending(b.entries) /\ b.interval \in Nat \ {0}

BlockPlace(b, p) == p.at \in DOMAIN b.entries /\ p.restart \in Nat

\* On the first of the entries in S, or the last.
BlockAtFirst(b, S, p) ==
    IF S = {} THEN p = Off
    ELSE /\ BlockPlace(b, p) /\ b.entries[p.at] \in S
         /\ \A o \in S : ~ Before(o, b.entries[p.at])

BlockAtLast(b, S, p) ==
    IF S = {} THEN p = Off
    ELSE /\ BlockPlace(b, p) /\ b.entries[p.at] \in S
         /\ \A o \in S : ~ Before(b.entries[p.at], o)

LEMMA BlockAtFirstIs ==
    ASSUME NEW b, GoodBlock(b), NEW p, BlockPlace(b, p), NEW S, S \subseteq Elems(b.entries),
           b.entries[p.at] \in S, \A i \in DOMAIN b.entries : b.entries[i] \in S => p.at =< i
    PROVE  BlockAtFirst(b, S, p)
<1>1. \A o \in S : \E i \in DOMAIN b.entries : o = b.entries[i] /\ p.at =< i
  BY DEF Elems
<1>2. \A o \in S : ~ Before(o, b.entries[p.at])
  BY <1>1, AscendingIs DEF GoodBlock, BlockPlace
<1> QED
  BY <1>2 DEF BlockAtFirst

LEMMA BlockAtLastIs ==
    ASSUME NEW b, GoodBlock(b), NEW p, BlockPlace(b, p), NEW S, S \subseteq Elems(b.entries),
           b.entries[p.at] \in S, \A i \in DOMAIN b.entries : b.entries[i] \in S => i =< p.at
    PROVE  BlockAtLast(b, S, p)
<1>1. \A o \in S : \E i \in DOMAIN b.entries : o = b.entries[i] /\ i =< p.at
  BY DEF Elems
<1>2. \A o \in S : ~ Before(b.entries[p.at], o)
  BY <1>1, AscendingIs DEF GoodBlock, BlockPlace
<1> QED
  BY <1>2 DEF BlockAtLast

LEMMA RestartsIs ==
    ASSUME NEW b, GoodBlock(b)
    PROVE  /\ NumRestarts(b) \in Nat \ {0}
           /\ RestartPoint(b, 0) = 1
           /\ \A r \in 0 .. NumRestarts(b) - 1 :
                  /\ RestartPoint(b, r) \in Nat \ {0}
                  /\ b.entries # <<>> => RestartPoint(b, r) \in 1 .. Len(b.entries)
           /\ \A r, q \in Nat : r < q => RestartPoint(b, r) < RestartPoint(b, q)
           /\ \A r \in Nat : RestartPoint(b, r) \in Nat \ {0}
<1> DEFINE n == Len(b.entries)  k == b.interval
<1>1. n \in Nat /\ k \in Nat \ {0} /\ (b.entries = <<>> <=> n = 0)
  BY AscendingIs DEF GoodBlock
<1>2. RestartPoint(b, 0) = 1
  BY <1>1 DEF RestartPoint
<1>3. \A r, q \in Nat : r < q => RestartPoint(b, r) < RestartPoint(b, q)
  BY <1>1, Times DEF RestartPoint
<1>4. ASSUME NEW r \in Nat PROVE RestartPoint(b, r) \in Nat \ {0}
  <2>1. r * k \in Int /\ 0 * k =< r * k /\ 0 * k = 0
    BY <1>1, Times
  <2>2. RestartPoint(b, r) = 1 + r * k
    BY DEF RestartPoint
  <2> QED
    BY <2>1, <2>2
<1>5. CASE n = 0
  BY <1>1, <1>2, <1>3, <1>4, <1>5 DEF NumRestarts
<1>6. CASE n # 0
  <2>1. (n - 1) \div k \in Nat /\ ((n - 1) \div k) * k =< n - 1
    BY <1>1, <1>6, Division
  <2>2. NumRestarts(b) = 1 + (n - 1) \div k
    BY <1>1, <1>6 DEF NumRestarts
  <2>4. ASSUME NEW r \in 0 .. NumRestarts(b) - 1 PROVE RestartPoint(b, r) \in 1 .. n
    <3>1. r \in Nat /\ r =< (n - 1) \div k
      BY <2>1, <2>2
    <3>2. r * k \in Int /\ r * k =< ((n - 1) \div k) * k /\ ((n - 1) \div k) * k \in Int
      BY <1>1, <2>1, <3>1, Times
    <3>3. RestartPoint(b, r) = 1 + r * k /\ RestartPoint(b, r) \in Nat \ {0}
      BY <1>4, <3>1 DEF RestartPoint
    <3>4. r * k =< n - 1
      BY <1>1, <2>1, <3>2
    <3> QED
      BY <1>1, <3>2, <3>3, <3>4
  <2> QED
    BY <1>2, <1>3, <1>4, <2>1, <2>2, <2>4
<1> QED
  BY <1>5, <1>6

LEMMA ParseIs ==
    ASSUME NEW b, GoodBlock(b), NEW r \in Nat, NEW i \in Nat \ {0}
    PROVE  /\ i > Len(b.entries) => ParseNextKey(b, r, i) = Off
           /\ i =< Len(b.entries) =>
                  BlockPlace(b, ParseNextKey(b, r, i)) /\ ParseNextKey(b, r, i).at = i
<1> DEFINE S == {r} \cup {q \in r + 1 .. NumRestarts(b) - 1 : RestartPoint(b, q) < i}
<1>1. NumRestarts(b) \in Nat /\ Len(b.entries) \in Nat /\ DOMAIN b.entries = 1 .. Len(b.entries)
  BY RestartsIs, AscendingIs DEF GoodBlock
<1>2. \E m \in Nat : S \in SUBSET (0 .. m)
  <2>1. S \in SUBSET (0 .. r + NumRestarts(b))
    BY <1>1
  <2> QED
    BY <1>1, <2>1
<1>3. Highest(S) \in S
  <2>1. S # {}
    OBVIOUS
  <2> HIDE DEF S
  <2> QED
    <3>1. PICK m \in Nat : S \in SUBSET (0 .. m)
      BY <1>2
    <3>2. 0 \in Int /\ m \in Int
      OBVIOUS
    <3> QED
      BY <2>1, <3>1, <3>2, HighestExists
<1>4. Highest(S) \in Nat
  BY <1>2, <1>3
<1>5. i > Len(b.entries) => ParseNextKey(b, r, i) = Off
  BY DEF ParseNextKey
<1>6. i =< Len(b.entries) => ParseNextKey(b, r, i) = [at |-> i, restart |-> Highest(S)]
  BY <1>1 DEF ParseNextKey
<1> HIDE DEF S
<1> QED
  BY <1>1, <1>4, <1>5, <1>6 DEF BlockPlace

LEMMA OffIsNoPlace ==
    ASSUME NEW b, GoodBlock(b), NEW p, BlockPlace(b, p)
    PROVE  p # Off /\ p.at \in 1 .. Len(b.entries) /\ p.restart \in Nat
           /\ b.entries[p.at] \in Elems(b.entries)
<1>1. DOMAIN b.entries = 1 .. Len(b.entries) /\ Len(b.entries) \in Nat
  BY AscendingIs DEF GoodBlock
<1>2. Off.at = 0
  BY DEF Off
<1> QED
  BY <1>1, <1>2 DEF BlockPlace, Elems

LEMMA BlockFirstIs ==
    ASSUME NEW b, GoodBlock(b), b.entries # <<>>
    PROVE  BlockAtFirst(b, Elems(b.entries), BlockFirst(b))
<1>1. Len(b.entries) >= 1 /\ DOMAIN b.entries = 1 .. Len(b.entries) /\ Len(b.entries) \in Nat
  BY AscendingIs DEF GoodBlock
<1>2. BlockPlace(b, BlockFirst(b)) /\ BlockFirst(b).at = 1
  BY <1>1, ParseIs DEF BlockFirst
<1> QED
  BY <1>1, <1>2, BlockAtFirstIs DEF Elems

LEMMA BlockLastIs ==
    ASSUME NEW b, GoodBlock(b), b.entries # <<>>
    PROVE  BlockAtLast(b, Elems(b.entries), BlockLast(b))
<1>1. Len(b.entries) >= 1 /\ DOMAIN b.entries = 1 .. Len(b.entries) /\ Len(b.entries) \in Nat
  BY AscendingIs DEF GoodBlock
<1>2. NumRestarts(b) - 1 \in Nat
  BY RestartsIs
<1>3. BlockPlace(b, BlockLast(b)) /\ BlockLast(b).at = Len(b.entries)
  BY <1>1, <1>2, ParseIs DEF BlockLast
<1> QED
  BY <1>1, <1>3, BlockAtLastIs DEF Elems

LEMMA BlockNextIs ==
    ASSUME NEW b, GoodBlock(b), NEW p, BlockPlace(b, p)
    PROVE  BlockAtFirst(b, {o \in Elems(b.entries) : Before(b.entries[p.at], o)}, BlockNext(b, p))
<1> DEFINE S == {o \in Elems(b.entries) : Before(b.entries[p.at], o)}
           q == BlockNext(b, p)
<1>1. DOMAIN b.entries = 1 .. Len(b.entries) /\ Len(b.entries) \in Nat
      /\ p.at \in 1 .. Len(b.entries) /\ p.restart \in Nat
  BY AscendingIs, OffIsNoPlace DEF GoodBlock
<1>2. \A i \in DOMAIN b.entries : b.entries[i] \in S <=> p.at < i
  BY <1>1, AscendingIs DEF GoodBlock
<1>3. CASE p.at = Len(b.entries)
  <2>1. S = {}
    BY <1>1, <1>2, <1>3 DEF Elems
  <2>2. q = Off
    BY <1>1, <1>3, ParseIs DEF BlockNext
  <2> QED
    BY <2>1, <2>2 DEF BlockAtFirst
<1>4. CASE p.at < Len(b.entries)
  <2>1. BlockPlace(b, q) /\ q.at = p.at + 1
    BY <1>1, <1>4, ParseIs DEF BlockNext
  <2>2. b.entries[q.at] \in S /\ \A i \in DOMAIN b.entries : b.entries[i] \in S => q.at =< i
    BY <1>1, <1>2, <1>4, <2>1
  <2>3. S \subseteq Elems(b.entries)
    OBVIOUS
  <2> HIDE DEF S, q
  <2> QED
    BY <2>1, <2>2, <2>3, BlockAtFirstIs DEF S, q
<1> QED
  BY <1>1, <1>3, <1>4

LEMMA BlockPrevIs ==
    ASSUME NEW b, GoodBlock(b), NEW p, BlockPlace(b, p)
    PROVE  BlockAtLast(b, {o \in Elems(b.entries) : Before(o, b.entries[p.at])}, BlockPrev(b, p))
<1> DEFINE S == {o \in Elems(b.entries) : Before(o, b.entries[p.at])}
           q == BlockPrev(b, p)
           before == {r \in 0 .. p.restart : RestartPoint(b, r) < p.at}
<1>1. DOMAIN b.entries = 1 .. Len(b.entries) /\ Len(b.entries) \in Nat
      /\ p.at \in 1 .. Len(b.entries) /\ p.restart \in Nat
  BY AscendingIs, OffIsNoPlace DEF GoodBlock
<1>2. \A i \in DOMAIN b.entries : b.entries[i] \in S <=> i < p.at
  BY <1>1, AscendingIs DEF GoodBlock
<1>3. CASE p.at = 1
  <2>1. S = {}
    BY <1>1, <1>2, <1>3 DEF Elems
  <2>2. before = {}
    <3>1. \A r \in 0 .. p.restart : RestartPoint(b, r) \in Nat \ {0}
      BY <1>1, RestartsIs
    <3> QED
      BY <1>3, <3>1
  <2>3. q = Off
    BY <2>2 DEF BlockPrev
  <2> QED
    BY <2>1, <2>3 DEF BlockAtLast
<1>4. CASE p.at > 1
  <2>1. 0 \in before
    BY <1>1, <1>4, RestartsIs
  <2>2. before \in SUBSET (0 .. p.restart)
    OBVIOUS
  <2>3. Highest(before) \in Nat
    <3> HIDE DEF before
    <3>1. 0 \in Int /\ p.restart \in Int /\ before # {}
      BY <1>1, <2>1
    <3>2. Highest(before) \in before
      BY <2>2, <3>1, HighestExists
    <3>3. Highest(before) \in 0 .. p.restart
      BY <2>2, <3>2
    <3> QED
      BY <3>1, <3>3
  <2>4. q = ParseNextKey(b, Highest(before), p.at - 1)
    BY <2>1 DEF BlockPrev
  <2>5. BlockPlace(b, q) /\ q.at = p.at - 1
    <3> HIDE DEF before
    <3> QED
      BY <1>1, <1>4, <2>3, <2>4, ParseIs
  <2>6. b.entries[q.at] \in S /\ \A i \in DOMAIN b.entries : b.entries[i] \in S => i =< q.at
    BY <1>1, <1>2, <1>4, <2>5
  <2>7. S \subseteq Elems(b.entries)
    OBVIOUS
  <2> HIDE DEF S, q
  <2> QED
    BY <2>5, <2>6, <2>7, BlockAtLastIs DEF S, q
<1> QED
  BY <1>1, <1>3, <1>4

\* The binary search in the restart points, as a function that calls itself.
Middle(p) == (p[1] + p[2] + 1) \div 2

IsSearch(f, b, e) ==
    f = [p \in (0 .. NumRestarts(b) - 1) \X (0 .. NumRestarts(b) - 1) |->
            IF p[1] >= p[2] THEN p[1]
            ELSE IF Before(b.entries[RestartPoint(b, Middle(p))], e)
            THEN f[<<Middle(p), p[2]>>]
            ELSE f[<<p[1], Middle(p) - 1>>]]

LEMMA SearchIs ==
    ASSUME NEW b, NEW e, NEW g, IsSearch(g, b, e)
    PROVE  \E f : IsSearch(f, b, e) /\ RestartBefore(b, e) = f[<<0, NumRestarts(b) - 1>>]
BY DEF IsSearch, RestartBefore, Middle

LEMMA MiddleIs ==
    ASSUME NEW l \in Int, NEW r \in Int, l < r
    PROVE  Middle(<<l, r>>) \in l + 1 .. r
BY DEF Middle

\* There is such a function: it gives the last restart point before e.
LEMMA SearchExists ==
    ASSUME NEW b, GoodBlock(b), b.entries # <<>>, NEW e, e.key \in Int, e.seq \in Int
    PROVE  \E g : IsSearch(g, b, e)
<1> DEFINE N == 0 .. NumRestarts(b) - 1
           at(q) == b.entries[RestartPoint(b, q)]
           S(l, r) == {l} \cup {q \in l + 1 .. r : Before(at(q), e)}
           g == [p \in N \X N |-> IF p[1] >= p[2] THEN p[1] ELSE Highest(S(p[1], p[2]))]
<1>1. NumRestarts(b) \in Nat \ {0}
  BY RestartsIs
<1>2. \A q \in N : at(q).key \in Int /\ at(q).seq \in Int
  BY RestartsIs, AscendingIs DEF GoodBlock
<1>3. ASSUME NEW q \in N, NEW r \in N, q < r PROVE Before(at(q), at(r))
  <2>1. /\ RestartPoint(b, q) \in 1 .. Len(b.entries)
        /\ RestartPoint(b, r) \in 1 .. Len(b.entries)
        /\ RestartPoint(b, q) < RestartPoint(b, r)
    <3>1. q \in Nat /\ r \in Nat
      BY <1>1
    <3>2. RestartPoint(b, q) < RestartPoint(b, r)
      BY <1>3, <3>1, RestartsIs
    <3>3. \A x \in N : RestartPoint(b, x) \in 1 .. Len(b.entries)
      BY RestartsIs
    <3> QED
      BY <3>2, <3>3
  <2> QED
    BY <2>1, AscendingIs DEF GoodBlock
<1> HIDE DEF at
<1>4. ASSUME NEW p \in N \X N, p[1] < p[2]
      PROVE  g[p] = IF Before(at(Middle(p)), e) THEN g[<<Middle(p), p[2]>>]
                    ELSE g[<<p[1], Middle(p) - 1>>]
  <2> DEFINE l == p[1]  r == p[2]  m == Middle(p)
  <2>1. l \in N /\ r \in N /\ l \in Int /\ r \in Int /\ p = <<l, r>>
    BY <1>1
  <2>2. m \in Int /\ l < m /\ m =< r /\ m \in N /\ m - 1 \in N
    <3>1. m \in l + 1 .. r
      BY <1>4, <2>1, MiddleIs
    <3> QED
      BY <1>1, <2>1, <3>1
  <2> HIDE DEF m
  <2>3. g[p] = Highest(S(l, r))
    BY <1>4, <2>1
  <2>4. g[<<m, r>>] = IF m >= r THEN m ELSE Highest(S(m, r))
    BY <2>1, <2>2
  <2>5. g[<<l, m - 1>>] = IF l >= m - 1 THEN l ELSE Highest(S(l, m - 1))
    BY <2>1, <2>2
  <2>6. \A x, y \in N : S(x, y) \in SUBSET (x .. x + NumRestarts(b)) /\ S(x, y) # {}
                        /\ S(x, y) \in SUBSET Int
    BY <1>1
  <2>7. \A x, y \in N : Highest(S(x, y)) \in S(x, y) /\ \A z \in S(x, y) : z =< Highest(S(x, y))
    <3>1. ASSUME NEW x \in N, NEW y \in N
          PROVE  Highest(S(x, y)) \in S(x, y) /\ \A z \in S(x, y) : z =< Highest(S(x, y))
      <4>1. x \in Int /\ x + NumRestarts(b) \in Int
        BY <1>1
      <4>2. S(x, y) \in SUBSET (x .. x + NumRestarts(b)) /\ S(x, y) # {}
        BY <2>6
      <4> HIDE DEF S, N
      <4> QED
        BY <4>1, <4>2, HighestExists
    <3> QED
      BY <3>1
  <2>8. CASE Before(at(m), e)
    <3> DEFINE h == IF m >= r THEN m ELSE Highest(S(m, r))
    <3>1. h \in S(l, r) /\ \A z \in S(l, r) : z =< h
      <4>1. CASE m >= r
        BY <2>1, <2>2, <2>8, <4>1
      <4>2. CASE m < r
        <5>1. h = Highest(S(m, r)) /\ h \in S(m, r) /\ \A z \in S(m, r) : z =< h
          <6>1. h = Highest(S(m, r))
            BY <2>1, <2>2, <4>2
          <6>2. Highest(S(m, r)) \in S(m, r) /\ \A z \in S(m, r) : z =< Highest(S(m, r))
            BY <2>1, <2>2, <2>7
          <6> HIDE DEF S, h
          <6> QED
            BY <6>1, <6>2
        <5>2. m =< h
          BY <5>1
        <5>3. S(m, r) \subseteq S(l, r)
          BY <2>1, <2>2, <2>8
        <5>4. \A z \in S(l, r) : z =< m \/ z \in S(m, r)
          BY <2>1, <2>2
        <5>5. h \in Int /\ \A z \in S(l, r) : z \in Int
          BY <2>1, <2>6, <5>1, <5>3
        <5> HIDE DEF h, S
        <5> QED
          BY <2>2, <5>1, <5>2, <5>3, <5>4, <5>5
      <4> QED
        BY <2>1, <2>2, <4>1, <4>2
    <3>2. Highest(S(l, r)) = h
      <4>1. S(l, r) \in SUBSET Int
        BY <2>1, <2>6
      <4> HIDE DEF h, S
      <4> QED
        BY <3>1, <4>1, HighestIs
    <3> QED
      BY <2>3, <2>4, <2>8, <3>2 DEF m
  <2>9. CASE ~ Before(at(m), e)
    <3>1. \A q \in N : m =< q => ~ Before(at(q), e)
      BY <1>2, <1>3, <2>1, <2>2, <2>9, BeforeOrder
    <3>2. S(l, r) = S(l, m - 1)
      BY <1>1, <2>1, <2>2, <3>1
    <3>3. CASE l >= m - 1
      <4>1. S(l, m - 1) = {l}
        BY <2>1, <2>2, <3>3
      <4>2. Highest({l}) = l
        <5>1. {l} \in SUBSET Int /\ l \in {l} /\ \A x \in {l} : x =< l
          BY <2>1
        <5> QED
          BY <5>1, HighestIs
      <4> QED
        BY <2>3, <2>5, <2>9, <3>2, <3>3, <4>1, <4>2 DEF m
    <3>4. CASE l < m - 1
      BY <2>1, <2>2, <2>3, <2>5, <2>9, <3>2, <3>4 DEF m
    <3> QED
      BY <2>1, <2>2, <3>3, <3>4
  <2> QED
    BY <2>8, <2>9 DEF m
<1>5. ASSUME NEW p \in N \X N
      PROVE  g[p] = IF p[1] >= p[2] THEN p[1]
                    ELSE IF Before(at(Middle(p)), e) THEN g[<<Middle(p), p[2]>>]
                    ELSE g[<<p[1], Middle(p) - 1>>]
  <2>1. CASE p[1] >= p[2]
    BY <2>1
  <2>2. CASE p[1] < p[2]
    <3>1. ~ (p[1] >= p[2])
      BY <1>1, <2>2
    <3> QED
      BY <1>4, <2>2, <3>1
  <2> QED
    BY <1>1, <2>1, <2>2
<1>6. g = [p \in N \X N |-> g[p]]
  OBVIOUS
<1> DEFINE f == g
<1>7. f = [p \in N \X N |->
              IF p[1] >= p[2] THEN p[1]
              ELSE IF Before(at(Middle(p)), e) THEN f[<<Middle(p), p[2]>>]
              ELSE f[<<p[1], Middle(p) - 1>>]]
  <2> HIDE DEF g
  <2> QED
    BY <1>5, <1>6
<1>8. IsSearch(f, b, e)
  <2> HIDE DEF f
  <2> QED
    BY <1>7 DEF IsSearch, at
<1> QED
  BY <1>8

\* What the search returns is the first restart point or one before e.
LEMMA RestartBeforeIs ==
    ASSUME NEW b, GoodBlock(b), b.entries # <<>>, NEW e, e.key \in Int, e.seq \in Int
    PROVE  /\ RestartBefore(b, e) \in 0 .. NumRestarts(b) - 1
           /\ RestartBefore(b, e) = 0 \/ Before(b.entries[RestartPoint(b, RestartBefore(b, e))], e)
<1> DEFINE N == 0 .. NumRestarts(b) - 1
           at(q) == b.entries[RestartPoint(b, q)]
<1>1. NumRestarts(b) \in Nat \ {0}
  BY RestartsIs
<1>2. PICK f : IsSearch(f, b, e) /\ RestartBefore(b, e) = f[<<0, NumRestarts(b) - 1>>]
  BY SearchExists, SearchIs
<1> DEFINE Fine(l, r) == f[<<l, r>>] \in N /\ (f[<<l, r>>] = l \/ Before(at(f[<<l, r>>]), e))
           Bad == {p \in N \X N : p[1] =< p[2] /\ ~ Fine(p[1], p[2])}
           Gaps == {n \in N : \E p \in Bad : n = p[2] - p[1]}
<1>3. \A l, r \in N : f[<<l, r>>] =
          IF l >= r THEN l
          ELSE IF Before(at(Middle(<<l, r>>)), e) THEN f[<<Middle(<<l, r>>), r>>]
          ELSE f[<<l, Middle(<<l, r>>) - 1>>]
  <2> DEFINE F(p) == IF p[1] >= p[2] THEN p[1]
                     ELSE IF Before(at(Middle(p)), e) THEN f[<<Middle(p), p[2]>>]
                     ELSE f[<<p[1], Middle(p) - 1>>]
  <2>1. f = [p \in N \X N |-> F(p)]
    BY <1>2 DEF IsSearch
  <2>2. \A l, r \in N : <<l, r>> \in N \X N
    OBVIOUS
  <2>3. \A p \in N \X N : f[p] = F(p)
    <3> HIDE DEF F
    <3> QED
      BY <2>1
  <2> QED
    BY <2>2, <2>3
<1> HIDE DEF at
<1>4. ASSUME Bad # {} PROVE FALSE
  <2>1. ASSUME NEW p \in Bad PROVE p[2] - p[1] \in N /\ p[2] - p[1] \in Gaps
    <3>1. p[1] \in N /\ p[2] \in N /\ p[1] =< p[2]
      OBVIOUS
    <3>2. p[2] - p[1] \in N
      BY <1>1, <3>1
    <3> HIDE DEF Bad, N
    <3> QED
      BY <3>2
  <2>2. Gaps # {} /\ Gaps \in SUBSET (0 .. NumRestarts(b) - 1)
    BY <1>4, <2>1
  <2>3. Lowest(Gaps) \in Gaps /\ \A n \in Gaps : Lowest(Gaps) =< n
    <3> HIDE DEF Gaps
    <3>1. 0 \in Int /\ NumRestarts(b) - 1 \in Int
      BY <1>1
    <3> QED
      BY <2>2, <3>1, LowestExists
  <2>4. PICK p \in Bad : Lowest(Gaps) = p[2] - p[1]
    BY <2>3
  <2>5. PICK l \in N, r \in N : p = <<l, r>> /\ l =< r /\ ~ Fine(l, r)
    OBVIOUS
  <2>6. ASSUME NEW x \in N, NEW y \in N, x =< y, y - x < r - l PROVE Fine(x, y)
    <3>1. <<x, y>> \notin Bad
      <4>1. \A q \in Bad : r - l =< q[2] - q[1]
        BY <2>1, <2>3, <2>4, <2>5
      <4>2. <<x, y>>[1] = x /\ <<x, y>>[2] = y
        OBVIOUS
      <4> HIDE DEF Bad
      <4> QED
        BY <1>1, <2>6, <4>1, <4>2
    <3> QED
      BY <2>6, <3>1
  <2>7. l < r
    <3>1. l = r => f[<<l, r>>] = l
      <4>1. f[<<l, l>>] =
                IF l >= l THEN l
                ELSE IF Before(at(Middle(<<l, l>>)), e) THEN f[<<Middle(<<l, l>>), l>>]
                ELSE f[<<l, Middle(<<l, l>>) - 1>>]
        BY <1>3
      <4>2. l >= l
        BY <1>1
      <4> QED
        BY <4>1, <4>2
    <3>2. l # r
      BY <2>5, <3>1
    <3> QED
      BY <1>1, <2>5, <3>2
  <2> DEFINE m == Middle(<<l, r>>)
  <2>8. m \in l + 1 .. r /\ m \in N /\ m - 1 \in N /\ l =< m - 1 /\ m =< r
        /\ r - m < r - l /\ (m - 1) - l < r - l
    <3>1. m \in l + 1 .. r
      <4>1. l \in Int /\ r \in Int
        BY <1>1
      <4> QED
        BY <2>7, <4>1, MiddleIs
    <3> HIDE DEF m
    <3> QED
      BY <1>1, <2>5, <2>7, <3>1
  <2>9. f[<<l, r>>] = IF Before(at(m), e) THEN f[<<m, r>>] ELSE f[<<l, m - 1>>]
    BY <1>1, <1>3, <2>7
  <2> HIDE DEF m
  <2>10. Fine(m, r) /\ Fine(l, m - 1)
    <3> HIDE DEF Fine
    <3> QED
      BY <2>6, <2>8
  <2>11. Fine(l, r)
    BY <2>9, <2>10
  <2> QED
    BY <2>5, <2>11
<1>5. Fine(0, NumRestarts(b) - 1)
  <2>1. 0 \in N /\ NumRestarts(b) - 1 \in N /\ 0 =< NumRestarts(b) - 1
    BY <1>1
  <2>2. <<0, NumRestarts(b) - 1>> \notin Bad
    BY <1>4
  <2> HIDE DEF Fine
  <2> QED
    BY <2>1, <2>2
<1> QED
  BY <1>2, <1>5 DEF at

LEMMA BlockSeekIs ==
    ASSUME NEW b, GoodBlock(b), NEW e, e.key \in Int, e.seq \in Int
    PROVE  BlockAtFirst(b, {o \in Elems(b.entries) : ~ Before(o, e)}, BlockSeek(b, e))
<1> DEFINE S == {o \in Elems(b.entries) : ~ Before(o, e)}
           r == RestartBefore(b, e)
           from == RestartPoint(b, r)
           found == {i \in from .. Len(b.entries) : ~ Before(b.entries[i], e)}
           q == BlockSeek(b, e)
<1>1. /\ DOMAIN b.entries = 1 .. Len(b.entries) /\ Len(b.entries) \in Nat
      /\ \A i \in 1 .. Len(b.entries) : b.entries[i] \in Elems(b.entries)
                                        /\ b.entries[i].key \in Int /\ b.entries[i].seq \in Int
      /\ \A i, j \in 1 .. Len(b.entries) : i < j => Before(b.entries[i], b.entries[j])
  BY AscendingIs DEF GoodBlock
<1>2. q = IF found = {} THEN Off ELSE ParseNextKey(b, r, Lowest(found))
  BY DEF BlockSeek
<1>3. CASE b.entries = <<>>
  <2>1. S = {}
    BY <1>1, <1>3 DEF Elems
  <2>2. Len(b.entries) = 0
    BY <1>3
  <2>3. r = 0 /\ from = 1
    <3>1. NumRestarts(b) = 1
      BY <1>3 DEF NumRestarts
    <3> DEFINE g == [p \in (0 .. 0) \X (0 .. 0) |-> p[1]]
    <3>2. IsSearch(g, b, e)
      BY <3>1 DEF IsSearch
    <3>3. PICK f : IsSearch(f, b, e) /\ r = f[<<0, 0>>]
      <4> HIDE DEF g
      <4> QED
        BY <3>1, <3>2, SearchIs
    <3>4. r = 0
      BY <3>1, <3>3 DEF IsSearch
    <3> QED
      BY <3>4, RestartsIs
  <2>4. found = {}
    BY <2>2, <2>3
  <2> HIDE DEF found
  <2> QED
    BY <1>2, <2>1, <2>4 DEF BlockAtFirst
<1>4. CASE b.entries # <<>>
  <2>1. r \in 0 .. NumRestarts(b) - 1 /\ (r = 0 \/ Before(b.entries[from], e))
    BY <1>4, RestartBeforeIs
  <2>2. from \in 1 .. Len(b.entries) /\ r \in Nat /\ (r = 0 => from = 1)
    BY <1>4, <2>1, RestartsIs
  <2> HIDE DEF r, from
  <2>3. \A i \in 1 .. Len(b.entries) : i < from => Before(b.entries[i], e)
    BY <1>1, <2>1, <2>2, BeforeOrder
  <2>4. \A i \in 1 .. Len(b.entries) : ~ Before(b.entries[i], e) <=> i \in found
    BY <1>1, <2>2, <2>3
  <2>5. CASE found = {}
    <3>1. S = {}
      BY <1>1, <2>4, <2>5 DEF Elems
    <3> QED
      BY <1>2, <2>5, <3>1 DEF BlockAtFirst
  <2>6. CASE found # {}
    <3>1. Lowest(found) \in found /\ \A i \in found : Lowest(found) =< i
      <4>1. found \in SUBSET (from .. Len(b.entries)) /\ from \in Int /\ Len(b.entries) \in Int
        BY <1>1, <2>2
      <4> HIDE DEF found
      <4> QED
        BY <2>6, <4>1, LowestExists
    <3>2. Lowest(found) \in 1 .. Len(b.entries) /\ ~ Before(b.entries[Lowest(found)], e)
      BY <2>2, <3>1
    <3> HIDE DEF found
    <3>3. BlockPlace(b, q) /\ q.at = Lowest(found)
      BY <1>1, <1>2, <2>2, <2>6, <3>2, ParseIs
    <3>4. b.entries[q.at] \in S /\ \A i \in DOMAIN b.entries : b.entries[i] \in S => q.at =< i
      BY <1>1, <2>4, <3>1, <3>2, <3>3
    <3>5. S \subseteq Elems(b.entries)
      OBVIOUS
    <3> HIDE DEF S, q
    <3> QED
      BY <3>3, <3>4, <3>5, BlockAtFirstIs DEF S, q
  <2> QED
    BY <2>5, <2>6
<1> QED
  BY <1>3, <1>4

-----------------------------------------------------------------------------
(* Things one after the other: the blocks of a table, the files of a level.   *)

LEMMA SkipForwardIs ==
    ASSUME NEW firsts, NEW n \in Nat, DOMAIN firsts = 1 .. n, NEW i \in 0 .. n,
           \A j \in 1 .. n : firsts[j] # Off
    PROVE  SkipEmptyForward(firsts, i, Off)
           = IF i = n THEN Off ELSE [at |-> i + 1, in |-> firsts[i + 1]]
<1> DEFINE on == {j \in DOMAIN firsts : j > i /\ firsts[j] # Off}
<1>1. CASE i = n
  <2>1. on = {}
    BY <1>1
  <2> QED
    BY <1>1, <2>1 DEF SkipEmptyForward
<1>2. CASE i # n
  <2>1. on \in SUBSET Int /\ i + 1 \in on /\ \A j \in on : i + 1 =< j
    BY <1>2
  <2>2. Lowest(on) = i + 1 /\ on # {}
    <3> HIDE DEF on
    <3> QED
      BY <2>1, LowestIs
  <2> QED
    BY <1>2, <2>2 DEF SkipEmptyForward
<1> QED
  BY <1>1, <1>2

LEMMA SkipBackwardIs ==
    ASSUME NEW lasts, NEW n \in Nat, DOMAIN lasts = 1 .. n, NEW i \in 1 .. n + 1,
           \A j \in 1 .. n : lasts[j] # Off
    PROVE  SkipEmptyBackward(lasts, i, Off)
           = IF i = 1 THEN Off ELSE [at |-> i - 1, in |-> lasts[i - 1]]
<1> DEFINE back == {j \in DOMAIN lasts : j < i /\ lasts[j] # Off}
<1>1. CASE i = 1
  <2>1. back = {}
    BY <1>1
  <2> QED
    BY <1>1, <2>1 DEF SkipEmptyBackward
<1>2. CASE i # 1
  <2>1. back \in SUBSET Int /\ i - 1 \in back /\ \A j \in back : j =< i - 1
    BY <1>2
  <2>2. Highest(back) = i - 1 /\ back # {}
    <3> HIDE DEF back
    <3> QED
      BY <2>1, HighestIs
  <2> QED
    BY <1>2, <2>2 DEF SkipEmptyBackward
<1> QED
  BY <1>1, <1>2

-----------------------------------------------------------------------------
(* Tables.                                                                    *)

TablePlace(t, p) == p.at \in DOMAIN t.blocks /\ BlockPlace(t.blocks[p.at], p.in)

InBlock(t, i) == Elems(t.blocks[i].entries)
InTable(t)    == UNION {InBlock(t, i) : i \in DOMAIN t.blocks}

\* Blocks that are not empty, in order, and the keys of the index between them.
GoodTable(t) ==
    /\ Len(t.blocks) \in Nat /\ DOMAIN t.blocks = 1 .. Len(t.blocks)
    /\ \A i \in DOMAIN t.blocks : GoodBlock(t.blocks[i]) /\ t.blocks[i].entries # <<>>
    /\ \A i, j \in DOMAIN t.blocks : i < j =>
           \A a \in InBlock(t, i), b \in InBlock(t, j) : Before(a, b)
    /\ GoodBlock(t.index) /\ Len(t.index.entries) = Len(t.blocks)
    /\ \A i \in DOMAIN t.blocks : \A a \in InBlock(t, i) : ~ Before(t.index.entries[i], a)
    /\ \A i, j \in DOMAIN t.blocks : i < j =>
           \A b \in InBlock(t, j) : Before(t.index.entries[i], b)

TableAtFirst(t, S, p) ==
    IF S = {} THEN p = Off
    ELSE /\ TablePlace(t, p) /\ TableEntry(t, p) \in S
         /\ \A o \in S : ~ Before(o, TableEntry(t, p))

TableAtLast(t, S, p) ==
    IF S = {} THEN p = Off
    ELSE /\ TablePlace(t, p) /\ TableEntry(t, p) \in S
         /\ \A o \in S : ~ Before(TableEntry(t, p), o)

LEMMA InBlockIs ==
    ASSUME NEW t, GoodTable(t), NEW i \in DOMAIN t.blocks
    PROVE  /\ InBlock(t, i) # {} /\ InBlock(t, i) \subseteq InTable(t)
           /\ \A a \in InBlock(t, i) : a.key \in Int /\ a.seq \in Int
           /\ GoodBlock(t.blocks[i]) /\ t.blocks[i].entries # <<>>
<1>1. GoodBlock(t.blocks[i]) /\ t.blocks[i].entries # <<>>
  BY DEF GoodTable
<1>2. 1 \in DOMAIN t.blocks[i].entries
  BY <1>1, AscendingIs DEF GoodBlock
<1> QED
  BY <1>1, <1>2 DEF GoodBlock, Ascending, InBlock, InTable, Elems

LEMMA TablePlaceIs ==
    ASSUME NEW t, GoodTable(t), NEW p, TablePlace(t, p)
    PROVE  /\ p # Off /\ p.at \in DOMAIN t.blocks /\ p.at \in 1 .. Len(t.blocks) /\ p.in # Off
           /\ TableEntry(t, p) \in InBlock(t, p.at) /\ TableEntry(t, p) \in InTable(t)
           /\ TableEntry(t, p).key \in Int /\ TableEntry(t, p).seq \in Int
<1>1. p.at \in DOMAIN t.blocks /\ p.at \in 1 .. Len(t.blocks) /\ Len(t.blocks) \in Nat
      /\ BlockPlace(t.blocks[p.at], p.in)
  BY DEF GoodTable, TablePlace
<1>2. Off.at = 0
  BY DEF Off
<1>3. p # Off
  BY <1>1, <1>2
<1>4. TableEntry(t, p) \in InBlock(t, p.at) /\ p.in # Off
  BY <1>1, InBlockIs, OffIsNoPlace DEF TableEntry, InBlock
<1> QED
  BY <1>1, <1>3, <1>4, InBlockIs

\* The entries of U end upward, there are none of them before the i-th block, and
\* p is on the first of them there, if there is one.
LEMMA TableForwardIs ==
    ASSUME NEW t, GoodTable(t), NEW i \in 0 .. Len(t.blocks), NEW U, NEW p,
           \A j \in DOMAIN t.blocks : j < i => InBlock(t, j) \cap U = {},
           IF i = 0 THEN p = Off ELSE BlockAtFirst(t.blocks[i], InBlock(t, i) \cap U, p),
           i = 0 \/ InBlock(t, i) \cap U = {} =>
               \A j \in DOMAIN t.blocks : i < j => InBlock(t, j) \subseteq U
    PROVE  TableAtFirst(t, InTable(t) \cap U, TableForward(t, i, p))
<1> DEFINE n == Len(t.blocks)
           firsts == [j \in DOMAIN t.blocks |-> BlockFirst(t.blocks[j])]
           S == InTable(t) \cap U
           q == TableForward(t, i, p)
<1>1. n \in Nat /\ DOMAIN t.blocks = 1 .. n /\ DOMAIN firsts = 1 .. n
  BY DEF GoodTable
<1>2. \A j, k \in 1 .. n : j < k => \A a \in InBlock(t, j), b \in InBlock(t, k) : Before(a, b)
  BY <1>1 DEF GoodTable
<1>3. q = SkipEmptyForward(firsts, i, p)
  BY DEF TableForward
<1>4. \A o \in S : \E j \in 1 .. n : o \in InBlock(t, j) \cap U
  BY <1>1 DEF InTable
<1>5. CASE i # 0 /\ InBlock(t, i) \cap U # {}
  <2>1. /\ BlockPlace(t.blocks[i], p) /\ t.blocks[i].entries[p.at] \in InBlock(t, i) \cap U
        /\ \A o \in InBlock(t, i) \cap U : ~ Before(o, t.blocks[i].entries[p.at])
    BY <1>5 DEF BlockAtFirst
  <2>2. i \in 1 .. n /\ p # Off
    BY <1>1, <1>5, <2>1, InBlockIs, OffIsNoPlace
  <2>3. q = [at |-> i, in |-> p]
    BY <1>3, <2>2 DEF SkipEmptyForward
  <2>4. TablePlace(t, q) /\ TableEntry(t, q) = t.blocks[i].entries[p.at]
    BY <1>1, <2>1, <2>2, <2>3 DEF TablePlace, TableEntry
  <2>5. ASSUME NEW o \in S PROVE ~ Before(o, t.blocks[i].entries[p.at])
    <3>1. PICK j \in 1 .. n : o \in InBlock(t, j) \cap U
      BY <1>4
    <3>2. j = i \/ i < j
      BY <1>1, <2>2, <3>1
    <3>3. CASE j = i
      BY <2>1, <3>1, <3>3
    <3>4. CASE i < j
      <4>1. Before(t.blocks[i].entries[p.at], o)
        BY <1>2, <2>1, <2>2, <3>1, <3>4
      <4> QED
        BY <1>1, <2>1, <2>2, <3>1, <4>1, InBlockIs, BeforeOrder
    <3> QED
      BY <3>2, <3>3, <3>4
  <2>6. t.blocks[i].entries[p.at] \in S
    BY <1>1, <2>1, <2>2, InBlockIs
  <2> HIDE DEF S, q
  <2> QED
    BY <2>4, <2>5, <2>6 DEF TableAtFirst, S, q
<1>6. CASE i = 0 \/ InBlock(t, i) \cap U = {}
  <2>1. p = Off
    BY <1>6 DEF BlockAtFirst
  <2>2. \A j \in 1 .. n : BlockAtFirst(t.blocks[j], InBlock(t, j), firsts[j])
    BY <1>1, InBlockIs, BlockFirstIs DEF InBlock
  <2>3. \A j \in 1 .. n :
            /\ BlockPlace(t.blocks[j], firsts[j]) /\ firsts[j] # Off
            /\ t.blocks[j].entries[firsts[j].at] \in InBlock(t, j)
            /\ \A o \in InBlock(t, j) : ~ Before(o, t.blocks[j].entries[firsts[j].at])
    BY <1>1, <2>2, InBlockIs, OffIsNoPlace DEF BlockAtFirst
  <2>4. q = IF i = n THEN Off ELSE [at |-> i + 1, in |-> firsts[i + 1]]
    <3> HIDE DEF firsts
    <3> QED
      BY <1>1, <1>3, <2>1, <2>3, SkipForwardIs
  <2>5. \A j \in 1 .. n : InBlock(t, j) \cap U # {} => i < j
    BY <1>1, <1>6
  <2>6. CASE i = n
    <3>1. S = {}
      BY <1>1, <1>4, <2>5, <2>6
    <3> QED
      BY <2>4, <2>6, <3>1 DEF TableAtFirst
  <2>7. CASE i # n
    <3> DEFINE k == i + 1
    <3>1. k \in 1 .. n /\ InBlock(t, k) \subseteq U /\ q = [at |-> k, in |-> firsts[k]]
      BY <1>1, <1>6, <2>4, <2>7
    <3>2. TablePlace(t, q) /\ TableEntry(t, q) = t.blocks[k].entries[firsts[k].at]
      <4> HIDE DEF k, firsts
      <4> QED
        BY <1>1, <2>3, <3>1 DEF TablePlace, TableEntry
    <3>3. ASSUME NEW o \in S PROVE ~ Before(o, t.blocks[k].entries[firsts[k].at])
      <4>1. PICK j \in 1 .. n : o \in InBlock(t, j) \cap U
        BY <1>4
      <4>2. j = k \/ k < j
        BY <1>1, <2>5, <4>1
      <4> HIDE DEF k, firsts
      <4>3. CASE j = k
        BY <2>3, <3>1, <4>1, <4>3
      <4>4. CASE k < j
        <5>1. Before(t.blocks[k].entries[firsts[k].at], o)
          BY <1>2, <2>3, <3>1, <4>1, <4>4
        <5> QED
          BY <1>1, <2>3, <3>1, <4>1, <5>1, InBlockIs, BeforeOrder
      <4> QED
        BY <4>2, <4>3, <4>4
    <3>4. t.blocks[k].entries[firsts[k].at] \in S
      <4> HIDE DEF k, firsts
      <4> QED
        BY <1>1, <2>3, <3>1, InBlockIs
    <3> HIDE DEF S, q, k, firsts
    <3> QED
      BY <3>2, <3>3, <3>4 DEF TableAtFirst, S, q
  <2> QED
    BY <2>6, <2>7
<1> QED
  BY <1>5, <1>6

LEMMA TableBackwardIs ==
    ASSUME NEW t, GoodTable(t), NEW i \in 1 .. Len(t.blocks) + 1, NEW D, NEW p,
           \A j \in DOMAIN t.blocks : i < j => InBlock(t, j) \cap D = {},
           IF i = Len(t.blocks) + 1 THEN p = Off
           ELSE BlockAtLast(t.blocks[i], InBlock(t, i) \cap D, p),
           i = Len(t.blocks) + 1 \/ InBlock(t, i) \cap D = {} =>
               \A j \in DOMAIN t.blocks : j < i => InBlock(t, j) \subseteq D
    PROVE  TableAtLast(t, InTable(t) \cap D, TableBackward(t, i, p))
<1> DEFINE n == Len(t.blocks)
           lasts == [j \in DOMAIN t.blocks |-> BlockLast(t.blocks[j])]
           S == InTable(t) \cap D
           q == TableBackward(t, i, p)
<1>1. n \in Nat /\ DOMAIN t.blocks = 1 .. n /\ DOMAIN lasts = 1 .. n
  BY DEF GoodTable
<1>2. \A j, k \in 1 .. n : j < k => \A a \in InBlock(t, j), b \in InBlock(t, k) : Before(a, b)
  BY <1>1 DEF GoodTable
<1>3. q = SkipEmptyBackward(lasts, i, p)
  BY DEF TableBackward
<1>4. \A o \in S : \E j \in 1 .. n : o \in InBlock(t, j) \cap D
  BY <1>1 DEF InTable
<1>5. CASE i # n + 1 /\ InBlock(t, i) \cap D # {}
  <2>1. /\ BlockPlace(t.blocks[i], p) /\ t.blocks[i].entries[p.at] \in InBlock(t, i) \cap D
        /\ \A o \in InBlock(t, i) \cap D : ~ Before(t.blocks[i].entries[p.at], o)
    BY <1>5 DEF BlockAtLast
  <2>2. i \in 1 .. n /\ p # Off
    BY <1>1, <1>5, <2>1, InBlockIs, OffIsNoPlace
  <2>3. q = [at |-> i, in |-> p]
    BY <1>3, <2>2 DEF SkipEmptyBackward
  <2>4. TablePlace(t, q) /\ TableEntry(t, q) = t.blocks[i].entries[p.at]
    BY <1>1, <2>1, <2>2, <2>3 DEF TablePlace, TableEntry
  <2>5. ASSUME NEW o \in S PROVE ~ Before(t.blocks[i].entries[p.at], o)
    <3>1. PICK j \in 1 .. n : o \in InBlock(t, j) \cap D
      BY <1>4
    <3>2. j = i \/ j < i
      BY <1>1, <2>2, <3>1
    <3>3. CASE j = i
      BY <2>1, <3>1, <3>3
    <3>4. CASE j < i
      <4>1. Before(o, t.blocks[i].entries[p.at])
        BY <1>2, <2>1, <2>2, <3>1, <3>4
      <4> QED
        BY <1>1, <2>1, <2>2, <3>1, <4>1, InBlockIs, BeforeOrder
    <3> QED
      BY <3>2, <3>3, <3>4
  <2>6. t.blocks[i].entries[p.at] \in S
    BY <1>1, <2>1, <2>2, InBlockIs
  <2> HIDE DEF S, q
  <2> QED
    BY <2>4, <2>5, <2>6 DEF TableAtLast, S, q
<1>6. CASE i = n + 1 \/ InBlock(t, i) \cap D = {}
  <2>1. p = Off
    BY <1>6 DEF BlockAtLast
  <2>2. \A j \in 1 .. n : BlockAtLast(t.blocks[j], InBlock(t, j), lasts[j])
    BY <1>1, InBlockIs, BlockLastIs DEF InBlock
  <2>3. \A j \in 1 .. n :
            /\ BlockPlace(t.blocks[j], lasts[j]) /\ lasts[j] # Off
            /\ t.blocks[j].entries[lasts[j].at] \in InBlock(t, j)
            /\ \A o \in InBlock(t, j) : ~ Before(t.blocks[j].entries[lasts[j].at], o)
    BY <1>1, <2>2, InBlockIs, OffIsNoPlace DEF BlockAtLast
  <2>4. q = IF i = 1 THEN Off ELSE [at |-> i - 1, in |-> lasts[i - 1]]
    <3> HIDE DEF lasts
    <3> QED
      BY <1>1, <1>3, <2>1, <2>3, SkipBackwardIs
  <2>5. \A j \in 1 .. n : InBlock(t, j) \cap D # {} => j < i
    BY <1>1, <1>6
  <2>6. CASE i = 1
    <3>1. S = {}
      BY <1>1, <1>4, <2>5, <2>6
    <3> QED
      BY <2>4, <2>6, <3>1 DEF TableAtLast
  <2>7. CASE i # 1
    <3> DEFINE k == i - 1
    <3>1. k \in 1 .. n /\ InBlock(t, k) \subseteq D /\ q = [at |-> k, in |-> lasts[k]]
      BY <1>1, <1>6, <2>4, <2>7
    <3>2. TablePlace(t, q) /\ TableEntry(t, q) = t.blocks[k].entries[lasts[k].at]
      <4> HIDE DEF k, lasts
      <4> QED
        BY <1>1, <2>3, <3>1 DEF TablePlace, TableEntry
    <3>3. ASSUME NEW o \in S PROVE ~ Before(t.blocks[k].entries[lasts[k].at], o)
      <4>1. PICK j \in 1 .. n : o \in InBlock(t, j) \cap D
        BY <1>4
      <4>2. j = k \/ j < k
        BY <1>1, <2>5, <4>1
      <4> HIDE DEF k, lasts
      <4>3. CASE j = k
        BY <2>3, <3>1, <4>1, <4>3
      <4>4. CASE j < k
        <5>1. Before(o, t.blocks[k].entries[lasts[k].at])
          BY <1>2, <2>3, <3>1, <4>1, <4>4
        <5> QED
          BY <1>1, <2>3, <3>1, <4>1, <5>1, InBlockIs, BeforeOrder
      <4> QED
        BY <4>2, <4>3, <4>4
    <3>4. t.blocks[k].entries[lasts[k].at] \in S
      <4> HIDE DEF k, lasts
      <4> QED
        BY <1>1, <2>3, <3>1, InBlockIs
    <3> HIDE DEF S, q, k, lasts
    <3> QED
      BY <3>2, <3>3, <3>4 DEF TableAtLast, S, q
  <2> QED
    BY <2>6, <2>7
<1> QED
  BY <1>5, <1>6

LEMMA TableFirstIs ==
    ASSUME NEW t, GoodTable(t) PROVE TableAtFirst(t, InTable(t), TableFirst(t))
<1>1. 0 \in 0 .. Len(t.blocks) /\ \A j \in DOMAIN t.blocks : ~ (j < 0)
  BY DEF GoodTable
<1>2. \A j \in DOMAIN t.blocks : InBlock(t, j) \subseteq InTable(t)
  BY InBlockIs
<1>3. TableAtFirst(t, InTable(t) \cap InTable(t), TableForward(t, 0, Off))
  BY <1>1, <1>2, TableForwardIs
<1> QED
  BY <1>3 DEF TableFirst

LEMMA TableLastIs ==
    ASSUME NEW t, GoodTable(t) PROVE TableAtLast(t, InTable(t), TableLast(t))
<1>1. /\ Len(t.blocks) + 1 \in 1 .. Len(t.blocks) + 1
      /\ \A j \in DOMAIN t.blocks : ~ (Len(t.blocks) + 1 < j)
  BY DEF GoodTable
<1>2. \A j \in DOMAIN t.blocks : InBlock(t, j) \subseteq InTable(t)
  BY InBlockIs
<1>3. TableAtLast(t, InTable(t) \cap InTable(t), TableBackward(t, Len(t.blocks) + 1, Off))
  BY <1>1, <1>2, TableBackwardIs
<1> QED
  BY <1>3 DEF TableLast

LEMMA TableNextIs ==
    ASSUME NEW t, GoodTable(t), NEW p, TablePlace(t, p)
    PROVE  TableAtFirst(t, {o \in InTable(t) : Before(TableEntry(t, p), o)}, TableNext(t, p))
<1> DEFINE e == TableEntry(t, p)
           U == {o \in InTable(t) : Before(e, o)}
           b == t.blocks[p.at]
           i == p.at
<1>1. /\ i \in DOMAIN t.blocks /\ i \in 1 .. Len(t.blocks) /\ e \in InBlock(t, i)
      /\ e.key \in Int /\ e.seq \in Int /\ Len(t.blocks) \in Nat
      /\ DOMAIN t.blocks = 1 .. Len(t.blocks)
  BY TablePlaceIs DEF GoodTable
<1>2. BlockPlace(b, p.in) /\ GoodBlock(b) /\ e = b.entries[p.in.at]
  BY <1>1, InBlockIs DEF TablePlace, TableEntry
<1>3. \A j \in DOMAIN t.blocks : j < i => InBlock(t, j) \cap U = {}
  BY <1>1, InBlockIs, BeforeOrder DEF GoodTable
<1>4. \A j \in DOMAIN t.blocks : i < j => InBlock(t, j) \subseteq U
  BY <1>1, InBlockIs DEF GoodTable
<1>5. {o \in Elems(b.entries) : Before(b.entries[p.in.at], o)} = InBlock(t, i) \cap U
  BY <1>1, <1>2, InBlockIs DEF InBlock
<1>6. BlockAtFirst(b, InBlock(t, i) \cap U, BlockNext(b, p.in))
  BY <1>2, <1>5, BlockNextIs
<1>7. i \in 0 .. Len(t.blocks) /\ i # 0
  BY <1>1
<1>8. InTable(t) \cap U = U
  OBVIOUS
<1> HIDE DEF U, e
<1>9. TableAtFirst(t, InTable(t) \cap U, TableForward(t, i, BlockNext(b, p.in)))
  BY <1>3, <1>4, <1>6, <1>7, TableForwardIs
<1> QED
  BY <1>8, <1>9 DEF TableNext, U, e

LEMMA TablePrevIs ==
    ASSUME NEW t, GoodTable(t), NEW p, TablePlace(t, p)
    PROVE  TableAtLast(t, {o \in InTable(t) : Before(o, TableEntry(t, p))}, TablePrev(t, p))
<1> DEFINE e == TableEntry(t, p)
           D == {o \in InTable(t) : Before(o, e)}
           b == t.blocks[p.at]
           i == p.at
<1>1. /\ i \in DOMAIN t.blocks /\ i \in 1 .. Len(t.blocks) /\ e \in InBlock(t, i)
      /\ e.key \in Int /\ e.seq \in Int /\ Len(t.blocks) \in Nat
      /\ DOMAIN t.blocks = 1 .. Len(t.blocks)
  BY TablePlaceIs DEF GoodTable
<1>2. BlockPlace(b, p.in) /\ GoodBlock(b) /\ e = b.entries[p.in.at]
  BY <1>1, InBlockIs DEF TablePlace, TableEntry
<1>3. \A j \in DOMAIN t.blocks : i < j => InBlock(t, j) \cap D = {}
  BY <1>1, InBlockIs, BeforeOrder DEF GoodTable
<1>4. \A j \in DOMAIN t.blocks : j < i => InBlock(t, j) \subseteq D
  BY <1>1, InBlockIs DEF GoodTable
<1>5. {o \in Elems(b.entries) : Before(o, b.entries[p.in.at])} = InBlock(t, i) \cap D
  BY <1>1, <1>2, InBlockIs DEF InBlock
<1>6. BlockAtLast(b, InBlock(t, i) \cap D, BlockPrev(b, p.in))
  BY <1>2, <1>5, BlockPrevIs
<1>7. i \in 1 .. Len(t.blocks) + 1 /\ i # Len(t.blocks) + 1
  BY <1>1
<1>8. InTable(t) \cap D = D
  OBVIOUS
<1> HIDE DEF D, e
<1>9. TableAtLast(t, InTable(t) \cap D, TableBackward(t, i, BlockPrev(b, p.in)))
  BY <1>3, <1>4, <1>6, <1>7, TableBackwardIs
<1> QED
  BY <1>8, <1>9 DEF TablePrev, D, e

\* Where the index sends a seek: the blocks before have only entries before e, and
\* those after none.
LEMMA IndexIs ==
    ASSUME NEW t, GoodTable(t), NEW e, e.key \in Int, e.seq \in Int
    PROVE  LET i == BlockSeek(t.index, e).at IN
           IF i = 0 THEN \A a \in InTable(t) : Before(a, e)
           ELSE /\ i \in DOMAIN t.blocks
                /\ \A j \in DOMAIN t.blocks : j < i => \A a \in InBlock(t, j) : Before(a, e)
                /\ \A j \in DOMAIN t.blocks : i < j => \A a \in InBlock(t, j) : ~ Before(a, e)
<1> DEFINE x == t.index
           p == BlockSeek(x, e)
           S == {o \in Elems(x.entries) : ~ Before(o, e)}
<1>1. /\ GoodBlock(x) /\ Len(t.blocks) \in Nat /\ DOMAIN t.blocks = 1 .. Len(t.blocks)
      /\ Len(x.entries) = Len(t.blocks) /\ DOMAIN x.entries = 1 .. Len(t.blocks)
      /\ \A i \in DOMAIN t.blocks : \A a \in InBlock(t, i) : ~ Before(x.entries[i], a)
      /\ \A i, j \in DOMAIN t.blocks : i < j => \A b \in InBlock(t, j) : Before(x.entries[i], b)
  BY AscendingIs DEF GoodTable, GoodBlock
<1>2. /\ \A i \in DOMAIN t.blocks : x.entries[i].key \in Int /\ x.entries[i].seq \in Int
                                    /\ x.entries[i] \in Elems(x.entries)
      /\ \A i, j \in DOMAIN t.blocks : i < j => Before(x.entries[i], x.entries[j])
  BY <1>1, AscendingIs DEF GoodBlock
<1>3. BlockAtFirst(x, S, p)
  BY <1>1, BlockSeekIs
<1>4. ASSUME NEW i \in DOMAIN t.blocks, Before(x.entries[i], e), NEW a \in InBlock(t, i)
      PROVE  Before(a, e)
  BY <1>1, <1>2, <1>4, InBlockIs, BeforeOrder
<1>5. CASE S = {}
  <2>1. p.at = 0
    BY <1>3, <1>5 DEF BlockAtFirst, Off
  <2>2. \A i \in DOMAIN t.blocks : Before(x.entries[i], e)
    BY <1>2, <1>5
  <2> QED
    BY <1>4, <2>1, <2>2 DEF InTable
<1>6. CASE S # {}
  <2>1. BlockPlace(x, p) /\ x.entries[p.at] \in S /\ \A o \in S : ~ Before(o, x.entries[p.at])
    BY <1>3, <1>6 DEF BlockAtFirst
  <2> DEFINE i == p.at
  <2>2. i \in DOMAIN t.blocks /\ i # 0
    BY <1>1, <2>1 DEF BlockPlace
  <2> HIDE DEF i
  <2>3. ASSUME NEW j \in DOMAIN t.blocks, j < i, NEW a \in InBlock(t, j) PROVE Before(a, e)
    <3>1. Before(x.entries[j], e)
      BY <1>2, <2>1, <2>2, <2>3 DEF i
    <3> QED
      BY <1>4, <3>1
  <2>4. ASSUME NEW j \in DOMAIN t.blocks, i < j, NEW a \in InBlock(t, j) PROVE ~ Before(a, e)
    <3>1. ~ Before(x.entries[i], e) /\ Before(x.entries[i], a)
      BY <1>1, <2>1, <2>2, <2>4 DEF i
    <3> QED
      BY <1>2, <2>2, <3>1, InBlockIs, BeforeOrder
  <2> QED
    BY <2>2, <2>3, <2>4 DEF i
<1> QED
  BY <1>5, <1>6

LEMMA TableSeekIs ==
    ASSUME NEW t, GoodTable(t), NEW e, e.key \in Int, e.seq \in Int
    PROVE  TableAtFirst(t, {o \in InTable(t) : ~ Before(o, e)}, TableSeek(t, e))
<1> DEFINE U == {o \in InTable(t) : ~ Before(o, e)}
           i == BlockSeek(t.index, e).at
           b == t.blocks[i]
<1>1. Len(t.blocks) \in Nat /\ DOMAIN t.blocks = 1 .. Len(t.blocks)
  BY DEF GoodTable
<1>2. IF i = 0 THEN \A a \in InTable(t) : Before(a, e)
      ELSE /\ i \in DOMAIN t.blocks
           /\ \A j \in DOMAIN t.blocks : j < i => \A a \in InBlock(t, j) : Before(a, e)
           /\ \A j \in DOMAIN t.blocks : i < j => \A a \in InBlock(t, j) : ~ Before(a, e)
  BY IndexIs
<1>3. TableSeek(t, e) = IF i = 0 THEN Off ELSE TableForward(t, i, BlockSeek(b, e))
  BY DEF TableSeek
<1> HIDE DEF i
<1>4. CASE i = 0
  <2>1. U = {}
    BY <1>2, <1>4
  <2> QED
    BY <1>3, <1>4, <2>1 DEF TableAtFirst
<1>5. CASE i # 0
  <2>1. i \in DOMAIN t.blocks /\ i \in 0 .. Len(t.blocks) /\ GoodBlock(b)
    BY <1>1, <1>2, <1>5, InBlockIs
  <2>2. \A j \in DOMAIN t.blocks : j < i => InBlock(t, j) \cap U = {}
    BY <1>2, <1>5
  <2>3. \A j \in DOMAIN t.blocks : i < j => InBlock(t, j) \subseteq U
    BY <1>2, <1>5, InBlockIs
  <2>4. {o \in Elems(b.entries) : ~ Before(o, e)} = InBlock(t, i) \cap U
    BY <2>1, InBlockIs DEF InBlock
  <2>5. BlockAtFirst(b, InBlock(t, i) \cap U, BlockSeek(b, e))
    BY <2>1, <2>4, BlockSeekIs
  <2>6. InTable(t) \cap U = U
    OBVIOUS
  <2> HIDE DEF U
  <2>7. TableAtFirst(t, InTable(t) \cap U, TableForward(t, i, BlockSeek(b, e)))
    BY <1>5, <2>1, <2>2, <2>3, <2>5, TableForwardIs
  <2> QED
    BY <1>3, <1>5, <2>6, <2>7 DEF U
<1> QED
  BY <1>4, <1>5

-----------------------------------------------------------------------------
(* Levels.                                                                    *)

LevelPlace(l, p) == p.at \in DOMAIN l /\ TablePlace(l[p.at], p.in)

InLevel(l) == UNION {InTable(l[i]) : i \in DOMAIN l}

\* Files that are not empty, in order.
GoodLevel(l) ==
    /\ Len(l) \in Nat /\ DOMAIN l = 1 .. Len(l)
    /\ \A i \in DOMAIN l : GoodTable(l[i]) /\ InTable(l[i]) # {}
    /\ \A i, j \in DOMAIN l : i < j => \A a \in InTable(l[i]), b \in InTable(l[j]) : Before(a, b)

LevelAtFirst(l, S, p) ==
    IF S = {} THEN p = Off
    ELSE /\ LevelPlace(l, p) /\ LevelEntry(l, p) \in S
         /\ \A o \in S : ~ Before(o, LevelEntry(l, p))

LevelAtLast(l, S, p) ==
    IF S = {} THEN p = Off
    ELSE /\ LevelPlace(l, p) /\ LevelEntry(l, p) \in S
         /\ \A o \in S : ~ Before(LevelEntry(l, p), o)

LEMMA InFileIs ==
    ASSUME NEW l, GoodLevel(l), NEW i \in DOMAIN l
    PROVE  /\ InTable(l[i]) # {} /\ InTable(l[i]) \subseteq InLevel(l) /\ GoodTable(l[i])
           /\ \A a \in InTable(l[i]) : a.key \in Int /\ a.seq \in Int
<1>1. GoodTable(l[i]) /\ InTable(l[i]) # {}
  BY DEF GoodLevel
<1>2. \A a \in InTable(l[i]) : \E j \in DOMAIN l[i].blocks : a \in InBlock(l[i], j)
  BY DEF InTable
<1>3. \A a \in InTable(l[i]) : a.key \in Int /\ a.seq \in Int
  BY <1>1, <1>2, InBlockIs
<1> QED
  BY <1>1, <1>3 DEF InLevel

LEMMA OneOn ==
    ASSUME NEW n \in Nat, NEW i \in 0 .. n, i # n PROVE i + 1 \in 1 .. n /\ i < i + 1
OBVIOUS

LEMMA LevelPlaceIs ==
    ASSUME NEW l, GoodLevel(l), NEW p, LevelPlace(l, p)
    PROVE  /\ p # Off /\ p.at \in DOMAIN l /\ p.at \in 1 .. Len(l)
           /\ LevelEntry(l, p) \in InTable(l[p.at]) /\ LevelEntry(l, p) \in InLevel(l)
           /\ LevelEntry(l, p).key \in Int /\ LevelEntry(l, p).seq \in Int
<1>1. p.at \in DOMAIN l /\ p.at \in 1 .. Len(l) /\ Len(l) \in Nat /\ TablePlace(l[p.at], p.in)
  BY DEF GoodLevel, LevelPlace
<1>2. Off.at = 0
  BY DEF Off
<1>3. p # Off
  BY <1>1, <1>2
<1>4. LevelEntry(l, p) \in InTable(l[p.at])
  BY <1>1, InFileIs, TablePlaceIs DEF LevelEntry
<1> QED
  BY <1>1, <1>3, <1>4, InFileIs

\* The entries of U end upward, there are none of them before the i-th file, and
\* p is on the first of them there, if there is one.
LEMMA LevelForwardIs ==
    ASSUME NEW l, GoodLevel(l), NEW i \in 0 .. Len(l), NEW U, NEW p,
           \A j \in DOMAIN l : j < i => InTable(l[j]) \cap U = {},
           IF i = 0 THEN p = Off ELSE TableAtFirst(l[i], InTable(l[i]) \cap U, p),
           i = 0 \/ InTable(l[i]) \cap U = {} =>
               \A j \in DOMAIN l : i < j => InTable(l[j]) \subseteq U
    PROVE  LevelAtFirst(l, InLevel(l) \cap U, LevelForward(l, i, p))
<1> DEFINE n == Len(l)
           firsts == [j \in DOMAIN l |-> TableFirst(l[j])]
           S == InLevel(l) \cap U
           q == LevelForward(l, i, p)
<1>1. n \in Nat /\ DOMAIN l = 1 .. n /\ DOMAIN firsts = 1 .. n
  BY DEF GoodLevel
<1>2. \A j, k \in 1 .. n : j < k => \A a \in InTable(l[j]), b \in InTable(l[k]) : Before(a, b)
  BY <1>1 DEF GoodLevel
<1>3. q = SkipEmptyForward(firsts, i, p)
  BY DEF LevelForward
<1>4. \A o \in S : \E j \in 1 .. n : o \in InTable(l[j]) \cap U
  BY <1>1 DEF InLevel
<1>5. CASE i # 0 /\ InTable(l[i]) \cap U # {}
  <2>1. /\ TablePlace(l[i], p) /\ TableEntry(l[i], p) \in InTable(l[i]) \cap U
        /\ \A o \in InTable(l[i]) \cap U : ~ Before(o, TableEntry(l[i], p))
    BY <1>5 DEF TableAtFirst
  <2>2. i \in 1 .. n /\ p # Off
    BY <1>1, <1>5, <2>1, InFileIs, TablePlaceIs
  <2>3. q = [at |-> i, in |-> p]
    BY <1>3, <2>2 DEF SkipEmptyForward
  <2>4. LevelPlace(l, q) /\ LevelEntry(l, q) = TableEntry(l[i], p)
    BY <1>1, <2>1, <2>2, <2>3 DEF LevelPlace, LevelEntry
  <2>5. ASSUME NEW o \in S PROVE ~ Before(o, TableEntry(l[i], p))
    <3>1. PICK j \in 1 .. n : o \in InTable(l[j]) \cap U
      BY <1>4
    <3>2. j = i \/ i < j
      BY <1>1, <2>2, <3>1
    <3>3. CASE j = i
      BY <2>1, <3>1, <3>3
    <3>4. CASE i < j
      <4>1. Before(TableEntry(l[i], p), o)
        BY <1>2, <2>1, <2>2, <3>1, <3>4
      <4> QED
        BY <1>1, <2>1, <2>2, <3>1, <4>1, InFileIs, BeforeOrder
    <3> QED
      BY <3>2, <3>3, <3>4
  <2>6. TableEntry(l[i], p) \in S
    BY <1>1, <2>1, <2>2, InFileIs
  <2> HIDE DEF S, q
  <2> QED
    BY <2>4, <2>5, <2>6 DEF LevelAtFirst, S, q
<1>6. CASE i = 0 \/ InTable(l[i]) \cap U = {}
  <2>1. p = Off
    BY <1>6 DEF TableAtFirst
  <2>2. \A j \in 1 .. n : TableAtFirst(l[j], InTable(l[j]), firsts[j])
    BY <1>1, InFileIs, TableFirstIs DEF InTable
  <2>3. \A j \in 1 .. n :
            /\ TablePlace(l[j], firsts[j]) /\ firsts[j] # Off
            /\ TableEntry(l[j], firsts[j]) \in InTable(l[j])
            /\ \A o \in InTable(l[j]) : ~ Before(o, TableEntry(l[j], firsts[j]))
    BY <1>1, <2>2, InFileIs, TablePlaceIs DEF TableAtFirst
  <2>4. q = IF i = n THEN Off ELSE [at |-> i + 1, in |-> firsts[i + 1]]
    <3> HIDE DEF firsts
    <3> QED
      BY <1>1, <1>3, <2>1, <2>3, SkipForwardIs
  <2>5. \A j \in 1 .. n : InTable(l[j]) \cap U # {} => i < j
    BY <1>1, <1>6
  <2>6. CASE i = n
    <3>1. S = {}
      BY <1>1, <1>4, <2>5, <2>6
    <3> QED
      BY <2>4, <2>6, <3>1 DEF LevelAtFirst
  <2>7. CASE i # n
    <3> DEFINE k == i + 1
    <3>1. k \in 1 .. n /\ InTable(l[k]) \subseteq U /\ q = [at |-> k, in |-> firsts[k]]
      <4>1. k \in 1 .. n /\ i < k
        BY <1>1, <2>7, OneOn
      <4> HIDE DEF firsts, q
      <4>2. q = [at |-> k, in |-> firsts[k]]
        BY <2>4, <2>7
      <4> HIDE DEF k
      <4>3. InTable(l[k]) \subseteq U
        BY <1>1, <1>6, <4>1
      <4> QED
        BY <4>1, <4>2, <4>3
    <3>2. LevelPlace(l, q) /\ LevelEntry(l, q) = TableEntry(l[k], firsts[k])
      <4> HIDE DEF k, firsts
      <4> QED
        BY <1>1, <2>3, <3>1 DEF LevelPlace, LevelEntry
    <3>3. ASSUME NEW o \in S PROVE ~ Before(o, TableEntry(l[k], firsts[k]))
      <4>1. PICK j \in 1 .. n : o \in InTable(l[j]) \cap U
        BY <1>4
      <4>2. j = k \/ k < j
        BY <1>1, <2>5, <4>1
      <4> HIDE DEF k, firsts
      <4>3. CASE j = k
        BY <2>3, <3>1, <4>1, <4>3
      <4>4. CASE k < j
        <5>1. Before(TableEntry(l[k], firsts[k]), o)
          BY <1>2, <2>3, <3>1, <4>1, <4>4
        <5> QED
          BY <1>1, <2>3, <3>1, <4>1, <5>1, InFileIs, BeforeOrder
      <4> QED
        BY <4>2, <4>3, <4>4
    <3>4. TableEntry(l[k], firsts[k]) \in S
      <4> HIDE DEF k, firsts
      <4> QED
        BY <1>1, <2>3, <3>1, InFileIs
    <3> HIDE DEF S, q, k, firsts
    <3> QED
      BY <3>2, <3>3, <3>4 DEF LevelAtFirst, S, q
  <2> QED
    BY <2>6, <2>7
<1> QED
  BY <1>5, <1>6

LEMMA LevelBackwardIs ==
    ASSUME NEW l, GoodLevel(l), NEW i \in 1 .. Len(l) + 1, NEW D, NEW p,
           \A j \in DOMAIN l : i < j => InTable(l[j]) \cap D = {},
           IF i = Len(l) + 1 THEN p = Off
           ELSE TableAtLast(l[i], InTable(l[i]) \cap D, p),
           i = Len(l) + 1 \/ InTable(l[i]) \cap D = {} =>
               \A j \in DOMAIN l : j < i => InTable(l[j]) \subseteq D
    PROVE  LevelAtLast(l, InLevel(l) \cap D, LevelBackward(l, i, p))
<1> DEFINE n == Len(l)
           lasts == [j \in DOMAIN l |-> TableLast(l[j])]
           S == InLevel(l) \cap D
           q == LevelBackward(l, i, p)
<1>1. n \in Nat /\ DOMAIN l = 1 .. n /\ DOMAIN lasts = 1 .. n
  BY DEF GoodLevel
<1>2. \A j, k \in 1 .. n : j < k => \A a \in InTable(l[j]), b \in InTable(l[k]) : Before(a, b)
  BY <1>1 DEF GoodLevel
<1>3. q = SkipEmptyBackward(lasts, i, p)
  BY DEF LevelBackward
<1>4. \A o \in S : \E j \in 1 .. n : o \in InTable(l[j]) \cap D
  BY <1>1 DEF InLevel
<1>5. CASE i # n + 1 /\ InTable(l[i]) \cap D # {}
  <2>1. /\ TablePlace(l[i], p) /\ TableEntry(l[i], p) \in InTable(l[i]) \cap D
        /\ \A o \in InTable(l[i]) \cap D : ~ Before(TableEntry(l[i], p), o)
    BY <1>5 DEF TableAtLast
  <2>2. i \in 1 .. n /\ p # Off
    BY <1>1, <1>5, <2>1, InFileIs, TablePlaceIs
  <2>3. q = [at |-> i, in |-> p]
    BY <1>3, <2>2 DEF SkipEmptyBackward
  <2>4. LevelPlace(l, q) /\ LevelEntry(l, q) = TableEntry(l[i], p)
    BY <1>1, <2>1, <2>2, <2>3 DEF LevelPlace, LevelEntry
  <2>5. ASSUME NEW o \in S PROVE ~ Before(TableEntry(l[i], p), o)
    <3>1. PICK j \in 1 .. n : o \in InTable(l[j]) \cap D
      BY <1>4
    <3>2. j = i \/ j < i
      BY <1>1, <2>2, <3>1
    <3>3. CASE j = i
      BY <2>1, <3>1, <3>3
    <3>4. CASE j < i
      <4>1. Before(o, TableEntry(l[i], p))
        BY <1>2, <2>1, <2>2, <3>1, <3>4
      <4> QED
        BY <1>1, <2>1, <2>2, <3>1, <4>1, InFileIs, BeforeOrder
    <3> QED
      BY <3>2, <3>3, <3>4
  <2>6. TableEntry(l[i], p) \in S
    BY <1>1, <2>1, <2>2, InFileIs
  <2> HIDE DEF S, q
  <2> QED
    BY <2>4, <2>5, <2>6 DEF LevelAtLast, S, q
<1>6. CASE i = n + 1 \/ InTable(l[i]) \cap D = {}
  <2>1. p = Off
    BY <1>6 DEF TableAtLast
  <2>2. \A j \in 1 .. n : TableAtLast(l[j], InTable(l[j]), lasts[j])
    BY <1>1, InFileIs, TableLastIs DEF InTable
  <2>3. \A j \in 1 .. n :
            /\ TablePlace(l[j], lasts[j]) /\ lasts[j] # Off
            /\ TableEntry(l[j], lasts[j]) \in InTable(l[j])
            /\ \A o \in InTable(l[j]) : ~ Before(TableEntry(l[j], lasts[j]), o)
    BY <1>1, <2>2, InFileIs, TablePlaceIs DEF TableAtLast
  <2>4. q = IF i = 1 THEN Off ELSE [at |-> i - 1, in |-> lasts[i - 1]]
    <3> HIDE DEF lasts
    <3> QED
      BY <1>1, <1>3, <2>1, <2>3, SkipBackwardIs
  <2>5. \A j \in 1 .. n : InTable(l[j]) \cap D # {} => j < i
    BY <1>1, <1>6
  <2>6. CASE i = 1
    <3>1. S = {}
      BY <1>1, <1>4, <2>5, <2>6
    <3> QED
      BY <2>4, <2>6, <3>1 DEF LevelAtLast
  <2>7. CASE i # 1
    <3> DEFINE k == i - 1
    <3>1. k \in 1 .. n /\ InTable(l[k]) \subseteq D /\ q = [at |-> k, in |-> lasts[k]]
      <4>1. k \in 1 .. n /\ k < i
        BY <1>1, <2>7
      <4> HIDE DEF lasts, q
      <4>2. q = [at |-> k, in |-> lasts[k]]
        BY <2>4, <2>7
      <4> HIDE DEF k
      <4>3. InTable(l[k]) \subseteq D
        BY <1>1, <1>6, <4>1
      <4> QED
        BY <4>1, <4>2, <4>3
    <3>2. LevelPlace(l, q) /\ LevelEntry(l, q) = TableEntry(l[k], lasts[k])
      <4> HIDE DEF k, lasts
      <4> QED
        BY <1>1, <2>3, <3>1 DEF LevelPlace, LevelEntry
    <3>3. ASSUME NEW o \in S PROVE ~ Before(TableEntry(l[k], lasts[k]), o)
      <4>1. PICK j \in 1 .. n : o \in InTable(l[j]) \cap D
        BY <1>4
      <4>2. j = k \/ j < k
        BY <1>1, <2>5, <4>1
      <4> HIDE DEF k, lasts
      <4>3. CASE j = k
        BY <2>3, <3>1, <4>1, <4>3
      <4>4. CASE j < k
        <5>1. Before(o, TableEntry(l[k], lasts[k]))
          BY <1>2, <2>3, <3>1, <4>1, <4>4
        <5> QED
          BY <1>1, <2>3, <3>1, <4>1, <5>1, InFileIs, BeforeOrder
      <4> QED
        BY <4>2, <4>3, <4>4
    <3>4. TableEntry(l[k], lasts[k]) \in S
      <4> HIDE DEF k, lasts
      <4> QED
        BY <1>1, <2>3, <3>1, InFileIs
    <3> HIDE DEF S, q, k, lasts
    <3> QED
      BY <3>2, <3>3, <3>4 DEF LevelAtLast, S, q
  <2> QED
    BY <2>6, <2>7
<1> QED
  BY <1>5, <1>6

LEMMA LevelFirstIs ==
    ASSUME NEW l, GoodLevel(l) PROVE LevelAtFirst(l, InLevel(l), LevelFirst(l))
<1>1. 0 \in 0 .. Len(l) /\ \A j \in DOMAIN l : ~ (j < 0)
  BY DEF GoodLevel
<1>2. \A j \in DOMAIN l : InTable(l[j]) \subseteq InLevel(l)
  BY InFileIs
<1>3. LevelAtFirst(l, InLevel(l) \cap InLevel(l), LevelForward(l, 0, Off))
  BY <1>1, <1>2, LevelForwardIs
<1> QED
  BY <1>3 DEF LevelFirst

LEMMA LevelLastIs ==
    ASSUME NEW l, GoodLevel(l) PROVE LevelAtLast(l, InLevel(l), LevelLast(l))
<1>1. /\ Len(l) + 1 \in 1 .. Len(l) + 1
      /\ \A j \in DOMAIN l : ~ (Len(l) + 1 < j)
  BY DEF GoodLevel
<1>2. \A j \in DOMAIN l : InTable(l[j]) \subseteq InLevel(l)
  BY InFileIs
<1>3. LevelAtLast(l, InLevel(l) \cap InLevel(l), LevelBackward(l, Len(l) + 1, Off))
  BY <1>1, <1>2, LevelBackwardIs
<1> QED
  BY <1>3 DEF LevelLast

LEMMA LevelNextIs ==
    ASSUME NEW l, GoodLevel(l), NEW p, LevelPlace(l, p)
    PROVE  LevelAtFirst(l, {o \in InLevel(l) : Before(LevelEntry(l, p), o)}, LevelNext(l, p))
<1> DEFINE e == LevelEntry(l, p)
           U == {o \in InLevel(l) : Before(e, o)}
           b == l[p.at]
           i == p.at
<1>1. /\ i \in DOMAIN l /\ i \in 1 .. Len(l) /\ e \in InTable(l[i])
      /\ e.key \in Int /\ e.seq \in Int /\ Len(l) \in Nat
      /\ DOMAIN l = 1 .. Len(l)
  BY LevelPlaceIs DEF GoodLevel
<1>2. TablePlace(b, p.in) /\ GoodTable(b) /\ e = TableEntry(b, p.in)
  BY <1>1, InFileIs DEF LevelPlace, LevelEntry
<1>3. \A j \in DOMAIN l : j < i => InTable(l[j]) \cap U = {}
  BY <1>1, InFileIs, BeforeOrder DEF GoodLevel
<1>4. \A j \in DOMAIN l : i < j => InTable(l[j]) \subseteq U
  BY <1>1, InFileIs DEF GoodLevel
<1>5. {o \in InTable(b) : Before(TableEntry(b, p.in), o)} = InTable(l[i]) \cap U
  BY <1>1, <1>2, InFileIs DEF InTable
<1>6. TableAtFirst(b, InTable(l[i]) \cap U, TableNext(b, p.in))
  BY <1>2, <1>5, TableNextIs
<1>7. i \in 0 .. Len(l) /\ i # 0
  BY <1>1
<1>8. InLevel(l) \cap U = U
  OBVIOUS
<1> HIDE DEF U, e
<1>9. LevelAtFirst(l, InLevel(l) \cap U, LevelForward(l, i, TableNext(b, p.in)))
  BY <1>3, <1>4, <1>6, <1>7, LevelForwardIs
<1> QED
  BY <1>8, <1>9 DEF LevelNext, U, e

LEMMA LevelPrevIs ==
    ASSUME NEW l, GoodLevel(l), NEW p, LevelPlace(l, p)
    PROVE  LevelAtLast(l, {o \in InLevel(l) : Before(o, LevelEntry(l, p))}, LevelPrev(l, p))
<1> DEFINE e == LevelEntry(l, p)
           D == {o \in InLevel(l) : Before(o, e)}
           b == l[p.at]
           i == p.at
<1>1. /\ i \in DOMAIN l /\ i \in 1 .. Len(l) /\ e \in InTable(l[i])
      /\ e.key \in Int /\ e.seq \in Int /\ Len(l) \in Nat
      /\ DOMAIN l = 1 .. Len(l)
  BY LevelPlaceIs DEF GoodLevel
<1>2. TablePlace(b, p.in) /\ GoodTable(b) /\ e = TableEntry(b, p.in)
  BY <1>1, InFileIs DEF LevelPlace, LevelEntry
<1>3. \A j \in DOMAIN l : i < j => InTable(l[j]) \cap D = {}
  BY <1>1, InFileIs, BeforeOrder DEF GoodLevel
<1>4. \A j \in DOMAIN l : j < i => InTable(l[j]) \subseteq D
  BY <1>1, InFileIs DEF GoodLevel
<1>5. {o \in InTable(b) : Before(o, TableEntry(b, p.in))} = InTable(l[i]) \cap D
  BY <1>1, <1>2, InFileIs DEF InTable
<1>6. TableAtLast(b, InTable(l[i]) \cap D, TablePrev(b, p.in))
  BY <1>2, <1>5, TablePrevIs
<1>7. i \in 1 .. Len(l) + 1 /\ i # Len(l) + 1
  BY <1>1
<1>8. InLevel(l) \cap D = D
  OBVIOUS
<1> HIDE DEF D, e
<1>9. LevelAtLast(l, InLevel(l) \cap D, LevelBackward(l, i, TablePrev(b, p.in)))
  BY <1>3, <1>4, <1>6, <1>7, LevelBackwardIs
<1> QED
  BY <1>8, <1>9 DEF LevelPrev, D, e

LEMMA LargestIs ==
    ASSUME NEW t, GoodTable(t), InTable(t) # {}
    PROVE  Largest(t) \in InTable(t) /\ \A a \in InTable(t) : ~ Before(Largest(t), a)
<1> DEFINE n == Len(t.blocks)  s == t.blocks[n].entries  m == Len(s)
<1>1. n \in Nat /\ DOMAIN t.blocks = 1 .. n
  BY DEF GoodTable
<1>2. n \in DOMAIN t.blocks
  BY <1>1 DEF InTable
<1>3. GoodBlock(t.blocks[n]) /\ s # <<>> /\ InBlock(t, n) = Elems(s)
  BY <1>2, InBlockIs DEF InBlock
<1>4. /\ m \in Nat /\ DOMAIN s = 1 .. m /\ m # 0
      /\ \A i, j \in 1 .. m : Before(s[i], s[j]) <=> i < j
  BY <1>3, AscendingIs DEF GoodBlock
<1>5. Largest(t) = s[m]
  BY DEF Largest, Final
<1>6. s[m] \in InBlock(t, n)
  BY <1>3, <1>4 DEF Elems
<1> HIDE DEF s
<1>7. ASSUME NEW a \in InTable(t) PROVE ~ Before(s[m], a)
  <2>1. PICK j \in 1 .. n : a \in InBlock(t, j)
    BY <1>1 DEF InTable
  <2>2. CASE j = n
    BY <1>3, <1>4, <2>1, <2>2 DEF Elems
  <2>3. CASE j < n
    <3>1. Before(a, s[m])
      BY <1>1, <1>2, <1>6, <2>1, <2>3 DEF GoodTable
    <3> QED
      BY <1>1, <1>2, <1>6, <2>1, <3>1, InBlockIs, BeforeOrder
  <2> QED
    BY <1>1, <2>1, <2>2, <2>3
<1> QED
  BY <1>2, <1>5, <1>6, <1>7, InBlockIs

LEMMA FindFileIs ==
    ASSUME NEW l, GoodLevel(l), NEW e, e.key \in Int, e.seq \in Int
    PROVE  LET i == FindFile(l, e) IN
           IF i > Len(l) THEN \A a \in InLevel(l) : Before(a, e)
           ELSE /\ i \in DOMAIN l /\ ~ Before(Largest(l[i]), e)
                /\ \A j \in DOMAIN l : j < i => \A a \in InTable(l[j]) : Before(a, e)
<1> DEFINE from == {i \in DOMAIN l : ~ Before(Largest(l[i]), e)}
           i == FindFile(l, e)
<1>1. Len(l) \in Nat /\ DOMAIN l = 1 .. Len(l)
  BY DEF GoodLevel
<1>2. i = IF from = {} THEN Len(l) + 1 ELSE Lowest(from)
  BY DEF FindFile
<1>3. ASSUME NEW j \in DOMAIN l, j \notin from, NEW a \in InTable(l[j]) PROVE Before(a, e)
  <2>1. Before(Largest(l[j]), e) /\ GoodTable(l[j]) /\ InTable(l[j]) # {}
    BY <1>3, InFileIs
  <2>2. Largest(l[j]) \in InTable(l[j]) /\ ~ Before(Largest(l[j]), a)
    BY <2>1, LargestIs
  <2> QED
    BY <2>1, <2>2, InFileIs, BeforeOrder
<1>4. CASE from = {}
  <2>1. \A a \in InLevel(l) : Before(a, e)
    BY <1>3, <1>4 DEF InLevel
  <2>2. i > Len(l)
    BY <1>1, <1>2, <1>4
  <2> QED
    BY <2>1, <2>2
<1>5. CASE from # {}
  <2>1. from \in SUBSET (1 .. Len(l)) /\ 1 \in Int /\ Len(l) \in Int
    BY <1>1
  <2> HIDE DEF from, i
  <2>2. i \in from /\ \A j \in from : i =< j
    BY <1>2, <1>5, <2>1, LowestExists
  <2>3. i \in 1 .. Len(l) /\ ~ (i > Len(l))
    BY <1>1, <2>1, <2>2
  <2>4. \A j \in DOMAIN l : j < i => j \notin from
    BY <1>1, <2>2, <2>3
  <2> QED
    BY <1>1, <1>3, <2>2, <2>3, <2>4 DEF from, i
<1> QED
  BY <1>4, <1>5

LEMMA LevelSeekIs ==
    ASSUME NEW l, GoodLevel(l), NEW e, e.key \in Int, e.seq \in Int
    PROVE  LevelAtFirst(l, {o \in InLevel(l) : ~ Before(o, e)}, LevelSeek(l, e))
<1> DEFINE U == {o \in InLevel(l) : ~ Before(o, e)}
           i == FindFile(l, e)
           t == l[i]
<1>1. Len(l) \in Nat /\ DOMAIN l = 1 .. Len(l)
  BY DEF GoodLevel
<1>2. IF i > Len(l) THEN \A a \in InLevel(l) : Before(a, e)
      ELSE /\ i \in DOMAIN l /\ ~ Before(Largest(l[i]), e)
           /\ \A j \in DOMAIN l : j < i => \A a \in InTable(l[j]) : Before(a, e)
  BY FindFileIs
<1>3. LevelSeek(l, e) = IF i > Len(l) THEN Off ELSE LevelForward(l, i, TableSeek(t, e))
  BY DEF LevelSeek
<1> HIDE DEF i
<1>4. CASE i > Len(l)
  <2>1. U = {}
    BY <1>2, <1>4
  <2> QED
    BY <1>3, <1>4, <2>1 DEF LevelAtFirst
<1>5. CASE ~ (i > Len(l))
  <2>1. i \in DOMAIN l /\ i \in 0 .. Len(l) /\ i # 0 /\ GoodTable(t) /\ InTable(t) # {}
    BY <1>1, <1>2, <1>5, InFileIs
  <2>2. \A j \in DOMAIN l : j < i => InTable(l[j]) \cap U = {}
    BY <1>2, <1>5
  <2>3. {o \in InTable(t) : ~ Before(o, e)} = InTable(t) \cap U
    BY <2>1, InFileIs
  <2>4. TableAtFirst(t, InTable(t) \cap U, TableSeek(t, e))
    BY <2>1, <2>3, TableSeekIs
  <2>5. InTable(t) \cap U # {}
    <3>1. Largest(t) \in {o \in InTable(t) : ~ Before(o, e)}
      BY <1>2, <1>5, <2>1, LargestIs
    <3> QED
      BY <2>3, <3>1
  <2>6. InLevel(l) \cap U = U
    OBVIOUS
  <2> HIDE DEF U
  <2>7. LevelAtFirst(l, InLevel(l) \cap U, LevelForward(l, i, TableSeek(t, e)))
    BY <2>1, <2>2, <2>4, <2>5, LevelForwardIs
  <2> QED
    BY <1>3, <1>5, <2>6, <2>7 DEF U
<1> QED
  BY <1>4, <1>5

-----------------------------------------------------------------------------
(* Where a child stands.                                                       *)

\* The files of a child hold its entries.
Laid(c) ==
    IF c =< Level0Files THEN GoodTable(files[c][1]) /\ InTable(files[c][1]) = content[c]
    ELSE GoodLevel(files[c]) /\ InLevel(files[c]) = content[c]

\* On an entry of its own.
Located(c, p) ==
    /\ p.entry \in content[c]
    /\ IF c = MemTable THEN p = InMemTable(p.entry)
       ELSE /\ p = InFiles(c, p.place)
            /\ IF c =< Level0Files THEN TablePlace(files[c][1], p.place)
               ELSE LevelPlace(files[c], p.place)

AtFirst(c, S, p) ==
    IF S = {} THEN p = End
    ELSE Located(c, p) /\ p.entry \in S /\ \A o \in S : ~ Before(o, p.entry)

AtLast(c, S, p) ==
    IF S = {} THEN p = End
    ELSE Located(c, p) /\ p.entry \in S /\ \A o \in S : ~ Before(p.entry, o)

\* The entries are numbered, and the tables hold what their children do.
Stored ==
    /\ sequence \in 0 .. MaxSeq /\ lastSequence \in 0 .. MaxSeq /\ sequence =< lastSequence
    /\ content \in [Children -> SUBSET Entries]
    /\ \A c, d \in Children : \A a \in content[c], b \in content[d] :
           a.seq = b.seq => a = b /\ c = d
    /\ \A c \in Children : \A e \in content[c] : e.seq =< lastSequence
    /\ \A c \in 1 .. Tables : Laid(c)

LEMMA MemTableIsChild == MemTable \in Children
BY ChildrenAssumption DEF MemTable, Children, Tables

LEMMA TablesIs ==
    ASSUME NEW c \in Children, c # MemTable PROVE c \in 1 .. Tables
BY ChildrenAssumption DEF MemTable, Children, Tables

LEMMA NoneInMemTable == InMemTable(NoEntry) = End /\ First({}) = NoEntry /\ Last({}) = NoEntry
BY DEF InMemTable, End, First, Last

LEMMA InMemTableFirst ==
    ASSUME Stored, NEW S, S \subseteq content[MemTable]
    PROVE  AtFirst(MemTable, S, InMemTable(First(S)))
<1>1. Numbered(content[MemTable])
  BY MemTableIsChild DEF Stored, Numbered
<1>2. Numbered(S)
  BY <1>1 DEF Numbered
<1>3. CASE S = {}
  BY <1>3, NoneInMemTable DEF AtFirst
<1>4. CASE S # {}
  <2>1. First(S) \in S /\ \A o \in S : ~ Before(o, First(S))
    BY <1>2, <1>4, FirstIs
  <2>2. InMemTable(First(S)).entry = First(S)
    BY DEF InMemTable
  <2> QED
    BY <1>4, <2>1, <2>2 DEF AtFirst, Located
<1> QED
  BY <1>3, <1>4

LEMMA InMemTableLast ==
    ASSUME Stored, NEW S, S \subseteq content[MemTable]
    PROVE  AtLast(MemTable, S, InMemTable(Last(S)))
<1>1. Numbered(content[MemTable])
  BY MemTableIsChild DEF Stored, Numbered
<1>2. Numbered(S)
  BY <1>1 DEF Numbered
<1>3. CASE S = {}
  BY <1>3, NoneInMemTable DEF AtLast
<1>4. CASE S # {}
  <2>1. Last(S) \in S /\ \A o \in S : ~ Before(Last(S), o)
    BY <1>2, <1>4, LastIs
  <2>2. InMemTable(Last(S)).entry = Last(S)
    BY DEF InMemTable
  <2> QED
    BY <1>4, <2>1, <2>2 DEF AtLast, Located
<1> QED
  BY <1>3, <1>4

LEMMA NoneInFiles ==
    ASSUME NEW c PROVE InFiles(c, Off) = End
BY DEF InFiles, End

LEMMA InTableFirst ==
    ASSUME Stored, NEW c \in 1 .. Tables, c =< Level0Files, NEW S, S \subseteq content[c], NEW q,
           TableAtFirst(files[c][1], S, q)
    PROVE  AtFirst(c, S, InFiles(c, q))
<1>1. GoodTable(files[c][1]) /\ c # MemTable
  BY DEF Stored, Laid, MemTable
<1>2. CASE S = {}
  BY <1>2, NoneInFiles DEF AtFirst, TableAtFirst
<1>3. CASE S # {}
  <2>1. /\ TablePlace(files[c][1], q) /\ TableEntry(files[c][1], q) \in S
        /\ \A o \in S : ~ Before(o, TableEntry(files[c][1], q))
    BY <1>3 DEF TableAtFirst
  <2>2. q # Off
    BY <1>1, <2>1, TablePlaceIs
  <2>3. InFiles(c, q).entry = TableEntry(files[c][1], q) /\ InFiles(c, q).place = q
    BY <2>2 DEF InFiles
  <2> QED
    BY <1>1, <1>3, <2>1, <2>3 DEF AtFirst, Located
<1> QED
  BY <1>2, <1>3

LEMMA InTableLast ==
    ASSUME Stored, NEW c \in 1 .. Tables, c =< Level0Files, NEW S, S \subseteq content[c], NEW q,
           TableAtLast(files[c][1], S, q)
    PROVE  AtLast(c, S, InFiles(c, q))
<1>1. GoodTable(files[c][1]) /\ c # MemTable
  BY DEF Stored, Laid, MemTable
<1>2. CASE S = {}
  BY <1>2, NoneInFiles DEF AtLast, TableAtLast
<1>3. CASE S # {}
  <2>1. /\ TablePlace(files[c][1], q) /\ TableEntry(files[c][1], q) \in S
        /\ \A o \in S : ~ Before(TableEntry(files[c][1], q), o)
    BY <1>3 DEF TableAtLast
  <2>2. q # Off
    BY <1>1, <2>1, TablePlaceIs
  <2>3. InFiles(c, q).entry = TableEntry(files[c][1], q) /\ InFiles(c, q).place = q
    BY <2>2 DEF InFiles
  <2> QED
    BY <1>1, <1>3, <2>1, <2>3 DEF AtLast, Located
<1> QED
  BY <1>2, <1>3

LEMMA InLevelFirst ==
    ASSUME Stored, NEW c \in 1 .. Tables, ~ (c =< Level0Files), NEW S, S \subseteq content[c],
           NEW q, LevelAtFirst(files[c], S, q)
    PROVE  AtFirst(c, S, InFiles(c, q))
<1>1. GoodLevel(files[c]) /\ c # MemTable
  BY DEF Stored, Laid, MemTable
<1>2. CASE S = {}
  BY <1>2, NoneInFiles DEF AtFirst, LevelAtFirst
<1>3. CASE S # {}
  <2>1. /\ LevelPlace(files[c], q) /\ LevelEntry(files[c], q) \in S
        /\ \A o \in S : ~ Before(o, LevelEntry(files[c], q))
    BY <1>3 DEF LevelAtFirst
  <2>2. q # Off
    BY <1>1, <2>1, LevelPlaceIs
  <2>3. InFiles(c, q).entry = LevelEntry(files[c], q) /\ InFiles(c, q).place = q
    BY <2>2 DEF InFiles
  <2> QED
    BY <1>1, <1>3, <2>1, <2>3 DEF AtFirst, Located
<1> QED
  BY <1>2, <1>3

LEMMA InLevelLast ==
    ASSUME Stored, NEW c \in 1 .. Tables, ~ (c =< Level0Files), NEW S, S \subseteq content[c],
           NEW q, LevelAtLast(files[c], S, q)
    PROVE  AtLast(c, S, InFiles(c, q))
<1>1. GoodLevel(files[c]) /\ c # MemTable
  BY DEF Stored, Laid, MemTable
<1>2. CASE S = {}
  BY <1>2, NoneInFiles DEF AtLast, LevelAtLast
<1>3. CASE S # {}
  <2>1. /\ LevelPlace(files[c], q) /\ LevelEntry(files[c], q) \in S
        /\ \A o \in S : ~ Before(LevelEntry(files[c], q), o)
    BY <1>3 DEF LevelAtLast
  <2>2. q # Off
    BY <1>1, <2>1, LevelPlaceIs
  <2>3. InFiles(c, q).entry = LevelEntry(files[c], q) /\ InFiles(c, q).place = q
    BY <2>2 DEF InFiles
  <2> QED
    BY <1>1, <1>3, <2>1, <2>3 DEF AtLast, Located
<1> QED
  BY <1>2, <1>3

LEMMA SeekToFirstIs ==
    ASSUME Stored, NEW c \in Children
    PROVE  AtFirst(c, content[c], ChildSeekToFirst(c))
<1> DEFINE S == content[c]
<1>1. S \subseteq content[c]
  OBVIOUS
<1>2. CASE c = MemTable
  <2>1. ChildSeekToFirst(c) = InMemTable(First(S))
    BY <1>2 DEF ChildSeekToFirst
  <2> HIDE DEF S
  <2>2. AtFirst(MemTable, S, InMemTable(First(S)))
    BY <1>1, <1>2, InMemTableFirst
  <2> QED
    BY <1>2, <2>1, <2>2 DEF S
<1>3. CASE c # MemTable /\ c =< Level0Files
  <2>1. c \in 1 .. Tables
    BY <1>3, TablesIs
  <2>2. GoodTable(files[c][1]) /\ InTable(files[c][1]) = content[c]
    BY <1>3, <2>1 DEF Stored, Laid
  <2>5. TableAtFirst(files[c][1], S, TableFirst(files[c][1]))
    BY <2>2, TableFirstIs
  <2>6. ChildSeekToFirst(c) = InFiles(c, TableFirst(files[c][1]))
    BY <1>3 DEF ChildSeekToFirst
  <2> HIDE DEF S
  <2>7. AtFirst(c, S, InFiles(c, TableFirst(files[c][1])))
    BY <1>1, <1>3, <2>1, <2>5, InTableFirst
  <2> QED
    BY <2>6, <2>7 DEF S
<1>4. CASE c # MemTable /\ ~ (c =< Level0Files)
  <2>1. c \in 1 .. Tables
    BY <1>4, TablesIs
  <2>2. GoodLevel(files[c]) /\ InLevel(files[c]) = content[c]
    BY <1>4, <2>1 DEF Stored, Laid
  <2>5. LevelAtFirst(files[c], S, LevelFirst(files[c]))
    BY <2>2, LevelFirstIs
  <2>6. ChildSeekToFirst(c) = InFiles(c, LevelFirst(files[c]))
    BY <1>4 DEF ChildSeekToFirst
  <2> HIDE DEF S
  <2>7. AtFirst(c, S, InFiles(c, LevelFirst(files[c])))
    BY <1>1, <1>4, <2>1, <2>5, InLevelFirst
  <2> QED
    BY <2>6, <2>7 DEF S
<1> QED
  BY <1>2, <1>3, <1>4

LEMMA SeekToLastIs ==
    ASSUME Stored, NEW c \in Children
    PROVE  AtLast(c, content[c], ChildSeekToLast(c))
<1> DEFINE S == content[c]
<1>1. S \subseteq content[c]
  OBVIOUS
<1>2. CASE c = MemTable
  <2>1. ChildSeekToLast(c) = InMemTable(Last(S))
    BY <1>2 DEF ChildSeekToLast
  <2> HIDE DEF S
  <2>2. AtLast(MemTable, S, InMemTable(Last(S)))
    BY <1>1, <1>2, InMemTableLast
  <2> QED
    BY <1>2, <2>1, <2>2 DEF S
<1>3. CASE c # MemTable /\ c =< Level0Files
  <2>1. c \in 1 .. Tables
    BY <1>3, TablesIs
  <2>2. GoodTable(files[c][1]) /\ InTable(files[c][1]) = content[c]
    BY <1>3, <2>1 DEF Stored, Laid
  <2>5. TableAtLast(files[c][1], S, TableLast(files[c][1]))
    BY <2>2, TableLastIs
  <2>6. ChildSeekToLast(c) = InFiles(c, TableLast(files[c][1]))
    BY <1>3 DEF ChildSeekToLast
  <2> HIDE DEF S
  <2>7. AtLast(c, S, InFiles(c, TableLast(files[c][1])))
    BY <1>1, <1>3, <2>1, <2>5, InTableLast
  <2> QED
    BY <2>6, <2>7 DEF S
<1>4. CASE c # MemTable /\ ~ (c =< Level0Files)
  <2>1. c \in 1 .. Tables
    BY <1>4, TablesIs
  <2>2. GoodLevel(files[c]) /\ InLevel(files[c]) = content[c]
    BY <1>4, <2>1 DEF Stored, Laid
  <2>5. LevelAtLast(files[c], S, LevelLast(files[c]))
    BY <2>2, LevelLastIs
  <2>6. ChildSeekToLast(c) = InFiles(c, LevelLast(files[c]))
    BY <1>4 DEF ChildSeekToLast
  <2> HIDE DEF S
  <2>7. AtLast(c, S, InFiles(c, LevelLast(files[c])))
    BY <1>1, <1>4, <2>1, <2>5, InLevelLast
  <2> QED
    BY <2>6, <2>7 DEF S
<1> QED
  BY <1>2, <1>3, <1>4

LEMMA SeekIs ==
    ASSUME Stored, NEW c \in Children, NEW e, e.key \in Int, e.seq \in Int
    PROVE  AtFirst(c, {o \in content[c] : ~ Before(o, e)}, ChildSeek(c, e))
<1> DEFINE S == {o \in content[c] : ~ Before(o, e)}
<1>1. S \subseteq content[c]
  OBVIOUS
<1>2. CASE c = MemTable
  <2>1. ChildSeek(c, e) = InMemTable(First(S))
    BY <1>2 DEF ChildSeek
  <2> HIDE DEF S
  <2>2. AtFirst(MemTable, S, InMemTable(First(S)))
    BY <1>1, <1>2, InMemTableFirst
  <2> QED
    BY <1>2, <2>1, <2>2 DEF S
<1>3. CASE c # MemTable /\ c =< Level0Files
  <2>1. c \in 1 .. Tables
    BY <1>3, TablesIs
  <2>2. GoodTable(files[c][1]) /\ InTable(files[c][1]) = content[c]
    BY <1>3, <2>1 DEF Stored, Laid
  <2>5. TableAtFirst(files[c][1], S, TableSeek(files[c][1], e))
    BY <2>2, TableSeekIs
  <2>6. ChildSeek(c, e) = InFiles(c, TableSeek(files[c][1], e))
    BY <1>3 DEF ChildSeek
  <2> HIDE DEF S
  <2>7. AtFirst(c, S, InFiles(c, TableSeek(files[c][1], e)))
    BY <1>1, <1>3, <2>1, <2>5, InTableFirst
  <2> QED
    BY <2>6, <2>7 DEF S
<1>4. CASE c # MemTable /\ ~ (c =< Level0Files)
  <2>1. c \in 1 .. Tables
    BY <1>4, TablesIs
  <2>2. GoodLevel(files[c]) /\ InLevel(files[c]) = content[c]
    BY <1>4, <2>1 DEF Stored, Laid
  <2>5. LevelAtFirst(files[c], S, LevelSeek(files[c], e))
    BY <2>2, LevelSeekIs
  <2>6. ChildSeek(c, e) = InFiles(c, LevelSeek(files[c], e))
    BY <1>4 DEF ChildSeek
  <2> HIDE DEF S
  <2>7. AtFirst(c, S, InFiles(c, LevelSeek(files[c], e)))
    BY <1>1, <1>4, <2>1, <2>5, InLevelFirst
  <2> QED
    BY <2>6, <2>7 DEF S
<1> QED
  BY <1>2, <1>3, <1>4

LEMMA NextIs ==
    ASSUME Stored, NEW c \in Children, NEW p, Located(c, p)
    PROVE  AtFirst(c, {o \in content[c] : Before(p.entry, o)}, ChildNext(c, p))
<1> DEFINE S == {o \in content[c] : Before(p.entry, o)}
<1>1. S \subseteq content[c]
  OBVIOUS
<1>2. CASE c = MemTable
  <2>1. ChildNext(c, p) = InMemTable(First(S))
    BY <1>2 DEF ChildNext
  <2> HIDE DEF S
  <2>2. AtFirst(MemTable, S, InMemTable(First(S)))
    BY <1>1, <1>2, InMemTableFirst
  <2> QED
    BY <1>2, <2>1, <2>2 DEF S
<1>3. CASE c # MemTable /\ c =< Level0Files
  <2>1. c \in 1 .. Tables
    BY <1>3, TablesIs
  <2>2. GoodTable(files[c][1]) /\ InTable(files[c][1]) = content[c]
    BY <1>3, <2>1 DEF Stored, Laid
  <2>3. p.place # Off => /\ TablePlace(files[c][1], p.place)
                         /\ TableEntry(files[c][1], p.place) = p.entry
    BY <1>3 DEF Located, InFiles
  <2>4. TablePlace(files[c][1], p.place) /\ p.place # Off
    BY <1>3, <2>2, TablePlaceIs DEF Located
  <2>5. TableAtFirst(files[c][1], S, TableNext(files[c][1], p.place))
    BY <2>2, <2>3, <2>4, TableNextIs
  <2>6. ChildNext(c, p) = InFiles(c, TableNext(files[c][1], p.place))
    BY <1>3 DEF ChildNext
  <2> HIDE DEF S
  <2>7. AtFirst(c, S, InFiles(c, TableNext(files[c][1], p.place)))
    BY <1>1, <1>3, <2>1, <2>5, InTableFirst
  <2> QED
    BY <2>6, <2>7 DEF S
<1>4. CASE c # MemTable /\ ~ (c =< Level0Files)
  <2>1. c \in 1 .. Tables
    BY <1>4, TablesIs
  <2>2. GoodLevel(files[c]) /\ InLevel(files[c]) = content[c]
    BY <1>4, <2>1 DEF Stored, Laid
  <2>3. p.place # Off => /\ LevelPlace(files[c], p.place)
                         /\ LevelEntry(files[c], p.place) = p.entry
    BY <1>4 DEF Located, InFiles
  <2>4. LevelPlace(files[c], p.place) /\ p.place # Off
    BY <1>4, <2>2, LevelPlaceIs DEF Located
  <2>5. LevelAtFirst(files[c], S, LevelNext(files[c], p.place))
    BY <2>2, <2>3, <2>4, LevelNextIs
  <2>6. ChildNext(c, p) = InFiles(c, LevelNext(files[c], p.place))
    BY <1>4 DEF ChildNext
  <2> HIDE DEF S
  <2>7. AtFirst(c, S, InFiles(c, LevelNext(files[c], p.place)))
    BY <1>1, <1>4, <2>1, <2>5, InLevelFirst
  <2> QED
    BY <2>6, <2>7 DEF S
<1> QED
  BY <1>2, <1>3, <1>4

LEMMA PrevIs ==
    ASSUME Stored, NEW c \in Children, NEW p, Located(c, p)
    PROVE  AtLast(c, {o \in content[c] : Before(o, p.entry)}, ChildPrev(c, p))
<1> DEFINE S == {o \in content[c] : Before(o, p.entry)}
<1>1. S \subseteq content[c]
  OBVIOUS
<1>2. CASE c = MemTable
  <2>1. ChildPrev(c, p) = InMemTable(Last(S))
    BY <1>2 DEF ChildPrev
  <2> HIDE DEF S
  <2>2. AtLast(MemTable, S, InMemTable(Last(S)))
    BY <1>1, <1>2, InMemTableLast
  <2> QED
    BY <1>2, <2>1, <2>2 DEF S
<1>3. CASE c # MemTable /\ c =< Level0Files
  <2>1. c \in 1 .. Tables
    BY <1>3, TablesIs
  <2>2. GoodTable(files[c][1]) /\ InTable(files[c][1]) = content[c]
    BY <1>3, <2>1 DEF Stored, Laid
  <2>3. p.place # Off => /\ TablePlace(files[c][1], p.place)
                         /\ TableEntry(files[c][1], p.place) = p.entry
    BY <1>3 DEF Located, InFiles
  <2>4. TablePlace(files[c][1], p.place) /\ p.place # Off
    BY <1>3, <2>2, TablePlaceIs DEF Located
  <2>5. TableAtLast(files[c][1], S, TablePrev(files[c][1], p.place))
    BY <2>2, <2>3, <2>4, TablePrevIs
  <2>6. ChildPrev(c, p) = InFiles(c, TablePrev(files[c][1], p.place))
    BY <1>3 DEF ChildPrev
  <2> HIDE DEF S
  <2>7. AtLast(c, S, InFiles(c, TablePrev(files[c][1], p.place)))
    BY <1>1, <1>3, <2>1, <2>5, InTableLast
  <2> QED
    BY <2>6, <2>7 DEF S
<1>4. CASE c # MemTable /\ ~ (c =< Level0Files)
  <2>1. c \in 1 .. Tables
    BY <1>4, TablesIs
  <2>2. GoodLevel(files[c]) /\ InLevel(files[c]) = content[c]
    BY <1>4, <2>1 DEF Stored, Laid
  <2>3. p.place # Off => /\ LevelPlace(files[c], p.place)
                         /\ LevelEntry(files[c], p.place) = p.entry
    BY <1>4 DEF Located, InFiles
  <2>4. LevelPlace(files[c], p.place) /\ p.place # Off
    BY <1>4, <2>2, LevelPlaceIs DEF Located
  <2>5. LevelAtLast(files[c], S, LevelPrev(files[c], p.place))
    BY <2>2, <2>3, <2>4, LevelPrevIs
  <2>6. ChildPrev(c, p) = InFiles(c, LevelPrev(files[c], p.place))
    BY <1>4 DEF ChildPrev
  <2> HIDE DEF S
  <2>7. AtLast(c, S, InFiles(c, LevelPrev(files[c], p.place)))
    BY <1>1, <1>4, <2>1, <2>5, InLevelLast
  <2> QED
    BY <2>6, <2>7 DEF S
<1> QED
  BY <1>2, <1>3, <1>4

-----------------------------------------------------------------------------
(* The merging iterator.                                                       *)

Sees == {e \in Written : e.seq =< sequence}

Stands(c, p) == p = End \/ Located(c, p)

\* The current child is the first of all, or the last.
CurrentIsNext ==
    IF current = NoChild THEN \A c \in Children : pos[c] = End
    ELSE /\ current \in Children
         /\ pos[current] # End
         /\ \A c \in Children \ {current} :
                pos[c] # End =>
                    IF forward THEN Before(Entry, pos[c].entry) ELSE Before(pos[c].entry, Entry)

Merged ==
    /\ \A c \in Children : Stands(c, pos[c])
    /\ forward \in BOOLEAN
    /\ CurrentIsNext
    /\ ChildrenMissNothing

LEMMA ContentIs ==
    ASSUME Stored, NEW c \in Children
    PROVE  /\ Numbered(content[c])
           /\ \A e \in content[c] : e \in Entries /\ e.key \in Int /\ e.seq \in Int
<1>1. Numbered(content[c])
  BY DEF Stored, Numbered
<1> QED
  BY <1>1, EntryFields DEF Numbered

LEMMA WrittenIs ==
    ASSUME Stored
    PROVE  Numbered(Written) /\ Numbered(Sees)
<1>1. Numbered(Written)
  <2>1. Written \subseteq Entries
    BY DEF Stored, Written
  <2>2. ASSUME NEW a \in Written, NEW b \in Written, a.seq = b.seq PROVE a = b
    <3>1. PICK c \in Children : a \in content[c]
      BY DEF Written
    <3>2. PICK d \in Children : b \in content[d]
      BY DEF Written
    <3> QED
      BY <2>2, <3>1, <3>2 DEF Stored
  <2> QED
    BY <2>1, <2>2 DEF Numbered
<1> QED
  BY <1>1 DEF Numbered, Sees

LEMMA SeesIs ==
    ASSUME NEW e
    PROVE  e \in Sees <=> \E c \in Children : e \in content[c] /\ e.seq =< sequence
BY DEF Sees, Written

LEMMA EndIsNowhere ==
    ASSUME Stored, NEW c \in Children, NEW p, Located(c, p)
    PROVE  p # End /\ p.entry \in content[c] /\ p.entry \in Entries /\ p.entry \in Written
           /\ p.entry.key \in Int /\ p.entry.seq \in Int
<1>1. p.entry \in content[c] /\ p.entry \in Entries
  BY ContentIs DEF Located
<1>2. End.entry.key = NoKey
  BY DEF End, NoEntry, NoKey
<1> QED
  BY <1>1, <1>2, EntryFields DEF Written

\* What does not depend on the iterator.

LEMMA LocatedStays ==
    ASSUME UNCHANGED <<content, files>>, NEW c \in Children, NEW p
    PROVE  Located(c, p)' <=> Located(c, p)
BY DEF Located, InFiles, InMemTable, TablePlace, LevelPlace, TableEntry, LevelEntry

\* The child with the first entry, and with the last.
LEMMA FindSmallestIs ==
    ASSUME Stored, NEW p, \A c \in Children : Stands(c, p[c])
    PROVE  IF \A c \in Children : p[c] = End THEN FindSmallest(p) = NoChild
           ELSE /\ FindSmallest(p) \in Children /\ p[FindSmallest(p)] # End
                /\ \A d \in Children \ {FindSmallest(p)} :
                       p[d] # End => Before(p[FindSmallest(p)].entry, p[d].entry)
<1> DEFINE S == {p[c].entry : c \in {d \in Children : p[d] # End}}
<1>1. CASE \A c \in Children : p[c] = End
  BY <1>1 DEF FindSmallest
<1>2. CASE \E c \in Children : p[c] # End
  <2>1. \A c \in Children : p[c] # End => p[c].entry \in content[c] /\ p[c].entry \in Written
    BY EndIsNowhere DEF Stands
  <2>2. Numbered(S)
    BY <2>1, WrittenIs DEF Numbered
  <2>3. S # {}
    BY <1>2
  <2>4. PICK e \in S : \A o \in S \ {e} : Before(e, o)
    <3> HIDE DEF S
    <3> QED
      BY <2>2, <2>3, FirstExists
  <2>5. PICK c \in Children : p[c] # End /\ e = p[c].entry
    BY <2>4
  <2>6. ASSUME NEW d \in Children \ {c}, p[d] # End PROVE Before(p[c].entry, p[d].entry)
    <3>1. p[d].entry \in S
      BY <2>6
    <3>2. p[d].entry # p[c].entry
      BY <2>1, <2>5, <2>6 DEF Stored
    <3> QED
      BY <2>4, <2>5, <3>1, <3>2
  <2>7. \E x \in Children : /\ p[x] # End
                            /\ \A d \in Children \ {x} :
                                   p[d] # End => Before(p[x].entry, p[d].entry)
    BY <2>5, <2>6
  <2> QED
    BY <1>2, <2>7 DEF FindSmallest
<1> QED
  BY <1>1, <1>2

LEMMA FindLargestIs ==
    ASSUME Stored, NEW p, \A c \in Children : Stands(c, p[c])
    PROVE  IF \A c \in Children : p[c] = End THEN FindLargest(p) = NoChild
           ELSE /\ FindLargest(p) \in Children /\ p[FindLargest(p)] # End
                /\ \A d \in Children \ {FindLargest(p)} :
                       p[d] # End => Before(p[d].entry, p[FindLargest(p)].entry)
<1> DEFINE S == {p[c].entry : c \in {d \in Children : p[d] # End}}
<1>1. CASE \A c \in Children : p[c] = End
  BY <1>1 DEF FindLargest
<1>2. CASE \E c \in Children : p[c] # End
  <2>1. \A c \in Children : p[c] # End => p[c].entry \in content[c] /\ p[c].entry \in Written
    BY EndIsNowhere DEF Stands
  <2>2. Numbered(S)
    BY <2>1, WrittenIs DEF Numbered
  <2>3. S # {}
    BY <1>2
  <2>4. PICK e \in S : \A o \in S \ {e} : Before(o, e)
    <3> HIDE DEF S
    <3> QED
      BY <2>2, <2>3, LastExists
  <2>5. PICK c \in Children : p[c] # End /\ e = p[c].entry
    BY <2>4
  <2>6. ASSUME NEW d \in Children \ {c}, p[d] # End PROVE Before(p[d].entry, p[c].entry)
    <3>1. p[d].entry \in S
      BY <2>6
    <3>2. p[d].entry # p[c].entry
      BY <2>1, <2>5, <2>6 DEF Stored
    <3> QED
      BY <2>4, <2>5, <3>1, <3>2
  <2>7. \E x \in Children : /\ p[x] # End
                            /\ \A d \in Children \ {x} :
                                   p[d] # End => Before(p[d].entry, p[x].entry)
    BY <2>5, <2>6
  <2> QED
    BY <1>2, <2>7 DEF FindLargest
<1> QED
  BY <1>1, <1>2

LEMMA NoChildIsNone == NoChild \notin Children /\ MemTable \in Children
BY ChildrenAssumption DEF NoChild, Children, Tables, MemTable

\* All children are brought to the first entries of U, which ends upward, or a
\* bit before.
Covers(p, U) ==
    \A c \in Children :
        /\ Stands(c, p[c])
        /\ p[c] # End => p[c].entry \in U
        /\ \A e \in content[c] :
               e.seq =< sequence /\ e \in U => p[c] # End /\ ~ Before(e, p[c].entry)

CoversBack(p, D) ==
    \A c \in Children :
        /\ Stands(c, p[c])
        /\ p[c] # End => p[c].entry \in D
        /\ \A e \in content[c] :
               e.seq =< sequence /\ e \in D => p[c] # End /\ ~ Before(p[c].entry, e)

LEMMA AheadMerges ==
    ASSUME Stored, UNCHANGED <<sequence, content, files>>, NEW p, NEW U, Covers(p, U), Ahead(p),
           \A a, b \in Entries : a \in U /\ Before(a, b) => b \in U
    PROVE  /\ Merged'
           /\ current' = NoChild => \A v \in Sees : v \notin U
           /\ current' # NoChild =>
                  /\ Entry' \in Entries /\ Entry' \in Written /\ Entry' \in U
                  /\ \A v \in Sees : v \in U => ~ Before(v, Entry')
<1>1. \A c \in Children : Stands(c, p[c])
  BY DEF Covers
<1>2. pos' = p /\ current' = FindSmallest(p) /\ forward' = TRUE
  BY DEF Ahead
<1>3. \A c \in Children : Stands(c, pos[c])'
  BY <1>1, <1>2, LocatedStays DEF Stands
<1>4. (IF \A c \in Children : p[c] = End THEN current' = NoChild
       ELSE /\ current' \in Children /\ p[current'] # End
            /\ \A d \in Children \ {current'} :
                   p[d] # End => Before(p[current'].entry, p[d].entry))
  BY <1>1, <1>2, FindSmallestIs
<1>5. CurrentIsNext'
  BY <1>2, <1>4, NoChildIsNone DEF CurrentIsNext, Entry
<1>6. CASE current' = NoChild
  <2>1. \A c \in Children : p[c] = End
    BY <1>4, <1>6, NoChildIsNone
  <2>2. \A v \in Sees : v \notin U
    BY <2>1, SeesIs DEF Covers
  <2>3. ChildrenMissNothing'
    BY <1>6 DEF ChildrenMissNothing
  <2> QED
    BY <1>2, <1>3, <1>5, <1>6, <2>2, <2>3 DEF Merged
<1>7. CASE current' # NoChild
  <2>1. /\ current' \in Children /\ p[current'] # End /\ Entry' = p[current'].entry
        /\ \A d \in Children \ {current'} :
               p[d] # End => Before(Entry', p[d].entry)
    BY <1>2, <1>4, <1>7 DEF Entry
  <2>2. Located(current', p[current'])
    BY <1>1, <2>1 DEF Stands
  <2>3. Entry' \in Entries /\ Entry' \in Written /\ Entry' \in U
        /\ Entry'.key \in Int /\ Entry'.seq \in Int
    BY <2>1, <2>2, EndIsNowhere DEF Covers
  <2>4. ASSUME NEW c \in Children, NEW e \in content[c], e.seq =< sequence, e \in U
        PROVE  p[c] # End /\ ~ Before(e, p[c].entry) /\ ~ Before(e, Entry')
    <3>1. p[c] # End /\ ~ Before(e, p[c].entry)
      BY <2>4 DEF Covers
    <3>2. p[c].entry.key \in Int /\ p[c].entry.seq \in Int /\ e.key \in Int /\ e.seq \in Int
      BY <1>1, <3>1, EndIsNowhere, ContentIs DEF Stands
    <3>3. p[c].entry = Entry' \/ Before(Entry', p[c].entry)
      BY <2>1, <3>1
    <3>4. ~ Before(e, Entry')
      BY <2>3, <3>1, <3>2, <3>3, BeforeOrder
    <3> QED
      BY <3>1, <3>4
  <2>5. \A v \in Sees : v \in U => ~ Before(v, Entry')
    BY <2>4, SeesIs
  <2>6. \A c \in Children : \A e \in content[c] :
            e.seq =< sequence /\ Before(Entry', e) => p[c] # End /\ ~ Before(e, p[c].entry)
    BY <2>3, <2>4, ContentIs
  <2>7. ChildrenMissNothing'
    BY <1>2, <2>6 DEF ChildrenMissNothing
  <2> QED
    BY <1>2, <1>3, <1>5, <1>7, <2>3, <2>5, <2>7 DEF Merged
<1> QED
  BY <1>6, <1>7

LEMMA BackMerges ==
    ASSUME Stored, UNCHANGED <<sequence, content, files>>, NEW p, NEW D, CoversBack(p, D), Back(p),
           \A a, b \in Entries : a \in D /\ Before(b, a) => b \in D
    PROVE  /\ Merged'
           /\ current' = NoChild => \A v \in Sees : v \notin D
           /\ current' # NoChild =>
                  /\ Entry' \in Entries /\ Entry' \in Written /\ Entry' \in D
                  /\ \A v \in Sees : v \in D => ~ Before(Entry', v)
<1>1. \A c \in Children : Stands(c, p[c])
  BY DEF CoversBack
<1>2. pos' = p /\ current' = FindLargest(p) /\ forward' = FALSE
  BY DEF Back
<1>3. \A c \in Children : Stands(c, pos[c])'
  BY <1>1, <1>2, LocatedStays DEF Stands
<1>4. (IF \A c \in Children : p[c] = End THEN current' = NoChild
       ELSE /\ current' \in Children /\ p[current'] # End
            /\ \A d \in Children \ {current'} :
                   p[d] # End => Before(p[d].entry, p[current'].entry))
  BY <1>1, <1>2, FindLargestIs
<1>5. CurrentIsNext'
  BY <1>2, <1>4, NoChildIsNone DEF CurrentIsNext, Entry
<1>6. CASE current' = NoChild
  <2>1. \A c \in Children : p[c] = End
    BY <1>4, <1>6, NoChildIsNone
  <2>2. \A v \in Sees : v \notin D
    BY <2>1, SeesIs DEF CoversBack
  <2>3. ChildrenMissNothing'
    BY <1>6 DEF ChildrenMissNothing
  <2> QED
    BY <1>2, <1>3, <1>5, <1>6, <2>2, <2>3 DEF Merged
<1>7. CASE current' # NoChild
  <2>1. /\ current' \in Children /\ p[current'] # End /\ Entry' = p[current'].entry
        /\ \A d \in Children \ {current'} :
               p[d] # End => Before(p[d].entry, Entry')
    BY <1>2, <1>4, <1>7 DEF Entry
  <2>2. Located(current', p[current'])
    BY <1>1, <2>1 DEF Stands
  <2>3. Entry' \in Entries /\ Entry' \in Written /\ Entry' \in D
        /\ Entry'.key \in Int /\ Entry'.seq \in Int
    BY <2>1, <2>2, EndIsNowhere DEF CoversBack
  <2>4. ASSUME NEW c \in Children, NEW e \in content[c], e.seq =< sequence, e \in D
        PROVE  p[c] # End /\ ~ Before(p[c].entry, e) /\ ~ Before(Entry', e)
    <3>1. p[c] # End /\ ~ Before(p[c].entry, e)
      BY <2>4 DEF CoversBack
    <3>2. p[c].entry.key \in Int /\ p[c].entry.seq \in Int /\ e.key \in Int /\ e.seq \in Int
      BY <1>1, <3>1, EndIsNowhere, ContentIs DEF Stands
    <3>3. p[c].entry = Entry' \/ Before(p[c].entry, Entry')
      BY <2>1, <3>1
    <3>4. ~ Before(Entry', e)
      BY <2>3, <3>1, <3>2, <3>3, BeforeOrder
    <3> QED
      BY <3>1, <3>4
  <2>5. \A v \in Sees : v \in D => ~ Before(Entry', v)
    BY <2>4, SeesIs
  <2>6. \A c \in Children : \A e \in content[c] :
            e.seq =< sequence /\ Before(e, Entry') => p[c] # End /\ ~ Before(p[c].entry, e)
    BY <2>3, <2>4, ContentIs
  <2>7. ChildrenMissNothing'
    BY <1>2, <2>6 DEF ChildrenMissNothing
  <2> QED
    BY <1>2, <1>3, <1>5, <1>7, <2>3, <2>5, <2>7 DEF Merged
<1> QED
  BY <1>6, <1>7

-----------------------------------------------------------------------------
(* Where it is brought.                                                        *)

OnOrAfter(e) == {o \in Entries : ~ Before(o, e)}
After(e)     == {o \in Entries : Before(e, o)}
Earlier(e)   == {o \in Entries : Before(o, e)}

LEMMA AtFirstCovers ==
    ASSUME Stored, NEW c \in Children, NEW p, NEW U, AtFirst(c, content[c] \cap U, p)
    PROVE  /\ Stands(c, p)
           /\ p # End => p.entry \in U
           /\ \A e \in content[c] : e.seq =< sequence /\ e \in U => p # End /\ ~ Before(e, p.entry)
<1>1. CASE content[c] \cap U = {}
  BY <1>1 DEF AtFirst, Stands
<1>2. CASE content[c] \cap U # {}
  <2>1. Located(c, p) /\ p.entry \in U /\ \A o \in content[c] \cap U : ~ Before(o, p.entry)
    BY <1>2 DEF AtFirst
  <2>2. p # End
    BY <2>1, EndIsNowhere
  <2> QED
    BY <2>1, <2>2 DEF Stands
<1> QED
  BY <1>1, <1>2

LEMMA AtLastCovers ==
    ASSUME Stored, NEW c \in Children, NEW p, NEW D, AtLast(c, content[c] \cap D, p)
    PROVE  /\ Stands(c, p)
           /\ p # End => p.entry \in D
           /\ \A e \in content[c] : e.seq =< sequence /\ e \in D => p # End /\ ~ Before(p.entry, e)
<1>1. CASE content[c] \cap D = {}
  BY <1>1 DEF AtLast, Stands
<1>2. CASE content[c] \cap D # {}
  <2>1. Located(c, p) /\ p.entry \in D /\ \A o \in content[c] \cap D : ~ Before(p.entry, o)
    BY <1>2 DEF AtLast
  <2>2. p # End
    BY <2>1, EndIsNowhere
  <2> QED
    BY <2>1, <2>2 DEF Stands
<1> QED
  BY <1>1, <1>2

\* Each of these ends upward, and Earlier downward.
LEMMA Ends ==
    ASSUME NEW e, e.key \in Int, e.seq \in Int, NEW a \in Entries, NEW b \in Entries
    PROVE  /\ a \in OnOrAfter(e) /\ Before(a, b) => b \in OnOrAfter(e)
           /\ a \in After(e) /\ Before(a, b) => b \in After(e)
           /\ a \in Earlier(e) /\ Before(b, a) => b \in Earlier(e)
<1>1. a.key \in Int /\ a.seq \in Int /\ b.key \in Int /\ b.seq \in Int
  BY EntryFields
<1> QED
  BY <1>1, BeforeOrder DEF OnOrAfter, After, Earlier

LEMMA CurrentIs ==
    ASSUME Stored, Merged, current # NoChild
    PROVE  /\ current \in Children /\ Located(current, pos[current])
           /\ Entry \in content[current] /\ Entry \in Entries /\ Entry \in Written
           /\ Entry.key \in Int /\ Entry.seq \in Int
<1>1. current \in Children /\ pos[current] # End
  BY DEF Merged, CurrentIsNext
<1>2. Located(current, pos[current])
  BY <1>1 DEF Merged, Stands
<1> QED
  BY <1>1, <1>2, EndIsNowhere DEF Entry

LEMMA ToFirst ==
    ASSUME Stored, UNCHANGED <<sequence, content, files>>, MergingSeekToFirst
    PROVE  /\ Merged'
           /\ current' = NoChild => Sees = {}
           /\ current' # NoChild =>
                  Entry' \in Entries /\ Entry' \in Written /\ \A v \in Sees : ~ Before(v, Entry')
<1> DEFINE p == [c \in Children |-> ChildSeekToFirst(c)]
<1>1. Covers(p, Entries)
  <2>1. ASSUME NEW c \in Children PROVE AtFirst(c, content[c] \cap Entries, p[c])
    <3>1. content[c] \cap Entries = content[c]
      BY DEF Stored
    <3> QED
      BY <3>1, SeekToFirstIs
  <2> HIDE DEF p
  <2> QED
    BY <2>1, AtFirstCovers DEF Covers
<1>2. Ahead(p)
  BY DEF MergingSeekToFirst
<1>3. \A a, b \in Entries : a \in Entries /\ Before(a, b) => b \in Entries
  OBVIOUS
<1>4. \A v \in Sees : v \in Entries
  BY WrittenIs DEF Numbered
<1> HIDE DEF p
<1>5. /\ Merged'
      /\ current' = NoChild => \A v \in Sees : v \notin Entries
      /\ current' # NoChild =>
             /\ Entry' \in Entries /\ Entry' \in Written
             /\ \A v \in Sees : v \in Entries => ~ Before(v, Entry')
  BY <1>1, <1>2, <1>3, AheadMerges
<1> QED
  BY <1>4, <1>5

LEMMA ToSeek ==
    ASSUME Stored, UNCHANGED <<sequence, content, files>>, NEW e, e.key \in Int, e.seq \in Int,
           MergingSeek(e)
    PROVE  /\ Merged'
           /\ current' = NoChild => \A v \in Sees : Before(v, e)
           /\ current' # NoChild =>
                  /\ Entry' \in Entries /\ Entry' \in Written /\ ~ Before(Entry', e)
                  /\ \A v \in Sees : ~ Before(v, e) => ~ Before(v, Entry')
<1> DEFINE p == [c \in Children |-> ChildSeek(c, e)]
           U == OnOrAfter(e)
<1>1. Covers(p, U)
  <2>1. ASSUME NEW c \in Children PROVE AtFirst(c, content[c] \cap U, p[c])
    <3>1. content[c] \cap U = {o \in content[c] : ~ Before(o, e)}
      BY ContentIs DEF OnOrAfter
    <3> QED
      BY <3>1, SeekIs
  <2> HIDE DEF p
  <2> QED
    BY <2>1, AtFirstCovers DEF Covers
<1>2. Ahead(p)
  BY DEF MergingSeek
<1>3. \A a, b \in Entries : a \in U /\ Before(a, b) => b \in U
  BY Ends
<1>4. \A v \in Sees : v \in U <=> ~ Before(v, e)
  BY WrittenIs DEF Numbered, OnOrAfter
<1>5. \A v \in U : ~ Before(v, e)
  BY DEF OnOrAfter
<1> HIDE DEF p, U
<1>6. /\ Merged'
      /\ current' = NoChild => \A v \in Sees : v \notin U
      /\ current' # NoChild =>
             /\ Entry' \in Entries /\ Entry' \in Written /\ Entry' \in U
             /\ \A v \in Sees : v \in U => ~ Before(v, Entry')
  BY <1>1, <1>2, <1>3, AheadMerges
<1> QED
  BY <1>4, <1>5, <1>6

LEMMA ToLast ==
    ASSUME Stored, UNCHANGED <<sequence, content, files>>, MergingSeekToLast
    PROVE  /\ Merged'
           /\ current' = NoChild => Sees = {}
           /\ current' # NoChild =>
                  Entry' \in Entries /\ Entry' \in Written /\ \A v \in Sees : ~ Before(Entry', v)
<1> DEFINE p == [c \in Children |-> ChildSeekToLast(c)]
<1>1. CoversBack(p, Entries)
  <2>1. ASSUME NEW c \in Children PROVE AtLast(c, content[c] \cap Entries, p[c])
    <3>1. content[c] \cap Entries = content[c]
      BY DEF Stored
    <3> QED
      BY <3>1, SeekToLastIs
  <2> HIDE DEF p
  <2> QED
    BY <2>1, AtLastCovers DEF CoversBack
<1>2. Back(p)
  BY DEF MergingSeekToLast
<1>3. \A a, b \in Entries : a \in Entries /\ Before(b, a) => b \in Entries
  OBVIOUS
<1>4. \A v \in Sees : v \in Entries
  BY WrittenIs DEF Numbered
<1> HIDE DEF p
<1>5. /\ Merged'
      /\ current' = NoChild => \A v \in Sees : v \notin Entries
      /\ current' # NoChild =>
             /\ Entry' \in Entries /\ Entry' \in Written
             /\ \A v \in Sees : v \in Entries => ~ Before(Entry', v)
  BY <1>1, <1>2, <1>3, BackMerges
<1> QED
  BY <1>4, <1>5

\* What a child other than the current one has after or before the current entry.
LEMMA OtherChild ==
    ASSUME Stored, Merged, current # NoChild, NEW c \in Children, c # current
    PROVE  /\ content[c] \cap OnOrAfter(Entry) = content[c] \cap After(Entry)
           /\ content[c] \ After(Entry) = content[c] \cap Earlier(Entry)
<1>1. ASSUME NEW o \in content[c] PROVE Before(Entry, o) <=> ~ Before(o, Entry)
  <2>1. o.seq # Entry.seq
    BY CurrentIs DEF Stored
  <2> QED
    BY <2>1, CurrentIs, ContentIs, BeforeOrder
<1> QED
  BY <1>1, ContentIs DEF OnOrAfter, After, Earlier

LEMMA ToNext ==
    ASSUME Stored, UNCHANGED <<sequence, content, files>>, Merged, current # NoChild, MergingNext
    PROVE  /\ Merged'
           /\ current' = NoChild => \A v \in Sees : ~ Before(Entry, v)
           /\ current' # NoChild =>
                  /\ Entry' \in Entries /\ Entry' \in Written /\ Before(Entry, Entry')
                  /\ \A v \in Sees : Before(Entry, v) => ~ Before(v, Entry')
<1> DEFINE p == [c \in Children |-> IF c = current THEN ChildNext(c, pos[c])
                              ELSE IF forward THEN pos[c] ELSE MovedPast(c)]
           U == After(Entry)
<1>1. Covers(p, U)
  <2>1. ASSUME NEW c \in Children, c = current \/ ~ forward
        PROVE  AtFirst(c, content[c] \cap U, p[c])
    <3>1. CASE c = current
      <4>1. content[c] \cap U = {o \in content[c] : Before(pos[c].entry, o)}
        BY <3>1, ContentIs DEF After, Entry
      <4>2. Located(c, pos[c])
        BY <3>1, CurrentIs
      <4> QED
        BY <3>1, <4>1, <4>2, NextIs
    <3>2. CASE c # current
      <4>1. content[c] \cap U = {o \in content[c] : ~ Before(o, Entry)}
        BY <3>2, OtherChild, ContentIs DEF OnOrAfter
      <4>2. AtFirst(c, content[c] \cap U, ChildSeek(c, Entry))
        BY <4>1, SeekIs, CurrentIs
      <4>3. p[c] = MovedPast(c)
        BY <2>1, <3>2
      <4>4. ChildSeek(c, Entry) # End => Before(Entry, ChildSeek(c, Entry).entry)
        BY <4>2 DEF AtFirst, After
      <4>5. ~ Before(Entry, Entry)
        BY CurrentIs DEF Before
      <4>6. MovedPast(c) = ChildSeek(c, Entry)
        BY <4>4, <4>5 DEF MovedPast
      <4> QED
        BY <4>2, <4>3, <4>6
    <3> QED
      BY <3>1, <3>2
  <2>2. ASSUME NEW c \in Children, c # current, forward
        PROVE  /\ Stands(c, p[c])
               /\ p[c] # End => p[c].entry \in U
               /\ \A e \in content[c] :
                      e.seq =< sequence /\ e \in U => p[c] # End /\ ~ Before(e, p[c].entry)
    <3>1. p[c] = pos[c]
      BY <2>2
    <3>2. Stands(c, pos[c])
      BY DEF Merged
    <3>3. pos[c] # End => pos[c].entry \in Entries /\ Before(Entry, pos[c].entry)
      BY <2>2, <3>2, EndIsNowhere DEF Merged, CurrentIsNext, Stands
    <3>4. \A e \in content[c] :
              e.seq =< sequence /\ Before(Entry, e) => pos[c] # End /\ ~ Before(e, pos[c].entry)
      BY <2>2 DEF Merged, ChildrenMissNothing
    <3> QED
      BY <3>1, <3>2, <3>3, <3>4 DEF After
  <2> HIDE DEF p, U
  <2> QED
    BY <2>1, <2>2, AtFirstCovers DEF Covers
<1>2. Ahead(p)
  BY DEF MergingNext
<1>3. \A a, b \in Entries : a \in U /\ Before(a, b) => b \in U
  BY Ends, CurrentIs
<1>4. \A v \in Sees : v \in U <=> Before(Entry, v)
  BY WrittenIs DEF Numbered, After
<1>5. \A v \in U : Before(Entry, v)
  BY DEF After
<1> HIDE DEF p, U
<1>6. /\ Merged'
      /\ current' = NoChild => \A v \in Sees : v \notin U
      /\ current' # NoChild =>
             /\ Entry' \in Entries /\ Entry' \in Written /\ Entry' \in U
             /\ \A v \in Sees : v \in U => ~ Before(v, Entry')
  BY <1>1, <1>2, <1>3, AheadMerges
<1> QED
  BY <1>4, <1>5, <1>6

\* In reverse, a child goes to the last of its entries before the current one.
LEMMA TurnedIs ==
    ASSUME Stored, Merged, current # NoChild, NEW c \in Children, c # current
    PROVE  AtLast(c, content[c] \cap Earlier(Entry), Turned(c))
<1> DEFINE U == {o \in content[c] : ~ Before(o, Entry)}
           p == ChildSeek(c, Entry)
<1>1. AtFirst(c, U, p)
  BY SeekIs, CurrentIs
<1>2. U = content[c] \cap After(Entry)
  BY OtherChild, ContentIs DEF OnOrAfter
<1>3. CASE U = {}
  <2>1. p = End
    BY <1>1, <1>3 DEF AtFirst
  <2>2. content[c] \cap Earlier(Entry) = content[c]
    BY <1>2, <1>3, OtherChild
  <2> QED
    BY <2>1, <2>2, SeekToLastIs DEF Turned
<1>4. CASE U # {}
  <2>1. Located(c, p) /\ p.entry \in U /\ \A o \in U : ~ Before(o, p.entry)
    BY <1>1, <1>4 DEF AtFirst
  <2>2. p # End
    BY <2>1, EndIsNowhere
  <2>3. ASSUME NEW o \in content[c] PROVE Before(o, p.entry) <=> o \in Earlier(Entry)
    <3>1. p.entry \in content[c] /\ ~ Before(p.entry, Entry)
      BY <2>1
    <3>2. /\ p.entry.key \in Int /\ p.entry.seq \in Int /\ o.key \in Int /\ o.seq \in Int
          /\ Entry.key \in Int /\ Entry.seq \in Int /\ o \in Entries
      BY <3>1, ContentIs, CurrentIs
    <3>3. Before(o, p.entry) => o \notin U
      BY <2>1
    <3>4. Before(o, Entry) => Before(o, p.entry)
      BY <3>1, <3>2, BeforeOrder
    <3> QED
      BY <3>2, <3>3, <3>4 DEF Earlier
  <2>4. content[c] \cap Earlier(Entry) = {o \in content[c] : Before(o, p.entry)}
    BY <2>3
  <2> QED
    BY <2>1, <2>2, <2>4, PrevIs DEF Turned
<1> QED
  BY <1>3, <1>4

LEMMA ToPrev ==
    ASSUME Stored, UNCHANGED <<sequence, content, files>>, Merged, current # NoChild, MergingPrev
    PROVE  /\ Merged'
           /\ current' = NoChild => \A v \in Sees : ~ Before(v, Entry)
           /\ current' # NoChild =>
                  /\ Entry' \in Entries /\ Entry' \in Written /\ Before(Entry', Entry)
                  /\ \A v \in Sees : Before(v, Entry) => ~ Before(Entry', v)
<1> DEFINE p == [c \in Children |-> IF c = current THEN ChildPrev(c, pos[c])
                             ELSE IF forward THEN Turned(c) ELSE pos[c]]
           D == Earlier(Entry)
<1>1. CoversBack(p, D)
  <2>1. ASSUME NEW c \in Children, c = current \/ forward
        PROVE  AtLast(c, content[c] \cap D, p[c])
    <3>1. CASE c = current
      <4>1. content[c] \cap D = {o \in content[c] : Before(o, pos[c].entry)}
        BY <3>1, ContentIs DEF Earlier, Entry
      <4>2. Located(c, pos[c])
        BY <3>1, CurrentIs
      <4> QED
        BY <3>1, <4>1, <4>2, PrevIs
    <3>2. CASE c # current
      BY <2>1, <3>2, TurnedIs
    <3> QED
      BY <3>1, <3>2
  <2>2. ASSUME NEW c \in Children, c # current, ~ forward
        PROVE  /\ Stands(c, p[c])
               /\ p[c] # End => p[c].entry \in D
               /\ \A e \in content[c] :
                      e.seq =< sequence /\ e \in D => p[c] # End /\ ~ Before(p[c].entry, e)
    <3>1. p[c] = pos[c]
      BY <2>2
    <3>2. Stands(c, pos[c])
      BY DEF Merged
    <3>3. pos[c] # End => pos[c].entry \in Entries /\ Before(pos[c].entry, Entry)
      BY <2>2, <3>2, EndIsNowhere DEF Merged, CurrentIsNext, Stands
    <3>4. \A e \in content[c] :
              e.seq =< sequence /\ Before(e, Entry) => pos[c] # End /\ ~ Before(pos[c].entry, e)
      BY <2>2 DEF Merged, ChildrenMissNothing
    <3> QED
      BY <3>1, <3>2, <3>3, <3>4 DEF Earlier
  <2> HIDE DEF p, D
  <2> QED
    BY <2>1, <2>2, AtLastCovers DEF CoversBack
<1>2. Back(p)
  BY DEF MergingPrev
<1>3. \A a, b \in Entries : a \in D /\ Before(b, a) => b \in D
  BY Ends, CurrentIs
<1>4. \A v \in Sees : v \in D <=> Before(v, Entry)
  BY WrittenIs DEF Numbered, Earlier
<1>5. \A v \in D : Before(v, Entry)
  BY DEF Earlier
<1> HIDE DEF p, D
<1>6. /\ Merged'
      /\ current' = NoChild => \A v \in Sees : v \notin D
      /\ current' # NoChild =>
             /\ Entry' \in Entries /\ Entry' \in Written /\ Entry' \in D
             /\ \A v \in Sees : v \in D => ~ Before(Entry', v)
  BY <1>1, <1>2, <1>3, BackMerges
<1> QED
  BY <1>4, <1>5, <1>6

-----------------------------------------------------------------------------
(* The iterator.                                                               *)

\* What the merging iterator has not gone back to.
Remaining == {v \in Sees : current # NoChild /\ ~ Before(Entry, v)}

Kinds ==
    /\ reverse \in BOOLEAN /\ valid \in BOOLEAN /\ skipping \in BOOLEAN
    /\ pc \in {"idle", "next", "prev", "turn"}
    /\ savedKey \in UserKeys \cup {NoKey}
    /\ savedValue \in 0 .. MaxSeq
    /\ valueType \in Types
    /\ goal \in UserKeys \cup {NoKey}

\* It shows the newest entry of the goal; in reverse it has gone past all of that key.
Shows(t) ==
    /\ goal = t.key
    /\ IF reverse
       THEN /\ savedKey = t.key /\ savedValue = t.seq
            /\ \A v \in Sees : v.key < savedKey <=> v \in Remaining
       ELSE current # NoChild /\ Entry = t

Between == IF valid THEN \E t \in Live(Sees) : Shows(t) ELSE goal = NoKey

InNext == ~ reverse /\ current # NoChild /\ Onward(Sees, Entry, skipping, savedKey, goal)

InTurn ==
    /\ ~ reverse /\ current # NoChild /\ valueType = "deletion" /\ savedKey =< Entry.key
    /\ goal = Greatest(Keys({t \in Live(Sees) : t.key < savedKey}))

InPrev == reverse /\ Backward(Sees, Remaining, valueType, savedKey, savedValue, goal)

Loop ==
    /\ pc = "idle" => Between
    /\ pc = "next" => InNext
    /\ pc = "turn" => InTurn
    /\ pc = "prev" => InPrev

IterInv == Stored /\ Merged /\ Kinds /\ Loop

LEMMA ShownIs ==
    ASSUME Stored
    PROVE  /\ Shown = Keys(Live(Sees))
           /\ \A t \in Live(Sees) : Latest(Written, t.key, sequence) = t.seq /\ t.key \in UserKeys
<1>1. Numbered(Sees)
  BY WrittenIs
<1>2. \A e \in Sees : e.key \in UserKeys /\ e.key \in Int /\ e.seq \in Int /\ 1 =< e.seq
                      /\ e.type \in Types
  BY <1>1, EntryFields DEF Numbered
<1>3. \A k : Visible(Written, k, sequence) = {e \in Sees : e.key = k}
  BY DEF Visible, Sees
<1>4. ASSUME NEW t \in Live(Sees)
      PROVE  Latest(Written, t.key, sequence) = t.seq /\ t.key \in Shown /\ t.key \in UserKeys
  <2>1. t \in Sees /\ t.type = "value" /\ \A o \in Sees : o.key = t.key => o.seq =< t.seq
    BY DEF Live
  <2> DEFINE S == {e \in Sees : e.key = t.key}
  <2>2. \A e \in S : (\A o \in S : o.seq =< e.seq) => e = t
    BY <1>1, <1>2, <2>1 DEF Numbered
  <2>3. t \in S /\ \A o \in S : o.seq =< t.seq
    BY <2>1
  <2>4. (CHOOSE e \in S : \A o \in S : o.seq =< e.seq) = t
    <3> HIDE DEF S
    <3> QED
      BY <2>2, <2>3
  <2>5. FirstVisible(Written, t.key, sequence) = t
    BY <1>3, <2>4 DEF FirstVisible
  <2>6. Latest(Written, t.key, sequence) = t.seq
    BY <1>3, <2>1, <2>3, <2>5 DEF Latest
  <2> QED
    BY <1>2, <2>1, <2>6 DEF Shown
<1>5. ASSUME NEW k \in Shown PROVE k \in Keys(Live(Sees))
  <2> DEFINE S == {e \in Sees : e.key = k}
  <2>1. k \in UserKeys /\ Latest(Written, k, sequence) # 0
    BY DEF Shown
  <2>2. S # {} /\ Numbered(S)
    BY <1>1, <1>3, <2>1 DEF Latest, Numbered
  <2>3. PICK f \in S : \A o \in S \ {f} : Before(f, o)
    <3> HIDE DEF S
    <3> QED
      BY <2>2, FirstExists
  <2>4. \A o \in S : o.seq =< f.seq
    BY <1>2, <2>3 DEF Before
  <2>5. \E e \in S : \A o \in S : o.seq =< e.seq
    BY <2>4
  <2> DEFINE t == CHOOSE e \in S : \A o \in S : o.seq =< e.seq
  <2>6. t \in S /\ \A o \in S : o.seq =< t.seq
    <3> HIDE DEF S
    <3> QED
      BY <2>5
  <2>7. t = FirstVisible(Written, k, sequence)
    BY <1>3 DEF FirstVisible
  <2>8. t.type = "value"
    <3> HIDE DEF t
    <3> QED
      BY <1>3, <2>1, <2>2, <2>7 DEF Latest
  <2>9. t \in Live(Sees) /\ t.key = k
    <3> HIDE DEF t
    <3> QED
      BY <2>6, <2>8 DEF Live
  <2> HIDE DEF t
  <2> QED
    BY <2>9 DEF Keys
<1> QED
  BY <1>4, <1>5 DEF Keys

\* What a call has to reach.
LEMMA GoalIs ==
    ASSUME Stored, NEW k
    PROVE  /\ {j \in Shown : j >= k} = Keys({t \in Live(Sees) : t.key >= k})
           /\ {j \in Shown : j > k} = Keys({t \in Live(Sees) : t.key > k})
           /\ {j \in Shown : j < k} = Keys({t \in Live(Sees) : t.key < k})
BY ShownIs DEF Keys

LEMMA GoalTyped ==
    ASSUME Stored, NEW S, S \subseteq Sees
    PROVE  /\ Least(Keys(S)) \in UserKeys \cup {NoKey}
           /\ Greatest(Keys(S)) \in UserKeys \cup {NoKey}
<1>1. Numbered(S)
  BY WrittenIs DEF Numbered
<1> QED
  BY <1>1, LeastTyped, GreatestTyped

LEMMA KeyIsInt == ASSUME NEW k \in UserKeys \cup {NoKey} PROVE k \in Int
BY KeysAssumption DEF NoKey

\* The iterator moves and nobody writes.
Moves == UNCHANGED <<sequence, lastSequence, content, files>>

LEMMA MovesKeeps ==
    ASSUME Stored, Moves
    PROVE  Stored' /\ Sees' = Sees /\ Written' = Written
<1>1. Written' = Written
  BY DEF Moves, Written
<1>2. Stored'
  BY DEF Moves, Stored, Laid
<1> QED
  BY <1>1, <1>2 DEF Moves, Sees

LEMMA MergedStays ==
    ASSUME Stored, Merged, Moves, UNCHANGED merger
    PROVE  Merged' /\ Entry' = Entry /\ current' = current
<1>1. \A c \in Children : Stands(c, pos[c])'
  BY LocatedStays DEF Moves, Merged, Stands, merger
<1>2. Entry' = Entry /\ current' = current /\ pos' = pos /\ forward' = forward
  BY DEF Entry, merger
<1>3. CurrentIsNext'
  BY <1>2 DEF Merged, CurrentIsNext
<1>4. ChildrenMissNothing'
  BY <1>2 DEF Moves, Merged, ChildrenMissNothing
<1> QED
  BY <1>1, <1>2, <1>3, <1>4 DEF Merged

LEMMA EnterFindNextInv ==
    ASSUME Stored, Moves, Merged, NEW skip \in BOOLEAN, EnterFindNext(skip), ~ reverse',
           current' # NoChild => Onward(Sees, Entry', skip, savedKey', goal'),
           current' = NoChild => goal' = NoKey
    PROVE  Loop'
<1>1. Sees' = Sees
  BY MovesKeeps
<1>2. CASE current' = NoChild
  BY <1>2 DEF EnterFindNext, Loop, Between
<1>3. CASE current' # NoChild
  <2>1. pc' = "next" /\ skipping' = skip
    BY <1>3 DEF EnterFindNext
  <2>2. InNext'
    BY <1>1, <1>3, <2>1 DEF InNext
  <2> QED
    BY <2>1, <2>2 DEF Loop
<1> QED
  BY <1>2, <1>3

LEMMA EnterFindNextKinds ==
    ASSUME valid \in BOOLEAN, NEW skip \in BOOLEAN, EnterFindNext(skip)
    PROVE  valid' \in BOOLEAN /\ skipping' \in BOOLEAN /\ pc' \in {"idle", "next", "prev", "turn"}
BY DEF EnterFindNext

LEMMA SeekInv == ASSUME IterInv, NEW target \in UserKeys, Seek(target) PROVE IterInv'
<1>1. Moves /\ Stored /\ Merged /\ Kinds
  BY DEF Seek, Moves, IterInv
<1>2. Stored' /\ Sees' = Sees
  BY <1>1, MovesKeeps
<1> DEFINE e == [key |-> target, seq |-> sequence]
           T == {t \in Live(Sees) : t.key >= target}
<1>3. e.key \in Int /\ e.seq \in Int /\ e.key = target /\ e.seq = sequence
  BY <1>1, KeysAssumption, SeqAssumption DEF Stored
<1>4. \A v \in Sees : v \in Entries /\ v.key \in Int /\ v.seq \in Int /\ v.seq =< sequence
  BY <1>1, WrittenIs, EntryFields DEF Numbered, Sees
<1>5. \A v \in Sees : Before(v, e) <=> v.key < target
  BY <1>3, <1>4 DEF Before
<1>6. goal' = Least(Keys(T)) /\ savedKey' = target /\ ~ reverse' /\ EnterFindNext(FALSE)
      /\ MergingSeek(e)
  BY <1>1, GoalIs DEF Seek
<1> HIDE DEF e
<1>7. /\ Merged'
      /\ current' = NoChild => \A v \in Sees : Before(v, e)
      /\ current' # NoChild =>
             /\ Entry' \in Entries /\ Entry' \in Written /\ ~ Before(Entry', e)
             /\ \A v \in Sees : ~ Before(v, e) => ~ Before(v, Entry')
  BY <1>1, <1>3, <1>6, ToSeek DEF Moves
<1>8. ASSUME current' = NoChild PROVE goal' = NoKey
  <2>1. T = {}
    BY <1>3, <1>4, <1>5, <1>7, <1>8 DEF Live
  <2>2. Keys(T) = {}
    BY <2>1 DEF Keys
  <2> QED
    BY <1>6, <2>2, NoneLeast
<1>9. ASSUME current' # NoChild PROVE Onward(Sees, Entry', FALSE, savedKey', goal')
  <2>1. Entry'.key \in Int /\ Entry'.seq \in Int /\ target =< Entry'.key
    BY <1>3, <1>7, <1>9, EntryFields, BeforeOrder
  <2>2. ASSUME NEW v \in Sees, Before(v, Entry'), v.key = Entry'.key PROVE FALSE
    BY <1>3, <1>4, <1>5, <1>7, <1>9, <2>1, <2>2
  <2>3. ASSUME NEW t \in Live(Sees) PROVE t.key >= target <=> ~ Before(t, Entry')
    <3>1. t \in Sees
      BY DEF Live
    <3>2. ~ Before(t, Entry') => Entry'.key =< t.key
      BY <1>4, <2>1, <3>1, BeforeOrder
    <3> QED
      BY <1>3, <1>4, <1>5, <1>7, <1>9, <2>1, <3>1, <3>2
  <2>4. T = {t \in Live(Sees) : ~ Before(t, Entry') /\ ~ (FALSE /\ t.key =< savedKey')}
    BY <2>3
  <2> HIDE DEF T
  <2> QED
    BY <1>6, <2>2, <2>4 DEF Onward
<1>10. Loop'
  BY <1>1, <1>6, <1>8, <1>9, EnterFindNextInv
<1>11. T \subseteq Sees
  BY DEF Live
<1>12. goal' \in UserKeys \cup {NoKey}
  <2> HIDE DEF T
  <2> QED
    BY <1>1, <1>6, <1>11, GoalTyped
<1>13. valid' \in BOOLEAN /\ skipping' \in BOOLEAN /\ pc' \in {"idle", "next", "prev", "turn"}
  BY <1>1, <1>6, EnterFindNextKinds DEF Kinds
<1>14. Kinds'
  <2>1. reverse' = FALSE /\ savedKey' = target /\ savedValue' = 0 /\ valueType' = valueType
    BY DEF Seek
  <2>2. savedValue' \in 0 .. MaxSeq
    BY <2>1, SeqAssumption
  <2>3. valueType' \in Types
    BY <1>1, <2>1 DEF Kinds
  <2> QED
    BY <1>12, <1>13, <2>1, <2>2, <2>3 DEF Kinds
<1> QED
  BY <1>2, <1>7, <1>10, <1>14 DEF IterInv

LEMMA SeekToFirstInv == ASSUME IterInv, SeekToFirst PROVE IterInv'
<1>1. Moves /\ Stored /\ Merged /\ Kinds
  BY DEF SeekToFirst, Moves, IterInv
<1>2. Stored' /\ Sees' = Sees
  BY <1>1, MovesKeeps
<1>3. goal' = Least(Keys(Live(Sees))) /\ ~ reverse' /\ EnterFindNext(FALSE)
  BY <1>1, ShownIs DEF SeekToFirst
<1>4. /\ Merged'
      /\ current' = NoChild => Sees = {}
      /\ current' # NoChild =>
             Entry' \in Entries /\ Entry' \in Written /\ \A v \in Sees : ~ Before(v, Entry')
  BY <1>1, ToFirst DEF Moves, SeekToFirst
<1>5. ASSUME current' = NoChild PROVE goal' = NoKey
  <2>1. Keys(Live(Sees)) = {}
    BY <1>4, <1>5 DEF Live, Keys
  <2> QED
    BY <1>3, <2>1, NoneLeast
<1>6. ASSUME current' # NoChild PROVE Onward(Sees, Entry', FALSE, savedKey', goal')
  <2>1. Live(Sees) = {t \in Live(Sees) : ~ Before(t, Entry') /\ ~ (FALSE /\ t.key =< savedKey')}
    BY <1>4, <1>6 DEF Live
  <2> QED
    BY <1>3, <1>4, <1>6, <2>1 DEF Onward
<1>7. Loop'
  BY <1>1, <1>3, <1>5, <1>6, EnterFindNextInv
<1>8. goal' \in UserKeys \cup {NoKey}
  BY <1>1, <1>3, GoalTyped DEF Live
<1>9. valid' \in BOOLEAN /\ skipping' \in BOOLEAN /\ pc' \in {"idle", "next", "prev", "turn"}
  BY <1>1, <1>3, EnterFindNextKinds DEF Kinds
<1>10. Kinds'
  <2>1. reverse' = FALSE /\ savedKey' = savedKey /\ savedValue' = 0 /\ valueType' = valueType
    BY DEF SeekToFirst
  <2>2. savedValue' \in 0 .. MaxSeq
    BY <2>1, SeqAssumption
  <2>3. valueType' \in Types /\ savedKey' \in UserKeys \cup {NoKey}
    BY <1>1, <2>1 DEF Kinds
  <2> QED
    BY <1>8, <1>9, <2>1, <2>2, <2>3 DEF Kinds
<1> QED
  BY <1>2, <1>4, <1>7, <1>10 DEF IterInv

LEMMA SeekToLastInv == ASSUME IterInv, SeekToLast PROVE IterInv'
<1>1. Moves /\ Stored /\ Merged /\ Kinds
  BY DEF SeekToLast, Moves, IterInv
<1>2. Stored' /\ Sees' = Sees
  BY <1>1, MovesKeeps
<1>3. goal' = Greatest(Keys(Live(Sees))) /\ reverse' /\ pc' = "prev" /\ valueType' = "deletion"
  BY <1>1, ShownIs DEF SeekToLast
<1>4. /\ Merged'
      /\ current' = NoChild => Sees = {}
      /\ current' # NoChild =>
             Entry' \in Entries /\ Entry' \in Written /\ \A v \in Sees : ~ Before(Entry', v)
  BY <1>1, ToLast DEF Moves, SeekToLast
<1>5. Remaining' = Sees
  BY <1>2, <1>4 DEF Remaining
<1>6. Live(Sees) \cap Sees = Live(Sees)
  BY DEF Live
<1>7. Backward(Sees, Sees, "deletion", savedKey', savedValue', goal')
  BY <1>3, <1>6 DEF Backward
<1>8. Loop'
  BY <1>2, <1>3, <1>5, <1>7 DEF Loop, InPrev
<1>9. goal' \in UserKeys \cup {NoKey}
  BY <1>1, <1>3, GoalTyped DEF Live
<1>10. Kinds'
  BY <1>1, <1>3, <1>9, SeqAssumption DEF Kinds, SeekToLast, Types
<1> QED
  BY <1>2, <1>4, <1>8, <1>10 DEF IterInv

LEMMA BetweenIs ==
    ASSUME IterInv, pc = "idle", valid
    PROVE  \E t \in Live(Sees) : Shows(t) /\ Key = t.key /\ t \in Sees /\ t \in Entries
                                 /\ t.key \in UserKeys /\ t.key \in Int
<1>1. PICK t \in Live(Sees) : Shows(t)
  BY DEF IterInv, Loop, Between
<1>2. Numbered(Sees) /\ t \in Sees
  BY WrittenIs DEF IterInv, Live
<1>3. t \in Entries
  BY <1>2 DEF Numbered
<1>4. Key = t.key
  BY <1>1 DEF Shows, Key
<1> QED
  BY <1>1, <1>2, <1>3, <1>4, EntryFields

LEMMA NextKeyInv == ASSUME IterInv, NextKey PROVE IterInv'
<1>1. Moves /\ Stored /\ Merged /\ Kinds /\ pc = "idle" /\ valid
  BY DEF NextKey, Moves, IterInv
<1>2. Stored' /\ Sees' = Sees
  BY <1>1, MovesKeeps
<1>3. PICK t \in Live(Sees) : Shows(t) /\ Key = t.key /\ t \in Sees /\ t \in Entries
                              /\ t.key \in UserKeys /\ t.key \in Int
  BY <1>1, BetweenIs
<1> DEFINE T == {u \in Live(Sees) : u.key > t.key}
<1>4. \A v \in Sees : v \in Entries /\ v.key \in Int /\ v.seq \in Int
  BY <1>1, WrittenIs, EntryFields DEF Numbered
<1>5. goal' = Least(Keys(T)) /\ ~ reverse'
  BY <1>1, <1>3, GoalIs DEF NextKey
<1>6. T \subseteq Sees
  BY DEF Live
<1>7. goal' \in UserKeys \cup {NoKey}
  <2> HIDE DEF T
  <2> QED
    BY <1>1, <1>5, <1>6, GoalTyped
<1>8. CASE ~ reverse
  <2>1. UNCHANGED merger /\ savedKey' = t.key /\ current # NoChild /\ Entry = t
        /\ EnterFindNext(TRUE)
    BY <1>3, <1>8 DEF NextKey, Shows, Key
  <2>2. Merged' /\ Entry' = t /\ current' # NoChild
    BY <1>1, <2>1, MergedStays
  <2>3. Onward(Sees, t, TRUE, t.key, goal')
    <3>1. T = {u \in Live(Sees) : ~ Before(u, t) /\ ~ (TRUE /\ u.key =< t.key)}
      BY <1>3, <1>4 DEF Live, Before
    <3>2. \A v \in Sees : ~ Before(v, t) => t.key =< v.key
      BY <1>3, <1>4 DEF Before
    <3> HIDE DEF T
    <3> QED
      BY <1>3, <1>5, <3>1, <3>2 DEF Onward
  <2>4. Loop'
    BY <1>1, <1>5, <2>1, <2>2, <2>3, EnterFindNextInv
  <2>5. Kinds'
    BY <1>1, <1>3, <1>7, <2>1, EnterFindNextKinds DEF Kinds, NextKey
  <2> QED
    BY <1>2, <2>2, <2>4, <2>5 DEF IterInv
<1>9. CASE reverse
  <2>1. /\ IF current = NoChild THEN MergingSeekToFirst ELSE MergingNext
        /\ savedKey' = IF current' = NoChild THEN NoKey ELSE savedKey
        /\ EnterFindNext(TRUE)
    BY <1>9 DEF NextKey
  <2>2. /\ savedKey = t.key
        /\ \A v \in Sees : v.key < t.key <=> current # NoChild /\ ~ Before(Entry, v)
    BY <1>3, <1>9 DEF Shows, Remaining
  <2>3. Merged' /\ (current' = NoChild => \A v \in Sees : v.key < t.key)
        /\ (current' # NoChild =>
                /\ Entry' \in Entries
                /\ \A v \in Sees : v.key >= t.key => ~ Before(v, Entry')
                /\ \A v \in Sees : v.key < t.key => Before(v, Entry'))
    <3>1. CASE current = NoChild
      BY <1>1, <1>4, <2>1, <2>2, <3>1, ToFirst DEF Moves
    <3>2. CASE current # NoChild
      <4>1. /\ Merged'
            /\ current' = NoChild => \A v \in Sees : ~ Before(Entry, v)
            /\ current' # NoChild =>
                   /\ Entry' \in Entries /\ Entry' \in Written /\ Before(Entry, Entry')
                   /\ \A v \in Sees : Before(Entry, v) => ~ Before(v, Entry')
        BY <1>1, <2>1, <3>2, ToNext DEF Moves
      <4>2. \A v \in Sees : v.key < t.key <=> ~ Before(Entry, v)
        BY <2>2, <3>2
      <4>3. ASSUME current' # NoChild, NEW v \in Sees
            PROVE  /\ v.key >= t.key => ~ Before(v, Entry')
                   /\ v.key < t.key => Before(v, Entry')
        <5>1. v.key >= t.key <=> ~ (v.key < t.key)
          BY <1>3, <1>4
        <5>2. Entry'.key \in Int /\ Entry'.seq \in Int /\ Entry.key \in Int /\ Entry.seq \in Int
          BY <1>1, <3>2, <4>1, <4>3, CurrentIs, EntryFields
        <5>3. v.key < t.key => Before(v, Entry')
          BY <1>4, <4>1, <4>2, <4>3, <5>2, BeforeOrder
        <5> QED
          BY <4>1, <4>2, <4>3, <5>1, <5>3
      <4> QED
        BY <4>1, <4>2, <4>3
    <3> QED
      BY <3>1, <3>2
  <2>4. ASSUME current' = NoChild PROVE goal' = NoKey
    <3>1. \A v \in Sees : v.key < t.key
      BY <2>3, <2>4
    <3>2. T = {}
      BY <1>3, <1>4, <3>1 DEF Live
    <3>3. Keys(T) = {}
      BY <3>2 DEF Keys
    <3> QED
      BY <1>5, <3>3, NoneLeast
  <2>5. ASSUME current' # NoChild PROVE Onward(Sees, Entry', TRUE, savedKey', goal')
    <3>1. savedKey' = t.key /\ Entry'.key \in Int /\ Entry'.seq \in Int
      BY <2>1, <2>2, <2>3, <2>5, EntryFields
    <3>2. ASSUME NEW v \in Sees, Before(v, Entry'), v.key = Entry'.key PROVE Entry'.key =< t.key
      BY <1>3, <1>4, <2>3, <2>5, <3>1, <3>2
    <3>3. ASSUME NEW v \in Sees, ~ Before(v, Entry') PROVE t.key =< v.key
      BY <1>3, <1>4, <2>3, <2>5, <3>3
    <3>4. ASSUME NEW u \in Live(Sees)
          PROVE  u.key > t.key <=> ~ Before(u, Entry') /\ ~ (TRUE /\ u.key =< t.key)
      <4>1. u \in Sees
        BY DEF Live
      <4> QED
        BY <1>3, <1>4, <2>3, <2>5, <4>1
    <3>5. T = {u \in Live(Sees) : ~ Before(u, Entry') /\ ~ (TRUE /\ u.key =< t.key)}
      BY <3>4
    <3> HIDE DEF T
    <3> QED
      BY <1>5, <3>1, <3>2, <3>3, <3>5 DEF Onward
  <2>6. Loop'
    BY <1>1, <1>5, <2>1, <2>3, <2>4, <2>5, EnterFindNextInv
  <2>7. savedKey' \in UserKeys \cup {NoKey} /\ valid' \in BOOLEAN /\ skipping' \in BOOLEAN
        /\ pc' \in {"idle", "next", "prev", "turn"}
    BY <1>1, <2>1, EnterFindNextKinds DEF Kinds
  <2>8. Kinds'
    BY <1>1, <1>7, <2>7 DEF Kinds, NextKey
  <2> QED
    BY <1>2, <2>3, <2>6, <2>8 DEF IterInv
<1> QED
  BY <1>1, <1>8, <1>9 DEF Kinds

LEMMA PrevKeyInv == ASSUME IterInv, PrevKey PROVE IterInv'
<1>1. Moves /\ Stored /\ Merged /\ Kinds /\ pc = "idle" /\ valid /\ UNCHANGED merger
  BY DEF PrevKey, Moves, IterInv
<1>2. Stored' /\ Sees' = Sees /\ Merged' /\ Entry' = Entry /\ current' = current
  BY <1>1, MovesKeeps, MergedStays
<1>3. PICK t \in Live(Sees) : Shows(t) /\ Key = t.key /\ t \in Sees /\ t \in Entries
                              /\ t.key \in UserKeys /\ t.key \in Int
  BY <1>1, BetweenIs
<1> DEFINE T == {u \in Live(Sees) : u.key < t.key}
<1>4. goal' = Greatest(Keys(T)) /\ savedKey' = t.key /\ valueType' = "deletion"
      /\ reverse' = reverse /\ pc' = IF reverse THEN "prev" ELSE "turn"
  BY <1>1, <1>3, GoalIs DEF PrevKey
<1>5. T \subseteq Sees
  BY DEF Live
<1>6. goal' \in UserKeys \cup {NoKey}
  <2> HIDE DEF T
  <2> QED
    BY <1>1, <1>4, <1>5, GoalTyped
<1>7. Loop'
  <2>1. CASE ~ reverse
    <3>1. current # NoChild /\ Entry = t
      BY <1>3, <2>1 DEF Shows
    <3>2. InTurn'
      BY <1>2, <1>3, <1>4, <2>1, <3>1 DEF InTurn
    <3> QED
      BY <1>4, <2>1, <3>2 DEF Loop
  <2>2. CASE reverse
    <3>1. \A v \in Sees : v.key < t.key <=> v \in Remaining
      BY <1>3, <2>2 DEF Shows
    <3>2. T = Live(Sees) \cap Remaining
      BY <3>1 DEF Live
    <3>3. Remaining' = Remaining
      BY <1>2 DEF Remaining
    <3>4. Backward(Sees, Remaining, "deletion", savedKey', savedValue', goal')
      BY <1>4, <3>2 DEF Backward
    <3>5. InPrev'
      BY <1>2, <1>4, <2>2, <3>3, <3>4 DEF InPrev
    <3> QED
      BY <1>4, <2>2, <3>5 DEF Loop
  <2> QED
    BY <1>1, <2>1, <2>2 DEF Kinds
<1>8. pc' \in {"idle", "next", "prev", "turn"}
  BY <1>4
<1>9. Kinds'
  BY <1>1, <1>3, <1>4, <1>6, <1>8 DEF Kinds, PrevKey, Types
<1> QED
  BY <1>2, <1>7, <1>9 DEF IterInv

LEMMA EntrySeen ==
    ASSUME Stored, Merged, current # NoChild
    PROVE  /\ Entry \in Entries
           /\ Entry \in Sees <=> Entry.seq =< sequence
           /\ \A v \in Sees : v.seq = Entry.seq => v = Entry
<1>1. Entry \in Written /\ Entry \in Entries
  BY CurrentIs
<1>2. Numbered(Written)
  BY WrittenIs
<1> QED
  BY <1>1, <1>2 DEF Sees, Numbered

LEMMA FindNextUserEntryInv == ASSUME IterInv, FindNextUserEntry PROVE IterInv'
<1>1. Moves /\ Stored /\ Merged /\ Kinds /\ InNext
  BY DEF FindNextUserEntry, Moves, IterInv, Loop
<1>2. Stored' /\ Sees' = Sees /\ Numbered(Sees)
  BY <1>1, MovesKeeps, WrittenIs
<1>3. /\ Entry \in Entries /\ current # NoChild /\ ~ reverse
      /\ Entry \in Sees <=> Entry.seq =< sequence
      /\ \A v \in Sees : v.seq = Entry.seq => v = Entry
      /\ Onward(Sees, Entry, skipping, savedKey, goal)
      /\ skipping \in BOOLEAN /\ savedKey \in Int
  BY <1>1, EntrySeen, KeyIsInt DEF InNext, Kinds
<1>4. /\ Entry.key \in UserKeys /\ Entry.key \in Int /\ Entry.seq \in Int /\ Entry.type \in Types
  BY <1>3, EntryFields
<1>5. UNCHANGED <<reverse, savedValue, valueType, goal>>
  BY DEF FindNextUserEntry
<1> DEFINE found == Entry \in Sees /\ Entry.type = "value" /\ ~ (skipping /\ Entry.key =< savedKey)
           deleted == Entry \in Sees /\ Entry.type = "deletion"
           key == IF deleted THEN Entry.key ELSE savedKey
<1>6. CASE found
  <2>1. valid' = TRUE /\ savedKey' = NoKey /\ pc' = "idle" /\ UNCHANGED <<merger, skipping>>
    BY <1>3, <1>6 DEF FindNextUserEntry, Hidden
  <2>2. Entry \in Live(Sees) /\ goal = Entry.key
    BY <1>2, <1>3, <1>6, OnwardFound
  <2>3. Merged' /\ Entry' = Entry /\ current' = current
    BY <1>1, <2>1, MergedStays
  <2>4. Shows(Entry)'
    BY <1>3, <1>5, <2>2, <2>3 DEF Shows
  <2>5. Loop'
    BY <1>2, <2>1, <2>2, <2>3, <2>4 DEF Loop, Between
  <2>6. Kinds'
    BY <1>1, <1>5, <2>1 DEF Kinds
  <2> QED
    BY <1>2, <2>3, <2>5, <2>6 DEF IterInv
<1>7. CASE ~ found
  <2>1. /\ MergingNext
        /\ skipping' = (skipping \/ deleted)
        /\ savedKey' = IF current' = NoChild THEN NoKey ELSE key
        /\ valid' = IF current' = NoChild THEN FALSE ELSE valid
        /\ pc' = IF current' = NoChild THEN "idle" ELSE "next"
    BY <1>3, <1>7 DEF FindNextUserEntry, Hidden
  <2>2. /\ Merged'
        /\ current' = NoChild => \A v \in Sees : ~ Before(Entry, v)
        /\ current' # NoChild =>
               /\ Entry' \in Entries /\ Entry' \in Written /\ Before(Entry, Entry')
               /\ \A v \in Sees : Before(Entry, v) => ~ Before(v, Entry')
    BY <1>1, <1>3, <2>1, ToNext DEF Moves
  <2>3. Entry \in Sees /\ Entry.type = "value" => skipping /\ Entry.key =< savedKey
    BY <1>7
  <2>4. ASSUME current' = NoChild PROVE Loop'
    <3>1. goal = NoKey
      BY <1>2, <1>3, <2>2, <2>3, <2>4, OnwardEnd
    <3>2. pc' = "idle" /\ ~ valid' /\ goal' = NoKey
      BY <1>5, <2>1, <2>4, <3>1
    <3> QED
      BY <3>2 DEF Loop, Between
  <2>5. ASSUME current' # NoChild PROVE Loop'
    <3>1. deleted \in BOOLEAN /\ (deleted <=> Entry \in Sees /\ Entry.type = "deletion")
      OBVIOUS
    <3>2. \A d \in Entries :
              Before(Entry, d) /\ (\A v \in Sees : Before(Entry, v) => ~ Before(v, d))
              => Onward(Sees, d, skipping \/ deleted, key, goal)
      <4> HIDE DEF found
      <4> QED
        BY <1>2, <1>3, <2>3, <3>1, OnwardOn
    <3>3. Onward(Sees, Entry', skipping \/ deleted, key, goal)
      <4> HIDE DEF key, deleted, found
      <4> QED
        BY <2>2, <2>5, <3>2
    <3>4. InNext'
      <4> HIDE DEF key, deleted, found
      <4> QED
        BY <1>2, <1>3, <1>5, <2>1, <2>5, <3>3 DEF InNext
    <3>5. pc' = "next"
      BY <2>1, <2>5
    <3> QED
      BY <3>4, <3>5 DEF Loop
  <2>6. Loop'
    BY <2>4, <2>5
  <2>7. savedKey' \in UserKeys \cup {NoKey} /\ pc' \in {"idle", "next", "prev", "turn"}
        /\ valid' \in BOOLEAN
    BY <1>1, <1>4, <2>1 DEF Kinds
  <2>8. skipping' \in BOOLEAN
    BY <1>3, <2>1
  <2>9. Kinds'
    BY <1>1, <1>5, <2>7, <2>8 DEF Kinds
  <2> QED
    BY <1>2, <2>2, <2>6, <2>9 DEF IterInv
<1> QED
  BY <1>6, <1>7

LEMMA TurnInv == ASSUME IterInv, Turn PROVE IterInv'
<1>1. Moves /\ Stored /\ Merged /\ Kinds /\ InTurn
  BY DEF Turn, Moves, IterInv, Loop
<1>2. Stored' /\ Sees' = Sees
  BY <1>1, MovesKeeps
<1> DEFINE T == {t \in Live(Sees) : t.key < savedKey}
           ended == current' = NoChild
           past == current' # NoChild /\ Entry'.key < savedKey
<1>3. /\ current # NoChild /\ valueType = "deletion" /\ savedKey =< Entry.key
      /\ goal = Greatest(Keys(T)) /\ savedKey \in Int
  BY <1>1, KeyIsInt DEF InTurn, Kinds
<1>4. /\ valid' = IF ended THEN FALSE ELSE valid
      /\ savedKey' = IF ended THEN NoKey ELSE savedKey
      /\ savedValue' = IF ended THEN 0 ELSE savedValue
      /\ pc' = IF ended THEN "idle" ELSE IF past THEN "prev" ELSE "turn"
      /\ reverse' = past
      /\ MergingPrev
      /\ UNCHANGED <<skipping, valueType, goal>>
  BY DEF Turn, Entry, locals
<1>5. Entry.key \in Int /\ Entry.seq \in Int
  BY <1>1, <1>3, CurrentIs
<1>6. /\ Merged'
      /\ current' = NoChild => \A v \in Sees : ~ Before(v, Entry)
      /\ current' # NoChild =>
             /\ Entry' \in Entries /\ Entry' \in Written /\ Before(Entry', Entry)
             /\ \A v \in Sees : Before(v, Entry) => ~ Before(Entry', v)
  BY <1>1, <1>3, <1>4, ToPrev DEF Moves
<1>7. \A v \in Sees : v.key \in Int /\ v.seq \in Int
  BY <1>1, WrittenIs, EntryFields DEF Numbered
<1>8. \A v \in Sees : v.key < savedKey => Before(v, Entry)
  BY <1>3, <1>5, <1>7 DEF Before
<1>9. ASSUME ended PROVE Loop'
  <2>1. T = {}
    BY <1>6, <1>8, <1>9 DEF Live
  <2>2. Keys(T) = {}
    BY <2>1 DEF Keys
  <2>3. goal' = NoKey /\ pc' = "idle" /\ ~ valid'
    BY <1>3, <1>4, <1>9, <2>2, NoneLeast
  <2> QED
    BY <2>3 DEF Loop, Between
<1>10. ASSUME past PROVE Loop'
  <2>1. Entry'.key \in Int /\ Entry'.seq \in Int /\ current' # NoChild /\ Entry'.key < savedKey
    BY <1>6, <1>10, EntryFields
  <2>2. \A v \in Sees : v \in Remaining' <=> v.key < savedKey
    <3>1. \A v \in Sees : v \in Remaining' <=> ~ Before(Entry', v)
      BY <1>2, <2>1 DEF Remaining
    <3>2. \A v \in Sees : ~ Before(Entry', v) => v.key < savedKey
      BY <1>3, <1>7, <2>1 DEF Before
    <3> QED
      BY <1>6, <1>8, <2>1, <3>1, <3>2
  <2>3. T = Live(Sees) \cap Remaining'
    BY <2>2 DEF Live
  <2>4. Backward(Sees, Remaining', valueType', savedKey', savedValue', goal')
    <3>1. valueType' = "deletion" /\ goal' = Greatest(Keys(Live(Sees) \cap Remaining'))
      BY <1>3, <1>4, <2>3
    <3> QED
      BY <3>1 DEF Backward
  <2>5. reverse' /\ pc' = "prev"
    BY <1>4, <1>10
  <2>6. InPrev'
    BY <1>2, <2>4, <2>5 DEF InPrev
  <2> QED
    BY <2>5, <2>6 DEF Loop
<1>11. ASSUME ~ ended, ~ past PROVE Loop'
  <2>1. pc' = "turn" /\ ~ reverse' /\ savedKey' = savedKey /\ current' # NoChild
        /\ valueType' = "deletion" /\ goal' = Greatest(Keys(T))
    BY <1>3, <1>4, <1>11
  <2>2. savedKey =< Entry'.key
    BY <1>3, <1>6, <1>11, EntryFields
  <2>3. InTurn'
    BY <1>2, <2>1, <2>2 DEF InTurn
  <2> QED
    BY <2>1, <2>3 DEF Loop
<1>12. Loop'
  BY <1>9, <1>10, <1>11
<1>13. pc' \in {"idle", "next", "prev", "turn"} /\ valid' \in BOOLEAN /\ reverse' \in BOOLEAN
       /\ savedKey' \in UserKeys \cup {NoKey}
  BY <1>1, <1>4 DEF Kinds
<1>14. savedValue' \in 0 .. MaxSeq
  BY <1>1, <1>4, SeqAssumption DEF Kinds
<1>15. Kinds'
  BY <1>1, <1>4, <1>13, <1>14 DEF Kinds
<1> QED
  BY <1>2, <1>6, <1>12, <1>15 DEF IterInv

\* The end of FindPrevUserEntry, with a value or with none.
LEMMA ReturnPrevInv ==
    ASSUME Stored, Merged, Kinds, InPrev, Moves, UNCHANGED <<merger, goal>>,
           ReturnPrev(valueType), \A v \in Remaining : v.key < savedKey,
           valueType = "deletion" => Remaining = {},
           valueType = "value" => UNCHANGED <<savedKey, savedValue>>
    PROVE  Loop'
<1>1. Stored' /\ Sees' = Sees /\ Numbered(Sees)
  BY MovesKeeps, WrittenIs
<1>2. Merged' /\ Entry' = Entry /\ current' = current
  BY MergedStays
<1>3. Remaining' = Remaining /\ Remaining \subseteq Sees
  BY <1>1, <1>2 DEF Remaining
<1>4. pc' = "idle" /\ valid' = (valueType # "deletion") /\ reverse' = (valueType # "deletion")
  BY DEF ReturnPrev
<1>5. Backward(Sees, Remaining, valueType, savedKey, savedValue, goal)
  BY DEF InPrev
<1>6. CASE valueType = "deletion"
  <2>1. goal = NoKey
    BY <1>5, <1>6, BackwardNone
  <2> QED
    BY <1>4, <1>6, <2>1 DEF Loop, Between
<1>7. CASE valueType = "value"
  <2>1. PICK x \in Live(Sees) :
            /\ x.key = savedKey /\ x.seq = savedValue /\ goal = savedKey
            /\ \A v \in Sees : v.key < savedKey <=> v \in Remaining
    BY <1>1, <1>3, <1>5, <1>7, BackwardFound
  <2>2. reverse' /\ valid'
    BY <1>4, <1>7
  <2>3. Shows(x)'
    BY <1>1, <1>3, <1>7, <2>1, <2>2 DEF Shows
  <2> QED
    BY <1>1, <1>4, <2>2, <2>3 DEF Loop, Between
<1> QED
  BY <1>6, <1>7 DEF Kinds, Types

LEMMA FindPrevUserEntryInv == ASSUME IterInv, FindPrevUserEntry PROVE IterInv'
<1>1. Moves /\ Stored /\ Merged /\ Kinds /\ InPrev
  BY DEF FindPrevUserEntry, Moves, IterInv, Loop
<1>2. Stored' /\ Sees' = Sees /\ Numbered(Sees) /\ Remaining \subseteq Sees
  BY <1>1, MovesKeeps, WrittenIs DEF Remaining
<1>3. reverse /\ Backward(Sees, Remaining, valueType, savedKey, savedValue, goal)
      /\ savedKey \in Int /\ valueType \in Types
  BY <1>1, KeyIsInt DEF InPrev, Kinds
<1>4. UNCHANGED <<skipping, goal>> /\ pc = "prev"
  BY DEF FindPrevUserEntry
<1>5. \A v \in Sees : v.key \in Int /\ v.seq \in Int
  BY <1>2, EntryFields DEF Numbered
<1>6. CASE current = NoChild
  <2>1. /\ ReturnPrev(valueType)
        /\ savedKey' = IF valueType = "deletion" THEN NoKey ELSE savedKey
        /\ savedValue' = IF valueType = "deletion" THEN 0 ELSE savedValue
        /\ UNCHANGED <<merger, valueType>>
    BY <1>6 DEF FindPrevUserEntry
  <2>2. Remaining = {}
    BY <1>6 DEF Remaining
  <2>3. valueType = "value" => UNCHANGED <<savedKey, savedValue>>
    BY <2>1
  <2>4. Loop'
    BY <1>1, <1>4, <2>1, <2>2, <2>3, ReturnPrevInv
  <2>5. Merged'
    BY <1>1, <2>1, MergedStays
  <2>6. savedKey' \in UserKeys \cup {NoKey} /\ savedValue' \in 0 .. MaxSeq
    BY <1>1, <2>1, SeqAssumption DEF Kinds
  <2>7. Kinds'
    BY <1>1, <1>4, <2>1, <2>6 DEF Kinds, ReturnPrev
  <2> QED
    BY <1>2, <2>4, <2>5, <2>7 DEF IterInv
<1> DEFINE found == Entry.seq =< sequence /\ valueType # "deletion" /\ Entry.key < savedKey
<1>7. CASE current # NoChild
  <2>1. /\ Entry \in Entries /\ Entry.key \in Int /\ Entry.seq \in Int
        /\ Entry \in Sees <=> Entry.seq =< sequence
        /\ \A v \in Sees : v.seq = Entry.seq => v = Entry
    BY <1>1, <1>7, EntrySeen, EntryFields
  <2>2. Remaining = {v \in Sees : ~ Before(Entry, v)}
    BY <1>7 DEF Remaining
  <2>3. CASE found
    <3>1. ReturnPrev(valueType) /\ UNCHANGED <<merger, savedKey, savedValue, valueType>>
      BY <1>7, <2>3 DEF FindPrevUserEntry, FoundPrev
    <3>2. \A v \in Remaining : v.key < savedKey
      <4>1. \A v \in Sees : ~ Before(Entry, v) => v.key =< Entry.key
        BY <1>5, <2>1, BeforeOrder
      <4> QED
        BY <1>3, <1>5, <2>1, <2>2, <2>3, <4>1
    <3>3. valueType = "value" /\ valueType # "deletion"
      BY <1>3, <2>3 DEF Types
    <3>4. Loop'
      BY <1>1, <1>4, <3>1, <3>2, <3>3, ReturnPrevInv
    <3>5. Merged'
      BY <1>1, <3>1, MergedStays
    <3>6. Kinds'
      BY <1>1, <1>4, <3>1 DEF Kinds, ReturnPrev
    <3> QED
      BY <1>2, <3>4, <3>5, <3>6 DEF IterInv
  <2>4. CASE ~ found
    <3> DEFINE seen == Entry.seq =< sequence
    <3>1. /\ MergingPrev
          /\ valueType' = IF seen THEN Entry.type ELSE valueType
          /\ savedKey' = IF ~ seen THEN savedKey
                         ELSE IF Entry.type = "value" THEN Entry.key ELSE NoKey
          /\ savedValue' = IF ~ seen THEN savedValue
                           ELSE IF Entry.type = "value" THEN Entry.seq ELSE 0
          /\ UNCHANGED <<pc, valid, reverse>>
      BY <1>7, <2>4 DEF FindPrevUserEntry
    <3>2. /\ Merged'
          /\ current' = NoChild => \A v \in Sees : ~ Before(v, Entry)
          /\ current' # NoChild =>
                 /\ Entry' \in Entries /\ Entry' \in Written /\ Before(Entry', Entry)
                 /\ \A v \in Sees : Before(v, Entry) => ~ Before(Entry', v)
      BY <1>1, <1>7, <3>1, ToPrev DEF Moves
    <3>3. \A v \in Sees : v \in Remaining' <=> Before(v, Entry)
      <4>1. CASE current' = NoChild
        BY <1>2, <3>2, <4>1 DEF Remaining
      <4>2. CASE current' # NoChild
        <5>1. \A v \in Sees : v \in Remaining' <=> ~ Before(Entry', v)
          BY <1>2, <4>2 DEF Remaining
        <5>2. Entry'.key \in Int /\ Entry'.seq \in Int
          BY <3>2, <4>2, EntryFields
        <5>3. \A v \in Sees : ~ Before(Entry', v) => Before(v, Entry)
          BY <1>5, <2>1, <3>2, <4>2, <5>2, BeforeOrder
        <5> QED
          BY <3>2, <4>2, <5>1, <5>3
      <4> QED
        BY <4>1, <4>2
    <3>4. Remaining' \subseteq Sees
      BY <1>2 DEF Remaining
    <3>5. \A v \in Sees : v # Entry => (Before(v, Entry) <=> ~ Before(Entry, v))
      BY <1>5, <2>1, BeforeOrder
    <3>6. Remaining' = Remaining \ {Entry}
      <4>1. ~ Before(Entry, Entry)
        BY <2>1, BeforeOrder
      <4> QED
        BY <2>2, <3>3, <3>4, <3>5, <4>1
    <3>7. Backward(Sees, Remaining', valueType', savedKey', savedValue', goal')
      <4>1. CASE ~ seen
        <5>1. Remaining' = Remaining
          BY <1>2, <2>1, <3>6, <4>1
        <5> QED
          BY <1>3, <1>4, <3>1, <4>1, <5>1
      <4>2. CASE seen
        <5>1. Entry \in Remaining
          BY <2>1, <2>2, <4>2, BeforeOrder
        <5>2. /\ \A v \in Remaining : ~ Before(Entry, v)
              /\ \A v \in Sees \ Remaining : Before(Entry, v)
          BY <2>2
        <5>3. ~ (valueType = "value" /\ Entry.key < savedKey)
          BY <2>4, <4>2
        <5>4. Backward(Sees, Remaining \ {Entry}, Entry.type,
                       IF Entry.type = "value" THEN Entry.key ELSE NoKey,
                       IF Entry.type = "value" THEN Entry.seq ELSE 0, goal)
          BY <1>2, <1>3, <5>1, <5>2, <5>3, BackwardOn
        <5> QED
          BY <1>4, <3>1, <3>6, <4>2, <5>4
      <4> QED
        BY <4>1, <4>2
    <3>8. InPrev' /\ pc' = "prev"
      BY <1>2, <1>3, <1>4, <3>1, <3>7 DEF InPrev
    <3>9. Loop'
      BY <3>8 DEF Loop
    <3>10. Entry.key \in UserKeys /\ Entry.seq \in 0 .. MaxSeq /\ Entry.type \in Types
      BY <2>1, EntryFields, SeqAssumption
    <3>11. savedKey' \in UserKeys \cup {NoKey} /\ valueType' \in Types
      BY <1>1, <3>1, <3>10 DEF Kinds
    <3>12. savedValue' \in 0 .. MaxSeq
      BY <1>1, <3>1, <3>10, SeqAssumption DEF Kinds
    <3>13. Kinds'
      BY <1>1, <1>4, <3>1, <3>11, <3>12 DEF Kinds
    <3> QED
      BY <1>2, <3>2, <3>9, <3>13 DEF IterInv
  <2> QED
    BY <2>3, <2>4
<1> QED
  BY <1>6, <1>7

-----------------------------------------------------------------------------
(* What TableBuilder lays out.                                                *)

\* Sorting: an entry's place is one after the number of those before it.
LEMMA SortedIs ==
    ASSUME NEW es, Numbered(es)
    PROVE  Ascending(Sorted(es)) /\ Elems(Sorted(es)) = es
<1> DEFINE n == Cardinality(es)
           below(e) == {o \in es : Before(o, e)}
           r == [e \in es |-> Cardinality(below(e)) + 1]
           s == Sorted(es)
<1>1. IsFiniteSet(es) /\ n \in Nat
  BY NumberedFinite, FS_CardinalityType
<1>2. \A e \in es : e.key \in Int /\ e.seq \in Int
  BY EntryFields DEF Numbered
<1>3. \A e \in es : IsFiniteSet(below(e)) /\ Cardinality(below(e)) \in Nat
  BY <1>1, FS_Subset, FS_CardinalityType
<1>4. ASSUME NEW e \in es PROVE r[e] \in 1 .. n
  <2>1. below(e) \in SUBSET (es \ {e})
    BY <1>2, BeforeOrder
  <2>2. IsFiniteSet(es \ {e}) /\ Cardinality(es \ {e}) = n - 1
    BY <1>1, FS_RemoveElement
  <2>3. Cardinality(below(e)) =< n - 1
    BY <2>1, <2>2, FS_Subset
  <2>4. r[e] = Cardinality(below(e)) + 1
    OBVIOUS
  <2> HIDE DEF below, r, n
  <2> QED
    BY <1>1, <1>3, <2>3, <2>4
<1>5. ASSUME NEW e \in es, NEW f \in es, Before(e, f) PROVE r[e] < r[f]
  <2>1. below(e) \in SUBSET below(f) /\ e \in below(f) /\ e \notin below(e)
    BY <1>2, <1>5, BeforeOrder
  <2>2. Cardinality(below(e)) =< Cardinality(below(f))
        /\ Cardinality(below(e)) # Cardinality(below(f))
    BY <1>3, <2>1, FS_Subset
  <2>3. r[e] = Cardinality(below(e)) + 1 /\ r[f] = Cardinality(below(f)) + 1
    OBVIOUS
  <2> HIDE DEF below, r
  <2> QED
    BY <1>3, <2>2, <2>3
<1>6. \A e, f \in es : r[e] = r[f] => e = f
  <2>1. \A e, f \in es : e = f \/ Before(e, f) \/ Before(f, e)
    BY NumberedOrder
  <2> HIDE DEF r
  <2> QED
    BY <1>4, <1>5, <2>1
<1>7. {r[e] : e \in es} = 1 .. n
  <2> DEFINE R == {r[e] : e \in es}
  <2>1. r \in Bijection(es, R)
    <3>1. r \in [es -> R]
      OBVIOUS
    <3> QED
      BY <1>6, <3>1 DEF Bijection, Injection, IsInjective, Surjection
  <2>2. Cardinality(R) = n
    <3> HIDE DEF r, R
    <3> QED
      BY <1>1, <2>1, FS_Bijection DEF ExistsBijection
  <2>3. IsFiniteSet(1 .. n) /\ Cardinality(1 .. n) = n
    BY <1>1, FS_Interval
  <2>4. R \in SUBSET (1 .. n)
    BY <1>4
  <2> HIDE DEF R
  <2>5. R = 1 .. n
    BY <2>2, <2>3, <2>4, FS_Subset
  <2> QED
    BY <2>5 DEF R
<1>8. DOMAIN s = 1 .. n /\ s \in [1 .. n -> es]
      /\ \A i \in 1 .. n : s[i] \in es /\ r[s[i]] = i
  <2>1. s = [i \in 1 .. n |-> CHOOSE e \in es : Cardinality(below(e)) = i - 1]
    BY DEF Sorted
  <2>2. ASSUME NEW i \in 1 .. n PROVE s[i] \in es /\ Cardinality(below(s[i])) = i - 1
    <3>1. PICK e \in es : r[e] = i
      BY <1>7
    <3>2. Cardinality(below(e)) = i - 1
      <4>1. r[e] = Cardinality(below(e)) + 1
        OBVIOUS
      <4> HIDE DEF below, r
      <4> QED
        BY <1>3, <3>1, <4>1
    <3>3. s[i] = CHOOSE f \in es : Cardinality(below(f)) = i - 1
      BY <2>1
    <3> HIDE DEF below, s
    <3> QED
      BY <3>2, <3>3
  <2>3. \A i \in 1 .. n : s[i] \in es /\ r[s[i]] = i
    <3> HIDE DEF s
    <3> QED
      BY <2>2
  <2> HIDE DEF r, below
  <2> QED
    BY <2>1, <2>3
<1>9. Elems(s) = es
  <2>1. ASSUME NEW e \in es PROVE e \in Elems(s)
    <3>1. r[e] \in 1 .. n
      BY <1>4
    <3>2. s[r[e]] = e
      <4> HIDE DEF r, s
      <4> QED
        BY <1>6, <1>8, <3>1
    <3> HIDE DEF s, r
    <3> QED
      BY <1>8, <3>1, <3>2 DEF Elems
  <2>2. \A e \in Elems(s) : e \in es
    <3> HIDE DEF s, r
    <3> QED
      BY <1>8 DEF Elems
  <2> HIDE DEF s
  <2> QED
    BY <2>1, <2>2
<1>10. ASSUME NEW i \in 1 .. n, NEW j \in 1 .. n, i < j PROVE Before(s[i], s[j])
  <2> HIDE DEF s, r
  <2>1. s[i] = s[j] \/ Before(s[i], s[j]) \/ Before(s[j], s[i])
    BY <1>8, NumberedOrder
  <2> QED
    BY <1>1, <1>5, <1>8, <1>10, <2>1
<1>11. s \in Seq(es)
  <2> HIDE DEF s
  <2> QED
    BY <1>1, <1>8
<1> HIDE DEF s
<1>12. Ascending(s)
  BY <1>2, <1>8, <1>9, <1>10, <1>11 DEF Ascending
<1> QED
  BY <1>9, <1>12 DEF s

\* The bounds of the i-th piece.
LEMMA PieceBounds ==
    ASSUME NEW m \in Nat, NEW n \in Nat \ {0}, NEW i \in 1 .. (m + n - 1) \div n
    PROVE  /\ (i - 1) * n \in Nat /\ i * n = (i - 1) * n + n /\ i * n \in Nat
           /\ 1 + (i - 1) * n =< m
           /\ Lowest({i * n, m}) = IF i * n =< m THEN i * n ELSE m
<1> DEFINE N == (m + n - 1) \div n
<1>1. m + n - 1 \in Nat
  OBVIOUS
<1>2. N \in Nat /\ N * n =< m + n - 1
  BY <1>1, Division
<1>3. (N - 1) * n = N * n - n /\ N * n \in Int
  BY <1>2
<1> HIDE DEF N
<1>4. (i - 1) * n \in Int /\ (i - 1) * n =< (N - 1) * n /\ 0 * n =< (i - 1) * n /\ 0 * n = 0
  <2>1. 0 \in Int /\ i - 1 \in Int /\ N - 1 \in Int /\ i - 1 =< N - 1 /\ 0 =< i - 1
    BY <1>2 DEF N
  <2> QED
    BY <2>1, Times
<1>5. i * n = (i - 1) * n + n
  OBVIOUS
<1>6. i * n \in Nat
  BY <1>4, <1>5
<1>7. Lowest({i * n, m}) = IF i * n =< m THEN i * n ELSE m
  <2> DEFINE x == i * n
  <2>1. x \in Int
    BY <1>6
  <2> HIDE DEF x
  <2>2. CASE x =< m
    <3>1. {x, m} \in SUBSET Int /\ x \in {x, m} /\ \A y \in {x, m} : x =< y
      BY <2>1, <2>2
    <3> QED
      BY <2>2, <3>1, LowestIs DEF x
  <2>3. CASE ~ (x =< m)
    <3>1. {x, m} \in SUBSET Int /\ m \in {x, m} /\ \A y \in {x, m} : m =< y
      BY <2>1, <2>3
    <3> QED
      BY <2>3, <3>1, LowestIs DEF x
  <2> QED
    BY <2>2, <2>3
<1> QED
  BY <1>2, <1>3, <1>4, <1>5, <1>6, <1>7

\* What a piece has: entries from + 1 to upto of s.
From(n, i)  == (i - 1) * n
Upto(m, n, i) == IF i * n =< m THEN i * n ELSE m

IsPiece(p, s, a, z) ==
    /\ a \in Nat /\ z \in Nat /\ a < z /\ z =< Len(s)
    /\ DOMAIN p = 1 .. z - a /\ p # <<>> /\ p \in Seq(Elems(s))
    /\ \A x \in 1 .. z - a : p[x] = s[a + x]

LEMMA PieceIs ==
    ASSUME NEW s, Ascending(s), NEW n \in Nat \ {0}, NEW i \in 1 .. (Len(s) + n - 1) \div n
    PROVE  IsPiece(Pieces(s, n)[i], s, From(n, i), Upto(Len(s), n, i))
<1> DEFINE m == Len(s)  a == From(n, i)  z == Upto(m, n, i)  p == Pieces(s, n)[i]
<1>1. m \in Nat /\ \A x \in 1 .. m : s[x] \in Elems(s)
  BY AscendingIs
<1>2. /\ a \in Nat /\ i * n = a + n /\ i * n \in Nat /\ 1 + a =< m
      /\ Lowest({i * n, m}) = z
  BY <1>1, PieceBounds DEF From, Upto
<1>3. z \in Nat /\ z =< m /\ a < z
  <2> DEFINE w == i * n
  <2>1. z = IF w =< m THEN w ELSE m
    BY DEF Upto
  <2> HIDE DEF w, a, z
  <2> QED
    BY <1>1, <1>2, <2>1 DEF w
<1>4. p = SubSeq(s, 1 + a, z)
  BY <1>2 DEF Pieces, From
<1> HIDE DEF a, z, p, m
<1>5. \A x \in 1 + a .. z : s[x] \in Elems(s)
  BY <1>1, <1>2, <1>3 DEF m
<1>6. /\ p \in Seq(Elems(s))
      /\ Len(p) = IF 1 + a =< z THEN z - (1 + a) + 1 ELSE 0
      /\ \A x \in 1 .. z - (1 + a) + 1 : p[x] = s[(1 + a) + x - 1]
  <2>1. 1 + a \in Int /\ z \in Int
    BY <1>2, <1>3
  <2> QED
    BY <1>4, <1>5, <2>1, SubSeqProperties
<1>7. Len(p) = z - a /\ \A x \in 1 .. z - a : p[x] = s[a + x]
  <2>1. z - (1 + a) + 1 = z - a /\ 1 + a =< z
    BY <1>2, <1>3
  <2>2. \A x \in 1 .. z - a : (1 + a) + x - 1 = a + x
    BY <1>2, <1>3
  <2> QED
    BY <1>6, <2>1, <2>2
<1>8. DOMAIN p = 1 .. z - a /\ p # <<>>
  BY <1>2, <1>3, <1>6, <1>7
<1> QED
  BY <1>2, <1>3, <1>6, <1>7, <1>8 DEF a, z, p, m, IsPiece

LEMMA PiecesIs ==
    ASSUME NEW s, Ascending(s), NEW n \in Nat \ {0}
    PROVE  LET ps == Pieces(s, n) IN
           /\ Len(ps) \in Nat /\ DOMAIN ps = 1 .. Len(ps)
           /\ \A i \in DOMAIN ps : Ascending(ps[i]) /\ ps[i] # <<>>
           /\ \A i, j \in DOMAIN ps : i < j =>
                  \A a \in Elems(ps[i]), b \in Elems(ps[j]) : Before(a, b)
           /\ UNION {Elems(ps[i]) : i \in DOMAIN ps} = Elems(s)
<1> DEFINE m == Len(s)  N == (m + n - 1) \div n  ps == Pieces(s, n)
           a(i) == From(n, i)  z(i) == Upto(m, n, i)
<1>1. /\ m \in Nat /\ DOMAIN s = 1 .. m
      /\ \A i \in 1 .. m : s[i] \in Elems(s) /\ s[i].key \in Int /\ s[i].seq \in Int
      /\ \A i, j \in 1 .. m : i < j => Before(s[i], s[j])
  BY AscendingIs
<1>2. N \in Nat /\ N * n =< m + n - 1 /\ m + n - 1 < N * n + n
  BY <1>1, Division
<1>3. DOMAIN ps = 1 .. N /\ Len(ps) = N
  <2>1. ps = [i \in 1 .. N |-> SubSeq(s, 1 + (i - 1) * n, Lowest({i * n, m}))]
    BY DEF Pieces
  <2> HIDE DEF N
  <2> QED
    BY <1>2, <2>1
<1>4. ASSUME NEW i \in 1 .. N
      PROVE  /\ a(i) \in Nat /\ z(i) \in Nat /\ a(i) < z(i) /\ z(i) =< m
             /\ DOMAIN ps[i] = 1 .. z(i) - a(i) /\ ps[i] # <<>> /\ ps[i] \in Seq(Elems(s))
             /\ \A x \in 1 .. z(i) - a(i) : ps[i][x] = s[a(i) + x]
  <2>1. i \in 1 .. (Len(s) + n - 1) \div n
    OBVIOUS
  <2> HIDE DEF N
  <2>2. IsPiece(ps[i], s, a(i), z(i))
    BY <2>1, PieceIs
  <2> HIDE DEF a, z, ps
  <2> QED
    BY <2>2 DEF IsPiece
<1> HIDE DEF ps, N, a, z, m
<1>5. ASSUME NEW i \in 1 .. N PROVE Ascending(ps[i])
  <2>1. \A x \in 1 .. z(i) - a(i) : a(i) + x \in 1 .. m /\ ps[i][x] = s[a(i) + x]
    BY <1>1, <1>4
  <2>2. DOMAIN ps[i] = 1 .. z(i) - a(i) /\ a(i) \in Nat
    BY <1>4
  <2>3. \A e \in Elems(ps[i]) : e.key \in Int /\ e.seq \in Int
    <3>1. \A e \in Elems(ps[i]) : \E x \in 1 .. z(i) - a(i) : e = ps[i][x]
      BY <2>2 DEF Elems
    <3> QED
      BY <1>1, <2>1, <3>1
  <2>5. ASSUME NEW x \in DOMAIN ps[i], NEW y \in DOMAIN ps[i], x < y
        PROVE  Before(ps[i][x], ps[i][y])
    <3>1. x \in 1 .. z(i) - a(i) /\ y \in 1 .. z(i) - a(i)
      BY <2>2
    <3>2. a(i) + x < a(i) + y
      BY <2>2, <2>5, <3>1
    <3>3. a(i) + x \in 1 .. m /\ a(i) + y \in 1 .. m
          /\ ps[i][x] = s[a(i) + x] /\ ps[i][y] = s[a(i) + y]
      BY <2>1, <3>1
    <3> QED
      BY <1>1, <3>2, <3>3
  <2>4. ps[i] \in Seq(Elems(ps[i]))
    <3>1. Len(ps[i]) \in Nat /\ DOMAIN ps[i] = 1 .. Len(ps[i])
          /\ ps[i] = [x \in 1 .. Len(ps[i]) |-> ps[i][x]]
      BY <1>4
    <3>2. \A x \in 1 .. Len(ps[i]) : ps[i][x] \in Elems(ps[i])
      BY <3>1 DEF Elems
    <3> QED
      BY <3>1, <3>2
  <2> QED
    BY <2>3, <2>4, <2>5 DEF Ascending
<1>6. ASSUME NEW i \in 1 .. N, NEW j \in 1 .. N, i < j,
             NEW e \in Elems(ps[i]), NEW f \in Elems(ps[j])
      PROVE  Before(e, f)
  <2>0. ASSUME NEW k \in 1 .. N, NEW g \in Elems(ps[k])
        PROVE  \E x \in 1 .. z(k) - a(k) : g = s[a(k) + x]
    <3>1. DOMAIN ps[k] = 1 .. z(k) - a(k)
      BY <1>4
    <3>2. PICK x \in 1 .. z(k) - a(k) : g = ps[k][x]
      BY <3>1 DEF Elems
    <3> QED
      BY <1>4, <3>2
  <2>1. PICK x \in 1 .. z(i) - a(i) : e = s[a(i) + x]
    BY <2>0
  <2>2. PICK y \in 1 .. z(j) - a(j) : f = s[a(j) + y]
    BY <2>0
  <2>3. z(i) =< a(j)
    <3>1. z(i) =< i * n /\ i * n \in Int
      <4> DEFINE w == i * n
      <4>1. w \in Int
        BY <1>2, Times
      <4>2. z(i) = IF w =< m THEN w ELSE m
        BY DEF z, Upto
      <4> HIDE DEF w
      <4>3. z(i) =< w
        BY <1>1, <4>1, <4>2
      <4> QED
        BY <4>1, <4>3 DEF w
    <3>2. i * n =< (j - 1) * n
      <4>1. i \in Int /\ j - 1 \in Int /\ i =< j - 1
        BY <1>2, <1>6
      <4> QED
        BY <4>1, Times
    <3>3. a(j) = (j - 1) * n
      BY DEF a, From
    <3>4. (j - 1) * n \in Int /\ z(i) \in Int
      BY <1>4, <3>3
    <3> QED
      BY <3>1, <3>2, <3>3, <3>4
  <2>4. a(i) + x \in 1 .. m /\ a(j) + y \in 1 .. m /\ a(i) + x < a(j) + y
    BY <1>1, <1>4, <2>3
  <2> QED
    BY <1>1, <2>1, <2>2, <2>4
<1>7. ASSUME NEW e \in Elems(s) PROVE \E i \in 1 .. N : e \in Elems(ps[i])
  <2>1. PICK x \in 1 .. m : e = s[x]
    BY <1>1 DEF Elems
  <2> DEFINE h == (x - 1) \div n  i == h + 1
  <2>2. h \in Nat /\ h * n =< x - 1 /\ x - 1 < h * n + n
    <3>1. x - 1 \in Nat
      BY <1>1
    <3> QED
      BY <3>1, Division
  <2> HIDE DEF h
  <2>3. h * n \in Int /\ i * n = h * n + n /\ i * n \in Int
    BY <2>2
  <2>4. i \in 1 .. N
    <3>1. h * n < N * n
      <4> DEFINE u == h * n  v == N * n
      <4>1. u \in Int /\ v \in Int /\ u =< x - 1 /\ m + n - 1 < v + n
        BY <1>2, <2>2, <2>3
      <4> HIDE DEF u, v
      <4>2. u < v
        BY <1>1, <4>1
      <4> QED
        BY <4>2 DEF u, v
    <3>2. h \in Int /\ N \in Int
      BY <1>2, <2>2
    <3>3. h < N
      BY <3>1, <3>2, Times
    <3> QED
      BY <1>2, <2>2, <3>3
  <2>5. a(i) = h * n
    <3>1. i - 1 = h
      BY <2>2
    <3> QED
      BY <3>1 DEF a, From
  <2>6. x =< z(i)
    <3> DEFINE u == i * n  w == h * n
    <3>1. u \in Int /\ w \in Int /\ u = w + n /\ x - 1 < w + n
      BY <2>2, <2>3
    <3>2. z(i) = IF u =< m THEN u ELSE m
      BY DEF z, Upto
    <3> HIDE DEF u, w
    <3> QED
      BY <1>1, <3>1, <3>2
  <2> HIDE DEF i
  <2>7. a(i) < x /\ a(i) \in Nat /\ z(i) \in Nat
    <3>1. a(i) \in Nat /\ z(i) \in Nat /\ a(i) =< x - 1
      BY <1>4, <2>2, <2>4, <2>5
    <3> QED
      BY <1>1, <3>1
  <2>8. x - a(i) \in 1 .. z(i) - a(i) /\ a(i) + (x - a(i)) = x
    BY <1>1, <2>6, <2>7
  <2>9. ps[i][x - a(i)] = e /\ x - a(i) \in DOMAIN ps[i]
    BY <1>4, <2>1, <2>4, <2>8
  <2> QED
    BY <2>4, <2>9 DEF Elems
<1>8. \A i \in 1 .. N : Elems(ps[i]) \subseteq Elems(s)
  <2>1. \A i \in 1 .. N : \A x \in DOMAIN ps[i] : ps[i][x] \in Elems(s)
    BY <1>4
  <2> QED
    BY <2>1 DEF Elems
<1>9. UNION {Elems(ps[i]) : i \in 1 .. N} = Elems(s)
  BY <1>7, <1>8
<1> QED
  BY <1>2, <1>3, <1>4, <1>5, <1>6, <1>9 DEF ps

\* A key of the index: not before the entries of its block, and before those after.
LEMMA SeparatorIs ==
    ASSUME NEW e, NEW f, e.key \in Int, e.seq \in Int, f.key \in Int, f.seq \in Int, Before(e, f)
    PROVE  /\ Separator(e, f).key \in Int /\ Separator(e, f).seq \in Int
           /\ ~ Before(Separator(e, f), e) /\ Before(Separator(e, f), f)
BY SeqAssumption DEF Separator, Shortened, Before

LEMMA ShortenedIs ==
    ASSUME NEW e, e.key \in Int, e.seq \in Int
    PROVE  Shortened(e).key \in Int /\ Shortened(e).seq \in Int /\ ~ Before(Shortened(e), e)
BY SeqAssumption DEF Shortened, Before

LEMMA EndsAre ==
    ASSUME NEW s, Ascending(s), s # <<>>
    PROVE  /\ Final(s) \in Elems(s) /\ \A a \in Elems(s) : ~ Before(Final(s), a)
           /\ Head(s) \in Elems(s) /\ \A a \in Elems(s) : ~ Before(a, Head(s))
           /\ \A a \in Elems(s) : a.key \in Int /\ a.seq \in Int
<1> DEFINE m == Len(s)
<1>1. /\ m \in Nat /\ m # 0 /\ DOMAIN s = 1 .. m
      /\ \A i, j \in 1 .. m : Before(s[i], s[j]) <=> i < j
  BY AscendingIs
<1>2. Final(s) = s[m] /\ Head(s) = s[1]
  BY DEF Final, Ascending
<1> HIDE DEF m
<1>3. m \in 1 .. m /\ 1 \in 1 .. m
  BY <1>1
<1>4. \A a \in Elems(s) : \E i \in 1 .. m : a = s[i]
  BY <1>1 DEF Elems
<1>5. \A i \in 1 .. m : ~ Before(s[m], s[i]) /\ ~ Before(s[i], s[1])
  BY <1>1, <1>3
<1>6. s[m] \in Elems(s) /\ s[1] \in Elems(s)
  BY <1>1, <1>3 DEF Elems
<1> QED
  BY <1>2, <1>4, <1>5, <1>6 DEF Ascending

LEMMA TableOfIs ==
    ASSUME NEW s, Ascending(s), NEW n \in Nat \ {0}
    PROVE  GoodTable(TableOf(s, n)) /\ InTable(TableOf(s, n)) = Elems(s)
<1> DEFINE ps == Pieces(s, n)
           N == Len(ps)
           key(i) == IF i < N THEN Separator(Final(ps[i]), Head(ps[i + 1]))
                     ELSE Shortened(Final(ps[i]))
           t == TableOf(s, n)
<1>1. /\ N \in Nat /\ DOMAIN ps = 1 .. N
      /\ \A i \in 1 .. N : Ascending(ps[i]) /\ ps[i] # <<>>
      /\ \A i, j \in 1 .. N : i < j =>
             \A a \in Elems(ps[i]), b \in Elems(ps[j]) : Before(a, b)
      /\ UNION {Elems(ps[i]) : i \in 1 .. N} = Elems(s)
  BY PiecesIs
<1>2. /\ t.blocks = [i \in 1 .. N |-> Block(ps[i], RestartInterval)]
      /\ t.index = Block([i \in 1 .. N |-> key(i)], 1)
  BY <1>1 DEF TableOf
<1>3. \A i \in 1 .. N :
          /\ Final(ps[i]) \in Elems(ps[i]) /\ \A a \in Elems(ps[i]) : ~ Before(Final(ps[i]), a)
          /\ Head(ps[i]) \in Elems(ps[i]) /\ \A a \in Elems(ps[i]) : ~ Before(a, Head(ps[i]))
          /\ \A a \in Elems(ps[i]) : a.key \in Int /\ a.seq \in Int
  <2> HIDE DEF ps, N
  <2> QED
    BY <1>1, EndsAre
<1> HIDE DEF ps, N
<1>4. ASSUME NEW i \in 1 .. N
      PROVE  /\ key(i).key \in Int /\ key(i).seq \in Int
             /\ \A a \in Elems(ps[i]) : ~ Before(key(i), a)
             /\ \A j \in 1 .. N : i < j => \A b \in Elems(ps[j]) : Before(key(i), b)
  <2> DEFINE e == Final(ps[i])
  <2>1. /\ e \in Elems(ps[i]) /\ e.key \in Int /\ e.seq \in Int
        /\ \A a \in Elems(ps[i]) : ~ Before(e, a) /\ a.key \in Int /\ a.seq \in Int
    BY <1>3
  <2> HIDE DEF e
  <2>2. CASE i < N
    <3> DEFINE f == Head(ps[i + 1])  k == Separator(e, f)
    <3>1. i + 1 \in 1 .. N /\ i < i + 1 /\ i \in Int
      BY <1>1, <2>2
    <3>2. /\ f \in Elems(ps[i + 1]) /\ f.key \in Int /\ f.seq \in Int
          /\ \A b \in Elems(ps[i + 1]) : ~ Before(b, f)
      BY <1>3, <3>1
    <3>3. Before(e, f)
      BY <1>1, <2>1, <3>1, <3>2
    <3>4. key(i) = k
      BY <2>2 DEF e
    <3> HIDE DEF f, key
    <3>5. k.key \in Int /\ k.seq \in Int /\ ~ Before(k, e) /\ Before(k, f)
      BY <2>1, <3>2, <3>3, SeparatorIs
    <3> HIDE DEF k
    <3>6. \A a \in Elems(ps[i]) : ~ Before(k, a)
      BY <2>1, <3>5, BeforeOrder
    <3>7. ASSUME NEW j \in 1 .. N, i < j, NEW b \in Elems(ps[j]) PROVE Before(k, b)
      <4>1. b.key \in Int /\ b.seq \in Int
        BY <1>3
      <4>2. j = i + 1 \/ i + 1 < j
        BY <1>1, <3>7
      <4>3. ~ Before(b, f)
        <5>1. CASE j = i + 1
          BY <3>2, <3>7, <5>1
        <5>2. CASE i + 1 < j
          <6>1. Before(f, b)
            BY <1>1, <3>1, <3>2, <3>7, <5>2
          <6> QED
            BY <3>2, <4>1, <6>1, BeforeOrder
        <5> QED
          BY <4>2, <5>1, <5>2
      <4> QED
        BY <3>2, <3>5, <4>1, <4>3, BeforeOrder
    <3> QED
      BY <3>4, <3>5, <3>6, <3>7
  <2>3. CASE ~ (i < N)
    <3> DEFINE k == Shortened(e)
    <3>1. key(i) = k
      BY <2>3 DEF e
    <3> HIDE DEF key
    <3>2. k.key \in Int /\ k.seq \in Int /\ ~ Before(k, e)
      BY <2>1, ShortenedIs
    <3> HIDE DEF k
    <3>3. \A a \in Elems(ps[i]) : ~ Before(k, a)
      BY <2>1, <3>2, BeforeOrder
    <3>4. \A j \in 1 .. N : ~ (i < j)
      BY <1>1, <2>3
    <3> QED
      BY <3>1, <3>2, <3>3, <3>4
  <2> QED
    BY <2>2, <2>3
<1> HIDE DEF key, t
<1> DEFINE x == [i \in 1 .. N |-> key(i)]
<1>5. /\ Len(t.blocks) = N /\ DOMAIN t.blocks = 1 .. N
      /\ \A i \in 1 .. N : t.blocks[i].entries = ps[i] /\ t.blocks[i].interval = RestartInterval
                           /\ InBlock(t, i) = Elems(ps[i])
  BY <1>1, <1>2 DEF Block, InBlock
<1>6. /\ t.index.entries = x /\ t.index.interval = 1
      /\ Len(x) = N /\ DOMAIN x = 1 .. N /\ \A i \in 1 .. N : x[i] = key(i)
  BY <1>1, <1>2 DEF Block
<1>7. ASSUME NEW i \in 1 .. N, NEW j \in 1 .. N, i < j PROVE Before(key(i), key(j))
  <2>1. Final(ps[j]) \in Elems(ps[j]) /\ Final(ps[j]).key \in Int /\ Final(ps[j]).seq \in Int
    BY <1>3
  <2>2. Before(key(i), Final(ps[j])) /\ ~ Before(key(j), Final(ps[j]))
    BY <1>4, <1>7, <2>1
  <2>3. key(i).key \in Int /\ key(i).seq \in Int /\ key(j).key \in Int /\ key(j).seq \in Int
    BY <1>4
  <2> QED
    BY <2>1, <2>2, <2>3, BeforeOrder
<1>8. Ascending(x)
  <2>1. \A e \in Elems(x) : \E i \in 1 .. N : e = key(i)
    BY <1>6 DEF Elems
  <2>2. \A e \in Elems(x) : e.key \in Int /\ e.seq \in Int
    BY <1>4, <2>1
  <2>3. x \in Seq(Elems(x))
    <3>1. \A i \in 1 .. N : key(i) \in Elems(x)
      BY <1>6 DEF Elems
    <3> QED
      BY <1>1, <3>1
  <2> HIDE DEF x
  <2> QED
    BY <1>6, <1>7, <2>2, <2>3 DEF Ascending
<1> HIDE DEF x
<1>9. \A i \in 1 .. N : GoodBlock(t.blocks[i]) /\ t.blocks[i].entries # <<>>
  BY <1>1, <1>5, RestartIntervalAssumption DEF GoodBlock
<1>10. GoodBlock(t.index) /\ Len(t.index.entries) = Len(t.blocks)
  BY <1>5, <1>6, <1>8 DEF GoodBlock
<1>11. \A i, j \in 1 .. N : i < j => \A a \in InBlock(t, i), b \in InBlock(t, j) : Before(a, b)
  BY <1>1, <1>5
<1>12. \A i \in 1 .. N : \A a \in InBlock(t, i) : ~ Before(t.index.entries[i], a)
  BY <1>4, <1>5, <1>6
<1>13. \A i, j \in 1 .. N : i < j => \A b \in InBlock(t, j) : Before(t.index.entries[i], b)
  BY <1>4, <1>5, <1>6
<1>14. GoodTable(t)
  BY <1>1, <1>5, <1>9, <1>10, <1>11, <1>12, <1>13 DEF GoodTable
<1>15. InTable(t) = Elems(s)
  BY <1>1, <1>5 DEF InTable
<1> QED
  BY <1>14, <1>15 DEF t

LEMMA LaidDown ==
    ASSUME NEW c \in 1 .. Tables, Numbered(content[c]),
           files = [d \in 1 .. Tables |->
                       LET s == Sorted(content[d])
                           f == IF d =< Level0Files THEN <<s>> ELSE Pieces(s, FileSize[d])
                       IN  [i \in DOMAIN f |-> TableOf(f[i], BlockSize[d])]]
    PROVE  Laid(c)
<1> DEFINE s == Sorted(content[c])
           ps == Pieces(s, FileSize[c])
           l == files[c]
<1>1. Ascending(s) /\ Elems(s) = content[c]
  BY SortedIs
<1>2. BlockSize[c] \in Nat \ {0} /\ FileSize[c] \in Nat \ {0}
  BY SizeAssumption
<1>3. CASE c =< Level0Files
  <2>1. l = [i \in DOMAIN <<s>> |-> TableOf(<<s>>[i], BlockSize[c])]
    BY <1>3
  <2> HIDE DEF s, l
  <2>2. l[1] = TableOf(s, BlockSize[c])
    BY <2>1
  <2>3. GoodTable(l[1]) /\ InTable(l[1]) = content[c]
    BY <1>1, <1>2, <2>2, TableOfIs
  <2> QED
    BY <1>3, <2>3 DEF Laid, l
<1>4. CASE ~ (c =< Level0Files)
  <2>1. l = [i \in DOMAIN ps |-> TableOf(ps[i], BlockSize[c])]
    BY <1>4
  <2> HIDE DEF s, l
  <2>2. /\ Len(ps) \in Nat /\ DOMAIN ps = 1 .. Len(ps)
        /\ \A i \in DOMAIN ps : Ascending(ps[i]) /\ ps[i] # <<>>
        /\ \A i, j \in DOMAIN ps : i < j =>
               \A a \in Elems(ps[i]), b \in Elems(ps[j]) : Before(a, b)
        /\ UNION {Elems(ps[i]) : i \in DOMAIN ps} = content[c]
    BY <1>1, <1>2, PiecesIs
  <2> HIDE DEF ps
  <2>3. Len(l) = Len(ps) /\ DOMAIN l = 1 .. Len(ps) /\ Len(l) \in Nat
        /\ \A i \in 1 .. Len(ps) : l[i] = TableOf(ps[i], BlockSize[c])
    BY <2>1, <2>2
  <2>4. \A i \in 1 .. Len(ps) : GoodTable(l[i]) /\ InTable(l[i]) = Elems(ps[i])
    BY <1>2, <2>2, <2>3, TableOfIs
  <2>5. \A i \in 1 .. Len(ps) : Elems(ps[i]) # {}
    BY <2>2, EndsAre
  <2>6. GoodLevel(l)
    BY <2>2, <2>3, <2>4, <2>5 DEF GoodLevel
  <2>7. InLevel(l) = content[c]
    BY <2>2, <2>3, <2>4 DEF InLevel
  <2> QED
    BY <1>4, <2>6, <2>7 DEF Laid, l
<1> QED
  BY <1>3, <1>4

LEMMA WriteInv ==
    ASSUME IterInv, NEW k \in UserKeys, NEW type \in Types, Write(k, type) PROVE IterInv'
<1> DEFINE e == [key |-> k, seq |-> lastSequence + 1, type |-> type]
<1>1. /\ Stored /\ Merged /\ Kinds /\ Loop
      /\ lastSequence < MaxSeq /\ lastSequence' = lastSequence + 1
      /\ content' = [content EXCEPT ![MemTable] = @ \cup {e}]
      /\ UNCHANGED <<sequence, files, merger, pc, reverse, valid, savedKey, savedValue, locals,
                     goal>>
  BY DEF IterInv, Write
<1>2. /\ e \in Entries /\ e.seq = lastSequence + 1
      /\ sequence < e.seq /\ lastSequence \in Int /\ sequence \in Int
  BY <1>1, SeqAssumption DEF Stored, Entries
<1>3. MemTable \in Children /\ content'[MemTable] = content[MemTable] \cup {e}
      /\ \A c \in Children : c # MemTable => content'[c] = content[c]
  BY <1>1, NoChildIsNone DEF Stored
<1> HIDE DEF e
<1>4. \A c \in Children :
          content[c] \subseteq content'[c] /\ content'[c] \subseteq content[c] \cup {e}
  BY <1>3
<1>5. \A c \in Children : \A o \in content'[c] : o.seq =< sequence => o \in content[c]
  BY <1>2, <1>4
<1>6. Stored'
  <2>1. lastSequence' \in 0 .. MaxSeq /\ sequence' \in 0 .. MaxSeq /\ sequence' =< lastSequence'
    BY <1>1, <1>2, SeqAssumption DEF Stored
  <2>2. content' \in [Children -> SUBSET Entries]
    BY <1>1, <1>2, <1>3 DEF Stored
  <2>3. \A c \in Children : \A o \in content[c] : o.seq < e.seq /\ o.seq # e.seq
    <3>1. \A c \in Children : \A o \in content[c] : o.seq =< lastSequence /\ o.seq \in Int
      BY <1>1, ContentIs DEF Stored
    <3> QED
      BY <1>2, <3>1
  <2>4. ASSUME NEW c \in Children, NEW d \in Children, NEW a \in content'[c],
               NEW b \in content'[d], a.seq = b.seq
        PROVE  a = b /\ c = d
    <3>1. e \notin content[c] /\ e \notin content[d]
      BY <2>3
    <3>2. (a \in content[c] \/ (a = e /\ c = MemTable))
          /\ (b \in content[d] \/ (b = e /\ d = MemTable))
      BY <1>3
    <3> QED
      BY <1>1, <2>3, <2>4, <3>2 DEF Stored
  <2>5. ASSUME NEW c \in Children, NEW o \in content'[c] PROVE o.seq =< lastSequence'
    <3>1. CASE o = e
      BY <1>1, <1>2, <3>1
    <3>2. CASE o \in content[c]
      BY <1>1, <1>2, <2>3, <3>2, ContentIs DEF Stored
    <3> QED
      BY <1>4, <3>1, <3>2
  <2>6. ASSUME NEW c \in 1 .. Tables PROVE Laid(c)'
    <3>1. c \in Children /\ c # MemTable
      BY ChildrenAssumption DEF Children, MemTable, Tables
    <3>2. content'[c] = content[c] /\ files' = files /\ Laid(c)
      BY <1>1, <1>3, <3>1 DEF Stored
    <3> QED
      BY <3>2 DEF Laid
  <2> QED
    BY <2>1, <2>2, <2>4, <2>5, <2>6 DEF Stored
<1>7. Sees' = Sees
  <2>1. \A x : x \in Sees' <=> x \in Sees
    BY <1>1, <1>4, <1>5 DEF Sees, Written
  <2> QED
    BY <2>1 DEF Sees
<1>8. Merged'
  <2>1. ASSUME NEW c \in Children PROVE Stands(c, pos[c])'
    <3>1. Located(c, pos[c]) => Located(c, pos[c])'
      BY <1>1, <1>4 DEF Located, InFiles, InMemTable, TablePlace, LevelPlace, TableEntry,
                        LevelEntry, merger
    <3> QED
      BY <1>1, <3>1 DEF Merged, Stands, merger
  <2>2. UNCHANGED <<pos, current, forward>> /\ Entry' = Entry
    BY <1>1 DEF merger, Entry
  <2>3. CurrentIsNext'
    BY <1>1, <2>2 DEF Merged, CurrentIsNext
  <2>4. ChildrenMissNothing'
    BY <1>1, <1>5, <2>2 DEF Merged, ChildrenMissNothing
  <2> QED
    BY <1>1, <2>1, <2>2, <2>3, <2>4 DEF Merged
<1>9. Entry' = Entry /\ current' = current /\ Remaining' = Remaining
  BY <1>1, <1>7 DEF merger, Entry, Remaining
<1>10. Loop'
  BY <1>1, <1>7, <1>9 DEF Loop, Between, Shows, InNext, InTurn, InPrev, locals
<1>11. Kinds'
  BY <1>1 DEF Kinds, locals
<1> QED
  BY <1>6, <1>8, <1>10, <1>11 DEF IterInv

LEMMA InitInv == ASSUME Init PROVE IterInv
<1>1. PICK k \in [1 .. Flushed -> UserKeys], t \in [1 .. Flushed -> Types],
           w \in [1 .. Flushed -> Children] :
           content = [c \in Children |->
                         {[key |-> k[n], seq |-> n, type |-> t[n]] :
                              n \in {m \in 1 .. Flushed : w[m] = c}}]
  BY DEF Init
<1>2. /\ lastSequence = Flushed /\ sequence \in Flushed - Newer .. Flushed
      /\ files = [c \in 1 .. Tables |->
                     LET s == Sorted(content[c])
                         f == IF c =< Level0Files THEN <<s>> ELSE Pieces(s, FileSize[c])
                     IN  [i \in DOMAIN f |-> TableOf(f[i], BlockSize[c])]]
  BY DEF Init
<1>3. Flushed \in Nat /\ Flushed =< MaxSeq /\ MaxSeq \in Nat /\ Newer \in 0 .. Flushed
  BY FlushedAssumption, SeqAssumption
<1>4. ASSUME NEW c \in Children, NEW e \in content[c]
      PROVE  e \in Entries /\ e.seq \in 1 .. Flushed
             /\ e = [key |-> k[e.seq], seq |-> e.seq, type |-> t[e.seq]] /\ w[e.seq] = c
  <2>1. PICK n \in 1 .. Flushed : w[n] = c /\ e = [key |-> k[n], seq |-> n, type |-> t[n]]
    BY <1>1, <1>4
  <2>2. k[n] \in UserKeys /\ t[n] \in Types /\ n \in 1 .. MaxSeq
    BY <1>3
  <2> QED
    BY <2>1, <2>2 DEF Entries
<1>5. content \in [Children -> SUBSET Entries]
  BY <1>1, <1>4
<1>6. \A c, d \in Children : \A a \in content[c], b \in content[d] :
          a.seq = b.seq => a = b /\ c = d
  BY <1>4
<1>7. \A c \in Children : Numbered(content[c])
  BY <1>5, <1>6 DEF Numbered
<1>8. \A c \in 1 .. Tables : Laid(c)
  <2>1. \A c \in 1 .. Tables : Numbered(content[c])
    BY <1>7, ChildrenAssumption DEF Children, Tables
  <2> QED
    BY <1>2, <2>1, LaidDown
<1>9. Stored
  <2>1. sequence \in 0 .. MaxSeq /\ lastSequence \in 0 .. MaxSeq /\ sequence =< lastSequence
    BY <1>2, <1>3
  <2>2. \A c \in Children : \A e \in content[c] : e.seq =< lastSequence
    BY <1>2, <1>4
  <2> QED
    BY <1>5, <1>6, <1>8, <2>1, <2>2 DEF Stored
<1>10. Merged
  <2>1. \A c \in Children : pos[c] = End
    BY DEF Init
  <2> QED
    BY <2>1 DEF Init, Merged, Stands, CurrentIsNext, ChildrenMissNothing
<1>11. Kinds
  <2>1. /\ pc = "idle" /\ reverse = FALSE /\ valid = FALSE /\ skipping = FALSE
        /\ savedKey = NoKey /\ savedValue = 0 /\ valueType = "deletion" /\ goal = NoKey
    BY DEF Init
  <2>2. 0 \in 0 .. MaxSeq
    BY <1>3
  <2> QED
    BY <2>1, <2>2 DEF Kinds, Types
<1>12. Loop
  BY DEF Init, Loop, Between
<1> QED
  BY <1>9, <1>10, <1>11, <1>12 DEF IterInv

LEMMA StutterInv == ASSUME IterInv, UNCHANGED vars PROVE IterInv'
<1>1. Stored /\ Merged /\ Kinds /\ Loop /\ Moves /\ UNCHANGED merger
  BY DEF IterInv, vars, Moves
<1>2. Stored' /\ Sees' = Sees /\ Merged' /\ Entry' = Entry /\ current' = current
  BY <1>1, MovesKeeps, MergedStays
<1>3. Remaining' = Remaining
  BY <1>2 DEF Remaining
<1>4. UNCHANGED <<pc, reverse, valid, savedKey, savedValue, skipping, valueType, goal>>
  BY DEF vars, locals
<1>5. Loop'
  BY <1>1, <1>2, <1>3, <1>4 DEF Loop, Between, Shows, InNext, InTurn, InPrev
<1>6. Kinds'
  BY <1>1, <1>4 DEF Kinds
<1> QED
  BY <1>2, <1>5, <1>6 DEF IterInv

LEMMA NextInv == ASSUME IterInv, [Next]_vars PROVE IterInv'
<1>1. CASE \E k \in UserKeys : Seek(k)
  BY <1>1, SeekInv
<1>2. CASE SeekToFirst
  BY <1>2, SeekToFirstInv
<1>3. CASE SeekToLast
  BY <1>3, SeekToLastInv
<1>4. CASE NextKey
  BY <1>4, NextKeyInv
<1>5. CASE FindNextUserEntry
  BY <1>5, FindNextUserEntryInv
<1>6. CASE PrevKey
  BY <1>6, PrevKeyInv
<1>7. CASE Turn
  BY <1>7, TurnInv
<1>8. CASE FindPrevUserEntry
  BY <1>8, FindPrevUserEntryInv
<1>9. CASE \E k \in UserKeys, type \in Types : Write(k, type)
  BY <1>9, WriteInv
<1>10. CASE UNCHANGED vars
  BY <1>10, StutterInv
<1> QED
  BY <1>1, <1>2, <1>3, <1>4, <1>5, <1>6, <1>7, <1>8, <1>9, <1>10 DEF Next

LEMMA Invariance == Spec => []IterInv
<1>1. Init => IterInv
  BY InitInv
<1>2. IterInv /\ [Next]_vars => IterInv'
  BY NextInv
<1> QED
  BY <1>1, <1>2, PTL DEF Spec

-----------------------------------------------------------------------------
\* Every child stands on an entry of its own or nowhere, the current one is a
\* child, and the keys and numbers kept are those of the database.
THEOREM WellTyped == Spec => []TypeOK
<1>1. IterInv => TypeOK
  <2> SUFFICES ASSUME IterInv PROVE TypeOK
    OBVIOUS
  <2>1. Stored /\ Merged /\ Kinds
    BY DEF IterInv
  <2>2. \A c \in Children : pos[c] = End \/ pos[c].entry \in content[c]
    BY <2>1 DEF Merged, Stands, Located
  <2>3. current \in Children \cup {NoChild} /\ forward \in BOOLEAN
    BY <2>1 DEF Merged, CurrentIsNext
  <2> QED
    BY <2>1, <2>2, <2>3 DEF Stored, Kinds, TypeOK
<1> QED
  BY <1>1, Invariance, PTL

\* After any sequence of calls, in either direction, with others writing between
\* any two steps, a DBIter is on the key that its snapshot says is next, with the
\* value it had then, or is not valid when there is none.
THEOREM AlwaysExact == Spec => []IteratorIsExact
<1>1. IterInv => IteratorIsExact
  <2> SUFFICES ASSUME IterInv, pc = "idle"
               PROVE  IF goal = NoKey THEN ~ valid
                      ELSE valid /\ Key = goal /\ Value = Latest(Written, goal, sequence)
    BY DEF IteratorIsExact
  <2>1. CASE ~ valid
    BY <2>1 DEF IterInv, Loop, Between
  <2>2. CASE valid
    <3>1. PICK t \in Live(Sees) : Shows(t) /\ Key = t.key /\ t \in Sees /\ t \in Entries
                                 /\ t.key \in UserKeys /\ t.key \in Int
      BY <2>2, BetweenIs
    <3>2. goal = t.key /\ goal # NoKey
      BY <3>1, EntryFields DEF Shows
    <3>3. Value = t.seq
      BY <3>1 DEF Shows, Value
    <3>4. Latest(Written, goal, sequence) = t.seq
      BY <3>2, ShownIs DEF IterInv
    <3> QED
      BY <2>2, <3>1, <3>2, <3>3, <3>4
  <2> QED
    BY <2>1, <2>2
<1> QED
  BY <1>1, Invariance, PTL

\* "If we are moving in the forward direction, it is already true for all of the
\* non-current_ children", and the same in reverse: MergingIterator leaves no entry
\* behind that the snapshot sees, though the memtable gets entries meanwhile.
THEOREM NothingMissed == Spec => []ChildrenMissNothing
<1>1. IterInv => ChildrenMissNothing
  BY DEF IterInv, Merged
<1> QED
  BY <1>1, Invariance, PTL

\* "The internal iterator is positioned just before all entries whose user key ==
\* this->key()", when DBIter goes in reverse and is between two calls.
THEOREM JustBefore == Spec => []ReverseIsJustBefore
<1>1. IterInv => ReverseIsJustBefore
  <2> SUFFICES ASSUME IterInv, pc = "idle", valid, reverse,
                      NEW e \in Written, e.seq =< sequence
               PROVE  e.key < savedKey <=> current # NoChild /\ ~ Before(Entry, e)
    BY DEF ReverseIsJustBefore
  <2>1. PICK t \in Live(Sees) : Shows(t)
    BY DEF IterInv, Loop, Between
  <2>2. e \in Sees
    BY DEF Sees
  <2> QED
    BY <2>1, <2>2 DEF Shows, Remaining
<1> QED
  BY <1>1, Invariance, PTL
=============================================================================
