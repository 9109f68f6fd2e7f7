------------------------------ MODULE DBFormat ------------------------------
(****************************************************************************)
(* leveldb's internal keys (db/dbformat.h) and what a reader at a sequence  *)
(* number may see of a set of them.  An entry is a user key, the sequence   *)
(* number of its write, and whether that put or deleted the key; the number *)
(* stands for the value as well.                                            *)
(****************************************************************************)
EXTENDS Integers, FiniteSets

CONSTANTS
    UserKeys,   \* the user keys, integers in the comparator's order
    MaxSeq      \* bound: the number of writes

ASSUME KeysAssumption == UserKeys \subseteq Int
ASSUME SeqAssumption == MaxSeq \in Nat

Types   == {"value", "deletion"}
Entries == [key : UserKeys, seq : 1 .. MaxSeq, type : Types]

\* InternalKeyComparator: by user key, the newest entry of a key first.
Before(a, b) == a.key < b.key \/ (a.key = b.key /\ a.seq > b.seq)

\* The entries of user key k in f that a reader at s may see, and the one that a
\* seek to (k, s) finds: the newest.
Visible(f, k, s) == {e \in f : e.key = k /\ e.seq =< s}

FirstVisible(f, k, s) ==
    CHOOSE e \in Visible(f, k, s) : \A o \in Visible(f, k, s) : o.seq =< e.seq

\* What a reader at s must get for k if all that was ever written is in f: the
\* value last put, or 0 when there is none or a delete came after it.
Latest(f, k, s) ==
    IF Visible(f, k, s) = {} THEN 0
    ELSE LET e == FirstVisible(f, k, s) IN IF e.type = "value" THEN e.seq ELSE 0
=============================================================================
