------------------------------- MODULE Store -------------------------------
(***************************************************************************)
(* What leveldb promises about writes and crashes, with nothing of how it  *)
(* keeps the promise (include/leveldb/options.h, WriteOptions::sync): a    *)
(* write that was answered survives the crash of the process, one that was *)
(* answered after a sync survives the crash of the machine, and as long as *)
(* the database is open no answered write goes away.  A write is its       *)
(* sequence number.                                                        *)
(***************************************************************************)

VARIABLES
    stored,   \* the writes that a reader finds, or that opening will find
    begun,    \* writes not answered, or answered with an error, that may
              \* nevertheless be found after a crash
    acked,    \* the writes answered with success that a process crash keeps
    synced    \* those of them that a machine crash keeps too

vars == <<stored, begun, acked, synced>>

Init == stored = {} /\ begun = {} /\ acked = {} /\ synced = {}

\* A group of writes reaches the disk and is not answered yet, or those that
\* failed are forgotten.
Begin ==
    /\ begun' # begun
    /\ UNCHANGED <<stored, acked, synced>>

\* A group is answered with success: all of it is stored, and promised, at once.
\* After a failed append the log no longer vouches for what is put behind it: a
\* group may then be stored and not be promised.
Answer ==
    LET group == stored' \ stored
    IN  /\ stored \subseteq stored'
        /\ begun' = begun \ group
        /\ acked' \in {acked, acked \cup group}
        /\ synced \subseteq synced'
        /\ synced' \subseteq synced \cup (acked' \ acked)

\* What was promised is found again, nothing is that was never begun, and what is
\* lost does not come back later.
Crash(kept) ==
    /\ kept \subseteq stored'
    /\ stored' \subseteq stored \cup begun
    /\ begun' \subseteq begun
    /\ acked' = acked \cap stored'
    /\ synced' = synced \cap stored'

ProcessCrash == Crash(acked)
MachineCrash == Crash(synced)

Next == Begin \/ Answer \/ ProcessCrash \/ MachineCrash

Spec == Init /\ [][Next]_vars
=============================================================================
