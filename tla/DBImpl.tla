------------------------------- MODULE DBImpl -------------------------------
(*****************************************************************************)
(* Writing to a leveldb database, flushing and compacting it behind the      *)
(* writers, crashing, and opening it again: db/db_impl.cc, the descriptor    *)
(* of db/version_set.cc (LogAndApply, Recover) and the log that both are     *)
(* written with (db/log_writer.cc, db/log_reader.cc).                        *)
(*                                                                           *)
(* A write is its sequence number; a log, a memtable and a table are the     *)
(* sets of writes in them.  Which entry of a key is found where is modelled  *)
(* in VersionSet; here a table is in level 0 or further down.                *)
(*                                                                           *)
(* An action is what a thread does while it holds mutex_, or one system call *)
(* between two such sections.  A directory operation is on the disk when it  *)
(* returns.                                                                  *)
(*****************************************************************************)
EXTENDS Naturals, FiniteSets, Sequences, SequencesExt

CONSTANTS
    Writers,             \* the threads that call DBImpl::Write
    Syncing,             \* those of them that write with sync
    WriteBufferSize,     \* options_.write_buffer_size, in writes
    CompactionTrigger,   \* config::kL0_CompactionTrigger
    StopTrigger,         \* config::kL0_StopWritesTrigger
    None,                \* NULL
    MaxSeq,              \* bound: the sequence numbers handed out
    MaxCrashes,          \* bound: the crashes
    MaxFaults,           \* bound: the system calls that fail
    FewReads             \* bound: reads begin only where FewReadsBegin says

ASSUME TriggerAssumption ==
    /\ {CompactionTrigger, StopTrigger} \subseteq Nat
    /\ 0 < CompactionTrigger /\ CompactionTrigger =< StopTrigger
ASSUME SyncingAssumption == Syncing \subseteq Writers
ASSUME NoneAssumption ==
    /\ None \notin Nat \cup [size : Nat, at : {"append", "sync", "insert", "failed", "unsynced"}]
    /\ \A S \in SUBSET (1 .. MaxSeq) : None # S
ASSUME BoundsAssumption ==
    /\ {WriteBufferSize, MaxSeq, MaxCrashes, MaxFaults} \subseteq Nat
    /\ FewReads \in BOOLEAN

VARIABLES
    \* on the disk
    logs,          \* the log files, by number
    tables,        \* the table files, by number
    manifests,     \* the descriptor files, by number
    current,       \* the descriptor that CURRENT names, 0 when there is no CURRENT
    \* of the process
    phase,         \* how far DB::Open is: "down" ... "open"
    versions,      \* versions_: the counters, and the tables of current()
    edit,          \* the VersionEdit that is being logged, or None
    mem, imm,      \* mem_ and imm_
    logNumber,     \* logfile_number_
    pending,       \* pending_outputs_
    bgError,       \* bg_error_ is set
    bg,            \* the background thread
    merging,       \* the Compaction it is in, or None
    queue,         \* writers_
    writer,        \* where each Writer is in Write
    group,         \* the batch group its leader is writing, or None
    pinned,        \* the versions that reads refer to: the tables of each
    \* of the model
    acked, synced, \* history: the writes answered, those of them with a sync
    late,          \* history: the descriptor was written after an error
    crashes, faults

disk    == <<logs, tables, manifests, current>>
counts  == <<crashes, faults>>
threads == <<queue, writer, group>>
history == <<acked, synced, late>>

vars == <<disk, phase, versions, edit, mem, imm, logNumber, pending, bgError, bg,
          merging, threads, pinned, history, counts>>
-----------------------------------------------------------------------------
(* Logs, tables and descriptors.                                            *)

\* A log is the batches appended to it.  Those behind an append that failed may
\* be unreadable: the writer counts the bytes it could not write
\* (block_offset_), and a reader that meets a bad checksum drops the block.
EmptyLog == [records |-> <<>>, synced |-> 0, sound |-> None]

Torn(log) == log.sound # None

Tear(log) == IF Torn(log) THEN log ELSE [log EXCEPT !.sound = Len(log.records)]

Contents(log) == UNION Range(log.records)

Union(numbers) == UNION {tables[n] : n \in numbers}

\* TLC's :> and @@, which have no definition that a proof could use.
One(n, v)     == [x \in {n} |-> v]
Over(new, f)  == [x \in DOMAIN new \cup DOMAIN f |-> IF x \in DOMAIN new THEN new[x] ELSE f[x]]
Put(f, n, v)  == Over(One(n, v), f)
Without(f, S) == [x \in DOMAIN f \ S |-> f[x]]
Only(f, S)    == [x \in DOMAIN f \cap S |-> f[x]]

\* What a descriptor says.  Its tables are a function to 0 (level 0) or 1 (a
\* level further down).
NewState == [tables |-> <<>>, log |-> 0, next |-> 2, last |-> 0]

\* VersionSet::Builder: what was said before, and one more edit.
Apply(state, e) ==
    [tables |-> Over(e.add, Without(state.tables, e.del)),
     log |-> e.log, next |-> e.next, last |-> e.last]

\* What a descriptor says after a machine crash that was never synced.
NeverSynced == [next |-> 0]

\* A descriptor: what it says now, what it says after a machine crash, whether it
\* ends in part of a record, and whether something was appended behind such a
\* part, after which it cannot be read.
Descriptor(state) ==
    [written |-> state, durable |-> NeverSynced, tail |-> FALSE, broken |-> FALSE]

Described == manifests[current].written

LiveLogs(state) == {n \in DOMAIN logs : n >= state.log}

\* The writes that opening the database would find.
Recoverable ==
    IF current = 0 THEN {}
    ELSE Union(DOMAIN Described.tables)
         \cup UNION {Contents(logs[n]) : n \in LiveLogs(Described)}

\* The writes that a reader finds now.
Visible == mem \cup (IF imm = None THEN {} ELSE imm) \cup Union(DOMAIN versions.tables)

Level0 == {n \in DOMAIN versions.tables : versions.tables[n] = 0}

NeedsCompaction == Cardinality(Level0) >= CompactionTrigger

\* A call to the system fails.
Fault == faults < MaxFaults /\ faults' = faults + 1

-----------------------------------------------------------------------------
(* Starting and stopping.                                                   *)

NoVersions == [next |-> 0, last |-> 0, log |-> 0, manifest |-> 0, tables |-> <<>>]
NoWork     == [at |-> "idle", out |-> 0]

Init ==
    /\ logs = <<>> /\ tables = <<>> /\ manifests = <<>> /\ current = 0
    /\ phase = "down" /\ versions = NoVersions /\ edit = None
    /\ mem = {} /\ imm = None /\ logNumber = 0
    /\ pending = {} /\ bgError = FALSE /\ bg = NoWork /\ merging = None
    /\ queue = <<>> /\ writer = [w \in Writers |-> "idle"] /\ group = None
    /\ pinned = {}
    /\ acked = {} /\ synced = {} /\ late = FALSE
    /\ crashes = 0 /\ faults = 0

\* Everything the process had in memory is gone.
Forget ==
    /\ phase' = "down" /\ versions' = NoVersions /\ edit' = None
    /\ mem' = {} /\ imm' = None /\ logNumber' = 0
    /\ pending' = {} /\ bgError' = FALSE /\ bg' = NoWork /\ merging' = None
    /\ queue' = <<>> /\ writer' = [w \in Writers |-> "idle"] /\ group' = None
    /\ pinned' = {}
    /\ acked' = acked \cap Recoverable'
    /\ synced' = synced \cap Recoverable'
    /\ UNCHANGED late

\* What a reader gets back of a log of which the first n batches are there.
Cut(log, n) ==
    [EmptyLog EXCEPT !.records = SubSeq(log.records, 1, n), !.synced = n]

Least(a, b) == IF a < b THEN a ELSE b

MayCrash == phase # "down" /\ crashes < MaxCrashes /\ crashes' = crashes + 1

\* Each log keeps some number of its batches, not less than what it must keep.
CutLogs(kept) ==
    \E n \in [DOMAIN logs -> 0 .. MaxSeq] :
        /\ \A l \in DOMAIN logs : n[l] \in kept[l] .. Len(logs[l].records)
        /\ logs' = [l \in DOMAIN logs |-> Cut(logs[l], n[l])]

\* The process dies: all it wrote is in the files.
ProcessCrash ==
    /\ MayCrash
    /\ CutLogs([l \in DOMAIN logs |-> Tear(logs[l]).sound])
    /\ UNCHANGED <<tables, manifests, current, faults>>
    /\ Forget

\* The machine goes down: of what was not synced any leading part is there.
MachineCrash ==
    /\ MayCrash
    /\ CutLogs([l \in DOMAIN logs |-> Least(logs[l].synced, Tear(logs[l]).sound)])
    /\ \E lost \in SUBSET {m \in DOMAIN manifests :
                              manifests[m].durable # manifests[m].written} :
          manifests' = [m \in DOMAIN manifests |->
              IF m \notin lost THEN manifests[m]
              ELSE IF manifests[m].durable = NeverSynced
                   THEN [manifests[m] EXCEPT !.broken = TRUE]
              ELSE [manifests[m] EXCEPT !.written = manifests[m].durable]]
    /\ UNCHANGED <<tables, current, faults>>
    /\ Forget

-----------------------------------------------------------------------------
(* What several handlers do.                                                *)

\* versions_->NewFileNumber: the number taken is versions.next.
NewFileNumber == versions' = [versions EXCEPT !.next = @ + 1]

\* Mutation: nobody is woken.
WokenNobody(ws) == ws

\* bg_cv_.SignalAll, given what the writers are otherwise.
Woken(ws) == [w \in Writers |-> IF ws[w] = "asleep" THEN "front" ELSE ws[w]]

\* MaybeScheduleCompaction, when the background thread has nothing left to do;
\* the other variables' next values are known.
Scheduled ==
    [at |-> IF ~ bgError' /\ (imm' # None \/ NeedsCompaction') THEN "scheduled" ELSE "idle",
     out |-> 0]

\* The tables of the versions that reads refer to.
Pinned == UNION pinned

\* Mutation: pending_outputs_ is not looked at.
LiveFilesInstalled ==
    DOMAIN versions'.tables \cup Pinned'
    \cup (IF merging' = None THEN {} ELSE merging'.held)

\* VersionSet::AddLiveFiles and pending_outputs_: the tables of every version that
\* somebody refers to, the current one, those of reads and a compaction's, and
\* those that are being written.
LiveFiles ==
    pending' \cup DOMAIN versions'.tables \cup Pinned'
    \cup (IF merging' = None THEN {} ELSE merging'.held)

\* DeleteObsoleteFiles, likewise.
DeleteObsoleteFiles(descriptors) ==
    IF bgError' THEN manifests' = descriptors /\ UNCHANGED <<logs, tables>>
    ELSE /\ tables' = Only(tables, LiveFiles)
         /\ logs' = Only(logs, {n \in DOMAIN logs : n >= versions'.log})
         /\ manifests' = Only(descriptors, {m \in DOMAIN descriptors :
                                               m >= versions'.manifest})

-----------------------------------------------------------------------------
(* Opening: DB::Open and DBImpl::Recover.                                   *)

\* No CURRENT: an empty descriptor, closed and not synced, and CURRENT.
NewDB ==
    /\ phase = "down" /\ current = 0
    /\ manifests' = One(1, Descriptor(NewState))
    /\ current' = 1
    /\ phase' = "created"
    /\ UNCHANGED <<logs, tables, versions, edit, mem, imm, logNumber, pending, bgError, bg,
                   merging, threads, pinned, history, counts>>

MarkFileNumberUsed(next, n) == IF next =< n THEN n + 1 ELSE next

\* Mutation: the logs' sequence numbers are not looked at.
HighestOfDescriptor(S, n) == n

Highest(S, n) == CHOOSE x \in S \cup {n} : \A y \in S \cup {n} : y =< x

\* Open gives up and the DBImpl is deleted: what it wrote stays.
OpenFails == Fault /\ phase' = "down" /\ edit' = None /\ versions' = NoVersions
             /\ logNumber' = 0
             /\ UNCHANGED <<mem, imm, pending, bgError, bg, merging, threads, pinned,
                            history, crashes>>

\* VersionSet::Recover reads the descriptor.  The logs that it has not replaced by
\* tables are what is left to do.
Recover ==
    /\ phase = "created" \/ (phase = "down" /\ current # 0)
    /\ ~ manifests[current].broken
    /\ DOMAIN Described.tables \subseteq DOMAIN tables
    /\ phase' = "replaying"
    /\ versions' = [next |-> Described.next + 1, last |-> Described.last,
                    log |-> Described.log, manifest |-> Described.next,
                    tables |-> Described.tables]
    /\ edit' = [kind |-> "open", add |-> <<>>, del |-> {}, left |-> LiveLogs(Described)]
    /\ UNCHANGED <<disk, mem, imm, logNumber, pending, bgError, bg, merging, threads,
                   pinned, history, counts>>

\* RecoverLogFile, for the first log that is left: the batches it can read go to a
\* table of level 0, when there are any.
RecoverLogFile(n) ==
    LET found == Contents(logs[n])
        next  == IF found = {} THEN versions.next ELSE versions.next + 1
        add   == IF found = {} THEN <<>> ELSE One(versions.next, 0)
    IN  /\ phase = "replaying"
        /\ n \in edit.left /\ \A m \in edit.left : n =< m
        /\ \/ /\ tables' = Over([t \in DOMAIN add |-> found], tables)
              /\ edit' = [kind |-> "open", add |-> Over(add, edit.add), del |-> {},
                          left |-> edit.left \ {n}]
              /\ versions' = [versions EXCEPT !.next = MarkFileNumberUsed(next, n),
                                              !.last = Highest(found, @)]
              /\ UNCHANGED <<logs, manifests, current, phase, mem, imm, logNumber, pending,
                             bgError, bg, merging, threads, pinned, history, counts>>
           \/ OpenFails /\ UNCHANGED disk

\* And a new log is begun.
NewLog ==
    /\ phase = "replaying" /\ edit.left = {}
    /\ \/ /\ phase' = "recovered"
          /\ logs' = Put(logs, versions.next, EmptyLog)
          /\ logNumber' = versions.next
          /\ NewFileNumber
          /\ edit' = [kind |-> "open", add |-> edit.add, del |-> {}, log |-> versions.next,
                      next |-> versions.next + 1, last |-> versions.last]
          /\ UNCHANGED <<tables, manifests, current, mem, imm, pending, bgError, bg, merging,
                         threads, pinned, history, counts>>
       \/ OpenFails /\ UNCHANGED disk

\* LogAndApply begins a new descriptor: what the old one said, and the edit.
WriteDescriptor ==
    /\ phase = "recovered"
    /\ LET base  == [tables |-> versions.tables, log |-> versions.log,
                     next |-> versions.next, last |-> versions.last]
           state == Apply(base, edit)
       IN  \/ /\ manifests' = Put(manifests, versions.manifest,
                                [Descriptor(state) EXCEPT !.durable = state])
              /\ phase' = "described"
              /\ UNCHANGED <<logs, tables, current, versions, edit, mem, imm, logNumber,
                             pending, bgError, bg, merging, threads, pinned, history, counts>>
           \/ OpenFails /\ UNCHANGED disk

\* SetCurrentFile: a temporary file, synced and renamed to CURRENT.
SetCurrentFile ==
    /\ phase = "described"
    /\ \/ /\ current' = versions.manifest
          /\ phase' = "renamed"
          /\ UNCHANGED <<logs, tables, manifests, versions, edit, mem, imm, logNumber,
                         pending, bgError, bg, merging, threads, pinned, history, counts>>
       \/ /\ OpenFails
          /\ manifests' = Without(manifests, {versions.manifest})
          /\ UNCHANGED <<logs, tables, current>>

\* The recovered version is installed and what it does not need is deleted.
FinishOpen ==
    /\ phase = "renamed"
    /\ phase' = "open"
    /\ versions' = [versions EXCEPT !.log = edit.log, !.tables = Over(edit.add, @)]
    /\ edit' = None
    /\ UNCHANGED <<mem, imm, pending, bgError, merging, pinned>>
    /\ DeleteObsoleteFiles(manifests)
    /\ bg' = Scheduled
    /\ UNCHANGED <<current, logNumber, threads, history, counts>>

-----------------------------------------------------------------------------
(* Writing: DBImpl::Write, MakeRoomForWrite and BuildBatchGroup.            *)

Write(w) ==
    /\ phase = "open"
    /\ writer[w] = "idle"
    /\ versions.last + Len(queue) < MaxSeq
    /\ queue' = Append(queue, w)
    /\ writer' = [writer EXCEPT ![w] = IF queue = <<>> THEN "front" ELSE "queued"]
    /\ UNCHANGED <<disk, phase, versions, edit, mem, imm, logNumber, pending, bgError, bg,
                   merging, group, pinned, history, counts>>

\* The first n writers are answered and the next is told that it is the front.
PopFront(n) ==
    /\ queue' = SubSeq(queue, n + 1, Len(queue))
    /\ writer' = [w \in Writers |->
           IF w \in {queue[i] : i \in 1 .. n} THEN "idle"
           ELSE IF Len(queue) > n /\ w = queue[n + 1] THEN "front"
           ELSE writer[w]]

\* Mutation: a memtable that just fits is full.
HasRoomBelow == Cardinality(mem) < WriteBufferSize

HasRoom == Cardinality(mem) =< WriteBufferSize
MustWait == ~ HasRoom /\ (imm # None \/ Cardinality(Level0) >= StopTrigger)

\* Mutation: a writer at the front does not look at bg_error_.
GiveUpWithoutLog(w) ==
    /\ writer[w] = "front"
    /\ ~ bgError /\ ~ HasRoom /\ ~ MustWait
    /\ Fault /\ UNCHANGED crashes
    /\ PopFront(1)
    /\ UNCHANGED <<disk, phase, versions, edit, mem, imm, logNumber, pending, bgError, bg,
                   merging, group, pinned, history>>

\* The error of the background thread, or of a log file that cannot be made.
GiveUp(w) ==
    /\ writer[w] = "front"
    /\ \/ bgError /\ UNCHANGED counts
       \/ /\ ~ bgError /\ ~ HasRoom /\ ~ MustWait
          /\ Fault /\ UNCHANGED crashes
    /\ PopFront(1)
    /\ UNCHANGED <<disk, phase, versions, edit, mem, imm, logNumber, pending, bgError, bg,
                   merging, group, pinned, history>>

\* bg_cv_.Wait.
Wait(w) ==
    /\ writer[w] = "front"
    /\ ~ bgError /\ MustWait
    /\ writer' = [writer EXCEPT ![w] = "asleep"]
    /\ UNCHANGED <<disk, phase, versions, edit, mem, imm, logNumber, pending, bgError, bg,
                   merging, queue, group, pinned, history, counts>>

\* A full memtable becomes imm_, with a new log for the new one.
SwitchMemTable ==
    IF HasRoom THEN UNCHANGED <<logs, logNumber, versions, mem, imm, bg>>
    ELSE /\ logNumber' = versions.next
         /\ logs' = Put(logs, versions.next, EmptyLog)
         /\ NewFileNumber
         /\ imm' = mem
         /\ mem' = {}
         /\ bg' = IF bg.at = "idle" THEN Scheduled ELSE bg

\* Mutation: a write with sync is taken along by one without.
AnyMayJoin(w, v) == TRUE

MayJoin(w, v) == v \in Syncing => w \in Syncing

\* The front writer takes some of those behind it along, but none that wants a
\* sync when it does not.
StartGroup(w) ==
    /\ writer[w] = "front"
    /\ ~ bgError /\ ~ MustWait
    /\ UNCHANGED bgError
    /\ SwitchMemTable
    /\ \E n \in 1 .. Len(queue) :
          /\ \A i \in 1 .. n : MayJoin(w, queue[i])
          /\ group' = [size |-> n, at |-> "append"]
    /\ writer' = [writer EXCEPT ![w] = "leading"]
    /\ UNCHANGED <<tables, manifests, current, phase, edit, pending, merging, queue, pinned,
                   history, counts>>

Batch == {versions.last + i : i \in 1 .. group.size}

\* log_->AddRecord.  One that fails may have written all of its bytes or not.
AddRecord ==
    /\ group # None /\ group.at = "append"
    /\ LET log   == logs[logNumber]
           added == [log EXCEPT !.records = Append(@, Batch)]
       IN  \/ /\ logs' = [logs EXCEPT ![logNumber] = added]
              /\ group' = [group EXCEPT !.at =
                              IF Head(queue) \in Syncing THEN "sync" ELSE "insert"]
              /\ UNCHANGED counts
           \/ /\ Fault /\ UNCHANGED crashes
              /\ logs' \in {[logs EXCEPT ![logNumber] = l] : l \in {added, Tear(log)}}
              /\ group' = [group EXCEPT !.at = "failed"]
    /\ UNCHANGED <<tables, manifests, current, phase, versions, edit, mem, imm, logNumber,
                   pending, bgError, bg, merging, queue, writer, pinned, history>>

\* logfile_->Sync.
Sync ==
    /\ group # None /\ group.at = "sync"
    /\ \/ /\ logs' = [logs EXCEPT ![logNumber].synced = Len(logs[logNumber].records)]
          /\ group' = [group EXCEPT !.at = "insert"]
          /\ UNCHANGED counts
       \/ /\ Fault /\ UNCHANGED <<crashes, logs>>
          /\ group' = [group EXCEPT !.at = "unsynced"]
    /\ UNCHANGED <<tables, manifests, current, phase, versions, edit, mem, imm, logNumber,
                   pending, bgError, bg, merging, queue, writer, pinned, history>>

\* InsertInto, and with the mutex again the end of Write: the sequence numbers
\* are used up even if it failed, and only a failed sync stops later writes.
FinishGroup ==
    /\ group # None /\ group.at \in {"insert", "failed", "unsynced"}
    /\ LET ok    == group.at = "insert"
           sound == ~ Torn(logs[logNumber])
           wants == {versions.last + i : i \in {j \in 1 .. group.size : queue[j] \in Syncing}}
       IN  /\ mem' = IF ok THEN mem \cup Batch ELSE mem
           /\ acked' = IF ok /\ sound THEN acked \cup Batch ELSE acked
           /\ synced' = IF ok /\ sound THEN synced \cup wants ELSE synced
    /\ bgError' = (bgError \/ group.at = "unsynced")
    /\ versions' = [versions EXCEPT !.last = @ + group.size]
    /\ PopFront(group.size)
    /\ group' = None
    /\ UNCHANGED <<disk, phase, edit, imm, logNumber, pending, bg, merging, pinned, late,
                   counts>>

-----------------------------------------------------------------------------
(* The background thread: BackgroundCall, BackgroundCompaction.             *)

\* The bg thread is done: it schedules itself again if there is more to do.
Done == bg' = Scheduled /\ writer' = Woken(writer)

\* Mutation: the error is not recorded, so that the work is done again.
FailedQuietly(nested) ==
    /\ edit' = None
    /\ UNCHANGED <<bgError, imm, versions>>
    /\ IF nested THEN bg' = [at |-> "merge", out |-> 0] /\ UNCHANGED merging
       ELSE bg' = Scheduled /\ merging' = None
    /\ writer' = Woken(writer)

\* RecordBackgroundError.  A flush that a compaction did on the way goes back to
\* the compaction, which goes on.
Failed(nested) ==
    /\ bgError' = TRUE
    /\ edit' = None
    /\ IF nested THEN bg' = [at |-> "merge", out |-> 0] /\ UNCHANGED merging
       ELSE bg' = NoWork /\ merging' = None
    /\ writer' = Woken(writer)

\* No more background work after a background error.
BackgroundRefused ==
    /\ bg.at = "scheduled" /\ bgError
    /\ bg' = NoWork
    /\ writer' = Woken(writer)
    /\ UNCHANGED <<disk, phase, versions, edit, mem, imm, logNumber, pending, bgError,
                   merging, queue, group, pinned, history, counts>>

\* CompactMemTable: by itself, or between two entries of a compaction, which
\* looks at has_imm_ and at nothing else.
StartFlush ==
    /\ imm # None
    /\ \/ bg.at = "scheduled" /\ ~ bgError
       \/ bg.at = "merge"
    /\ bg' = [at |-> "build", out |-> versions.next]
    /\ pending' = pending \cup {versions.next}
    /\ NewFileNumber
    /\ UNCHANGED <<disk, phase, edit, mem, imm, logNumber, bgError, merging, threads,
                   pinned, history, counts>>

Edit(kind, add, del, log) ==
    [kind |-> kind, add |-> add, del |-> del, log |-> log,
     next |-> versions.next, last |-> versions.last]

\* BuildTable, and PickLevelForMemTableOutput.
BuildTable ==
    /\ bg.at = "build"
    /\ pending' = pending \ {bg.out}
    /\ \/ /\ tables' = Put(tables, bg.out, imm)
          /\ \E level \in {0, 1} :
                edit' = Edit("flush", One(bg.out, level), {}, logNumber)
          /\ bg' = [bg EXCEPT !.at = "append"]
          /\ UNCHANGED <<bgError, merging, writer, counts>>
       \/ /\ Fault /\ UNCHANGED <<tables, crashes>>
          /\ Failed(merging # None)
    /\ UNCHANGED <<logs, manifests, current, phase, versions, mem, imm, logNumber, queue,
                   group, pinned, history>>

\* PickCompaction: tables of level 0 and what they overlap.  Bound: all of level
\* 0, with the tables further down or without them.
StartMerge ==
    /\ bg.at = "scheduled" /\ ~ bgError /\ imm = None
    /\ Level0 # {}
    /\ \E in \in {Level0, DOMAIN versions.tables} :
          merging' = [in |-> in, out |-> 0, held |-> DOMAIN versions.tables]
    /\ bg' = [at |-> "merge", out |-> 0]
    /\ UNCHANGED <<disk, phase, versions, edit, mem, imm, logNumber, pending, bgError,
                   threads, pinned, history, counts>>

\* IsTrivialMove: a single table that overlaps nothing goes down as it is.
StartMove ==
    /\ bg.at = "scheduled" /\ ~ bgError /\ imm = None
    /\ \E n \in Level0 : edit' = Edit("move", One(n, 1), {n}, versions.log)
    /\ bg' = [at |-> "append", out |-> 0]
    /\ UNCHANGED <<disk, phase, versions, mem, imm, logNumber, pending, bgError, merging,
                   threads, pinned, history, counts>>

\* Mutation: the number of the output is not used up.
OpenOutputSameNumber ==
    /\ bg.at = "merge" /\ merging.out = 0
    /\ merging' = [merging EXCEPT !.out = versions.next]
    /\ pending' = pending \cup {versions.next}
    /\ tables' = Put(tables, versions.next, {})
    /\ UNCHANGED <<logs, manifests, current, phase, versions, edit, mem, imm, logNumber,
                   bgError, bg, threads, pinned, history, counts>>

\* OpenCompactionOutputFile: a number, and a file in which nothing is yet.  When
\* the file cannot be made, CleanupCompaction takes the number out again.
OpenOutput ==
    /\ bg.at = "merge" /\ merging.out = 0
    /\ NewFileNumber
    /\ \/ /\ merging' = [merging EXCEPT !.out = versions.next]
          /\ pending' = pending \cup {versions.next}
          /\ tables' = Put(tables, versions.next, {})
          /\ UNCHANGED <<edit, bgError, bg, writer, counts>>
       \/ /\ Fault /\ UNCHANGED <<tables, pending, crashes>>
          /\ Failed(FALSE)
    /\ UNCHANGED <<logs, manifests, current, phase, mem, imm, logNumber, queue, group, pinned,
                   history>>

\* FinishCompactionOutputFile, then InstallCompactionResults up to LogAndApply.
FinishOutput ==
    /\ bg.at = "merge" /\ merging.out # 0
    /\ \/ /\ tables' = Put(tables, merging.out, Union(merging.in))
          /\ edit' = Edit("merge", One(merging.out, 1), merging.in, versions.log)
          /\ bg' = [at |-> "append", out |-> 0]
          /\ UNCHANGED <<pending, bgError, merging, writer, counts>>
       \/ /\ Fault /\ UNCHANGED <<tables, crashes>>
          /\ pending' = pending \ {merging.out}
          /\ Failed(FALSE)
    /\ UNCHANGED <<logs, manifests, current, phase, versions, mem, imm, logNumber, queue,
                   group, pinned, history>>

-----------------------------------------------------------------------------
(* VersionSet::LogAndApply.                                                 *)

\* It fails: CompactMemTable keeps imm_, a compaction gives its outputs up.
NotLogged ==
    /\ Failed(edit.kind = "flush" /\ merging # None)
    /\ pending' = IF edit.kind = "merge" THEN pending \ {merging.out} ELSE pending

\* What a descriptor is after one more edit.  Behind part of a record it is
\* either unreadable, or the edit counts as that part's end and is not seen.
Appended(m) ==
    {[m EXCEPT !.written = IF m.tail THEN @ ELSE Apply(@, edit), !.broken = b] :
        b \in IF m.tail THEN BOOLEAN ELSE {m.broken}}

\* What it may be after an append that failed: the same, part of the edit longer,
\* or all of it.
PartlyAppended(m) == {m, [m EXCEPT !.tail = TRUE]} \cup Appended(m)

Manifest == manifests[versions.manifest]

\* descriptor_log_->AddRecord, without the mutex.
AppendEdit ==
    /\ bg.at = "append"
    /\ \/ /\ \E m \in Appended(Manifest) :
                manifests' = [manifests EXCEPT ![versions.manifest] = m]
          /\ bg' = [bg EXCEPT !.at = "sync"]
          /\ UNCHANGED <<pending, bgError, edit, merging, writer, counts>>
       \/ /\ Fault /\ UNCHANGED crashes
          /\ \E m \in PartlyAppended(Manifest) :
                manifests' = [manifests EXCEPT ![versions.manifest] = m]
          /\ NotLogged
    /\ late' = (late \/ bgError)
    /\ UNCHANGED <<logs, tables, current, phase, versions, mem, imm, logNumber, queue, group,
                   pinned, acked, synced>>

\* descriptor_file_->Sync fails.
SyncEditFails ==
    /\ bg.at = "sync"
    /\ Fault /\ UNCHANGED crashes
    /\ NotLogged
    /\ UNCHANGED <<disk, phase, versions, mem, imm, logNumber, queue, group, pinned, history>>

\* It succeeds and the version is installed; what follows in CompactMemTable
\* and in BackgroundCompaction happens before the mutex is released.
Install ==
    /\ bg.at = "sync"
    /\ versions' = [versions EXCEPT !.tables = Over(edit.add, Without(@, edit.del)),
                                    !.log = edit.log]
    /\ edit' = None
    /\ imm' = IF edit.kind = "flush" THEN None ELSE imm
    /\ pending' = IF edit.kind = "merge" THEN pending \ {merging.out} ELSE pending
    /\ merging' = IF edit.kind = "merge" THEN None ELSE merging
    /\ UNCHANGED <<bgError, pinned>>
    /\ LET safe == [manifests EXCEPT ![versions.manifest].durable = Manifest.written]
       IN  IF edit.kind = "move" THEN manifests' = safe /\ UNCHANGED <<logs, tables>>
           ELSE DeleteObsoleteFiles(safe)
    /\ IF merging' # None
       THEN bg' = [at |-> "merge", out |-> 0] /\ writer' = Woken(writer)
       ELSE Done
    /\ UNCHANGED <<current, phase, mem, logNumber, queue, group, history, counts>>

-----------------------------------------------------------------------------
(* Reads.                                                                   *)

\* One read at a time, which begins where tables are about to leave the version
\* that it refers to, before anything has gone wrong.
FewReadsBegin ==
    /\ pinned = {}
    /\ bg.at = "sync" /\ edit.kind = "merge"
    /\ crashes = 0 /\ faults = 0

\* DBImpl::Get and NewInternalIterator refer to the current version, and release
\* the mutex.
Pin ==
    /\ phase = "open"
    /\ FewReads => FewReadsBegin
    /\ pinned' = pinned \cup {DOMAIN versions.tables}
    /\ UNCHANGED <<disk, phase, versions, edit, mem, imm, logNumber, pending, bgError, bg,
                   merging, threads, history, counts>>

\* The last of those that refer to a version lets it go.
Unpin ==
    /\ \E version \in pinned : pinned' = pinned \ {version}
    /\ UNCHANGED <<disk, phase, versions, edit, mem, imm, logNumber, pending, bgError, bg,
                   merging, threads, history, counts>>

-----------------------------------------------------------------------------
WriterStep(w) == GiveUp(w) \/ Wait(w) \/ StartGroup(w)

GroupStep == AddRecord \/ Sync \/ FinishGroup

Background == \/ BackgroundRefused \/ StartFlush \/ BuildTable \/ StartMerge \/ StartMove
              \/ OpenOutput \/ FinishOutput \/ AppendEdit \/ SyncEditFails \/ Install

Open == \/ NewDB \/ Recover \/ (\E n \in DOMAIN logs : RecoverLogFile(n)) \/ NewLog
        \/ WriteDescriptor \/ SetCurrentFile \/ FinishOpen

Next ==
    \/ Open
    \/ \E w \in Writers : Write(w) \/ WriterStep(w)
    \/ GroupStep
    \/ Background
    \/ Pin \/ Unpin
    \/ ProcessCrash \/ MachineCrash

\* A thread that can go on does: the scheduler runs every thread and hands the
\* mutex to each; only the writer at the front of the queue has steps.  Nobody
\* has to write, to open the database or to release a version.
Fairness == /\ WF_vars(\E w \in Writers : WriterStep(w))
            /\ WF_vars(GroupStep)
            /\ WF_vars(Background)

Spec == Init /\ [][Next]_vars /\ Fairness

-----------------------------------------------------------------------------
(* Properties.                                                              *)

Seqs    == 1 .. MaxSeq
TableMap(f) == DOMAIN f \subseteq Nat \ {0} /\ Range(f) \subseteq {0, 1}

\* Every variable has its type, and the counters stay within the bounds.
TypeOK ==
    /\ DOMAIN logs \subseteq Nat /\ DOMAIN tables \subseteq Nat
    /\ \A n \in DOMAIN logs :
          /\ Range(logs[n].records) \subseteq SUBSET Seqs
          /\ logs[n].synced \in 0 .. Len(logs[n].records)
          /\ logs[n].sound \in {None} \cup 0 .. Len(logs[n].records)
    /\ Range(tables) \subseteq SUBSET Seqs
    /\ current \in {0} \cup DOMAIN manifests
    /\ phase \in {"down", "created", "replaying", "recovered", "described", "renamed", "open"}
    /\ TableMap(versions.tables) /\ versions.last \in 0 .. MaxSeq
    /\ logNumber < versions.next \/ phase \in {"down", "created"}
    /\ mem \subseteq Seqs /\ (imm = None \/ imm \in (SUBSET Seqs) \ {{}})
    /\ bg.at \in {"idle", "scheduled", "build", "merge", "append", "sync"}
    /\ edit # None => TableMap(edit.add)
    /\ Range(queue) \subseteq Writers
    /\ \A w \in Writers : writer[w] \in {"idle", "queued", "front", "asleep", "leading"}
    /\ crashes =< MaxCrashes /\ faults =< MaxFaults

\* What a version, a read, a compaction, its output included, or a descriptor
\* refers to is on the disk: the files deleted behind a flush or a compaction are
\* needed by nobody, not even by an opening after a crash that brings the last
\* synced descriptor back.
Needed ==
    DOMAIN versions.tables \cup Pinned
    \cup (IF merging = None THEN {} ELSE merging.in \cup ({merging.out} \ {0}))
    \cup (IF edit = None THEN {} ELSE DOMAIN edit.add)
    \cup (IF current = 0 THEN {}
          ELSE DOMAIN Described.tables
               \cup IF manifests[current].durable = NeverSynced THEN {}
                    ELSE DOMAIN manifests[current].durable.tables)

NeededFilesExist == Needed \subseteq DOMAIN tables

\* A sequence number is handed out once: no write that can be found, now or
\* after a crash, has one that is still to come.
SequencesAreFresh ==
    phase = "open" =>
        \A s \in Visible \cup Recoverable :
            s =< versions.last + (IF group = None THEN 0 ELSE group.size)

\* A file number is handed out once: no table that is still needed is written
\* over, and no log with writes in it is begun again, whatever numbers a crashed
\* incarnation had taken without a trace in the descriptor.
NumbersAreFresh ==
    [][/\ \A n \in Needed \cap Needed' : tables[n] \in {tables'[n], {}}
       /\ phase' # "down" =>
              \A n \in DOMAIN logs \cap DOMAIN logs' :
                  IsPrefix(logs[n].records, logs'[n].records)]_vars

\* The descriptor can be read again after a crash, unless something was appended
\* to it behind a background error, or it is the first one, which NewDB does not
\* sync.
DescriptorReadable ==
    current # 0 /\ manifests[current].broken => late \/ current = 1

\* No wakeup is lost: somebody at the front of a queue that is not empty can go on
\* or leads a group, unless it waits for the background thread, and then that
\* thread has work, an error included, at whose end it wakes it.
NobodyIsForgotten ==
    /\ \A w \in Writers :
          /\ (writer[w] # "idle") = (w \in Range(queue))
          /\ (writer[w] = "queued") = (w \in Range(queue) /\ w # Head(queue))
          /\ writer[w] = "asleep" => bg.at # "idle"
    /\ (group # None) = (\E w \in Writers : writer[w] = "leading")

\* Every call of Write returns, whoever leads its group, however full the
\* memtable and level 0 are, and whatever fails.
WriteReturns ==
    \A w \in Writers : []<>(writer[w] = "idle")

\* What a reader finds, or opening will: see Store.
Stored == IF phase = "open" THEN Visible ELSE Recoverable

InLogs == UNION {Contents(logs[n]) : n \in DOMAIN logs}

Promise == INSTANCE Store WITH stored <- Stored, begun <- InLogs \ Stored

\* The database keeps the promises of Store through group commit, flushes,
\* compactions, failed calls and crashes at any point, of opening too.
KeepsPromises == Promise!Spec

\* What options.h says of a crash of the process: no writes are lost even without
\* sync.  A write is in a memtable only when it was answered with success.
ProcessCrashLosesNothing ==
    [][phase = "open" /\ ProcessCrash => Visible \subseteq Recoverable']_vars

\* "No more background work after a background error": after one no memtable is
\* begun to be flushed.
NoWorkAfterError == [][bgError /\ bg.at # "build" => bg'.at # "build"]_vars
=============================================================================
