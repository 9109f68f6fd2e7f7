---------------------------- MODULE DBImpl_proofs ----------------------------
(*****************************************************************************)
(* For any number of writers, any triggers and buffer sizes, any number of   *)
(* crashes and of failing calls: the files that DBImpl deletes are needed by *)
(* nobody, no writer waits for a wakeup that does not come, the descriptor   *)
(* can be read after a crash, no file number and no sequence number is       *)
(* handed out twice; and, on top of that, DBImpl keeps the promises of Store *)
(* and its types.                                                            *)
(*****************************************************************************)
EXTENDS DBImpl, FiniteSetTheorems, SequenceTheorems, WellFoundedInduction, TLAPS

\* Names of the phases from reading the descriptor to installing the version.
Opening == {"replaying", "recovered", "described", "renamed"}

\* The shapes of the records that are updated field by field, and the numbers
\* that are compared.
Shapes ==
    /\ phase \in {"down", "created", "open"} \cup Opening
    /\ DOMAIN logs \subseteq Nat
    /\ DOMAIN manifests \subseteq Nat
    /\ versions = [next |-> versions.next, last |-> versions.last, log |-> versions.log,
                   manifest |-> versions.manifest, tables |-> versions.tables]
    /\ versions.next \in Nat /\ versions.manifest \in Nat
    /\ bg = [at |-> bg.at, out |-> bg.out]
    /\ bg.at \in {"idle", "scheduled", "build", "merge", "append", "sync"}
    /\ bgError \in BOOLEAN
    /\ phase # "open" => bg.at = "idle" /\ merging = None
    /\ merging # None \/ bg.at = "merge" =>
           /\ merging = [in |-> merging.in, out |-> merging.out, held |-> merging.held]
           /\ merging.out \in Nat

\* A descriptor's number is below every file number it says is next, so that a
\* new one never replaces it.
DescriptorShapes ==
    \A m \in DOMAIN manifests :
        LET d == manifests[m]
        IN  /\ d = [written |-> d.written, durable |-> d.durable, tail |-> d.tail,
                    broken |-> d.broken]
            /\ d.written.next \in Nat /\ m < d.written.next
            /\ d.durable # NeverSynced => d.durable.next \in Nat /\ m < d.durable.next

\* Which descriptor CURRENT names.
CurrentIsKnown ==
    /\ current \in {0} \cup DOMAIN manifests
    /\ phase \in Opening \cup {"created", "open"} => current \in DOMAIN manifests /\ current # 0
    /\ phase \in Opening \cup {"open"} =>
           0 < versions.manifest /\ versions.manifest < versions.next
    /\ phase \in {"replaying", "recovered", "described"} => current # versions.manifest
    /\ phase \in {"renamed", "open"} => current = versions.manifest
    /\ phase \in {"described", "renamed"} => versions.manifest \in DOMAIN manifests

\* The edit that will be logged, or is.
EditIsReady ==
    /\ edit # None \/ phase \in Opening \/ bg.at \in {"append", "sync"} =>
           DOMAIN edit.add \subseteq DOMAIN tables
    /\ phase \in Opening => edit.del = {}
    /\ phase \in Opening \ {"replaying"} \/ bg.at \in {"append", "sync"} =>
           edit.next \in Nat /\ versions.manifest < edit.next

\* The tables that somebody in the process refers to.
ReferencedExist ==
    /\ DOMAIN versions.tables \cup Pinned \subseteq DOMAIN tables
    /\ merging # None \/ bg.at = "merge" =>
           /\ merging.in \subseteq merging.held /\ merging.held \subseteq DOMAIN tables
           /\ merging.out # 0 =>
                  /\ merging.out \in DOMAIN tables \cap pending
                  /\ merging.out < versions.next
    /\ bg.at = "build" /\ merging # None => merging.out = 0 \/ merging.out # bg.out

\* The tables that an opening after a crash will look for.
DescribedExist ==
    current # 0 =>
        /\ DOMAIN Described.tables \subseteq DOMAIN tables
        /\ manifests[current].durable # NeverSynced =>
               DOMAIN manifests[current].durable.tables \subseteq DOMAIN tables

\* As long as nothing failed the descriptor says what is installed, or what is
\* about to be.
DescriptorAgrees ==
    /\ phase \in {"described", "renamed"} =>
           /\ Manifest.tail = FALSE
           /\ DOMAIN Manifest.written.tables = DOMAIN edit.add \cup DOMAIN versions.tables
           /\ Manifest.durable = Manifest.written
    /\ phase = "open" /\ ~ bgError =>
           /\ Manifest.tail = FALSE
           /\ DOMAIN Manifest.written.tables =
                  IF bg.at = "sync"
                  THEN DOMAIN edit.add \cup (DOMAIN versions.tables \ edit.del)
                  ELSE DOMAIN versions.tables

FInv == /\ Shapes /\ DescriptorShapes /\ CurrentIsKnown /\ EditIsReady /\ ReferencedExist
        /\ DescribedExist /\ DescriptorAgrees

fvars == <<DOMAIN logs, tables, manifests, current, phase, versions, edit, pending, bgError, bg,
           merging, pinned>>

-----------------------------------------------------------------------------
(* The tables of the versions that reads refer to.                          *)

LEMMA PinnedStays == ASSUME UNCHANGED pinned PROVE Pinned' = Pinned
  BY DEF Pinned

LEMMA PinnedNone == (pinned = {} => Pinned = {}) /\ (pinned' = {} => Pinned' = {})
  BY DEF Pinned

LEMMA PinnedGrows ==
    ASSUME Pin \/ Unpin
    PROVE  Pinned' \subseteq Pinned \cup DOMAIN versions.tables
  <1>1. CASE Pin
    <2>1. pinned' = pinned \cup {DOMAIN versions.tables}
      BY <1>1 DEF Pin
    <2> QED BY <2>1 DEF Pinned
  <1>2. CASE Unpin
    <2>1. pinned' \subseteq pinned
      BY <1>2 DEF Unpin
    <2> QED BY <2>1 DEF Pinned
  <1> QED BY <1>1, <1>2

-----------------------------------------------------------------------------
(* The operators on functions.                                              *)

LEMMA OverDomain ==
    ASSUME NEW f, NEW g
    PROVE  DOMAIN Over(f, g) = DOMAIN f \cup DOMAIN g
  BY DEF Over

\* One more file, or another content for one that is there.
LEMMA PutIn ==
    ASSUME NEW f, NEW a, NEW b
    PROVE  /\ DOMAIN Put(f, a, b) = {a} \cup DOMAIN f
           /\ Put(f, a, b)[a] = b
           /\ \A x \in DOMAIN f \ {a} : Put(f, a, b)[x] = f[x]
  BY DEF Put, Over, One

LEMMA Fewer ==
    ASSUME NEW f, NEW S
    PROVE  /\ DOMAIN Without(f, S) = DOMAIN f \ S
           /\ DOMAIN Only(f, S) = DOMAIN f \cap S
           /\ \A x \in DOMAIN f : x \notin S => Without(f, S)[x] = f[x]
           /\ \A x \in DOMAIN f : x \in S => Only(f, S)[x] = f[x]
  BY DEF Without, Only

\* One more edit.
LEMMA ApplyDomain ==
    ASSUME NEW state, NEW e
    PROVE  /\ DOMAIN Apply(state, e).tables = DOMAIN e.add \cup (DOMAIN state.tables \ e.del)
           /\ Apply(state, e).next = e.next
  <1>1. /\ Apply(state, e).tables = Over(e.add, Without(state.tables, e.del))
        /\ Apply(state, e).next = e.next
    BY DEF Apply
  <1>2. DOMAIN Over(e.add, Without(state.tables, e.del))
            = DOMAIN e.add \cup (DOMAIN state.tables \ e.del)
    BY DEF Over, Without
  <1> QED BY <1>1, <1>2

-----------------------------------------------------------------------------
(* The steps that touch nothing of what the invariant is about.             *)

LEMMA FQuiet ==
    ASSUME FInv, UNCHANGED fvars
    PROVE  FInv'
  BY PinnedStays
  DEF FInv, fvars, Shapes, DescriptorShapes, CurrentIsKnown, EditIsReady, ReferencedExist,
         DescribedExist, DescriptorAgrees, Described, Manifest

LEMMA FInit == Init => FInv
  <1> SUFFICES ASSUME Init PROVE FInv
    OBVIOUS
  <1> USE DEF Init, NoVersions, NoWork, Opening
  <1>1. Shapes
    <2>1. DOMAIN logs \subseteq Nat /\ DOMAIN manifests \subseteq Nat
      OBVIOUS
    <2>2. versions = [next |-> versions.next, last |-> versions.last, log |-> versions.log,
                      manifest |-> versions.manifest, tables |-> versions.tables]
      OBVIOUS
    <2>3. bg = [at |-> bg.at, out |-> bg.out] /\ bg.at = "idle"
      OBVIOUS
    <2> QED BY <2>1, <2>2, <2>3 DEF Shapes
  <1>2. DescriptorShapes /\ CurrentIsKnown
    BY DEF DescriptorShapes, CurrentIsKnown
  <1>3. EditIsReady
    BY DEF EditIsReady
  <1>4. ReferencedExist
    BY PinnedNone DEF ReferencedExist
  <1>5. DescribedExist /\ DescriptorAgrees
    BY DEF DescribedExist, DescriptorAgrees
  <1> QED BY <1>1, <1>2, <1>3, <1>4, <1>5 DEF FInv

-----------------------------------------------------------------------------
(* Crashes: all that remains is what the descriptor names.                  *)

\* Nothing of the process is left, and the tables are those of before.
LEMMA FForget ==
    ASSUME FInv, Forget, UNCHANGED <<tables, current>>, DOMAIN logs' = DOMAIN logs,
           DOMAIN manifests' = DOMAIN manifests, DescriptorShapes', DescribedExist'
    PROVE  FInv'
  <1> USE DEF Forget, NoVersions, NoWork, Opening
  <1>1. Shapes'
    BY DEF FInv, Shapes
  <1>2. CurrentIsKnown'
    BY DEF FInv, CurrentIsKnown
  <1>3. EditIsReady' /\ ReferencedExist' /\ DescriptorAgrees'
    BY PinnedNone DEF EditIsReady, ReferencedExist, DescriptorAgrees
  <1> QED BY <1>1, <1>2, <1>3 DEF FInv

LEMMA FProcessCrash ==
    ASSUME FInv, ProcessCrash
    PROVE  FInv'
  <1>1. Forget /\ UNCHANGED <<tables, manifests, current>> /\ DOMAIN logs' = DOMAIN logs
    BY DEF ProcessCrash, CutLogs
  <1>2. DescriptorShapes' /\ DescribedExist'
    BY <1>1 DEF FInv, DescriptorShapes, DescribedExist, Described
  <1> QED BY <1>1, <1>2, FForget

LEMMA FMachineCrash ==
    ASSUME FInv, MachineCrash
    PROVE  FInv'
  <1>1. Forget /\ UNCHANGED <<tables, current>> /\ DOMAIN logs' = DOMAIN logs
    BY DEF MachineCrash, CutLogs
  <1>2. PICK lost \in SUBSET DOMAIN manifests :
          manifests' = [m \in DOMAIN manifests |->
              IF m \notin lost THEN manifests[m]
              ELSE IF manifests[m].durable = NeverSynced THEN [manifests[m] EXCEPT !.broken = TRUE]
              ELSE [manifests[m] EXCEPT !.written = manifests[m].durable]]
    BY DEF MachineCrash
  <1>3. ASSUME NEW m \in DOMAIN manifests
        PROVE  LET d == manifests[m]  e == manifests'[m]
               IN  /\ e = [written |-> e.written, durable |-> e.durable, tail |-> e.tail,
                           broken |-> e.broken]
                   /\ e.durable = d.durable
                   /\ e.written = d.written \/ (d.durable # NeverSynced /\ e.written = d.durable)
    <2> DEFINE d == manifests[m]
    <2>1. d = [written |-> d.written, durable |-> d.durable, tail |-> d.tail,
               broken |-> d.broken]
      BY DEF FInv, DescriptorShapes
    <2>2. manifests'[m] = IF m \notin lost THEN d
                          ELSE IF d.durable = NeverSynced THEN [d EXCEPT !.broken = TRUE]
                          ELSE [d EXCEPT !.written = d.durable]
      BY <1>2
    <2> HIDE DEF d
    <2> QED BY <2>1, <2>2 DEF d
  <1>4. DescriptorShapes'
    BY ZenonT(60), <1>2, <1>3 DEF FInv, DescriptorShapes
  <1>5. DescribedExist'
    BY <1>1, <1>3 DEF FInv, DescribedExist, Described, CurrentIsKnown
  <1>6. DOMAIN manifests' = DOMAIN manifests
    BY <1>2
  <1> QED BY <1>1, <1>4, <1>5, <1>6, FForget

-----------------------------------------------------------------------------
(* Opening.                                                                 *)

LEMMA FNewDB ==
    ASSUME FInv, NewDB
    PROVE  FInv'
  <1> USE DEF NewDB, Opening
  <1>1. /\ DOMAIN manifests' = {1}
        /\ manifests'[1] = [written |-> NewState, durable |-> NeverSynced, tail |-> FALSE,
                            broken |-> FALSE]
        /\ NewState.tables = <<>> /\ NewState.next = 2
    BY DEF One, Descriptor, NewState
  <1>2. Shapes'
    BY <1>1 DEF FInv, Shapes
  <1>3. DescriptorShapes' /\ DescribedExist'
    BY <1>1 DEF DescriptorShapes, DescribedExist, Described
  <1>4. CurrentIsKnown' /\ EditIsReady' /\ ReferencedExist' /\ DescriptorAgrees'
    BY PinnedStays, <1>1
    DEF FInv, Shapes, CurrentIsKnown, EditIsReady, ReferencedExist, DescriptorAgrees
  <1> QED BY <1>2, <1>3, <1>4 DEF FInv

\* Open gives up: the descriptors are what they were, or the new one is gone.
LEMMA FOpenFails ==
    ASSUME FInv, phase \in Opening, OpenFails, UNCHANGED <<logs, tables, current>>,
           manifests' \in {manifests, Without(manifests, {versions.manifest})},
           manifests' # manifests => phase = "described"
    PROVE  FInv'
  <1> USE DEF OpenFails, Fault, NoVersions, Opening
  <1>1. \A m \in DOMAIN manifests' : m \in DOMAIN manifests /\ manifests'[m] = manifests[m]
    BY DEF Without
  <1>2. current \in DOMAIN manifests' /\ manifests'[current] = manifests[current]
    BY DEF Without, FInv, CurrentIsKnown
  <1>3. Shapes'
    BY <1>1 DEF FInv, Shapes
  <1>4. DescriptorShapes'
    BY <1>1 DEF FInv, DescriptorShapes
  <1>5. CurrentIsKnown' /\ EditIsReady'
    BY <1>2 DEF FInv, Shapes, CurrentIsKnown, EditIsReady
  <1>6. ReferencedExist'
    BY PinnedStays DEF FInv, Shapes, ReferencedExist
  <1>7. DescribedExist' /\ DescriptorAgrees'
    BY <1>2 DEF FInv, DescribedExist, Described, DescriptorAgrees
  <1> QED BY <1>3, <1>4, <1>5, <1>6, <1>7 DEF FInv

LEMMA FRecover ==
    ASSUME FInv, Recover
    PROVE  FInv'
  <1> USE DEF Recover, Opening, disk
  <1>1. current \in DOMAIN manifests /\ current # 0
    BY DEF FInv, CurrentIsKnown
  <1>2. current \in Nat /\ Described.next \in Nat /\ current < Described.next
    BY <1>1 DEF FInv, Shapes, DescriptorShapes, Described
  <1>3. Shapes'
    BY <1>2 DEF FInv, Shapes
  <1>4. DescriptorShapes' /\ CurrentIsKnown'
    BY <1>1, <1>2 DEF FInv, DescriptorShapes, CurrentIsKnown
  <1>5. EditIsReady' /\ ReferencedExist'
    BY PinnedStays DEF FInv, Shapes, EditIsReady, ReferencedExist
  <1>6. DescribedExist' /\ DescriptorAgrees'
    BY DEF FInv, DescribedExist, Described, DescriptorAgrees
  <1> QED BY <1>3, <1>4, <1>5, <1>6 DEF FInv

LEMMA FRecoverLogFile ==
    ASSUME FInv, NEW n \in DOMAIN logs, RecoverLogFile(n)
    PROVE  FInv'
  <1> USE DEF Opening
  <1> DEFINE found == Contents(logs[n])
             next  == IF found = {} THEN versions.next ELSE versions.next + 1
             add   == IF found = {} THEN <<>> ELSE One(versions.next, 0)
  <1>1. CASE OpenFails /\ UNCHANGED disk
    BY <1>1, FOpenFails DEF RecoverLogFile, disk
  <1>2. CASE /\ tables' = Over([t \in DOMAIN add |-> found], tables)
             /\ edit' = [kind |-> "open", add |-> Over(add, edit.add), del |-> {},
                         left |-> edit.left \ {n}]
             /\ versions' = [versions EXCEPT !.next = MarkFileNumberUsed(next, n),
                                             !.last = Highest(found, @)]
             /\ UNCHANGED <<logs, manifests, current, phase, pending, bgError, bg, merging,
                            pinned>>
    <2>1. phase = "replaying"
      BY DEF RecoverLogFile
    <2>2. next \in Nat /\ versions.next =< next /\ n \in Nat
      BY DEF FInv, Shapes
    <2> HIDE DEF found, next, add
    <2>3. DOMAIN tables' = DOMAIN add \cup DOMAIN tables
      BY <1>2 DEF Over
    <2>4. DOMAIN edit'.add = DOMAIN add \cup DOMAIN edit.add /\ edit'.del = {}
      BY <1>2 DEF Over
    <2>5. /\ versions' = [next |-> MarkFileNumberUsed(next, n), last |-> versions'.last,
                          log |-> versions.log, manifest |-> versions.manifest,
                          tables |-> versions.tables]
          /\ versions'.next \in Nat /\ versions.next =< versions'.next
      <3>1. versions' = [next |-> MarkFileNumberUsed(next, n),
                         last |-> Highest(found, versions.last),
                         log |-> versions.log, manifest |-> versions.manifest,
                         tables |-> versions.tables]
        BY <1>2 DEF FInv, Shapes
      <3>2. MarkFileNumberUsed(next, n) \in Nat /\ next =< MarkFileNumberUsed(next, n)
        BY <2>2 DEF MarkFileNumberUsed
      <3> QED BY <2>2, <3>1, <3>2 DEF FInv, Shapes
    <2>6. Shapes'
      BY <1>2, <2>5 DEF FInv, Shapes
    <2>7. DescriptorShapes' /\ DescribedExist'
      BY <1>2, <2>3 DEF FInv, DescriptorShapes, DescribedExist, Described
    <2>8. CurrentIsKnown'
      BY <1>2, <2>1, <2>5 DEF FInv, Shapes, CurrentIsKnown
    <2>9. EditIsReady' /\ ReferencedExist'
      BY PinnedStays, <1>2, <2>1, <2>3, <2>4, <2>5 DEF FInv, Shapes, EditIsReady, ReferencedExist
    <2>10. DescriptorAgrees'
      BY <1>2, <2>1 DEF DescriptorAgrees
    <2> QED BY <2>6, <2>7, <2>8, <2>9, <2>10 DEF FInv
  <1> QED BY <1>1, <1>2 DEF RecoverLogFile

LEMMA FNewLog ==
    ASSUME FInv, NewLog
    PROVE  FInv'
  <1> USE DEF Opening
  <1>1. CASE OpenFails /\ UNCHANGED disk
    BY <1>1, FOpenFails DEF NewLog, disk
  <1>2. CASE ~ (OpenFails /\ UNCHANGED disk)
    <2> USE DEF NewLog, NewFileNumber
    <2>1. DOMAIN logs' = {versions.next} \cup DOMAIN logs
      BY <1>2 DEF Put, Over, One
    <2>2. versions' = [next |-> versions.next + 1, last |-> versions.last,
                       log |-> versions.log, manifest |-> versions.manifest,
                       tables |-> versions.tables]
      BY <1>2 DEF FInv, Shapes
    <2>3. Shapes'
      BY <1>2, <2>1, <2>2 DEF FInv, Shapes
    <2>4. DescriptorShapes' /\ DescribedExist' /\ DescriptorAgrees'
      BY <1>2 DEF FInv, DescriptorShapes, DescribedExist, Described, DescriptorAgrees
    <2>5. CurrentIsKnown'
      BY <1>2, <2>2 DEF FInv, Shapes, CurrentIsKnown
    <2>6. EditIsReady' /\ ReferencedExist'
      BY PinnedStays, <1>2, <2>2 DEF FInv, Shapes, CurrentIsKnown, EditIsReady, ReferencedExist
    <2> QED BY <2>3, <2>4, <2>5, <2>6 DEF FInv
  <1> QED BY <1>1, <1>2

LEMMA FWriteDescriptor ==
    ASSUME FInv, WriteDescriptor
    PROVE  FInv'
  <1> USE DEF Opening
  <1> DEFINE base  == [tables |-> versions.tables, log |-> versions.log,
                       next |-> versions.next, last |-> versions.last]
             state == Apply(base, edit)
  <1>1. CASE OpenFails /\ UNCHANGED disk
    BY <1>1, FOpenFails DEF WriteDescriptor, disk
  <1>2. CASE ~ (OpenFails /\ UNCHANGED disk)
    <2>1. /\ phase = "recovered" /\ phase' = "described"
          /\ manifests' = Put(manifests, versions.manifest,
                              [Descriptor(state) EXCEPT !.durable = state])
          /\ UNCHANGED <<logs, tables, current, versions, edit, pending, bgError, bg, merging,
                         pinned>>
      BY <1>2 DEF WriteDescriptor
    <2>2. edit.del = {} /\ edit.next \in Nat /\ versions.manifest < edit.next
      BY <2>1 DEF FInv, EditIsReady
    <2>3. /\ DOMAIN state.tables = DOMAIN edit.add \cup DOMAIN versions.tables
          /\ state.next = edit.next
      BY <2>2 DEF Apply, Over, Without
    <2> HIDE DEF state
    <2>4. /\ DOMAIN manifests' = {versions.manifest} \cup DOMAIN manifests
          /\ manifests'[versions.manifest] =
                 [written |-> state, durable |-> state, tail |-> FALSE, broken |-> FALSE]
          /\ \A m \in DOMAIN manifests \ {versions.manifest} : manifests'[m] = manifests[m]
      BY <2>1 DEF Put, Over, One, Descriptor
    <2>5. Shapes'
      BY <2>1, <2>4 DEF FInv, Shapes
    <2>6. DescriptorShapes'
      BY <2>1, <2>2, <2>3, <2>4 DEF FInv, DescriptorShapes
    <2>7. CurrentIsKnown' /\ DescribedExist'
      BY <2>1, <2>4 DEF FInv, CurrentIsKnown, DescribedExist, Described
    <2>8. EditIsReady' /\ ReferencedExist'
      BY PinnedStays, <2>1 DEF FInv, EditIsReady, ReferencedExist
    <2>9. DescriptorAgrees'
      BY <2>1, <2>3, <2>4 DEF DescriptorAgrees, Manifest
    <2> QED BY <2>5, <2>6, <2>7, <2>8, <2>9 DEF FInv
  <1> QED BY <1>1, <1>2

LEMMA FSetCurrentFile ==
    ASSUME FInv, SetCurrentFile
    PROVE  FInv'
  <1> USE DEF Opening
  <1>1. CASE /\ OpenFails
             /\ manifests' = Without(manifests, {versions.manifest})
             /\ UNCHANGED <<logs, tables, current>>
    BY <1>1, FOpenFails DEF SetCurrentFile
  <1>2. CASE /\ phase = "described" /\ phase' = "renamed"
             /\ current' = versions.manifest
             /\ UNCHANGED <<logs, tables, manifests, versions, edit, pending, bgError, bg,
                            merging, pinned>>
    <2>1. versions.manifest \in DOMAIN manifests /\ versions.manifest # 0
      BY <1>2 DEF FInv, CurrentIsKnown, Shapes, DescriptorShapes
    <2>2. Shapes' /\ DescriptorShapes' /\ CurrentIsKnown'
      BY <1>2, <2>1 DEF FInv, Shapes, DescriptorShapes, CurrentIsKnown
    <2>3. EditIsReady' /\ ReferencedExist' /\ DescriptorAgrees'
      BY PinnedStays, <1>2 DEF FInv, EditIsReady, ReferencedExist, DescriptorAgrees, Manifest
    <2>4. DescribedExist'
      BY <1>2 DEF FInv, DescriptorAgrees, DescribedExist, Described, Manifest, EditIsReady,
                  ReferencedExist
    <2> QED BY <2>2, <2>3, <2>4 DEF FInv
  <1> QED BY <1>1, <1>2 DEF SetCurrentFile

-----------------------------------------------------------------------------
(* DeleteObsoleteFiles.                                                     *)

\* The files that go are none of those that a version, a read, a compaction or a
\* pending output needs, and the current descriptor stays.
LEMMA Deletion ==
    ASSUME NEW d, DeleteObsoleteFiles(d), FInv,
           DOMAIN versions'.tables \cup Pinned' \subseteq DOMAIN tables,
           merging' # None => merging'.held \subseteq DOMAIN tables
    PROVE  /\ DOMAIN logs' \subseteq DOMAIN logs
           /\ DOMAIN manifests' \subseteq DOMAIN d
           /\ \A m \in DOMAIN manifests' : manifests'[m] = d[m]
           /\ \A m \in DOMAIN d : m >= versions'.manifest => m \in DOMAIN manifests'
           /\ bgError' => tables' = tables
           /\ DOMAIN versions'.tables \cup Pinned' \subseteq DOMAIN tables'
           /\ merging' # None => merging'.held \subseteq DOMAIN tables'
           /\ DOMAIN tables \cap pending' \subseteq DOMAIN tables'
  <1>1. CASE bgError'
    BY <1>1 DEF DeleteObsoleteFiles
  <1>2. CASE ~ bgError'
    <2>1. /\ DOMAIN tables' = DOMAIN tables \cap LiveFiles
          /\ DOMAIN logs' \subseteq DOMAIN logs
          /\ manifests' = Only(d, {m \in DOMAIN d : m >= versions'.manifest})
      BY <1>2 DEF DeleteObsoleteFiles, Only
    <2>2. DOMAIN versions'.tables \cup Pinned' \cup pending' \subseteq LiveFiles
      BY DEF LiveFiles
    <2>3. merging' # None => merging'.held \subseteq LiveFiles
      BY DEF LiveFiles
    <2> QED BY <1>2, <2>1, <2>2, <2>3 DEF Only
  <1> QED BY <1>1, <1>2

LEMMA FFinishOpen ==
    ASSUME FInv, FinishOpen
    PROVE  FInv'
  <1> USE DEF Opening
  <1>1. /\ phase = "renamed" /\ phase' = "open"
        /\ versions' = [versions EXCEPT !.log = edit.log, !.tables = Over(edit.add, @)]
        /\ edit' = None
        /\ UNCHANGED <<current, pending, bgError, merging, pinned>>
        /\ DeleteObsoleteFiles(manifests)
        /\ bg' = Scheduled
    BY DEF FinishOpen
  <1>2. /\ versions' = [next |-> versions.next, last |-> versions.last, log |-> edit.log,
                        manifest |-> versions.manifest,
                        tables |-> Over(edit.add, versions.tables)]
        /\ DOMAIN versions'.tables = DOMAIN edit.add \cup DOMAIN versions.tables
    BY <1>1 DEF FInv, Shapes, Over
  <1>3. bg' = [at |-> bg'.at, out |-> bg'.out] /\ bg'.at \in {"idle", "scheduled"}
    BY <1>1 DEF Scheduled
  <1>4. merging = None /\ current = versions.manifest /\ current \in DOMAIN manifests
    BY <1>1 DEF FInv, Shapes, CurrentIsKnown
  <1>5. DOMAIN versions'.tables \cup Pinned' \subseteq DOMAIN tables
    BY PinnedStays, <1>1, <1>2 DEF FInv, EditIsReady, ReferencedExist
  <1>6. /\ DOMAIN logs' \subseteq DOMAIN logs
        /\ DOMAIN manifests' \subseteq DOMAIN manifests
        /\ \A m \in DOMAIN manifests' : manifests'[m] = manifests[m]
        /\ \A m \in DOMAIN manifests : m >= versions'.manifest => m \in DOMAIN manifests'
        /\ DOMAIN versions'.tables \cup Pinned' \subseteq DOMAIN tables'
    BY <1>1, <1>4, <1>5, Deletion
  <1>7. current' \in DOMAIN manifests' /\ current' = versions'.manifest
    BY <1>1, <1>2, <1>4, <1>6 DEF FInv, Shapes
  <1>8. Shapes'
    BY <1>1, <1>2, <1>3, <1>4, <1>6 DEF FInv, Shapes
  <1>9. DescriptorShapes' /\ CurrentIsKnown'
    BY <1>1, <1>2, <1>6, <1>7 DEF FInv, DescriptorShapes, CurrentIsKnown
  <1>10. EditIsReady' /\ ReferencedExist'
    BY <1>1, <1>3, <1>4, <1>6 DEF EditIsReady, ReferencedExist
  <1>11. /\ DOMAIN Described'.tables = DOMAIN versions'.tables
         /\ manifests'[current'].durable = Described'
         /\ manifests'[current'].tail = FALSE
    BY ZenonT(60), <1>1, <1>2, <1>4, <1>6, <1>7 DEF FInv, DescriptorAgrees, Manifest, Described
  <1>12. DescribedExist' /\ DescriptorAgrees'
    BY <1>1, <1>3, <1>6, <1>7, <1>11 DEF DescribedExist, DescriptorAgrees, Manifest, Described
  <1> QED BY <1>8, <1>9, <1>10, <1>12 DEF FInv

-----------------------------------------------------------------------------
(* Writing and reading.                                                     *)

\* The steps that take a number, begin a log, report an error, schedule the
\* background thread or refer to a version, and change no file.
LEMMA FLight ==
    ASSUME FInv, UNCHANGED <<tables, manifests, current, phase, edit, pending, merging>>,
           DOMAIN logs' \subseteq Nat,
           versions' = [next |-> versions'.next, last |-> versions'.last,
                        log |-> versions.log, manifest |-> versions.manifest,
                        tables |-> versions.tables],
           versions'.next \in Nat, versions.next =< versions'.next,
           bgError' \in BOOLEAN, bgError => bgError',
           \/ bg' = bg
           \/ /\ phase = "open" /\ bg.at \in {"idle", "scheduled"}
              /\ bg' = [at |-> bg'.at, out |-> bg'.out] /\ bg'.at \in {"idle", "scheduled"},
           Pinned' \subseteq DOMAIN tables
    PROVE  FInv'
  <1> USE DEF Opening
  <1>1. Shapes'
    BY DEF FInv, Shapes
  <1>2. DescriptorShapes' /\ DescribedExist'
    BY DEF FInv, DescriptorShapes, DescribedExist, Described
  <1>3. CurrentIsKnown'
    BY DEF FInv, Shapes, CurrentIsKnown
  <1>4. EditIsReady' /\ ReferencedExist'
    BY DEF FInv, Shapes, EditIsReady, ReferencedExist
  <1>5. DescriptorAgrees'
    <2>1. versions'.manifest = versions.manifest /\ versions'.tables = versions.tables
      OBVIOUS
    <2>2. Manifest' = Manifest
      BY <2>1 DEF Manifest
    <2>3. bg'.at = "sync" <=> bg.at = "sync"
      OBVIOUS
    <2>4. ~ bgError' => ~ bgError
      OBVIOUS
    <2> QED BY <2>1, <2>2, <2>3, <2>4 DEF FInv, DescriptorAgrees
  <1> QED BY <1>1, <1>2, <1>3, <1>4, <1>5 DEF FInv

LEMMA FWriter ==
    ASSUME FInv, NEW w \in Writers, Write(w) \/ GiveUp(w) \/ Wait(w)
    PROVE  FInv'
  <1>1. UNCHANGED fvars
    BY DEF Write, GiveUp, Wait, fvars, disk
  <1> QED BY <1>1, FQuiet

LEMMA FStartGroup ==
    ASSUME FInv, phase = "open", NEW w \in Writers, StartGroup(w)
    PROVE  FInv'
  <1>1. /\ UNCHANGED <<tables, manifests, current, phase, edit, pending, merging, bgError,
                       pinned>>
        /\ SwitchMemTable
    BY DEF StartGroup
  <1>2. CASE HasRoom
    BY PinnedStays, <1>1, <1>2, FLight DEF SwitchMemTable, FInv, Shapes, ReferencedExist
  <1>3. CASE ~ HasRoom
    <2>1. /\ logs' = Put(logs, versions.next, EmptyLog)
          /\ versions' = [versions EXCEPT !.next = @ + 1]
          /\ bg' = IF bg.at = "idle" THEN Scheduled ELSE bg
      BY <1>1, <1>3 DEF SwitchMemTable, NewFileNumber
    <2>2. DOMAIN logs' \subseteq Nat
      BY <2>1 DEF Put, Over, One, FInv, Shapes
    <2>3. /\ versions' = [next |-> versions.next + 1, last |-> versions.last,
                          log |-> versions.log, manifest |-> versions.manifest,
                          tables |-> versions.tables]
          /\ versions.next \in Nat
      BY <2>1 DEF FInv, Shapes
    <2>4. \/ bg' = bg
          \/ /\ bg.at = "idle"
             /\ bg' = [at |-> bg'.at, out |-> bg'.out] /\ bg'.at \in {"idle", "scheduled"}
      BY <2>1 DEF Scheduled
    <2>5. Pinned' \subseteq DOMAIN tables /\ bgError' \in BOOLEAN /\ (bgError => bgError')
      BY PinnedStays, <1>1 DEF FInv, Shapes, ReferencedExist
    <2> QED BY <1>1, <2>2, <2>3, <2>4, <2>5, FLight
  <1> QED BY <1>2, <1>3

LEMMA FGroup ==
    ASSUME FInv, GroupStep
    PROVE  FInv'
  <1>1. CASE AddRecord
    <2>1. DOMAIN logs' = DOMAIN logs
      BY <1>1 DEF AddRecord
    <2> QED BY <1>1, <2>1, FQuiet DEF AddRecord, fvars
  <1>2. CASE Sync
    <2>1. DOMAIN logs' = DOMAIN logs
      BY <1>2 DEF Sync
    <2> QED BY <1>2, <2>1, FQuiet DEF Sync, fvars
  <1>3. CASE FinishGroup
    <2>1. /\ UNCHANGED <<logs, tables, manifests, current, phase, edit, pending, merging, bg,
                         pinned>>
          /\ bgError' = (bgError \/ group.at = "unsynced")
          /\ versions' = [versions EXCEPT !.last = @ + group.size]
      BY <1>3 DEF FinishGroup, disk
    <2>2. versions' = [next |-> versions.next, last |-> versions.last + group.size,
                       log |-> versions.log, manifest |-> versions.manifest,
                       tables |-> versions.tables]
      BY <2>1 DEF FInv, Shapes
    <2>3. /\ bgError' \in BOOLEAN /\ (bgError => bgError')
          /\ DOMAIN logs' \subseteq Nat /\ Pinned' \subseteq DOMAIN tables
          /\ versions'.next \in Nat /\ versions.next =< versions'.next
      BY PinnedStays, <2>1, <2>2 DEF FInv, Shapes, ReferencedExist
    <2> QED BY <2>1, <2>2, <2>3, FLight
  <1> QED BY <1>1, <1>2, <1>3 DEF GroupStep

LEMMA FReader ==
    ASSUME FInv, Pin \/ Unpin
    PROVE  FInv'
  <1>1. /\ UNCHANGED <<logs, tables, manifests, current, phase, versions, edit, pending,
                       bgError, bg, merging>>
        /\ Pinned' \subseteq Pinned \cup DOMAIN versions.tables
    BY PinnedGrows DEF Pin, Unpin, disk
  <1>2. /\ DOMAIN logs' \subseteq Nat /\ Pinned' \subseteq DOMAIN tables
        /\ bgError' \in BOOLEAN /\ (bgError => bgError')
    BY <1>1 DEF FInv, Shapes, ReferencedExist
  <1>3. versions' = [next |-> versions'.next, last |-> versions'.last,
                     log |-> versions.log, manifest |-> versions.manifest,
                     tables |-> versions.tables]
    BY <1>1 DEF FInv, Shapes
  <1>4. versions'.next \in Nat /\ versions.next =< versions'.next
    BY <1>1 DEF FInv, Shapes
  <1> QED BY <1>1, <1>2, <1>3, <1>4, FLight

-----------------------------------------------------------------------------
(* The background thread.                                                   *)

LEMMA FBackgroundRefused ==
    ASSUME FInv, BackgroundRefused
    PROVE  FInv'
  <1>1. /\ UNCHANGED <<logs, tables, manifests, current, phase, versions, edit, pending,
                       bgError, merging, pinned>>
        /\ bg.at = "scheduled" /\ bg' = [at |-> "idle", out |-> 0]
    BY DEF BackgroundRefused, NoWork, disk
  <1>2. phase = "open"
    BY <1>1 DEF FInv, Shapes
  <1>3. /\ DOMAIN logs' \subseteq Nat /\ Pinned' \subseteq DOMAIN tables
        /\ bgError' \in BOOLEAN /\ (bgError => bgError')
        /\ versions'.next \in Nat /\ versions.next =< versions'.next
    BY PinnedStays, <1>1 DEF FInv, Shapes, ReferencedExist
  <1>4. versions' = [next |-> versions'.next, last |-> versions'.last,
                     log |-> versions.log, manifest |-> versions.manifest,
                     tables |-> versions.tables]
    BY <1>1 DEF FInv, Shapes
  <1> QED BY <1>1, <1>2, <1>3, <1>4, FLight

\* What every failure of a call of the background thread leaves behind.
LEMMA FFailed ==
    ASSUME FInv, phase = "open", NEW nested \in BOOLEAN, Failed(nested),
           nested => merging # None,
           UNCHANGED <<logs, tables, current, phase, pinned>>,
           versions' = versions \/ NewFileNumber,
           merging # None /\ nested /\ merging.out # 0 => merging.out \in pending',
           DOMAIN manifests' = DOMAIN manifests, DescriptorShapes', DescribedExist'
    PROVE  FInv'
  <1> USE DEF Opening, NoWork
  <1>1. /\ bgError' = TRUE /\ edit' = None
        /\ \/ nested /\ bg' = [at |-> "merge", out |-> 0] /\ merging' = merging
           \/ bg' = [at |-> "idle", out |-> 0] /\ merging' = None
    BY DEF Failed
  <1>2. /\ versions' = [next |-> versions'.next, last |-> versions.last, log |-> versions.log,
                        manifest |-> versions.manifest, tables |-> versions.tables]
        /\ versions'.next \in Nat /\ versions.next \in Nat /\ versions.next =< versions'.next
    BY DEF NewFileNumber, FInv, Shapes
  <1>3. Shapes'
    BY <1>1, <1>2 DEF FInv, Shapes
  <1>4. CurrentIsKnown' /\ EditIsReady'
    BY <1>1, <1>2 DEF FInv, Shapes, CurrentIsKnown, EditIsReady
  <1>5. ReferencedExist'
    BY PinnedStays, <1>1, <1>2 DEF FInv, Shapes, ReferencedExist
  <1>6. DescriptorAgrees'
    BY <1>1 DEF DescriptorAgrees
  <1> QED BY <1>3, <1>4, <1>5, <1>6 DEF FInv

LEMMA FStartFlush ==
    ASSUME FInv, StartFlush
    PROVE  FInv'
  <1> USE DEF Opening
  <1>1. /\ bg.at \in {"scheduled", "merge"}
        /\ bg' = [at |-> "build", out |-> versions.next]
        /\ pending' = pending \cup {versions.next}
        /\ versions' = [versions EXCEPT !.next = @ + 1]
        /\ UNCHANGED <<logs, tables, manifests, current, phase, edit, bgError, merging, pinned>>
    BY DEF StartFlush, NewFileNumber, disk
  <1>2. /\ versions' = [next |-> versions.next + 1, last |-> versions.last,
                        log |-> versions.log, manifest |-> versions.manifest,
                        tables |-> versions.tables]
        /\ phase = "open"
    BY <1>1 DEF FInv, Shapes
  <1>3. Shapes'
    BY <1>1, <1>2 DEF FInv, Shapes
  <1>4. DescriptorShapes' /\ DescribedExist'
    BY <1>1 DEF FInv, DescriptorShapes, DescribedExist, Described
  <1>5. CurrentIsKnown' /\ EditIsReady'
    BY <1>1, <1>2 DEF FInv, Shapes, CurrentIsKnown, EditIsReady
  <1>6. ReferencedExist'
    BY PinnedStays, <1>1, <1>2 DEF FInv, Shapes, ReferencedExist
  <1>7. DescriptorAgrees'
    BY <1>1, <1>2 DEF FInv, DescriptorAgrees, Manifest
  <1> QED BY <1>3, <1>4, <1>5, <1>6, <1>7 DEF FInv

LEMMA FBuildTable ==
    ASSUME FInv, BuildTable
    PROVE  FInv'
  <1> USE DEF Opening
  <1>1. /\ bg.at = "build" /\ pending' = pending \ {bg.out}
        /\ UNCHANGED <<logs, manifests, current, phase, versions, pinned>>
    BY DEF BuildTable
  <1>2. phase = "open" /\ (merging # None => merging.out = 0 \/ merging.out # bg.out)
    BY <1>1 DEF FInv, Shapes, ReferencedExist
  <1>3. CASE tables' = tables /\ Failed(merging # None)
    <2>1. merging # None /\ merging.out # 0 => merging.out \in pending'
      BY <1>1, <1>2 DEF FInv, ReferencedExist
    <2>2. DescriptorShapes' /\ DescribedExist'
      BY <1>1, <1>3 DEF FInv, DescriptorShapes, DescribedExist, Described
    <2> QED BY <1>1, <1>2, <1>3, <2>1, <2>2, FFailed
  <1>4. CASE /\ tables' = Put(tables, bg.out, imm)
             /\ \E level \in {0, 1} :
                   edit' = Edit("flush", One(bg.out, level), {}, logNumber)
             /\ bg' = [bg EXCEPT !.at = "append"]
             /\ UNCHANGED <<bgError, merging>>
    <2>1. DOMAIN tables' = {bg.out} \cup DOMAIN tables
      BY <1>4 DEF Put, Over, One
    <2>2. DOMAIN edit'.add = {bg.out} /\ edit'.next = versions.next
      BY <1>4 DEF Edit, One
    <2>3. bg' = [at |-> "append", out |-> bg.out]
      BY <1>4 DEF FInv, Shapes
    <2>4. Shapes'
      BY <1>1, <1>2, <1>4, <2>3 DEF FInv, Shapes
    <2>5. DescriptorShapes' /\ DescribedExist'
      BY <1>1, <2>1 DEF FInv, DescriptorShapes, DescribedExist, Described
    <2>6. CurrentIsKnown' /\ EditIsReady'
      BY <1>1, <1>2, <2>1, <2>2 DEF FInv, Shapes, CurrentIsKnown, EditIsReady
    <2>7. ReferencedExist'
      BY PinnedStays, <1>1, <1>2, <1>4, <2>1, <2>3 DEF FInv, Shapes, ReferencedExist
    <2>8. DescriptorAgrees'
      BY <1>1, <1>2, <1>4, <2>3 DEF FInv, DescriptorAgrees, Manifest
    <2> QED BY <2>4, <2>5, <2>6, <2>7, <2>8 DEF FInv
  <1> QED BY <1>3, <1>4 DEF BuildTable

LEMMA FStartMerge ==
    ASSUME FInv, StartMerge
    PROVE  FInv'
  <1> USE DEF Opening
  <1>1. /\ bg.at = "scheduled" /\ bg' = [at |-> "merge", out |-> 0]
        /\ \E in \in {Level0, DOMAIN versions.tables} :
              merging' = [in |-> in, out |-> 0, held |-> DOMAIN versions.tables]
        /\ UNCHANGED <<logs, tables, manifests, current, phase, versions, edit, pending,
                       bgError, pinned>>
    BY DEF StartMerge, disk
  <1>2. phase = "open"
    BY <1>1 DEF FInv, Shapes
  <1>3. Shapes'
    BY <1>1, <1>2 DEF FInv, Shapes
  <1>4. DescriptorShapes' /\ DescribedExist'
    BY <1>1 DEF FInv, DescriptorShapes, DescribedExist, Described
  <1>5. CurrentIsKnown' /\ EditIsReady'
    BY <1>1, <1>2 DEF FInv, CurrentIsKnown, EditIsReady
  <1>6. ReferencedExist'
    BY PinnedStays, <1>1 DEF FInv, ReferencedExist, Level0
  <1>7. DescriptorAgrees'
    BY <1>1, <1>2 DEF FInv, DescriptorAgrees, Manifest
  <1> QED BY <1>3, <1>4, <1>5, <1>6, <1>7 DEF FInv

LEMMA FStartMove ==
    ASSUME FInv, StartMove
    PROVE  FInv'
  <1> USE DEF Opening
  <1>1. PICK n \in Level0 : edit' = Edit("move", One(n, 1), {n}, versions.log)
    BY DEF StartMove
  <1>2. /\ bg.at = "scheduled" /\ bg' = [at |-> "append", out |-> 0]
        /\ UNCHANGED <<logs, tables, manifests, current, phase, versions, pending, bgError,
                       merging, pinned>>
    BY DEF StartMove, disk
  <1>3. DOMAIN edit'.add = {n} /\ edit'.next = versions.next /\ n \in DOMAIN versions.tables
    BY <1>1 DEF Edit, One, Level0
  <1>4. phase = "open"
    BY <1>2 DEF FInv, Shapes
  <1>5. Shapes'
    BY <1>2, <1>4 DEF FInv, Shapes
  <1>6. DescriptorShapes' /\ DescribedExist'
    BY <1>2 DEF FInv, DescriptorShapes, DescribedExist, Described
  <1>7. CurrentIsKnown' /\ EditIsReady'
    BY <1>2, <1>3, <1>4 DEF FInv, Shapes, CurrentIsKnown, EditIsReady, ReferencedExist
  <1>8. ReferencedExist'
    BY PinnedStays, <1>2 DEF FInv, ReferencedExist
  <1>9. DescriptorAgrees'
    BY <1>2, <1>4 DEF FInv, DescriptorAgrees, Manifest
  <1> QED BY <1>5, <1>6, <1>7, <1>8, <1>9 DEF FInv

LEMMA FOpenOutput ==
    ASSUME FInv, OpenOutput
    PROVE  FInv'
  <1> USE DEF Opening
  <1>1. /\ bg.at = "merge" /\ NewFileNumber
        /\ UNCHANGED <<logs, manifests, current, phase, pinned>>
    BY DEF OpenOutput
  <1>2. /\ versions' = [next |-> versions.next + 1, last |-> versions.last,
                        log |-> versions.log, manifest |-> versions.manifest,
                        tables |-> versions.tables]
        /\ phase = "open"
    BY <1>1 DEF FInv, Shapes, NewFileNumber
  <1>3. CASE tables' = tables /\ Failed(FALSE)
    <2>1. DescriptorShapes' /\ DescribedExist'
      BY <1>1, <1>3 DEF FInv, DescriptorShapes, DescribedExist, Described
    <2> QED BY <1>1, <1>2, <1>3, <2>1, FFailed
  <1>4. CASE /\ merging' = [merging EXCEPT !.out = versions.next]
             /\ pending' = pending \cup {versions.next}
             /\ tables' = Put(tables, versions.next, {})
             /\ UNCHANGED <<edit, bgError, bg>>
    <2>1. DOMAIN tables' = {versions.next} \cup DOMAIN tables
      BY <1>4 DEF Put, Over, One
    <2>2. merging' = [in |-> merging.in, out |-> versions.next, held |-> merging.held]
      BY <1>1, <1>4 DEF FInv, Shapes
    <2>3. Shapes'
      BY <1>1, <1>2, <1>4, <2>2 DEF FInv, Shapes
    <2>4. DescriptorShapes' /\ DescribedExist'
      BY <1>1, <2>1 DEF FInv, DescriptorShapes, DescribedExist, Described
    <2>5. CurrentIsKnown' /\ EditIsReady'
      BY <1>1, <1>2, <1>4, <2>1 DEF FInv, Shapes, CurrentIsKnown, EditIsReady
    <2>6. ReferencedExist'
      BY PinnedStays, <1>1, <1>2, <1>4, <2>1, <2>2 DEF FInv, Shapes, ReferencedExist
    <2>7. DescriptorAgrees'
      BY <1>1, <1>2, <1>4 DEF FInv, DescriptorAgrees, Manifest
    <2> QED BY <2>3, <2>4, <2>5, <2>6, <2>7 DEF FInv
  <1> QED BY <1>3, <1>4 DEF OpenOutput

LEMMA FFinishOutput ==
    ASSUME FInv, FinishOutput
    PROVE  FInv'
  <1> USE DEF Opening
  <1>1. /\ bg.at = "merge" /\ merging.out # 0
        /\ UNCHANGED <<logs, manifests, current, phase, versions, pinned>>
    BY DEF FinishOutput
  <1>2. phase = "open" /\ merging.out \in DOMAIN tables
    BY <1>1 DEF FInv, Shapes, ReferencedExist
  <1>3. CASE tables' = tables /\ Failed(FALSE)
    <2>1. DescriptorShapes' /\ DescribedExist'
      BY <1>1, <1>3 DEF FInv, DescriptorShapes, DescribedExist, Described
    <2> QED BY <1>1, <1>2, <1>3, <2>1, FFailed
  <1>4. CASE /\ tables' = Put(tables, merging.out, Union(merging.in))
             /\ edit' = Edit("merge", One(merging.out, 1), merging.in, versions.log)
             /\ bg' = [at |-> "append", out |-> 0]
             /\ UNCHANGED <<pending, bgError, merging>>
    <2>1. DOMAIN tables' = DOMAIN tables
      BY <1>2, <1>4 DEF Put, Over, One
    <2>2. DOMAIN edit'.add = {merging.out} /\ edit'.next = versions.next
      BY <1>4 DEF Edit, One
    <2>3. Shapes'
      BY <1>1, <1>2, <1>4 DEF FInv, Shapes
    <2>4. DescriptorShapes' /\ DescribedExist'
      BY <1>1, <2>1 DEF FInv, DescriptorShapes, DescribedExist, Described
    <2>5. CurrentIsKnown' /\ EditIsReady'
      BY <1>1, <1>2, <2>1, <2>2 DEF FInv, Shapes, CurrentIsKnown, EditIsReady
    <2>6. ReferencedExist'
      BY PinnedStays, <1>1, <1>4, <2>1 DEF FInv, ReferencedExist
    <2>7. DescriptorAgrees'
      BY <1>1, <1>2, <1>4 DEF FInv, DescriptorAgrees, Manifest
    <2> QED BY <2>3, <2>4, <2>5, <2>6, <2>7 DEF FInv
  <1> QED BY <1>3, <1>4 DEF FinishOutput

\* What an append may make of the descriptor.
LEMMA AppendedShape ==
    ASSUME FInv, bg.at = "append", NEW m \in PartlyAppended(Manifest)
    PROVE  /\ m = [written |-> m.written, durable |-> m.durable, tail |-> m.tail,
                   broken |-> m.broken]
           /\ m.durable = Manifest.durable
           /\ m.written.next \in Nat /\ versions.manifest < m.written.next
           /\ DOMAIN m.written.tables \subseteq DOMAIN tables
           /\ m \in Appended(Manifest) /\ Manifest.tail = FALSE =>
                  /\ m.tail = FALSE
                  /\ DOMAIN m.written.tables =
                         DOMAIN edit.add \cup (DOMAIN Manifest.written.tables \ edit.del)
  <1> DEFINE d == Manifest
  <1>1. /\ phase = "open" /\ current = versions.manifest
        /\ current \in DOMAIN manifests /\ current # 0
    BY DEF FInv, Shapes, CurrentIsKnown, Opening
  <1>2. /\ d = [written |-> d.written, durable |-> d.durable, tail |-> d.tail,
                broken |-> d.broken]
        /\ d.written.next \in Nat /\ versions.manifest < d.written.next
        /\ DOMAIN d.written.tables \subseteq DOMAIN tables
    BY <1>1 DEF FInv, DescriptorShapes, DescribedExist, Described, Manifest
  <1>3. /\ edit.next \in Nat /\ versions.manifest < edit.next
        /\ DOMAIN edit.add \subseteq DOMAIN tables
    BY DEF FInv, EditIsReady
  <1> HIDE DEF d
  <1>4. /\ DOMAIN Apply(d.written, edit).tables =
               DOMAIN edit.add \cup (DOMAIN d.written.tables \ edit.del)
        /\ Apply(d.written, edit).next = edit.next
    BY ApplyDomain
  <1>5. CASE m \in Appended(d)
    <2>1. PICK b : m = [d EXCEPT !.written = IF d.tail THEN @ ELSE Apply(@, edit), !.broken = b]
      BY <1>5 DEF Appended
    <2>2. m = [written |-> IF d.tail THEN d.written ELSE Apply(d.written, edit),
               durable |-> d.durable, tail |-> d.tail, broken |-> b]
      BY <1>2, <2>1
    <2> QED BY <1>2, <1>3, <1>4, <2>2 DEF d
  <1>6. CASE m \notin Appended(d) /\ (m = d \/ m = [d EXCEPT !.tail = TRUE])
    <2>1. m = d \/ m = [written |-> d.written, durable |-> d.durable, tail |-> TRUE,
                        broken |-> d.broken]
      BY <1>2, <1>6
    <2> QED BY <1>2, <1>6, <2>1 DEF d
  <1> QED BY <1>5, <1>6 DEF PartlyAppended, d

LEMMA FAppendEdit ==
    ASSUME FInv, AppendEdit
    PROVE  FInv'
  <1> USE DEF Opening
  <1>1. /\ bg.at = "append"
        /\ UNCHANGED <<logs, tables, current, phase, versions, pinned>>
    BY DEF AppendEdit
  <1>2. PICK m \in PartlyAppended(Manifest) :
            /\ manifests' = [manifests EXCEPT ![versions.manifest] = m]
            /\ \/ /\ m \in Appended(Manifest)
                  /\ bg' = [bg EXCEPT !.at = "sync"]
                  /\ UNCHANGED <<pending, bgError, edit, merging>>
               \/ NotLogged
    BY DEF AppendEdit, PartlyAppended
  <1>3. /\ phase = "open" /\ current = versions.manifest
        /\ current \in DOMAIN manifests /\ current # 0
    BY <1>1 DEF FInv, Shapes, CurrentIsKnown
  <1>4. /\ m = [written |-> m.written, durable |-> m.durable, tail |-> m.tail,
                broken |-> m.broken]
        /\ m.durable = Manifest.durable
        /\ m.written.next \in Nat /\ versions.manifest < m.written.next
        /\ DOMAIN m.written.tables \subseteq DOMAIN tables
    BY <1>1, AppendedShape
  <1>5. /\ DOMAIN manifests' = DOMAIN manifests /\ manifests'[versions.manifest] = m
        /\ \A x \in DOMAIN manifests \ {versions.manifest} : manifests'[x] = manifests[x]
    BY <1>2, <1>3
  <1>6. DescriptorShapes'
    BY <1>1, <1>3, <1>4, <1>5 DEF FInv, DescriptorShapes, Manifest
  <1>7. DescribedExist'
    BY <1>1, <1>3, <1>4, <1>5 DEF FInv, DescribedExist, Described, Manifest
  <1>8. CASE /\ m \in Appended(Manifest)
             /\ bg' = [bg EXCEPT !.at = "sync"]
             /\ UNCHANGED <<pending, bgError, edit, merging>>
    <2>1. bg' = [at |-> "sync", out |-> bg.out]
      BY <1>8 DEF FInv, Shapes
    <2>2. Shapes'
      BY <1>1, <1>3, <1>5, <1>8, <2>1 DEF FInv, Shapes
    <2>3. CurrentIsKnown' /\ EditIsReady'
      BY <1>1, <1>3, <1>5, <1>8 DEF FInv, CurrentIsKnown, EditIsReady
    <2>4. ReferencedExist'
      BY PinnedStays, <1>1, <1>8, <2>1 DEF FInv, ReferencedExist
    <2>5. DescriptorAgrees'
      <3>1. SUFFICES ASSUME ~ bgError
                     PROVE  /\ m.tail = FALSE
                            /\ DOMAIN m.written.tables =
                                   DOMAIN edit.add \cup (DOMAIN versions.tables \ edit.del)
        BY <1>1, <1>3, <1>5, <1>8, <2>1 DEF DescriptorAgrees, Manifest
      <3>2. /\ Manifest.tail = FALSE
            /\ DOMAIN Manifest.written.tables = DOMAIN versions.tables
        BY <1>1, <1>3, <3>1 DEF FInv, DescriptorAgrees
      <3> QED BY <1>1, <1>8, <3>2, AppendedShape
    <2> QED BY <1>6, <1>7, <2>2, <2>3, <2>4, <2>5 DEF FInv
  <1>9. CASE NotLogged
    <2>1. /\ Failed(edit.kind = "flush" /\ merging # None)
          /\ edit.kind = "flush" => pending' = pending
      BY <1>9 DEF NotLogged
    <2>2. merging # None /\ merging.out # 0 => merging.out \in pending
      BY DEF FInv, ReferencedExist
    <2> QED BY <1>1, <1>3, <1>5, <1>6, <1>7, <2>1, <2>2, FFailed
  <1> QED BY <1>2, <1>8, <1>9

LEMMA FSyncEditFails ==
    ASSUME FInv, SyncEditFails
    PROVE  FInv'
  <1>1. /\ bg.at = "sync"
        /\ UNCHANGED <<logs, tables, manifests, current, phase, versions, pinned>>
        /\ Failed(edit.kind = "flush" /\ merging # None)
        /\ edit.kind = "flush" => pending' = pending
    BY DEF SyncEditFails, NotLogged, disk
  <1>2. phase = "open" /\ (merging # None /\ merging.out # 0 => merging.out \in pending)
    BY <1>1 DEF FInv, Shapes, ReferencedExist
  <1>3. DescriptorShapes' /\ DescribedExist'
    BY <1>1 DEF FInv, DescriptorShapes, DescribedExist, Described
  <1> QED BY <1>1, <1>2, <1>3, FFailed

LEMMA FInstall ==
    ASSUME FInv, Install
    PROVE  FInv'
  <1> USE DEF Opening
  <1> DEFINE d    == Manifest
             safe == [manifests EXCEPT ![versions.manifest].durable = Manifest.written]
  <1>1. /\ bg.at = "sync" /\ edit' = None
        /\ versions' = [versions EXCEPT !.tables = Over(edit.add, Without(@, edit.del)),
                                        !.log = edit.log]
        /\ merging' = None \/ (merging' = merging /\ pending' = pending)
        /\ UNCHANGED <<current, phase, bgError, pinned>>
        /\ bg' = IF merging' # None THEN [at |-> "merge", out |-> 0] ELSE Scheduled
    BY DEF Install, Done
  <1>2. \/ manifests' = safe /\ UNCHANGED <<logs, tables>>
        \/ DeleteObsoleteFiles(safe)
    BY DEF Install
  <1>3. /\ versions' = [next |-> versions.next, last |-> versions.last, log |-> edit.log,
                        manifest |-> versions.manifest,
                        tables |-> Over(edit.add, Without(versions.tables, edit.del))]
        /\ DOMAIN versions'.tables = DOMAIN edit.add \cup (DOMAIN versions.tables \ edit.del)
    BY <1>1 DEF FInv, Shapes, Over, Without
  <1>4. /\ phase = "open" /\ current = versions.manifest
        /\ current \in DOMAIN manifests /\ current # 0 /\ current \in Nat
    BY <1>1 DEF FInv, Shapes, CurrentIsKnown
  <1>5. /\ bg' = [at |-> bg'.at, out |-> bg'.out]
        /\ bg'.at \in {"idle", "scheduled", "merge"}
        /\ bg'.at = "merge" => merging' # None
    BY <1>1 DEF Scheduled
  <1>6. d = [written |-> d.written, durable |-> d.durable, tail |-> d.tail, broken |-> d.broken]
    BY <1>4 DEF FInv, DescriptorShapes, Manifest
  <1>7. /\ DOMAIN safe = DOMAIN manifests
        /\ safe[current] = [written |-> d.written, durable |-> d.written, tail |-> d.tail,
                            broken |-> d.broken]
        /\ \A m \in DOMAIN manifests \ {current} : safe[m] = manifests[m]
    BY <1>4, <1>6 DEF Manifest
  <1>8. /\ DOMAIN versions'.tables \cup Pinned' \subseteq DOMAIN tables
        /\ merging' # None => merging'.held \subseteq DOMAIN tables
    BY PinnedStays, <1>1, <1>3 DEF FInv, EditIsReady, ReferencedExist
  <1> HIDE DEF d, safe
  <1>9. /\ DOMAIN logs' \subseteq DOMAIN logs
        /\ DOMAIN manifests' \subseteq DOMAIN manifests
        /\ \A m \in DOMAIN manifests' : manifests'[m] = safe[m]
        /\ current \in DOMAIN manifests'
        /\ bgError' => tables' = tables
        /\ DOMAIN versions'.tables \cup Pinned' \subseteq DOMAIN tables'
        /\ merging' # None => merging'.held \subseteq DOMAIN tables'
        /\ DOMAIN tables \cap pending' \subseteq DOMAIN tables'
    <2>1. CASE manifests' = safe /\ UNCHANGED <<logs, tables>>
      BY <1>4, <1>7, <1>8, <2>1
    <2>2. CASE DeleteObsoleteFiles(safe)
      <3>1. current >= versions'.manifest /\ current \in DOMAIN safe
        BY <1>3, <1>4, <1>7
      <3> QED BY <1>7, <1>8, <2>2, <3>1, Deletion
    <2> QED BY <1>2, <2>1, <2>2
  <1>10. Shapes'
    BY <1>1, <1>3, <1>4, <1>5, <1>9 DEF FInv, Shapes
  <1>11. DescriptorShapes'
    BY <1>4, <1>7, <1>9 DEF FInv, DescriptorShapes, d, Manifest
  <1>12. CurrentIsKnown' /\ EditIsReady'
    BY <1>1, <1>3, <1>4, <1>5, <1>9 DEF FInv, CurrentIsKnown, EditIsReady
  <1>13. ReferencedExist'
    BY <1>1, <1>3, <1>5, <1>9 DEF FInv, ReferencedExist
  <1>14. /\ Described' = d.written /\ manifests'[current'].durable = d.written
         /\ manifests'[current'].tail = d.tail
    BY <1>1, <1>7, <1>9 DEF Described
  <1>15. ~ bgError => d.tail = FALSE /\ DOMAIN d.written.tables = DOMAIN versions'.tables
    BY <1>1, <1>3, <1>4 DEF FInv, DescriptorAgrees, d
  <1>16. DOMAIN d.written.tables \subseteq DOMAIN tables
    BY <1>4 DEF FInv, DescribedExist, Described, d, Manifest
  <1>17. DescribedExist'
    BY <1>1, <1>4, <1>9, <1>14, <1>15, <1>16 DEF FInv, Shapes, DescribedExist
  <1>18. DescriptorAgrees'
    BY <1>1, <1>3, <1>4, <1>5, <1>7, <1>9, <1>15 DEF DescriptorAgrees, Manifest
  <1> QED BY <1>10, <1>11, <1>12, <1>13, <1>17, <1>18 DEF FInv

-----------------------------------------------------------------------------
(* The queue of writers.                                                    *)

States == {"idle", "queued", "front", "asleep", "leading"}

Queued(w) == \E i \in 1 .. Len(queue) : queue[i] = w

\* The queue holds the writers that are in Write, each of them once; all but the
\* first wait to become it.
InLine ==
    /\ queue \in Seq(Writers) /\ writer \in [Writers -> States]
    /\ \A i, j \in 1 .. Len(queue) : queue[i] = queue[j] => i = j
    /\ \A w \in Writers : writer[w] # "idle" <=> Queued(w)
    /\ \A w \in Writers : writer[w] = "queued" <=> Queued(w) /\ w # queue[1]
    /\ phase # "open" => queue = <<>>

Groups == [size : Nat, at : {"append", "sync", "insert", "failed", "unsynced"}]

\* A group is what the first writer and some behind it are in.
Grouped ==
    /\ group # None <=> \E w \in Writers : writer[w] = "leading"
    /\ group # None => group \in Groups /\ group.size \in 1 .. Len(queue)

Sleeping == \A w \in Writers : writer[w] = "asleep" => bg.at # "idle"

\* Work for the background thread, in the absence of an error, is known to it.
Busy == phase = "open" /\ ~ bgError /\ (imm # None \/ NeedsCompaction) => bg.at # "idle"

QInv == InLine /\ Grouped /\ Sleeping /\ Busy

IInv == FInv /\ QInv /\ IsFiniteSet(DOMAIN tables)

LEMMA OnlyFirst ==
    ASSUME InLine, NEW w \in Writers, writer[w] \notin {"idle", "queued"}
    PROVE  Len(queue) > 0 /\ w = queue[1]
  BY DEF InLine, Queued

LEMMA QInvMeans == QInv => NobodyIsForgotten
  <1> SUFFICES ASSUME QInv PROVE NobodyIsForgotten
    OBVIOUS
  <1>1. \A w \in Writers : w \in Range(queue) <=> Queued(w)
    BY DEF QInv, InLine, Range, Queued
  <1>2. \A w \in Writers : Queued(w) => Head(queue) = queue[1]
    BY DEF QInv, InLine, Queued
  <1>3. ASSUME NEW w \in Writers
        PROVE  /\ (writer[w] # "idle") = (w \in Range(queue))
               /\ (writer[w] = "queued") = (w \in Range(queue) /\ w # Head(queue))
               /\ writer[w] = "asleep" => bg.at # "idle"
    <2>1. writer[w] # "idle" <=> w \in Range(queue)
      BY <1>1 DEF QInv, InLine
    <2>2. writer[w] = "queued" <=> w \in Range(queue) /\ w # Head(queue)
      BY <1>1, <1>2 DEF QInv, InLine
    <2> QED BY <2>1, <2>2 DEF QInv, Sleeping
  <1>4. (group # None) = (\E w \in Writers : writer[w] = "leading")
    BY DEF QInv, Grouped
  <1> QED BY <1>3, <1>4 DEF NobodyIsForgotten

\* The first n writers leave.
LEMMA Popped ==
    ASSUME InLine, NEW n \in 1 .. Len(queue), PopFront(n), phase' = phase
    PROVE  /\ InLine'
           /\ \A w \in Writers : writer'[w] = "asleep" => writer[w] = "asleep"
           /\ \A w \in Writers : writer'[w] # "leading"
  <1>1. /\ queue \in Seq(Writers) /\ Len(queue) \in Nat
        /\ queue' = SubSeq(queue, n + 1, Len(queue))
    BY DEF InLine, PopFront
  <1>2. /\ queue' \in Seq(Writers) /\ Len(queue') = Len(queue) - n
        /\ \A i \in 1 .. Len(queue) - n : queue'[i] = queue[n + i]
    BY <1>1, SubSeqProperties
  <1>3. writer' = [w \in Writers |->
            IF w \in {queue[i] : i \in 1 .. n} THEN "idle"
            ELSE IF Len(queue) > n /\ w = queue[n + 1] THEN "front"
            ELSE writer[w]]
    BY DEF PopFront
  <1>4. ASSUME NEW w \in Writers
        PROVE  Queued(w)' <=> Queued(w) /\ \A i \in 1 .. n : queue[i] # w
    <2>1. ASSUME NEW j \in 1 .. Len(queue'), queue'[j] = w
          PROVE  Queued(w) /\ \A i \in 1 .. n : queue[i] # w
      <3>1. n + j \in 1 .. Len(queue) /\ queue[n + j] = w
        BY <1>1, <1>2, <2>1
      <3> QED BY <1>1, <3>1 DEF InLine, Queued
    <2>2. ASSUME NEW i \in 1 .. Len(queue), queue[i] = w, \A k \in 1 .. n : queue[k] # w
          PROVE  Queued(w)'
      <3>1. i > n /\ i - n \in 1 .. Len(queue')
        BY <1>1, <1>2, <2>2
      <3>2. queue'[i - n] = w
        BY <1>1, <1>2, <2>2, <3>1
      <3> QED BY <3>1, <3>2 DEF Queued
    <2> QED BY <2>1, <2>2 DEF Queued
  <1>5. \A i, j \in 1 .. Len(queue') : queue'[i] = queue'[j] => i = j
    <2> SUFFICES ASSUME NEW i \in 1 .. Len(queue'), NEW j \in 1 .. Len(queue'),
                        queue'[i] = queue'[j]
                 PROVE  i = j
      OBVIOUS
    <2>1. n + i \in 1 .. Len(queue) /\ n + j \in 1 .. Len(queue)
      BY <1>1, <1>2
    <2>2. queue[n + i] = queue[n + j]
      BY <1>2
    <2> QED BY <1>1, <2>1, <2>2 DEF InLine
  <1>6. ASSUME NEW w \in Writers, ~ Queued(w)' PROVE writer'[w] = "idle"
    <2>1. CASE ~ Queued(w)
      <3>1. writer[w] = "idle" /\ \A i \in 1 .. Len(queue) : queue[i] # w
        BY <2>1 DEF InLine, Queued
      <3> QED BY <1>1, <1>3, <3>1
    <2>2. CASE \E i \in 1 .. n : queue[i] = w
      BY <1>3, <2>2
    <2> QED BY <1>4, <1>6, <2>1, <2>2
  <1>7. ASSUME NEW w \in Writers, Queued(w)'
        PROVE  /\ writer'[w] # "idle"
               /\ writer'[w] = "queued" <=> w # queue'[1]
               /\ writer'[w] \notin {"asleep", "leading"}
    <2>1. Queued(w) /\ \A i \in 1 .. n : queue[i] # w
      BY <1>4, <1>7
    <2>2. w # queue[1] /\ Len(queue) > n /\ queue'[1] = queue[n + 1]
      BY <1>1, <1>2, <2>1, <1>7 DEF Queued
    <2>3. writer[w] = "queued"
      BY <2>1, <2>2 DEF InLine
    <2>4. writer'[w] = IF w = queue[n + 1] THEN "front" ELSE "queued"
      BY <1>3, <2>1, <2>2, <2>3
    <2> QED BY <2>2, <2>4
  <1>8. writer' \in [Writers -> States]
    BY <1>3 DEF InLine, States
  <1>9. phase' # "open" => queue' = <<>>
    BY <1>1 DEF InLine
  <1> QED BY <1>2, <1>5, <1>6, <1>7, <1>8, <1>9 DEF InLine

\* The steps of other threads leave the queue alone, and what they leave of the
\* background thread's work is known to it.
LEMMA QKept ==
    ASSUME InLine, Grouped, Busy', UNCHANGED threads,
           phase' = phase \/ (phase # "open" /\ phase' = "open"),
           Sleeping, bg.at # "idle" => bg'.at # "idle"
    PROVE  QInv'
  BY DEF QInv, threads, InLine, Grouped, Sleeping, Queued

\* SignalAll: nobody sleeps any more.
LEMMA QWoken ==
    ASSUME InLine, Grouped, Busy', UNCHANGED <<queue, group, phase>>, writer' = Woken(writer)
    PROVE  QInv'
  <1>1. ASSUME NEW w \in Writers
        PROVE  writer'[w] = IF writer[w] = "asleep" THEN "front" ELSE writer[w]
    BY DEF Woken
  <1>2. writer' \in [Writers -> States] /\ \A w \in Writers : Queued(w)' <=> Queued(w)
    BY DEF Woken, InLine, States, Queued
  <1>3. InLine'
    BY <1>1, <1>2 DEF InLine
  <1>4. Grouped'
    BY <1>1 DEF Grouped
  <1>5. Sleeping'
    BY <1>1 DEF Sleeping
  <1> QED BY <1>3, <1>4, <1>5 DEF QInv

\* What Busy says is not disturbed by a step that adds no table and no imm_.
LEMMA BusyKept ==
    ASSUME Busy, UNCHANGED imm, versions'.tables = versions.tables,
           phase' = "open" => phase = "open",
           bgError => bgError', bg.at # "idle" => bg'.at # "idle"
    PROVE  Busy'
  <1>1. NeedsCompaction' <=> NeedsCompaction
    BY DEF NeedsCompaction, Level0
  <1> QED BY <1>1 DEF Busy

LEMMA BusyScheduled ==
    ASSUME bg' = Scheduled
    PROVE  Busy'
  BY DEF Scheduled, Busy

LEMMA QWrite ==
    ASSUME IInv, NEW w \in Writers, Write(w)
    PROVE  QInv'
  <1>1. /\ phase = "open" /\ writer[w] = "idle"
        /\ queue' = Append(queue, w)
        /\ writer' = [writer EXCEPT ![w] = IF queue = <<>> THEN "front" ELSE "queued"]
        /\ UNCHANGED <<phase, versions, imm, bgError, bg, group>>
    BY DEF Write
  <1>2. /\ queue \in Seq(Writers) /\ Len(queue) \in Nat /\ ~ Queued(w)
        /\ writer \in [Writers -> States]
    BY <1>1 DEF IInv, QInv, InLine
  <1>3. /\ queue' \in Seq(Writers) /\ Len(queue') = Len(queue) + 1
        /\ \A i \in 1 .. Len(queue) : queue'[i] = queue[i]
        /\ queue'[Len(queue) + 1] = w
    BY <1>1, <1>2
  <1>4. ASSUME NEW v \in Writers PROVE Queued(v)' <=> Queued(v) \/ v = w
    BY <1>2, <1>3 DEF Queued
  <1>5. \A i, j \in 1 .. Len(queue') : queue'[i] = queue'[j] => i = j
    BY <1>2, <1>3 DEF IInv, QInv, InLine, Queued
  <1>6. ASSUME NEW v \in Writers
        PROVE  /\ writer'[v] # "idle" <=> Queued(v)'
               /\ writer'[v] = "queued" <=> Queued(v)' /\ v # queue'[1]
    <2>1. CASE v = w
      <3>1. queue = <<>> <=> Len(queue) = 0
        BY <1>2
      <3>2. Len(queue) # 0 => queue'[1] = queue[1] /\ Queued(queue[1])
        BY <1>2, <1>3 DEF Queued
      <3> QED BY <1>1, <1>2, <1>3, <1>4, <2>1, <3>1, <3>2
    <2>2. CASE v # w
      <3>1. writer'[v] = writer[v] /\ (Queued(v)' <=> Queued(v))
        BY <1>1, <1>2, <1>4, <2>2
      <3>2. Queued(v) => queue'[1] = queue[1]
        BY <1>2, <1>3 DEF Queued
      <3> QED BY <3>1, <3>2 DEF IInv, QInv, InLine
    <2> QED BY <2>1, <2>2
  <1>7. writer' \in [Writers -> States]
    BY <1>1, <1>2 DEF States
  <1>8. InLine'
    BY <1>1, <1>3, <1>5, <1>6, <1>7 DEF InLine
  <1>9. Grouped' /\ Sleeping'
    BY <1>1, <1>2, <1>3 DEF IInv, QInv, Grouped, Sleeping
  <1>10. Busy'
    BY <1>1, BusyKept DEF IInv, QInv
  <1> QED BY <1>8, <1>9, <1>10 DEF QInv

LEMMA FrontIsOpen ==
    ASSUME IInv, NEW w \in Writers, writer[w] # "idle"
    PROVE  phase = "open"
  BY DEF IInv, QInv, InLine, Queued

LEMMA QGiveUp ==
    ASSUME IInv, NEW w \in Writers, GiveUp(w)
    PROVE  QInv'
  <1>1. /\ writer[w] = "front" /\ PopFront(1)
        /\ UNCHANGED <<phase, versions, imm, bgError, bg, group>>
    BY DEF GiveUp
  <1>2. Len(queue) \in Nat /\ Len(queue) > 0 /\ w = queue[1]
    BY <1>1, OnlyFirst DEF IInv, QInv, InLine
  <1>3. /\ InLine'
        /\ \A v \in Writers : writer'[v] = "asleep" => writer[v] = "asleep"
        /\ \A v \in Writers : writer'[v] # "leading"
    BY <1>1, <1>2, Popped DEF IInv, QInv
  <1>4. \A v \in Writers : writer[v] # "leading"
    BY <1>1, <1>2, OnlyFirst DEF IInv, QInv
  <1>5. Grouped' /\ Sleeping'
    BY <1>1, <1>3, <1>4 DEF IInv, QInv, Grouped, Sleeping
  <1>6. Busy'
    BY <1>1, BusyKept DEF IInv, QInv
  <1> QED BY <1>3, <1>5, <1>6 DEF QInv

\* A writer that waits for room waits for a background thread that has work.
LEMMA QWait ==
    ASSUME IInv, NEW w \in Writers, Wait(w)
    PROVE  QInv'
  <1>1. /\ writer[w] = "front" /\ writer' = [writer EXCEPT ![w] = "asleep"]
        /\ UNCHANGED <<phase, versions, imm, bgError, bg, group, queue>>
        /\ ~ bgError /\ MustWait
    BY DEF Wait
  <1>2. imm # None \/ NeedsCompaction
    <2>1. IsFiniteSet(Level0)
      <3>1. Level0 \subseteq DOMAIN tables
        BY DEF IInv, FInv, ReferencedExist, Level0
      <3> QED BY <3>1, FS_Subset DEF IInv
    <2>2. Cardinality(Level0) \in Nat
      BY <2>1, FS_CardinalityType
    <2> QED BY <1>1, <2>2, TriggerAssumption DEF MustWait, NeedsCompaction
  <1>3. bg.at # "idle"
    BY <1>1, <1>2, FrontIsOpen DEF IInv, QInv, Busy
  <1>4. /\ writer' \in [Writers -> States]
        /\ \A v \in Writers : writer'[v] = IF v = w THEN "asleep" ELSE writer[v]
        /\ \A v \in Writers : Queued(v)' <=> Queued(v)
    BY <1>1 DEF IInv, QInv, InLine, States, Queued
  <1>5. InLine' /\ Grouped'
    BY <1>1, <1>4 DEF IInv, QInv, InLine, Grouped
  <1>6. Sleeping' /\ Busy'
    BY <1>1, <1>3, BusyKept DEF IInv, QInv, Sleeping
  <1> QED BY <1>5, <1>6 DEF QInv

LEMMA QStartGroup ==
    ASSUME IInv, NEW w \in Writers, StartGroup(w)
    PROVE  QInv'
  <1>1. /\ writer[w] = "front" /\ writer' = [writer EXCEPT ![w] = "leading"]
        /\ UNCHANGED <<phase, bgError, queue>>
        /\ SwitchMemTable
    BY DEF StartGroup
  <1>2. PICK n \in 1 .. Len(queue) : group' = [size |-> n, at |-> "append"]
    BY DEF StartGroup
  <1>3. group' # None /\ group'.size = n /\ group' \in Groups
    <2>1. n \in Nat
      BY DEF IInv, QInv, InLine
    <2> QED BY <1>2, <2>1, NoneAssumption DEF Groups
  <1>4. /\ writer' \in [Writers -> States]
        /\ \A v \in Writers : writer'[v] = IF v = w THEN "leading" ELSE writer[v]
        /\ \A v \in Writers : Queued(v)' <=> Queued(v)
    BY <1>1 DEF IInv, QInv, InLine, States, Queued
  <1>5. InLine' /\ Grouped'
    BY <1>1, <1>3, <1>4 DEF IInv, QInv, InLine, Grouped
  <1>6. \A v \in Writers : writer'[v] # "asleep"
    BY <1>1, <1>4, OnlyFirst DEF IInv, QInv
  <1>7. Busy'
    <2>1. CASE HasRoom
      <3>1. UNCHANGED <<versions, imm, bg>>
        BY <1>1, <2>1 DEF SwitchMemTable
      <3> QED BY <1>1, <3>1, BusyKept DEF IInv, QInv
    <2>2. CASE ~ HasRoom
      <3>1. bg' = IF bg.at = "idle" THEN Scheduled ELSE bg
        BY <1>1, <2>2 DEF SwitchMemTable
      <3> QED BY <3>1, BusyScheduled DEF Busy
    <2> QED BY <2>1, <2>2
  <1> QED BY <1>5, <1>6, <1>7 DEF QInv, Sleeping

LEMMA QGroup ==
    ASSUME IInv, GroupStep
    PROVE  QInv'
  <1>1. CASE AddRecord \/ Sync
    <2>1. /\ group # None /\ UNCHANGED <<phase, versions, imm, bgError, bg, queue, writer>>
          /\ \E a \in {"sync", "insert", "failed", "unsynced"} :
                group' = [group EXCEPT !.at = a]
      BY <1>1 DEF AddRecord, Sync
    <2>2. \E w \in Writers : writer[w] = "leading"
      BY <2>1 DEF IInv, QInv, Grouped
    <2>3. group' # None /\ group'.size = group.size /\ group' \in Groups
      <3>1. group \in Groups
        BY <2>1 DEF IInv, QInv, Grouped
      <3>2. group' \in Groups /\ group'.size = group.size
        BY <2>1, <3>1 DEF Groups
      <3> QED BY <3>2, NoneAssumption DEF Groups
    <2>4. InLine' /\ Grouped' /\ Sleeping'
      BY <2>1, <2>2, <2>3 DEF IInv, QInv, InLine, Grouped, Sleeping, Queued
    <2>5. Busy'
      BY <2>1, BusyKept DEF IInv, QInv
    <2> QED BY <2>4, <2>5 DEF QInv
  <1>2. CASE FinishGroup
    <2>1. /\ group # None /\ PopFront(group.size) /\ group' = None
          /\ UNCHANGED <<phase, imm, bg>>
          /\ bgError' = (bgError \/ group.at = "unsynced")
          /\ versions' = [versions EXCEPT !.last = @ + group.size]
      BY <1>2 DEF FinishGroup
    <2>2. group.size \in 1 .. Len(queue)
      BY <2>1 DEF IInv, QInv, Grouped
    <2>3. /\ InLine'
          /\ \A v \in Writers : writer'[v] = "asleep" => writer[v] = "asleep"
          /\ \A v \in Writers : writer'[v] # "leading"
      BY <2>1, <2>2, Popped DEF IInv, QInv
    <2>4. versions'.tables = versions.tables
      BY <2>1 DEF IInv, FInv, Shapes
    <2>5. Grouped' /\ Sleeping'
      BY <2>1, <2>3 DEF IInv, QInv, Grouped, Sleeping
    <2>6. Busy'
      BY <2>1, <2>4, BusyKept DEF IInv, QInv
    <2> QED BY <2>3, <2>5, <2>6 DEF QInv
  <1> QED BY <1>1, <1>2 DEF GroupStep

LEMMA QBackground ==
    ASSUME IInv, Background
    PROVE  QInv'
  <1>1. bg.at # "idle" /\ phase = "open"
    BY DEF IInv, FInv, Shapes, Background, BackgroundRefused, StartFlush, BuildTable,
           StartMerge, StartMove, OpenOutput, FinishOutput, AppendEdit, SyncEditFails, Install
  <1>2. UNCHANGED <<queue, group, phase>>
    BY DEF Background, BackgroundRefused, StartFlush, BuildTable, StartMerge, StartMove,
           OpenOutput, FinishOutput, AppendEdit, SyncEditFails, Install, threads
  <1>3. CASE BackgroundRefused
    <2>1. bgError' = TRUE /\ writer' = Woken(writer)
      BY <1>3 DEF BackgroundRefused, IInv, FInv, Shapes
    <2> QED BY <1>2, <2>1, QWoken DEF IInv, QInv, Busy
  <1>4. ASSUME NEW nested, Failed(nested) PROVE QInv'
    BY <1>2, <1>4, QWoken DEF Failed, IInv, QInv, Busy
  <1>5. CASE StartFlush \/ StartMerge \/ StartMove
    <2>1. bg'.at # "idle" /\ UNCHANGED threads
      BY <1>1, <1>5 DEF StartFlush, StartMerge, StartMove
    <2> QED BY <1>2, <2>1, QKept DEF IInv, QInv, Busy
  <1>6. CASE BuildTable
    <2>1. CASE bg' = [bg EXCEPT !.at = "append"] /\ UNCHANGED writer
      <3>1. bg'.at # "idle"
        BY <2>1 DEF IInv, FInv, Shapes
      <3> QED BY <1>2, <2>1, <3>1, QKept DEF IInv, QInv, Busy, threads
    <2> QED BY <1>4, <1>6, <2>1 DEF BuildTable
  <1>7. CASE OpenOutput \/ FinishOutput
    <2>1. CASE bg'.at # "idle" /\ UNCHANGED writer
      BY <1>2, <2>1, QKept DEF IInv, QInv, Busy, threads
    <2>2. CASE OpenOutput
      <3>1. CASE UNCHANGED <<bg, writer>>
        <4>1. bg.at = "merge"
          BY <2>2 DEF OpenOutput
        <4> QED BY <2>1, <3>1, <4>1
      <3>2. CASE bgError' = TRUE /\ writer' = Woken(writer)
        BY <1>2, <3>2, QWoken DEF IInv, QInv, Busy
      <3>3. UNCHANGED <<bg, writer>> \/ Failed(FALSE)
        BY <2>2 DEF OpenOutput
      <3>4. Failed(FALSE) => bgError' = TRUE /\ writer' = Woken(writer)
        BY DEF Failed
      <3> QED BY <3>1, <3>2, <3>3, <3>4
    <2>3. CASE FinishOutput
      <3>1. CASE bg' = [at |-> "append", out |-> 0] /\ UNCHANGED writer
        <4>1. bg'.at # "idle"
          BY <3>1
        <4> QED BY <2>1, <3>1, <4>1
      <3>2. CASE bgError' = TRUE /\ writer' = Woken(writer)
        BY <1>2, <3>2, QWoken DEF IInv, QInv, Busy
      <3>3. (bg' = [at |-> "append", out |-> 0] /\ UNCHANGED writer) \/ Failed(FALSE)
        BY <2>3 DEF FinishOutput
      <3>4. Failed(FALSE) => bgError' = TRUE /\ writer' = Woken(writer)
        BY DEF Failed
      <3> QED BY <3>1, <3>2, <3>3, <3>4
    <2> QED BY <1>7, <2>2, <2>3
  <1>8. CASE AppendEdit
    <2>1. CASE bg' = [bg EXCEPT !.at = "sync"] /\ UNCHANGED writer
      <3>1. bg'.at # "idle"
        BY <2>1 DEF IInv, FInv, Shapes
      <3> QED BY <1>2, <2>1, <3>1, QKept DEF IInv, QInv, Busy, threads
    <2> QED BY <1>4, <1>8, <2>1 DEF AppendEdit, NotLogged
  <1>9. CASE SyncEditFails
    BY <1>4, <1>9 DEF SyncEditFails, NotLogged
  <1>10. CASE Install
    <2>1. /\ writer' = Woken(writer)
          /\ bg' = Scheduled \/ bg' = [at |-> "merge", out |-> 0]
      BY <1>10 DEF Install, Done
    <2>2. Busy'
      BY <2>1, BusyScheduled DEF Busy
    <2> QED BY <1>2, <2>1, <2>2, QWoken DEF IInv, QInv
  <1> QED BY <1>3, <1>5, <1>6, <1>7, <1>8, <1>9, <1>10 DEF Background

LEMMA QOpen ==
    ASSUME IInv, Open
    PROVE  QInv'
  <1>1. UNCHANGED threads /\ phase # "open"
    BY DEF Open, NewDB, Recover, RecoverLogFile, NewLog, WriteDescriptor, SetCurrentFile,
           FinishOpen, OpenFails
  <1>2. CASE FinishOpen
    <2>1. bg' = Scheduled /\ phase' = "open" /\ bg.at = "idle"
      BY <1>1, <1>2 DEF FinishOpen, IInv, FInv, Shapes
    <2> QED BY <1>1, <2>1, BusyScheduled, QKept DEF IInv, QInv
  <1>3. CASE ~ FinishOpen
    <2>1. phase' # "open" /\ bg' = bg
      BY <1>3 DEF Open, NewDB, Recover, RecoverLogFile, NewLog, WriteDescriptor,
                  SetCurrentFile, OpenFails
    <2>2. InLine' /\ Grouped'
      BY <1>1, <2>1 DEF IInv, QInv, InLine, Grouped, Queued, threads
    <2>3. Sleeping' /\ Busy'
      BY <1>1, <2>1 DEF IInv, QInv, Sleeping, Busy, threads
    <2> QED BY <2>2, <2>3 DEF QInv
  <1> QED BY <1>2, <1>3

LEMMA QForget ==
    ASSUME Forget
    PROVE  QInv'
  <1>1. /\ phase' = "down" /\ queue' = <<>> /\ writer' = [w \in Writers |-> "idle"]
        /\ group' = None
    BY DEF Forget
  <1>2. InLine' /\ Grouped' /\ Sleeping'
    BY <1>1 DEF InLine, Grouped, Sleeping, Queued, States
  <1> QED BY <1>1, <1>2 DEF QInv, Busy

LEMMA QInit == Init => QInv
  <1> SUFFICES ASSUME Init PROVE QInv
    OBVIOUS
  <1> USE DEF Init
  <1>1. InLine /\ Grouped /\ Sleeping
    BY DEF InLine, Grouped, Sleeping, Queued, States
  <1> QED BY <1>1 DEF QInv, Busy

-----------------------------------------------------------------------------
(* The theorems.                                                            *)

\* There are never more than finitely many tables: no step begins more than one.
LEMMA OneTable ==
    ASSUME IInv, Next
    PROVE  IsFiniteSet(DOMAIN tables)'
  <1>1. ASSUME NEW n, DOMAIN tables' \subseteq DOMAIN tables \cup {n}
        PROVE  IsFiniteSet(DOMAIN tables)'
    <2>1. IsFiniteSet(DOMAIN tables \cup {n})
      BY FS_AddElement DEF IInv
    <2> QED BY <1>1, <2>1, FS_Subset
  <1>2. ASSUME NEW d, DeleteObsoleteFiles(d) PROVE DOMAIN tables' \subseteq DOMAIN tables
    BY <1>2 DEF DeleteObsoleteFiles, Only
  <1>3. ASSUME NEW n, NEW c, tables' = Put(tables, n, c)
        PROVE  DOMAIN tables' \subseteq DOMAIN tables \cup {n}
    BY <1>3 DEF Put, Over, One
  <1>4. CASE UNCHANGED tables
    BY <1>1, <1>4
  <1>5. CASE \E n \in DOMAIN logs : RecoverLogFile(n)
    <2>1. PICK n \in DOMAIN logs : RecoverLogFile(n)
      BY <1>5
    <2> DEFINE found == Contents(logs[n])
               add   == IF found = {} THEN <<>> ELSE One(versions.next, 0)
    <2>2. \/ UNCHANGED tables
          \/ tables' = Over([t \in DOMAIN add |-> found], tables)
      BY <2>1 DEF RecoverLogFile, disk
    <2>3. DOMAIN add \subseteq {versions.next}
      BY DEF One
    <2> HIDE DEF found, add
    <2>4. DOMAIN tables' \subseteq DOMAIN tables \cup {versions.next}
      BY <2>2, <2>3 DEF Over
    <2> QED BY <1>1, <2>4
  <1>6. CASE BuildTable \/ OpenOutput \/ FinishOutput
    BY <1>1, <1>3, <1>4, <1>6 DEF BuildTable, OpenOutput, FinishOutput
  <1>7. CASE FinishOpen \/ Install
    BY <1>1, <1>2, <1>4, <1>7 DEF FinishOpen, Install
  <1> QED
    <2>1. CASE Open
      BY <1>4, <1>5, <1>7, <2>1 DEF Open, NewDB, Recover, NewLog, WriteDescriptor,
                                    SetCurrentFile, disk
    <2>2. CASE Background
      BY <1>4, <1>6, <1>7, <2>2 DEF Background, BackgroundRefused, StartFlush, StartMerge,
                                    StartMove, AppendEdit, SyncEditFails, disk
    <2>3. CASE GroupStep
      BY <1>4, <2>3 DEF GroupStep, AddRecord, Sync, FinishGroup, disk
    <2>4. ASSUME NEW w \in Writers, Write(w) \/ WriterStep(w) PROVE UNCHANGED tables
      BY <2>4 DEF Write, WriterStep, GiveUp, Wait, StartGroup, disk
    <2>5. CASE Pin \/ Unpin \/ ProcessCrash \/ MachineCrash
      BY <1>4, <2>5 DEF Pin, Unpin, ProcessCrash, MachineCrash, disk
    <2> QED BY <1>4, <2>1, <2>2, <2>3, <2>4, <2>5 DEF Next

LEMMA FNext ==
    ASSUME IInv, Next
    PROVE  FInv'
  <1> USE DEF IInv
  <1>1. CASE Open
    BY <1>1, FNewDB, FRecover, FRecoverLogFile, FNewLog, FWriteDescriptor, FSetCurrentFile,
       FFinishOpen DEF Open
  <1>2. ASSUME NEW w \in Writers, Write(w) \/ WriterStep(w) PROVE FInv'
    <2>1. CASE Write(w) \/ GiveUp(w) \/ Wait(w)
      BY <2>1, FWriter
    <2>2. CASE StartGroup(w)
      <3>1. writer[w] = "front"
        BY <2>2 DEF StartGroup
      <3> QED BY <2>2, <3>1, FrontIsOpen, FStartGroup
    <2> QED BY <1>2, <2>1, <2>2 DEF WriterStep
  <1>3. CASE GroupStep
    BY <1>3, FGroup
  <1>4. CASE Background
    BY <1>4, FBackgroundRefused, FStartFlush, FBuildTable, FStartMerge, FStartMove,
       FOpenOutput, FFinishOutput, FAppendEdit, FSyncEditFails, FInstall DEF Background
  <1>5. CASE Pin \/ Unpin
    BY <1>5, FReader
  <1>6. CASE ProcessCrash \/ MachineCrash
    BY <1>6, FProcessCrash, FMachineCrash
  <1> QED BY <1>1, <1>2, <1>3, <1>4, <1>5, <1>6 DEF Next

LEMMA QNext ==
    ASSUME IInv, Next
    PROVE  QInv'
  <1>1. ASSUME NEW w \in Writers, Write(w) \/ WriterStep(w) PROVE QInv'
    BY <1>1, QWrite, QGiveUp, QWait, QStartGroup DEF WriterStep
  <1>2. CASE Pin \/ Unpin
    <2>1. UNCHANGED <<threads, phase, versions, imm, bgError, bg>>
      BY <1>2 DEF Pin, Unpin
    <2>2. Busy'
      BY <2>1, BusyKept DEF IInv, QInv
    <2> QED BY <2>1, <2>2, QKept DEF IInv, QInv
  <1>3. CASE ProcessCrash \/ MachineCrash
    BY <1>3, QForget DEF ProcessCrash, MachineCrash
  <1> QED BY <1>1, <1>2, <1>3, QOpen, QGroup, QBackground DEF Next

\* IInv holds in every state.
THEOREM Invariance == Spec => []IInv
  <1>1. Init => IInv
    <2>1. ASSUME Init PROVE IsFiniteSet(DOMAIN tables)
      <3>1. DOMAIN tables = {}
        BY <2>1 DEF Init
      <3> QED BY <3>1, FS_EmptySet
    <2> QED BY <2>1, FInit, QInit DEF IInv
  <1>2. IInv /\ [Next]_vars => IInv'
    <2>1. CASE Next
      BY <2>1, FNext, QNext, OneTable DEF IInv
    <2>2. CASE UNCHANGED vars
      <3>1. ASSUME IInv PROVE FInv'
        BY <2>2, <3>1, FQuiet DEF vars, disk, fvars, IInv
      <3>2. ASSUME IInv PROVE QInv'
        BY <2>2, <3>2, BusyKept, QKept DEF vars, IInv, QInv
      <3> QED BY <2>2, <3>1, <3>2 DEF IInv, vars, disk
    <2> QED BY <2>1, <2>2
  <1> QED BY <1>1, <1>2, PTL DEF Spec

\* Whatever flushes, compactions, failed calls and crashes happen, no table is
\* deleted that a version, a read, a compaction or the next opening looks for.
\* FewReads may be false: then reads begin at any moment, any number at a time,
\* after crashes and failed calls too (db_impl.cc:218-272).
THEOREM FilesAreKept == Spec => []NeededFilesExist
  <1>1. IInv => NeededFilesExist
    BY DEF IInv, FInv, NeededFilesExist, Needed, EditIsReady, ReferencedExist, DescribedExist
  <1> QED BY <1>1, Invariance, PTL

\* No writer is forgotten in the queue or asleep with nobody to wake it.
THEOREM NoLostWakeup == Spec => []NobodyIsForgotten
  <1>1. IInv => NobodyIsForgotten
    BY QInvMeans DEF IInv
  <1> QED BY <1>1, Invariance, PTL

-----------------------------------------------------------------------------
(* The descriptor that CURRENT names can be read.                            *)

\* Every descriptor but the first is synced before CURRENT names it; and part of
\* a record at its end means that the error is known (DescriptorAgrees).
RInv ==
    /\ current \notin {0, 1} => manifests[current].durable # NeverSynced
    /\ phase = "described" => Manifest.broken = FALSE
    /\ DescriptorReadable

\* Steps that leave the current descriptor alone, except to sync it.
LEMMA RSame ==
    ASSUME RInv, current' = current, late => late',
           current # 0 =>
               /\ manifests'[current].broken = manifests[current].broken
               /\ manifests'[current].durable = manifests[current].durable
                  \/ manifests'[current].durable # NeverSynced,
           phase' = "described" =>
               phase = "described" /\ versions' = versions /\ manifests' = manifests
    PROVE  RInv'
  BY DEF RInv, DescriptorReadable, Manifest

\* What a descriptor says is not what one says that was never synced.
LEMMA SaysSomething ==
    ASSUME FInv, NEW m \in DOMAIN manifests
    PROVE  manifests[m].written # NeverSynced
  <1>1. m \in Nat /\ manifests[m].written.next \in Nat /\ m < manifests[m].written.next
    BY DEF FInv, Shapes, DescriptorShapes
  <1>2. NeverSynced.next = 0
    BY DEF NeverSynced
  <1> QED BY <1>1, <1>2

LEMMA ROpen ==
    ASSUME FInv, RInv, Open
    PROVE  RInv'
  <1> USE DEF Opening
  <1>1. CASE NewDB
    <2>1. current' = 1 /\ manifests' = One(1, Descriptor(NewState)) /\ phase' = "created"
      BY <1>1 DEF NewDB
    <2> QED BY <2>1 DEF RInv, DescriptorReadable
  <1>2. CASE Recover \/ (\E n \in DOMAIN logs : RecoverLogFile(n)) \/ NewLog
    <2>1. UNCHANGED <<manifests, current, late>> /\ phase' # "described"
      BY <1>2 DEF Recover, RecoverLogFile, NewLog, OpenFails, disk, history
    <2> QED BY <2>1, RSame
  <1>3. CASE WriteDescriptor
    <2>1. /\ current' = current /\ late' = late /\ phase = "recovered"
          /\ current # versions.manifest /\ current \in DOMAIN manifests
      BY <1>3 DEF WriteDescriptor, OpenFails, disk, history, FInv, CurrentIsKnown
    <2>2. CASE phase' = "down" /\ manifests' = manifests
      BY <2>1, <2>2, RSame
    <2>3. CASE ~ (phase' = "down" /\ manifests' = manifests)
      <3>1. PICK state :
              /\ manifests' = Put(manifests, versions.manifest,
                                  [Descriptor(state) EXCEPT !.durable = state])
              /\ versions' = versions
        BY <1>3, <2>3 DEF WriteDescriptor, OpenFails, disk
      <3>2. manifests'[current] = manifests[current]
        BY <2>1, <3>1 DEF Put, Over, One
      <3>3. manifests'[versions.manifest] = [Descriptor(state) EXCEPT !.durable = state]
        BY <3>1 DEF Put, Over, One
      <3>4. Manifest'.broken = FALSE
        BY <3>1, <3>3 DEF Manifest, Descriptor
      <3> QED BY <2>1, <3>2, <3>4 DEF RInv, DescriptorReadable
    <2> QED BY <2>2, <2>3
  <1>4. CASE SetCurrentFile
    <2>1. CASE /\ OpenFails
               /\ manifests' = Without(manifests, {versions.manifest})
               /\ UNCHANGED <<logs, tables, current>>
      <3>1. current \in DOMAIN manifests /\ current # versions.manifest
        BY <1>4 DEF SetCurrentFile, FInv, CurrentIsKnown
      <3>2. manifests'[current] = manifests[current]
        BY <2>1, <3>1 DEF Without
      <3> QED BY <2>1, <3>2, RSame DEF OpenFails, history
    <2>2. CASE /\ phase = "described" /\ phase' = "renamed"
               /\ current' = versions.manifest
               /\ UNCHANGED <<manifests, versions>>
      <3>1. /\ versions.manifest \in DOMAIN manifests
            /\ manifests[versions.manifest].durable = manifests[versions.manifest].written
        BY <2>2 DEF FInv, CurrentIsKnown, DescriptorAgrees, Manifest
      <3>2. manifests[versions.manifest].durable # NeverSynced
        BY <3>1, SaysSomething
      <3>3. manifests[versions.manifest].broken = FALSE
        BY <2>2 DEF RInv, Manifest
      <3> QED BY <2>2, <3>2, <3>3 DEF RInv, DescriptorReadable
    <2> QED BY <1>4, <2>1, <2>2 DEF SetCurrentFile
  <1>5. CASE FinishOpen
    <2>1. /\ current' = current /\ late' = late /\ phase' = "open"
          /\ versions'.manifest = versions.manifest
          /\ DeleteObsoleteFiles(manifests)
      BY <1>5 DEF FinishOpen, history, FInv, Shapes
    <2>2. current \in DOMAIN manifests /\ current \in Nat /\ current = versions.manifest
      BY <1>5 DEF FinishOpen, FInv, Shapes, CurrentIsKnown
    <2>3. manifests'[current] = manifests[current]
      BY <2>1, <2>2 DEF DeleteObsoleteFiles, Only
    <2> QED BY <2>1, <2>3, RSame
  <1> QED BY <1>1, <1>2, <1>3, <1>4, <1>5 DEF Open

\* An append makes the descriptor unreadable only behind part of a record, and
\* then the error has been set and the edit is a late one.
LEMMA RBackground ==
    ASSUME FInv, RInv, Background
    PROVE  RInv'
  <1> USE DEF Opening
  <1>1. CASE AppendEdit
    <2>1. /\ bg.at = "append" /\ phase = "open" /\ phase' = phase /\ current' = current
          /\ late' = (late \/ bgError)
          /\ current = versions.manifest /\ current \in DOMAIN manifests
      BY <1>1 DEF AppendEdit, FInv, Shapes, CurrentIsKnown
    <2>2. PICK m \in PartlyAppended(Manifest) :
              manifests' = [manifests EXCEPT ![versions.manifest] = m]
      BY <1>1 DEF AppendEdit, PartlyAppended
    <2>3. manifests'[current] = m /\ Manifest = manifests[current]
      BY <2>1, <2>2 DEF Manifest
    <2>4. m.durable = Manifest.durable
      BY <2>1, AppendedShape
    <2>5. CASE bgError
      BY <2>1, <2>3, <2>4, <2>5 DEF RInv, DescriptorReadable
    <2>6. CASE ~ bgError
      <3>1. /\ Manifest.tail = FALSE
            /\ Manifest = [written |-> Manifest.written, durable |-> Manifest.durable,
                           tail |-> Manifest.tail, broken |-> Manifest.broken]
        BY <2>1, <2>3, <2>6 DEF FInv, DescriptorAgrees, DescriptorShapes
      <3>2. m.broken = Manifest.broken
        BY <3>1 DEF PartlyAppended, Appended
      <3> QED BY <2>1, <2>3, <2>4, <3>2, RSame
    <2> QED BY <2>5, <2>6
  <1>2. CASE Install
    <2>1. /\ bg.at = "sync" /\ phase = "open" /\ phase' = phase /\ current' = current
          /\ late' = late
          /\ current = versions.manifest /\ current \in DOMAIN manifests /\ current \in Nat
          /\ versions'.manifest = versions.manifest
      BY <1>2 DEF Install, history, FInv, Shapes, CurrentIsKnown
    <2> DEFINE safe == [manifests EXCEPT ![versions.manifest].durable = Manifest.written]
    <2>2. manifests' = safe \/ DeleteObsoleteFiles(safe)
      BY <1>2 DEF Install
    <2>3. /\ DOMAIN safe = DOMAIN manifests
          /\ safe[current] = [manifests[current] EXCEPT !.durable = Manifest.written]
      BY <2>1
    <2>4. safe[current].durable = Manifest.written /\ safe[current].broken = Manifest.broken
      <3>1. manifests[current] = [written |-> manifests[current].written,
                                  durable |-> manifests[current].durable,
                                  tail |-> manifests[current].tail,
                                  broken |-> manifests[current].broken]
        BY <2>1 DEF FInv, DescriptorShapes
      <3> QED BY <2>1, <2>3, <3>1 DEF Manifest
    <2> HIDE DEF safe
    <2>5. manifests'[current] = safe[current]
      BY <2>1, <2>2, <2>3 DEF DeleteObsoleteFiles, Only
    <2>6. Manifest.written # NeverSynced /\ Manifest = manifests[current]
      BY <2>1, SaysSomething DEF Manifest
    <2> QED BY <2>1, <2>4, <2>5, <2>6, RSame
  <1>3. CASE Background /\ ~ AppendEdit /\ ~ Install
    <2>1. UNCHANGED <<manifests, current, late, phase>>
      BY <1>3 DEF Background, BackgroundRefused, StartFlush, BuildTable, StartMerge, StartMove,
             OpenOutput, FinishOutput, SyncEditFails, disk, history
    <2>2. phase' # "described"
      BY <1>3, <2>1 DEF Background, BackgroundRefused, StartFlush, BuildTable, StartMerge,
             StartMove, OpenOutput, FinishOutput, SyncEditFails, FInv, Shapes
    <2> QED BY <2>1, <2>2, RSame
  <1> QED BY <1>1, <1>2, <1>3

LEMMA RCrash ==
    ASSUME FInv, RInv, ProcessCrash \/ MachineCrash
    PROVE  RInv'
  <1>1. current' = current /\ late' = late /\ phase' = "down"
    BY DEF ProcessCrash, MachineCrash, Forget
  <1>2. CASE ProcessCrash
    BY <1>1, <1>2, RSame DEF ProcessCrash
  <1>3. CASE MachineCrash
    <2>1. CASE current \in {0, 1}
      BY <1>1, <2>1 DEF RInv, DescriptorReadable
    <2>2. CASE current \notin {0, 1}
      <3>1. current \in DOMAIN manifests /\ manifests[current].durable # NeverSynced
        BY <2>2 DEF FInv, CurrentIsKnown, RInv
      <3> PICK d : d = manifests[current]
        OBVIOUS
      <3>2. d = [written |-> d.written, durable |-> d.durable, tail |-> d.tail,
                 broken |-> d.broken]
        BY <3>1 DEF FInv, DescriptorShapes
      <3>3. manifests'[current] \in {d, [d EXCEPT !.written = d.durable]}
        BY <1>3, <3>1 DEF MachineCrash
      <3>4. manifests'[current].broken = d.broken /\ manifests'[current].durable = d.durable
        BY <3>2, <3>3
      <3> QED BY <1>1, <3>4, RSame
    <2> QED BY <2>1, <2>2
  <1> QED BY <1>2, <1>3

LEMMA RNext ==
    ASSUME IInv, RInv, [Next]_vars
    PROVE  RInv'
  <1> USE DEF IInv
  <1>1. ASSUME NEW w \in Writers, Write(w) \/ WriterStep(w) PROVE RInv'
    <2>1. UNCHANGED <<manifests, current, late, phase>>
      BY <1>1 DEF Write, WriterStep, GiveUp, Wait, StartGroup, disk, history
    <2>2. phase' # "described"
      <3>1. CASE Write(w)
        BY <2>1, <3>1 DEF Write
      <3>2. CASE WriterStep(w)
        BY <2>1, <3>2, FrontIsOpen DEF WriterStep, GiveUp, Wait, StartGroup
      <3> QED BY <1>1, <3>1, <3>2
    <2> QED BY <2>1, <2>2, RSame
  <1>2. CASE GroupStep
    <2>1. UNCHANGED <<manifests, current, late, phase>> /\ versions'.manifest = versions.manifest
      BY <1>2 DEF GroupStep, AddRecord, Sync, FinishGroup, disk, history, FInv, Shapes
    <2> QED BY <2>1 DEF RInv, DescriptorReadable, Manifest
  <1>3. CASE Pin \/ Unpin \/ UNCHANGED vars
    BY <1>3, RSame DEF Pin, Unpin, vars, disk, history
  <1> QED BY <1>1, <1>2, <1>3, ROpen, RBackground, RCrash DEF Next

\* A crash, however often and wherever, in an opening too, leaves a database that
\* can be opened: its descriptor is readable, but for a first one that NewDB did
\* not sync, and for edits that were logged behind a background error.
THEOREM DescriptorStaysReadable == Spec => []DescriptorReadable
  <1>1. Init => RInv
    BY DEF Init, RInv, DescriptorReadable
  <1>2. IInv /\ RInv /\ [Next]_vars => RInv'
    BY RNext
  <1>3. RInv => DescriptorReadable
    BY DEF RInv
  <1> QED BY <1>1, <1>2, <1>3, Invariance, PTL DEF Spec

-----------------------------------------------------------------------------
(* Numbers.                                                                 *)

\* File numbers below k, and tables whose writes have numbers up to k.
Below(S, k) == \A n \in S : n \in Nat /\ n < k
Upto(S, k)  == \A n \in S : \A s \in tables[n] : s \in Nat /\ s =< k

\* What a descriptor says is true of the tables it names, and leaves numbers for
\* those to come.
Sound(d) ==
    /\ d.log \in Nat /\ d.next \in Nat /\ d.log < d.next
    /\ d.last \in 0 .. MaxSeq
    /\ Below(DOMAIN d.tables, d.next)
    /\ Upto(DOMAIN d.tables, d.last)

SoundManifest(m) ==
    LET d == manifests[m]
    IN  /\ Sound(d.written)
        /\ d.durable # NeverSynced =>
               /\ Sound(d.durable)
               /\ Below(DOMAIN d.durable.tables, d.written.next)
               /\ Upto(DOMAIN d.durable.tables, d.written.last)

DescriptorsSound ==
    /\ current # 0 => SoundManifest(current)
    /\ phase = "described" => SoundManifest(versions.manifest)

\* The tables that the current descriptor names or will name after a crash, and
\* those of them and of the process that are complete.
Promised ==
    IF current = 0 THEN {}
    ELSE DOMAIN Described.tables \cup
         (IF manifests[current].durable = NeverSynced THEN {}
          ELSE DOMAIN manifests[current].durable.tables)

Merging == merging # None \/ bg.at = "merge"

Held ==
    DOMAIN versions.tables \cup Pinned \cup Promised
    \cup (IF Merging THEN merging.in ELSE {})

HeldSound ==
    /\ phase \in Opening \cup {"open"} => Below(Held, versions.next) /\ Upto(Held, versions.last)
    /\ phase # "open" => pinned = {}

\* The edit says no less than what holds when it is made.
Logging == bg.at \in {"append", "sync"} \/ phase \in Opening \ {"replaying"}

EditSound ==
    /\ phase \in Opening =>
           /\ Below(DOMAIN edit.add, versions.next)
           /\ Upto(DOMAIN edit.add, versions.last)
    /\ Logging =>
           /\ edit.next \in Nat /\ edit.next =< versions.next
           /\ edit.log \in Nat /\ edit.log < edit.next
           /\ edit.last \in 0 .. MaxSeq /\ edit.last =< versions.last
           /\ Below(DOMAIN edit.add \cup DOMAIN versions.tables \cup Promised, edit.next)
           /\ Upto(DOMAIN edit.add \cup DOMAIN versions.tables \cup Promised, edit.last)
    /\ phase = "open" /\ ~ Logging => edit = None

\* The tables that are being written are none of those that are complete.
OutputsApart ==
    /\ bg.at = "build" =>
           /\ bg.out \in Nat /\ bg.out < versions.next /\ bg.out \notin Held
           /\ \A s \in imm : s \in Nat /\ s =< versions.last
    /\ Merging /\ merging.out # 0 /\ ~ (Logging /\ edit.kind = "merge") =>
           /\ merging.out \notin Held /\ tables[merging.out] = {}
           /\ Logging => merging.out \notin DOMAIN edit.add

\* The numbers of the logs, and what is in those that an opening would read.
Top == versions.last + (IF group = None THEN 0 ELSE group.size)

LogsSound ==
    /\ \A n \in DOMAIN logs :
          /\ logs[n] = [records |-> logs[n].records, synced |-> logs[n].synced,
                        sound |-> logs[n].sound]
          /\ logs[n].records \in Seq(SUBSET Seqs)
    /\ phase \in Opening => versions.log \in Nat /\ versions.log < versions.next
    /\ phase = "replaying" => \A n \in DOMAIN logs \ edit.left : n < versions.next
    /\ phase \in Opening \ {"replaying"} =>
           /\ logNumber \in Nat /\ versions.next = logNumber + 1 /\ edit.log = logNumber
           /\ Below(DOMAIN logs, versions.next)
           /\ logNumber \in DOMAIN logs => logs[logNumber].records = <<>>
    /\ phase = "described" => Manifest.written.log = logNumber
    /\ phase = "renamed" => Described.log = logNumber
    /\ phase = "open" =>
           /\ versions.log \in Nat /\ logNumber \in Nat
           /\ versions.log =< logNumber /\ logNumber < versions.next
           /\ Logging => versions.log =< edit.log /\ edit.log =< logNumber
           /\ Below(DOMAIN logs, versions.next)
           /\ \A n \in DOMAIN logs : n >= versions.log \/ n >= Described.log =>
                  \A s \in Contents(logs[n]) : s =< Top

\* What is in the memtables, and the bound on sequence numbers.
MemSound ==
    /\ versions.last \in 0 .. MaxSeq
    /\ phase = "open" =>
           /\ versions.last + Len(queue) =< MaxSeq
           /\ \A s \in mem : s \in Nat /\ s =< versions.last
           /\ imm # None => \A s \in imm : s \in Nat /\ s =< versions.last
    /\ phase # "open" => mem = {} /\ imm = None

GInv == /\ DescriptorsSound /\ HeldSound /\ EditSound /\ OutputsApart /\ LogsSound /\ MemSound

-----------------------------------------------------------------------------
(* Parts that a step leaves alone.                                          *)

\* The steps that take numbers, schedule the background thread or refer to a
\* version, and change no table and no descriptor.
LEMMA GLight ==
    ASSUME FInv, GInv, phase = "open",
           UNCHANGED <<tables, manifests, current, phase, edit, merging>>,
           versions'.next \in Nat, versions.next =< versions'.next,
           versions'.last \in Nat, versions.last =< versions'.last,
           versions'.tables = versions.tables, versions'.manifest = versions.manifest,
           Pinned' \subseteq Pinned \cup DOMAIN versions.tables,
           bg' = bg \/ (bg.at = "idle" /\ bg'.at \in {"idle", "scheduled"})
                    \/ (bg.at = "scheduled" /\ bg'.at = "idle"),
           bg.at = "build" => \A s \in imm' : s \in Nat /\ s =< versions'.last
    PROVE  DescriptorsSound' /\ HeldSound' /\ EditSound' /\ OutputsApart'
  <1> USE DEF Opening
  <1>1. versions.next \in Nat /\ versions.last \in Nat
    BY DEF GInv, MemSound, FInv, Shapes
  <1>2. Promised' = Promised /\ Held' \subseteq Held
    BY DEF Promised, Held, Merging, Described
  <1>3. Logging' <=> Logging
    BY DEF Logging
  <1>4. DescriptorsSound'
    BY DEF GInv, DescriptorsSound, SoundManifest, Sound, Below, Upto
  <1>5. HeldSound'
    BY <1>1, <1>2 DEF GInv, HeldSound, Below, Upto
  <1>6. EditSound'
    <2>1. CASE Logging
      <3>1. /\ edit.next \in Nat /\ edit.next =< versions.next
            /\ edit.log \in Nat /\ edit.log < edit.next
            /\ edit.last \in 0 .. MaxSeq /\ edit.last =< versions.last
            /\ Below(DOMAIN edit.add \cup DOMAIN versions.tables \cup Promised, edit.next)
            /\ Upto(DOMAIN edit.add \cup DOMAIN versions.tables \cup Promised, edit.last)
        BY <2>1 DEF GInv, EditSound
      <3>2. edit.last \in Int
        BY <3>1
      <3> QED BY <1>1, <1>2, <1>3, <2>1, <3>1, <3>2 DEF EditSound, Below, Upto
    <2>2. CASE ~ Logging
      BY <1>3, <2>2 DEF GInv, EditSound
    <2> QED BY <2>1, <2>2
  <1>7. OutputsApart'
    BY <1>1, <1>2, <1>3 DEF GInv, OutputsApart, Merging
  <1> QED BY <1>4, <1>5, <1>6, <1>7

\* And the logs, when the numbers that are compared stay.
LEMMA LogsKept ==
    ASSUME FInv, GInv, phase = "open", phase' = "open",
           UNCHANGED <<logs, manifests, current, logNumber>>,
           versions'.log = versions.log,
           versions'.next \in Nat, versions.next =< versions'.next, Top =< Top',
           Top \in Nat, Top' \in Nat,
           Logging' => edit' = edit /\ Logging
    PROVE  LogsSound'
  <1> USE DEF Opening
  <1>1. versions.next \in Nat
    BY DEF FInv, Shapes
  <1>2. Described' = Described
    BY DEF Described
  <1>3. \A n \in DOMAIN logs : logs[n].records \in Seq(SUBSET Seqs)
    BY DEF GInv, LogsSound
  <1>4. \A n \in DOMAIN logs : Contents(logs[n]) \subseteq Seqs
    BY <1>3 DEF Contents, Range
  <1>5. \A n \in DOMAIN logs : n >= versions.log \/ n >= Described.log =>
            \A s \in Contents(logs[n]) : s =< Top'
    <2> SUFFICES ASSUME NEW n \in DOMAIN logs, n >= versions.log \/ n >= Described.log,
                        NEW s \in Contents(logs[n])
                 PROVE  s =< Top'
      OBVIOUS
    <2>1. s =< Top
      BY DEF GInv, LogsSound
    <2>2. s \in Nat
      BY <1>4 DEF Seqs
    <2> QED BY <2>1, <2>2
  <1>6. /\ versions.log \in Nat /\ logNumber \in Nat
        /\ versions.log =< logNumber /\ logNumber < versions.next
        /\ Below(DOMAIN logs, versions.next)
        /\ Logging => versions.log =< edit.log /\ edit.log =< logNumber
    BY DEF GInv, LogsSound
  <1> QED BY <1>1, <1>2, <1>5, <1>6 DEF GInv, LogsSound, Below

-----------------------------------------------------------------------------
(* Writing.                                                                 *)

\* The sequence numbers a group of writers uses.
LEMMA Counted ==
    ASSUME IInv, GInv
    PROVE  /\ versions.last \in Nat /\ Len(queue) \in Nat /\ MaxSeq \in Nat
           /\ group # None => group \in Groups /\ group.size \in Nat /\ group.size =< Len(queue)
           /\ Top \in Nat /\ versions.last =< Top
           /\ phase = "open" => Top =< MaxSeq
           /\ group # None => phase = "open"
  <1>1. Len(queue) \in Nat /\ queue \in Seq(Writers)
    BY DEF IInv, QInv, InLine
  <1>2. group # None =>
            /\ group \in Groups /\ group.size \in Nat /\ group.size =< Len(queue)
            /\ Len(queue) # 0
    BY <1>1 DEF IInv, QInv, Grouped, Groups
  <1>3. versions.last \in Nat /\ (phase = "open" => versions.last + Len(queue) =< MaxSeq)
    BY DEF GInv, MemSound
  <1>4. Len(queue) # 0 => phase = "open"
    BY DEF IInv, QInv, InLine
  <1>5. MaxSeq \in Nat
    BY BoundsAssumption
  <1> QED BY <1>1, <1>2, <1>3, <1>4, <1>5 DEF Top

\* What is left of the queue when the first k are answered.
LEMMA RestLength ==
    ASSUME NEW S, NEW s \in Seq(S), NEW k \in Nat, k =< Len(s)
    PROVE  Len(SubSeq(s, k + 1, Len(s))) = Len(s) - k
  <1> DEFINE l == Len(s)
  <1>1. l \in Nat /\ k + 1 \in Int /\ \A i \in k + 1 .. l : s[i] \in S
    OBVIOUS
  <1> HIDE DEF l
  <1>2. Len(SubSeq(s, k + 1, l)) = IF k + 1 <= l THEN l - (k + 1) + 1 ELSE 0
    BY <1>1, SubSeqProperties
  <1>3. (IF k + 1 <= l THEN l - (k + 1) + 1 ELSE 0) = l - k
    BY <1>1 DEF l
  <1> QED BY <1>2, <1>3 DEF l

LEMMA GWriter ==
    ASSUME IInv, GInv, NEW w \in Writers, Write(w) \/ GiveUp(w) \/ Wait(w)
    PROVE  GInv'
  <1>1. /\ UNCHANGED <<logs, tables, manifests, current, phase, versions, edit, mem, imm,
                       logNumber, bg, merging, pinned, group>>
        /\ phase = "open"
    BY FrontIsOpen DEF Write, GiveUp, Wait, disk
  <1>2. Len(queue') \in Nat /\ versions.last + Len(queue') =< MaxSeq
    <2>1. CASE Write(w)
      <3>1. queue' = Append(queue, w) /\ versions.last + Len(queue) < MaxSeq
        BY <2>1 DEF Write
      <3>2. queue \in Seq(Writers)
        BY DEF IInv, QInv, InLine
      <3> QED BY <3>1, <3>2, Counted
    <2>2. CASE GiveUp(w)
      <3>1. queue' = SubSeq(queue, 1 + 1, Len(queue)) /\ writer[w] = "front"
        BY <2>2 DEF GiveUp, PopFront
      <3>2. queue \in Seq(Writers) /\ Len(queue) > 0
        BY <3>1, OnlyFirst DEF IInv, QInv, InLine
      <3>3. Len(queue') = Len(queue) - 1
        <4>1. 1 \in Nat /\ 1 =< Len(queue)
          BY <3>2
        <4>2. Len(SubSeq(queue, 1 + 1, Len(queue))) = Len(queue) - 1
          BY <3>2, <4>1, RestLength
        <4> QED BY <3>1, <4>2
      <3> QED BY <1>1, <3>2, <3>3, Counted DEF GInv, MemSound
    <2>3. CASE Wait(w)
      BY <1>1, <2>3, Counted DEF Wait, GInv, MemSound
    <2> QED BY <2>1, <2>2, <2>3
  <1>3. MemSound'
    BY <1>1, <1>2 DEF GInv, MemSound
  <1>4. Top' = Top /\ (Logging' <=> Logging)
    BY <1>1 DEF Top, Logging
  <1>5. versions.next \in Nat
    BY DEF IInv, FInv, Shapes
  <1>6. LogsSound'
    BY <1>1, <1>4, <1>5, Counted, LogsKept DEF IInv
  <1>7. DescriptorsSound' /\ HeldSound' /\ EditSound' /\ OutputsApart'
    BY PinnedStays, <1>1, <1>5, Counted, GLight DEF IInv, GInv, OutputsApart, Merging
  <1> QED BY <1>3, <1>6, <1>7 DEF GInv

\* A new log takes a number that no log has.
LEMMA LogBegun ==
    ASSUME LogsSound, NEW k, logs' = Put(logs, k, EmptyLog)
    PROVE  /\ DOMAIN logs' = {k} \cup DOMAIN logs
           /\ \A n \in DOMAIN logs' :
                 /\ logs'[n] = [records |-> logs'[n].records, synced |-> logs'[n].synced,
                                sound |-> logs'[n].sound]
                 /\ logs'[n].records \in Seq(SUBSET Seqs)
           /\ logs'[k].records = <<>> /\ Contents(logs'[k]) = {}
           /\ \A n \in DOMAIN logs \ {k} : logs'[n] = logs[n]
  <1>1. /\ DOMAIN logs' = {k} \cup DOMAIN logs /\ logs'[k] = EmptyLog
        /\ \A n \in DOMAIN logs \ {k} : logs'[n] = logs[n]
    BY DEF Put, Over, One
  <1>2. EmptyLog = [records |-> <<>>, synced |-> 0, sound |-> None]
    BY DEF EmptyLog
  <1>3. Contents(EmptyLog) = {}
    BY <1>2 DEF Contents, Range
  <1>4. logs'[k].records = <<>> /\ <<>> \in Seq(SUBSET Seqs)
    BY <1>1, <1>2
  <1>5. ASSUME NEW n \in DOMAIN logs'
        PROVE  /\ logs'[n] = [records |-> logs'[n].records, synced |-> logs'[n].synced,
                              sound |-> logs'[n].sound]
               /\ logs'[n].records \in Seq(SUBSET Seqs)
    <2>1. CASE n = k
      BY <1>1, <1>2, <1>4, <2>1
    <2>2. CASE n # k
      BY <1>1, <2>2 DEF LogsSound
    <2> QED BY <2>1, <2>2
  <1> QED BY <1>1, <1>3, <1>4, <1>5

LEMMA GStartGroup ==
    ASSUME IInv, GInv, NEW w \in Writers, StartGroup(w)
    PROVE  GInv'
  <1> USE DEF Opening
  <1>1. /\ UNCHANGED <<tables, manifests, current, phase, edit, merging, pinned, queue>>
        /\ SwitchMemTable /\ writer[w] = "front"
    BY DEF StartGroup
  <1>2. phase = "open"
    BY <1>1, FrontIsOpen
  <1>3. group = None
    <2>1. \A v \in Writers : writer[v] # "leading"
      BY <1>1, OnlyFirst DEF IInv, QInv
    <2> QED BY <2>1 DEF IInv, QInv, Grouped
  <1>4. group' # None /\ group'.size \in Nat
    <2>1. PICK n \in 1 .. Len(queue) : group' = [size |-> n, at |-> "append"]
      BY DEF StartGroup
    <2>2. n \in Nat
      BY Counted
    <2> QED BY <2>1, <2>2, NoneAssumption
  <1>5. /\ versions.next \in Nat
        /\ versions = [next |-> versions.next, last |-> versions.last, log |-> versions.log,
                       manifest |-> versions.manifest, tables |-> versions.tables]
    BY DEF IInv, FInv, Shapes
  <1>6. CASE HasRoom
    <2>1. UNCHANGED <<logs, logNumber, versions, mem, imm, bg>>
      BY <1>1, <1>6 DEF SwitchMemTable
    <2>2. Top' \in Nat /\ Top =< Top' /\ (Logging' <=> Logging)
      BY <1>1, <1>3, <1>4, <2>1, Counted DEF Top, Logging
    <2>3. LogsSound'
      BY <1>1, <1>2, <1>5, <2>1, <2>2, Counted, LogsKept DEF IInv
    <2>4. DescriptorsSound' /\ HeldSound' /\ EditSound' /\ OutputsApart'
      BY PinnedStays, <1>1, <1>2, <1>5, <2>1, Counted, GLight DEF IInv, GInv, OutputsApart, Merging
    <2>5. MemSound'
      BY <1>1, <2>1 DEF GInv, MemSound
    <2> QED BY <2>3, <2>4, <2>5 DEF GInv
  <1>7. CASE ~ HasRoom
    <2>1. /\ logNumber' = versions.next
          /\ logs' = Put(logs, versions.next, EmptyLog)
          /\ versions' = [versions EXCEPT !.next = @ + 1]
          /\ imm' = mem /\ mem' = {}
          /\ bg' = IF bg.at = "idle" THEN Scheduled ELSE bg
      BY <1>1, <1>7 DEF SwitchMemTable, NewFileNumber
    <2>2. versions' = [next |-> versions.next + 1, last |-> versions.last,
                       log |-> versions.log, manifest |-> versions.manifest,
                       tables |-> versions.tables]
      BY <1>5, <2>1
    <2>3. \A s \in mem : s \in Nat /\ s =< versions.last
      BY <1>2 DEF GInv, MemSound
    <2>4. MemSound'
      <3>1. versions.last \in 0 .. MaxSeq /\ versions.last + Len(queue) =< MaxSeq
        BY <1>2 DEF GInv, MemSound
      <3>2. versions'.last = versions.last /\ queue' = queue /\ phase' = "open"
        BY <1>1, <1>2, <2>2
      <3> QED BY <2>1, <2>3, <3>1, <3>2 DEF MemSound
    <2>5. bg' = bg \/ (bg.at = "idle" /\ bg'.at \in {"idle", "scheduled"})
      BY <2>1 DEF Scheduled
    <2>6. DescriptorsSound' /\ HeldSound' /\ EditSound' /\ OutputsApart'
      BY PinnedStays, <1>1, <1>2, <1>5, <2>1, <2>2, <2>3, <2>5, Counted, GLight DEF IInv
    <2>7. Top' \in Nat /\ Top =< Top' /\ (Logging' <=> Logging)
      BY <1>1, <1>3, <1>4, <2>2, <2>5, Counted DEF Top, Logging
    <2>8. /\ versions.log \in Nat /\ logNumber \in Nat
          /\ versions.log =< logNumber /\ logNumber < versions.next
          /\ Logging => versions.log =< edit.log /\ edit.log =< logNumber
          /\ Below(DOMAIN logs, versions.next)
      BY <1>2 DEF GInv, LogsSound
    <2>9. Logging => edit.log \in Nat
      BY DEF GInv, EditSound
    <2>10. \A n \in DOMAIN logs' : n >= versions.log \/ n >= Described.log =>
               \A s \in Contents(logs'[n]) : s =< Top'
      <3>1. \A n \in DOMAIN logs : Contents(logs[n]) \subseteq Nat
        BY DEF GInv, LogsSound, Contents, Range, Seqs
      <3>2. \A n \in DOMAIN logs : n >= versions.log \/ n >= Described.log =>
               \A s \in Contents(logs[n]) : s =< Top
        BY <1>2 DEF GInv, LogsSound
      <3>3. \A n \in DOMAIN logs : n >= versions.log \/ n >= Described.log =>
               \A s \in Contents(logs[n]) : s =< Top'
        BY <2>7, <3>1, <3>2, Counted
      <3> QED BY <2>1, <3>3, LogBegun DEF GInv
    <2>11. LogsSound'
      <3>1. /\ DOMAIN logs' = {versions.next} \cup DOMAIN logs
            /\ \A n \in DOMAIN logs' :
                  /\ logs'[n] = [records |-> logs'[n].records, synced |-> logs'[n].synced,
                                 sound |-> logs'[n].sound]
                  /\ logs'[n].records \in Seq(SUBSET Seqs)
        BY <2>1, LogBegun DEF GInv
      <3>2. Described' = Described
        BY <1>1 DEF Described
      <3>3. Below(DOMAIN logs', versions'.next)
        BY <1>5, <2>2, <2>8, <3>1 DEF Below
      <3> QED BY <1>1, <1>2, <1>5, <2>1, <2>2, <2>7, <2>8, <2>9, <2>10, <3>1, <3>2, <3>3
              DEF LogsSound
    <2> QED BY <2>4, <2>6, <2>11 DEF GInv
  <1> QED BY <1>6, <1>7

LEMMA OtherRecords ==
    ASSUME NEW log, NEW rs,
           log = [records |-> log.records, synced |-> log.synced, sound |-> log.sound]
    PROVE  [log EXCEPT !.records = rs] =
               [records |-> rs, synced |-> log.synced, sound |-> log.sound]
  OBVIOUS

\* A batch is added behind what is in the log, or nothing is.
LEMMA RecordsGrow ==
    ASSUME LogsSound, AddRecord \/ Sync
    PROVE  /\ DOMAIN logs' = DOMAIN logs
           /\ \A n \in DOMAIN logs :
                 /\ logs'[n] = [records |-> logs'[n].records, synced |-> logs'[n].synced,
                                sound |-> logs'[n].sound]
                 /\ logs'[n].records \in {logs[n].records, Append(logs[n].records, Batch)}
  <1>1. CASE AddRecord
    <2> DEFINE log   == logs[logNumber]
               added == [log EXCEPT !.records = Append(@, Batch)]
    <2>1. PICK l \in {added, Tear(log)} : logs' = [logs EXCEPT ![logNumber] = l]
      BY <1>1 DEF AddRecord
    <2>2. CASE logNumber \in DOMAIN logs
      <3>1. log = [records |-> log.records, synced |-> log.synced, sound |-> log.sound]
        BY <2>2 DEF LogsSound
      <3> HIDE DEF log
      <3>2. added = [records |-> Append(log.records, Batch), synced |-> log.synced,
                     sound |-> log.sound]
        BY <3>1, OtherRecords
      <3>3. Tear(log) = [records |-> log.records, synced |-> log.synced,
                         sound |-> Tear(log).sound]
        BY <3>1 DEF Tear
      <3>4. /\ l = [records |-> l.records, synced |-> l.synced, sound |-> l.sound]
            /\ l.records \in {log.records, Append(log.records, Batch)}
        BY <2>1, <3>2, <3>3
      <3>5. /\ DOMAIN logs' = DOMAIN logs /\ logs'[logNumber] = l
            /\ \A n \in DOMAIN logs \ {logNumber} : logs'[n] = logs[n]
        BY <2>1, <2>2
      <3> QED BY <3>4, <3>5 DEF LogsSound, log
    <2>3. CASE logNumber \notin DOMAIN logs
      <3>1. DOMAIN logs' = DOMAIN logs /\ \A n \in DOMAIN logs : logs'[n] = logs[n]
        BY <2>1, <2>3
      <3> QED BY <3>1 DEF LogsSound
    <2> QED BY <2>2, <2>3
  <1>2. CASE Sync
    <2>1. \/ logs' = logs
          \/ logs' = [logs EXCEPT ![logNumber].synced = Len(logs[logNumber].records)]
      BY <1>2 DEF Sync
    <2>2. DOMAIN logs' = DOMAIN logs
      BY <2>1
    <2>3. ASSUME NEW n \in DOMAIN logs
          PROVE  /\ logs'[n] = [records |-> logs[n].records, synced |-> logs'[n].synced,
                                sound |-> logs[n].sound]
      <3>1. logs[n] = [records |-> logs[n].records, synced |-> logs[n].synced,
                       sound |-> logs[n].sound]
        BY DEF LogsSound
      <3>2. CASE logs' = logs
        BY <3>1, <3>2
      <3>3. CASE logs' = [logs EXCEPT ![logNumber].synced = Len(logs[logNumber].records)]
        <4>1. logs'[n] = IF n = logNumber
                         THEN [logs[n] EXCEPT !.synced = Len(logs[logNumber].records)]
                         ELSE logs[n]
          BY <3>3
        <4> DEFINE log == logs[n]
        <4>2. log = [records |-> log.records, synced |-> log.synced, sound |-> log.sound]
          BY <3>1
        <4> HIDE DEF log
        <4>3. [log EXCEPT !.synced = Len(logs[logNumber].records)] =
                  [records |-> log.records, synced |-> Len(logs[logNumber].records),
                   sound |-> log.sound]
          BY <4>2
        <4> QED BY <3>1, <4>1, <4>3 DEF log
      <3> QED BY <2>1, <3>2, <3>3
    <2> QED BY <2>2, <2>3
  <1> QED BY <1>1, <1>2

LEMMA UnionGrows ==
    ASSUME NEW R, NEW Q, NEW b, R \subseteq Q \cup {b}
    PROVE  UNION R \subseteq (UNION Q) \cup b
  OBVIOUS

LEMMA ContentsGrow ==
    ASSUME NEW S, NEW old, NEW new, NEW b \in SUBSET S, old.records \in Seq(SUBSET S),
           new.records \in {old.records, Append(old.records, b)}
    PROVE  /\ new.records \in Seq(SUBSET S)
           /\ Contents(new) \subseteq Contents(old) \cup b
  <1> DEFINE o == old.records
             n == new.records
  <1>1. o \in Seq(SUBSET S) /\ n \in {o, Append(o, b)}
    OBVIOUS
  <1>2. Contents(old) = UNION Range(o) /\ Contents(new) = UNION Range(n)
    BY DEF Contents
  <1> HIDE DEF o, n
  <1>3. n \in Seq(SUBSET S)
    BY <1>1
  <1>4. Range(n) \subseteq Range(o) \cup {b}
    <2>1. CASE n = o
      BY <2>1
    <2>2. CASE n = Append(o, b)
      <3>1. /\ DOMAIN n = 1 .. Len(o) + 1 /\ DOMAIN o = 1 .. Len(o)
            /\ Len(o) \in Nat
            /\ \A i \in 1 .. Len(o) : n[i] = o[i]
            /\ n[Len(o) + 1] = b
        BY <1>1, <2>2
      <3> QED BY <3>1 DEF Range
    <2> QED BY <1>1, <2>1, <2>2
  <1>5. UNION Range(n) \subseteq (UNION Range(o)) \cup b
    BY <1>4, UnionGrows
  <1> QED BY <1>2, <1>3, <1>5 DEF n

LEMMA GGroup ==
    ASSUME IInv, GInv, GroupStep
    PROVE  GInv'
  <1>1. /\ group # None /\ phase = "open" /\ versions.next \in Nat
        /\ versions = [next |-> versions.next, last |-> versions.last, log |-> versions.log,
                       manifest |-> versions.manifest, tables |-> versions.tables]
    BY Counted DEF GroupStep, AddRecord, Sync, FinishGroup, IInv, FInv, Shapes
  <1>2. CASE AddRecord \/ Sync
    <2>1. /\ UNCHANGED <<tables, manifests, current, phase, versions, edit, mem, imm,
                         logNumber, bg, merging, queue, pinned>>
          /\ \E a \in {"sync", "insert", "failed", "unsynced"} :
                group' = [group EXCEPT !.at = a]
      BY <1>2 DEF AddRecord, Sync
    <2>2. group' # None /\ group'.size = group.size
      <3>1. group \in Groups
        BY <1>1, Counted
      <3>2. group' \in Groups /\ group'.size = group.size
        BY <2>1, <3>1 DEF Groups
      <3> QED BY <3>2, NoneAssumption DEF Groups
    <2>3. Top' = Top /\ Top = versions.last + group.size
      BY <1>1, <2>1, <2>2 DEF Top
    <2>4. Batch \in SUBSET Seqs /\ \A s \in Batch : s =< Top
      BY <1>1, <2>3, Counted DEF Batch, Seqs
    <2>5. DescriptorsSound' /\ HeldSound' /\ EditSound' /\ OutputsApart'
      BY PinnedStays, <1>1, <2>1, Counted, GLight DEF IInv, GInv, OutputsApart, Merging
    <2>6. MemSound'
      BY <2>1 DEF GInv, MemSound
    <2>7. ASSUME NEW n \in DOMAIN logs
          PROVE  /\ logs'[n].records \in Seq(SUBSET Seqs)
                 /\ Contents(logs'[n]) \subseteq Contents(logs[n]) \cup Batch
      <3>1. /\ logs[n].records \in Seq(SUBSET Seqs)
            /\ logs'[n].records \in {logs[n].records, Append(logs[n].records, Batch)}
        BY <1>2, RecordsGrow DEF GInv, LogsSound
      <3> QED BY <2>4, <3>1, ContentsGrow
    <2>8. Described' = Described /\ Manifest' = Manifest /\ (Logging' <=> Logging)
      BY <2>1 DEF Described, Manifest, Logging
    <2>9. LogsSound'
      BY <1>1, <1>2, <2>1, <2>3, <2>4, <2>7, <2>8, RecordsGrow DEF GInv, LogsSound, Opening
    <2> QED BY <2>5, <2>6, <2>9 DEF GInv
  <1>3. CASE FinishGroup
    <2>1. /\ UNCHANGED <<logs, tables, manifests, current, phase, edit, imm, logNumber, bg,
                         merging, pinned>>
          /\ mem' = mem \/ mem' = mem \cup Batch
          /\ versions' = [versions EXCEPT !.last = @ + group.size]
          /\ PopFront(group.size) /\ group' = None
      BY <1>3 DEF FinishGroup, disk
    <2>2. versions' = [next |-> versions.next, last |-> versions.last + group.size,
                       log |-> versions.log, manifest |-> versions.manifest,
                       tables |-> versions.tables]
      BY <1>1, <2>1
    <2>3. Len(queue') \in Nat /\ Len(queue') = Len(queue) - group.size
      <3>1. /\ queue \in Seq(Writers) /\ group.size \in Nat /\ Len(queue) \in Nat
            /\ group.size =< Len(queue)
            /\ queue' = SubSeq(queue, group.size + 1, Len(queue))
        BY <1>1, <2>1, Counted DEF PopFront, IInv, QInv, InLine
      <3>2. Len(queue') = Len(queue) - group.size
        BY <3>1, RestLength
      <3> QED BY <3>1, <3>2
    <2>4. MemSound'
      <3>1. /\ versions.last + Len(queue) =< MaxSeq
            /\ \A s \in mem : s \in Nat /\ s =< versions.last
            /\ imm # None => \A s \in imm : s \in Nat /\ s =< versions.last
        BY <1>1 DEF GInv, MemSound
      <3>2. \A s \in Batch : s \in Nat /\ s =< versions'.last
        BY <1>1, <2>2, Counted DEF Batch
      <3>3. versions'.last \in 0 .. MaxSeq /\ versions'.last + Len(queue') =< MaxSeq
        BY <1>1, <2>2, <2>3, <3>1, Counted
      <3>4. \A s \in Nat : s =< versions.last => s =< versions'.last
        BY <1>1, <2>2, Counted
      <3>5. phase' = "open"
        BY <1>1, <2>1
      <3> QED BY <2>1, <3>1, <3>2, <3>3, <3>4, <3>5 DEF MemSound
    <2>5. DescriptorsSound' /\ HeldSound' /\ EditSound' /\ OutputsApart'
      <3>1. bg.at = "build" => \A s \in imm' : s \in Nat /\ s =< versions'.last
        BY <1>1, <2>1, <2>2, Counted DEF GInv, OutputsApart, Merging
      <3>2. versions'.last \in Nat /\ versions.last =< versions'.last
        BY <1>1, <2>2, Counted
      <3> QED BY PinnedStays, <1>1, <2>1, <2>2, <3>1, <3>2, GLight DEF IInv
    <2>6. Top' = Top /\ (Logging' <=> Logging)
      BY <1>1, <2>1, <2>2, Counted DEF Top, Logging
    <2>7. LogsSound'
      BY <1>1, <2>1, <2>2, <2>6, Counted, LogsKept DEF IInv
    <2> QED BY <2>4, <2>5, <2>7 DEF GInv
  <1> QED BY <1>2, <1>3 DEF GroupStep


-----------------------------------------------------------------------------
(* Opening.                                                                 *)

\* Before the descriptor is read nothing is left to hold but what it promises.
LEMMA GClosed ==
    ASSUME phase' \in {"down", "created"}, bg'.at = "idle", merging' = None, pinned' = {},
           mem' = {}, imm' = None, versions'.last \in 0 .. MaxSeq,
           current' # 0 => SoundManifest(current)',
           \A n \in DOMAIN logs' :
              /\ logs'[n] = [records |-> logs'[n].records, synced |-> logs'[n].synced,
                             sound |-> logs'[n].sound]
              /\ logs'[n].records \in Seq(SUBSET Seqs)
    PROVE  GInv'
  <1> USE DEF Opening
  <1>1. ~ Logging'
    BY DEF Logging
  <1>2. DescriptorsSound' /\ HeldSound' /\ OutputsApart'
    BY DEF DescriptorsSound, HeldSound, OutputsApart, Merging
  <1>3. EditSound' /\ LogsSound'
    BY <1>1 DEF EditSound, LogsSound
  <1>4. MemSound'
    BY BoundsAssumption DEF MemSound
  <1> QED BY <1>2, <1>3, <1>4 DEF GInv

LEMMA GInit == Init => GInv
  <1> SUFFICES ASSUME Init PROVE GInv
    OBVIOUS
  <1> USE DEF Init, NoVersions, NoWork, Opening
  <1>1. ~ Logging
    BY DEF Logging
  <1>2. DescriptorsSound /\ HeldSound /\ OutputsApart
    BY DEF DescriptorsSound, HeldSound, OutputsApart, Merging
  <1>3. EditSound /\ LogsSound
    BY <1>1 DEF EditSound, LogsSound
  <1>4. MemSound
    BY BoundsAssumption DEF MemSound
  <1> QED BY <1>2, <1>3, <1>4 DEF GInv

LEMMA GNewDB ==
    ASSUME IInv, GInv, NewDB
    PROVE  GInv'
  <1>1. /\ phase = "down" /\ phase' = "created" /\ current' = 1
        /\ manifests' = One(1, Descriptor(NewState))
        /\ UNCHANGED <<logs, tables, versions, mem, imm, bg, merging, pinned>>
    BY DEF NewDB
  <1>2. /\ manifests'[1] = [written |-> NewState, durable |-> NeverSynced, tail |-> FALSE,
                            broken |-> FALSE]
        /\ NewState = [tables |-> <<>>, log |-> 0, next |-> 2, last |-> 0]
    BY <1>1 DEF One, Descriptor, NewState
  <1>3. Sound(NewState)'
    BY <1>2, BoundsAssumption DEF Sound, Below, Upto
  <1>4. SoundManifest(current)'
    BY <1>1, <1>2, <1>3 DEF SoundManifest
  <1>5. bg.at = "idle" /\ merging = None /\ pinned = {} /\ mem = {} /\ imm = None
    BY <1>1 DEF IInv, FInv, Shapes, GInv, HeldSound, MemSound
  <1>6. versions.last \in 0 .. MaxSeq
    BY DEF GInv, MemSound
  <1> QED BY <1>1, <1>4, <1>5, <1>6, GClosed DEF GInv, LogsSound

\* Open gives up: the descriptors are what they were, or the new one is gone.
LEMMA GOpenFails ==
    ASSUME IInv, GInv, phase \in Opening, OpenFails, UNCHANGED <<logs, tables, current>>,
           manifests' \in {manifests, Without(manifests, {versions.manifest})},
           manifests' # manifests => phase = "described"
    PROVE  GInv'
  <1>1. /\ phase' = "down" /\ versions' = NoVersions
        /\ UNCHANGED <<mem, imm, bg, merging, pinned>>
    BY DEF OpenFails
  <1>2. current \in DOMAIN manifests' /\ manifests'[current] = manifests[current]
    BY DEF Without, IInv, FInv, CurrentIsKnown, Opening
  <1>3. bg.at = "idle" /\ merging = None /\ pinned = {} /\ mem = {} /\ imm = None
    BY DEF IInv, FInv, Shapes, GInv, HeldSound, MemSound, Opening
  <1>4. current' # 0 => SoundManifest(current)'
    BY <1>2 DEF GInv, DescriptorsSound, SoundManifest, Sound, Below, Upto
  <1>5. versions'.last \in 0 .. MaxSeq
    BY <1>1, BoundsAssumption DEF NoVersions
  <1> QED BY <1>1, <1>3, <1>4, <1>5, GClosed DEF GInv, LogsSound

\* What is promised is what the descriptor's two states say.
LEMMA PromisedSound ==
    ASSUME GInv, current # 0
    PROVE  /\ Sound(Described)
           /\ Below(Promised, Described.next) /\ Upto(Promised, Described.last)
  <1>1. SoundManifest(current)
    BY DEF GInv, DescriptorsSound
  <1> QED BY <1>1 DEF SoundManifest, Sound, Promised, Described, Below, Upto

LEMMA GRecover ==
    ASSUME IInv, GInv, Recover
    PROVE  GInv'
  <1> USE DEF Opening
  <1>1. /\ phase \in {"down", "created"} /\ phase' = "replaying"
        /\ versions' = [next |-> Described.next + 1, last |-> Described.last,
                        log |-> Described.log, manifest |-> Described.next,
                        tables |-> Described.tables]
        /\ edit' = [kind |-> "open", add |-> <<>>, del |-> {}, left |-> LiveLogs(Described)]
        /\ UNCHANGED <<logs, tables, manifests, current, mem, imm, bg, merging, pinned>>
    BY DEF Recover, disk
  <1>2. current # 0
    BY DEF Recover, IInv, FInv, CurrentIsKnown
  <1>3. /\ Sound(Described)
        /\ Below(Promised, Described.next) /\ Upto(Promised, Described.last)
    BY <1>2, PromisedSound
  <1>4. /\ Described.log \in Nat /\ Described.next \in Nat /\ Described.log < Described.next
        /\ Described.last \in 0 .. MaxSeq
    BY <1>3 DEF Sound
  <1>5. bg.at = "idle" /\ merging = None /\ pinned = {} /\ mem = {} /\ imm = None
    BY <1>1 DEF IInv, FInv, Shapes, GInv, HeldSound, MemSound
  <1>6. Promised' = Promised /\ Held' = Promised
    <2>1. Promised' = Promised
      BY <1>1 DEF Promised, Described
    <2>2. DOMAIN Described.tables \subseteq Promised
      BY <1>2 DEF Promised
    <2> QED BY PinnedStays, PinnedNone, <1>1, <1>5, <2>1, <2>2 DEF Held, Merging
  <1>7. DescriptorsSound'
    BY <1>1 DEF GInv, DescriptorsSound, SoundManifest, Sound, Below, Upto
  <1>8. HeldSound'
    BY <1>1, <1>3, <1>4, <1>5, <1>6 DEF HeldSound, Below, Upto
  <1>9. ~ Logging'
    BY <1>1, <1>5 DEF Logging
  <1>10. EditSound' /\ OutputsApart' /\ MemSound'
    BY <1>1, <1>4, <1>5, <1>9 DEF EditSound, OutputsApart, Merging, MemSound, Below, Upto
  <1>11. LogsSound'
    <2>1. \A n \in DOMAIN logs : n \in Nat /\ (n \notin LiveLogs(Described) => n < Described.log)
      BY <1>4 DEF IInv, FInv, Shapes, LiveLogs
    <2>2. \A n \in DOMAIN logs' \ edit'.left : n < versions'.next
      BY <1>1, <1>4, <2>1
    <2> QED BY <1>1, <1>4, <2>2 DEF GInv, LogsSound
  <1> QED BY <1>7, <1>8, <1>10, <1>11 DEF GInv

\* The highest number in a log, and the one of before.
LEMMA HighestBounds ==
    ASSUME NEW S \in SUBSET Seqs, NEW n \in 0 .. MaxSeq
    PROVE  /\ Highest(S, n) \in 0 .. MaxSeq
           /\ n =< Highest(S, n) /\ \A s \in S : s =< Highest(S, n)
  <1> DEFINE T == {MaxSeq - s : s \in S \cup {n}}
             R == OpToRel(<, Nat)
  <1>1. MaxSeq \in Nat /\ S \cup {n} \subseteq 0 .. MaxSeq
    BY BoundsAssumption DEF Seqs
  <1>2. T \subseteq Nat /\ T # {}
    BY <1>1
  <1>3. IsWellFoundedOn(R, Nat)
    BY NatLessThanWellFounded
  <1> HIDE DEF R
  <1>4. PICK t \in T : \A y \in T : ~ (<<y, t>> \in R)
    BY <1>2, <1>3, WFMin
  <1>5. \A y \in T : t =< y
    <2> SUFFICES ASSUME NEW y \in T PROVE t =< y
      OBVIOUS
    <2> HIDE DEF T
    <2>1. y \in Nat /\ t \in Nat
      BY <1>2
    <2>2. y < t => <<y, t>> \in R
      BY <2>1 DEF R, OpToRel
    <2>3. ~ (y < t)
      BY <1>4, <2>2
    <2> QED BY <2>1, <2>3
  <1>6. PICK s \in S \cup {n} : t = MaxSeq - s
    BY <1>4
  <1>7. \A y \in S \cup {n} : y =< s
    <2> SUFFICES ASSUME NEW y \in S \cup {n} PROVE y =< s
      OBVIOUS
    <2>1. MaxSeq - y \in T
      OBVIOUS
    <2>2. MaxSeq - s =< MaxSeq - y
      BY <1>5, <1>6, <2>1
    <2>3. y \in 0 .. MaxSeq /\ s \in 0 .. MaxSeq
      BY <1>1
    <2> QED BY <1>1, <2>2, <2>3
  <1>8. /\ Highest(S, n) \in S \cup {n}
        /\ \A y \in S \cup {n} : y =< Highest(S, n)
    BY <1>7 DEF Highest
  <1> QED BY <1>1, <1>8

LEMMA GRecoverLogFile ==
    ASSUME IInv, GInv, NEW n \in DOMAIN logs, RecoverLogFile(n)
    PROVE  GInv'
  <1> USE DEF Opening
  <1> DEFINE found == Contents(logs[n])
             next  == IF found = {} THEN versions.next ELSE versions.next + 1
             add   == IF found = {} THEN <<>> ELSE One(versions.next, 0)
  <1>1. CASE OpenFails /\ UNCHANGED disk
    BY <1>1, GOpenFails DEF RecoverLogFile, disk
  <1>2. CASE /\ tables' = Over([t \in DOMAIN add |-> found], tables)
             /\ edit' = [kind |-> "open", add |-> Over(add, edit.add), del |-> {},
                         left |-> edit.left \ {n}]
             /\ versions' = [versions EXCEPT !.next = MarkFileNumberUsed(next, n),
                                             !.last = Highest(found, @)]
             /\ UNCHANGED <<logs, manifests, current, phase, mem, imm, bg, merging, pinned>>
    <2>1. phase = "replaying" /\ phase' = "replaying"
      BY <1>2 DEF RecoverLogFile
    <2>2. /\ versions.next \in Nat /\ n \in Nat
          /\ next \in Nat /\ versions.next =< next
          /\ found # {} => versions.next < next
      BY DEF IInv, FInv, Shapes
    <2>3. found \subseteq Seqs /\ versions.last \in 0 .. MaxSeq
      BY DEF GInv, LogsSound, MemSound, Contents, Range
    <2>4. /\ DOMAIN add = IF found = {} THEN {} ELSE {versions.next}
          /\ DOMAIN add \subseteq {versions.next}
      BY DEF One
    <2>5. /\ Highest(found, versions.last) \in 0 .. MaxSeq
          /\ versions.last =< Highest(found, versions.last)
          /\ \A s \in found : s =< Highest(found, versions.last)
      BY <2>3, HighestBounds
    <2> HIDE DEF found, next, add
    <2>6. /\ versions' = [next |-> MarkFileNumberUsed(next, n),
                          last |-> Highest(found, versions.last),
                          log |-> versions.log, manifest |-> versions.manifest,
                          tables |-> versions.tables]
      BY <1>2 DEF IInv, FInv, Shapes
    <2>7. /\ versions'.next \in Nat /\ versions.next =< versions'.next /\ n < versions'.next
          /\ found # {} => versions.next < versions'.next
          /\ versions'.last \in 0 .. MaxSeq /\ versions.last =< versions'.last
      BY <2>2, <2>5, <2>6 DEF MarkFileNumberUsed
    <2>8. /\ \A t \in DOMAIN tables : t # versions.next => tables'[t] = tables[t]
          /\ found # {} => tables'[versions.next] = found
      BY <1>2, <2>4 DEF Over
    <2>9. Promised' = Promised /\ Held' = Held
      BY PinnedStays, <1>2, <2>6 DEF Promised, Held, Merging, Described
    <2>10. \A t \in Held : t \in DOMAIN tables /\ t # versions.next /\ tables'[t] = tables[t]
      <3>1. Held \subseteq DOMAIN tables
        BY <2>1, <2>9 DEF IInv, FInv, Shapes, Held, Merging, Promised, ReferencedExist,
                          DescribedExist
      <3>2. \A t \in Held : t # versions.next
        BY <2>1, <2>2 DEF GInv, HeldSound, Below
      <3> QED BY <2>8, <3>1, <3>2
    <2>11. /\ Below(Held, versions.next) /\ Upto(Held, versions.last)
           /\ Below(DOMAIN edit.add, versions.next)
           /\ Upto(DOMAIN edit.add, versions.last)
           /\ DOMAIN edit.add \subseteq DOMAIN tables
           /\ pinned = {}
      BY <2>1 DEF GInv, HeldSound, EditSound, IInv, FInv, EditIsReady
    <2>12. DescriptorsSound'
      <3>1. current # 0 => SoundManifest(current)
        BY DEF GInv, DescriptorsSound
      <3>2. current # 0 => SoundManifest(current)'
        <4> SUFFICES ASSUME current # 0 PROVE SoundManifest(current)'
          OBVIOUS
        <4>1. /\ DOMAIN manifests[current].written.tables \subseteq Held
              /\ manifests[current].durable # NeverSynced =>
                     DOMAIN manifests[current].durable.tables \subseteq Held
          BY DEF Held, Merging, Promised, Described
        <4> QED BY <1>2, <2>10, <3>1, <4>1 DEF SoundManifest, Sound, Below, Upto
      <3> QED BY <1>2, <2>1, <3>2 DEF DescriptorsSound
    <2>13. HeldSound'
      <3>1. Below(Held, versions'.next)
        BY <2>2, <2>7, <2>11 DEF Below
      <3>2. \A t \in Held : \A s \in tables'[t] : s \in Nat /\ s =< versions'.last
        BY <2>3, <2>7, <2>10, <2>11 DEF Upto
      <3> QED BY <1>2, <2>9, <2>11, <3>1, <3>2 DEF HeldSound, Below, Upto
    <2>14. ~ Logging' /\ merging' = None /\ bg'.at = "idle"
      BY <1>2, <2>1 DEF Logging, IInv, FInv, Shapes
    <2>15. EditSound'
      <3>1. DOMAIN edit'.add = DOMAIN add \cup DOMAIN edit.add
        BY <1>2 DEF Over
      <3>2. \A t \in DOMAIN edit.add :
                t \in DOMAIN tables /\ t # versions.next /\ tables'[t] = tables[t]
        BY <2>2, <2>8, <2>11 DEF Below
      <3>3. \A t \in DOMAIN edit'.add : t \in Nat /\ t < versions'.next
        BY <2>2, <2>4, <2>7, <2>11, <3>1 DEF Below
      <3>4. \A t \in DOMAIN edit.add : \A s \in tables'[t] : s \in Nat /\ s =< versions'.last
        BY <2>3, <2>7, <2>11, <3>2 DEF Upto
      <3>5. \A t \in DOMAIN add : \A s \in tables'[t] : s \in Nat /\ s =< versions'.last
        <4> SUFFICES ASSUME NEW t \in DOMAIN add, NEW s \in tables'[t]
                     PROVE  s \in Nat /\ s =< versions'.last
          OBVIOUS
        <4>1. tables'[t] = found
          BY <2>4, <2>8
        <4>2. s \in Seqs /\ s =< Highest(found, versions.last)
          BY <2>3, <2>5, <4>1
        <4> QED BY <2>6, <4>2 DEF Seqs
      <3> QED BY <2>1, <2>14, <3>1, <3>3, <3>4, <3>5 DEF EditSound, Below, Upto
    <2>16. OutputsApart' /\ MemSound'
      BY <1>2, <2>1, <2>7, <2>14 DEF GInv, OutputsApart, Merging, MemSound
    <2>17. LogsSound'
      <3>1. edit'.left = edit.left \ {n}
        BY <1>2
      <3>2. \A m \in DOMAIN logs \ edit.left : m \in Nat /\ m < versions.next
        BY <2>1 DEF GInv, LogsSound, IInv, FInv, Shapes
      <3>3. \A m \in DOMAIN logs \ edit'.left : m < versions'.next
        BY <2>2, <2>7, <3>1, <3>2
      <3>4. versions'.log \in Nat /\ versions'.log < versions'.next
        BY <2>1, <2>2, <2>6, <2>7 DEF GInv, LogsSound
      <3> QED BY <1>2, <2>1, <3>3, <3>4 DEF GInv, LogsSound
    <2> QED BY <2>12, <2>13, <2>15, <2>16, <2>17 DEF GInv
  <1> QED BY <1>1, <1>2 DEF RecoverLogFile

LEMMA GNewLog ==
    ASSUME IInv, GInv, NewLog
    PROVE  GInv'
  <1> USE DEF Opening
  <1>1. CASE OpenFails /\ UNCHANGED disk
    BY <1>1, GOpenFails DEF NewLog, disk
  <1>2. CASE ~ (OpenFails /\ UNCHANGED disk)
    <2>1. /\ phase = "replaying" /\ edit.left = {} /\ phase' = "recovered"
          /\ logs' = Put(logs, versions.next, EmptyLog)
          /\ logNumber' = versions.next
          /\ versions' = [versions EXCEPT !.next = @ + 1]
          /\ edit' = [kind |-> "open", add |-> edit.add, del |-> {}, log |-> versions.next,
                      next |-> versions.next + 1, last |-> versions.last]
          /\ UNCHANGED <<tables, manifests, current, mem, imm, bg, merging, pinned>>
      BY <1>2 DEF NewLog, NewFileNumber
    <2>2. /\ versions' = [next |-> versions.next + 1, last |-> versions.last,
                          log |-> versions.log, manifest |-> versions.manifest,
                          tables |-> versions.tables]
          /\ versions.next \in Nat
      BY <2>1 DEF IInv, FInv, Shapes
    <2>3. bg.at = "idle" /\ merging = None /\ pinned = {} /\ versions.last \in 0 .. MaxSeq
      BY <2>1 DEF IInv, FInv, Shapes, GInv, HeldSound, MemSound
    <2>4. Promised' = Promised /\ Held' = Held
      BY PinnedStays, <2>1, <2>2 DEF Promised, Held, Merging, Described
    <2>5. /\ Below(Held, versions.next) /\ Upto(Held, versions.last)
          /\ Below(DOMAIN edit.add, versions.next)
          /\ Upto(DOMAIN edit.add, versions.last)
      BY <2>1 DEF GInv, HeldSound, EditSound
    <2>6. DescriptorsSound'
      BY <2>1 DEF GInv, DescriptorsSound, SoundManifest, Sound, Below, Upto
    <2>7. HeldSound'
      BY <2>1, <2>2, <2>3, <2>4, <2>5 DEF HeldSound, Below, Upto
    <2>8. EditSound'
      <3>1. DOMAIN versions.tables \cup Promised \subseteq Held
        BY DEF Held, Merging
      <3>2. Below(DOMAIN edit.add \cup DOMAIN versions.tables \cup Promised, versions.next + 1)
        BY <2>2, <2>5, <3>1 DEF Below
      <3>3. Upto(DOMAIN edit.add \cup DOMAIN versions.tables \cup Promised, versions.last)'
        BY <2>1, <2>2, <2>4, <2>5, <3>1 DEF Upto
      <3>4. Below(DOMAIN edit'.add, versions'.next)
        BY <2>1, <2>2, <3>2 DEF Below
      <3>5. Upto(DOMAIN edit.add, versions.last)'
        BY <3>3 DEF Upto
      <3>6. /\ edit'.next = versions.next + 1 /\ edit'.log = versions.next
            /\ edit'.last = versions.last /\ edit'.add = edit.add
        BY <2>1
      <3> QED BY <2>1, <2>2, <2>3, <2>4, <3>2, <3>3, <3>4, <3>5, <3>6 DEF EditSound, Below, Upto
    <2>9. OutputsApart' /\ MemSound'
      BY <2>1, <2>2, <2>3 DEF GInv, OutputsApart, Merging, MemSound
    <2>10. LogsSound'
      <3>1. /\ DOMAIN logs' = {versions.next} \cup DOMAIN logs
            /\ \A n \in DOMAIN logs' :
                  /\ logs'[n] = [records |-> logs'[n].records, synced |-> logs'[n].synced,
                                 sound |-> logs'[n].sound]
                  /\ logs'[n].records \in Seq(SUBSET Seqs)
            /\ logs'[versions.next].records = <<>>
        BY <2>1, LogBegun DEF GInv
      <3>2. \A n \in DOMAIN logs : n \in Nat /\ n < versions.next
        BY <2>1 DEF GInv, LogsSound, IInv, FInv, Shapes
      <3>3. Below(DOMAIN logs', versions'.next)
        BY <2>2, <3>1, <3>2 DEF Below
      <3>4. versions.log \in Nat /\ versions.log < versions.next
        BY <2>1 DEF GInv, LogsSound
      <3> QED BY <2>1, <2>2, <3>1, <3>3, <3>4 DEF LogsSound
    <2> QED BY <2>6, <2>7, <2>8, <2>9, <2>10 DEF GInv
  <1> QED BY <1>1, <1>2

LEMMA GWriteDescriptor ==
    ASSUME IInv, GInv, WriteDescriptor
    PROVE  GInv'
  <1> USE DEF Opening
  <1> DEFINE base  == [tables |-> versions.tables, log |-> versions.log,
                       next |-> versions.next, last |-> versions.last]
             state == Apply(base, edit)
  <1>1. CASE OpenFails /\ UNCHANGED disk
    BY <1>1, GOpenFails DEF WriteDescriptor, disk
  <1>2. CASE ~ (OpenFails /\ UNCHANGED disk)
    <2>1. /\ phase = "recovered" /\ phase' = "described"
          /\ manifests' = Put(manifests, versions.manifest,
                              [Descriptor(state) EXCEPT !.durable = state])
          /\ UNCHANGED <<logs, tables, current, versions, edit, mem, imm, logNumber, bg,
                         merging, pinned>>
      BY <1>2 DEF WriteDescriptor
    <2>2. edit.del = {} /\ current # versions.manifest /\ bg.at = "idle" /\ merging = None
      BY <2>1 DEF IInv, FInv, Shapes, CurrentIsKnown, EditIsReady
    <2>3. /\ DOMAIN state.tables = DOMAIN edit.add \cup DOMAIN versions.tables
          /\ state.next = edit.next /\ state.log = edit.log /\ state.last = edit.last
      BY <2>2 DEF Apply, Over, Without
    <2> HIDE DEF state
    <2>4. /\ manifests'[versions.manifest] =
                 [written |-> state, durable |-> state, tail |-> FALSE, broken |-> FALSE]
          /\ current # 0 => manifests'[current] = manifests[current]
      BY <2>1, <2>2 DEF Put, Over, One, Descriptor, IInv, FInv, CurrentIsKnown
    <2>5. /\ edit.next \in Nat /\ edit.log \in Nat /\ edit.log < edit.next
          /\ edit.last \in 0 .. MaxSeq
          /\ Below(DOMAIN edit.add \cup DOMAIN versions.tables \cup Promised, edit.next)
          /\ Upto(DOMAIN edit.add \cup DOMAIN versions.tables \cup Promised, edit.last)
      BY <2>1 DEF GInv, EditSound, Logging
    <2>6. Promised' = Promised /\ Held' = Held
      BY PinnedStays, <2>1, <2>4 DEF Promised, Held, Merging, Described
    <2>7. Sound(state)
      BY <2>3, <2>5 DEF Sound, Below, Upto
    <2>8. SoundManifest(versions.manifest)'
      BY <2>1, <2>4, <2>7 DEF SoundManifest, Sound, Below, Upto
    <2>9. current # 0 => SoundManifest(current)'
      BY <2>1, <2>4 DEF GInv, DescriptorsSound, SoundManifest, Sound, Below, Upto
    <2>10. DescriptorsSound'
      BY <2>1, <2>8, <2>9 DEF DescriptorsSound
    <2>11. HeldSound'
      BY <2>1, <2>6 DEF GInv, HeldSound, Below, Upto
    <2>12. Logging /\ Logging'
      BY <2>1 DEF Logging
    <2>13. EditSound'
      BY <2>1, <2>6, <2>12 DEF GInv, EditSound, Below, Upto
    <2>14. OutputsApart' /\ MemSound'
      BY <2>1, <2>2 DEF GInv, OutputsApart, Merging, MemSound
    <2>15. LogsSound'
      <3>1. Manifest'.written.log = logNumber'
        BY <2>1, <2>3, <2>4 DEF GInv, LogsSound, Manifest
      <3> QED BY <2>1, <3>1 DEF GInv, LogsSound, Below
    <2> QED BY <2>10, <2>11, <2>13, <2>14, <2>15 DEF GInv
  <1> QED BY <1>1, <1>2

LEMMA GSetCurrentFile ==
    ASSUME IInv, GInv, SetCurrentFile
    PROVE  GInv'
  <1> USE DEF Opening
  <1>1. CASE /\ OpenFails
             /\ manifests' = Without(manifests, {versions.manifest})
             /\ UNCHANGED <<logs, tables, current>>
    BY <1>1, GOpenFails DEF SetCurrentFile
  <1>2. CASE /\ phase = "described" /\ phase' = "renamed"
             /\ current' = versions.manifest
             /\ UNCHANGED <<logs, tables, manifests, versions, edit, mem, imm, logNumber, bg,
                            merging, pinned>>
    <2>1. /\ versions.manifest # 0 /\ bg.at = "idle" /\ merging = None /\ pinned = {}
          /\ DOMAIN Manifest.written.tables = DOMAIN edit.add \cup DOMAIN versions.tables
          /\ Manifest.durable = Manifest.written
      BY <1>2 DEF IInv, FInv, Shapes, CurrentIsKnown, DescriptorAgrees, GInv, HeldSound
    <2>2. Described' = Manifest.written /\ manifests'[current'].durable = Manifest.written
      BY <1>2, <2>1 DEF Described, Manifest
    <2>3. /\ Promised' = DOMAIN edit.add \cup DOMAIN versions.tables
          /\ Held' = DOMAIN edit.add \cup DOMAIN versions.tables
      <3>1. Promised' = DOMAIN edit.add \cup DOMAIN versions.tables
        BY <1>2, <2>1, <2>2 DEF Promised
      <3> QED BY PinnedStays, PinnedNone, <1>2, <2>1, <3>1 DEF Held, Merging
    <2>4. DescriptorsSound'
      BY <1>2 DEF GInv, DescriptorsSound, SoundManifest, Sound, Below, Upto
    <2>5. HeldSound'
      <3>1. DOMAIN versions.tables \subseteq Held
        BY DEF Held, Merging
      <3> QED BY <1>2, <2>1, <2>3, <3>1 DEF GInv, HeldSound, EditSound, Below, Upto
    <2>6. Logging /\ Logging'
      BY <1>2 DEF Logging
    <2>7. EditSound'
      BY <1>2, <2>3, <2>6 DEF GInv, EditSound, Below, Upto
    <2>8. OutputsApart' /\ MemSound'
      BY <1>2, <2>1 DEF GInv, OutputsApart, Merging, MemSound
    <2>9. LogsSound'
      <3>1. Described'.log = logNumber'
        BY <1>2, <2>2 DEF GInv, LogsSound
      <3> QED BY <1>2, <3>1 DEF GInv, LogsSound, Below
    <2> QED BY <2>4, <2>5, <2>7, <2>8, <2>9 DEF GInv
  <1> QED BY <1>1, <1>2 DEF SetCurrentFile

-----------------------------------------------------------------------------
(* DeleteObsoleteFiles.                                                     *)

\* What survives is what it was.
LEMMA Survivors ==
    ASSUME NEW d, DeleteObsoleteFiles(d)
    PROVE  /\ DOMAIN tables' \subseteq DOMAIN tables
           /\ \A t \in DOMAIN tables' : tables'[t] = tables[t]
           /\ DOMAIN logs' \subseteq DOMAIN logs
           /\ \A n \in DOMAIN logs' : logs'[n] = logs[n]
           /\ DOMAIN manifests' \subseteq DOMAIN d
           /\ \A m \in DOMAIN manifests' : manifests'[m] = d[m]
  <1>1. CASE bgError'
    BY <1>1 DEF DeleteObsoleteFiles
  <1>2. CASE ~ bgError'
    BY <1>2 DEF DeleteObsoleteFiles, Only
  <1> QED BY <1>1, <1>2

LEMMA GFinishOpen ==
    ASSUME IInv, GInv, FinishOpen
    PROVE  GInv'
  <1> USE DEF Opening
  <1>1. /\ phase = "renamed" /\ phase' = "open"
        /\ versions' = [versions EXCEPT !.log = edit.log, !.tables = Over(edit.add, @)]
        /\ edit' = None
        /\ DeleteObsoleteFiles(manifests)
        /\ bg' = Scheduled
        /\ UNCHANGED <<current, mem, imm, merging, pinned, logNumber, threads>>
    BY DEF FinishOpen
  <1>2. /\ versions' = [next |-> versions.next, last |-> versions.last, log |-> edit.log,
                        manifest |-> versions.manifest,
                        tables |-> Over(edit.add, versions.tables)]
        /\ DOMAIN versions'.tables = DOMAIN edit.add \cup DOMAIN versions.tables
        /\ versions.next \in Nat
    BY <1>1 DEF IInv, FInv, Shapes, Over
  <1>3. FInv'
    BY FFinishOpen DEF IInv
  <1>4. bg'.at \in {"idle", "scheduled"} /\ merging' = None /\ pinned' = {}
    BY <1>1 DEF Scheduled, IInv, FInv, Shapes, GInv, HeldSound
  <1>5. /\ current # 0 /\ current \in DOMAIN manifests'
        /\ manifests'[current] = manifests[current]
    BY <1>1, <1>3, Survivors DEF FInv, CurrentIsKnown
  <1>6. Promised' = Promised /\ Described' = Described
    BY <1>1, <1>5 DEF Promised, Described
  <1>7. /\ Held' = DOMAIN edit.add \cup DOMAIN versions.tables \cup Promised
        /\ Held' \subseteq DOMAIN tables'
        /\ \A t \in Held' : tables'[t] = tables[t]
    <2>1. Held' = DOMAIN edit.add \cup DOMAIN versions.tables \cup Promised
      BY PinnedNone, <1>2, <1>4, <1>6 DEF Held, Merging
    <2>2. Held' \subseteq DOMAIN tables'
      BY <1>1, <1>3, <1>4 DEF FInv, Held, Merging, Promised, ReferencedExist, DescribedExist
    <2> QED BY <1>1, <2>1, <2>2, Survivors
  <1>8. SoundManifest(current)'
    <2>1. SoundManifest(current)
      BY <1>5 DEF GInv, DescriptorsSound
    <2>2. /\ DOMAIN manifests[current].written.tables \subseteq Held'
          /\ manifests[current].durable # NeverSynced =>
                 DOMAIN manifests[current].durable.tables \subseteq Held'
      BY <1>5, <1>7 DEF Promised, Described
    <2> QED BY <1>1, <1>5, <1>7, <2>1, <2>2 DEF SoundManifest, Sound, Below, Upto
  <1>9. DescriptorsSound'
    BY <1>1, <1>8 DEF DescriptorsSound
  <1>10. HeldSound'
    <2>1. /\ Below(DOMAIN edit.add, versions.next) /\ Upto(DOMAIN edit.add, versions.last)
          /\ Below(Held, versions.next) /\ Upto(Held, versions.last)
      BY <1>1 DEF GInv, EditSound, HeldSound
    <2>2. DOMAIN versions.tables \cup Promised \subseteq Held
      BY DEF Held, Merging
    <2> QED BY <1>1, <1>2, <1>7, <2>1, <2>2 DEF HeldSound, Below, Upto
  <1>11. ~ Logging'
    BY <1>1, <1>4 DEF Logging
  <1>12. EditSound' /\ OutputsApart'
    BY <1>1, <1>4, <1>11 DEF EditSound, OutputsApart, Merging
  <1>13. group' = None /\ Len(queue') = 0
    <2>1. group = None /\ Len(queue) = 0
      BY <1>1 DEF IInv, QInv, InLine, Grouped, Queued
    <2> QED BY <1>1, <2>1 DEF threads
  <1>14. MemSound'
    <2>1. versions.last \in 0 .. MaxSeq /\ mem = {} /\ imm = None
      BY <1>1 DEF GInv, MemSound
    <2> QED BY <1>1, <1>2, <1>13, <2>1, BoundsAssumption DEF MemSound
  <1>15. LogsSound'
    <2>1. /\ logNumber \in Nat /\ versions.next = logNumber + 1 /\ edit.log = logNumber
          /\ Below(DOMAIN logs, versions.next)
          /\ logNumber \in DOMAIN logs => logs[logNumber].records = <<>>
          /\ Described.log = logNumber
      BY <1>1 DEF GInv, LogsSound
    <2>2. /\ DOMAIN logs' \subseteq DOMAIN logs
          /\ \A n \in DOMAIN logs' : logs'[n] = logs[n]
      BY <1>1, Survivors
    <2>3. ASSUME NEW n \in DOMAIN logs', n >= versions'.log \/ n >= Described'.log
          PROVE  Contents(logs'[n]) = {}
      <3>1. n = logNumber
        BY <1>2, <1>6, <2>1, <2>2, <2>3 DEF Below
      <3>2. logs'[n].records = <<>>
        BY <2>1, <2>2, <3>1
      <3> QED BY <3>2 DEF Contents, Range
    <2>4. Below(DOMAIN logs', versions'.next)
      BY <1>2, <2>1, <2>2 DEF Below
    <2> QED BY <1>1, <1>2, <1>11, <2>1, <2>2, <2>3, <2>4 DEF GInv, LogsSound
  <1> QED BY <1>9, <1>10, <1>12, <1>14, <1>15 DEF GInv

-----------------------------------------------------------------------------
(* The background thread.                                                   *)

LEMMA GReader ==
    ASSUME IInv, GInv, Pin \/ Unpin
    PROVE  GInv'
  <1>1. /\ UNCHANGED <<logs, tables, manifests, current, phase, versions, edit, mem, imm,
                       logNumber, bg, merging, queue, group>>
        /\ Pinned' \subseteq Pinned \cup DOMAIN versions.tables
    BY PinnedGrows DEF Pin, Unpin, disk, threads
  <1>2. phase = "open"
    BY DEF Pin, Unpin, IInv, FInv, Shapes, GInv, HeldSound
  <1>3. versions.next \in Nat
    BY DEF IInv, FInv, Shapes
  <1>4. DescriptorsSound' /\ HeldSound' /\ EditSound' /\ OutputsApart'
    BY <1>1, <1>2, <1>3, Counted, GLight DEF IInv, GInv, OutputsApart, Merging
  <1>5. Top' = Top /\ (Logging' <=> Logging)
    BY <1>1 DEF Top, Logging
  <1>6. LogsSound'
    BY <1>1, <1>2, <1>3, <1>5, Counted, LogsKept DEF IInv
  <1>7. MemSound'
    BY <1>1 DEF GInv, MemSound
  <1> QED BY <1>4, <1>6, <1>7 DEF GInv

LEMMA GBackgroundRefused ==
    ASSUME IInv, GInv, BackgroundRefused
    PROVE  GInv'
  <1>1. /\ UNCHANGED <<logs, tables, manifests, current, phase, versions, edit, mem, imm,
                       logNumber, merging, queue, group, pinned>>
        /\ bg.at = "scheduled" /\ bg'.at = "idle"
    BY DEF BackgroundRefused, NoWork, disk
  <1>2. phase = "open" /\ versions.next \in Nat
    BY <1>1 DEF IInv, FInv, Shapes
  <1>3. DescriptorsSound' /\ HeldSound' /\ EditSound' /\ OutputsApart'
    BY PinnedStays, <1>1, <1>2, Counted, GLight DEF IInv
  <1>4. Top' = Top /\ (Logging' <=> Logging)
    BY <1>1 DEF Top, Logging
  <1>5. LogsSound'
    BY <1>1, <1>2, <1>4, Counted, LogsKept DEF IInv
  <1>6. MemSound'
    BY <1>1 DEF GInv, MemSound
  <1> QED BY <1>3, <1>5, <1>6 DEF GInv

\* The steps that change no descriptor and none of the tables that are held.
LEMMA GKept ==
    ASSUME IInv, GInv, phase = "open",
           UNCHANGED <<logs, manifests, current, phase, mem, imm, logNumber, pinned, queue,
                       group>>,
           versions'.next \in Nat, versions.next =< versions'.next,
           versions'.last = versions.last, versions'.log = versions.log,
           versions'.tables = versions.tables,
           Held' \subseteq Held, \A t \in Held : tables'[t] = tables[t],
           Logging' => versions.log =< edit'.log /\ edit'.log =< logNumber
    PROVE  /\ Promised' = Promised
           /\ DescriptorsSound' /\ HeldSound' /\ LogsSound' /\ MemSound'
  <1> USE DEF Opening
  <1>1. versions.next \in Nat
    BY DEF IInv, FInv, Shapes
  <1>2. Promised' = Promised /\ Described' = Described /\ Top' = Top
    BY DEF Promised, Described, Top
  <1>3. DescriptorsSound'
    <2> SUFFICES ASSUME current # 0 PROVE SoundManifest(current)'
      BY DEF DescriptorsSound
    <2>1. SoundManifest(current)
      BY DEF GInv, DescriptorsSound
    <2>2. /\ DOMAIN manifests[current].written.tables \subseteq Held
          /\ manifests[current].durable # NeverSynced =>
                 DOMAIN manifests[current].durable.tables \subseteq Held
      BY DEF Held, Merging, Promised, Described
    <2> QED BY <2>1, <2>2 DEF SoundManifest, Sound, Below, Upto
  <1>4. HeldSound'
    <2>1. Below(Held, versions.next) /\ Upto(Held, versions.last)
      BY DEF GInv, HeldSound
    <2> QED BY <1>1, <2>1 DEF HeldSound, Below, Upto
  <1>5. LogsSound'
    <2>1. /\ versions.log \in Nat /\ logNumber \in Nat
          /\ versions.log =< logNumber /\ logNumber < versions.next
          /\ Below(DOMAIN logs, versions.next)
          /\ \A n \in DOMAIN logs : n >= versions.log \/ n >= Described.log =>
                 \A s \in Contents(logs[n]) : s =< Top
      BY DEF GInv, LogsSound
    <2>2. \A n \in DOMAIN logs : n \in Nat /\ n < versions'.next
      BY <1>1, <2>1 DEF Below
    <2> QED BY <1>1, <1>2, <2>1, <2>2 DEF GInv, LogsSound, Below
  <1>6. MemSound'
    BY DEF GInv, MemSound
  <1> QED BY <1>2, <1>3, <1>4, <1>5, <1>6

\* What every failure of a call of the background thread leaves behind.
LEMMA GFailed ==
    ASSUME IInv, GInv, phase = "open", NEW nested \in BOOLEAN, Failed(nested),
           nested => merging # None /\ ~ (Logging /\ edit.kind = "merge"),
           UNCHANGED <<tables, phase>>,
           Held' \subseteq Held \cup (IF Logging THEN DOMAIN edit.add ELSE {})
    PROVE  ~ Logging' /\ EditSound' /\ OutputsApart'
  <1> USE DEF Opening, NoWork
  <1>1. /\ edit' = None
        /\ \/ nested /\ bg' = [at |-> "merge", out |-> 0] /\ merging' = merging
           \/ bg' = [at |-> "idle", out |-> 0] /\ merging' = None
    BY DEF Failed
  <1>2. ~ Logging'
    BY <1>1 DEF Logging
  <1>3. EditSound'
    BY <1>1, <1>2 DEF EditSound
  <1>4. OutputsApart'
    <2>1. CASE merging' = None
      BY <1>1, <2>1 DEF OutputsApart, Merging
    <2>2. CASE nested /\ merging' = merging
      BY <1>1, <1>2, <2>2 DEF GInv, OutputsApart, Merging
    <2> QED BY <1>1, <2>1, <2>2
  <1> QED BY <1>2, <1>3, <1>4

LEMMA GStartFlush ==
    ASSUME IInv, GInv, StartFlush
    PROVE  GInv'
  <1> USE DEF Opening
  <1>1. /\ imm # None /\ bg.at \in {"scheduled", "merge"}
        /\ bg' = [at |-> "build", out |-> versions.next]
        /\ versions' = [versions EXCEPT !.next = @ + 1]
        /\ UNCHANGED <<logs, tables, manifests, current, phase, edit, mem, imm, logNumber,
                       merging, queue, group, pinned>>
    BY DEF StartFlush, NewFileNumber, disk, threads
  <1>2. /\ versions' = [next |-> versions.next + 1, last |-> versions.last,
                        log |-> versions.log, manifest |-> versions.manifest,
                        tables |-> versions.tables]
        /\ phase = "open" /\ versions.next \in Nat
    BY <1>1 DEF IInv, FInv, Shapes
  <1>3. ~ Logging /\ ~ Logging'
    BY <1>1, <1>2 DEF Logging
  <1>4. Held' \subseteq Held
    BY PinnedStays, <1>1, <1>2 DEF Held, Merging, Promised, Described
  <1>5. DescriptorsSound' /\ HeldSound' /\ LogsSound' /\ MemSound'
    BY <1>1, <1>2, <1>3, <1>4, GKept
  <1>6. EditSound'
    BY <1>1, <1>2, <1>3 DEF GInv, EditSound
  <1>7. OutputsApart'
    <2>1. versions.next \notin Held
      BY <1>2 DEF GInv, HeldSound, Below
    <2>2. \A s \in imm : s \in Nat /\ s =< versions.last
      BY <1>1, <1>2 DEF GInv, MemSound
    <2> QED BY <1>1, <1>2, <1>3, <1>4, <2>1, <2>2 DEF GInv, OutputsApart, Merging
  <1> QED BY <1>5, <1>6, <1>7 DEF GInv

\* An edit that is begun: what it adds, and the numbers of the moment.
LEMMA GBegun ==
    ASSUME IInv, GInv, phase = "open", UNCHANGED <<phase, versions>>, ~ Logging,
           bg'.at = "append", Promised' = Promised,
           \A t \in Held : tables'[t] = tables[t],
           NEW kind, NEW add, NEW del, NEW log \in {logNumber, versions.log},
           edit' = Edit(kind, add, del, log),
           Below(DOMAIN add, versions.next),
           \A n \in DOMAIN add : \A s \in tables'[n] : s \in Nat /\ s =< versions.last
    PROVE  /\ Logging' /\ EditSound'
           /\ versions.log =< edit'.log /\ edit'.log =< logNumber
  <1> USE DEF Opening
  <1>1. /\ edit'.next = versions.next /\ edit'.last = versions.last
        /\ edit'.log = log /\ edit'.add = add
    BY DEF Edit
  <1>2. /\ versions.log \in Nat /\ logNumber \in Nat /\ versions.next \in Nat
        /\ versions.log =< logNumber /\ logNumber < versions.next
        /\ versions.last \in 0 .. MaxSeq
    BY DEF GInv, LogsSound, MemSound, IInv, FInv, Shapes
  <1>3. /\ Below(Held, versions.next) /\ Upto(Held, versions.last)
        /\ DOMAIN versions.tables \cup Promised \subseteq Held
    BY DEF GInv, HeldSound, Held, Merging
  <1>4. Below(DOMAIN add \cup DOMAIN versions.tables \cup Promised, versions.next)
    BY <1>3 DEF Below
  <1>5. \A n \in DOMAIN add \cup DOMAIN versions.tables \cup Promised :
            \A s \in tables'[n] : s \in Nat /\ s =< versions.last
    BY <1>3 DEF Upto
  <1>6. Logging'
    BY DEF Logging
  <1>7. EditSound'
    BY <1>1, <1>2, <1>4, <1>5, <1>6 DEF EditSound, Below, Upto
  <1>8. versions.log =< log /\ log =< logNumber
    BY <1>2
  <1> QED BY <1>1, <1>6, <1>7, <1>8

LEMMA GBuildTable ==
    ASSUME IInv, GInv, BuildTable
    PROVE  GInv'
  <1> USE DEF Opening
  <1>1. /\ bg.at = "build"
        /\ UNCHANGED <<logs, manifests, current, phase, versions, mem, imm, logNumber, queue,
                       group, pinned>>
    BY DEF BuildTable
  <1>2. /\ phase = "open" /\ versions.next \in Nat /\ ~ Logging
        /\ merging # None => merging.out = 0 \/ merging.out # bg.out
    BY <1>1 DEF IInv, FInv, Shapes, ReferencedExist, Logging
  <1>3. /\ bg.out \in Nat /\ bg.out < versions.next /\ bg.out \notin Held
        /\ \A s \in imm : s \in Nat /\ s =< versions.last
    BY <1>1 DEF GInv, OutputsApart, Merging
  <1>4. CASE tables' = tables /\ Failed(merging # None)
    <2>1. Held' \subseteq Held
      BY PinnedStays, <1>1, <1>4 DEF Failed, NoWork, Held, Merging, Promised, Described
    <2>2. ~ Logging' /\ EditSound' /\ OutputsApart'
      BY <1>1, <1>2, <1>4, <2>1, GFailed
    <2>3. DescriptorsSound' /\ HeldSound' /\ LogsSound' /\ MemSound'
      BY <1>1, <1>2, <1>4, <2>1, <2>2, GKept
    <2> QED BY <2>2, <2>3 DEF GInv
  <1>5. CASE /\ tables' = Put(tables, bg.out, imm)
             /\ \E level \in {0, 1} :
                   edit' = Edit("flush", One(bg.out, level), {}, logNumber)
             /\ bg' = [bg EXCEPT !.at = "append"]
             /\ UNCHANGED merging
    <2>1. PICK level \in {0, 1} : edit' = Edit("flush", One(bg.out, level), {}, logNumber)
      BY <1>5
    <2>2. bg' = [at |-> "append", out |-> bg.out] /\ DOMAIN One(bg.out, level) = {bg.out}
      BY <1>5 DEF IInv, FInv, Shapes, One
    <2>3. Held' = Held /\ Promised' = Promised
      BY PinnedStays, <1>1, <1>5 DEF Held, Merging, Promised, Described
    <2>4. Held \subseteq DOMAIN tables
      BY <1>2 DEF IInv, FInv, Held, Merging, Promised, ReferencedExist, DescribedExist
    <2>5. /\ \A t \in DOMAIN tables : t # bg.out => tables'[t] = tables[t]
          /\ tables'[bg.out] = imm
      BY <1>5 DEF Put, Over, One
    <2>6. \A t \in Held : tables'[t] = tables[t]
      BY <1>3, <2>4, <2>5
    <2>7. Logging' /\ EditSound' /\ versions.log =< edit'.log /\ edit'.log =< logNumber
      BY <1>1, <1>2, <1>3, <2>1, <2>2, <2>3, <2>5, <2>6, GBegun DEF Below
    <2>8. DescriptorsSound' /\ HeldSound' /\ LogsSound' /\ MemSound'
      BY <1>1, <1>2, <2>3, <2>6, <2>7, GKept
    <2>9. OutputsApart'
      <3>1. edit'.add = One(bg.out, level)
        BY <2>1 DEF Edit
      <3>2. merging # None /\ merging.out # 0 =>
                /\ merging.out \notin Held /\ tables[merging.out] = {}
                /\ merging.out # bg.out /\ merging.out \in DOMAIN tables
        BY <1>2 DEF GInv, OutputsApart, Merging, IInv, FInv, ReferencedExist
      <3> QED BY <1>5, <2>2, <2>3, <2>5, <3>1, <3>2 DEF OutputsApart, Merging
    <2> QED BY <2>7, <2>8, <2>9 DEF GInv
  <1> QED BY <1>4, <1>5 DEF BuildTable

LEMMA GStartMerge ==
    ASSUME IInv, GInv, StartMerge
    PROVE  GInv'
  <1> USE DEF Opening
  <1>1. /\ bg.at = "scheduled" /\ bg' = [at |-> "merge", out |-> 0]
        /\ \E in \in {Level0, DOMAIN versions.tables} :
              merging' = [in |-> in, out |-> 0, held |-> DOMAIN versions.tables]
        /\ UNCHANGED <<logs, tables, manifests, current, phase, versions, edit, mem, imm,
                       logNumber, queue, group, pinned>>
    BY DEF StartMerge, disk, threads
  <1>2. phase = "open" /\ versions.next \in Nat
    BY <1>1 DEF IInv, FInv, Shapes
  <1>3. ~ Logging /\ ~ Logging'
    BY <1>1, <1>2 DEF Logging
  <1>4. Held' \subseteq Held
    BY PinnedStays, <1>1 DEF Held, Merging, Promised, Described, Level0
  <1>5. DescriptorsSound' /\ HeldSound' /\ LogsSound' /\ MemSound'
    BY <1>1, <1>2, <1>3, <1>4, GKept
  <1>6. EditSound' /\ OutputsApart'
    BY <1>1, <1>2, <1>3 DEF GInv, EditSound, OutputsApart, Merging
  <1> QED BY <1>5, <1>6 DEF GInv

LEMMA GStartMove ==
    ASSUME IInv, GInv, StartMove
    PROVE  GInv'
  <1> USE DEF Opening
  <1>1. PICK n \in Level0 : edit' = Edit("move", One(n, 1), {n}, versions.log)
    BY DEF StartMove
  <1>2. /\ bg.at = "scheduled" /\ bg' = [at |-> "append", out |-> 0]
        /\ UNCHANGED <<logs, tables, manifests, current, phase, versions, mem, imm, logNumber,
                       merging, queue, group, pinned>>
    BY DEF StartMove, disk, threads
  <1>3. phase = "open" /\ versions.next \in Nat
    BY <1>2 DEF IInv, FInv, Shapes
  <1>4. ~ Logging /\ edit'.add = One(n, 1) /\ DOMAIN One(n, 1) = {n} /\ n \in Held
    BY <1>1, <1>2, <1>3 DEF Logging, Edit, One, Level0, Held, Merging
  <1>5. Held' = Held /\ Promised' = Promised
    BY PinnedStays, <1>2 DEF Held, Merging, Promised, Described
  <1>6. Below(Held, versions.next) /\ Upto(Held, versions.last)
    BY <1>3 DEF GInv, HeldSound
  <1>7. Logging' /\ EditSound' /\ versions.log =< edit'.log /\ edit'.log =< logNumber
    <2>1. /\ Below(DOMAIN One(n, 1), versions.next)
          /\ \A t \in DOMAIN One(n, 1) : \A s \in tables'[t] : s \in Nat /\ s =< versions.last
      BY <1>2, <1>4, <1>6 DEF Below, Upto
    <2> QED BY <1>1, <1>2, <1>3, <1>4, <1>5, <2>1, GBegun
  <1>8. DescriptorsSound' /\ HeldSound' /\ LogsSound' /\ MemSound'
    BY <1>2, <1>3, <1>5, <1>7, GKept
  <1>9. OutputsApart'
    BY <1>2, <1>3, <1>4, <1>5 DEF GInv, OutputsApart, Merging
  <1> QED BY <1>7, <1>8, <1>9 DEF GInv

LEMMA GOpenOutput ==
    ASSUME IInv, GInv, OpenOutput
    PROVE  GInv'
  <1> USE DEF Opening
  <1>1. /\ bg.at = "merge" /\ NewFileNumber
        /\ UNCHANGED <<logs, manifests, current, phase, mem, imm, logNumber, queue, group,
                       pinned>>
    BY DEF OpenOutput
  <1>2. /\ versions' = [next |-> versions.next + 1, last |-> versions.last,
                        log |-> versions.log, manifest |-> versions.manifest,
                        tables |-> versions.tables]
        /\ phase = "open" /\ versions.next \in Nat
    BY <1>1 DEF IInv, FInv, Shapes, NewFileNumber
  <1>3. ~ Logging
    BY <1>1, <1>2 DEF Logging
  <1>4. CASE tables' = tables /\ Failed(FALSE)
    <2>1. Held' \subseteq Held
      BY PinnedStays, <1>1, <1>2, <1>4 DEF Failed, NoWork, Held, Merging, Promised, Described
    <2>2. ~ Logging' /\ EditSound' /\ OutputsApart'
      BY <1>1, <1>2, <1>3, <1>4, <2>1, GFailed
    <2>3. DescriptorsSound' /\ HeldSound' /\ LogsSound' /\ MemSound'
      BY <1>1, <1>2, <1>4, <2>1, <2>2, GKept
    <2> QED BY <2>2, <2>3 DEF GInv
  <1>5. CASE /\ merging' = [merging EXCEPT !.out = versions.next]
             /\ tables' = Put(tables, versions.next, {})
             /\ UNCHANGED <<edit, bg>>
    <2>1. /\ merging' = [in |-> merging.in, out |-> versions.next, held |-> merging.held]
          /\ merging' # None => merging # None \/ bg.at = "merge"
      BY <1>1, <1>5 DEF IInv, FInv, Shapes
    <2>2. ~ Logging'
      BY <1>1, <1>2, <1>5 DEF Logging
    <2>3. versions.next \notin Held
      BY <1>2 DEF GInv, HeldSound, Below
    <2>4. Held' \subseteq Held
      BY PinnedStays, <1>1, <1>2, <1>5, <2>1 DEF Held, Promised, Described, Merging
    <2>5. /\ \A t \in DOMAIN tables : t # versions.next => tables'[t] = tables[t]
          /\ tables'[versions.next] = {}
      BY <1>5 DEF Put, Over, One
    <2>6. Held \subseteq DOMAIN tables
      BY <1>2 DEF IInv, FInv, Held, Merging, Promised, ReferencedExist, DescribedExist
    <2>7. DescriptorsSound' /\ HeldSound' /\ LogsSound' /\ MemSound'
      BY <1>1, <1>2, <2>2, <2>3, <2>4, <2>5, <2>6, GKept
    <2>8. EditSound' /\ OutputsApart'
      BY <1>1, <1>2, <1>3, <1>5, <2>1, <2>2, <2>3, <2>4, <2>5
      DEF GInv, EditSound, OutputsApart, Merging
    <2> QED BY <2>7, <2>8 DEF GInv
  <1> QED BY <1>4, <1>5 DEF OpenOutput

LEMMA GFinishOutput ==
    ASSUME IInv, GInv, FinishOutput
    PROVE  GInv'
  <1> USE DEF Opening
  <1>1. /\ bg.at = "merge" /\ merging.out # 0
        /\ UNCHANGED <<logs, manifests, current, phase, versions, mem, imm, logNumber, queue,
                       group, pinned>>
    BY DEF FinishOutput
  <1>2. /\ phase = "open" /\ versions.next \in Nat /\ ~ Logging
        /\ merging.out \in DOMAIN tables /\ merging.out \in Nat /\ merging.out < versions.next
    BY <1>1 DEF IInv, FInv, Shapes, ReferencedExist, Logging
  <1>3. CASE tables' = tables /\ Failed(FALSE)
    <2>1. Held' \subseteq Held
      BY PinnedStays, <1>1, <1>3 DEF Failed, NoWork, Held, Merging, Promised, Described
    <2>2. ~ Logging' /\ EditSound' /\ OutputsApart'
      BY <1>1, <1>2, <1>3, <2>1, GFailed
    <2>3. DescriptorsSound' /\ HeldSound' /\ LogsSound' /\ MemSound'
      BY <1>1, <1>2, <1>3, <2>1, <2>2, GKept
    <2> QED BY <2>2, <2>3 DEF GInv
  <1>4. CASE /\ tables' = Put(tables, merging.out, Union(merging.in))
             /\ edit' = Edit("merge", One(merging.out, 1), merging.in, versions.log)
             /\ bg' = [at |-> "append", out |-> 0]
             /\ UNCHANGED merging
    <2>1. merging.out \notin Held
      BY <1>1, <1>2 DEF GInv, OutputsApart, Merging
    <2>2. DOMAIN One(merging.out, 1) = {merging.out}
      BY DEF One
    <2>3. Held' \subseteq Held /\ Promised' = Promised
      BY PinnedStays, <1>1, <1>4 DEF Held, Promised, Described, Merging
    <2>4. Held \subseteq DOMAIN tables
      BY <1>2 DEF IInv, FInv, Held, Merging, Promised, ReferencedExist, DescribedExist
    <2>5. /\ \A t \in DOMAIN tables : t # merging.out => tables'[t] = tables[t]
          /\ tables'[merging.out] = Union(merging.in)
      BY <1>4 DEF Put, Over, One
    <2>6. \A t \in Held : tables'[t] = tables[t]
      BY <2>1, <2>4, <2>5
    <2>7. \A s \in Union(merging.in) : s \in Nat /\ s =< versions.last
      <3>1. merging.in \subseteq Held /\ Upto(Held, versions.last)
        BY <1>1, <1>2 DEF Held, Merging, GInv, HeldSound
      <3> QED BY <3>1 DEF Union, Upto
    <2>8. Logging' /\ EditSound' /\ versions.log =< edit'.log /\ edit'.log =< logNumber
      <3>1. /\ Below(DOMAIN One(merging.out, 1), versions.next)
            /\ \A t \in DOMAIN One(merging.out, 1) :
                   \A s \in tables'[t] : s \in Nat /\ s =< versions.last
        BY <1>2, <2>2, <2>5, <2>7 DEF Below
      <3> QED BY <1>1, <1>2, <1>4, <2>3, <2>6, <3>1, GBegun
    <2>9. DescriptorsSound' /\ HeldSound' /\ LogsSound' /\ MemSound'
      BY <1>1, <1>2, <2>3, <2>6, <2>8, GKept
    <2>10. OutputsApart'
      <3>1. edit'.kind = "merge"
        BY <1>4 DEF Edit
      <3> QED BY <1>4, <2>8, <3>1 DEF OutputsApart
    <2> QED BY <2>8, <2>9, <2>10 DEF GInv
  <1> QED BY <1>3, <1>4 DEF FinishOutput

\* What an append may make of the descriptor: what it said, or one more edit.
LEMMA AppendedSound ==
    ASSUME IInv, GInv, bg.at = "append", NEW m \in PartlyAppended(Manifest)
    PROVE  /\ m.durable = Manifest.durable
           /\ m.written = Manifest.written \/ m.written = Apply(Manifest.written, edit)
  <1> DEFINE d == Manifest
  <1>1. d = [written |-> d.written, durable |-> d.durable, tail |-> d.tail,
             broken |-> d.broken]
    <2>1. versions.manifest \in DOMAIN manifests
      BY DEF IInv, FInv, Shapes, CurrentIsKnown, Opening
    <2> QED BY <2>1 DEF IInv, FInv, DescriptorShapes, Manifest
  <1> HIDE DEF d
  <1>2. CASE m \in Appended(d)
    <2>1. PICK b : m = [d EXCEPT !.written = IF d.tail THEN @ ELSE Apply(@, edit), !.broken = b]
      BY <1>2 DEF Appended
    <2>2. m = [written |-> IF d.tail THEN d.written ELSE Apply(d.written, edit),
               durable |-> d.durable, tail |-> d.tail, broken |-> b]
      BY <1>1, <2>1
    <2> QED BY <2>2 DEF d
  <1>3. CASE m = d \/ m = [d EXCEPT !.tail = TRUE]
    <2>1. m = d \/ m = [written |-> d.written, durable |-> d.durable, tail |-> TRUE,
                        broken |-> d.broken]
      BY <1>1, <1>3
    <2> QED BY <2>1 DEF d
  <1> QED BY <1>2, <1>3 DEF PartlyAppended, d

LEMMA ApplyState ==
    ASSUME NEW state, NEW e
    PROVE  /\ DOMAIN Apply(state, e).tables \subseteq DOMAIN e.add \cup DOMAIN state.tables
           /\ Apply(state, e).next = e.next /\ Apply(state, e).log = e.log
           /\ Apply(state, e).last = e.last
  <1>1. /\ Apply(state, e).tables = Over(e.add, Without(state.tables, e.del))
        /\ Apply(state, e).next = e.next /\ Apply(state, e).log = e.log
        /\ Apply(state, e).last = e.last
    BY DEF Apply
  <1>2. DOMAIN Over(e.add, Without(state.tables, e.del))
            = DOMAIN e.add \cup (DOMAIN state.tables \ e.del)
    BY DEF Over, Without
  <1> QED BY <1>1, <1>2

\* The descriptor after an append, whatever it left.
LEMMA GAppended ==
    ASSUME IInv, GInv, bg.at = "append",
           UNCHANGED <<logs, tables, current, phase, versions, mem, imm, logNumber, queue, group,
                       pinned>>,
           NEW m \in PartlyAppended(Manifest),
           manifests' = [manifests EXCEPT ![versions.manifest] = m],
           Merging' => Merging /\ merging' = merging,
           Logging' => edit' = edit
    PROVE  /\ Promised' \subseteq Promised \cup DOMAIN edit.add
           /\ Held' \subseteq Held \cup DOMAIN edit.add
           /\ DescriptorsSound' /\ HeldSound' /\ LogsSound' /\ MemSound'
  <1> USE DEF Opening
  <1>1. /\ phase = "open" /\ Logging
        /\ current = versions.manifest /\ current \in DOMAIN manifests /\ current # 0
        /\ versions.next \in Nat
    BY DEF IInv, FInv, Shapes, CurrentIsKnown, Logging
  <1>2. /\ m.durable = Manifest.durable
        /\ m.written = Manifest.written \/ m.written = Apply(Manifest.written, edit)
    BY AppendedSound
  <1>3. /\ manifests'[current'] = m /\ Described' = m.written
        /\ Manifest = manifests[current] /\ Described = Manifest.written
    BY <1>1 DEF Described, Manifest
  <1> DEFINE new == m.written
             old == Described
  <1>4. /\ DOMAIN new.tables \subseteq DOMAIN edit.add \cup DOMAIN old.tables
        /\ \/ new = old
           \/ new.next = edit.next /\ new.log = edit.log /\ new.last = edit.last
    BY <1>2, <1>3, ApplyState
  <1>5. /\ edit.next \in Nat /\ edit.next =< versions.next
        /\ edit.log \in Nat /\ edit.log < edit.next
        /\ edit.last \in 0 .. MaxSeq /\ edit.last =< versions.last
        /\ Below(DOMAIN edit.add \cup DOMAIN versions.tables \cup Promised, edit.next)
        /\ Upto(DOMAIN edit.add \cup DOMAIN versions.tables \cup Promised, edit.last)
    BY <1>1 DEF GInv, EditSound
  <1>6. /\ DOMAIN old.tables \subseteq Promised
        /\ m.durable # NeverSynced => DOMAIN m.durable.tables \subseteq Promised
    BY <1>1, <1>2, <1>3 DEF Promised
  <1>7. /\ Promised' \subseteq Promised \cup DOMAIN edit.add
        /\ Held' \subseteq Held \cup DOMAIN edit.add
    <2>1. Promised' \subseteq Promised \cup DOMAIN edit.add
      BY <1>1, <1>3, <1>4, <1>6 DEF Promised
    <2> QED BY PinnedStays, <2>1 DEF Held
  <1>8. DescriptorsSound'
    <2>1. SoundManifest(current)
      BY <1>1 DEF GInv, DescriptorsSound
    <2>2. Sound(old) /\ (m.durable # NeverSynced => Sound(m.durable))
      BY <1>2, <1>3, <2>1 DEF SoundManifest
    <2>3. CASE new = old
      <3>1. m.durable # NeverSynced => /\ Below(DOMAIN m.durable.tables, old.next)
                                /\ Upto(DOMAIN m.durable.tables, old.last)
        BY <1>2, <1>3, <2>1 DEF SoundManifest
      <3> QED BY <1>1, <1>3, <2>2, <2>3, <3>1
              DEF DescriptorsSound, SoundManifest, Sound, Below, Upto
    <2>4. CASE new.next = edit.next /\ new.log = edit.log /\ new.last = edit.last
      <3>1. Sound(new)
        BY <1>4, <1>5, <1>6, <2>4 DEF Sound, Below, Upto
      <3>2. m.durable # NeverSynced => /\ Below(DOMAIN m.durable.tables, new.next)
                                /\ Upto(DOMAIN m.durable.tables, new.last)
        BY <1>5, <1>6, <2>4 DEF Below, Upto
      <3> QED BY <1>1, <1>3, <2>2, <3>1, <3>2
              DEF DescriptorsSound, SoundManifest, Sound, Below, Upto
    <2> QED BY <1>4, <2>3, <2>4
  <1>9. HeldSound'
    <2>1. Below(Held, versions.next) /\ Upto(Held, versions.last)
      BY <1>1 DEF GInv, HeldSound
    <2>2. \A n \in DOMAIN edit.add : n \in Nat /\ n < versions.next
      BY <1>1, <1>5 DEF Below
    <2>3. \A n \in DOMAIN edit.add : \A s \in tables[n] : s \in Nat /\ s =< versions.last
      <3>1. versions.last \in Nat /\ edit.last \in Int
        BY <1>5, Counted
      <3> QED BY <1>5, <3>1 DEF Upto
    <2> QED BY <1>1, <1>7, <2>1, <2>2, <2>3 DEF HeldSound, Below, Upto
  <1>10. MemSound'
    BY DEF GInv, MemSound
  <1>11. LogsSound'
    <2>1. /\ versions.log \in Nat /\ logNumber \in Nat
          /\ versions.log =< logNumber /\ logNumber < versions.next
          /\ versions.log =< edit.log /\ edit.log =< logNumber
          /\ Below(DOMAIN logs, versions.next)
          /\ \A n \in DOMAIN logs : n >= versions.log \/ n >= Described.log =>
                 \A s \in Contents(logs[n]) : s =< Top
      BY <1>1 DEF GInv, LogsSound
    <2>2. Top' = Top
      BY DEF Top
    <2>3. \A n \in DOMAIN logs : n >= versions.log \/ n >= Described'.log =>
              n >= versions.log \/ n >= Described.log
      BY <1>3, <1>4, <1>5, <2>1 DEF Below
    <2>4. \A n \in DOMAIN logs : n >= versions.log \/ n >= Described'.log =>
              \A s \in Contents(logs[n]) : s =< Top
      BY <2>1, <2>3
    <2> QED BY <1>1, <2>1, <2>2, <2>4 DEF GInv, LogsSound
  <1> QED BY <1>7, <1>8, <1>9, <1>10, <1>11

LEMMA GAppendEdit ==
    ASSUME IInv, GInv, AppendEdit
    PROVE  GInv'
  <1> USE DEF Opening
  <1>1. /\ bg.at = "append"
        /\ UNCHANGED <<logs, tables, current, phase, versions, mem, imm, logNumber, queue, group,
                       pinned>>
    BY DEF AppendEdit
  <1>2. PICK m \in PartlyAppended(Manifest) :
            /\ manifests' = [manifests EXCEPT ![versions.manifest] = m]
            /\ \/ bg' = [bg EXCEPT !.at = "sync"] /\ UNCHANGED <<edit, merging>>
               \/ NotLogged
    BY DEF AppendEdit, PartlyAppended
  <1>3. phase = "open" /\ Logging
    BY <1>1 DEF IInv, FInv, Shapes, Logging
  <1>4. CASE bg' = [bg EXCEPT !.at = "sync"] /\ UNCHANGED <<edit, merging>>
    <2>1. bg'.at = "sync"
      BY <1>4 DEF IInv, FInv, Shapes
    <2>2. (Merging' => Merging /\ merging' = merging) /\ Logging'
      BY <1>4, <2>1 DEF Merging, Logging
    <2>3. /\ Promised' \subseteq Promised \cup DOMAIN edit.add
          /\ Held' \subseteq Held \cup DOMAIN edit.add
          /\ DescriptorsSound' /\ HeldSound' /\ LogsSound' /\ MemSound'
      BY <1>1, <1>2, <1>4, <2>2, GAppended
    <2>4. EditSound'
      BY <1>1, <1>3, <1>4, <2>2, <2>3 DEF GInv, EditSound, Below, Upto
    <2>5. OutputsApart'
      BY <1>1, <1>3, <1>4, <2>1, <2>2, <2>3 DEF GInv, OutputsApart
    <2> QED BY <2>3, <2>4, <2>5 DEF GInv
  <1>5. CASE NotLogged
    <2>1. Failed(edit.kind = "flush" /\ merging # None)
      BY <1>5 DEF NotLogged
    <2>2. ~ Logging' /\ (Merging' => Merging /\ merging' = merging)
      BY <1>1, <1>3, <2>1 DEF Failed, NoWork, Logging, Merging
    <2>3. /\ Held' \subseteq Held \cup DOMAIN edit.add
          /\ DescriptorsSound' /\ HeldSound' /\ LogsSound' /\ MemSound'
      BY <1>1, <1>2, <2>2, GAppended
    <2>4. EditSound' /\ OutputsApart'
      BY <1>1, <1>3, <2>1, <2>3, GFailed
    <2> QED BY <2>3, <2>4 DEF GInv
  <1> QED BY <1>2, <1>4, <1>5

LEMMA GSyncEditFails ==
    ASSUME IInv, GInv, SyncEditFails
    PROVE  GInv'
  <1>1. /\ bg.at = "sync"
        /\ UNCHANGED <<logs, tables, manifests, current, phase, versions, mem, imm, logNumber,
                       queue, group, pinned>>
        /\ Failed(edit.kind = "flush" /\ merging # None)
    BY DEF SyncEditFails, NotLogged, disk
  <1>2. phase = "open" /\ versions.next \in Nat
    BY <1>1 DEF IInv, FInv, Shapes, Opening
  <1>3. Held' \subseteq Held
    BY PinnedStays, <1>1 DEF Failed, NoWork, Held, Merging, Promised, Described
  <1>4. ~ Logging' /\ EditSound' /\ OutputsApart'
    BY <1>1, <1>2, <1>3, GFailed
  <1>5. DescriptorsSound' /\ HeldSound' /\ LogsSound' /\ MemSound'
    BY <1>1, <1>2, <1>3, <1>4, GKept
  <1> QED BY <1>4, <1>5 DEF GInv

LEMMA GInstall ==
    ASSUME IInv, GInv, Install
    PROVE  GInv'
  <1> USE DEF Opening
  <1> DEFINE safe == [manifests EXCEPT ![versions.manifest].durable = Manifest.written]
  <1>1. /\ bg.at = "sync"
        /\ versions' = [versions EXCEPT
                           !.tables = Over(edit.add, Without(@, edit.del)), !.log = edit.log]
        /\ edit' = None
        /\ imm' = IF edit.kind = "flush" THEN None ELSE imm
        /\ merging' = IF edit.kind = "merge" THEN None ELSE merging
        /\ (manifests' = safe /\ UNCHANGED <<logs, tables>>) \/ DeleteObsoleteFiles(safe)
        /\ IF merging' # None THEN bg' = [at |-> "merge", out |-> 0] ELSE bg' = Scheduled
        /\ UNCHANGED <<current, phase, mem, logNumber, queue, group, pinned>>
    BY DEF Install, Done
  <1>2. /\ phase = "open" /\ Logging /\ current = versions.manifest /\ current # 0
        /\ current \in DOMAIN manifests /\ versions.next \in Nat
    BY <1>1 DEF IInv, FInv, Shapes, CurrentIsKnown, Logging
  <1>3. versions' = [next |-> versions.next, last |-> versions.last, log |-> edit.log,
                     manifest |-> versions.manifest,
                     tables |-> Over(edit.add, Without(versions.tables, edit.del))]
    BY <1>1 DEF IInv, FInv, Shapes
  <1>4. DOMAIN versions'.tables \subseteq DOMAIN edit.add \cup DOMAIN versions.tables
    BY <1>3 DEF Over, Without
  <1>5. FInv'
    BY FInstall DEF IInv
  <1>6. /\ \A t \in DOMAIN tables' : tables'[t] = tables[t]
        /\ DOMAIN logs' \subseteq DOMAIN logs /\ \A n \in DOMAIN logs' : logs'[n] = logs[n]
        /\ \A m \in DOMAIN manifests' : manifests'[m] = safe[m]
    BY <1>1, Survivors
  <1>7. /\ ~ Logging' /\ bg'.at # "build"
        /\ Merging' => /\ merging # None /\ merging' = merging /\ edit.kind # "merge"
    BY <1>1, <1>2 DEF Logging, Merging, Scheduled
  <1>8. /\ Described' = Described /\ manifests'[current'].durable = Described
        /\ current' \in DOMAIN manifests'
    <2>1. manifests[current] = [written |-> manifests[current].written,
                                durable |-> manifests[current].durable,
                                tail |-> manifests[current].tail,
                                broken |-> manifests[current].broken]
      BY <1>2 DEF IInv, FInv, DescriptorShapes
    <2>2. safe[current] = [manifests[current] EXCEPT !.durable = Manifest.written]
      BY <1>2
    <2>3. /\ safe[current].written = Described
          /\ safe[current].durable = Described
      BY <1>2, <2>1, <2>2 DEF Manifest, Described
    <2>4. current' \in DOMAIN manifests'
      BY <1>1, <1>2, <1>5 DEF FInv, CurrentIsKnown
    <2> HIDE DEF safe
    <2> QED BY <1>1, <1>6, <2>3, <2>4 DEF Described
  <1>9. Promised' \subseteq Promised /\ Held' \subseteq Held \cup DOMAIN edit.add
    <2>1. Promised' \subseteq Promised
      BY <1>1, <1>2, <1>8 DEF Promised
    <2>2. Merging' => Merging /\ merging' = merging
      BY <1>7 DEF Merging
    <2> QED BY PinnedStays, <1>1, <1>4, <2>1, <2>2 DEF Held
  <1>10. Held' \subseteq DOMAIN tables'
    BY <1>5 DEF FInv, Held, Merging, Promised, ReferencedExist, DescribedExist
  <1>11. /\ edit.next \in Nat /\ edit.next =< versions.next
         /\ edit.log \in Nat /\ edit.log < edit.next
         /\ edit.last \in 0 .. MaxSeq /\ edit.last =< versions.last
         /\ Below(DOMAIN edit.add, edit.next) /\ Upto(DOMAIN edit.add, edit.last)
    BY <1>2 DEF GInv, EditSound, Below, Upto
  <1>12. DescriptorsSound'
    <2>1. Sound(Described)
      BY <1>2, PromisedSound
    <2>2. DOMAIN Described.tables \subseteq Held'
      BY <1>8, <1>1, <1>2 DEF Held, Promised
    <2> QED BY <1>1, <1>2, <1>6, <1>8, <1>10, <2>1, <2>2
            DEF DescriptorsSound, SoundManifest, Sound, Below, Upto, Described
  <1>13. HeldSound'
    <2>1. Below(Held, versions.next) /\ Upto(Held, versions.last)
      BY <1>2 DEF GInv, HeldSound
    <2>2. \A n \in DOMAIN edit.add : n \in Nat /\ n < versions.next
      BY <1>2, <1>11 DEF Below
    <2>3. \A n \in DOMAIN edit.add : \A s \in tables[n] : s \in Nat /\ s =< versions.last
      <3>1. versions.last \in Nat /\ edit.last \in Int
        BY <1>11, Counted
      <3> QED BY <1>11, <3>1 DEF Upto
    <2>4. \A n \in Held' : n \in Nat /\ n < versions.next
      BY <1>9, <2>1, <2>2 DEF Below
    <2>5. \A n \in Held' : \A s \in tables'[n] : s \in Nat /\ s =< versions.last
      BY <1>6, <1>9, <1>10, <2>1, <2>3 DEF Upto
    <2> QED BY <1>1, <1>2, <1>3, <2>4, <2>5 DEF HeldSound, Below, Upto
  <1>14. EditSound'
    BY <1>1, <1>2, <1>7 DEF EditSound
  <1>15. OutputsApart'
    <2>1. SUFFICES ASSUME Merging', merging'.out # 0
                   PROVE  merging'.out \notin Held' /\ tables'[merging'.out] = {}
      BY <1>7 DEF OutputsApart
    <2>2. /\ merging.out \notin Held /\ tables[merging.out] = {}
          /\ merging.out \notin DOMAIN edit.add /\ merging' = merging
      BY <1>2, <1>7, <2>1 DEF GInv, OutputsApart, Merging
    <2>3. merging.out \in DOMAIN tables'
      BY <1>5, <1>7, <2>1, <2>2 DEF FInv, ReferencedExist
    <2> QED BY <1>6, <1>9, <2>2, <2>3
  <1>16. MemSound'
    BY <1>1, <1>2, <1>3 DEF GInv, MemSound
  <1>17. LogsSound'
    <2>1. /\ versions.log \in Nat /\ logNumber \in Nat
          /\ versions.log =< logNumber /\ logNumber < versions.next
          /\ versions.log =< edit.log /\ edit.log =< logNumber
          /\ Below(DOMAIN logs, versions.next)
          /\ \A n \in DOMAIN logs : n >= versions.log \/ n >= Described.log =>
                 \A s \in Contents(logs[n]) : s =< Top
      BY <1>2 DEF GInv, LogsSound
    <2>2. Top' = Top
      BY <1>1, <1>3 DEF Top
    <2>3. \A n \in DOMAIN logs' : n \in Nat /\ n < versions.next
      BY <1>6, <2>1 DEF Below
    <2>4. \A n \in DOMAIN logs' : n >= edit.log \/ n >= Described.log =>
              \A s \in Contents(logs'[n]) : s =< Top
      BY <1>6, <1>11, <2>1, <2>3
    <2>5. edit.log < versions.next
      BY <1>2, <1>11
    <2> QED BY <1>1, <1>2, <1>3, <1>6, <1>7, <1>8, <1>11, <2>1, <2>2, <2>3, <2>4
            DEF GInv, LogsSound, Below
  <1> QED BY <1>12, <1>13, <1>14, <1>15, <1>16, <1>17 DEF GInv

-----------------------------------------------------------------------------
(* Crashes.                                                                 *)

\* What is left of a log is a leading part of its batches.
LEMMA CutShape ==
    ASSUME GInv, NEW kept, CutLogs(kept)
    PROVE  \A l \in DOMAIN logs' :
              /\ logs'[l] = [records |-> logs'[l].records, synced |-> logs'[l].synced,
                             sound |-> logs'[l].sound]
              /\ logs'[l].records \in Seq(SUBSET Seqs)
  <1>1. PICK n \in [DOMAIN logs -> 0 .. MaxSeq] :
            /\ \A l \in DOMAIN logs : n[l] \in kept[l] .. Len(logs[l].records)
            /\ logs' = [l \in DOMAIN logs |-> Cut(logs[l], n[l])]
    BY DEF CutLogs
  <1>2. SUFFICES ASSUME NEW l \in DOMAIN logs
                 PROVE  /\ logs'[l] = [records |-> logs'[l].records,
                                       synced |-> logs'[l].synced, sound |-> logs'[l].sound]
                        /\ logs'[l].records \in Seq(SUBSET Seqs)
    BY <1>1
  <1> DEFINE s == logs[l].records
             k == n[l]
  <1>3. s \in Seq(SUBSET Seqs) /\ k \in Int /\ k =< Len(s)
    BY <1>1, BoundsAssumption DEF GInv, LogsSound
  <1>4. logs'[l] = [records |-> SubSeq(s, 1, k), synced |-> k, sound |-> None]
    BY <1>1 DEF Cut, EmptyLog
  <1> HIDE DEF s, k
  <1>5. SubSeq(s, 1, k) \in Seq(SUBSET Seqs)
    <2>1. \A i \in 1 .. k : s[i] \in SUBSET Seqs
      BY <1>3
    <2> QED BY <1>3, <2>1, SubSeqProperties
  <1> QED BY <1>4, <1>5

LEMMA GForget ==
    ASSUME IInv, GInv, Forget, NEW kept, CutLogs(kept),
           current' # 0 => SoundManifest(current)'
    PROVE  GInv'
  <1>1. /\ phase' = "down" /\ versions' = NoVersions /\ mem' = {} /\ imm' = None
        /\ bg' = NoWork /\ merging' = None /\ pinned' = {}
    BY DEF Forget
  <1>2. bg'.at = "idle" /\ versions'.last \in 0 .. MaxSeq
    BY <1>1, BoundsAssumption DEF NoWork, NoVersions
  <1> QED BY <1>1, <1>2, CutShape, GClosed

LEMMA GProcessCrash ==
    ASSUME IInv, GInv, ProcessCrash
    PROVE  GInv'
  <1>1. /\ Forget /\ UNCHANGED <<tables, manifests, current>>
        /\ CutLogs([l \in DOMAIN logs |-> Tear(logs[l]).sound])
    BY DEF ProcessCrash
  <1>2. current' # 0 => SoundManifest(current)'
    BY <1>1 DEF GInv, DescriptorsSound, SoundManifest, Sound, Below, Upto
  <1> QED BY <1>1, <1>2, GForget

LEMMA GMachineCrash ==
    ASSUME IInv, GInv, MachineCrash
    PROVE  GInv'
  <1>1. /\ Forget /\ UNCHANGED <<tables, current>>
        /\ CutLogs([l \in DOMAIN logs |-> Least(logs[l].synced, Tear(logs[l]).sound)])
    BY DEF MachineCrash
  <1>2. PICK lost \in SUBSET DOMAIN manifests :
          manifests' = [m \in DOMAIN manifests |->
              IF m \notin lost THEN manifests[m]
              ELSE IF manifests[m].durable = NeverSynced THEN [manifests[m] EXCEPT !.broken = TRUE]
              ELSE [manifests[m] EXCEPT !.written = manifests[m].durable]]
    BY DEF MachineCrash
  <1>3. ASSUME current # 0 PROVE SoundManifest(current)'
    <2> DEFINE d == manifests[current]
    <2>1. /\ d = [written |-> d.written, durable |-> d.durable, tail |-> d.tail,
                  broken |-> d.broken]
          /\ current \in DOMAIN manifests
      BY <1>3 DEF IInv, FInv, DescriptorShapes, CurrentIsKnown
    <2>2. manifests'[current] = IF current \notin lost THEN d
                                ELSE IF d.durable = NeverSynced THEN [d EXCEPT !.broken = TRUE]
                                ELSE [d EXCEPT !.written = d.durable]
      BY <1>2, <2>1
    <2>3. /\ Sound(d.written)
          /\ d.durable # NeverSynced => /\ Sound(d.durable)
                                 /\ Below(DOMAIN d.durable.tables, d.written.next)
                                 /\ Upto(DOMAIN d.durable.tables, d.written.last)
      BY <1>3 DEF GInv, DescriptorsSound, SoundManifest
    <2> HIDE DEF d
    <2>4. /\ manifests'[current].durable = d.durable
          /\ \/ manifests'[current].written = d.written
             \/ d.durable # NeverSynced /\ manifests'[current].written = d.durable
      BY <2>1, <2>2
    <2> QED BY <1>1, <2>3, <2>4 DEF SoundManifest, Sound, Below, Upto
  <1>4. current' # 0 => SoundManifest(current)'
    BY <1>1, <1>3
  <1> QED BY <1>1, <1>4, GForget

-----------------------------------------------------------------------------
(* The theorems.                                                            *)

LEMMA GNext ==
    ASSUME IInv, GInv, Next
    PROVE  GInv'
  <1>1. CASE Open
    BY <1>1, GNewDB, GRecover, GRecoverLogFile, GNewLog, GWriteDescriptor, GSetCurrentFile,
       GFinishOpen DEF Open
  <1>2. ASSUME NEW w \in Writers, Write(w) \/ WriterStep(w) PROVE GInv'
    BY <1>2, GWriter, GStartGroup DEF WriterStep
  <1>3. CASE Background
    BY <1>3, GBackgroundRefused, GStartFlush, GBuildTable, GStartMerge, GStartMove,
       GOpenOutput, GFinishOutput, GAppendEdit, GSyncEditFails, GInstall DEF Background
  <1> QED BY <1>1, <1>2, <1>3, GGroup, GReader, GProcessCrash, GMachineCrash DEF Next

LEMMA GQuiet ==
    ASSUME GInv, UNCHANGED vars
    PROVE  GInv'
  <1> USE DEF vars, disk, threads
  <1>1. Promised' = Promised /\ Held' = Held /\ (Logging' <=> Logging) /\ Top' = Top
    BY PinnedStays DEF Promised, Held, Merging, Described, Logging, Top
  <1>2. DescriptorsSound' /\ HeldSound'
    BY <1>1 DEF GInv, DescriptorsSound, SoundManifest, Sound, HeldSound, Below, Upto
  <1>3. EditSound' /\ OutputsApart'
    BY <1>1 DEF GInv, EditSound, OutputsApart, Merging, Below, Upto
  <1>4. LogsSound' /\ MemSound'
    BY <1>1 DEF GInv, LogsSound, MemSound, Manifest, Described, Below
  <1> QED BY <1>2, <1>3, <1>4 DEF GInv

\* The numbers stay apart in every state.
THEOREM NumbersApart == Spec => []GInv
  <1>1. IInv /\ GInv /\ [Next]_vars => GInv'
    BY GNext, GQuiet
  <1> QED BY <1>1, GInit, Invariance, PTL DEF Spec

\* No write that a reader or an opening can find has a number that the next group
\* of writers will get, whatever crashed or failed before.
THEOREM SequenceNumbersAreFresh == Spec => []SequencesAreFresh
  <1>1. IInv /\ GInv => SequencesAreFresh
    <2> SUFFICES ASSUME IInv, GInv, phase = "open", NEW s \in Visible \cup Recoverable
                 PROVE  s =< Top
      BY DEF SequencesAreFresh, Top
    <2>1. versions.last \in Nat /\ Top \in Nat /\ versions.last =< Top
      BY Counted
    <2>2. Upto(Held, versions.last)
      BY DEF GInv, HeldSound
    <2>3. CASE s \in Visible
      <3>1. CASE s \in mem \/ (imm # None /\ s \in imm)
        BY <2>1, <3>1 DEF GInv, MemSound
      <3>2. CASE s \in Union(DOMAIN versions.tables)
        <4>1. PICK n \in DOMAIN versions.tables : s \in tables[n]
          BY <3>2 DEF Union
        <4>2. n \in Held
          BY DEF Held
        <4>3. s \in Nat /\ s =< versions.last
          BY <2>2, <4>1, <4>2 DEF Upto
        <4> QED BY <2>1, <4>3
      <3> QED BY <2>3, <3>1, <3>2 DEF Visible
    <2>4. CASE s \in Recoverable
      <3>1. current # 0
        BY <2>4 DEF Recoverable
      <3>2. CASE s \in Union(DOMAIN Described.tables)
        <4>1. PICK n \in DOMAIN Described.tables : s \in tables[n]
          BY <3>2 DEF Union
        <4>2. n \in Held
          BY <3>1 DEF Held, Promised
        <4>3. s \in Nat /\ s =< versions.last
          BY <2>2, <4>1, <4>2 DEF Upto
        <4> QED BY <2>1, <4>3
      <3>3. CASE \E n \in LiveLogs(Described) : s \in Contents(logs[n])
        BY <3>3 DEF LiveLogs, GInv, LogsSound
      <3> QED BY <2>4, <3>1, <3>2, <3>3 DEF Recoverable
    <2> QED BY <2>3, <2>4
  <1> QED BY <1>1, Invariance, NumbersApart, PTL

\* What is written over is the table that a compaction began, while it was empty.
LEMMA TablesKept ==
    ASSUME IInv, GInv, Next, NEW n \in Needed \cap Needed'
    PROVE  tables[n] \in {tables'[n], {}}
  <1> USE DEF Opening
  <1>1. n \in DOMAIN tables /\ n \in DOMAIN tables'
    <2>1. FInv'
      BY FNext
    <2>2. Needed \subseteq DOMAIN tables
      BY DEF IInv, FInv, Needed, EditIsReady, ReferencedExist, DescribedExist
    <2>3. Needed' \subseteq DOMAIN tables'
      BY <2>1 DEF FInv, Needed, EditIsReady, ReferencedExist, DescribedExist
    <2> QED BY <2>2, <2>3
  <1>2. \/ n \in Held
        \/ merging # None /\ merging.out # 0 /\ n = merging.out
        \/ edit # None /\ n \in DOMAIN edit.add
    BY DEF Needed, Held, Merging, Promised
  <1>3. ASSUME NEW d, DeleteObsoleteFiles(d) PROVE tables'[n] = tables[n]
    BY <1>1, <1>3, Survivors
  <1>4. CASE \E l \in DOMAIN logs : RecoverLogFile(l)
    <2>1. PICK l \in DOMAIN logs : RecoverLogFile(l)
      BY <1>4
    <2> DEFINE found == Contents(logs[l])
               add   == IF found = {} THEN <<>> ELSE One(versions.next, 0)
    <2>2. phase = "replaying" /\ merging = None
      BY <2>1 DEF RecoverLogFile, IInv, FInv, Shapes
    <2>3. n # versions.next
      BY <1>2, <2>2 DEF GInv, HeldSound, EditSound, Below
    <2>4. \/ UNCHANGED tables
          \/ tables' = Over([t \in DOMAIN add |-> found], tables)
      BY <2>1 DEF RecoverLogFile, disk
    <2>5. DOMAIN add \subseteq {versions.next}
      BY DEF One
    <2> HIDE DEF found, add
    <2> QED BY <1>1, <2>3, <2>4, <2>5 DEF Over
  <1>5. CASE BuildTable
    <2>1. bg.at = "build" /\ (tables' = tables \/ tables' = Put(tables, bg.out, imm))
      BY <1>5 DEF BuildTable
    <2>2. edit = None
      BY <2>1 DEF IInv, FInv, Shapes, GInv, EditSound, Logging
    <2>3. n # bg.out
      BY <1>2, <2>1, <2>2 DEF GInv, OutputsApart, IInv, FInv, ReferencedExist
    <2> QED BY <1>1, <2>1, <2>3 DEF Put, Over, One
  <1>6. CASE OpenOutput
    <2>1. /\ bg.at = "merge" /\ merging.out = 0
          /\ tables' = tables \/ tables' = Put(tables, versions.next, {})
      BY <1>6 DEF OpenOutput
    <2>2. phase = "open" /\ edit = None
      BY <2>1 DEF IInv, FInv, Shapes, GInv, EditSound, Logging
    <2>3. n # versions.next
      BY <1>2, <2>1, <2>2 DEF GInv, HeldSound, Below
    <2> QED BY <1>1, <2>1, <2>3 DEF Put, Over, One
  <1>7. CASE FinishOutput
    <2>1. /\ bg.at = "merge" /\ merging.out # 0
          /\ tables' = tables \/ tables' = Put(tables, merging.out, Union(merging.in))
      BY <1>7 DEF FinishOutput
    <2>2. tables[merging.out] = {}
      BY <2>1 DEF GInv, OutputsApart, Merging, Logging, IInv, FInv, Shapes
    <2>3. n # merging.out => tables'[n] = tables[n]
      BY <1>1, <2>1 DEF Put, Over, One
    <2> QED BY <2>2, <2>3
  <1>8. CASE FinishOpen \/ Install
    BY <1>3, <1>8 DEF FinishOpen, Install
  <1> QED
    <2>1. CASE Open
      BY <1>4, <1>8, <2>1 DEF Open, NewDB, Recover, NewLog, WriteDescriptor, SetCurrentFile, disk
    <2>2. CASE Background
      BY <1>5, <1>6, <1>7, <1>8, <2>2 DEF Background, BackgroundRefused, StartFlush, StartMerge,
                                          StartMove, AppendEdit, SyncEditFails, disk
    <2>3. CASE GroupStep
      BY <2>3 DEF GroupStep, AddRecord, Sync, FinishGroup, disk
    <2>4. ASSUME NEW w \in Writers, Write(w) \/ WriterStep(w) PROVE UNCHANGED tables
      BY <2>4 DEF Write, WriterStep, GiveUp, Wait, StartGroup, disk
    <2>5. CASE Pin \/ Unpin \/ ProcessCrash \/ MachineCrash
      BY <2>5 DEF Pin, Unpin, ProcessCrash, MachineCrash, disk
    <2> QED BY <2>1, <2>2, <2>3, <2>4, <2>5 DEF Next

LEMMA IsAPrefix ==
    ASSUME NEW S, NEW s \in Seq(S), NEW b \in S
    PROVE  IsPrefix(s, s) /\ IsPrefix(s, Append(s, b))
  <1> DEFINE t == Append(s, b)
  <1>1. /\ Len(s) \in Nat /\ Len(t) = Len(s) + 1
        /\ \A i \in 1 .. Len(s) : t[i] = s[i]
    OBVIOUS
  <1>2. IsPrefix(s, s)
    BY <1>1 DEF IsPrefix
  <1>3. SubSeq(s, 1, Len(s)) = SubSeq(t, 1, Len(s))
    BY <1>1
  <1>4. IsPrefix(s, t)
    BY <1>1, <1>3 DEF IsPrefix
  <1> QED BY <1>2, <1>4

\* A log that is begun has a number that none has.
LEMMA LogsGrow ==
    ASSUME IInv, GInv, Next, phase' # "down", NEW n \in DOMAIN logs \cap DOMAIN logs'
    PROVE  IsPrefix(logs[n].records, logs'[n].records)
  <1> USE DEF Opening
  <1>1. logs[n].records \in Seq(SUBSET Seqs)
    BY DEF GInv, LogsSound
  <1>2. ASSUME logs'[n] = logs[n] PROVE IsPrefix(logs[n].records, logs'[n].records)
    <2>1. {} \in SUBSET Seqs
      OBVIOUS
    <2> QED BY <1>1, <1>2, <2>1, IsAPrefix
  <1>3. ASSUME logs' = Put(logs, versions.next, EmptyLog), n # versions.next
        PROVE  logs'[n] = logs[n]
    BY <1>3 DEF Put, Over, One
  <1>4. CASE Open
    <2>1. CASE NewLog
      <3>1. \/ UNCHANGED logs
            \/ phase = "replaying" /\ edit.left = {} /\ logs' = Put(logs, versions.next, EmptyLog)
        BY <2>1 DEF NewLog, disk
      <3>2. phase = "replaying" /\ edit.left = {} => n < versions.next
        BY DEF GInv, LogsSound
      <3>3. versions.next \in Nat
        BY DEF IInv, FInv, Shapes
      <3> QED BY <1>2, <1>3, <3>1, <3>2, <3>3
    <2>2. CASE FinishOpen
      BY <1>2, <2>2, Survivors DEF FinishOpen
    <2> QED BY <1>2, <1>4, <2>1, <2>2 DEF Open, NewDB, Recover, RecoverLogFile, WriteDescriptor,
                                          SetCurrentFile, disk
  <1>5. CASE Background
    <2>1. CASE Install
      BY <1>2, <2>1, Survivors DEF Install
    <2> QED BY <1>2, <1>5, <2>1 DEF Background, BackgroundRefused, StartFlush, BuildTable,
                  StartMerge, StartMove, OpenOutput, FinishOutput, AppendEdit, SyncEditFails, disk
  <1>6. CASE GroupStep
    <2>1. CASE AddRecord \/ Sync
      <3>1. logs'[n].records \in {logs[n].records, Append(logs[n].records, Batch)}
        BY <2>1, RecordsGrow DEF GInv
      <3>2. Batch \in SUBSET Seqs
        <4>1. group # None
          BY <2>1 DEF AddRecord, Sync
        <4>2. /\ versions.last \in Nat /\ group.size \in Nat /\ MaxSeq \in Nat
              /\ versions.last + group.size =< MaxSeq
          BY <4>1, Counted DEF Top
        <4> QED BY <4>2 DEF Batch, Seqs
      <3> QED BY <1>1, <3>1, <3>2, IsAPrefix
    <2>2. CASE FinishGroup
      BY <1>2, <2>2 DEF FinishGroup, disk
    <2> QED BY <1>6, <2>1, <2>2 DEF GroupStep
  <1>7. ASSUME NEW w \in Writers, Write(w) \/ WriterStep(w)
        PROVE  IsPrefix(logs[n].records, logs'[n].records)
    <2>1. CASE StartGroup(w)
      <3>1. UNCHANGED logs \/ logs' = Put(logs, versions.next, EmptyLog)
        BY <2>1 DEF StartGroup, SwitchMemTable
      <3>2. phase = "open"
        BY <2>1, FrontIsOpen DEF StartGroup
      <3>3. n < versions.next /\ versions.next \in Nat
        BY <3>2 DEF GInv, LogsSound, Below, IInv, FInv, Shapes
      <3> QED BY <1>2, <1>3, <3>1, <3>3
    <2> QED BY <1>2, <1>7, <2>1 DEF WriterStep, Write, GiveUp, Wait, disk
  <1>8. CASE Pin \/ Unpin
    BY <1>2, <1>8 DEF Pin, Unpin, disk
  <1>9. ~ ProcessCrash /\ ~ MachineCrash
    BY DEF ProcessCrash, MachineCrash, Forget
  <1> QED BY <1>4, <1>5, <1>6, <1>7, <1>8, <1>9 DEF Next

\* What NumbersAreFresh says of a step.
NothingOverwritten ==
    /\ \A n \in Needed \cap Needed' : tables[n] \in {tables'[n], {}}
    /\ phase' # "down" =>
           \A n \in DOMAIN logs \cap DOMAIN logs' :
               IsPrefix(logs[n].records, logs'[n].records)

\* No file that is needed is written over, and no log with writes in it begun
\* again, whatever numbers a crashed incarnation had taken.
THEOREM FileNumbersAreFresh == Spec => NumbersAreFresh
  <1>1. IInv /\ GInv /\ [Next]_vars => NothingOverwritten
    <2> SUFFICES ASSUME IInv, GInv, [Next]_vars PROVE NothingOverwritten
      OBVIOUS
    <2>1. CASE Next
      BY <2>1, TablesKept, LogsGrow DEF NothingOverwritten
    <2>2. CASE UNCHANGED vars
      <3>1. \A n \in DOMAIN logs : logs[n].records \in Seq(SUBSET Seqs)
        BY DEF GInv, LogsSound
      <3>2. \A n \in DOMAIN logs : IsPrefix(logs[n].records, logs[n].records)
        <4>1. {} \in SUBSET Seqs
          OBVIOUS
        <4> QED BY <3>1, <4>1, IsAPrefix
      <3> QED BY <2>2, <3>2 DEF NothingOverwritten, vars, disk
    <2> QED BY <2>1, <2>2
  <1>2. [][NothingOverwritten]_vars <=> NumbersAreFresh
    BY DEF NothingOverwritten, NumbersAreFresh
  <1> QED BY <1>1, <1>2, Invariance, NumbersApart, PTL DEF Spec

-----------------------------------------------------------------------------
(* The promises of Store, and the types.                                     *)

\* The writes of the first k batches of a log, and how many of its batches a crash
\* of the process and one of the machine are sure to leave.
Leading(log, k) == UNION {log.records[i] : i \in {i \in 1 .. Len(log.records) : i =< k}}

Readable(log) == Tear(log).sound
Safe(log)     == Least(log.synced, Readable(log))

\* What the current descriptor says after a machine crash, and what it may say
\* then: that, or what it says now.
OnDisk == {manifests[current].durable} \ {NeverSynced}
Says   == {Described} \cup OnDisk

\* What an opening that reads d is sure to find after either crash.
AfterCrash(d) ==
    Union(DOMAIN d.tables)
    \cup UNION {Leading(logs[n], Readable(logs[n])) : n \in LiveLogs(d)}

AfterFailure(d) ==
    Union(DOMAIN d.tables)
    \cup UNION {Leading(logs[n], Safe(logs[n])) : n \in LiveLogs(d)}

\* A write is in one log; what is closed has been closed whole.
LogShapes ==
    /\ \A n \in DOMAIN logs :
          /\ logs[n].synced \in 0 .. Len(logs[n].records)
          /\ Torn(logs[n]) => logs[n].sound \in 0 .. Len(logs[n].records)
          /\ phase # "open" => ~ Torn(logs[n]) /\ logs[n].synced = Len(logs[n].records)
    /\ \A m, n \in DOMAIN logs : m # n => Contents(logs[m]) \cap Contents(logs[n]) = {}
    /\ current = 0 => DOMAIN logs = {}

\* What was promised is where a crash leaves it, whichever descriptor it brings
\* back.  What a log that such a descriptor has replaced holds is in its tables, or
\* is found by nobody: it does not come back later.
Kept ==
    /\ synced \subseteq acked /\ acked \subseteq Stored
    /\ current # 0 =>
       /\ acked \subseteq AfterCrash(Described)
       /\ \A d \in Says :
           /\ synced \subseteq AfterFailure(d)
           /\ d.log =< Described.log
           /\ Union(DOMAIN d.tables) \subseteq Union(DOMAIN Described.tables)
           /\ \A n \in DOMAIN logs :
                 n < d.log => Contents(logs[n]) \cap Stored \subseteq Union(DOMAIN d.tables)

\* The descriptor names nothing that a reader does not find, and is not behind
\* the installed version, unless an append to it failed.
Descends ==
    phase = "open" =>
        /\ Union(DOMAIN Described.tables) \subseteq Visible
        /\ Described.log =< logNumber
        /\ ~ Manifest.tail =>
            /\ Union(DOMAIN versions.tables) \subseteq Union(DOMAIN Described.tables)
            /\ versions.log =< Described.log
            /\ \A d \in OnDisk : d.log =< versions.log

\* A write that is in the log, and has its number, but is not answered.
Began(n, s) == n = logNumber /\ group # None /\ group.at # "append" /\ s \in Batch

\* The writes of the memtable are in its log only.
LogsBehind ==
    phase = "open" =>
        /\ mem \subseteq Seqs
        /\ logNumber \in DOMAIN logs
        /\ \A n \in DOMAIN logs : \A s \in Contents(logs[n]) :
              (s =< versions.last) \/ Began(n, s)
        /\ \A n \in DOMAIN logs \ {logNumber} : mem \cap Contents(logs[n]) = {}

\* The edit that is logged takes no write away: a flush adds what is in imm_ and
\* gives its log up, a compaction adds what is in the tables it deletes.
EditMeans ==
    /\ bg.at \in {"append", "sync"} =>
        /\ edit.kind \in {"flush", "merge", "move"}
        /\ edit.kind = "flush" =>
              imm # None /\ edit.del = {} /\ edit.log = logNumber /\ Union(DOMAIN edit.add) = imm
        /\ edit.kind # "flush" =>
              /\ edit.del \subseteq DOMAIN versions.tables /\ edit.log = versions.log
              /\ Union(DOMAIN edit.add) = Union(edit.del)
        /\ edit.kind = "move" => merging = None
    /\ bg.at \in {"idle", "scheduled"} => merging = None
    /\ bg.at = "sync" /\ ~ Manifest.tail =>
        /\ Described.log = edit.log
        /\ Union(DOMAIN edit.add) \subseteq Union(DOMAIN Described.tables)
    /\ merging # None \/ bg.at = "merge" => merging.in \subseteq DOMAIN versions.tables
    /\ bg.at = "build" => imm # None

\* A group that wants a sync has a leader that does, and is the last batch of the
\* log when it is answered.
GroupLogged ==
    group # None =>
        /\ \A i \in 1 .. group.size : queue[i] \in Syncing => queue[1] \in Syncing
        /\ group.at \in {"sync", "insert"} =>
              LET log == logs[logNumber]
              IN  /\ Len(log.records) > 0 /\ log.records[Len(log.records)] = Batch
                  /\ group.at = "insert" /\ queue[1] \in Syncing => log.synced = Len(log.records)

\* The logs that an opening has yet to read.
LeftLogs == IF phase = "replaying" THEN edit.left ELSE {}

\* What an opening has recovered, and what is left, is what it would find.
Replayed ==
    /\ phase # "open" => ~ bgError
    /\ phase \in {"recovered", "described", "renamed"} => logNumber \in DOMAIN logs
    /\ phase \in {"replaying", "recovered", "described"} =>
        /\ versions.tables = Described.tables /\ versions.log = Described.log
        /\ LeftLogs \subseteq DOMAIN logs
        /\ Recoverable = Union(DOMAIN edit.add) \cup Union(DOMAIN versions.tables)
                         \cup UNION {Contents(logs[n]) : n \in LeftLogs}

PInv == LogShapes /\ Kept /\ Descends /\ LogsBehind /\ EditMeans /\ GroupLogged /\ Replayed

\* What a reader and an opening find stays, and so does what was promised.
Quiet == Stored' = Stored /\ acked' = acked /\ synced' = synced

-----------------------------------------------------------------------------
(* Batches of a log.                                                        *)

\* A write is in a log, or in its first k batches, when one of them has it.
LEMMA InContents ==
    ASSUME NEW log, NEW S, log.records \in Seq(S), NEW x
    PROVE  x \in Contents(log) <=> \E i \in 1 .. Len(log.records) : x \in log.records[i]
  <1> DEFINE r == log.records
  <1>1. DOMAIN r = 1 .. Len(r)
    OBVIOUS
  <1>2. Contents(log) = UNION {r[i] : i \in DOMAIN r}
    BY DEF Contents, Range
  <1> QED BY <1>1, <1>2

LEMMA InLeading ==
    ASSUME NEW log, NEW k, NEW x
    PROVE  x \in Leading(log, k) <=>
               \E i \in 1 .. Len(log.records) : i =< k /\ x \in log.records[i]
  BY DEF Leading

\* All that is in a log, when nothing behind some batch counts as lost.
LEMMA LeadingAll ==
    ASSUME NEW log, NEW S, log.records \in Seq(S)
    PROVE  /\ Leading(log, Len(log.records)) = Contents(log)
           /\ \A k : Leading(log, k) \subseteq Contents(log)
  <1>1. \A x : x \in Contents(log) <=> \E i \in 1 .. Len(log.records) : x \in log.records[i]
    BY InContents
  <1>2. \A k, x : x \in Leading(log, k) <=>
            \E i \in 1 .. Len(log.records) : i =< k /\ x \in log.records[i]
    BY InLeading
  <1>3. \A i \in 1 .. Len(log.records) : i =< Len(log.records)
    OBVIOUS
  <1> QED BY <1>1, <1>2, <1>3

\* A log with more batches, of which no fewer count.
LEMMA LeadingGrows ==
    ASSUME NEW old, NEW new, NEW S, old.records \in Seq(S), new.records \in Seq(S),
           Len(old.records) =< Len(new.records),
           \A i \in 1 .. Len(old.records) : new.records[i] = old.records[i],
           NEW j \in Int, NEW k \in Int, j =< k
    PROVE  Leading(old, j) \subseteq Leading(new, k)
  <1> SUFFICES ASSUME NEW x \in Leading(old, j) PROVE x \in Leading(new, k)
    OBVIOUS
  <1>1. PICK i \in 1 .. Len(old.records) : i =< j /\ x \in old.records[i]
    BY InLeading
  <1>2. i \in 1 .. Len(new.records) /\ i =< k /\ x \in new.records[i]
    BY <1>1
  <1> QED BY <1>2, InLeading

\* Tables with the same writes in them.
LEMMA SameUnion ==
    ASSUME NEW f, NEW g, NEW S, \A n \in S : f[n] = g[n]
    PROVE  UNION {f[n] : n \in S} = UNION {g[n] : n \in S}
  <1>1. {f[n] : n \in S} = {g[n] : n \in S}
    OBVIOUS
  <1> QED BY <1>1

-----------------------------------------------------------------------------
(* What is known while the database is open, and what light steps leave.    *)

\* What an open database is known to be by the other invariants.
LEMMA OpenFacts ==
    ASSUME IInv, GInv, phase = "open"
    PROVE  /\ current # 0 /\ current \in DOMAIN manifests /\ current = versions.manifest
           /\ Manifest = manifests[current] /\ Described = Manifest.written
           /\ versions.last \in Nat /\ versions.log \in Nat /\ logNumber \in Nat
           /\ versions.next \in Nat /\ logNumber < versions.next
           /\ versions.log =< logNumber
           /\ Described.log \in Nat
           /\ Below(DOMAIN logs, versions.next)
           /\ bg.at \in {"append", "sync"} <=> Logging
  <1> USE DEF Opening
  <1>1. current # 0 /\ current \in DOMAIN manifests /\ current = versions.manifest
    BY DEF IInv, FInv, CurrentIsKnown
  <1>2. Manifest = manifests[current] /\ Described = Manifest.written
    BY <1>1 DEF Manifest, Described
  <1>3. Described.log \in Nat
    BY <1>1, <1>2 DEF GInv, DescriptorsSound, SoundManifest, Sound
  <1>4. /\ versions.log \in Nat /\ logNumber \in Nat /\ logNumber < versions.next
        /\ versions.log =< logNumber /\ Below(DOMAIN logs, versions.next)
    BY DEF GInv, LogsSound
  <1> QED BY <1>1, <1>2, <1>3, <1>4, Counted DEF Logging, IInv, FInv, Shapes

\* A crash brings back what is said now, or what was said when it was synced.
LEMMA SaysWhat ==
    ASSUME NEW d \in Says
    PROVE  d = Described \/ (manifests[current].durable # NeverSynced
                             /\ d = manifests[current].durable)
  BY DEF Says, OnDisk

\* Which tables the current descriptor names.
LEMMA SaysPromised ==
    ASSUME current # 0, NEW d \in Says
    PROVE  DOMAIN d.tables \subseteq Promised
  BY SaysWhat DEF Promised

\* The descriptor, the logs and the promises stay, and so does all that a reader
\* finds.
LEMMA KeptSame ==
    ASSUME Kept, UNCHANGED <<logs, current>>, Quiet,
           Described' = Described, OnDisk' = OnDisk,
           \A n \in Promised : tables'[n] = tables[n]
    PROVE  Kept'
  <1> USE DEF Quiet
  <1>1. synced' \subseteq acked' /\ acked' \subseteq Stored'
    BY DEF Kept
  <1>2. ASSUME current' # 0
        PROVE  /\ acked' \subseteq AfterCrash(Described)'
               /\ \A d \in Says' :
                    /\ synced' \subseteq (Union(DOMAIN d.tables))'
                          \cup UNION {Leading(logs'[n], Safe(logs'[n])) : n \in LiveLogs(d)'}
                    /\ d.log =< Described'.log
                    /\ (Union(DOMAIN d.tables))' \subseteq (Union(DOMAIN Described.tables))'
                    /\ \A n \in DOMAIN logs' :
                         n < d.log =>
                             Contents(logs'[n]) \cap Stored' \subseteq (Union(DOMAIN d.tables))'
    <2>1. Described' = Described /\ Says' = Says /\ OnDisk' = OnDisk /\ Described \in Says
      BY DEF Says
    <2>2. \A d \in Says : UNION {tables'[n] : n \in DOMAIN d.tables} = Union(DOMAIN d.tables)
      BY <1>2, SaysPromised, SameUnion DEF Union
    <2>3. acked \subseteq AfterCrash(Described)
      BY <1>2 DEF Kept
    <2>4. acked' \subseteq AfterCrash(Described)'
      BY <2>1, <2>2, <2>3 DEF AfterCrash, LiveLogs, Union
    <2>5. ASSUME NEW d \in Says
          PROVE  /\ synced' \subseteq (Union(DOMAIN d.tables))'
                          \cup UNION {Leading(logs'[n], Safe(logs'[n])) : n \in LiveLogs(d)'}
                 /\ d.log =< Described'.log
                 /\ (Union(DOMAIN d.tables))' \subseteq (Union(DOMAIN Described.tables))'
                 /\ \A n \in DOMAIN logs' :
                      n < d.log =>
                          Contents(logs'[n]) \cap Stored' \subseteq (Union(DOMAIN d.tables))'
      BY <1>2, <2>1, <2>2, <2>5 DEF Kept, AfterFailure, LiveLogs, Union
    <2> QED BY <2>1, <2>4, <2>5
  <1> QED BY <1>1, <1>2 DEF Kept, AfterFailure

\* The steps that touch no table, log or descriptor that anything said is about.
LEMMA PLight ==
    ASSUME IInv, GInv, PInv, phase = "open",
           UNCHANGED <<logs, manifests, current, phase, mem, imm, logNumber, acked, synced>>,
           \A n \in Promised \cup DOMAIN versions.tables : tables'[n] = tables[n],
           versions'.last = versions.last, versions'.log = versions.log,
           versions'.tables = versions.tables, versions'.manifest = versions.manifest
    PROVE  /\ Quiet /\ LogShapes' /\ Kept' /\ Descends' /\ Replayed'
           /\ (group' = group \/ \A n, s : Began(n, s) => Began(n, s)') => LogsBehind'
  <1>1. /\ Described' = Described /\ Says' = Says /\ OnDisk' = OnDisk
        /\ Manifest' = Manifest /\ Visible' = Visible
    <2>1. UNION {tables'[n] : n \in DOMAIN versions.tables} = Union(DOMAIN versions.tables)
      BY SameUnion DEF Union
    <2> QED BY <2>1 DEF Described, Says, OnDisk, Manifest, Visible, Union
  <1>2. Quiet
    BY <1>1 DEF Quiet, Stored
  <1>0. /\ (Union(DOMAIN versions.tables))' = Union(DOMAIN versions.tables)
        /\ (Union(DOMAIN Described.tables))' = Union(DOMAIN Described.tables)
    <2>1. DOMAIN Described.tables \subseteq Promised
      BY OpenFacts DEF Promised
    <2>2. UNION {tables'[n] : n \in DOMAIN versions.tables} = Union(DOMAIN versions.tables)
      BY SameUnion DEF Union
    <2>3. UNION {tables'[n] : n \in DOMAIN Described.tables} = Union(DOMAIN Described.tables)
      BY <2>1, SameUnion DEF Union
    <2> QED BY <1>1, <2>2, <2>3 DEF Union
  <1>3. LogShapes'
    BY DEF PInv, LogShapes
  <1>4. Kept'
    BY <1>1, <1>2, KeptSame DEF PInv
  <1>5. Descends'
    BY <1>0, <1>1 DEF PInv, Descends
  <1>6. Replayed'
    BY DEF Replayed
  <1>7. ASSUME group' = group \/ \A n, s : Began(n, s) => Began(n, s)' PROVE LogsBehind'
    <2>1. \A n, s : Began(n, s) => Began(n, s)'
      BY <1>7 DEF Began, Batch
    <2> QED BY <2>1 DEF PInv, LogsBehind
  <1> QED BY <1>2, <1>3, <1>4, <1>5, <1>6, <1>7

\* And what the background thread does, when it stays out of the descriptor.
LEMMA EditSame ==
    ASSUME EditMeans,
           UNCHANGED <<tables, manifests, current, logNumber, edit>>,
           versions'.log = versions.log, versions'.tables = versions.tables,
           versions'.manifest = versions.manifest,
           imm' = imm \/ imm = None, bg'.at = bg.at, merging' = merging
    PROVE  EditMeans'
  <1>1. Described' = Described /\ Manifest' = Manifest
    BY DEF Described, Manifest
  <1>2. /\ (bg.at \in {"append", "sync"} /\ edit.kind = "flush") \/ bg.at = "build" => imm' = imm
    BY DEF EditMeans
  <1> QED BY <1>1, <1>2 DEF EditMeans, Union

\* No edit is logged and no table built: EditMeans then speaks of compactions only.
LEMMA EditIdle ==
    ASSUME bg'.at \notin {"append", "sync", "build"},
           merging' # None \/ bg'.at = "merge" =>
               /\ EditMeans /\ merging' = merging /\ (merging # None \/ bg.at = "merge")
               /\ DOMAIN versions.tables \subseteq DOMAIN versions'.tables,
           bg'.at \in {"idle", "scheduled"} => merging' = None
    PROVE  EditMeans'
  BY DEF EditMeans

-----------------------------------------------------------------------------
(* Writing.                                                                 *)

\* The front of the queue stays, and so does what is known of the group.
LEMMA GroupSame ==
    ASSUME IInv, GroupLogged, UNCHANGED <<logs, logNumber, group>>,
           versions'.last = versions.last,
           group # None => \A i \in 1 .. Len(queue) : queue'[i] = queue[i]
    PROVE  GroupLogged'
  <1>1. CASE group = None
    BY <1>1 DEF GroupLogged
  <1>2. CASE group # None
    <2>1. group.size \in 1 .. Len(queue) /\ Len(queue) \in Nat
      BY <1>2 DEF IInv, QInv, Grouped, InLine
    <2>2. \A i \in 1 .. group.size : queue'[i] = queue[i]
      BY <1>2, <2>1
    <2>3. 1 \in 1 .. group.size
      BY <2>1
    <2>4. Batch' = Batch
      BY DEF Batch
    <2> QED BY <1>2, <2>2, <2>3, <2>4 DEF GroupLogged
  <1> QED BY <1>1, <1>2

\* Joining the queue, giving up and going to sleep touch nothing stored.
LEMMA PWriter ==
    ASSUME IInv, GInv, PInv, NEW w \in Writers, Write(w) \/ GiveUp(w) \/ Wait(w)
    PROVE  PInv' /\ Quiet
  <1> USE DEF history, disk
  <1>1. phase = "open"
    BY FrontIsOpen DEF Write, GiveUp, Wait, IInv, QInv
  <1>2. UNCHANGED <<logs, tables, manifests, current, phase, mem, imm, logNumber, acked, synced,
                    versions, group, edit, bg, merging>>
    BY DEF Write, GiveUp, Wait
  <1>3. EditMeans'
    BY <1>2, EditSame DEF PInv
  <1>4. group # None => \A i \in 1 .. Len(queue) : queue'[i] = queue[i]
    <2>1. CASE Write(w)
      BY <2>1 DEF Write, IInv, QInv, InLine
    <2>2. CASE GiveUp(w)
      <3>1. PICK v \in Writers : group # None => writer[v] = "leading"
        BY <2>2 DEF IInv, QInv, Grouped
      <3>2. group # None => v = queue[1] /\ w = queue[1]
        BY <2>2, <3>1, OnlyFirst DEF GiveUp, IInv, QInv
      <3> QED BY <2>2, <3>1, <3>2 DEF GiveUp
    <2>3. CASE Wait(w)
      BY <2>3 DEF Wait
    <2> QED BY <2>1, <2>2, <2>3
  <1>5. GroupLogged'
    BY <1>2, <1>4, GroupSame DEF PInv
  <1> QED BY <1>1, <1>2, <1>3, <1>5, PLight DEF PInv

\* The logs that a descriptor replaced by tables are those before any it needs.
LEMMA SaysLogs ==
    ASSUME IInv, GInv, current # 0, Kept, NEW d \in Says
    PROVE  /\ d.log \in Nat /\ Described.log \in Nat /\ d.log =< Described.log
           /\ \A n \in DOMAIN logs : n \in Nat
  <1>1. SoundManifest(current)
    BY DEF GInv, DescriptorsSound
  <1>2. d.log \in Nat /\ Described.log \in Nat
    BY <1>1, SaysWhat DEF SoundManifest, Sound, Described
  <1> QED BY <1>2 DEF Kept, IInv, FInv, Shapes

\* Logs that grow, or are begun, behind those that a descriptor has replaced.
LEMMA KeptLogs ==
    ASSUME Kept, Quiet, current # 0, UNCHANGED <<tables, manifests, current>>,
           \A n \in DOMAIN logs :
              /\ n \in DOMAIN logs'
              /\ Leading(logs[n], Readable(logs[n])) \subseteq Leading(logs'[n], Readable(logs'[n]))
              /\ Leading(logs[n], Safe(logs[n])) \subseteq Leading(logs'[n], Safe(logs'[n])),
           \A d \in Says : \A n \in DOMAIN logs' :
              n < d.log => n \in DOMAIN logs /\ Contents(logs'[n]) \subseteq Contents(logs[n])
    PROVE  Kept'
  <1> USE DEF Quiet
  <1>1. Described' = Described /\ Says' = Says /\ OnDisk' = OnDisk /\ Described \in Says
    BY DEF Described, Says, OnDisk
  <1>2. synced' \subseteq acked' /\ acked' \subseteq Stored'
    BY DEF Kept
  <1>3. acked' \subseteq AfterCrash(Described)'
    <2>1. acked \subseteq AfterCrash(Described)
      BY DEF Kept
    <2>2. AfterCrash(Described) \subseteq AfterCrash(Described)'
      BY <1>1 DEF AfterCrash, LiveLogs, Union
    <2> QED BY <2>1, <2>2
  <1>4. ASSUME NEW d \in Says
        PROVE  /\ synced' \subseteq (Union(DOMAIN d.tables))'
                     \cup UNION {Leading(logs'[n], Safe(logs'[n])) : n \in LiveLogs(d)'}
               /\ d.log =< Described'.log
               /\ (Union(DOMAIN d.tables))' \subseteq (Union(DOMAIN Described.tables))'
               /\ \A n \in DOMAIN logs' :
                    n < d.log =>
                        Contents(logs'[n]) \cap Stored' \subseteq (Union(DOMAIN d.tables))'
    <2>1. synced \subseteq AfterFailure(d) /\ d.log =< Described.log
          /\ Union(DOMAIN d.tables) \subseteq Union(DOMAIN Described.tables)
          /\ \A n \in DOMAIN logs :
                n < d.log => Contents(logs[n]) \cap Stored \subseteq Union(DOMAIN d.tables)
      BY DEF Kept
    <2>2. AfterFailure(d) \subseteq (Union(DOMAIN d.tables))'
                     \cup UNION {Leading(logs'[n], Safe(logs'[n])) : n \in LiveLogs(d)'}
      BY DEF AfterFailure, LiveLogs, Union
    <2> QED BY <1>1, <2>1, <2>2 DEF Union
  <1> QED BY <1>1, <1>2, <1>3, <1>4 DEF Kept, AfterFailure

\* A memtable that is switched keeps its log, and the new log has no writes.
LEMMA PStartGroup ==
    ASSUME IInv, GInv, PInv, NEW w \in Writers, StartGroup(w)
    PROVE  PInv' /\ Quiet
  <1> USE DEF history, disk
  <1>1. phase = "open" /\ group = None /\ w = queue[1]
    <2>1. phase = "open" /\ w = queue[1]
      BY FrontIsOpen, OnlyFirst DEF StartGroup, IInv, QInv
    <2>2. ASSUME group # None PROVE FALSE
      <3>1. PICK v \in Writers : writer[v] = "leading"
        BY <2>2 DEF IInv, QInv, Grouped
      <3> QED BY <2>1, <3>1, OnlyFirst DEF StartGroup, IInv, QInv
    <2> QED BY <2>1, <2>2
  <1>2. /\ UNCHANGED <<tables, manifests, current, phase, edit, merging, queue, acked, synced>>
        /\ SwitchMemTable /\ ~ MustWait
    BY DEF StartGroup
  <1>3. PICK n \in 1 .. Len(queue) : /\ \A i \in 1 .. n : MayJoin(w, queue[i])
                                     /\ group' = [size |-> n, at |-> "append"]
    BY DEF StartGroup
  <1>4. group' # None /\ group'.at = "append" /\ group'.size = n
    <2>1. Len(queue) \in Nat
      BY Counted
    <2>2. group' \in Groups
      BY <1>3, <2>1 DEF Groups
    <2> QED BY <1>3, <2>2, NoneAssumption DEF Groups
  <1>5. GroupLogged'
    BY <1>1, <1>2, <1>3, <1>4 DEF GroupLogged, MayJoin
  <1>6. CASE HasRoom
    <2>1. UNCHANGED <<logs, logNumber, versions, mem, imm, bg>>
      BY <1>2, <1>6 DEF SwitchMemTable
    <2>2. EditMeans'
      BY <1>2, <2>1, EditSame DEF PInv
    <2>3. \A m, s : ~ Began(m, s)
      BY <1>1 DEF Began
    <2> QED BY <1>1, <1>2, <1>5, <2>1, <2>2, <2>3, PLight DEF PInv
  <1>7. CASE ~ HasRoom
    <2>1. /\ logNumber' = versions.next /\ logs' = Put(logs, versions.next, EmptyLog)
          /\ versions' = [versions EXCEPT !.next = @ + 1]
          /\ imm' = mem /\ mem' = {} /\ imm = None
          /\ bg' = IF bg.at = "idle" THEN Scheduled ELSE bg
      BY <1>2, <1>7 DEF SwitchMemTable, NewFileNumber, MustWait
    <2>2. mem \subseteq Seqs /\ mem # None /\ mem # {}
      <3>1. mem \subseteq Seqs
        BY <1>1 DEF PInv, LogsBehind
      <3>2. mem # {}
        <4>1. Cardinality({}) = 0 /\ WriteBufferSize \in Nat
          BY FS_EmptySet, BoundsAssumption
        <4>2. Cardinality({}) =< WriteBufferSize
          BY <4>1
        <4> QED BY <1>7, <4>2 DEF HasRoom
      <3> QED BY <3>1, <3>2, NoneAssumption DEF Seqs
    <2>3. /\ versions' = [next |-> versions.next + 1, last |-> versions.last,
                          log |-> versions.log, manifest |-> versions.manifest,
                          tables |-> versions.tables]
      BY <2>1 DEF IInv, FInv, Shapes
    <2>4. /\ versions.next \notin DOMAIN logs /\ versions.next \in Nat
          /\ \A m \in DOMAIN logs : m \in Nat /\ m < versions.next
      BY <1>1, OpenFacts DEF Below
    <2>5. /\ DOMAIN logs' = DOMAIN logs \cup {versions.next}
          /\ logs'[versions.next] = EmptyLog
          /\ \A m \in DOMAIN logs : logs'[m] = logs[m]
      BY <2>1, <2>4 DEF Put, Over, One
    <2>6. Contents(EmptyLog) = {} /\ EmptyLog.synced = 0 /\ Len(EmptyLog.records) = 0
          /\ ~ Torn(EmptyLog)
      BY DEF EmptyLog, Contents, Range, Torn
    <2>7. /\ Described' = Described /\ Says' = Says /\ OnDisk' = OnDisk /\ Manifest' = Manifest
          /\ Visible' = Visible
      BY <2>1, <2>2, <2>3, <1>2 DEF Described, Says, OnDisk, Manifest, Visible, Union
    <2>8. Quiet
      BY <1>1, <1>2, <2>7 DEF Quiet, Stored
    <2>9. LogShapes'
      <3>1. \A m \in DOMAIN logs' :
              /\ logs'[m].synced \in 0 .. Len(logs'[m].records)
              /\ Torn(logs'[m]) => logs'[m].sound \in 0 .. Len(logs'[m].records)
        BY <2>5, <2>6 DEF PInv, LogShapes
      <3>2. \A m, k \in DOMAIN logs' :
              m # k => Contents(logs'[m]) \cap Contents(logs'[k]) = {}
        BY <2>5, <2>6 DEF PInv, LogShapes
      <3>3. phase' = "open" /\ current' # 0
        BY <1>1, <1>2, OpenFacts
      <3> QED BY <3>1, <3>2, <3>3 DEF LogShapes
    <2>10. Kept'
      <3>1. current # 0
        BY <1>1, OpenFacts
      <3>2. \A d \in Says : \A m \in DOMAIN logs' :
              m < d.log => m \in DOMAIN logs /\ Contents(logs'[m]) \subseteq Contents(logs[m])
        <4> SUFFICES ASSUME NEW d \in Says, NEW m \in DOMAIN logs', m < d.log
                     PROVE  m \in DOMAIN logs /\ Contents(logs'[m]) \subseteq Contents(logs[m])
          OBVIOUS
        <4>1. d.log =< Described.log /\ d.log \in Nat /\ Described.log \in Nat
          BY <3>1, SaysLogs DEF PInv
        <4>2. Described.log =< logNumber /\ logNumber < versions.next /\ logNumber \in Nat
          BY <1>1, OpenFacts DEF PInv, Descends
        <4>3. m # versions.next
          BY <2>4, <4>1, <4>2
        <4> QED BY <2>5, <4>3
      <3> QED BY <1>2, <2>5, <2>8, <3>1, <3>2, KeptLogs DEF PInv
    <2>11. Descends'
      <3>1. Described.log =< logNumber'
        BY <1>1, <2>1, OpenFacts DEF PInv, Descends
      <3> QED BY <1>1, <1>2, <2>3, <2>7, <3>1 DEF PInv, Descends, Union
    <2>12. LogsBehind'
      <3>1. \A m \in DOMAIN logs : \A s \in Contents(logs[m]) : s =< versions.last
        BY <1>1 DEF PInv, LogsBehind, Began
      <3> QED BY <2>1, <2>3, <2>5, <2>6, <3>1 DEF LogsBehind
    <2>13. EditMeans'
      <3>1. CASE bg.at = "idle"
        <4>1. bg'.at \notin {"append", "sync", "build", "merge"}
          BY <2>1, <3>1 DEF Scheduled
        <4>2. merging' = None
          BY <1>2, <3>1 DEF PInv, EditMeans
        <4> QED BY <1>2, <2>3, <4>1, <4>2, EditIdle DEF PInv
      <3>2. CASE bg.at # "idle"
        <4>1. bg' = bg /\ edit' = edit /\ merging' = merging
          BY <1>2, <2>1, <3>2
        <4>2. ~ (bg.at \in {"append", "sync"} /\ edit.kind = "flush") /\ bg.at # "build"
          BY <2>1 DEF PInv, EditMeans
        <4>3. versions'.tables = versions.tables /\ versions'.log = versions.log
          BY <2>3
        <4>4. \A S : Union(S)' = Union(S)
          BY <1>2 DEF Union
        <4>5. EditMeans
          BY DEF PInv
        <4> QED BY <2>7, <4>1, <4>2, <4>3, <4>4, <4>5 DEF EditMeans
      <3> QED BY <3>1, <3>2
    <2>14. Replayed'
      BY <1>1, <1>2 DEF Replayed
    <2> QED BY <1>5, <2>8, <2>9, <2>10, <2>11, <2>12, <2>13, <2>14 DEF PInv
  <1> QED BY <1>6, <1>7

\* A log and what one append or one sync makes of it.
LEMMA Numbers ==
    ASSUME NEW log, NEW S, log.records \in Seq(S), log.synced \in 0 .. Len(log.records),
           Torn(log) => log.sound \in 0 .. Len(log.records),
           log = [records |-> log.records, synced |-> log.synced, sound |-> log.sound]
    PROVE  /\ Len(log.records) \in Nat /\ log.synced \in Nat
           /\ Readable(log) \in 0 .. Len(log.records)
           /\ Readable(log) = IF Torn(log) THEN log.sound ELSE Len(log.records)
           /\ Safe(log) \in Nat /\ Safe(log) =< Readable(log) /\ Safe(log) =< log.synced
           /\ Safe(log) = Least(log.synced, Readable(log))
  <1>1. Len(log.records) \in Nat /\ log.synced \in Nat
    OBVIOUS
  <1>2. Tear(log) = [records |-> log.records, synced |-> log.synced,
                     sound |-> IF Torn(log) THEN log.sound ELSE Len(log.records)]
    BY DEF Tear
  <1>3. Readable(log) = IF Torn(log) THEN log.sound ELSE Len(log.records)
    BY <1>2 DEF Readable
  <1>4. Readable(log) \in 0 .. Len(log.records)
    BY <1>1, <1>3
  <1> QED BY <1>1, <1>3, <1>4 DEF Safe, Least

\* One more batch, or an append that failed, behind those that a crash leaves.
LEMMA LogGrows ==
    ASSUME NEW log, NEW S, NEW b \in S, log.records \in Seq(S),
           log.synced \in 0 .. Len(log.records),
           Torn(log) => log.sound \in 0 .. Len(log.records),
           log = [records |-> log.records, synced |-> log.synced, sound |-> log.sound],
           NEW new,
           \/ new = [records |-> Append(log.records, b), synced |-> log.synced,
                     sound |-> log.sound]
           \/ new = Tear(log)
           \/ new = [records |-> log.records, synced |-> Len(log.records), sound |-> log.sound]
    PROVE  /\ new.records \in Seq(S) /\ new.synced \in 0 .. Len(new.records)
           /\ Torn(new) => new.sound \in 0 .. Len(new.records)
           /\ Leading(log, Readable(log)) \subseteq Leading(new, Readable(new))
           /\ Leading(log, Safe(log)) \subseteq Leading(new, Safe(new))
  <1> DEFINE r == log.records
  <1>1. r \in Seq(S) /\ Len(r) \in Nat
    OBVIOUS
  <1>2. /\ Append(r, b) \in Seq(S) /\ Len(Append(r, b)) = Len(r) + 1
        /\ \A i \in 1 .. Len(r) : Append(r, b)[i] = r[i]
    OBVIOUS
  <1>3. \/ /\ new.records = Append(r, b) /\ new.synced = log.synced /\ new.sound = log.sound
           /\ new = [records |-> new.records, synced |-> new.synced, sound |-> new.sound]
        \/ /\ new.records = r /\ new.synced = log.synced
           /\ new.sound = IF Torn(log) THEN log.sound ELSE Len(r)
           /\ new = [records |-> new.records, synced |-> new.synced, sound |-> new.sound]
        \/ /\ new.records = r /\ new.synced = Len(r) /\ new.sound = log.sound
           /\ new = [records |-> new.records, synced |-> new.synced, sound |-> new.sound]
    BY DEF Tear
  <1> HIDE DEF r
  <1>4. /\ new.records \in Seq(S) /\ Len(r) =< Len(new.records) /\ Len(new.records) \in Nat
        /\ \A i \in 1 .. Len(r) : new.records[i] = r[i]
    <2>1. CASE new.records = Append(r, b)
      BY <1>1, <1>2, <2>1
    <2>2. CASE new.records = r
      BY <1>1, <2>2
    <2> QED BY <1>3, <2>1, <2>2
  <1>5. log.synced \in 0 .. Len(r) /\ (Torn(log) => log.sound \in 0 .. Len(r))
    BY DEF r
  <1>6. new.synced \in 0 .. Len(new.records) /\ log.synced =< new.synced
    BY <1>1, <1>2, <1>3, <1>5
  <1>7. Torn(new) => new.sound \in 0 .. Len(new.records)
    BY <1>1, <1>2, <1>3, <1>5 DEF Torn
  <1>8. Torn(log) => Torn(new) /\ new.sound = log.sound
    BY <1>3 DEF Torn
  <1>9. ~ Torn(log) /\ Torn(new) => new.sound = Len(r)
    BY <1>3 DEF Torn
  <1>10. /\ Readable(log) \in 0 .. Len(r)
         /\ Readable(log) = IF Torn(log) THEN log.sound ELSE Len(r)
         /\ Safe(log) = Least(log.synced, Readable(log)) /\ Safe(log) \in Nat
    BY <1>5, Numbers DEF r
  <1>11. /\ Readable(new) \in Nat
         /\ Readable(new) = IF Torn(new) THEN new.sound ELSE Len(new.records)
         /\ Safe(new) = Least(new.synced, Readable(new)) /\ Safe(new) \in Nat
    BY <1>3, <1>4, <1>6, <1>7, Numbers
  <1>12. Readable(log) =< Readable(new)
    BY <1>1, <1>4, <1>5, <1>8, <1>9, <1>10, <1>11
  <1>13. Safe(log) =< Safe(new)
    <2>1. log.synced \in Nat /\ new.synced \in Nat /\ Readable(log) \in Nat
      BY <1>1, <1>4, <1>5, <1>6, <1>10
    <2> QED BY <2>1, <1>6, <1>10, <1>11, <1>12 DEF Least
  <1>14. ASSUME NEW j \in Int, NEW k \in Int, j =< k
         PROVE  Leading(log, j) \subseteq Leading(new, k)
    <2>1. /\ log.records \in Seq(S) /\ Len(log.records) =< Len(new.records)
          /\ \A i \in 1 .. Len(log.records) : new.records[i] = log.records[i]
      BY <1>4 DEF r
    <2> HIDE <1>1, <1>2, <1>3
    <2> QED BY <1>4, <1>14, <2>1, LeadingGrows
  <1>15. /\ Leading(log, Readable(log)) \subseteq Leading(new, Readable(new))
         /\ Leading(log, Safe(log)) \subseteq Leading(new, Safe(new))
    <2>1. Readable(log) \in Int /\ Readable(new) \in Int /\ Safe(log) \in Int /\ Safe(new) \in Int
      BY <1>1, <1>10, <1>11
    <2> QED BY <1>12, <1>13, <1>14, <2>1
  <1> QED BY <1>4, <1>6, <1>7, <1>15

\* The numbers of a group are none that is in use.
LEMMA BatchIsNew ==
    ASSUME IInv, GInv, group # None
    PROVE  /\ Batch \subseteq Seqs
           /\ \A s \in Batch : versions.last < s
  <1>1. /\ versions.last \in Nat /\ group.size \in Nat /\ Top = versions.last + group.size
        /\ Top =< MaxSeq /\ MaxSeq \in Nat
    BY Counted DEF Top
  <1> QED BY <1>1 DEF Batch, Seqs

\* What is put into the log of the memtable has numbers that no log has.
LEMMA PLogGrows ==
    ASSUME IInv, GInv, PInv, AddRecord \/ Sync,
           NEW new \in {[logs[logNumber] EXCEPT !.records = Append(@, Batch)],
                        Tear(logs[logNumber]),
                        [logs[logNumber] EXCEPT !.synced = Len(logs[logNumber].records)]},
           logs' = [logs EXCEPT ![logNumber] = new],
           group' # None, group'.at # "append", group'.size = group.size
    PROVE  LogShapes' /\ Kept' /\ Descends' /\ LogsBehind' /\ EditMeans' /\ Replayed' /\ Quiet
  <1> USE DEF history, disk
  <1>1. phase = "open" /\ group # None
    BY Counted DEF AddRecord, Sync
  <1>2. UNCHANGED <<tables, manifests, current, phase, versions, edit, mem, imm, logNumber,
                    bg, merging, queue, acked, synced>>
    BY DEF AddRecord, Sync
  <1>3. logNumber \in DOMAIN logs
    BY <1>1 DEF PInv, LogsBehind
  <1> DEFINE log == logs[logNumber]
  <1>4. /\ log.records \in Seq(SUBSET Seqs)
        /\ log.synced \in 0 .. Len(log.records)
        /\ Torn(log) => log.sound \in 0 .. Len(log.records)
        /\ log = [records |-> log.records, synced |-> log.synced, sound |-> log.sound]
    BY <1>3 DEF PInv, LogShapes, GInv, LogsSound
  <1>5. Batch \in SUBSET Seqs /\ \A s \in Batch : versions.last < s
    BY <1>1, BatchIsNew
  <1>6. /\ DOMAIN logs' = DOMAIN logs /\ logs'[logNumber] = new
        /\ \A n \in DOMAIN logs \ {logNumber} : logs'[n] = logs[n]
    BY <1>3
  <1>7. new \in {[log EXCEPT !.records = Append(@, Batch)], Tear(log),
                 [log EXCEPT !.synced = Len(log.records)]}
    OBVIOUS
  <1> HIDE DEF log
  <1>0. \/ new = [records |-> Append(log.records, Batch), synced |-> log.synced,
                  sound |-> log.sound]
        \/ new = Tear(log)
        \/ new = [records |-> log.records, synced |-> Len(log.records), sound |-> log.sound]
    <2>1. [log EXCEPT !.records = Append(@, Batch)] =
              [records |-> Append(log.records, Batch), synced |-> log.synced, sound |-> log.sound]
      BY <1>4, OtherRecords
    <2>2. [log EXCEPT !.synced = Len(log.records)] =
              [records |-> log.records, synced |-> Len(log.records), sound |-> log.sound]
      BY <1>4
    <2> QED BY <1>7, <2>1, <2>2
  <1>8. new.records \in {log.records, Append(log.records, Batch)}
    BY <1>0, <1>4 DEF Tear
  <1>9. /\ new.records \in Seq(SUBSET Seqs) /\ new.synced \in 0 .. Len(new.records)
        /\ Torn(new) => new.sound \in 0 .. Len(new.records)
        /\ Leading(log, Readable(log)) \subseteq Leading(new, Readable(new))
        /\ Leading(log, Safe(log)) \subseteq Leading(new, Safe(new))
    BY <1>0, <1>4, <1>5, LogGrows
  <1>10. Contents(new) \subseteq Contents(log) \cup Batch
    BY <1>4, <1>5, <1>8, ContentsGrow
  <1>11. \A n \in DOMAIN logs \ {logNumber} : \A s \in Contents(logs[n]) : s =< versions.last
    BY <1>1 DEF PInv, LogsBehind, Began
  <1>12. \A n \in DOMAIN logs \ {logNumber} : Contents(logs[n]) \cap Batch = {}
    <2> SUFFICES ASSUME NEW n \in DOMAIN logs \ {logNumber}, NEW s \in Contents(logs[n]),
                        s \in Batch
                 PROVE  FALSE
      OBVIOUS
    <2>1. s \in Nat /\ versions.last \in Nat
      BY <1>1, <1>5, OpenFacts DEF Seqs
    <2> QED BY <1>5, <1>11, <2>1
  <1>13. LogShapes'
    <2>1. \A n \in DOMAIN logs' :
              /\ logs'[n].synced \in 0 .. Len(logs'[n].records)
              /\ Torn(logs'[n]) => logs'[n].sound \in 0 .. Len(logs'[n].records)
      BY <1>6, <1>9 DEF PInv, LogShapes
    <2>2. \A m, n \in DOMAIN logs' : m # n => Contents(logs'[m]) \cap Contents(logs'[n]) = {}
      BY <1>3, <1>6, <1>10, <1>12 DEF PInv, LogShapes, log
    <2>3. phase' = "open" /\ current' # 0
      BY <1>1, <1>2, OpenFacts
    <2> QED BY <2>1, <2>2, <2>3 DEF LogShapes
  <1>14. /\ Described' = Described /\ Says' = Says /\ OnDisk' = OnDisk /\ Manifest' = Manifest
         /\ Visible' = Visible
    BY <1>2 DEF Described, Says, OnDisk, Manifest, Visible, Union
  <1>15. Quiet
    BY <1>1, <1>2, <1>14 DEF Quiet, Stored
  <1>16. Kept'
    <2>1. current # 0
      BY <1>1, OpenFacts
    <2>2. \A d \in Says : \A n \in DOMAIN logs' :
              n < d.log => n \in DOMAIN logs /\ Contents(logs'[n]) \subseteq Contents(logs[n])
      <3> SUFFICES ASSUME NEW d \in Says, logNumber < d.log PROVE FALSE
        BY <1>6
      <3>1. d.log =< Described.log /\ d.log \in Nat /\ Described.log \in Nat
        BY <2>1, SaysLogs DEF PInv
      <3>2. Described.log =< logNumber /\ logNumber \in Nat
        BY <1>1, OpenFacts DEF PInv, Descends
      <3> QED BY <3>1, <3>2
    <2>3. \A n \in DOMAIN logs :
              /\ n \in DOMAIN logs'
              /\ Leading(logs[n], Readable(logs[n])) \subseteq Leading(logs'[n], Readable(logs'[n]))
              /\ Leading(logs[n], Safe(logs[n])) \subseteq Leading(logs'[n], Safe(logs'[n]))
      BY <1>6, <1>9 DEF log
    <2> QED BY <1>2, <1>15, <2>1, <2>2, <2>3, KeptLogs DEF PInv
  <1>17. Descends'
    BY <1>2, <1>14 DEF PInv, Descends, Union
  <1>18. LogsBehind'
    <2>1. Batch' = Batch
      BY <1>2 DEF Batch
    <2>2. \A n \in DOMAIN logs' : \A s \in Contents(logs'[n]) :
              s =< versions'.last \/ Began(n, s)'
      <3> SUFFICES ASSUME NEW n \in DOMAIN logs, NEW s \in Contents(logs'[n])
                   PROVE  s =< versions.last \/ Began(n, s)'
        BY <1>2, <1>6
      <3>1. CASE n # logNumber
        BY <1>6, <1>11, <3>1
      <3>2. CASE n = logNumber /\ s \in Contents(log)
        <4>1. s =< versions.last \/ (s \in Batch /\ n = logNumber)
          BY <1>1, <1>3, <3>2 DEF PInv, LogsBehind, Began, log
        <4> QED BY <1>2, <2>1, <4>1 DEF Began
      <3>3. CASE n = logNumber /\ s \in Batch
        BY <1>2, <2>1, <3>3 DEF Began
      <3> QED BY <1>6, <1>10, <3>1, <3>2, <3>3
    <2> QED BY <1>1, <1>2, <1>6, <2>2 DEF PInv, LogsBehind
  <1>19. EditMeans'
    BY <1>2, EditSame DEF PInv
  <1>20. Replayed'
    BY <1>1, <1>2 DEF Replayed
  <1> QED BY <1>13, <1>15, <1>16, <1>17, <1>18, <1>19, <1>20

\* A group is put into the log, or fails to be.
LEMMA PAddRecord ==
    ASSUME IInv, GInv, PInv, AddRecord
    PROVE  PInv' /\ Quiet
  <1>1. group # None /\ group.at = "append" /\ phase = "open"
        /\ group \in Groups /\ group.size \in 1 .. Len(queue) /\ queue \in Seq(Writers)
    BY Counted DEF AddRecord, IInv, QInv, Grouped, InLine
  <1>2. UNCHANGED <<versions, logNumber, queue>>
    BY DEF AddRecord
  <1> DEFINE log   == logs[logNumber]
             added == [log EXCEPT !.records = Append(@, Batch)]
  <1>3. PICK new \in {added, Tear(log)} :
            /\ logs' = [logs EXCEPT ![logNumber] = new]
            /\ \E a \in {"sync", "insert", "failed"} :
                  /\ group' = [group EXCEPT !.at = a]
                  /\ a # "failed" => new = added
                  /\ a = "insert" => Head(queue) \notin Syncing
    BY DEF AddRecord
  <1>4. PICK a \in {"sync", "insert", "failed"} :
            /\ group' = [group EXCEPT !.at = a]
            /\ a # "failed" => new = added
            /\ a = "insert" => Head(queue) \notin Syncing
    BY <1>3
  <1>5. group' = [size |-> group.size, at |-> a] /\ group' \in Groups
    BY <1>1, <1>4 DEF Groups
  <1>6. group' # None /\ group'.at = a /\ group'.size = group.size
    BY <1>5, NoneAssumption DEF Groups
  <1>7. LogShapes' /\ Kept' /\ Descends' /\ LogsBehind' /\ EditMeans' /\ Replayed' /\ Quiet
    BY <1>3, <1>6, PLogGrows
  <1>8. GroupLogged'
    <2>1. logNumber \in DOMAIN logs /\ log.records \in Seq(SUBSET Seqs)
          /\ log = [records |-> log.records, synced |-> log.synced, sound |-> log.sound]
      BY <1>1 DEF PInv, LogsBehind, GInv, LogsSound
    <2>2. logs'[logNumber'] = new /\ Batch' = Batch
      BY <1>2, <1>3, <1>6, <2>1 DEF Batch
    <2>3. Head(queue) = queue[1]
      BY <1>1
    <2>4. \A i \in 1 .. group.size : queue[i] \in Syncing => queue[1] \in Syncing
      BY <1>1 DEF PInv, GroupLogged
    <2>5. CASE a = "failed"
      BY <1>2, <1>6, <2>4, <2>5 DEF GroupLogged
    <2>6. CASE a # "failed"
      <3> HIDE DEF log
      <3>1. new.records = Append(log.records, Batch)
        BY <1>4, <2>1, <2>6, OtherRecords
      <3>2. Len(new.records) = Len(log.records) + 1 /\ Len(log.records) \in Nat
            /\ new.records[Len(log.records) + 1] = Batch
        BY <2>1, <3>1
      <3>3. Len(new.records) > 0 /\ new.records[Len(new.records)] = Batch
        BY <3>2
      <3> QED BY <1>2, <1>4, <1>6, <2>2, <2>3, <2>4, <3>3 DEF GroupLogged
    <2> QED BY <2>5, <2>6
  <1> QED BY <1>7, <1>8 DEF PInv

\* More of the log is safe.
LEMMA PSync ==
    ASSUME IInv, GInv, PInv, Sync
    PROVE  PInv' /\ Quiet
  <1>1. group # None /\ group.at = "sync" /\ phase = "open"
        /\ group \in Groups /\ group.size \in 1 .. Len(queue) /\ queue \in Seq(Writers)
    BY Counted DEF Sync, IInv, QInv, Grouped, InLine
  <1>2. UNCHANGED <<versions, logNumber, queue>>
    BY DEF Sync
  <1> DEFINE log  == logs[logNumber]
             done == [log EXCEPT !.synced = Len(log.records)]
  <1>3. logNumber \in DOMAIN logs /\ log.records \in Seq(SUBSET Seqs)
        /\ log = [records |-> log.records, synced |-> log.synced, sound |-> log.sound]
    BY <1>1 DEF PInv, LogsBehind, GInv, LogsSound
  <1>4. ASSUME NEW a \in {"insert", "unsynced"}, group' = [group EXCEPT !.at = a]
        PROVE  group' # None /\ group'.at = a /\ group'.size = group.size /\ Batch' = Batch
    <2>1. group' = [size |-> group.size, at |-> a] /\ group' \in Groups
      BY <1>1, <1>4 DEF Groups
    <2> QED BY <1>2, <2>1, NoneAssumption DEF Groups, Batch
  <1>5. CASE logs' = [logs EXCEPT ![logNumber] = done] /\ group' = [group EXCEPT !.at = "insert"]
    <2>1. LogShapes' /\ Kept' /\ Descends' /\ LogsBehind' /\ EditMeans' /\ Replayed' /\ Quiet
      BY <1>4, <1>5, PLogGrows
    <2>2. logs'[logNumber] = done
      BY <1>3, <1>5
    <2> HIDE DEF log
    <2>3. done.records = log.records /\ done.synced = Len(log.records)
      BY <1>3
    <2>4. Len(log.records) > 0 /\ log.records[Len(log.records)] = Batch
          /\ \A i \in 1 .. group.size : queue[i] \in Syncing => queue[1] \in Syncing
      BY <1>1 DEF PInv, GroupLogged, log
    <2>5. GroupLogged'
      BY <1>2, <1>4, <1>5, <2>2, <2>3, <2>4 DEF GroupLogged
    <2> QED BY <2>1, <2>5 DEF PInv
  <1>6. CASE logs' = logs /\ group' = [group EXCEPT !.at = "unsynced"]
    <2>1. /\ UNCHANGED <<tables, manifests, current, phase, edit, mem, imm, bg, merging, acked,
                         synced>>
      BY DEF Sync, history
    <2>2. \A n, s : Began(n, s) => Began(n, s)'
      BY <1>2, <1>4, <1>6 DEF Began
    <2>3. GroupLogged'
      BY <1>1, <1>2, <1>4, <1>6 DEF PInv, GroupLogged
    <2>4. EditMeans'
      BY <1>2, <2>1, EditSame DEF PInv
    <2> QED BY <1>1, <1>2, <1>6, <2>1, <2>2, <2>3, <2>4, PLight DEF PInv
  <1>7. \/ /\ logs' = [logs EXCEPT ![logNumber].synced = Len(logs[logNumber].records)]
           /\ group' = [group EXCEPT !.at = "insert"]
        \/ logs' = logs /\ group' = [group EXCEPT !.at = "unsynced"]
    BY DEF Sync
  <1>8. [logs EXCEPT ![logNumber].synced = Len(logs[logNumber].records)] =
            [logs EXCEPT ![logNumber] = done]
    OBVIOUS
  <1> QED BY <1>5, <1>6, <1>7, <1>8

\* What a reader finds has numbers that were used up.
LEMMA VisibleOld ==
    ASSUME IInv, GInv, phase = "open", NEW s \in Visible
    PROVE  s \in Nat /\ s =< versions.last
  <1>1. CASE s \in mem \/ (imm # None /\ s \in imm)
    BY <1>1 DEF GInv, MemSound
  <1>2. CASE s \in Union(DOMAIN versions.tables)
    <2>1. PICK n \in DOMAIN versions.tables : s \in tables[n]
      BY <1>2 DEF Union
    <2>2. n \in Held /\ Upto(Held, versions.last)
      BY DEF Held, GInv, HeldSound
    <2> QED BY <2>1, <2>2 DEF Upto
  <1> QED BY <1>1, <1>2 DEF Visible

\* A log holds writes.
LEMMA LogTyped ==
    ASSUME GInv, NEW n \in DOMAIN logs
    PROVE  Contents(logs[n]) \subseteq Seqs
  <1>1. logs[n].records \in Seq(SUBSET Seqs)
    BY DEF GInv, LogsSound
  <1> QED BY <1>1 DEF Contents, Range

\* A group that was logged, and synced if it asked for that, is in what crashes
\* leave, unless an append to its log had failed.
LEMMA GroupIsSafe ==
    ASSUME IInv, GInv, PInv, group # None, group.at = "insert", ~ Torn(logs[logNumber]),
           NEW d \in Says
    PROVE  /\ logNumber \in LiveLogs(d)
           /\ Batch \subseteq Leading(logs[logNumber], Readable(logs[logNumber]))
           /\ queue[1] \in Syncing =>
                 Batch \subseteq Leading(logs[logNumber], Safe(logs[logNumber]))
  <1>1. phase = "open"
    BY Counted
  <1>2. current # 0 /\ logNumber \in Nat /\ logNumber \in DOMAIN logs
        /\ Described.log =< logNumber
    BY <1>1, OpenFacts DEF PInv, LogsBehind, Descends
  <1>3. d.log \in Nat /\ Described.log \in Nat /\ d.log =< Described.log
    BY <1>2, SaysLogs DEF PInv
  <1>4. logNumber \in LiveLogs(d)
    BY <1>2, <1>3 DEF LiveLogs
  <1> DEFINE log == logs[logNumber]
  <1>5. /\ log.records \in Seq(SUBSET Seqs) /\ ~ Torn(log)
        /\ log.synced \in 0 .. Len(log.records)
        /\ log = [records |-> log.records, synced |-> log.synced, sound |-> log.sound]
        /\ Len(log.records) > 0 /\ log.records[Len(log.records)] = Batch
        /\ queue[1] \in Syncing => log.synced = Len(log.records)
    BY <1>2 DEF PInv, LogShapes, GInv, LogsSound, GroupLogged
  <1> HIDE DEF log
  <1>6. Readable(log) = Len(log.records) /\ Len(log.records) \in Nat
        /\ (log.synced = Len(log.records) => Safe(log) = Len(log.records))
    BY <1>5, Numbers DEF Least
  <1>7. Batch \subseteq Leading(log, Len(log.records))
    BY <1>5, <1>6, InLeading
  <1> QED BY <1>4, <1>5, <1>6, <1>7 DEF log

\* A group is answered: it is stored, and promised unless it failed.
LEMMA PFinishGroup ==
    ASSUME IInv, GInv, PInv, FinishGroup
    PROVE  PInv' /\ (Quiet \/ Promise!Answer)
  <1> USE DEF history, disk
  <1>1. /\ group # None /\ phase = "open" /\ current # 0
        /\ group \in Groups /\ group.size \in 1 .. Len(queue) /\ group.size \in Nat
        /\ queue \in Seq(Writers) /\ versions.last \in Nat
    BY Counted, OpenFacts DEF FinishGroup, IInv, QInv, Grouped, InLine
  <1> DEFINE ok    == group.at = "insert"
             sound == ~ Torn(logs[logNumber])
             wants == {versions.last + i : i \in {j \in 1 .. group.size : queue[j] \in Syncing}}
             More  == IF ok THEN Batch ELSE {}
  <1>2. /\ UNCHANGED <<logs, tables, manifests, current, phase, edit, imm, logNumber, bg, merging>>
        /\ mem' = mem \cup More /\ group' = None
        /\ acked' = IF ok /\ sound THEN acked \cup Batch ELSE acked
        /\ synced' = IF ok /\ sound THEN synced \cup wants ELSE synced
        /\ group.at # "append"
    BY DEF FinishGroup
  <1>3. versions' = [next |-> versions.next, last |-> versions.last + group.size,
                     log |-> versions.log, manifest |-> versions.manifest,
                     tables |-> versions.tables]
    BY <1>1 DEF FinishGroup, IInv, FInv, Shapes
  <1>4. Batch \subseteq Seqs /\ \A s \in Batch : versions.last < s /\ s =< versions'.last
    <2>1. \A s \in Batch : s =< versions.last + group.size
      BY <1>1 DEF Batch
    <2> QED BY <1>1, <1>3, <2>1, BatchIsNew
  <1>5. wants \subseteq Batch /\ (wants # {} => queue[1] \in Syncing)
    BY <1>1 DEF PInv, GroupLogged, Batch
  <1>6. /\ Described' = Described /\ Says' = Says /\ OnDisk' = OnDisk /\ Manifest' = Manifest
        /\ Visible' = Visible \cup More /\ InLogs' = InLogs
    BY <1>2, <1>3 DEF Described, Says, OnDisk, Manifest, Visible, Union, InLogs
  <1> HIDE DEF ok, sound, wants
  <1>7. Stored' = Stored \cup More /\ Stored = Visible
    BY <1>1, <1>2, <1>6 DEF Stored
  <1>8. Batch \cap Visible = {}
    <2> SUFFICES ASSUME NEW s \in Batch, s \in Visible PROVE FALSE
      OBVIOUS
    <2>1. s \in Nat /\ s =< versions.last /\ versions.last < s
      BY <1>1, <1>4, VisibleOld
    <2> QED BY <1>1, <2>1
  <1>9. \A n \in DOMAIN logs \ {logNumber} : Contents(logs[n]) \cap Batch = {}
    <2> SUFFICES ASSUME NEW n \in DOMAIN logs \ {logNumber}, NEW s \in Contents(logs[n]),
                        s \in Batch
                 PROVE  FALSE
      OBVIOUS
    <2>1. s =< versions.last
      BY <1>1 DEF PInv, LogsBehind, Began
    <2>2. s \in Nat
      BY <1>4 DEF Seqs
    <2> QED BY <1>1, <1>4, <2>1, <2>2
  <1>10. LogShapes'
    BY <1>2 DEF PInv, LogShapes
  <1>11. Kept'
    <2>1. synced' \subseteq acked' /\ acked' \subseteq Stored'
      BY <1>2, <1>5, <1>7 DEF PInv, Kept
    <2>2. Described \in Says
      BY DEF Says, OnDisk
    <2>3. acked' \subseteq AfterCrash(Described)'
      <3>1. acked \subseteq AfterCrash(Described)
        BY <1>1 DEF PInv, Kept
      <3>2. AfterCrash(Described)' = AfterCrash(Described)
        BY <1>2, <1>6 DEF AfterCrash, LiveLogs, Union
      <3>3. ok /\ sound => Batch \subseteq AfterCrash(Described)
        BY <1>1, <2>2, GroupIsSafe DEF AfterCrash, ok, sound
      <3> QED BY <1>2, <3>1, <3>2, <3>3
    <2>4. ASSUME NEW d \in Says
          PROVE  /\ synced' \subseteq (Union(DOMAIN d.tables))'
                       \cup UNION {Leading(logs'[n], Safe(logs'[n])) : n \in LiveLogs(d)'}
                 /\ d.log =< Described'.log
                 /\ (Union(DOMAIN d.tables))' \subseteq (Union(DOMAIN Described.tables))'
                 /\ \A n \in DOMAIN logs' :
                      n < d.log =>
                          Contents(logs'[n]) \cap Stored' \subseteq (Union(DOMAIN d.tables))'
      <3>1. /\ synced \subseteq AfterFailure(d) /\ d.log =< Described.log
            /\ Union(DOMAIN d.tables) \subseteq Union(DOMAIN Described.tables)
            /\ \A n \in DOMAIN logs :
                  n < d.log => Contents(logs[n]) \cap Stored \subseteq Union(DOMAIN d.tables)
        BY <1>1 DEF PInv, Kept
      <3>2. ok /\ sound => wants \subseteq AfterFailure(d)
        BY <1>1, <1>5, GroupIsSafe DEF AfterFailure, ok, sound
      <3>3. synced' \subseteq AfterFailure(d)
        BY <1>2, <3>1, <3>2
      <3>4. logNumber \in Nat /\ d.log \in Nat /\ Described.log \in Nat
            /\ d.log =< Described.log /\ Described.log =< logNumber
        BY <1>1, OpenFacts, SaysLogs DEF PInv, Descends
      <3>5. \A n \in DOMAIN logs : n < d.log => Contents(logs[n]) \cap Batch = {}
        BY <1>9, <3>4
      <3> QED BY <1>2, <1>6, <1>7, <3>1, <3>3, <3>5 DEF AfterFailure, LiveLogs, Union
    <2> QED BY <1>6, <2>1, <2>3, <2>4 DEF Kept, AfterFailure
  <1>12. Descends'
    BY <1>1, <1>2, <1>3, <1>6 DEF PInv, Descends, Union
  <1>13. LogsBehind'
    <2>1. \A n \in DOMAIN logs : \A s \in Contents(logs[n]) : s =< versions'.last
      <3> SUFFICES ASSUME NEW n \in DOMAIN logs, NEW s \in Contents(logs[n])
                   PROVE  s =< versions'.last
        OBVIOUS
      <3>1. s \in Nat
        BY LogTyped DEF Seqs
      <3>2. s =< versions.last \/ s \in Batch
        BY <1>1 DEF PInv, LogsBehind, Began
      <3> QED BY <1>1, <1>3, <1>4, <3>1, <3>2
    <2>2. mem' \subseteq Seqs
      BY <1>1, <1>2, <1>4 DEF PInv, LogsBehind
    <2>3. \A n \in DOMAIN logs \ {logNumber} : mem' \cap Contents(logs[n]) = {}
      BY <1>1, <1>2, <1>9 DEF PInv, LogsBehind
    <2> QED BY <1>1, <1>2, <2>1, <2>2, <2>3 DEF PInv, LogsBehind
  <1>14. EditMeans'
    BY <1>2, <1>3, EditSame DEF PInv
  <1>15. GroupLogged' /\ Replayed'
    BY <1>1, <1>2 DEF GroupLogged, Replayed
  <1>16. ASSUME ~ ok PROVE Quiet
    <2>1. More = {} /\ acked' = acked /\ synced' = synced
      BY <1>2, <1>16
    <2> QED BY <1>7, <2>1 DEF Quiet
  <1>17. ASSUME ok PROVE Promise!Answer
    <2>1. Stored' = Stored \cup Batch /\ Stored' \ Stored = Batch
      BY <1>7, <1>8, <1>17
    <2>2. (InLogs \ Stored)' = (InLogs \ Stored) \ (Stored' \ Stored)
      BY <1>6, <2>1
    <2>3. acked' \in {acked, acked \cup (Stored' \ Stored)}
      BY <1>2, <2>1
    <2>4. Batch \cap acked = {}
      BY <1>7, <1>8 DEF PInv, Kept
    <2>5. synced \subseteq synced' /\ synced' \subseteq synced \cup (acked' \ acked)
      BY <1>2, <1>5, <2>4
    <2> QED BY <2>1, <2>2, <2>3, <2>5 DEF Promise!Answer
  <1> QED BY <1>10, <1>11, <1>12, <1>13, <1>14, <1>15, <1>16, <1>17 DEF PInv

-----------------------------------------------------------------------------
(* The background thread, up to the descriptor.                             *)

\* Reads only hold versions.
LEMMA PReader ==
    ASSUME IInv, GInv, PInv, Pin \/ Unpin
    PROVE  PInv' /\ Quiet
  <1> USE DEF history, disk, threads
  <1>1. phase = "open"
    BY DEF Pin, Unpin, GInv, HeldSound, IInv, FInv, Shapes
  <1>2. UNCHANGED <<logs, tables, manifests, current, phase, mem, imm, logNumber, acked, synced,
                    versions, group, edit, bg, merging, queue>>
    BY DEF Pin, Unpin
  <1>3. EditMeans' /\ GroupLogged'
    BY <1>2, EditSame, GroupSame DEF PInv
  <1> QED BY <1>1, <1>2, <1>3, PLight DEF PInv

\* All the steps of the background thread but those that write to the descriptor.
LEMMA PBackgroundLight ==
    ASSUME IInv, GInv, PInv, Background,
           UNCHANGED <<logs, manifests, mem, imm, acked, synced>>,
           \A n \in Promised \cup DOMAIN versions.tables : tables'[n] = tables[n],
           versions'.last = versions.last, versions'.log = versions.log,
           versions'.tables = versions.tables, versions'.manifest = versions.manifest,
           EditMeans'
    PROVE  PInv' /\ Quiet
  <1> USE DEF history, disk, threads, Opening
  <1>1. bg.at # "idle"
    BY DEF Background, BackgroundRefused, StartFlush, BuildTable, StartMerge, StartMove,
           OpenOutput, FinishOutput, AppendEdit, SyncEditFails, Install
  <1>2. phase = "open"
    BY <1>1 DEF IInv, FInv, Shapes
  <1>3. UNCHANGED <<current, phase, logNumber, queue, group>>
    BY DEF Background, BackgroundRefused, StartFlush, BuildTable, StartMerge, StartMove,
           OpenOutput, FinishOutput, AppendEdit, SyncEditFails, Install
  <1>4. GroupLogged'
    BY <1>3, GroupSame DEF PInv
  <1> QED BY <1>2, <1>3, <1>4, PLight DEF PInv

\* The counters but one stay.
LEMMA VersionsNext ==
    ASSUME IInv, NewFileNumber
    PROVE  versions' = [next |-> versions.next + 1, last |-> versions.last, log |-> versions.log,
                        manifest |-> versions.manifest, tables |-> versions.tables]
  BY DEF NewFileNumber, IInv, FInv, Shapes

\* The steps of the background thread up to its edit.
LEMMA PBackgroundRefused ==
    ASSUME IInv, GInv, PInv, BackgroundRefused
    PROVE  PInv' /\ Quiet
  <1>1. UNCHANGED <<logs, manifests, mem, imm, acked, synced, tables, versions, merging>>
        /\ bg'.at = "idle"
    BY DEF BackgroundRefused, NoWork, history, disk
  <1>2. merging' = None
    BY <1>1 DEF PInv, EditMeans, BackgroundRefused
  <1>3. EditMeans'
    BY <1>1, <1>2, EditIdle
  <1> QED BY <1>1, <1>3, PBackgroundLight DEF Background

LEMMA PStartFlush ==
    ASSUME IInv, GInv, PInv, StartFlush
    PROVE  PInv' /\ Quiet
  <1>1. UNCHANGED <<logs, manifests, mem, imm, acked, synced, tables, merging>>
        /\ bg'.at = "build" /\ imm # None
    BY DEF StartFlush, history, disk
  <1>2. /\ versions'.last = versions.last /\ versions'.log = versions.log
        /\ versions'.tables = versions.tables /\ versions'.manifest = versions.manifest
    BY VersionsNext DEF StartFlush
  <1>3. EditMeans'
    BY <1>1, <1>2 DEF PInv, EditMeans
  <1> QED BY <1>1, <1>2, <1>3, PBackgroundLight DEF Background

LEMMA PStartMerge ==
    ASSUME IInv, GInv, PInv, StartMerge
    PROVE  PInv' /\ Quiet
  <1>1. UNCHANGED <<logs, manifests, mem, imm, acked, synced, tables, versions>>
        /\ bg'.at = "merge"
    BY DEF StartMerge, history, disk
  <1>2. PICK in \in {Level0, DOMAIN versions.tables} :
            merging' = [in |-> in, out |-> 0, held |-> DOMAIN versions.tables]
    BY DEF StartMerge
  <1>3. merging'.in \subseteq DOMAIN versions.tables
    BY <1>2 DEF Level0
  <1>4. EditMeans'
    BY <1>1, <1>3 DEF EditMeans
  <1> QED BY <1>1, <1>4, PBackgroundLight DEF Background

LEMMA PStartMove ==
    ASSUME IInv, GInv, PInv, StartMove
    PROVE  PInv' /\ Quiet
  <1>1. UNCHANGED <<logs, manifests, mem, imm, acked, synced, tables, versions, merging>>
        /\ bg'.at = "append"
    BY DEF StartMove, history, disk
  <1>2. PICK n \in Level0 : edit' = Edit("move", One(n, 1), {n}, versions.log)
    BY DEF StartMove
  <1>3. /\ edit'.kind = "move" /\ DOMAIN edit'.add = {n} /\ edit'.del = {n}
        /\ edit'.log = versions.log
    BY <1>2 DEF Edit, One
  <1>4. merging' = None
    BY <1>1 DEF PInv, EditMeans, StartMove
  <1>5. (Union(DOMAIN edit.add))' = (Union(edit.del))'
    BY <1>3 DEF Union
  <1>6. n \in DOMAIN versions.tables
    BY DEF Level0
  <1>7. EditMeans'
    BY <1>1, <1>3, <1>4, <1>5, <1>6 DEF EditMeans
  <1> QED BY <1>1, <1>7, PBackgroundLight DEF Background

\* After an error, a flush inside a compaction goes back to it.
LEMMA EditFailed ==
    ASSUME PInv, NEW nested, Failed(nested), nested => merging # None,
           versions'.tables = versions.tables
    PROVE  EditMeans'
  <1>1. /\ bg'.at \in {"merge", "idle"}
        /\ bg'.at = "merge" => merging' = merging /\ merging # None
        /\ bg'.at = "idle" => merging' = None
    BY DEF Failed, NoWork
  <1> QED BY <1>1, EditIdle DEF PInv

\* The table of a flush holds what imm_ does.
LEMMA PBuildTable ==
    ASSUME IInv, GInv, PInv, BuildTable
    PROVE  PInv' /\ Quiet
  <1>1. UNCHANGED <<logs, manifests, mem, imm, acked, synced, versions, current, phase,
                    logNumber>> /\ bg.at = "build"
    BY DEF BuildTable, history, disk
  <1>2. CASE Failed(merging # None) /\ tables' = tables
    BY <1>1, <1>2, EditFailed, PBackgroundLight DEF Background
  <1>3. CASE /\ tables' = Put(tables, bg.out, imm)
             /\ \E level \in {0, 1} : edit' = Edit("flush", One(bg.out, level), {}, logNumber)
             /\ bg' = [bg EXCEPT !.at = "append"]
             /\ merging' = merging
    <2>1. tables'[bg.out] = imm /\ \A n \in DOMAIN tables \ {bg.out} : tables'[n] = tables[n]
      BY <1>3 DEF Put, Over, One
    <2>2. bg.out \notin Held /\ Held \subseteq DOMAIN tables
      <3>1. bg.out \notin Held
        BY <1>1 DEF GInv, OutputsApart
      <3>2. Held \subseteq DOMAIN tables
        BY DEF Held, Promised, IInv, FInv, ReferencedExist, DescribedExist, Merging
      <3> QED BY <3>1, <3>2
    <2>3. \A n \in Promised \cup DOMAIN versions.tables : tables'[n] = tables[n]
      BY <2>1, <2>2 DEF Held
    <2>4. PICK level \in {0, 1} : edit' = Edit("flush", One(bg.out, level), {}, logNumber)
      BY <1>3
    <2>5. /\ edit'.kind = "flush" /\ DOMAIN edit'.add = {bg.out} /\ edit'.del = {}
          /\ edit'.log = logNumber
      BY <2>4 DEF Edit, One
    <2>6. bg'.at = "append"
      BY <1>3 DEF IInv, FInv, Shapes
    <2>7. (Union(DOMAIN edit.add))' = imm
      BY <2>1, <2>5 DEF Union
    <2>8. imm # None /\ (merging # None => merging.in \subseteq DOMAIN versions.tables)
      BY <1>1 DEF PInv, EditMeans
    <2>9. EditMeans'
      BY <1>1, <1>3, <2>5, <2>6, <2>7, <2>8 DEF EditMeans
    <2> QED BY <1>1, <2>3, <2>9, PBackgroundLight DEF Background
  <1> QED BY <1>2, <1>3 DEF BuildTable

\* An output is a table that nobody refers to.
LEMMA POpenOutput ==
    ASSUME IInv, GInv, PInv, OpenOutput
    PROVE  PInv' /\ Quiet
  <1>1. UNCHANGED <<logs, manifests, mem, imm, acked, synced>> /\ bg.at = "merge"
    BY DEF OpenOutput, history
  <1>2. /\ versions'.last = versions.last /\ versions'.log = versions.log
        /\ versions'.tables = versions.tables /\ versions'.manifest = versions.manifest
    BY VersionsNext DEF OpenOutput
  <1>3. CASE tables' = tables /\ Failed(FALSE)
    BY <1>1, <1>2, <1>3, EditFailed, PBackgroundLight DEF Background
  <1>4. CASE /\ merging' = [merging EXCEPT !.out = versions.next]
             /\ tables' = Put(tables, versions.next, {})
             /\ UNCHANGED <<edit, bg>>
    <2>1. merging'.in = merging.in
      BY <1>1, <1>4 DEF IInv, FInv, Shapes
    <2>2. EditMeans'
      BY <1>1, <1>2, <1>4, <2>1 DEF PInv, EditMeans
    <2>3. \A n \in DOMAIN tables \ {versions.next} : tables'[n] = tables[n]
      BY <1>4 DEF Put, Over, One
    <2>4. phase = "open"
      BY <1>1 DEF IInv, FInv, Shapes
    <2>5. Held \subseteq DOMAIN tables /\ versions.next \notin Held
      <3>1. Held \subseteq DOMAIN tables
        BY DEF Held, Promised, IInv, FInv, ReferencedExist, DescribedExist, Merging
      <3>2. Below(Held, versions.next) /\ versions.next \in Nat
        BY <2>4, OpenFacts DEF GInv, HeldSound
      <3> QED BY <3>1, <3>2 DEF Below
    <2>6. \A n \in Promised \cup DOMAIN versions.tables : tables'[n] = tables[n]
      BY <2>3, <2>5 DEF Held
    <2> QED BY <1>1, <1>2, <2>2, <2>6, PBackgroundLight DEF Background
  <1> QED BY <1>3, <1>4 DEF OpenOutput

\* The output of a compaction holds what its inputs do.
LEMMA PFinishOutput ==
    ASSUME IInv, GInv, PInv, FinishOutput
    PROVE  PInv' /\ Quiet
  <1>1. UNCHANGED <<logs, manifests, mem, imm, acked, synced, versions, logNumber>>
        /\ bg.at = "merge" /\ merging.out # 0
    BY DEF FinishOutput, history, disk
  <1>2. CASE Failed(FALSE) /\ tables' = tables
    BY <1>1, <1>2, EditFailed, PBackgroundLight DEF Background
  <1>3. CASE /\ tables' = Put(tables, merging.out, Union(merging.in))
             /\ edit' = Edit("merge", One(merging.out, 1), merging.in, versions.log)
             /\ bg' = [at |-> "append", out |-> 0]
             /\ merging' = merging
    <2>1. /\ tables'[merging.out] = Union(merging.in)
          /\ \A n \in DOMAIN tables \ {merging.out} : tables'[n] = tables[n]
      BY <1>3 DEF Put, Over, One
    <2>2. merging.out \notin Held /\ Held \subseteq DOMAIN tables /\ merging.in \subseteq Held
      <3>1. merging.out \notin Held
        <4>1. ~ Logging
          BY <1>1 DEF Logging, IInv, FInv, Shapes, Opening
        <4> QED BY <1>1, <4>1 DEF GInv, OutputsApart, Merging
      <3>2. Held \subseteq DOMAIN tables
        BY DEF Held, Promised, IInv, FInv, ReferencedExist, DescribedExist, Merging
      <3> QED BY <1>1, <3>1, <3>2 DEF Held, Merging
    <2>3. \A n \in Promised \cup DOMAIN versions.tables \cup merging.in : tables'[n] = tables[n]
      BY <2>1, <2>2 DEF Held
    <2>4. /\ edit'.kind = "merge" /\ DOMAIN edit'.add = {merging.out} /\ edit'.del = merging.in
          /\ edit'.log = versions.log
      BY <1>3 DEF Edit, One
    <2>5. UNION {tables'[n] : n \in merging.in} = Union(merging.in)
      BY <2>3, SameUnion DEF Union
    <2>6. (Union(DOMAIN edit.add))' = (Union(edit.del))'
      BY <2>1, <2>4, <2>5 DEF Union
    <2>7. merging.in \subseteq DOMAIN versions.tables
      BY <1>1 DEF PInv, EditMeans
    <2>8. EditMeans'
      BY <1>1, <1>3, <2>4, <2>6, <2>7 DEF EditMeans
    <2> QED BY <1>1, <2>3, <2>8, PBackgroundLight DEF Background
  <1> QED BY <1>2, <1>3 DEF FinishOutput

\* The edit was appended, and counts as not logged.
LEMMA PSyncEditFails ==
    ASSUME IInv, GInv, PInv, SyncEditFails
    PROVE  PInv' /\ Quiet
  <1>1. UNCHANGED <<logs, manifests, mem, imm, acked, synced, tables, versions>>
        /\ Failed(edit.kind = "flush" /\ merging # None)
    BY DEF SyncEditFails, NotLogged, history, disk
  <1> QED BY <1>1, EditFailed, PBackgroundLight DEF Background

-----------------------------------------------------------------------------
(* The descriptor.                                                          *)

\* An append leaves what the descriptor said, or adds all of the edit to one that
\* did not end in part of a record.
LEMMA AppendedHow ==
    ASSUME IInv, GInv, bg.at = "append", NEW m \in PartlyAppended(Manifest)
    PROVE  /\ m.durable = Manifest.durable
           /\ \/ m.written = Manifest.written /\ (~ m.tail => ~ Manifest.tail)
              \/ m.written = Apply(Manifest.written, edit) /\ ~ Manifest.tail
           /\ m \in Appended(Manifest) /\ ~ m.tail =>
                  m.written = Apply(Manifest.written, edit) /\ ~ Manifest.tail
  <1> DEFINE d == Manifest
  <1>1. d = [written |-> d.written, durable |-> d.durable, tail |-> d.tail,
             broken |-> d.broken]
    <2>1. versions.manifest \in DOMAIN manifests
      BY DEF IInv, FInv, Shapes, CurrentIsKnown, Opening
    <2> QED BY <2>1 DEF IInv, FInv, DescriptorShapes, Manifest
  <1> HIDE DEF d
  <1>2. CASE m \in Appended(d)
    <2>1. PICK b : m = [d EXCEPT !.written = IF d.tail THEN @ ELSE Apply(@, edit), !.broken = b]
      BY <1>2 DEF Appended
    <2>2. m = [written |-> IF d.tail THEN d.written ELSE Apply(d.written, edit),
               durable |-> d.durable, tail |-> d.tail, broken |-> b]
      BY <1>1, <2>1
    <2> QED BY <2>2 DEF d
  <1>3. CASE m \notin Appended(d) /\ (m = d \/ m = [d EXCEPT !.tail = TRUE])
    <2>1. m = d \/ m = [written |-> d.written, durable |-> d.durable, tail |-> TRUE,
                        broken |-> d.broken]
      BY <1>1, <1>3
    <2> QED BY <1>3, <2>1 DEF d
  <1> QED BY <1>2, <1>3 DEF PartlyAppended, d

\* One more edit takes no write away: what it deletes it adds again.
LEMMA ApplyKeeps ==
    ASSUME NEW state, NEW e,
           e.del = {} \/ Union(DOMAIN e.add) = Union(e.del)
    PROVE  /\ Union(DOMAIN state.tables) \subseteq Union(DOMAIN Apply(state, e).tables)
           /\ Union(DOMAIN e.add) \subseteq Union(DOMAIN Apply(state, e).tables)
           /\ Union(DOMAIN Apply(state, e).tables) \subseteq
                  Union(DOMAIN state.tables) \cup Union(DOMAIN e.add)
           /\ Apply(state, e).log = e.log
  <1> DEFINE T == DOMAIN state.tables
             A == DOMAIN e.add
  <1>1. DOMAIN Apply(state, e).tables = A \cup (T \ e.del)
    BY ApplyDomain
  <1>2. Apply(state, e).log = e.log
    BY DEF Apply
  <1>3. Union(A \cup (T \ e.del)) = Union(A) \cup Union(T \ e.del)
    BY DEF Union
  <1>4. Union(T) \subseteq Union(T \ e.del) \cup Union(e.del) /\ Union(T \ e.del) \subseteq Union(T)
    BY DEF Union
  <1>5. Union({}) = {}
    BY DEF Union
  <1> QED BY <1>1, <1>2, <1>3, <1>4, <1>5

\* What the descriptor says after the edit still names every promised write: a flush gives up
\* the log of a memtable that is in its table.
LEMMA PAppendEdit ==
    ASSUME IInv, GInv, PInv, AppendEdit
    PROVE  PInv' /\ Quiet
  <1>1. /\ bg.at = "append"
        /\ UNCHANGED <<logs, tables, current, phase, versions, mem, imm, logNumber, queue, group,
                       acked, synced>>
    BY DEF AppendEdit
  <1>2. PICK m \in PartlyAppended(Manifest) :
            /\ manifests' = [manifests EXCEPT ![versions.manifest] = m]
            /\ \/ /\ m \in Appended(Manifest)
                  /\ bg' = [bg EXCEPT !.at = "sync"] /\ UNCHANGED <<edit, merging>>
               \/ NotLogged
    BY DEF AppendEdit, PartlyAppended
  <1>3. phase = "open" /\ Logging
    BY <1>1 DEF IInv, FInv, Shapes, Logging, Opening
  <1>4. /\ current # 0 /\ current \in DOMAIN manifests /\ current = versions.manifest
        /\ Manifest = manifests[current] /\ Described = Manifest.written
        /\ versions.log \in Nat /\ logNumber \in Nat /\ versions.log =< logNumber
        /\ Described.log \in Nat
    BY <1>3, OpenFacts
  <1>5. /\ manifests'[current'] = m /\ Described' = m.written /\ Manifest' = m
    BY <1>1, <1>2, <1>4 DEF Described, Manifest
  <1>6. /\ m.durable = Manifest.durable
        /\ \/ m.written = Described /\ (~ m.tail => ~ Manifest.tail)
           \/ m.written = Apply(Described, edit) /\ ~ Manifest.tail
        /\ m \in Appended(Manifest) /\ ~ m.tail =>
               m.written = Apply(Described, edit) /\ ~ Manifest.tail
    BY <1>1, <1>4, AppendedHow
  <1> DEFINE new == m.written
             old == Described
             Adds == Union(DOMAIN edit.add)
  <1>7. OnDisk' = OnDisk /\ Says' = {new} \cup OnDisk
    BY <1>1, <1>4, <1>5, <1>6 DEF OnDisk, Says
  <1>8. Visible' = Visible /\ Stored = Visible /\ Quiet
    BY <1>1, <1>3 DEF Visible, Union, Stored, Quiet
  <1>9. /\ edit.kind \in {"flush", "merge", "move"}
        /\ edit.kind = "flush" =>
              imm # None /\ edit.del = {} /\ edit.log = logNumber /\ Adds = imm
        /\ edit.kind # "flush" =>
              /\ edit.del \subseteq DOMAIN versions.tables /\ edit.log = versions.log
              /\ Adds = Union(edit.del)
        /\ edit.kind = "move" => merging = None
    BY <1>1 DEF PInv, EditMeans
  <1>10. /\ Union(DOMAIN old.tables) \subseteq Visible
         /\ old.log =< logNumber
         /\ ~ Manifest.tail =>
              /\ Union(DOMAIN versions.tables) \subseteq Union(DOMAIN old.tables)
              /\ versions.log =< old.log
              /\ \A d \in OnDisk : d.log =< versions.log
    BY <1>3 DEF PInv, Descends
  <1>11. Adds \subseteq Visible
    <2>1. CASE edit.kind = "flush"
      BY <1>9, <2>1 DEF Visible
    <2>2. CASE edit.kind # "flush"
      BY <1>9, <2>2 DEF Visible, Union
    <2> QED BY <2>1, <2>2
  <1>12. \A n \in DOMAIN logs : n \in Nat
    BY DEF IInv, FInv, Shapes
  <1>13. \A d \in Says : d.log \in Nat
    BY <1>4, SaysLogs DEF PInv
  <1>14. /\ acked \subseteq AfterCrash(old)
         /\ \A d \in Says :
              /\ synced \subseteq AfterFailure(d)
              /\ d.log =< old.log
              /\ Union(DOMAIN d.tables) \subseteq Union(DOMAIN old.tables)
              /\ \A n \in DOMAIN logs :
                    n < d.log => Contents(logs[n]) \cap Visible \subseteq Union(DOMAIN d.tables)
         /\ synced \subseteq acked /\ acked \subseteq Visible
    BY <1>4, <1>8 DEF PInv, Kept
  <1>15. /\ Union(DOMAIN old.tables) \subseteq Union(DOMAIN new.tables)
         /\ Union(DOMAIN new.tables) \subseteq Visible
         /\ new.log \in Nat /\ new.log =< logNumber
         /\ \A d \in OnDisk : d.log =< new.log
         /\ \A n \in DOMAIN logs :
               n < new.log => Contents(logs[n]) \cap Visible \subseteq Union(DOMAIN new.tables)
         /\ ~ m.tail => ~ Manifest.tail /\ versions.log =< new.log
         /\ new # old => new.log = edit.log /\ Adds \subseteq Union(DOMAIN new.tables)
    <2>0. Described \in Says /\ OnDisk \subseteq Says
      BY DEF Says
    <2>1. CASE new = old /\ (~ m.tail => ~ Manifest.tail)
      BY <1>4, <1>10, <1>14, <2>0, <2>1
    <2>2. CASE new = Apply(old, edit) /\ ~ Manifest.tail
      <3>1. /\ Union(DOMAIN old.tables) \subseteq Union(DOMAIN new.tables)
            /\ Adds \subseteq Union(DOMAIN new.tables)
            /\ Union(DOMAIN new.tables) \subseteq Union(DOMAIN old.tables) \cup Adds
            /\ new.log = edit.log
        BY <1>9, <2>2, ApplyKeeps
      <3>2. edit.log \in Nat /\ versions.log =< edit.log /\ edit.log =< logNumber
        BY <1>3 DEF GInv, EditSound, LogsSound
      <3>3. \A d \in OnDisk : d.log =< edit.log
        <4> SUFFICES ASSUME NEW d \in OnDisk PROVE d.log =< edit.log
          OBVIOUS
        <4>1. d.log \in Nat /\ d.log =< versions.log
          BY <1>10, <1>13, <2>0, <2>2
        <4> QED BY <1>4, <3>2, <4>1
      <3>4. ASSUME NEW n \in DOMAIN logs, n < edit.log,
                   NEW x \in Contents(logs[n]), x \in Visible
            PROVE  x \in Union(DOMAIN new.tables)
        <4>1. CASE edit.kind = "flush"
          <5>1. n # logNumber
            BY <1>4, <1>9, <1>12, <3>4, <4>1
          <5>2. x \notin mem
            BY <1>3, <3>4, <5>1 DEF PInv, LogsBehind
          <5>3. x \in Adds \/ x \in Union(DOMAIN versions.tables)
            BY <1>9, <3>4, <4>1, <5>2 DEF Visible
          <5> QED BY <1>10, <2>2, <3>1, <5>3
        <4>2. CASE edit.kind # "flush"
          <5>1. n < old.log
            BY <1>4, <1>9, <1>10, <1>12, <2>2, <3>4, <4>2
          <5> QED BY <1>14, <2>0, <3>1, <3>4, <5>1
        <4> QED BY <4>1, <4>2
      <3> HIDE DEF new, old, Adds
      <3> QED BY <1>10, <1>11, <2>2, <3>1, <3>2, <3>3, <3>4
    <2> QED BY <1>6, <2>1, <2>2
  <1> HIDE DEF new, old, Adds
  <1>16. Kept'
    <2>1. \A n \in LiveLogs(old) : n \in LiveLogs(new) \/ n < new.log
      BY <1>12, <1>15 DEF LiveLogs
    <2>0. old = Described
      BY DEF old
    <2>2. acked \subseteq AfterCrash(new)
      <3> SUFFICES ASSUME NEW x \in acked PROVE x \in AfterCrash(new)
        OBVIOUS
      <3>1. x \in Visible /\ x \in AfterCrash(old)
        BY <1>14
      <3>2. CASE x \in Union(DOMAIN old.tables)
        BY <1>15, <3>2 DEF AfterCrash
      <3>3. ASSUME NEW n \in LiveLogs(old), x \in Leading(logs[n], Readable(logs[n]))
            PROVE  x \in AfterCrash(new)
        <4>1. CASE n \in LiveLogs(new)
          BY <3>3, <4>1 DEF AfterCrash
        <4>2. CASE n < new.log
          <5>1. n \in DOMAIN logs /\ logs[n].records \in Seq(SUBSET Seqs)
            BY DEF LiveLogs, GInv, LogsSound
          <5>2. x \in Contents(logs[n])
            BY <3>3, <5>1, LeadingAll
          <5> QED BY <1>15, <3>1, <4>2, <5>1, <5>2 DEF AfterCrash
        <4> QED BY <2>1, <4>1, <4>2
      <3> QED BY <3>1, <3>2, <3>3 DEF AfterCrash
    <2>3. synced \subseteq AfterFailure(new)
      <3> SUFFICES ASSUME NEW x \in synced PROVE x \in AfterFailure(new)
        OBVIOUS
      <3>1. x \in Visible /\ x \in AfterFailure(old)
        BY <1>14, <2>0 DEF Says
      <3>2. CASE x \in Union(DOMAIN old.tables)
        BY <1>15, <3>2 DEF AfterFailure
      <3>3. ASSUME NEW n \in LiveLogs(old), x \in Leading(logs[n], Safe(logs[n]))
            PROVE  x \in AfterFailure(new)
        <4>1. CASE n \in LiveLogs(new)
          BY <3>3, <4>1 DEF AfterFailure
        <4>2. CASE n < new.log
          <5>1. n \in DOMAIN logs /\ logs[n].records \in Seq(SUBSET Seqs)
            BY DEF LiveLogs, GInv, LogsSound
          <5>2. x \in Contents(logs[n])
            BY <3>3, <5>1, LeadingAll
          <5> QED BY <1>15, <3>1, <4>2, <5>1, <5>2 DEF AfterFailure
        <4> QED BY <2>1, <4>1, <4>2
      <3> QED BY <3>1, <3>2, <3>3 DEF AfterFailure
    <2>4. ASSUME NEW d \in {new} \cup OnDisk
          PROVE  /\ synced \subseteq AfterFailure(d)
                 /\ d.log =< new.log
                 /\ Union(DOMAIN d.tables) \subseteq Union(DOMAIN new.tables)
                 /\ \A n \in DOMAIN logs :
                      n < d.log => Contents(logs[n]) \cap Visible \subseteq Union(DOMAIN d.tables)
      <3>1. CASE d = new
        BY <1>15, <2>3, <3>1
      <3>2. CASE d \in OnDisk
        BY <1>14, <1>15, <3>2 DEF Says
      <3> QED BY <3>1, <3>2
    <2>5. Described' = new /\ Stored' = Visible
      BY <1>1, <1>3, <1>5, <1>8 DEF Stored, new
    <2> QED BY <1>1, <1>7, <1>14, <2>2, <2>4, <2>5
            DEF Kept, AfterCrash, AfterFailure, LiveLogs, Union
  <1>17. Descends'
    <2>1. ~ m.tail => Union(DOMAIN versions.tables) \subseteq Union(DOMAIN new.tables)
      BY <1>10, <1>15
    <2> QED BY <1>1, <1>3, <1>5, <1>7, <1>8, <1>10, <1>15, <2>1 DEF Descends, Union, new
  <1>18. LogShapes' /\ LogsBehind' /\ GroupLogged' /\ Replayed'
    BY <1>1, <1>3 DEF PInv, LogShapes, LogsBehind, Began, Batch, GroupLogged, Replayed
  <1>19. EditMeans'
    <2>1. CASE NotLogged
      BY <1>1, <2>1, EditFailed DEF NotLogged
    <2>2. CASE /\ m \in Appended(Manifest)
               /\ bg' = [bg EXCEPT !.at = "sync"] /\ UNCHANGED <<edit, merging>>
      <3>1. bg'.at = "sync"
        BY <2>2 DEF IInv, FInv, Shapes
      <3>2. ~ m.tail => new.log = edit.log /\ Adds \subseteq Union(DOMAIN new.tables)
        <4>1. new = Apply(old, edit) =>
                 Adds \subseteq Union(DOMAIN new.tables) /\ new.log = edit.log
          BY <1>9, ApplyKeeps DEF Adds
        <4> QED BY <1>6, <2>2, <4>1 DEF new, old
      <3>3. bg.at # "build" /\ (merging # None => merging.in \subseteq DOMAIN versions.tables)
        BY <1>1 DEF PInv, EditMeans
      <3> QED BY <1>1, <1>5, <1>9, <2>2, <3>1, <3>2, <3>3 DEF EditMeans, Union, new, Adds
    <2> QED BY <1>2, <2>1, <2>2
  <1> QED BY <1>8, <1>16, <1>17, <1>18, <1>19 DEF PInv

\* What installing a version leaves: every table that is named, every log that the
\* descriptor has not replaced, and one state of the descriptor.
LEMMA Installed ==
    ASSUME IInv, GInv, PInv, Install
    PROVE  /\ phase = "open" /\ bg.at = "sync" /\ current # 0 /\ current = versions.manifest
           /\ UNCHANGED <<current, phase, mem, logNumber, queue, group, acked, synced, bgError>>
           /\ versions' = [next |-> versions.next, last |-> versions.last, log |-> edit.log,
                           manifest |-> versions.manifest, tables |-> versions'.tables]
           /\ DOMAIN versions'.tables = DOMAIN edit.add \cup (DOMAIN versions.tables \ edit.del)
           /\ Described' = Described /\ Manifest'.tail = Manifest.tail
           /\ OnDisk' = {Described}
           /\ \A n \in DOMAIN tables' : tables'[n] = tables[n]
           /\ DOMAIN versions'.tables \cup DOMAIN Described.tables \subseteq DOMAIN tables'
           /\ DOMAIN logs' \subseteq DOMAIN logs /\ \A n \in DOMAIN logs' : logs'[n] = logs[n]
           /\ \A n \in DOMAIN logs : n >= Described.log \/ n >= logNumber => n \in DOMAIN logs'
  <1> USE DEF Opening
  <1> DEFINE safe == [manifests EXCEPT ![versions.manifest].durable = Manifest.written]
  <1>1. /\ bg.at = "sync"
        /\ versions' = [versions EXCEPT
                           !.tables = Over(edit.add, Without(@, edit.del)), !.log = edit.log]
        /\ (manifests' = safe /\ UNCHANGED <<logs, tables>>) \/ DeleteObsoleteFiles(safe)
        /\ UNCHANGED <<current, phase, mem, logNumber, queue, group, acked, synced, bgError>>
    BY DEF Install, history
  <1>2. /\ phase = "open" /\ Logging
    BY <1>1 DEF IInv, FInv, Shapes, Logging
  <1>3. /\ current = versions.manifest /\ current # 0 /\ current \in DOMAIN manifests
        /\ Manifest = manifests[current] /\ Described = Manifest.written
        /\ logNumber \in Nat /\ Described.log \in Nat
    BY <1>2, OpenFacts
  <1>4. /\ versions' = [next |-> versions.next, last |-> versions.last, log |-> edit.log,
                        manifest |-> versions.manifest,
                        tables |-> Over(edit.add, Without(versions.tables, edit.del))]
    BY <1>1 DEF IInv, FInv, Shapes
  <1>5. DOMAIN versions'.tables = DOMAIN edit.add \cup (DOMAIN versions.tables \ edit.del)
    BY <1>4 DEF Over, Without
  <1>6. FInv'
    BY FInstall DEF IInv
  <1>7. /\ \A t \in DOMAIN tables' : tables'[t] = tables[t]
        /\ DOMAIN logs' \subseteq DOMAIN logs /\ \A n \in DOMAIN logs' : logs'[n] = logs[n]
        /\ \A m \in DOMAIN manifests' : manifests'[m] = safe[m]
    BY <1>1, Survivors
  <1>8. manifests'[current'] = [written |-> Described, durable |-> Described,
                                tail |-> Manifest.tail, broken |-> Manifest.broken]
    <2> DEFINE d == manifests[current]
    <2>1. d = [written |-> d.written, durable |-> d.durable, tail |-> d.tail,
               broken |-> d.broken]
      BY <1>3 DEF IInv, FInv, DescriptorShapes
    <2>2. safe[current] = [d EXCEPT !.durable = Manifest.written]
      BY <1>3
    <2>3. current' \in DOMAIN manifests'
      BY <1>1, <1>2, <1>6 DEF FInv, CurrentIsKnown
    <2> HIDE DEF safe, d
    <2>4. d = Manifest
      BY <1>3 DEF d
    <2> QED BY <1>1, <1>3, <1>7, <2>1, <2>2, <2>3, <2>4
  <1>9. Described # NeverSynced
    BY <1>3, SaysSomething DEF IInv
  <1>10. /\ Described' = Described /\ Manifest'.tail = Manifest.tail /\ OnDisk' = {Described}
    <2>1. Manifest' = manifests'[current']
      BY <1>1, <1>3, <1>4 DEF Manifest
    <2> QED BY <1>8, <1>9, <2>1 DEF Described, OnDisk
  <1>11. DOMAIN versions'.tables \cup DOMAIN Described.tables \subseteq DOMAIN tables'
    BY <1>1, <1>3, <1>6, <1>10 DEF FInv, ReferencedExist, DescribedExist
  <1>12. ASSUME NEW n \in DOMAIN logs, n >= Described.log \/ n >= logNumber
         PROVE  n \in DOMAIN logs'
    <2>1. CASE UNCHANGED logs
      BY <2>1
    <2>2. CASE ~ bgError' /\ logs' = Only(logs, {k \in DOMAIN logs : k >= versions'.log})
      <3>1. Manifest.tail = FALSE
        BY <1>1, <1>2, <2>2 DEF IInv, FInv, DescriptorAgrees
      <3>2. Described.log = edit.log
        BY <1>1, <3>1 DEF PInv, EditMeans
      <3>3. edit.log =< logNumber /\ n \in Nat
        BY <1>2 DEF GInv, LogsSound, IInv, FInv, Shapes
      <3>4. n >= versions'.log
        BY <1>3, <1>4, <1>12, <3>2, <3>3
      <3> QED BY <2>2, <3>4 DEF Only
    <2> QED BY <1>1, <2>1, <2>2 DEF DeleteObsoleteFiles
  <1> HIDE DEF safe
  <1>13. versions' = [next |-> versions.next, last |-> versions.last, log |-> edit.log,
                      manifest |-> versions.manifest, tables |-> versions'.tables]
    BY <1>4
  <1> QED BY <1>1, <1>2, <1>3, <1>5, <1>7, <1>10, <1>11, <1>12, <1>13

\* The version is installed, and the logs and tables it has replaced are deleted: the
\* descriptor that replaced them is synced by now.
LEMMA PInstall ==
    ASSUME IInv, GInv, PInv, Install
    PROVE  PInv' /\ Quiet
  <1>1. /\ phase = "open" /\ bg.at = "sync" /\ current # 0 /\ current = versions.manifest
        /\ UNCHANGED <<current, phase, mem, logNumber, queue, group, acked, synced>>
        /\ versions'.last = versions.last /\ versions'.log = edit.log
        /\ DOMAIN versions'.tables = DOMAIN edit.add \cup (DOMAIN versions.tables \ edit.del)
        /\ Described' = Described /\ Manifest'.tail = Manifest.tail
        /\ OnDisk' = {Described}
        /\ \A n \in DOMAIN tables' : tables'[n] = tables[n]
        /\ DOMAIN versions'.tables \cup DOMAIN Described.tables \subseteq DOMAIN tables'
        /\ DOMAIN logs' \subseteq DOMAIN logs /\ \A n \in DOMAIN logs' : logs'[n] = logs[n]
        /\ \A n \in DOMAIN logs : n >= Described.log \/ n >= logNumber => n \in DOMAIN logs'
    BY Installed
  <1>2. /\ imm' = IF edit.kind = "flush" THEN None ELSE imm
        /\ merging' = IF edit.kind = "merge" THEN None ELSE merging
        /\ IF merging' # None THEN bg' = [at |-> "merge", out |-> 0] ELSE bg' = Scheduled
    BY DEF Install, Done
  <1>3. logNumber \in Nat /\ Described.log \in Nat
        /\ \A n \in DOMAIN logs : n \in Nat
    BY <1>1, OpenFacts DEF IInv, FInv, Shapes
  <1> DEFINE Adds == Union(DOMAIN edit.add)
             Live == Union(DOMAIN versions.tables)
             Says0 == Union(DOMAIN Described.tables)
  <1>4. /\ edit.kind \in {"flush", "merge", "move"}
        /\ edit.kind = "flush" => imm # None /\ edit.del = {} /\ Adds = imm
        /\ edit.kind # "flush" =>
              edit.del \subseteq DOMAIN versions.tables /\ Adds = Union(edit.del)
        /\ edit.kind = "move" => merging = None
        /\ ~ Manifest.tail => Described.log = edit.log /\ Adds \subseteq Says0
    BY <1>1 DEF PInv, EditMeans
  <1>5. (Union(DOMAIN Described.tables))' = Says0
    BY <1>1, SameUnion DEF Union
  <1>6. (Union(DOMAIN versions.tables))' = Adds \cup Union(DOMAIN versions.tables \ edit.del)
    <2>1. UNION {tables'[n] : n \in DOMAIN versions'.tables} =
              UNION {tables[n] : n \in DOMAIN versions'.tables}
      BY <1>1, SameUnion
    <2>2. Union(DOMAIN edit.add \cup (DOMAIN versions.tables \ edit.del)) =
              Adds \cup Union(DOMAIN versions.tables \ edit.del)
      BY DEF Union
    <2> QED BY <1>1, <2>1, <2>2 DEF Union
  <1>7. /\ edit.kind = "flush" => (Union(DOMAIN versions.tables))' = imm \cup Live
        /\ edit.kind # "flush" => (Union(DOMAIN versions.tables))' = Live
        /\ (Union(DOMAIN versions.tables))' \subseteq Adds \cup Live
    <2>1. edit.del \subseteq DOMAIN versions.tables =>
              Union(edit.del) \cup Union(DOMAIN versions.tables \ edit.del) = Live
      BY DEF Union
    <2>2. Union(DOMAIN versions.tables \ edit.del) \subseteq Live
      BY DEF Union
    <2>3. edit.del = {} => Union(DOMAIN versions.tables \ edit.del) = Live
      OBVIOUS
    <2> HIDE DEF Live, Adds
    <2> QED BY <1>4, <1>6, <2>1, <2>2, <2>3
  <1> HIDE DEF Adds, Live, Says0
  <1>8. Visible' = Visible
    <2>1. Visible' = mem \cup (IF imm' = None THEN {} ELSE imm')
                     \cup (Union(DOMAIN versions.tables))'
      BY <1>1 DEF Visible
    <2>2. Visible = mem \cup (IF imm = None THEN {} ELSE imm) \cup Live
      BY DEF Visible, Live
    <2> QED BY <1>2, <1>4, <1>7, <2>1, <2>2
  <1>9. Quiet
    BY <1>1, <1>8 DEF Quiet, Stored
  <1>10. LogShapes'
    BY <1>1 DEF PInv, LogShapes
  <1>11. /\ AfterCrash(Described)' = AfterCrash(Described)
         /\ AfterFailure(Described)' = AfterFailure(Described)
    <2>1. LiveLogs(Described)' = LiveLogs(Described)
      BY <1>1 DEF LiveLogs
    <2>2. \A n \in LiveLogs(Described) : logs'[n] = logs[n]
      BY <1>1, <2>1 DEF LiveLogs
    <2> QED BY <1>1, <1>5, <2>1, <2>2 DEF AfterCrash, AfterFailure, Says0
  <1>12. Kept'
    <2>1. Described \in Says /\ Says' = {Described}
      BY <1>1 DEF Says
    <2>2. /\ synced \subseteq acked /\ acked \subseteq Stored
          /\ acked \subseteq AfterCrash(Described) /\ synced \subseteq AfterFailure(Described)
          /\ \A n \in DOMAIN logs :
               n < Described.log => Contents(logs[n]) \cap Stored \subseteq Says0
      BY <1>1, <2>1 DEF PInv, Kept, Says0
    <2>3. synced' \subseteq acked' /\ acked' \subseteq Stored'
      BY <1>9, <2>2 DEF Quiet
    <2>4. acked' \subseteq AfterCrash(Described)' /\ synced' \subseteq AfterFailure(Described)'
      BY <1>1, <1>11, <2>2
    <2>5. \A n \in DOMAIN logs' :
             n < Described.log => Contents(logs'[n]) \cap Stored' \subseteq Says0
      BY <1>1, <1>9, <2>2 DEF Quiet
    <2>6. \A d \in Says' :
             /\ synced' \subseteq (Union(DOMAIN d.tables))'
                   \cup UNION {Leading(logs'[n], Safe(logs'[n])) : n \in LiveLogs(d)'}
             /\ d.log =< Described'.log
             /\ (Union(DOMAIN d.tables))' \subseteq (Union(DOMAIN Described.tables))'
             /\ \A n \in DOMAIN logs' :
                  n < d.log =>
                      Contents(logs'[n]) \cap Stored' \subseteq (Union(DOMAIN d.tables))'
      BY <1>1, <1>3, <1>5, <2>1, <2>4, <2>5 DEF AfterFailure
    <2> QED BY <2>3, <2>4, <2>6 DEF Kept, AfterFailure
  <1>13. Descends'
    <2>1. /\ Says0 \subseteq Visible /\ Described.log =< logNumber
          /\ ~ Manifest.tail => Live \subseteq Says0
      BY <1>1 DEF PInv, Descends, Live, Says0
    <2>2. ~ Manifest.tail => (Union(DOMAIN versions.tables))' \subseteq Says0
      BY <1>4, <1>7, <2>1
    <2>3. ~ Manifest.tail => /\ versions'.log = Described.log
                             /\ \A d \in OnDisk' : d.log = Described.log
      BY <1>1, <1>4
    <2> QED BY <1>1, <1>3, <1>5, <1>8, <2>1, <2>2, <2>3 DEF Descends
  <1>14. LogsBehind'
    <2>1. logNumber \in DOMAIN logs'
      BY <1>1, <1>3 DEF PInv, LogsBehind
    <2>2. Batch' = Batch
      BY <1>1 DEF Batch
    <2> QED BY <1>1, <2>1, <2>2 DEF PInv, LogsBehind, Began
  <1>15. GroupLogged'
    <2>1. logNumber \in DOMAIN logs'
      BY <1>1, <1>3 DEF PInv, LogsBehind
    <2>2. Batch' = Batch /\ logs'[logNumber'] = logs[logNumber]
      BY <1>1, <2>1 DEF Batch
    <2> QED BY <1>1, <2>2 DEF PInv, GroupLogged
  <1>16. Replayed'
    BY <1>1 DEF Replayed
  <1>17. EditMeans'
    <2>1. /\ bg'.at \in {"merge", "idle", "scheduled"}
          /\ bg'.at \in {"idle", "scheduled"} => merging' = None
          /\ bg'.at = "merge" => merging' # None
      BY <1>2 DEF Scheduled
    <2>2. merging' # None => /\ merging' = merging /\ edit.kind = "flush"
      BY <1>2, <1>4
    <2>3. merging' # None => DOMAIN versions.tables \subseteq DOMAIN versions'.tables
      BY <1>1, <1>4, <2>2
    <2> QED BY <2>1, <2>2, <2>3, EditIdle DEF PInv
  <1> QED BY <1>9, <1>10, <1>12, <1>13, <1>14, <1>15, <1>16, <1>17 DEF PInv

-----------------------------------------------------------------------------
(* Opening.                                                                 *)

\* While the database is closed its files say all there is to say.
LEMMA ClosedFacts ==
    ASSUME IInv, GInv, PInv, phase # "open"
    PROVE  /\ bg.at = "idle" /\ merging = None /\ group = None /\ mem = {} /\ imm = None
           /\ Stored = Recoverable
           /\ \A n \in DOMAIN logs : n \in Nat /\ logs[n].records \in Seq(SUBSET Seqs)
  <1>1. bg.at = "idle" /\ merging = None /\ \A n \in DOMAIN logs : n \in Nat
    BY DEF IInv, FInv, Shapes
  <1>2. group = None
    BY Counted
  <1> QED BY <1>1, <1>2 DEF GInv, MemSound, LogsSound, Stored

\* A database that is not open has no groups, no edits and no memtables.
LEMMA PClosed ==
    ASSUME IInv, GInv, PInv, phase # "open", phase' # "open", UNCHANGED <<bg, merging, group>>,
           LogShapes', Kept', Replayed'
    PROVE  PInv'
  <1>1. EditMeans'
    BY ClosedFacts, EditIdle
  <1>2. GroupLogged'
    BY ClosedFacts DEF GroupLogged
  <1> QED BY <1>1, <1>2 DEF PInv, Descends, LogsBehind

\* Steps that change no log, nor what the descriptor says, nor a table it names.
LEMMA PClosedLight ==
    ASSUME IInv, GInv, PInv, phase # "open", phase' # "open", current # 0,
           UNCHANGED <<bg, merging, group, logs, current, acked, synced>>,
           Described' = Described, OnDisk' = OnDisk,
           \A n \in Promised : tables'[n] = tables[n]
    PROVE  /\ Recoverable' = Recoverable /\ Quiet /\ (Replayed' => PInv')
  <1>1. DOMAIN Described.tables \subseteq Promised
    BY DEF Promised
  <1>2. UNION {tables'[n] : n \in DOMAIN Described.tables} = Union(DOMAIN Described.tables)
    BY <1>1, SameUnion DEF Union
  <1>3. Recoverable' = Recoverable
    BY <1>2 DEF Recoverable, LiveLogs, Union
  <1>4. Quiet
    BY <1>3 DEF Quiet, Stored
  <1>5. LogShapes'
    BY DEF PInv, LogShapes
  <1>6. Kept'
    BY <1>4, KeptSame DEF PInv
  <1> QED BY <1>3, <1>4, <1>5, <1>6, PClosed

\* An opening that fails leaves what it found.
LEMMA POpenFails ==
    ASSUME IInv, GInv, PInv, phase \in Opening, OpenFails, UNCHANGED <<logs, tables, current>>,
           manifests' \in {manifests, Without(manifests, {versions.manifest})},
           manifests' # manifests => phase = "described"
    PROVE  PInv' /\ Quiet
  <1> USE DEF Opening
  <1>1. /\ phase' = "down" /\ phase # "open"
        /\ UNCHANGED <<bg, merging, group, bgError, acked, synced>>
    BY DEF OpenFails, threads, history
  <1>2. current \in DOMAIN manifests /\ current # 0
        /\ (phase = "described" => current # versions.manifest)
    BY DEF IInv, FInv, CurrentIsKnown
  <1>3. manifests'[current] = manifests[current]
    BY <1>2 DEF Without
  <1>4. Described' = Described /\ OnDisk' = OnDisk
    BY <1>3 DEF Described, OnDisk
  <1>5. Replayed'
    BY <1>1 DEF PInv, Replayed
  <1> QED BY <1>1, <1>2, <1>4, <1>5, PClosedLight

\* The steps of an opening, up to the new log.
LEMMA PNewDB ==
    ASSUME IInv, GInv, PInv, NewDB
    PROVE  PInv' /\ Quiet
  <1>1. /\ phase = "down" /\ current = 0 /\ phase' = "created" /\ current' = 1
        /\ manifests' = One(1, Descriptor(NewState))
        /\ UNCHANGED <<logs, tables, bg, merging, group, bgError, acked, synced>>
    BY DEF NewDB, threads, history
  <1>2. DOMAIN logs = {}
    BY <1>1 DEF PInv, LogShapes
  <1>3. /\ manifests'[1] = [written |-> NewState, durable |-> NeverSynced, tail |-> FALSE,
                            broken |-> FALSE]
        /\ NewState = [tables |-> <<>>, log |-> 0, next |-> 2, last |-> 0]
    BY <1>1 DEF One, Descriptor, NewState
  <1>4. Described' = NewState /\ OnDisk' = {} /\ Says' = {NewState}
    BY <1>1, <1>3 DEF Described, OnDisk, Says
  <1>5. DOMAIN NewState.tables = {}
    BY <1>3
  <1>6. Recoverable = {} /\ Recoverable' = {}
    BY <1>1, <1>2, <1>4, <1>5 DEF Recoverable, Union, LiveLogs
  <1>7. Stored = {} /\ Stored' = {} /\ Quiet
    BY <1>1, <1>6 DEF Stored, Quiet
  <1>8. acked = {} /\ synced = {}
    BY <1>7 DEF PInv, Kept
  <1>9. Kept'
    BY <1>1, <1>2, <1>3, <1>4, <1>7, <1>8 DEF Kept
  <1>10. LogShapes' /\ Replayed'
    BY <1>1, <1>2 DEF PInv, LogShapes, Replayed
  <1> QED BY <1>1, <1>7, <1>9, <1>10, PClosed

LEMMA PRecover ==
    ASSUME IInv, GInv, PInv, Recover
    PROVE  PInv' /\ Quiet
  <1>1. /\ phase \in {"down", "created"} /\ phase' = "replaying"
        /\ versions'.log = Described.log /\ versions'.tables = Described.tables
        /\ edit'.add = <<>> /\ edit'.left = LiveLogs(Described)
        /\ UNCHANGED <<logs, tables, manifests, current, bg, merging, group, bgError,
                       acked, synced>>
    BY DEF Recover, disk, threads, history
  <1>2. current # 0
    BY DEF Recover, IInv, FInv, CurrentIsKnown
  <1>3. Described' = Described /\ OnDisk' = OnDisk
    BY <1>1 DEF Described, OnDisk
  <1>4. Recoverable' = Recoverable /\ Quiet /\ (Replayed' => PInv')
    BY <1>1, <1>2, <1>3, PClosedLight
  <1>5. Replayed'
    <2>1. LeftLogs' = LiveLogs(Described)
      BY <1>1 DEF LeftLogs
    <2>2. /\ (Union(DOMAIN edit.add))' = {}
          /\ (Union(DOMAIN versions.tables))' = Union(DOMAIN Described.tables)
      BY <1>1 DEF Union
    <2>3. Recoverable = Union(DOMAIN Described.tables)
                        \cup UNION {Contents(logs[n]) : n \in LiveLogs(Described)}
      BY <1>2 DEF Recoverable
    <2>4. LiveLogs(Described) \subseteq DOMAIN logs /\ ~ bgError
      BY <1>1 DEF LiveLogs, PInv, Replayed
    <2> QED BY <1>1, <1>3, <1>4, <2>1, <2>2, <2>3, <2>4 DEF Replayed
  <1> QED BY <1>4, <1>5

\* What has been recovered, and what is yet to be.
LEMMA ReplayedFacts ==
    ASSUME IInv, GInv, PInv, phase \in {"replaying", "recovered", "described"}
    PROVE  /\ current # 0 /\ current \in DOMAIN manifests /\ current # versions.manifest
           /\ versions.next \in Nat /\ ~ bgError
           /\ versions.tables = Described.tables /\ versions.log = Described.log
           /\ LeftLogs \subseteq DOMAIN logs
           /\ Recoverable = Union(DOMAIN edit.add) \cup Union(DOMAIN versions.tables)
                            \cup UNION {Contents(logs[n]) : n \in LeftLogs}
           /\ Promised \subseteq DOMAIN tables /\ DOMAIN edit.add \subseteq DOMAIN tables
           /\ \A n \in Promised \cup DOMAIN edit.add \cup DOMAIN versions.tables : n # versions.next
  <1> USE DEF Opening
  <1>1. /\ current # 0 /\ current \in DOMAIN manifests /\ current # versions.manifest
        /\ versions.next \in Nat
    BY DEF IInv, FInv, Shapes, CurrentIsKnown
  <1>2. Promised \subseteq DOMAIN tables /\ DOMAIN edit.add \subseteq DOMAIN tables
    BY DEF Promised, IInv, FInv, DescribedExist, EditIsReady
  <1>3. Below(Held, versions.next) /\ Below(DOMAIN edit.add, versions.next)
    BY DEF GInv, HeldSound, EditSound
  <1>4. Promised \cup DOMAIN versions.tables \subseteq Held
    BY DEF Held
  <1>5. \A n \in Promised \cup DOMAIN edit.add \cup DOMAIN versions.tables : n # versions.next
    BY <1>1, <1>3, <1>4 DEF Below
  <1> QED BY <1>1, <1>2, <1>5 DEF PInv, Replayed

LEMMA PRecoverLogFile ==
    ASSUME IInv, GInv, PInv, NEW n \in DOMAIN logs, RecoverLogFile(n)
    PROVE  PInv' /\ Quiet
  <1> DEFINE found == Contents(logs[n])
             next  == IF found = {} THEN versions.next ELSE versions.next + 1
             add   == IF found = {} THEN <<>> ELSE One(versions.next, 0)
  <1>1. CASE OpenFails /\ UNCHANGED disk
    BY <1>1, POpenFails DEF RecoverLogFile, disk, Opening
  <1>2. CASE /\ tables' = Over([t \in DOMAIN add |-> found], tables)
             /\ edit' = [kind |-> "open", add |-> Over(add, edit.add), del |-> {},
                         left |-> edit.left \ {n}]
             /\ versions' = [versions EXCEPT !.next = MarkFileNumberUsed(next, n),
                                             !.last = Highest(found, @)]
             /\ UNCHANGED <<logs, manifests, current, phase, bg, bgError, merging, threads,
                            history>>
    <2>1. phase = "replaying" /\ phase' = "replaying" /\ n \in edit.left
          /\ UNCHANGED <<group, acked, synced>>
      BY <1>2 DEF RecoverLogFile, threads, history
    <2>2. versions'.tables = versions.tables /\ versions'.log = versions.log
      BY <1>2 DEF IInv, FInv, Shapes
    <2>3. /\ DOMAIN add = IF found = {} THEN {} ELSE {versions.next}
          /\ DOMAIN add \subseteq {versions.next}
      BY DEF One
    <2> HIDE DEF found, next, add
    <2>4. /\ \A t \in DOMAIN tables : t # versions.next => tables'[t] = tables[t]
          /\ found # {} => tables'[versions.next] = found
          /\ DOMAIN edit'.add = DOMAIN add \cup DOMAIN edit.add
      BY <1>2, <2>3 DEF Over
    <2>5. /\ current # 0 /\ ~ bgError
          /\ versions.tables = Described.tables /\ versions.log = Described.log
          /\ edit.left \subseteq DOMAIN logs
          /\ Recoverable = Union(DOMAIN edit.add) \cup Union(DOMAIN versions.tables)
                           \cup UNION {Contents(logs[m]) : m \in edit.left}
          /\ Promised \subseteq DOMAIN tables /\ DOMAIN edit.add \subseteq DOMAIN tables
          /\ \A t \in Promised \cup DOMAIN edit.add \cup DOMAIN versions.tables : t # versions.next
      BY <2>1, ReplayedFacts DEF LeftLogs
    <2>6. /\ \A t \in Promised : tables'[t] = tables[t]
          /\ \A t \in DOMAIN edit.add : tables'[t] = tables[t]
      BY <2>4, <2>5
    <2>7. Described' = Described /\ OnDisk' = OnDisk
      BY <1>2 DEF Described, OnDisk
    <2>8. Recoverable' = Recoverable /\ Quiet /\ (Replayed' => PInv')
      BY <1>2, <2>1, <2>5, <2>6, <2>7, PClosedLight
    <2>9. LeftLogs' = edit.left \ {n}
      BY <1>2, <2>1 DEF LeftLogs
    <2>10. (Union(DOMAIN versions.tables))' = Union(DOMAIN versions.tables)
      <3>1. \A t \in DOMAIN versions.tables : tables'[t] = tables[t]
        BY <2>5, <2>6 DEF Promised
      <3>2. UNION {tables'[t] : t \in DOMAIN versions.tables} = Union(DOMAIN versions.tables)
        BY <3>1, SameUnion DEF Union
      <3> QED BY <2>2, <3>2 DEF Union
    <2>11. (Union(DOMAIN edit.add))' = found \cup Union(DOMAIN edit.add)
      <3>1. UNION {tables'[t] : t \in DOMAIN edit.add} = Union(DOMAIN edit.add)
        BY <2>6, SameUnion DEF Union
      <3>2. UNION {tables'[t] : t \in DOMAIN add} = found
        BY <2>3, <2>4
      <3> QED BY <2>4, <3>1, <3>2 DEF Union
    <2>12. UNION {Contents(logs[m]) : m \in edit.left} =
               found \cup UNION {Contents(logs[m]) : m \in edit.left \ {n}}
      BY <2>1 DEF found
    <2>13. Replayed'
      <3>1. Recoverable' = (Union(DOMAIN edit.add))' \cup (Union(DOMAIN versions.tables))'
                           \cup UNION {Contents(logs[m]) : m \in edit.left \ {n}}
        BY <2>5, <2>8, <2>10, <2>11, <2>12
      <3> QED BY <1>2, <2>1, <2>2, <2>5, <2>7, <2>9, <3>1 DEF Replayed
    <2> QED BY <2>8, <2>13
  <1> QED BY <1>1, <1>2 DEF RecoverLogFile

LEMMA PNewLog ==
    ASSUME IInv, GInv, PInv, NewLog
    PROVE  PInv' /\ Quiet
  <1>1. CASE OpenFails /\ UNCHANGED disk
    BY <1>1, POpenFails DEF NewLog, disk, Opening
  <1>2. CASE ~ (OpenFails /\ UNCHANGED disk)
    <2>1. /\ phase = "replaying" /\ edit.left = {} /\ phase' = "recovered"
          /\ logs' = Put(logs, versions.next, EmptyLog)
          /\ logNumber' = versions.next
          /\ versions' = [versions EXCEPT !.next = @ + 1]
          /\ edit'.add = edit.add
          /\ UNCHANGED <<tables, manifests, current, bg, bgError, merging, group, acked, synced>>
      BY <1>2 DEF NewLog, NewFileNumber, threads, history
    <2>2. versions'.tables = versions.tables /\ versions'.log = versions.log
      BY <2>1 DEF IInv, FInv, Shapes
    <2>3. /\ current # 0 /\ versions.next \in Nat /\ ~ bgError
          /\ versions.tables = Described.tables /\ versions.log = Described.log
          /\ Recoverable = Union(DOMAIN edit.add) \cup Union(DOMAIN versions.tables)
      BY <2>1, ReplayedFacts DEF LeftLogs
    <2>4. /\ versions.next \notin DOMAIN logs
          /\ versions.log \in Nat /\ versions.log < versions.next
          /\ \A n \in DOMAIN logs : n \in Nat /\ logs[n].records \in Seq(SUBSET Seqs)
      <3>1. \A n \in DOMAIN logs : n < versions.next
        BY <2>1 DEF GInv, LogsSound
      <3>2. versions.log \in Nat /\ versions.log < versions.next
        BY <2>1 DEF GInv, LogsSound, Opening
      <3> QED BY <2>1, <2>3, <3>1, <3>2, ClosedFacts
    <2>5. /\ DOMAIN logs' = DOMAIN logs \cup {versions.next}
          /\ logs'[versions.next] = EmptyLog
          /\ \A n \in DOMAIN logs : logs'[n] = logs[n]
      BY <2>1, <2>4 DEF Put, Over, One
    <2>6. Contents(EmptyLog) = {} /\ EmptyLog.synced = 0 /\ Len(EmptyLog.records) = 0
          /\ ~ Torn(EmptyLog)
      BY DEF EmptyLog, Contents, Range, Torn
    <2>7. Described' = Described
      BY <2>1 DEF Described
    <2>8. Recoverable' = Recoverable
      <3>1. LiveLogs(Described)' = LiveLogs(Described) \cup {versions.next}
        BY <2>3, <2>4, <2>5, <2>7 DEF LiveLogs
      <3>2. UNION {Contents(logs'[n]) : n \in LiveLogs(Described)'} =
                UNION {Contents(logs[n]) : n \in LiveLogs(Described)}
        BY <2>5, <2>6, <3>1 DEF LiveLogs
      <3> QED BY <2>1, <2>7, <3>2 DEF Recoverable, Union
    <2>9. Quiet
      BY <2>1, <2>8 DEF Quiet, Stored
    <2>10. LogShapes'
      <3>1. \A n \in DOMAIN logs' :
              /\ logs'[n].synced \in 0 .. Len(logs'[n].records)
              /\ Torn(logs'[n]) => logs'[n].sound \in 0 .. Len(logs'[n].records)
              /\ ~ Torn(logs'[n]) /\ logs'[n].synced = Len(logs'[n].records)
        BY <2>1, <2>5, <2>6 DEF PInv, LogShapes
      <3>2. \A m, n \in DOMAIN logs' : m # n => Contents(logs'[m]) \cap Contents(logs'[n]) = {}
        BY <2>5, <2>6 DEF PInv, LogShapes
      <3> QED BY <2>1, <2>3, <3>1, <3>2 DEF LogShapes
    <2>11. Kept'
      <3>1. \A d \in Says : \A n \in DOMAIN logs' :
              n < d.log => n \in DOMAIN logs /\ Contents(logs'[n]) \subseteq Contents(logs[n])
        <4> SUFFICES ASSUME NEW d \in Says, versions.next < d.log PROVE FALSE
          BY <2>5
        <4>1. d.log =< Described.log /\ d.log \in Nat
          BY <2>3, SaysLogs DEF PInv
        <4> QED BY <2>3, <2>4, <4>1
      <3> QED BY <2>1, <2>3, <2>5, <2>9, <3>1, KeptLogs DEF PInv
    <2>12. Replayed'
      <3>1. LeftLogs' = {} /\ logNumber' \in DOMAIN logs'
        BY <2>1, <2>5 DEF LeftLogs
      <3> QED BY <2>1, <2>2, <2>3, <2>7, <2>8, <3>1 DEF Replayed, Union
    <2> QED BY <2>1, <2>9, <2>10, <2>11, <2>12, PClosed
  <1> QED BY <1>1, <1>2

\* The new descriptor names what was found, and CURRENT turns to it: the logs that it has
\* replaced are in its tables.
LEMMA PWriteDescriptor ==
    ASSUME IInv, GInv, PInv, WriteDescriptor
    PROVE  PInv' /\ Quiet
  <1>1. CASE OpenFails /\ UNCHANGED disk
    BY <1>1, POpenFails DEF WriteDescriptor, disk, Opening
  <1>2. CASE ~ (OpenFails /\ UNCHANGED disk)
    <2> DEFINE base  == [tables |-> versions.tables, log |-> versions.log,
                         next |-> versions.next, last |-> versions.last]
               state == Apply(base, edit)
    <2>1. /\ phase = "recovered" /\ phase' = "described"
          /\ manifests' = Put(manifests, versions.manifest,
                              [Descriptor(state) EXCEPT !.durable = state])
          /\ UNCHANGED <<logs, tables, current, versions, edit, logNumber, bg, bgError, merging,
                         group, acked, synced>>
      BY <1>2 DEF WriteDescriptor, threads, history
    <2> HIDE DEF state
    <2>2. current # 0 /\ current \in DOMAIN manifests /\ current # versions.manifest
      BY <2>1, ReplayedFacts
    <2>3. manifests'[current] = manifests[current]
      BY <2>1, <2>2 DEF Put, Over, One
    <2>4. Described' = Described /\ OnDisk' = OnDisk
      BY <2>1, <2>3 DEF Described, OnDisk
    <2>5. Recoverable' = Recoverable /\ Quiet /\ (Replayed' => PInv')
      BY <2>1, <2>2, <2>4, PClosedLight
    <2>6. LeftLogs' = LeftLogs
      BY <2>1 DEF LeftLogs
    <2>7. Replayed'
      BY <2>1, <2>4, <2>5, <2>6 DEF PInv, Replayed, Union
    <2> QED BY <2>5, <2>7
  <1> QED BY <1>1, <1>2

\* The new log is empty, and the descriptor that is named next, or is already,
\* names the tables of the edit and those of before.
LEMMA RenamedFacts ==
    ASSUME IInv, GInv, PInv, phase \in {"described", "renamed"}
    PROVE  /\ versions.manifest # 0
           /\ Manifest.written.log = logNumber /\ Manifest.durable = Manifest.written
           /\ DOMAIN Manifest.written.tables = DOMAIN edit.add \cup DOMAIN versions.tables
           /\ Manifest.written # NeverSynced
           /\ logNumber \in DOMAIN logs /\ logNumber \in Nat
           /\ \A n \in DOMAIN logs : n \in Nat /\ n =< logNumber
           /\ Contents(logs[logNumber]) = {}
  <1> USE DEF Opening
  <1>1. /\ versions.manifest # 0 /\ versions.manifest \in DOMAIN manifests
        /\ phase = "renamed" => current = versions.manifest
        /\ Manifest.durable = Manifest.written
        /\ DOMAIN Manifest.written.tables = DOMAIN edit.add \cup DOMAIN versions.tables
    BY DEF IInv, FInv, Shapes, CurrentIsKnown, DescriptorAgrees
  <1>2. Manifest.written # NeverSynced
    BY <1>1, SaysSomething DEF IInv, Manifest
  <1>3. /\ logNumber \in Nat /\ versions.next = logNumber + 1
        /\ Below(DOMAIN logs, versions.next)
        /\ logNumber \in DOMAIN logs => logs[logNumber].records = <<>>
    BY DEF GInv, LogsSound
  <1>4. Manifest.written.log = logNumber
    BY <1>1 DEF GInv, LogsSound, Described, Manifest
  <1>5. logNumber \in DOMAIN logs
    BY DEF PInv, Replayed
  <1>6. Contents(logs[logNumber]) = {}
    BY <1>3, <1>5 DEF Contents, Range
  <1>7. \A n \in DOMAIN logs : n \in Nat /\ n =< logNumber
    BY <1>3 DEF Below
  <1> QED BY <1>1, <1>2, <1>3, <1>4, <1>5, <1>6, <1>7

LEMMA PSetCurrentFile ==
    ASSUME IInv, GInv, PInv, SetCurrentFile
    PROVE  PInv' /\ Quiet
  <1>1. CASE /\ OpenFails
             /\ manifests' = Without(manifests, {versions.manifest})
             /\ UNCHANGED <<logs, tables, current>>
    BY <1>1, POpenFails DEF SetCurrentFile, Opening
  <1>2. CASE /\ phase = "described" /\ phase' = "renamed"
             /\ current' = versions.manifest
             /\ UNCHANGED <<logs, tables, manifests, versions, edit, logNumber, bg, bgError,
                            merging, threads, history>>
    <2>1. /\ versions.manifest # 0
          /\ Manifest.written.log = logNumber /\ Manifest.durable = Manifest.written
          /\ DOMAIN Manifest.written.tables = DOMAIN edit.add \cup DOMAIN versions.tables
          /\ Manifest.written # NeverSynced
          /\ logNumber \in DOMAIN logs /\ logNumber \in Nat
          /\ \A n \in DOMAIN logs : n \in Nat /\ n =< logNumber
          /\ Contents(logs[logNumber]) = {}
      BY <1>2, RenamedFacts
    <2>2. Described' = Manifest.written /\ OnDisk' = {Manifest.written}
          /\ Says' = {Manifest.written}
      BY <1>2, <2>1 DEF Described, OnDisk, Says, Manifest
    <2>3. Recoverable = Union(DOMAIN edit.add) \cup Union(DOMAIN versions.tables)
      BY <1>2, ReplayedFacts DEF LeftLogs
    <2>4. Union(DOMAIN Manifest.written.tables) = Recoverable
      BY <2>1, <2>3 DEF Union
    <2>5. LiveLogs(Described)' = {logNumber}
      BY <1>2, <2>1, <2>2 DEF LiveLogs
    <2>6. Recoverable' = Recoverable
      <3>1. Recoverable' = (Union(DOMAIN Described.tables))'
                           \cup UNION {Contents(logs'[n]) : n \in LiveLogs(Described)'}
        BY <1>2, <2>1 DEF Recoverable
      <3>2. UNION {Contents(logs'[n]) : n \in LiveLogs(Described)'} = {}
        BY <1>2, <2>1, <2>5
      <3> QED BY <1>2, <2>2, <2>4, <3>1, <3>2 DEF Union
    <2>7. UNCHANGED <<group, acked, synced>>
      BY <1>2 DEF threads, history
    <2>8. Quiet /\ Stored' = Recoverable
      BY <1>2, <2>6, <2>7 DEF Quiet, Stored
    <2>9. LogShapes'
      BY <1>2, <2>1 DEF PInv, LogShapes
    <2>10. Kept'
      <3>1. synced \subseteq acked /\ acked \subseteq Recoverable
        BY <2>8 DEF PInv, Kept, Quiet
      <3>2. (Union(DOMAIN Manifest.written.tables))' = Recoverable
        BY <1>2, <2>4 DEF Union, Manifest
      <3>3. Manifest' = Manifest
        BY <1>2 DEF Manifest
      <3>4. \A d \in Says' :
              /\ synced' \subseteq (Union(DOMAIN d.tables))'
                    \cup UNION {Leading(logs'[n], Safe(logs'[n])) : n \in LiveLogs(d)'}
              /\ d.log =< Described'.log
              /\ (Union(DOMAIN d.tables))' \subseteq (Union(DOMAIN Described.tables))'
              /\ \A n \in DOMAIN logs' :
                   n < d.log =>
                       Contents(logs'[n]) \cap Stored' \subseteq (Union(DOMAIN d.tables))'
        BY <2>1, <2>2, <2>7, <2>8, <3>1, <3>2, <3>3
      <3>5. acked' \subseteq AfterCrash(Described)'
        BY <2>2, <2>7, <3>1, <3>2, <3>3 DEF AfterCrash
      <3> QED BY <2>7, <2>8, <3>1, <3>4, <3>5 DEF Kept, AfterFailure
    <2>11. Replayed'
      BY <1>2, <2>1 DEF PInv, Replayed
    <2> QED BY <1>2, <2>7, <2>8, <2>9, <2>10, <2>11, PClosed
  <1> QED BY <1>1, <1>2 DEF SetCurrentFile

\* What was found is what a reader finds now.
LEMMA PFinishOpen ==
    ASSUME IInv, GInv, PInv, FinishOpen
    PROVE  PInv' /\ Quiet
  <1>1. /\ phase = "renamed" /\ phase' = "open"
        /\ versions' = [versions EXCEPT !.log = edit.log, !.tables = Over(edit.add, @)]
        /\ edit' = None
        /\ DeleteObsoleteFiles(manifests)
        /\ bg' = Scheduled
        /\ UNCHANGED <<current, mem, imm, merging, logNumber, bgError, group, acked, synced>>
    BY DEF FinishOpen, threads, history
  <1>2. /\ versions' = [next |-> versions.next, last |-> versions.last, log |-> edit.log,
                        manifest |-> versions.manifest,
                        tables |-> Over(edit.add, versions.tables)]
        /\ DOMAIN versions'.tables = DOMAIN edit.add \cup DOMAIN versions.tables
    BY <1>1 DEF IInv, FInv, Shapes, Over
  <1>3. FInv'
    BY FFinishOpen DEF IInv
  <1>4. /\ current # 0 /\ current \in DOMAIN manifests' /\ current = versions.manifest
        /\ manifests'[current] = manifests[current]
    BY <1>1, <1>2, <1>3, Survivors DEF FInv, CurrentIsKnown
  <1>5. /\ Manifest.written.log = logNumber /\ Manifest.durable = Manifest.written
        /\ DOMAIN Manifest.written.tables = DOMAIN edit.add \cup DOMAIN versions.tables
        /\ Manifest.written # NeverSynced
        /\ logNumber \in DOMAIN logs /\ logNumber \in Nat
        /\ \A n \in DOMAIN logs : n \in Nat /\ n =< logNumber
        /\ Contents(logs[logNumber]) = {}
    BY <1>1, RenamedFacts
  <1>6. /\ Described = Manifest.written /\ Described' = Described /\ Manifest' = Manifest
        /\ OnDisk = {Described} /\ OnDisk' = {Described}
        /\ Says = {Described} /\ Says' = {Described}
    BY <1>1, <1>2, <1>4, <1>5 DEF Described, Manifest, OnDisk, Says
  <1>7. edit.log = logNumber /\ ~ bgError
    BY <1>1 DEF GInv, LogsSound, Opening, PInv, Replayed
  <1>8. /\ DOMAIN logs' = {logNumber} /\ logs'[logNumber] = logs[logNumber]
    <2>1. logs' = Only(logs, {n \in DOMAIN logs : n >= logNumber})
      BY <1>1, <1>2, <1>7 DEF DeleteObsoleteFiles
    <2>2. \A n \in DOMAIN logs : n >= logNumber <=> n = logNumber
      BY <1>5
    <2> QED BY <1>5, <2>1, <2>2 DEF Only
  <1> DEFINE Found == Union(DOMAIN Described.tables)
  <1>9. (Union(DOMAIN Described.tables))' = Found
    <2>1. /\ \A n \in DOMAIN tables' : tables'[n] = tables[n]
      BY <1>1, Survivors
    <2>2. DOMAIN Described.tables \subseteq DOMAIN tables'
      BY <1>1, <1>3, <1>4, <1>6 DEF FInv, DescribedExist
    <2>3. UNION {tables'[n] : n \in DOMAIN Described.tables} = Found
      BY <2>1, <2>2, SameUnion DEF Union
    <2> QED BY <1>6, <2>3 DEF Union
  <1>10. (Union(DOMAIN versions.tables))' = Found
    BY <1>2, <1>5, <1>6, <1>9 DEF Union
  <1> HIDE DEF Found
  <1>11. mem = {} /\ imm = None /\ Stored = Recoverable /\ group = None /\ merging = None
    BY <1>1, ClosedFacts
  <1>12. Visible' = Found
    BY <1>1, <1>10, <1>11 DEF Visible
  <1>13. Recoverable = Found
    <2>1. LiveLogs(Described) = {logNumber}
      BY <1>5, <1>6 DEF LiveLogs
    <2>2. UNION {Contents(logs[n]) : n \in LiveLogs(Described)} = {}
      BY <1>5, <2>1
    <2> QED BY <1>4, <2>2 DEF Recoverable, Found
  <1>14. Quiet /\ Stored' = Found
    BY <1>1, <1>11, <1>12, <1>13 DEF Quiet, Stored
  <1>15. LogShapes'
    BY <1>1, <1>4, <1>5, <1>8 DEF PInv, LogShapes
  <1>16. synced \subseteq acked /\ acked \subseteq Found
    BY <1>11, <1>13 DEF PInv, Kept
  <1>17. Kept'
    <2>1. \A d \in Says' :
            /\ synced' \subseteq (Union(DOMAIN d.tables))'
                  \cup UNION {Leading(logs'[n], Safe(logs'[n])) : n \in LiveLogs(d)'}
            /\ d.log =< Described'.log
            /\ (Union(DOMAIN d.tables))' \subseteq (Union(DOMAIN Described.tables))'
            /\ \A n \in DOMAIN logs' :
                 n < d.log =>
                     Contents(logs'[n]) \cap Stored' \subseteq (Union(DOMAIN d.tables))'
      BY <1>1, <1>5, <1>6, <1>9, <1>14, <1>16
    <2>2. acked' \subseteq AfterCrash(Described)'
      BY <1>1, <1>9, <1>16 DEF AfterCrash
    <2> QED BY <1>1, <1>14, <1>16, <2>1, <2>2 DEF Kept, AfterFailure
  <1>18. Descends'
    <2>1. Described'.log =< logNumber' /\ versions'.log =< Described'.log
          /\ \A d \in OnDisk' : d.log =< versions'.log
      BY <1>1, <1>2, <1>5, <1>6, <1>7
    <2> QED BY <1>9, <1>10, <1>12, <2>1 DEF Descends
  <1>19. LogsBehind'
    BY <1>1, <1>5, <1>8, <1>11 DEF LogsBehind
  <1>20. EditMeans'
    <2>1. bg'.at \in {"idle", "scheduled"} /\ merging' = None
      BY <1>1, <1>11 DEF Scheduled
    <2> QED BY <2>1, EditIdle
  <1>21. GroupLogged' /\ Replayed'
    BY <1>1, <1>11 DEF GroupLogged, Replayed
  <1> QED BY <1>14, <1>15, <1>17, <1>18, <1>19, <1>20, <1>21 DEF PInv

-----------------------------------------------------------------------------
(* Crashes.                                                                 *)

\* What a crash leaves of the logs: nothing new, and the batches it must leave.
LEMMA CutKeeps ==
    ASSUME GInv, LogShapes, NEW kept, CutLogs(kept), \A n \in DOMAIN logs : kept[n] \in Nat
    PROVE  /\ DOMAIN logs' = DOMAIN logs
           /\ \A n \in DOMAIN logs :
                 /\ logs'[n].records \in Seq(SUBSET Seqs)
                 /\ ~ Torn(logs'[n]) /\ logs'[n].synced = Len(logs'[n].records)
                 /\ Contents(logs'[n]) \subseteq Contents(logs[n])
                 /\ Leading(logs[n], kept[n]) \subseteq Contents(logs'[n])
                 /\ \A k : Leading(logs'[n], k) \subseteq Contents(logs'[n])
                 /\ Leading(logs'[n], Readable(logs'[n])) = Contents(logs'[n])
                 /\ Leading(logs'[n], Safe(logs'[n])) = Contents(logs'[n])
  <1>1. PICK c \in [DOMAIN logs -> 0 .. MaxSeq] :
            /\ \A l \in DOMAIN logs : c[l] \in kept[l] .. Len(logs[l].records)
            /\ logs' = [l \in DOMAIN logs |-> Cut(logs[l], c[l])]
    BY DEF CutLogs
  <1>2. ASSUME NEW n \in DOMAIN logs
        PROVE  /\ logs'[n].records \in Seq(SUBSET Seqs)
               /\ ~ Torn(logs'[n]) /\ logs'[n].synced = Len(logs'[n].records)
               /\ Contents(logs'[n]) \subseteq Contents(logs[n])
               /\ Leading(logs[n], kept[n]) \subseteq Contents(logs'[n])
               /\ \A k : Leading(logs'[n], k) \subseteq Contents(logs'[n])
               /\ Leading(logs'[n], Readable(logs'[n])) = Contents(logs'[n])
               /\ Leading(logs'[n], Safe(logs'[n])) = Contents(logs'[n])
    <2> DEFINE r == logs[n].records
               new == logs'[n]
    <2>1. r \in Seq(SUBSET Seqs) /\ c[n] \in Nat /\ kept[n] =< c[n] /\ c[n] =< Len(r)
          /\ kept[n] \in Nat
      BY <1>1, <1>2, BoundsAssumption DEF GInv, LogsSound
    <2>2. new = [records |-> SubSeq(r, 1, c[n]), synced |-> c[n], sound |-> None]
      BY <1>1, <1>2 DEF Cut, EmptyLog
    <2>3. new.records \in Seq(SUBSET Seqs)
      BY <1>1, <1>2, CutShape
    <2>4. Len(new.records) = c[n] /\ \A i \in 1 .. c[n] : new.records[i] = r[i]
      BY <2>1, <2>2
    <2>5. ~ Torn(new) /\ new.synced = Len(new.records)
      BY <2>2, <2>4 DEF Torn
    <2>6. \A x : x \in Contents(new) <=> \E i \in 1 .. Len(new.records) : x \in new.records[i]
      BY <2>3, InContents
    <2>7. \A x : x \in Contents(logs[n]) <=> \E i \in 1 .. Len(r) : x \in r[i]
      BY <2>1, InContents
    <2>8. \A x : x \in Leading(logs[n], kept[n]) <=>
                    \E i \in 1 .. Len(r) : i =< kept[n] /\ x \in r[i]
      BY InLeading
    <2> HIDE DEF r, new
    <2>9. Contents(new) \subseteq Contents(logs[n])
      <3>1. \A i \in 1 .. c[n] : i \in 1 .. Len(r)
        BY <2>1
      <3> QED BY <2>4, <2>6, <2>7, <3>1
    <2>10. Leading(logs[n], kept[n]) \subseteq Contents(new)
      <3>1. \A i \in 1 .. Len(r) : i =< kept[n] => i \in 1 .. c[n]
        BY <2>1
      <3> QED BY <2>4, <2>6, <2>8, <3>1
    <2>11. Leading(new, Len(new.records)) = Contents(new)
           /\ \A k : Leading(new, k) \subseteq Contents(new)
      BY <2>3, LeadingAll
    <2>12. Readable(new) = Len(new.records) /\ Safe(new) = Len(new.records)
      <3>1. Len(new.records) \in Nat
        BY <2>1, <2>4
      <3>2. new.synced \in 0 .. Len(new.records)
        BY <2>5, <3>1
      <3>3. new = [records |-> new.records, synced |-> new.synced, sound |-> new.sound]
        BY <2>2
      <3> QED BY <2>3, <2>5, <3>1, <3>2, <3>3, Numbers DEF Least
    <2> QED BY <2>3, <2>5, <2>9, <2>10, <2>11, <2>12 DEF new
  <1> QED BY <1>1, <1>2

\* A descriptor that a crash may bring back names nothing that is not found now.
LEMMA SaysStored ==
    ASSUME IInv, GInv, PInv, current # 0, NEW d \in Says
    PROVE  Union(DOMAIN d.tables) \subseteq Stored
  <1>1. Union(DOMAIN d.tables) \subseteq Union(DOMAIN Described.tables)
    BY DEF PInv, Kept
  <1>2. CASE phase = "open"
    BY <1>1, <1>2 DEF PInv, Descends, Stored
  <1>3. CASE phase # "open"
    BY <1>1, <1>3 DEF Stored, Recoverable
  <1> QED BY <1>2, <1>3

\* A crash that leaves of every log what was synced, and of the descriptor what it
\* says or what it said when it was synced.
LEMMA PCrash ==
    ASSUME IInv, GInv, PInv, Forget, UNCHANGED <<tables, current>>,
           NEW kept, CutLogs(kept),
           \A n \in DOMAIN logs :
              /\ kept[n] \in Nat
              /\ Leading(logs[n], Safe(logs[n])) \subseteq Leading(logs[n], kept[n]),
           current # 0 => Described' \in Says /\ OnDisk' = OnDisk
    PROVE  /\ PInv'
           /\ Stored' = Recoverable'
           /\ Stored' \subseteq Stored \cup InLogs
           /\ InLogs' \ Stored' \subseteq InLogs \ Stored
           /\ current # 0 =>
                 Recoverable' = Union(DOMAIN Described'.tables)
                    \cup UNION {Contents(logs'[n]) :
                                   n \in {n \in DOMAIN logs : n >= Described'.log}}
  <1>1. /\ phase' = "down" /\ bg'.at = "idle" /\ merging' = None /\ group' = None
        /\ ~ bgError' /\ acked' = acked \cap Recoverable' /\ synced' = synced \cap Recoverable'
    BY DEF Forget, NoWork
  <1>2. /\ DOMAIN logs' = DOMAIN logs
        /\ \A n \in DOMAIN logs :
                 /\ ~ Torn(logs'[n]) /\ logs'[n].synced = Len(logs'[n].records)
                 /\ logs'[n].records \in Seq(SUBSET Seqs)
                 /\ Contents(logs'[n]) \subseteq Contents(logs[n])
                 /\ Leading(logs[n], kept[n]) \subseteq Contents(logs'[n])
                 /\ Leading(logs'[n], Readable(logs'[n])) = Contents(logs'[n])
                 /\ Leading(logs'[n], Safe(logs'[n])) = Contents(logs'[n])
    BY CutKeeps DEF PInv
  <1>3. Stored' = Recoverable'
    BY <1>1 DEF Stored
  <1>4. LogShapes'
    <2>1. \A n \in DOMAIN logs : logs'[n].synced \in 0 .. Len(logs'[n].records)
      <3> TAKE n \in DOMAIN logs
      <3>1. Len(logs'[n].records) \in Nat
        BY <1>2
      <3> QED BY <1>2, <3>1
    <2>2. \A m, n \in DOMAIN logs : m # n => Contents(logs'[m]) \cap Contents(logs'[n]) = {}
      BY <1>2 DEF PInv, LogShapes
    <2>3. current' = 0 => DOMAIN logs' = {}
      BY <1>2 DEF PInv, LogShapes
    <2> QED BY <1>2, <2>1, <2>2, <2>3 DEF LogShapes
  <1>5. EditMeans' /\ GroupLogged' /\ Replayed' /\ Descends' /\ LogsBehind'
    BY <1>1 DEF EditMeans, GroupLogged, Replayed, Descends, LogsBehind
  <1>6. InLogs' \subseteq InLogs
    BY <1>2 DEF InLogs
  <1>7. CASE current = 0
    <2>1. DOMAIN logs = {}
      BY <1>7 DEF PInv, LogShapes
    <2>2. Recoverable' = {} /\ InLogs' = {}
      BY <1>2, <1>7, <2>1 DEF Recoverable, InLogs
    <2>3. Kept'
      BY <1>1, <1>7, <2>2 DEF Kept
    <2> QED BY <1>3, <1>4, <1>5, <1>7, <2>2, <2>3 DEF PInv
  <1>8. CASE current # 0
    <2> DEFINE D == Described'
               Live == {n \in DOMAIN logs : n >= D.log}
    <2>1. D \in Says /\ Says' = {D} \cup OnDisk /\ OnDisk \subseteq Says
      BY <1>8 DEF Says
    <2>2. Recoverable' = Union(DOMAIN D.tables) \cup UNION {Contents(logs'[n]) : n \in Live}
      BY <1>2, <1>8 DEF Recoverable, LiveLogs, Union
    <2>3. Union(DOMAIN D.tables) \subseteq Stored
      BY <1>8, <2>1, SaysStored
    <2>4. \A n \in DOMAIN logs : Contents(logs'[n]) \subseteq InLogs
      BY <1>2 DEF InLogs
    <2>5. Stored' \subseteq Stored \cup InLogs
      BY <1>3, <2>2, <2>3, <2>4
    <2>6. D.log \in Nat /\ \A n \in DOMAIN logs : n \in Nat
      BY <1>8, <2>1, SaysLogs DEF PInv
    <2>7. \A d \in Says : d.log \in Nat /\ \A n \in DOMAIN logs :
             n < d.log => Contents(logs[n]) \cap Stored \subseteq Union(DOMAIN d.tables)
      BY <1>8, SaysLogs DEF PInv, Kept
    <2>8. InLogs' \ Stored' \subseteq InLogs \ Stored
      <3> SUFFICES ASSUME NEW x \in InLogs', x \notin Stored' PROVE x \notin Stored
        BY <1>6
      <3>1. PICK n \in DOMAIN logs : x \in Contents(logs'[n])
        BY <1>2 DEF InLogs
      <3>2. n \notin Live
        BY <1>3, <2>2, <3>1
      <3>3. n < D.log
        BY <2>6, <3>2
      <3> QED BY <1>2, <1>3, <2>1, <2>2, <2>7, <3>1, <3>3
    <2>9. ASSUME NEW d \in Says'
          PROVE  /\ synced' \subseteq (Union(DOMAIN d.tables))'
                       \cup UNION {Leading(logs'[n], Safe(logs'[n])) : n \in LiveLogs(d)'}
                 /\ d.log =< D.log
                 /\ (Union(DOMAIN d.tables))' \subseteq (Union(DOMAIN Described.tables))'
                 /\ \A n \in DOMAIN logs' :
                      n < d.log =>
                          Contents(logs'[n]) \cap Stored' \subseteq (Union(DOMAIN d.tables))'
      <3>1. d \in Says /\ (d = D \/ (d \in OnDisk /\ (D = Described \/ D \in OnDisk)))
        BY <2>1, <2>9 DEF Says
      <3>2. d = D \/ (d \in OnDisk /\ D = Described)
        BY <3>1 DEF OnDisk
      <3>3. synced \subseteq AfterFailure(d) /\ d.log \in Nat
        BY <1>8, <2>7, <3>1 DEF PInv, Kept
      <3>4. synced' \subseteq (Union(DOMAIN d.tables))'
                       \cup UNION {Leading(logs'[n], Safe(logs'[n])) : n \in LiveLogs(d)'}
        <4>1. \A n \in DOMAIN logs :
                 Leading(logs[n], Safe(logs[n])) \subseteq Leading(logs'[n], Safe(logs'[n]))
          BY <1>2
        <4>2. AfterFailure(d) \subseteq (Union(DOMAIN d.tables))'
                       \cup UNION {Leading(logs'[n], Safe(logs'[n])) : n \in LiveLogs(d)'}
          BY <1>2, <4>1 DEF AfterFailure, LiveLogs, Union
        <4> QED BY <1>1, <3>3, <4>2
      <3>5. d.log =< D.log
        <4>1. CASE d = D
          BY <2>6, <4>1
        <4>2. CASE d # D
          BY <1>8, <3>1, <3>2, <4>2 DEF PInv, Kept
        <4> QED BY <4>1, <4>2
      <3>6. Union(DOMAIN d.tables) \subseteq Union(DOMAIN D.tables)
        BY <1>8, <3>1, <3>2 DEF PInv, Kept
      <3>7. ASSUME NEW n \in DOMAIN logs, n < d.log, NEW x \in Contents(logs'[n]), x \in Stored'
            PROVE  x \in Union(DOMAIN d.tables)
        <4>1. x \in Contents(logs[n])
          BY <1>2, <3>7
        <4>2. CASE x \in Stored
          BY <2>7, <3>1, <3>7, <4>1, <4>2
        <4>3. CASE x \notin Stored
          <5>1. PICK m \in Live : x \in Contents(logs'[m])
            BY <1>3, <2>2, <2>3, <3>7, <4>3
          <5>2. m # n
            BY <2>6, <3>3, <3>5, <3>7, <5>1
          <5>3. x \in Contents(logs[m])
            BY <1>2, <5>1
          <5> QED BY <4>1, <5>1, <5>2, <5>3 DEF PInv, LogShapes
        <4> QED BY <4>2, <4>3
      <3>8. /\ (Union(DOMAIN d.tables))' = Union(DOMAIN d.tables)
            /\ (Union(DOMAIN Described.tables))' = Union(DOMAIN D.tables)
        BY DEF Union
      <3>9. \A n \in DOMAIN logs' :
               n < d.log => Contents(logs'[n]) \cap Stored' \subseteq Union(DOMAIN d.tables)
        BY <1>2, <3>7
      <3> QED BY <3>4, <3>5, <3>6, <3>8, <3>9
    <2>10. acked' \subseteq AfterCrash(Described)'
      <3>1. AfterCrash(Described)' = Recoverable'
        BY <1>2, <2>2 DEF AfterCrash, LiveLogs, Union
      <3> QED BY <1>1, <3>1
    <2>11. synced' \subseteq acked' /\ acked' \subseteq Stored'
      BY <1>1, <1>3 DEF PInv, Kept
    <2>12. ASSUME NEW d \in Says'
           PROVE  /\ synced' \subseteq AfterFailure(d)'
                  /\ d.log =< D.log
                  /\ (Union(DOMAIN d.tables))' \subseteq (Union(DOMAIN Described.tables))'
                  /\ \A n \in DOMAIN logs' :
                       n < d.log =>
                           Contents(logs'[n]) \cap Stored' \subseteq (Union(DOMAIN d.tables))'
      <3>1. AfterFailure(d)' = (Union(DOMAIN d.tables))'
                       \cup UNION {Leading(logs'[n], Safe(logs'[n])) : n \in LiveLogs(d)'}
        BY DEF AfterFailure
      <3> QED BY <2>9, <2>12, <3>1
    <2>13. Kept'
      BY <2>10, <2>11, <2>12 DEF Kept
    <2> QED BY <1>3, <1>4, <1>5, <2>2, <2>5, <2>8, <2>13 DEF PInv
  <1> QED BY <1>7, <1>8

\* All that can be read is left, and with it all that was answered.
LEMMA PProcessCrash ==
    ASSUME IInv, GInv, PInv, ProcessCrash
    PROVE  PInv' /\ Promise!ProcessCrash
  <1> DEFINE kept == [n \in DOMAIN logs |-> Tear(logs[n]).sound]
  <1>1. Forget /\ UNCHANGED <<tables, manifests, current>> /\ CutLogs(kept)
    BY DEF ProcessCrash
  <1>2. ASSUME NEW n \in DOMAIN logs
        PROVE  /\ kept[n] \in Nat /\ kept[n] = Readable(logs[n])
               /\ Leading(logs[n], Safe(logs[n])) \subseteq Leading(logs[n], kept[n])
    <2> DEFINE log == logs[n]
    <2>1. /\ log.records \in Seq(SUBSET Seqs) /\ log.synced \in 0 .. Len(log.records)
          /\ Torn(log) => log.sound \in 0 .. Len(log.records)
          /\ log = [records |-> log.records, synced |-> log.synced, sound |-> log.sound]
      BY DEF PInv, LogShapes, GInv, LogsSound
    <2>2. kept[n] = Readable(log)
      BY DEF Readable
    <2> HIDE DEF log, kept
    <2>3. Len(log.records) \in Nat /\ Readable(log) \in 0 .. Len(log.records)
          /\ Safe(log) \in Nat /\ Safe(log) =< Readable(log)
      BY <2>1, Numbers
    <2>4. Leading(log, Safe(log)) \subseteq Leading(log, Readable(log))
      BY <2>3 DEF Leading
    <2> QED BY <2>2, <2>3, <2>4 DEF log
  <1> HIDE DEF kept
  <1>3. Described' = Described /\ OnDisk' = OnDisk /\ Described \in Says
    BY <1>1 DEF Described, OnDisk, Says
  <1>4. /\ PInv' /\ Stored' = Recoverable' /\ Stored' \subseteq Stored \cup InLogs
        /\ InLogs' \ Stored' \subseteq InLogs \ Stored
        /\ current # 0 =>
              Recoverable' = Union(DOMAIN Described.tables)
                 \cup UNION {Contents(logs'[n]) : n \in {n \in DOMAIN logs : n >= Described.log}}
    BY <1>1, <1>2, <1>3, PCrash
  <1>5. \A n \in DOMAIN logs : Leading(logs[n], Readable(logs[n])) \subseteq Contents(logs'[n])
    BY <1>1, <1>2, CutKeeps DEF PInv
  <1>6. acked \subseteq Stored'
    <2>1. CASE current = 0
      <3>1. Stored = {}
        BY <2>1, OpenFacts DEF Stored, Recoverable
      <3> QED BY <3>1 DEF PInv, Kept
    <2>2. CASE current # 0
      <3>1. acked \subseteq AfterCrash(Described)
        BY <2>2 DEF PInv, Kept
      <3> QED BY <1>4, <1>5, <2>2, <3>1 DEF AfterCrash, LiveLogs
    <2> QED BY <2>1, <2>2
  <1>7. acked' = acked \cap Stored' /\ synced' = synced \cap Stored'
    BY <1>1, <1>4 DEF Forget
  <1> QED BY <1>4, <1>6, <1>7 DEF Promise!ProcessCrash, Promise!Crash

\* What was synced is left, whether the descriptor loses its end or not.
LEMMA PMachineCrash ==
    ASSUME IInv, GInv, PInv, MachineCrash
    PROVE  PInv' /\ Promise!MachineCrash
  <1> DEFINE kept == [n \in DOMAIN logs |-> Least(logs[n].synced, Tear(logs[n]).sound)]
  <1>1. Forget /\ UNCHANGED <<tables, current>> /\ CutLogs(kept)
    BY DEF MachineCrash
  <1>2. ASSUME NEW n \in DOMAIN logs
        PROVE  /\ kept[n] \in Nat /\ kept[n] = Safe(logs[n])
               /\ Leading(logs[n], Safe(logs[n])) \subseteq Leading(logs[n], kept[n])
    <2> DEFINE log == logs[n]
    <2>1. /\ log.records \in Seq(SUBSET Seqs) /\ log.synced \in 0 .. Len(log.records)
          /\ Torn(log) => log.sound \in 0 .. Len(log.records)
          /\ log = [records |-> log.records, synced |-> log.synced, sound |-> log.sound]
      BY DEF PInv, LogShapes, GInv, LogsSound
    <2>2. kept[n] = Safe(log)
      BY DEF Readable, Safe
    <2> HIDE DEF log, kept
    <2>3. Safe(log) \in Nat
      BY <2>1, Numbers
    <2> QED BY <2>2, <2>3 DEF log
  <1> HIDE DEF kept
  <1>3. current # 0 => Described' \in Says /\ OnDisk' = OnDisk
    <2> SUFFICES ASSUME current # 0 PROVE Described' \in Says /\ OnDisk' = OnDisk
      OBVIOUS
    <2>1. PICK lost \in SUBSET DOMAIN manifests :
          manifests' = [m \in DOMAIN manifests |->
              IF m \notin lost THEN manifests[m]
              ELSE IF manifests[m].durable = NeverSynced THEN [manifests[m] EXCEPT !.broken = TRUE]
              ELSE [manifests[m] EXCEPT !.written = manifests[m].durable]]
      BY DEF MachineCrash
    <2> DEFINE d == manifests[current]
    <2>2. /\ d = [written |-> d.written, durable |-> d.durable, tail |-> d.tail,
                  broken |-> d.broken]
          /\ current \in DOMAIN manifests
      BY DEF IInv, FInv, DescriptorShapes, CurrentIsKnown
    <2>3. manifests'[current] = IF current \notin lost THEN d
                                ELSE IF d.durable = NeverSynced THEN [d EXCEPT !.broken = TRUE]
                                ELSE [d EXCEPT !.written = d.durable]
      BY <2>1, <2>2
    <2>4. Described = d.written /\ OnDisk = {d.durable} \ {NeverSynced}
      BY DEF Described, OnDisk
    <2> HIDE DEF d
    <2>5. /\ manifests'[current].durable = d.durable
          /\ \/ manifests'[current].written = d.written
             \/ d.durable # NeverSynced /\ manifests'[current].written = d.durable
      BY <2>2, <2>3
    <2>6. Described' = manifests'[current].written
          /\ OnDisk' = {manifests'[current].durable} \ {NeverSynced}
      BY <1>1 DEF Described, OnDisk
    <2> QED BY <2>4, <2>5, <2>6 DEF Says
  <1>4. /\ PInv' /\ Stored' = Recoverable' /\ Stored' \subseteq Stored \cup InLogs
        /\ InLogs' \ Stored' \subseteq InLogs \ Stored
        /\ current # 0 =>
              Recoverable' = Union(DOMAIN Described'.tables)
                 \cup UNION {Contents(logs'[n]) : n \in {n \in DOMAIN logs : n >= Described'.log}}
    BY <1>1, <1>2, <1>3, PCrash
  <1>5. \A n \in DOMAIN logs : Leading(logs[n], Safe(logs[n])) \subseteq Contents(logs'[n])
    BY <1>1, <1>2, CutKeeps DEF PInv
  <1>6. synced \subseteq Stored'
    <2>1. CASE current = 0
      <3>1. Stored = {}
        BY <2>1, OpenFacts DEF Stored, Recoverable
      <3> QED BY <3>1 DEF PInv, Kept
    <2>2. CASE current # 0
      <3> DEFINE D == Described'
      <3>1. synced \subseteq AfterFailure(D)
        BY <1>3, <2>2 DEF PInv, Kept
      <3>2. AfterFailure(D) = Union(DOMAIN D.tables) \cup
               UNION {Leading(logs[n], Safe(logs[n])) : n \in {n \in DOMAIN logs : n >= D.log}}
        BY DEF AfterFailure, LiveLogs
      <3>3. Stored' = Union(DOMAIN D.tables) \cup
               UNION {Contents(logs'[n]) : n \in {n \in DOMAIN logs : n >= D.log}}
        BY <1>4, <2>2
      <3> HIDE DEF D
      <3> QED BY <1>5, <3>1, <3>2, <3>3
    <2> QED BY <2>1, <2>2
  <1>7. acked' = acked \cap Stored' /\ synced' = synced \cap Stored'
    BY <1>1, <1>4 DEF Forget
  <1> QED BY <1>4, <1>6, <1>7 DEF Promise!MachineCrash, Promise!Crash

-----------------------------------------------------------------------------
(* The theorems.                                                            *)

\* An empty disk.
LEMMA PInit == Init => PInv /\ Promise!Init
  <1> SUFFICES ASSUME Init PROVE PInv /\ Promise!Init
    OBVIOUS
  <1> USE DEF Init, NoVersions, NoWork
  <1>1. DOMAIN logs = {} /\ current = 0 /\ phase = "down"
    OBVIOUS
  <1>2. Stored = {} /\ InLogs = {}
    BY <1>1 DEF Stored, Recoverable, InLogs
  <1>3. LogShapes /\ Kept /\ Descends /\ LogsBehind
    BY <1>1, <1>2 DEF LogShapes, Kept, Descends, LogsBehind
  <1>4. EditMeans /\ GroupLogged /\ Replayed
    BY <1>1 DEF EditMeans, GroupLogged, Replayed
  <1>5. Promise!Init
    BY <1>2 DEF Promise!Init
  <1> QED BY <1>3, <1>4, <1>5 DEF PInv

LEMMA PStutter ==
    ASSUME PInv, UNCHANGED vars
    PROVE  PInv' /\ Quiet
  <1> USE DEF vars, disk, threads, history, counts
  <1>1. /\ Described' = Described /\ OnDisk' = OnDisk /\ Says' = Says /\ Manifest' = Manifest
        /\ Visible' = Visible /\ Recoverable' = Recoverable
    BY DEF Described, OnDisk, Says, Manifest, Visible, Recoverable, Union, LiveLogs
  <1>2. Quiet /\ Stored' = Stored /\ Batch' = Batch /\ LeftLogs' = LeftLogs
    BY <1>1 DEF Quiet, Stored, Batch, LeftLogs
  <1>3. LogShapes'
    BY DEF PInv, LogShapes
  <1>4. Kept'
    BY <1>1, <1>2 DEF PInv, Kept, AfterCrash, AfterFailure, LiveLogs, Union
  <1>5. Descends' /\ EditMeans'
    BY <1>1 DEF PInv, Descends, EditMeans, Union
  <1>6. LogsBehind' /\ GroupLogged'
    BY <1>2 DEF PInv, LogsBehind, Began, GroupLogged
  <1>7. Replayed'
    BY <1>1, <1>2 DEF PInv, Replayed, Union
  <1> QED BY <1>2, <1>3, <1>4, <1>5, <1>6, <1>7 DEF PInv

\* Every step keeps the invariant, and is one that Store allows.
LEMMA PNext ==
    ASSUME IInv, GInv, PInv, Next
    PROVE  /\ PInv'
           /\ Quiet \/ Promise!Answer \/ Promise!ProcessCrash \/ Promise!MachineCrash
  <1>1. CASE Open
    BY <1>1, PNewDB, PRecover, PRecoverLogFile, PNewLog, PWriteDescriptor, PSetCurrentFile,
       PFinishOpen DEF Open
  <1>2. ASSUME NEW w \in Writers, Write(w) \/ WriterStep(w) PROVE PInv' /\ Quiet
    BY <1>2, PWriter, PStartGroup DEF WriterStep
  <1>3. CASE Background
    BY <1>3, PBackgroundRefused, PStartFlush, PBuildTable, PStartMerge, PStartMove,
       POpenOutput, PFinishOutput, PAppendEdit, PSyncEditFails, PInstall DEF Background
  <1>4. CASE GroupStep
    BY <1>4, PAddRecord, PSync, PFinishGroup DEF GroupStep
  <1> QED BY <1>1, <1>2, <1>3, <1>4, PReader, PProcessCrash, PMachineCrash DEF Next

\* What the logs, the tables and the descriptor hold of the promised writes, in
\* every state.
THEOREM PromisesHeld == Spec => []PInv
  <1>1. IInv /\ GInv /\ PInv /\ [Next]_vars => PInv'
    BY PNext, PStutter
  <1> QED BY <1>1, PInit, Invariance, NumbersApart, PTL DEF Spec

\* DBImpl implements Store: an answered write survives the crash of the process
\* and a synced one that of the machine, at any point of a write, a flush, a
\* compaction or an opening; none goes away while the database is open, and what
\* was lost does not come back.  Not among those are the writes answered behind
\* a failed append in the same log, which Store does not promise: they can be
\* lost (ProcessCrashLosesNothing; db_impl.cc:1222-1246).
THEOREM PromisesKept == Spec => KeepsPromises
  <1>1. Init => Promise!Init
    BY PInit
  <1>2. IInv /\ GInv /\ PInv /\ [Next]_vars => [Promise!Next]_(Promise!vars)
    <2> SUFFICES ASSUME IInv, GInv, PInv, [Next]_vars PROVE [Promise!Next]_(Promise!vars)
      OBVIOUS
    <2>1. Quiet \/ Promise!Answer \/ Promise!ProcessCrash \/ Promise!MachineCrash
      BY PNext, PStutter
    <2>2. CASE Quiet
      BY <2>2 DEF Quiet, Promise!Next, Promise!Begin, Promise!vars
    <2>3. CASE Promise!Answer \/ Promise!ProcessCrash \/ Promise!MachineCrash
      BY <2>3 DEF Promise!Next
    <2> QED BY <2>1, <2>2, <2>3
  <1> QED BY <1>1, <1>2, Invariance, NumbersApart, PromisesHeld, PTL
         DEF Spec, KeepsPromises, Promise!Spec

-----------------------------------------------------------------------------
(* Types.                                                                   *)

\* Tables hold writes, and descriptors, versions and edits name tables and their
\* levels.
TablesTyped == DOMAIN tables \subseteq Nat /\ \A n \in DOMAIN tables : tables[n] \subseteq Seqs

SaidTyped ==
    /\ TableMap(versions.tables)
    /\ phase \in Opening \/ bg.at \in {"append", "sync"} => TableMap(edit.add)
    /\ \A m \in DOMAIN manifests :
          /\ TableMap(manifests[m].written.tables)
          /\ manifests[m].durable # NeverSynced => TableMap(manifests[m].durable.tables)

RestTyped ==
    /\ imm # None => imm \subseteq Seqs /\ imm # {}
    /\ bg.at = "build" => 0 < bg.out
    /\ phase \in {"down", "created"} => edit = None
    /\ phase \in {"down", "created", "replaying"} => logNumber = 0

Bounded == crashes \in 0 .. MaxCrashes /\ faults \in 0 .. MaxFaults

TInv == TablesTyped /\ SaidTyped /\ RestTyped /\ Bounded

\* Functions from table numbers to levels.
LEMMA MapOfTables ==
    ASSUME NEW f
    PROVE  TableMap(f) <=> \A n \in DOMAIN f : n \in Nat /\ n # 0 /\ f[n] \in {0, 1}
  <1>1. TableMap(f) <=> DOMAIN f \subseteq Nat \ {0} /\ {f[n] : n \in DOMAIN f} \subseteq {0, 1}
    BY DEF TableMap, Range
  <1> QED BY <1>1

LEMMA MapOfOne ==
    ASSUME NEW n \in Nat, n # 0, NEW l \in {0, 1}
    PROVE  TableMap(One(n, l))
  <1>1. DOMAIN One(n, l) = {n} /\ One(n, l)[n] = l
    BY DEF One
  <1> QED BY <1>1, MapOfTables

LEMMA MapOver ==
    ASSUME NEW f, NEW g, TableMap(f), TableMap(g)
    PROVE  TableMap(Over(f, g))
  <1>1. /\ DOMAIN Over(f, g) = DOMAIN f \cup DOMAIN g
        /\ \A n \in DOMAIN Over(f, g) :
              Over(f, g)[n] = IF n \in DOMAIN f THEN f[n] ELSE g[n]
    BY DEF Over
  <1> QED BY <1>1, MapOfTables

LEMMA MapWithout ==
    ASSUME NEW f, NEW S, TableMap(f)
    PROVE  TableMap(Without(f, S))
  <1>1. /\ DOMAIN Without(f, S) = DOMAIN f \ S
        /\ \A n \in DOMAIN Without(f, S) : Without(f, S)[n] = f[n]
    BY DEF Without
  <1> QED BY <1>1, MapOfTables

LEMMA MapEmpty == TableMap(<<>>)
  BY MapOfTables

\* The numbers that new tables get, and where they are begun.
LEMMA NewNumbers ==
    ASSUME IInv, GInv
    PROVE  /\ phase \in Opening \cup {"open"} => versions.next \in Nat /\ versions.next # 0
           /\ phase # "open" => bg.at = "idle" /\ merging = None
           /\ Merging => merging.out \in Nat
  <1>1. phase \in Opening \cup {"open"} => versions.manifest \in Nat /\ versions.next \in Nat
                                           /\ 0 < versions.manifest
                                           /\ versions.manifest < versions.next
    BY DEF IInv, FInv, CurrentIsKnown, Shapes
  <1> QED BY <1>1 DEF IInv, FInv, Shapes, Merging

\* What is put into a table are writes of a memtable, of a log or of other tables.
LEMMA TTables ==
    ASSUME IInv, GInv, PInv, TInv, [Next]_vars
    PROVE  TablesTyped'
  <1> USE DEF Opening
  <1>0. TablesTyped
    BY DEF TInv
  <1>1. ASSUME UNCHANGED tables PROVE TablesTyped'
    BY <1>0, <1>1 DEF TablesTyped
  <1>2. ASSUME NEW S, tables' = Only(tables, S) PROVE TablesTyped'
    BY <1>0, <1>2 DEF TablesTyped, Only
  <1>3. ASSUME NEW n \in Nat, NEW v \in SUBSET Seqs, tables' = Put(tables, n, v)
        PROVE  TablesTyped'
    BY <1>0, <1>3 DEF TablesTyped, Put, Over, One
  <1>4. CASE \E l \in DOMAIN logs : RecoverLogFile(l)
    <2>1. PICK l \in DOMAIN logs : RecoverLogFile(l)
      BY <1>4
    <2> DEFINE found == Contents(logs[l])
               add   == IF found = {} THEN <<>> ELSE One(versions.next, 0)
    <2>2. phase = "replaying" /\ versions.next \in Nat
      BY <2>1, NewNumbers DEF RecoverLogFile
    <2>3. \/ UNCHANGED tables
          \/ tables' = Over([t \in DOMAIN add |-> found], tables)
      BY <2>1 DEF RecoverLogFile, disk
    <2>4. DOMAIN add \subseteq {versions.next}
      BY DEF One
    <2>5. found \subseteq Seqs
      BY LogTyped
    <2> HIDE DEF found, add
    <2> QED BY <1>0, <1>1, <2>2, <2>3, <2>4, <2>5 DEF TablesTyped, Over
  <1>5. CASE BuildTable
    <2>1. bg.at = "build" /\ (tables' = tables \/ tables' = Put(tables, bg.out, imm))
      BY <1>5 DEF BuildTable
    <2>2. bg.out \in Nat /\ imm \in SUBSET Seqs
      BY <2>1 DEF GInv, OutputsApart, PInv, EditMeans, TInv, RestTyped
    <2> QED BY <1>1, <1>3, <2>1, <2>2
  <1>6. CASE OpenOutput
    <2>1. /\ bg.at = "merge"
          /\ tables' = tables \/ tables' = Put(tables, versions.next, {})
      BY <1>6 DEF OpenOutput
    <2>2. versions.next \in Nat
      BY <2>1, NewNumbers DEF IInv, FInv, Shapes
    <2>3. {} \in SUBSET Seqs
      OBVIOUS
    <2> QED BY <1>1, <1>3, <2>1, <2>2, <2>3
  <1>7. CASE FinishOutput
    <2>1. /\ bg.at = "merge"
          /\ tables' = tables \/ tables' = Put(tables, merging.out, Union(merging.in))
      BY <1>7 DEF FinishOutput
    <2>2. merging.out \in Nat /\ merging.in \subseteq DOMAIN tables
      BY <2>1 DEF IInv, FInv, Shapes, ReferencedExist
    <2>3. Union(merging.in) \in SUBSET Seqs
      BY <1>0, <2>2 DEF Union, TablesTyped
    <2> QED BY <1>1, <1>3, <2>1, <2>2, <2>3
  <1>8. CASE FinishOpen \/ Install
    <2>1. UNCHANGED tables \/ tables' = Only(tables, LiveFiles)
      BY <1>8 DEF FinishOpen, Install, DeleteObsoleteFiles
    <2> QED BY <1>1, <1>2, <2>1
  <1> QED
    <2>1. CASE Open
      BY <1>1, <1>4, <1>8, <2>1 DEF Open, NewDB, Recover, NewLog, WriteDescriptor,
                                    SetCurrentFile, disk
    <2>2. CASE Background
      BY <1>1, <1>5, <1>6, <1>7, <1>8, <2>2 DEF Background, BackgroundRefused, StartFlush,
                                    StartMerge, StartMove, AppendEdit, SyncEditFails, disk
    <2>3. CASE GroupStep
      BY <1>1, <2>3 DEF GroupStep, AddRecord, Sync, FinishGroup, disk
    <2>4. ASSUME NEW w \in Writers, Write(w) \/ WriterStep(w) PROVE UNCHANGED tables
      BY <2>4 DEF Write, WriterStep, GiveUp, Wait, StartGroup, disk
    <2>5. CASE Pin \/ Unpin \/ ProcessCrash \/ MachineCrash
      BY <1>1, <2>5 DEF Pin, Unpin, ProcessCrash, MachineCrash, disk
    <2>6. CASE UNCHANGED vars
      BY <1>1, <2>6 DEF vars, disk
    <2> QED BY <1>1, <2>1, <2>2, <2>3, <2>4, <2>5, <2>6 DEF Next

\* The levels come from the edits, and the edits from numbers that were taken.
LEMMA TVersions ==
    ASSUME IInv, GInv, TInv, [Next]_vars
    PROVE  TableMap(versions'.tables)
  <1> USE DEF Opening
  <1>0. /\ TableMap(versions.tables)
        /\ versions = [next |-> versions.next, last |-> versions.last, log |-> versions.log,
                       manifest |-> versions.manifest, tables |-> versions.tables]
    BY DEF TInv, SaidTyped, IInv, FInv, Shapes
  <1>1. ASSUME versions'.tables = versions.tables PROVE TableMap(versions'.tables)
    BY <1>0, <1>1
  <1>2. ASSUME versions' = NoVersions PROVE TableMap(versions'.tables)
    BY <1>2, MapEmpty DEF NoVersions
  <1>3. ASSUME NewFileNumber PROVE TableMap(versions'.tables)
    BY <1>1, <1>3, VersionsNext
  <1>4. CASE Open
    <2>1. CASE NewDB \/ WriteDescriptor \/ SetCurrentFile
      BY <1>1, <1>2, <2>1 DEF NewDB, WriteDescriptor, SetCurrentFile, OpenFails
    <2>2. CASE Recover
      <3>1. versions'.tables = Described.tables /\ current \in DOMAIN manifests
        BY <2>2 DEF Recover, IInv, FInv, CurrentIsKnown
      <3> QED BY <3>1 DEF TInv, SaidTyped, Described
    <2>3. CASE \E n \in DOMAIN logs : RecoverLogFile(n)
      <3>1. versions' = NoVersions
            \/ \E i, j : versions' = [versions EXCEPT !.next = i, !.last = j]
        BY <2>3 DEF RecoverLogFile, OpenFails
      <3> QED BY <1>0, <1>1, <1>2, <3>1
    <2>4. CASE NewLog
      BY <1>2, <1>3, <2>4 DEF NewLog, OpenFails
    <2>5. CASE FinishOpen
      <3>1. phase = "renamed"
            /\ versions' = [versions EXCEPT !.log = edit.log, !.tables = Over(edit.add, @)]
        BY <2>5 DEF FinishOpen
      <3>2. versions'.tables = Over(edit.add, versions.tables)
        BY <1>0, <3>1
      <3>3. TableMap(edit.add)
        BY <3>1 DEF TInv, SaidTyped
      <3> QED BY <1>0, <3>2, <3>3, MapOver
    <2> QED BY <1>4, <2>1, <2>2, <2>3, <2>4, <2>5 DEF Open
  <1>5. CASE Background
    <2>1. CASE Install
      <3>1. bg.at = "sync"
            /\ versions' = [versions EXCEPT !.tables = Over(edit.add, Without(@, edit.del)),
                                            !.log = edit.log]
        BY <2>1 DEF Install
      <3>2. versions'.tables = Over(edit.add, Without(versions.tables, edit.del))
        BY <1>0, <3>1
      <3>3. TableMap(edit.add)
        BY <3>1 DEF TInv, SaidTyped
      <3> QED BY <1>0, <3>2, <3>3, MapOver, MapWithout
    <2>2. CASE StartFlush \/ OpenOutput
      BY <1>3, <2>2 DEF StartFlush, OpenOutput
    <2> QED BY <1>1, <1>5, <2>1, <2>2 DEF Background, BackgroundRefused, BuildTable, StartMerge,
                                          StartMove, FinishOutput, AppendEdit, SyncEditFails
  <1>6. CASE GroupStep
    <2>1. CASE FinishGroup
      <3>1. versions' = [versions EXCEPT !.last = @ + group.size]
        BY <2>1 DEF FinishGroup
      <3> QED BY <1>0, <1>1, <3>1
    <2> QED BY <1>1, <1>6, <2>1 DEF GroupStep, AddRecord, Sync
  <1>7. ASSUME NEW w \in Writers, Write(w) \/ WriterStep(w) PROVE TableMap(versions'.tables)
    BY <1>1, <1>3, <1>7 DEF Write, WriterStep, GiveUp, Wait, StartGroup, SwitchMemTable
  <1>8. CASE Pin \/ Unpin \/ ProcessCrash \/ MachineCrash
    BY <1>1, <1>2, <1>8 DEF Pin, Unpin, ProcessCrash, MachineCrash, Forget
  <1>9. CASE UNCHANGED vars
    BY <1>1, <1>9 DEF vars
  <1> QED BY <1>4, <1>5, <1>6, <1>7, <1>8, <1>9 DEF Next

LEMMA TEdit ==
    ASSUME IInv, GInv, TInv, [Next]_vars,
           phase' \in Opening \/ bg'.at \in {"append", "sync"}
    PROVE  TableMap(edit'.add)
  <1> USE DEF Opening
  <1>0. /\ phase \in Opening \/ bg.at \in {"append", "sync"} => TableMap(edit.add)
        /\ bg = [at |-> bg.at, out |-> bg.out]
        /\ phase # "open" => bg.at = "idle"
    BY DEF TInv, SaidTyped, IInv, FInv, Shapes
  <1>1. ASSUME UNCHANGED edit, phase' = phase, bg'.at = bg.at PROVE TableMap(edit'.add)
    BY <1>0, <1>1
  <1>2. ASSUME Failed(TRUE) \/ Failed(FALSE) \/ bg' = NoWork, phase' = phase, phase = "open"
        PROVE  FALSE
    BY <1>2 DEF Failed, NoWork
  <1>3. CASE Open
    <2>1. ASSUME OpenFails PROVE FALSE
      BY <1>0, <1>3, <2>1 DEF OpenFails, Open, NewDB, Recover, RecoverLogFile, NewLog,
                              WriteDescriptor, SetCurrentFile, FinishOpen
    <2>2. CASE NewDB
      BY <1>0, <2>2 DEF NewDB
    <2>3. CASE Recover
      BY <2>3, MapEmpty DEF Recover
    <2>4. CASE \E n \in DOMAIN logs : RecoverLogFile(n)
      <3>1. PICK n \in DOMAIN logs : RecoverLogFile(n)
        BY <2>4
      <3> DEFINE found == Contents(logs[n])
                 add   == IF found = {} THEN <<>> ELSE One(versions.next, 0)
      <3>2. phase = "replaying" /\ edit'.add = Over(add, edit.add)
        BY <2>1, <3>1 DEF RecoverLogFile
      <3>3. versions.next \in Nat /\ versions.next # 0
        BY <3>2, NewNumbers
      <3>4. TableMap(add)
        BY <3>3, MapOfOne, MapEmpty
      <3> HIDE DEF add
      <3> QED BY <1>0, <3>2, <3>4, MapOver
    <2>5. CASE NewLog
      <3>1. phase = "replaying" /\ edit'.add = edit.add
        BY <2>1, <2>5 DEF NewLog
      <3> QED BY <1>0, <3>1
    <2>6. CASE WriteDescriptor \/ SetCurrentFile
      <3>1. phase \in Opening /\ UNCHANGED edit
        BY <2>1, <2>6 DEF WriteDescriptor, SetCurrentFile
      <3> QED BY <1>0, <3>1
    <2>7. CASE FinishOpen
      BY <2>7 DEF FinishOpen, Scheduled
    <2> QED BY <1>3, <2>2, <2>3, <2>4, <2>5, <2>6, <2>7 DEF Open
  <1>4. CASE Background
    <2>1. phase' = phase /\ phase = "open"
      BY <1>0, <1>4 DEF Background, BackgroundRefused, StartFlush, BuildTable, StartMerge,
                        StartMove, OpenOutput, FinishOutput, AppendEdit, SyncEditFails, Install
    <2>2. CASE BuildTable
      <3>1. /\ bg.at = "build"
            /\ \E level \in {0, 1} :
                  edit' = Edit("flush", One(bg.out, level), {}, logNumber)
        BY <1>2, <2>1, <2>2 DEF BuildTable, Failed, NoWork
      <3>2. PICK level \in {0, 1} : edit'.add = One(bg.out, level)
        BY <3>1 DEF Edit
      <3>3. bg.out \in Nat /\ bg.out # 0
        BY <3>1 DEF GInv, OutputsApart, TInv, RestTyped
      <3> QED BY <3>2, <3>3, MapOfOne
    <2>3. CASE StartMove
      <3>1. PICK n \in Level0 : edit' = Edit("move", One(n, 1), {n}, versions.log)
        BY <2>3 DEF StartMove
      <3>2. n \in Nat /\ n # 0
        BY <3>1, MapOfTables DEF Level0, TInv, SaidTyped
      <3>3. edit'.add = One(n, 1)
        BY <3>1 DEF Edit
      <3> QED BY <3>2, <3>3, MapOfOne
    <2>4. CASE FinishOutput
      <3>1. bg.at = "merge" /\ merging.out # 0
            /\ edit' = Edit("merge", One(merging.out, 1), merging.in, versions.log)
        BY <1>2, <2>1, <2>4 DEF FinishOutput
      <3>2. edit'.add = One(merging.out, 1)
        BY <3>1 DEF Edit
      <3>3. merging.out \in Nat
        BY <3>1, NewNumbers DEF Merging
      <3> QED BY <3>1, <3>2, <3>3, MapOfOne
    <2>5. CASE AppendEdit \/ SyncEditFails
      <3>1. UNCHANGED edit /\ bg.at \in {"append", "sync"}
        BY <2>1, <2>5 DEF AppendEdit, SyncEditFails, NotLogged, Failed, NoWork
      <3> QED BY <1>0, <3>1
    <2>6. CASE Install
      BY <2>1, <2>6 DEF Install, Done, Scheduled
    <2> QED BY <1>4, <2>1, <2>2, <2>3, <2>4, <2>5, <2>6 DEF Background, BackgroundRefused,
                  StartFlush, StartMerge, OpenOutput, Failed, NoWork
  <1>5. CASE GroupStep
    BY <1>1, <1>5 DEF GroupStep, AddRecord, Sync, FinishGroup
  <1>6. ASSUME NEW w \in Writers, Write(w) \/ WriterStep(w) PROVE TableMap(edit'.add)
    <2>1. UNCHANGED <<edit, phase>> /\ (bg' = bg \/ bg'.at \in {"scheduled", "idle"})
      BY <1>6 DEF Write, WriterStep, GiveUp, Wait, StartGroup, SwitchMemTable, Scheduled
    <2> QED BY <1>0, <2>1
  <1>7. CASE Pin \/ Unpin
    BY <1>1, <1>7 DEF Pin, Unpin
  <1>8. ~ ProcessCrash /\ ~ MachineCrash
    BY DEF ProcessCrash, MachineCrash, Forget, NoWork
  <1>9. CASE UNCHANGED vars
    BY <1>1, <1>9 DEF vars
  <1> QED BY <1>3, <1>4, <1>5, <1>6, <1>7, <1>8, <1>9 DEF Next

LEMMA TManifests ==
    ASSUME IInv, GInv, TInv, [Next]_vars
    PROVE  \A m \in DOMAIN manifests' :
              /\ TableMap(manifests'[m].written.tables)
              /\ manifests'[m].durable # NeverSynced => TableMap(manifests'[m].durable.tables)
  <1> DEFINE Typed(d) == /\ TableMap(d.written.tables)
                         /\ d.durable # NeverSynced => TableMap(d.durable.tables)
             Goal     == \A m \in DOMAIN manifests' : Typed(manifests'[m])
  <1> SUFFICES Goal
    OBVIOUS
  <1>0. /\ \A m \in DOMAIN manifests : Typed(manifests[m])
        /\ \A m \in DOMAIN manifests :
             manifests[m] = [written |-> manifests[m].written, durable |-> manifests[m].durable,
                             tail |-> manifests[m].tail, broken |-> manifests[m].broken]
    BY DEF TInv, SaidTyped, IInv, FInv, DescriptorShapes
  <1>1. ASSUME UNCHANGED manifests PROVE Goal
    BY <1>0, <1>1
  <1>2. CASE NewDB
    <2>1. /\ DOMAIN manifests' = {1}
          /\ manifests'[1].written.tables = <<>> /\ manifests'[1].durable = NeverSynced
      BY <1>2 DEF NewDB, One, Descriptor, NewState
    <2> QED BY <2>1, MapEmpty
  <1>3. CASE WriteDescriptor
    <2>1. CASE UNCHANGED manifests
      BY <1>1, <2>1
    <2>2. CASE ~ UNCHANGED manifests
      <3> DEFINE base  == [tables |-> versions.tables, log |-> versions.log,
                           next |-> versions.next, last |-> versions.last]
                 state == Apply(base, edit)
                 new   == [Descriptor(state) EXCEPT !.durable = state]
      <3>1. phase = "recovered" /\ manifests' = Put(manifests, versions.manifest, new)
        BY <1>3, <2>2 DEF WriteDescriptor, disk
      <3>2. state.tables = Over(edit.add, Without(versions.tables, edit.del))
        BY DEF Apply
      <3>3. TableMap(edit.add) /\ TableMap(versions.tables)
        BY <3>1 DEF TInv, SaidTyped, Opening
      <3>4. TableMap(state.tables)
        BY <3>2, <3>3, MapOver, MapWithout
      <3>5. new.written = state /\ new.durable = state
        BY DEF Descriptor
      <3> HIDE DEF new, state
      <3>6. \A m \in DOMAIN manifests' :
               manifests'[m] = new \/ (m \in DOMAIN manifests /\ manifests'[m] = manifests[m])
        BY <3>1 DEF Put, Over, One
      <3> QED BY <1>0, <3>4, <3>5, <3>6
    <2> QED BY <2>1, <2>2
  <1>4. CASE SetCurrentFile
    <2>1. \A m \in DOMAIN manifests' : m \in DOMAIN manifests /\ manifests'[m] = manifests[m]
      BY <1>4 DEF SetCurrentFile, Without
    <2> QED BY <1>0, <2>1
  <1>5. CASE FinishOpen
    <2>1. \A m \in DOMAIN manifests' : m \in DOMAIN manifests /\ manifests'[m] = manifests[m]
      BY <1>5, Survivors DEF FinishOpen
    <2> QED BY <1>0, <2>1
  <1>6. CASE AppendEdit
    <2>1. bg.at = "append"
          /\ \E m \in PartlyAppended(Manifest) :
                manifests' = [manifests EXCEPT ![versions.manifest] = m]
      BY <1>6 DEF AppendEdit, PartlyAppended
    <2>2. PICK d \in PartlyAppended(Manifest) :
             manifests' = [manifests EXCEPT ![versions.manifest] = d]
      BY <2>1
    <2>3. /\ d.durable = Manifest.durable
          /\ d.written = Manifest.written \/ d.written = Apply(Manifest.written, edit)
      BY <2>1, AppendedHow
    <2>4. Typed(Manifest)
      <3>1. phase = "open" /\ versions.manifest \in DOMAIN manifests
        BY <2>1 DEF IInv, FInv, Shapes, CurrentIsKnown, Opening
      <3> QED BY <1>0, <3>1 DEF Manifest
    <2>5. TableMap(edit.add)
      BY <2>1 DEF TInv, SaidTyped
    <2>6. TableMap(Apply(Manifest.written, edit).tables)
      <3>1. Apply(Manifest.written, edit).tables
               = Over(edit.add, Without(Manifest.written.tables, edit.del))
        BY DEF Apply
      <3> QED BY <2>4, <2>5, <3>1, MapOver, MapWithout
    <2>7. Typed(d)
      BY <2>3, <2>4, <2>6
    <2> QED BY <1>0, <2>2, <2>7
  <1>7. CASE Install
    <2> DEFINE safe == [manifests EXCEPT ![versions.manifest].durable = Manifest.written]
    <2>1. manifests' = safe \/ DeleteObsoleteFiles(safe)
      BY <1>7 DEF Install
    <2>2. \A m \in DOMAIN safe : Typed(safe[m])
      <3> TAKE m \in DOMAIN safe
      <3>1. m \in DOMAIN manifests
        OBVIOUS
      <3> DEFINE d == manifests[m]
      <3>2. Typed(d) /\ d = [written |-> d.written, durable |-> d.durable, tail |-> d.tail,
                             broken |-> d.broken]
        BY <1>0, <3>1
      <3>3. CASE m # versions.manifest
        BY <3>1, <3>2, <3>3
      <3>4. CASE m = versions.manifest
        <4>1. safe[m] = [written |-> d.written, durable |-> d.written, tail |-> d.tail,
                         broken |-> d.broken]
          BY <3>1, <3>2, <3>4 DEF Manifest
        <4> HIDE DEF safe, d
        <4> QED BY <3>2, <4>1
      <3> QED BY <3>3, <3>4
    <2> HIDE DEF safe
    <2>3. \A m \in DOMAIN manifests' : m \in DOMAIN safe /\ manifests'[m] = safe[m]
      BY <2>1, Survivors
    <2> QED BY <2>2, <2>3
  <1>8. CASE MachineCrash
    <2>1. PICK lost \in SUBSET DOMAIN manifests :
          manifests' = [m \in DOMAIN manifests |->
              IF m \notin lost THEN manifests[m]
              ELSE IF manifests[m].durable = NeverSynced THEN [manifests[m] EXCEPT !.broken = TRUE]
              ELSE [manifests[m] EXCEPT !.written = manifests[m].durable]]
      BY <1>8 DEF MachineCrash
    <2>2. SUFFICES ASSUME NEW m \in DOMAIN manifests PROVE Typed(manifests'[m])
      BY <2>1
    <2> DEFINE d == manifests[m]
    <2>3. Typed(d) /\ d = [written |-> d.written, durable |-> d.durable, tail |-> d.tail,
                           broken |-> d.broken]
      BY <1>0
    <2>4. manifests'[m] = IF m \notin lost THEN d
                          ELSE IF d.durable = NeverSynced THEN [d EXCEPT !.broken = TRUE]
                          ELSE [d EXCEPT !.written = d.durable]
      BY <2>1
    <2> HIDE DEF d
    <2> QED BY <2>3, <2>4
  <1> HIDE DEF Goal
  <1>9. CASE Open
    BY <1>1, <1>2, <1>3, <1>4, <1>5, <1>9 DEF Open, Recover, RecoverLogFile, NewLog, disk
  <1>10. CASE Background
    BY <1>1, <1>6, <1>7, <1>10 DEF Background, BackgroundRefused, StartFlush, BuildTable,
               StartMerge, StartMove, OpenOutput, FinishOutput, SyncEditFails, disk
  <1>11. CASE GroupStep
    BY <1>1, <1>11 DEF GroupStep, AddRecord, Sync, FinishGroup, disk
  <1>12. ASSUME NEW w \in Writers, Write(w) \/ WriterStep(w) PROVE UNCHANGED manifests
    BY <1>12 DEF Write, WriterStep, GiveUp, Wait, StartGroup, disk
  <1>13. CASE Pin \/ Unpin \/ ProcessCrash
    BY <1>1, <1>13 DEF Pin, Unpin, ProcessCrash, disk
  <1>14. CASE UNCHANGED vars
    BY <1>1, <1>14 DEF vars, disk
  <1> QED BY <1>1, <1>8, <1>9, <1>10, <1>11, <1>12, <1>13, <1>14 DEF Next

LEMMA TBounds ==
    ASSUME Bounded, [Next]_vars
    PROVE  Bounded'
  <1> USE DEF counts
  <1>0. /\ MaxCrashes \in Nat /\ MaxFaults \in Nat
        /\ crashes \in Nat /\ crashes =< MaxCrashes /\ faults \in Nat /\ faults =< MaxFaults
    BY BoundsAssumption DEF Bounded
  <1>1. ASSUME UNCHANGED crashes, UNCHANGED faults \/ Fault PROVE Bounded'
    BY <1>0, <1>1 DEF Bounded, Fault
  <1>2. CASE Open
    BY <1>1, <1>2 DEF Open, NewDB, Recover, RecoverLogFile, NewLog, WriteDescriptor,
                      SetCurrentFile, FinishOpen, OpenFails
  <1>3. CASE Background
    BY <1>1, <1>3 DEF Background, BackgroundRefused, StartFlush, BuildTable, StartMerge,
                StartMove, OpenOutput, FinishOutput, AppendEdit, SyncEditFails, Install
  <1>4. CASE GroupStep
    BY <1>1, <1>4 DEF GroupStep, AddRecord, Sync, FinishGroup
  <1>5. ASSUME NEW w \in Writers, Write(w) \/ WriterStep(w) PROVE Bounded'
    BY <1>1, <1>5 DEF Write, WriterStep, GiveUp, Wait, StartGroup
  <1>6. CASE Pin \/ Unpin \/ UNCHANGED vars
    BY <1>1, <1>6 DEF Pin, Unpin, vars
  <1>7. CASE ProcessCrash \/ MachineCrash
    <2>1. crashes < MaxCrashes /\ crashes' = crashes + 1 /\ UNCHANGED faults
      BY <1>7 DEF ProcessCrash, MachineCrash, MayCrash
    <2> QED BY <1>0, <2>1 DEF Bounded
  <1> QED BY <1>2, <1>3, <1>4, <1>5, <1>6, <1>7 DEF Next

\* A memtable becomes imm_ when it is full, so that imm_ is never empty.
LEMMA TMemory ==
    ASSUME IInv, GInv, PInv, TInv, [Next]_vars, imm' # None
    PROVE  imm' \subseteq Seqs /\ imm' # {}
  <1>0. imm # None => imm \subseteq Seqs /\ imm # {}
    BY DEF TInv, RestTyped
  <1>1. ASSUME UNCHANGED imm PROVE imm' \subseteq Seqs /\ imm' # {}
    BY <1>0, <1>1
  <1>2. CASE Open
    BY <1>1, <1>2 DEF Open, NewDB, Recover, RecoverLogFile, NewLog, WriteDescriptor,
                      SetCurrentFile, FinishOpen, OpenFails
  <1>3. CASE Background
    BY <1>1, <1>3 DEF Background, BackgroundRefused, StartFlush, BuildTable, StartMerge,
                StartMove, OpenOutput, FinishOutput, AppendEdit, SyncEditFails, Install
  <1>4. CASE GroupStep
    BY <1>1, <1>4 DEF GroupStep, AddRecord, Sync, FinishGroup
  <1>5. ASSUME NEW w \in Writers, StartGroup(w)
        PROVE  imm' \subseteq Seqs /\ imm' # {}
    <2>1. phase = "open"
      BY <1>5, FrontIsOpen DEF StartGroup
    <2>2. mem \subseteq Seqs
      BY <2>1 DEF PInv, LogsBehind
    <2>3. UNCHANGED imm \/ (~ HasRoom /\ imm' = mem)
      BY <1>5 DEF StartGroup, SwitchMemTable
    <2>4. CASE ~ HasRoom /\ imm' = mem
      <3>1. mem # {}
        <4>1. Cardinality({}) = 0 /\ WriteBufferSize \in Nat
          BY FS_EmptySet, BoundsAssumption
        <4> QED BY <2>4, <4>1 DEF HasRoom
      <3> QED BY <2>2, <2>4, <3>1
    <2> QED BY <1>1, <2>3, <2>4
  <1>6. ASSUME NEW w \in Writers, Write(w) \/ WriterStep(w)
        PROVE  imm' \subseteq Seqs /\ imm' # {}
    BY <1>1, <1>5, <1>6 DEF Write, WriterStep, GiveUp, Wait
  <1>7. CASE Pin \/ Unpin \/ UNCHANGED vars
    BY <1>1, <1>7 DEF Pin, Unpin, vars
  <1>8. ~ ProcessCrash /\ ~ MachineCrash
    BY DEF ProcessCrash, MachineCrash, Forget
  <1> QED BY <1>2, <1>3, <1>4, <1>6, <1>7, <1>8 DEF Next

LEMMA TProcess ==
    ASSUME IInv, GInv, TInv, [Next]_vars
    PROVE  /\ bg'.at = "build" => 0 < bg'.out
           /\ phase' \in {"down", "created"} => edit' = None
           /\ phase' \in {"down", "created", "replaying"} => logNumber' = 0
  <1> DEFINE Goal == /\ bg'.at = "build" => 0 < bg'.out
                     /\ phase' \in {"down", "created"} => edit' = None
                     /\ phase' \in {"down", "created", "replaying"} => logNumber' = 0
  <1> SUFFICES Goal
    OBVIOUS
  <1>0. /\ bg.at = "build" => 0 < bg.out
        /\ phase \in {"down", "created"} => edit = None
        /\ phase \in {"down", "created", "replaying"} => logNumber = 0
        /\ phase # "open" => bg.at = "idle"
        /\ bg = [at |-> bg.at, out |-> bg.out]
    BY DEF TInv, RestTyped, IInv, FInv, Shapes
  <1>1. ASSUME UNCHANGED <<phase, edit, logNumber, bg>> PROVE Goal
    BY <1>0, <1>1
  <1>2. ASSUME phase = "open", UNCHANGED phase, bg'.at # "build" PROVE Goal
    BY <1>2
  <1>3. CASE Open
    <2>1. ASSUME OpenFails PROVE Goal
      <3>1. bg'.at # "build"
        BY <1>0, <1>3, <2>1 DEF OpenFails, Open, NewDB, Recover, RecoverLogFile, NewLog,
                                WriteDescriptor, SetCurrentFile, FinishOpen
      <3> QED BY <2>1, <3>1 DEF OpenFails
    <2>2. CASE NewDB \/ Recover
      BY <1>0, <2>2 DEF NewDB, Recover
    <2>3. CASE \E n \in DOMAIN logs : RecoverLogFile(n)
      <3>1. OpenFails \/ (phase = "replaying" /\ UNCHANGED <<phase, logNumber, bg>>)
        BY <2>3 DEF RecoverLogFile
      <3> QED BY <1>0, <2>1, <3>1
    <2>4. CASE NewLog \/ WriteDescriptor \/ SetCurrentFile
      <3>1. OpenFails
            \/ /\ phase \in Opening /\ phase' \in {"recovered", "described", "renamed"}
               /\ UNCHANGED bg
        BY <2>4 DEF NewLog, WriteDescriptor, SetCurrentFile, Opening
      <3> QED BY <1>0, <2>1, <3>1 DEF Opening
    <2>5. CASE FinishOpen
      BY <2>5 DEF FinishOpen, Scheduled
    <2> QED BY <1>3, <2>2, <2>3, <2>4, <2>5 DEF Open
  <1>4. CASE Background
    <2>1. phase' = phase /\ phase = "open"
      BY <1>0, <1>4 DEF Background, BackgroundRefused, StartFlush, BuildTable, StartMerge,
                        StartMove, OpenOutput, FinishOutput, AppendEdit, SyncEditFails, Install
    <2>2. CASE StartFlush
      <3>1. versions.next \in Nat /\ versions.next # 0 /\ bg'.out = versions.next
        BY <2>1, <2>2, NewNumbers DEF StartFlush
      <3> QED BY <2>1, <3>1
    <2>3. CASE BuildTable \/ AppendEdit
      <3>1. bg'.at # "build"
        BY <1>0, <2>3 DEF BuildTable, AppendEdit, NotLogged, Failed, NoWork
      <3> QED BY <1>2, <2>1, <3>1
    <2>4. CASE FinishOutput \/ SyncEditFails \/ Install
      <3>1. bg'.at # "build"
        BY <2>4 DEF FinishOutput, SyncEditFails, Install, NotLogged, Failed, NoWork, Done,
                    Scheduled
      <3> QED BY <1>2, <2>1, <3>1
    <2>5. CASE BackgroundRefused \/ StartMerge \/ StartMove \/ OpenOutput
      <3>1. bg'.at # "build"
        BY <2>5 DEF BackgroundRefused, StartMerge, StartMove, OpenOutput, Failed, NoWork
      <3> QED BY <1>2, <2>1, <3>1
    <2> QED BY <1>4, <2>2, <2>3, <2>4, <2>5 DEF Background
  <1>5. CASE GroupStep
    BY <1>1, <1>5 DEF GroupStep, AddRecord, Sync, FinishGroup
  <1>6. ASSUME NEW w \in Writers, Write(w) \/ WriterStep(w) PROVE Goal
    <2>1. CASE StartGroup(w)
      <3>1. phase = "open" /\ UNCHANGED phase /\ (bg' = bg \/ bg'.at # "build")
        BY <2>1, FrontIsOpen DEF StartGroup, SwitchMemTable, Scheduled
      <3> QED BY <1>0, <3>1
    <2> QED BY <1>1, <1>6, <2>1 DEF WriterStep, Write, GiveUp, Wait
  <1>7. CASE Pin \/ Unpin \/ UNCHANGED vars
    BY <1>1, <1>7 DEF Pin, Unpin, vars
  <1>8. CASE ProcessCrash \/ MachineCrash
    BY <1>8 DEF ProcessCrash, MachineCrash, Forget, NoWork
  <1> HIDE DEF Goal
  <1> QED BY <1>3, <1>4, <1>5, <1>6, <1>7, <1>8 DEF Next

LEMMA TInit == Init => TInv
  <1> SUFFICES ASSUME Init PROVE TInv
    OBVIOUS
  <1> USE DEF Init, NoVersions, NoWork
  <1>1. TablesTyped
    BY DEF TablesTyped
  <1>2. SaidTyped
    BY MapEmpty DEF SaidTyped, Opening
  <1>3. RestTyped /\ Bounded
    BY BoundsAssumption DEF RestTyped, Bounded
  <1> QED BY <1>1, <1>2, <1>3 DEF TInv

\* What the tables hold, in every state.
THEOREM Typed == Spec => []TInv
  <1>1. IInv /\ GInv /\ PInv /\ TInv /\ [Next]_vars => TInv'
    <2> SUFFICES ASSUME IInv, GInv, PInv, TInv, [Next]_vars PROVE TInv'
      OBVIOUS
    <2>1. SaidTyped'
      BY TVersions, TEdit, TManifests DEF SaidTyped
    <2>2. RestTyped'
      BY TMemory, TProcess DEF RestTyped
    <2> QED BY <2>1, <2>2, TTables, TBounds DEF TInv
  <1> QED BY <1>1, TInit, Invariance, NumbersApart, PromisesHeld, PTL DEF Spec

\* Every variable has its type, and what is counted stays within the bounds.
THEOREM TypesKept == Spec => []TypeOK
  <1>1. IInv /\ GInv /\ PInv /\ TInv => TypeOK
    <2> SUFFICES ASSUME IInv, GInv, PInv, TInv PROVE TypeOK
      OBVIOUS
    <2> USE DEF Opening
    <2>1. DOMAIN logs \subseteq Nat /\ DOMAIN tables \subseteq Nat
      BY DEF IInv, FInv, Shapes, TInv, TablesTyped
    <2>2. ASSUME NEW n \in DOMAIN logs
          PROVE  /\ Range(logs[n].records) \subseteq SUBSET Seqs
                 /\ logs[n].synced \in 0 .. Len(logs[n].records)
                 /\ logs[n].sound \in {None} \cup 0 .. Len(logs[n].records)
      <3>1. logs[n].records \in Seq(SUBSET Seqs)
        BY DEF GInv, LogsSound
      <3>2. Range(logs[n].records) \subseteq SUBSET Seqs
        BY <3>1 DEF Range
      <3> QED BY <3>2 DEF PInv, LogShapes, Torn
    <2>3. Range(tables) \subseteq SUBSET Seqs
      BY DEF TInv, TablesTyped, Range
    <2>4. /\ current \in {0} \cup DOMAIN manifests
          /\ phase \in {"down", "created", "replaying", "recovered", "described", "renamed", "open"}
      BY DEF IInv, FInv, CurrentIsKnown, Shapes
    <2>5. TableMap(versions.tables) /\ versions.last \in 0 .. MaxSeq
      BY DEF TInv, SaidTyped, GInv, MemSound
    <2>6. logNumber < versions.next \/ phase \in {"down", "created"}
      <3>1. CASE phase = "replaying"
        <4>1. logNumber = 0 /\ versions.next \in Nat /\ versions.next # 0
          BY <3>1, NewNumbers DEF TInv, RestTyped
        <4> QED BY <4>1
      <3>2. CASE phase \in {"recovered", "described", "renamed"}
        <4>1. logNumber \in Nat /\ versions.next = logNumber + 1
          BY <3>2 DEF GInv, LogsSound
        <4> QED BY <4>1
      <3>3. CASE phase = "open"
        BY <3>3 DEF GInv, LogsSound
      <3> QED BY <2>4, <3>1, <3>2, <3>3
    <2>7. mem \subseteq Seqs
      BY DEF PInv, LogsBehind, GInv, MemSound
    <2>8. imm = None \/ imm \in (SUBSET Seqs) \ {{}}
      BY DEF TInv, RestTyped
    <2>9. bg.at \in {"idle", "scheduled", "build", "merge", "append", "sync"}
      BY DEF IInv, FInv, Shapes
    <2>10. edit # None => TableMap(edit.add)
      <3>1. edit # None => phase \in Opening \/ bg.at \in {"append", "sync"}
        BY <2>4 DEF GInv, EditSound, Logging, TInv, RestTyped
      <3> QED BY <3>1 DEF TInv, SaidTyped
    <2>11. queue \in Seq(Writers) /\ writer \in [Writers -> States]
      BY DEF IInv, QInv, InLine
    <2>12. Range(queue) \subseteq Writers
      BY <2>11 DEF Range
    <2>13. \A w \in Writers : writer[w] \in {"idle", "queued", "front", "asleep", "leading"}
      BY <2>11 DEF States
    <2>14. crashes =< MaxCrashes /\ faults =< MaxFaults
      BY BoundsAssumption DEF TInv, Bounded
    <2> QED BY <2>1, <2>2, <2>3, <2>4, <2>5, <2>6, <2>7, <2>8, <2>9, <2>10, <2>12, <2>13, <2>14
           DEF TypeOK
  <1> QED BY <1>1, Invariance, NumbersApart, PromisesHeld, Typed, PTL
=============================================================================
