----------------------------- MODULE Restore_proofs -----------------------------
(***************************************************************************)
(* Proofs about the activation of a restored backup, for any set of data   *)
(* sets and keys, whether or not the pending credential may vanish.  The   *)
(* process may die between any two steps, any number of times.             *)
(***************************************************************************)
EXTENDS Restore, TLAPS

-----------------------------------------------------------------------------
(* The inductive invariant.  What is known of the disk is a matter of the     *)
(* journal that a start-up would find, whatever the process was doing; what   *)
(* the process relies on beyond that is a matter of its location.             *)

\* Generations alternate between the slots and each stands for one phase; both
\* slots are of one restore, and nothing older than generation 3 is beside
\* generation 4.
SlotsInv ==
  /\ slot[0] # None => \/ slot[0].gen = 2 /\ slot[0].phase = "Activating"
                       \/ slot[0].gen = 4 /\ slot[0].phase = "CredentialActivated"
  /\ slot[1] # None => \/ slot[1].gen = 1 /\ slot[1].phase = "Prepared"
                       \/ slot[1].gen = 3 /\ slot[1].phase = "DirectoriesActivated"
  /\ slot[0] # None /\ slot[1] # None =>
       /\ slot[0].key = slot[1].key /\ slot[0].existed = slot[1].existed
       /\ slot[0].gen = 4 => slot[1].gen = 3

SwapPending == Published # {}
At(g) == Published # {} /\ Latest.gen = g

\* No swap under way: nothing was ever installed, or one version with its key.
Settled ==
  /\ rollback = Empty
  /\ \/ active = Empty /\ current = None /\ ~opened
     \/ \E v \in Versions : active = [d \in Dirs |-> v] /\ current = KeyOf[v]

\* The old data, when there was some, can be put back whole, and its key is
\* still the installed one.
Held(j) ==
  \/ /\ j.existed = Dirs
     /\ \E v \in Versions :
          /\ current = KeyOf[v]
          /\ \A d \in Dirs : rollback[d] = v \/ (rollback[d] = None /\ active[d] = v)
  \/ j.existed = {} /\ current = None /\ rollback = Empty /\ ~opened

\* The directories are one version of the backup's key.
Restored(f, key) == \E v \in Versions : f = [d \in Dirs |-> v] /\ KeyOf[v] = key

Matches(j) == j.existed = {d \in Dirs : active[d] # None}

\* What a start-up finds.
DiskInv ==
  /\ ~work => ~SwapPending
  /\ ~SwapPending => Settled
  /\ At(1) => /\ Settled /\ Matches(Latest)
              /\ pending = Latest.key => Restored(candidate, Latest.key)
  /\ At(2) => Held(Latest)
  /\ At(3) => /\ current = Latest.key \/ Held(Latest)
              /\ Latest.key \in {current, pending} => Restored(active, Latest.key)
  /\ At(4) => current = Latest.key /\ Restored(active, Latest.key)

\* A running application has settled data; a running start-up may open.
RunningInv ==
  /\ home = "open" => opened
  /\ pc = "open" => opened /\ (SwapPending => At(1))
  /\ pc = "opening" => ~SwapPending

StagingInv ==
  /\ pc = "extract" => ~SwapPending /\ work
  /\ pc = "stage_key" => /\ ~SwapPending /\ work /\ journal # None /\ journal.phase = "Prepared"
                         /\ Restored(candidate, journal.key) /\ Matches(journal)

\* The journal the process is writing follows the one on disk.
Follows(g) == At(g) /\ journal.key = Latest.key /\ journal.existed = Latest.existed

WritingInv ==
  pc \in {"write", "publish"} =>
    /\ work /\ journal # None
    /\ journal.phase = "Prepared" =>
         ~SwapPending /\ Restored(candidate, journal.key) /\ Matches(journal)
    /\ journal.phase = "Activating" => Follows(1) /\ Restored(candidate, journal.key)
    /\ journal.phase = "DirectoriesActivated" => Follows(2) /\ Restored(active, journal.key)
    /\ journal.phase = "CredentialActivated" => Follows(3) /\ current = journal.key
    /\ pc = "publish" => journal.gen = NextGen /\ slot[SlotOf(journal.gen)] = None

Untouched(d) == rollback[d] = None /\ (d \notin journal.existed => active[d] = None)

\* Where the two renames of each directory have got to.
Swapping ==
  \E v \in Versions :
    /\ KeyOf[v] = journal.key
    /\ candidate["documents"] = v
    /\ dir = "database" => candidate["database"] = v /\ Untouched("documents")
    /\ dir = "documents" => active["database"] = v
    /\ pc = "backup" => Untouched(dir)
    /\ pc = "install" => active[dir] = None

ActivatingInv ==
  /\ pc = "activate" => At(1)
  /\ pc \in {"backup", "install"} => At(2) /\ journal = Latest /\ Swapping
  /\ pc = "install_key" => At(3) /\ journal = Latest
  /\ pc = "discard" => At(4)
  /\ pc = "finalize" => /\ \E v \in Versions : active = [d \in Dirs |-> v] /\ current = KeyOf[v]
                        /\ SwapPending => (At(3) \/ At(4)) /\ current = Latest.key

UndoInv ==
  /\ pc = "undo" => /\ At(2) \/ (At(3) /\ current # Latest.key)
                    /\ journal = Latest /\ home = "opening" /\ pending = None
                    /\ dir = "documents" => Untouched("database")
  /\ pc = "sweep" /\ SwapPending =>
       /\ At(1) \/ At(2) \/ (At(3) /\ current # Latest.key)
       /\ Settled /\ Matches(Latest) /\ home = "opening" /\ pending = None

RestoreInv ==
  RestoreTypeOK /\ SlotsInv /\ DiskInv /\ RunningInv /\ StagingInv /\ WritingInv /\ ActivatingInv /\ UndoInv

-----------------------------------------------------------------------------
(* The latest journal. *)

Newest ==
  IF slot[0] = None THEN slot[1]
  ELSE IF slot[1] = None THEN slot[0]
  ELSE IF slot[0].gen < slot[1].gen THEN slot[1] ELSE slot[0]

\* What Published and Latest are, without set and choice.
Reading ==
  /\ Published = {} <=> slot[0] = None /\ slot[1] = None
  /\ Published # {} => /\ Latest = Newest /\ Latest \in Journal
                       /\ Latest \in {slot[0], slot[1]} /\ Latest.gen \in 1..4

LEMMA LatestSlot == RestoreTypeOK /\ SlotsInv => Reading
<1> SUFFICES ASSUME RestoreTypeOK, SlotsInv PROVE Reading
  OBVIOUS
<1>1. slot[0] \in Journal \cup {None} /\ slot[1] \in Journal \cup {None}
  BY DEF RestoreTypeOK
<1>2. Published = {slot[0], slot[1]} \ {None}
  BY DEF Published
<1>3. \A r \in Journal : r.gen \in Nat
  BY DEF Journal
<1>4. ASSUME Published # {}
      PROVE  Latest = Newest
  <2>1. Newest \in Published /\ \A other \in Published : other.gen <= Newest.gen
    BY <1>1, <1>2, <1>3, <1>4 DEF Newest
  <2>2. \A r \in Published : (\A other \in Published : other.gen <= r.gen) => r = Newest
    <3>1. \A r, q \in Published : r.gen = q.gen => r = q
      BY <1>2 DEF SlotsInv
    <3> QED
      BY <1>1, <1>2, <1>3, <2>1, <3>1
  <2> QED
    BY <2>2 DEF Latest
<1> QED
  BY <1>1, <1>2, <1>4 DEF Reading, Newest, SlotsInv

LEMMA LatestSlotNext == (RestoreTypeOK /\ SlotsInv => Reading)'
BY LatestSlot, PTL

LEMMA SameJournals ==
  ASSUME UNCHANGED slot
  PROVE  Published' = Published /\ Latest' = Latest
BY DEF Published, Latest

LEMMA Rephased ==
  ASSUME NEW j \in Journal, NEW phase \in Phases
  PROVE  LET k == [j EXCEPT !.phase = phase] IN
         /\ k \in Journal /\ k # None
         /\ k.phase = phase /\ k.key = j.key /\ k.existed = j.existed
BY JournalAssumption DEF Journal

LEMMA LatestKey == Reading /\ Published # {} => Latest.key \in Keys /\ Latest.key # None
BY KeysAssumption DEF Reading, Journal, Keys

-----------------------------------------------------------------------------
(* One lemma for each step. *)

LEMMA StageBeginsKeeps ==
  ASSUME RestoreInv, StageBegins
  PROVE  RestoreInv'
<1> USE VersionsAssumption, KeysAssumption, JournalAssumption
<1>1. Reading /\ Published' = Published /\ Latest' = Latest
  BY LatestSlot, SameJournals DEF RestoreInv, StageBegins
<1>2. RestoreTypeOK'
  BY DEF StageBegins, RestoreInv, RestoreTypeOK, keys
<1>3. SlotsInv'
  BY DEF RestoreInv, SlotsInv, StageBegins
<1>4. DiskInv'
  BY <1>1 DEF StageBegins, RestoreInv, DiskInv, SwapPending, At, Settled, keys
<1>5. RunningInv'
  BY DEF StageBegins, RestoreInv, RunningInv
<1>6. StagingInv'
  BY <1>1 DEF StageBegins, StagingInv, SwapPending
<1>7. WritingInv'
  BY DEF StageBegins, WritingInv
<1>8. ActivatingInv'
  BY DEF StageBegins, ActivatingInv
<1>9. UndoInv'
  BY <1>1 DEF StageBegins, UndoInv, SwapPending
<1> QED
  BY <1>2, <1>3, <1>4, <1>5, <1>6, <1>7, <1>8, <1>9 DEF RestoreInv

LEMMA ExtractKeeps ==
  ASSUME RestoreInv, NEW v \in Versions, Extract(v)
  PROVE  RestoreInv'
<1> USE VersionsAssumption, KeysAssumption, JournalAssumption
<1>1. Reading /\ Published' = Published /\ Latest' = Latest
  BY LatestSlot, SameJournals DEF RestoreInv, Extract
<1>2. RestoreTypeOK'
  BY DEF Extract, RestoreInv, RestoreTypeOK, keys, Journal, Keys, Phases
<1>3. SlotsInv'
  BY DEF RestoreInv, SlotsInv, Extract
<1>4. DiskInv'
  BY <1>1 DEF Extract, RestoreInv, DiskInv, StagingInv, SwapPending, At, Settled, keys
<1>5. RunningInv'
  BY DEF Extract, RestoreInv, RunningInv
<1>6. StagingInv'
  <2>1. journal' \in Journal
    BY DEF Extract, Journal, Phases, Keys
  <2> QED
    BY <1>1, <2>1 DEF Extract, RestoreInv, StagingInv, SwapPending, Restored, Matches
<1>7. WritingInv'
  BY DEF Extract, WritingInv
<1>8. ActivatingInv'
  BY DEF Extract, ActivatingInv
<1>9. UndoInv'
  BY DEF Extract, UndoInv
<1> QED
  BY <1>2, <1>3, <1>4, <1>5, <1>6, <1>7, <1>8, <1>9 DEF RestoreInv

LEMMA ExtractRejectedKeeps ==
  ASSUME RestoreInv, ExtractRejected
  PROVE  RestoreInv'
<1> USE VersionsAssumption, KeysAssumption, JournalAssumption
<1>1. Reading /\ Published' = Published /\ Latest' = Latest
  BY LatestSlot, SameJournals DEF RestoreInv, ExtractRejected, disk
<1>2. RestoreTypeOK'
  BY DEF ExtractRejected, RestoreInv, RestoreTypeOK, disk, keys
<1>3. SlotsInv'
  BY DEF RestoreInv, SlotsInv, ExtractRejected, disk
<1>4. DiskInv'
  BY <1>1 DEF ExtractRejected, RestoreInv, DiskInv, SwapPending, At, Settled, Held, Matches, disk,
     keys
<1>5. RunningInv'
  BY DEF ExtractRejected, RestoreInv, RunningInv
<1>6. StagingInv'
  BY DEF ExtractRejected, StagingInv
<1>7. WritingInv'
  BY DEF ExtractRejected, WritingInv
<1>8. ActivatingInv'
  BY DEF ExtractRejected, ActivatingInv
<1>9. UndoInv'
  BY <1>1 DEF ExtractRejected, RestoreInv, StagingInv, UndoInv, SwapPending
<1> QED
  BY <1>2, <1>3, <1>4, <1>5, <1>6, <1>7, <1>8, <1>9 DEF RestoreInv

LEMMA StageKeyKeeps ==
  ASSUME RestoreInv, StageKey
  PROVE  RestoreInv'
<1> USE VersionsAssumption, KeysAssumption, JournalAssumption
<1>1. Reading /\ Published' = Published /\ Latest' = Latest
  BY LatestSlot, SameJournals DEF RestoreInv, StageKey, disk
<1>2. RestoreTypeOK'
  BY DEF StageKey, RestoreInv, RestoreTypeOK, StagingInv, disk, control, Journal
<1>3. SlotsInv'
  BY DEF RestoreInv, SlotsInv, StageKey, disk
<1>4. DiskInv'
  BY <1>1 DEF StageKey, RestoreInv, DiskInv, StagingInv, SwapPending, At, Settled, disk
<1>5. RunningInv'
  BY DEF StageKey, RestoreInv, RunningInv, control
<1>6. StagingInv'
  BY DEF StageKey, StagingInv
<1>7. WritingInv'
  BY <1>1 DEF StageKey, RestoreInv, StagingInv, WritingInv, SwapPending, Matches, disk, control
<1>8. ActivatingInv'
  BY DEF StageKey, ActivatingInv
<1>9. UndoInv'
  BY DEF StageKey, UndoInv
<1> QED
  BY <1>2, <1>3, <1>4, <1>5, <1>6, <1>7, <1>8, <1>9 DEF RestoreInv

LEMMA StagingFailsKeeps ==
  ASSUME RestoreInv, StagingFails
  PROVE  RestoreInv'
<1> USE VersionsAssumption, KeysAssumption, JournalAssumption
<1>1. Reading /\ Published' = Published /\ Latest' = Latest
  BY LatestSlot, SameJournals DEF RestoreInv, StagingFails, disk
<1>2. RestoreTypeOK'
  BY DEF StagingFails, RestoreInv, RestoreTypeOK, disk, keys, control
<1>3. SlotsInv'
  BY DEF RestoreInv, SlotsInv, StagingFails, disk
<1>4. DiskInv'
  BY <1>1 DEF StagingFails, RestoreInv, DiskInv, SwapPending, At, Settled, Held, Matches, disk, keys
<1>5. RunningInv'
  BY <1>1 DEF StagingFails, RestoreInv, RunningInv, StagingInv, WritingInv, UndoInv, SwapPending,
     control
<1>6. StagingInv'
  BY DEF StagingFails, RestoreInv, RestoreTypeOK, StagingInv
<1>7. WritingInv'
  BY DEF StagingFails, RestoreInv, RestoreTypeOK, WritingInv
<1>8. ActivatingInv'
  BY DEF StagingFails, RestoreInv, RestoreTypeOK, ActivatingInv
<1>9. UndoInv'
  BY DEF StagingFails, RestoreInv, RestoreTypeOK, UndoInv
<1> QED
  BY <1>2, <1>3, <1>4, <1>5, <1>6, <1>7, <1>8, <1>9 DEF RestoreInv

LEMMA ActivateKeeps ==
  ASSUME RestoreInv, Activate
  PROVE  RestoreInv'
<1> USE VersionsAssumption, KeysAssumption, JournalAssumption
<1>1. Reading /\ Published' = Published /\ Latest' = Latest
  BY LatestSlot, SameJournals DEF RestoreInv, Activate, disk
<1>2. RestoreTypeOK'
  BY <1>1 DEF Reading, Activate, RestoreInv, RestoreTypeOK, ActivatingInv, At, disk, keys,
     Journal, Phases
<1>3. SlotsInv'
  BY DEF RestoreInv, SlotsInv, Activate, disk
<1>4. DiskInv'
  BY <1>1 DEF Activate, RestoreInv, DiskInv, SwapPending, At, Settled, Held, Matches, disk, keys
<1>5. RunningInv'
  BY DEF Activate, RestoreInv, RunningInv
<1>6. StagingInv'
  BY DEF Activate, StagingInv
<1>7. WritingInv'
  <2>1. CASE pc' = "write"
    <3>1. /\ journal' # None /\ journal'.phase = "Activating"
          /\ journal'.key = Latest.key /\ journal'.existed = Latest.existed
      BY <1>1, Rephased DEF Reading, Activate, RestoreInv, ActivatingInv, At, Phases
    <3> QED
      BY <1>1, <3>1 DEF Activate, RestoreInv, DiskInv, WritingInv, ActivatingInv, SwapPending, At,
         Follows, disk
  <2>2. CASE pc' # "write"
    BY <2>2 DEF Activate
  <2> QED
    BY <2>1, <2>2
<1>8. ActivatingInv'
  BY DEF Activate, ActivatingInv
<1>9. UndoInv'
  BY DEF Activate, UndoInv
<1> QED
  BY <1>2, <1>3, <1>4, <1>5, <1>6, <1>7, <1>8, <1>9 DEF RestoreInv

LEMMA BackUpKeeps ==
  ASSUME RestoreInv, BackUp
  PROVE  RestoreInv'
<1> USE VersionsAssumption, KeysAssumption, JournalAssumption
<1>1. Reading /\ Published' = Published /\ Latest' = Latest
  BY LatestSlot, SameJournals DEF RestoreInv, BackUp
<1>2. RestoreTypeOK'
  BY DEF BackUp, RestoreInv, RestoreTypeOK, keys, control
<1>3. SlotsInv'
  BY DEF RestoreInv, SlotsInv, BackUp
<1>4. DiskInv'
  BY <1>1 DEF BackUp, RestoreInv, RestoreTypeOK, DiskInv, ActivatingInv, SwapPending, At, Held, keys
<1>5. RunningInv'
  BY DEF BackUp, RestoreInv, RunningInv, control
<1>6. StagingInv'
  BY DEF BackUp, StagingInv
<1>7. WritingInv'
  BY DEF BackUp, WritingInv
<1>8. ActivatingInv'
  BY <1>1 DEF BackUp, RestoreInv, RestoreTypeOK, ActivatingInv, At, Untouched, Swapping, control,
     Dirs
<1>9. UndoInv'
  BY DEF BackUp, UndoInv
<1> QED
  BY <1>2, <1>3, <1>4, <1>5, <1>6, <1>7, <1>8, <1>9 DEF RestoreInv

LEMMA InstallKeeps ==
  ASSUME RestoreInv, Install
  PROVE  RestoreInv'
<1> USE VersionsAssumption, KeysAssumption, JournalAssumption
<1>1. Reading /\ Published' = Published /\ Latest' = Latest
  BY LatestSlot, SameJournals DEF RestoreInv, Install
<1>2. RestoreTypeOK'
  BY <1>1 DEF Reading, Install, Write, RestoreInv, RestoreTypeOK, ActivatingInv, At, keys, Dirs,
     Journal, Phases
<1>3. SlotsInv'
  BY DEF RestoreInv, SlotsInv, Install
<1>4. DiskInv'
  BY <1>1 DEF Install, RestoreInv, DiskInv, ActivatingInv, SwapPending, At, Held, keys
<1>5. RunningInv'
  BY DEF Install, Write, RestoreInv, RunningInv
<1>6. StagingInv'
  BY DEF Install, Write, StagingInv
<1>7. WritingInv'
  <2>1. CASE dir = "documents"
    <3>1. journal = Latest /\ journal \in Journal
      BY <1>1 DEF Reading, Install, RestoreInv, ActivatingInv, At
    <3>2. /\ journal' # None /\ journal'.phase = "DirectoriesActivated"
          /\ journal'.key = Latest.key /\ journal'.existed = Latest.existed
      <4>1. dir # "database" /\ "DirectoriesActivated" \in Phases
        BY <2>1 DEF Phases
      <4>2. journal' = [journal EXCEPT !.phase = "DirectoriesActivated"]
        BY <4>1 DEF Install, Write
      <4> QED
        BY <3>1, <4>1, <4>2, Rephased
    <3>3. PICK v \in Versions : KeyOf[v] = journal.key /\ candidate["documents"] = v /\ active["database"] = v
      BY <2>1 DEF Install, RestoreInv, ActivatingInv, Swapping
    <3>4. active \in [Dirs -> Versions \cup {None, Partial}] /\ active' = [active EXCEPT !["documents"] = v]
      BY <2>1, <3>3 DEF Install, RestoreInv, RestoreTypeOK
    <3>5. active' = [d \in Dirs |-> v]
      BY <3>3, <3>4 DEF Dirs
    <3> QED
      BY <1>1, <3>1, <3>2, <3>3, <3>5 DEF Install, Write, RestoreInv, DiskInv, ActivatingInv,
         WritingInv, Follows, At, SwapPending, Restored
  <2>2. CASE dir = "database"
    BY <2>2 DEF WritingInv, Install
  <2> QED
    BY <2>1, <2>2 DEF RestoreInv, RestoreTypeOK, Dirs
<1>8. ActivatingInv'
  BY <1>1 DEF Install, Write, RestoreInv, RestoreTypeOK, ActivatingInv, At, Untouched, Swapping
<1>9. UndoInv'
  BY DEF Install, Write, UndoInv
<1> QED
  BY <1>2, <1>3, <1>4, <1>5, <1>6, <1>7, <1>8, <1>9 DEF RestoreInv

LEMMA InstallKeyKeeps ==
  ASSUME RestoreInv, InstallKey
  PROVE  RestoreInv'
<1> USE VersionsAssumption, KeysAssumption, JournalAssumption
<1>1. Reading /\ Published' = Published /\ Latest' = Latest
  BY LatestSlot, SameJournals DEF RestoreInv, InstallKey, disk
<1>2. RestoreTypeOK'
  BY <1>1 DEF Reading, InstallKey, Write, RestoreInv, RestoreTypeOK, ActivatingInv, At, disk,
     Journal, Phases
<1>3. SlotsInv'
  BY DEF RestoreInv, SlotsInv, InstallKey, disk
<1>4. DiskInv'
  BY <1>1 DEF InstallKey, RestoreInv, DiskInv, ActivatingInv, SwapPending, At, disk
<1>5. RunningInv'
  BY DEF InstallKey, Write, RestoreInv, RunningInv
<1>6. StagingInv'
  BY DEF InstallKey, Write, StagingInv
<1>7. WritingInv'
  <2>1. CASE pc' = "write"
    <3>0. journal = Latest /\ journal \in Journal
      BY <1>1 DEF Reading, InstallKey, RestoreInv, ActivatingInv, At
    <3>1. /\ journal' # None /\ journal'.phase = "CredentialActivated"
          /\ journal'.key = Latest.key /\ journal'.existed = Latest.existed
      <4>1. journal' = [journal EXCEPT !.phase = "CredentialActivated"]
        BY DEF InstallKey, Write
      <4>2. "CredentialActivated" \in Phases
        BY DEF Phases
      <4>3. /\ journal' # None /\ journal'.phase = "CredentialActivated"
            /\ journal'.key = journal.key /\ journal'.existed = journal.existed
        BY <3>0, <4>1, <4>2, Rephased
      <4> QED
        BY <3>0, <4>3
    <3> QED
      BY <1>1, <3>1 DEF InstallKey, Write, RestoreInv, DiskInv, WritingInv, ActivatingInv,
         SwapPending, At, Follows, disk
  <2>2. CASE pc' # "write"
    BY <2>2 DEF InstallKey, Write
  <2> QED
    BY <2>1, <2>2
<1>8. ActivatingInv'
  BY DEF InstallKey, Write, ActivatingInv
<1>9. UndoInv'
  BY DEF InstallKey, Write, UndoInv
<1> QED
  BY <1>2, <1>3, <1>4, <1>5, <1>6, <1>7, <1>8, <1>9 DEF RestoreInv

LEMMA DiscardPendingKeeps ==
  ASSUME RestoreInv, DiscardPending
  PROVE  RestoreInv'
<1> USE VersionsAssumption, KeysAssumption, JournalAssumption
<1>1. Reading /\ Published' = Published /\ Latest' = Latest
  BY LatestSlot, SameJournals DEF RestoreInv, DiscardPending, disk
<1>2. RestoreTypeOK'
  BY DEF DiscardPending, RestoreInv, RestoreTypeOK, disk, control
<1>3. SlotsInv'
  BY DEF RestoreInv, SlotsInv, DiscardPending, disk
<1>4. DiskInv'
  BY <1>1 DEF DiscardPending, RestoreInv, DiskInv, ActivatingInv, SwapPending, At, disk
<1>5. RunningInv'
  BY DEF DiscardPending, RestoreInv, RunningInv, control
<1>6. StagingInv'
  BY DEF DiscardPending, StagingInv
<1>7. WritingInv'
  BY DEF DiscardPending, WritingInv
<1>8. ActivatingInv'
  BY <1>1 DEF DiscardPending, RestoreInv, DiskInv, ActivatingInv, At, Restored, disk
<1>9. UndoInv'
  BY DEF DiscardPending, UndoInv
<1> QED
  BY <1>2, <1>3, <1>4, <1>5, <1>6, <1>7, <1>8, <1>9 DEF RestoreInv

LEMMA RecoverKeeps ==
  ASSUME RestoreInv, Recover
  PROVE  RestoreInv'
<1> USE VersionsAssumption, KeysAssumption, JournalAssumption
<1>1. Reading /\ Published' = Published /\ Latest' = Latest
  BY LatestSlot, SameJournals DEF RestoreInv, Recover, disk
<1>2. RestoreTypeOK'
  BY <1>1 DEF Reading, Recover, Resume, Undo, Commit, RestoreInv, RestoreTypeOK, disk, keys, Dirs
<1>3. SlotsInv'
  BY DEF RestoreInv, SlotsInv, Recover, disk
<1>4. DiskInv'
  <2>1. CASE ~work
    BY <1>1, <2>1 DEF Recover, RestoreInv, DiskInv, SwapPending, At, Settled, disk
  <2>2. CASE work /\ Published = {}
    BY <1>1, <2>2 DEF Recover, RestoreInv, DiskInv, SwapPending, At, Settled, disk, keys
  <2>3. CASE Published # {} /\ Latest.gen \in {1, 2}
    BY <1>1, LatestKey DEF Recover, Resume, Undo, Commit, RestoreInv, DiskInv, SwapPending, At,
       Settled, Held, Matches, disk, keys
  <2>4. CASE Published # {} /\ Latest.gen \in {3, 4}
    BY <1>1, <2>4, LatestKey DEF Recover, Resume, Undo, Commit, RestoreInv, DiskInv, SwapPending, At,
       Held, disk, keys
  <2> QED
    BY <1>1, <2>1, <2>2, <2>3, <2>4 DEF Reading
<1>5. RunningInv'
  BY <1>1 DEF Recover, Resume, Undo, Commit, RestoreInv, DiskInv, RunningInv, SwapPending
<1>6. StagingInv'
  BY DEF Recover, Resume, Undo, Commit, StagingInv
<1>7. WritingInv'
  BY DEF Recover, Resume, Undo, Commit, WritingInv
<1>8. ActivatingInv'
  <2>1. CASE ~work
    BY <2>1 DEF Recover, RestoreInv, DiskInv, ActivatingInv, SwapPending
  <2>2. CASE work /\ Published = {}
    BY <2>2 DEF Recover, ActivatingInv
  <2>3. CASE Published # {} /\ Latest.gen \in {1, 2}
    BY <1>1, <2>3 DEF Reading, SlotsInv, Recover, Resume, Undo, RestoreInv, ActivatingInv, At
  <2>4. CASE Published # {} /\ Latest.gen \in {3, 4}
    BY <1>1 DEF Reading, SlotsInv, Recover, Resume, Undo, Commit, RestoreInv, DiskInv,
       ActivatingInv, At, Restored, disk
  <2> QED
    BY <1>1, <2>1, <2>2, <2>3, <2>4 DEF Reading
<1>9. UndoInv'
  <2>1. CASE ~work
    BY <2>1 DEF Recover, RestoreInv, DiskInv, UndoInv, SwapPending
  <2>2. CASE work /\ Published = {}
    BY <1>1, <2>2 DEF Recover, UndoInv, SwapPending
  <2>3. CASE Published # {} /\ Latest.gen \in {1, 2}
    BY <1>1 DEF Reading, SlotsInv, Recover, Resume, Undo, Commit, RestoreInv, UndoInv, SwapPending,
       At
  <2>4. CASE Published # {} /\ Latest.gen \in {3, 4}
    BY <1>1 DEF Reading, SlotsInv, Recover, Resume, Undo, Commit, RestoreInv, UndoInv, SwapPending,
       At
  <2> QED
    BY <1>1, <2>1, <2>2, <2>3, <2>4 DEF Reading
<1> QED
  BY <1>2, <1>3, <1>4, <1>5, <1>6, <1>7, <1>8, <1>9 DEF RestoreInv

LEMMA RecoveryFailsKeeps ==
  ASSUME RestoreInv, RecoveryFails
  PROVE  RestoreInv'
<1> USE VersionsAssumption, KeysAssumption, JournalAssumption
<1>1. Reading /\ Published' = Published /\ Latest' = Latest
  BY LatestSlot, SameJournals DEF RestoreInv, RecoveryFails, disk
<1>2. RestoreTypeOK'
  BY DEF RecoveryFails, RestoreInv, RestoreTypeOK, disk, keys, control
<1>3. SlotsInv'
  BY DEF RestoreInv, SlotsInv, RecoveryFails, disk
<1>4. DiskInv'
  BY <1>1 DEF RecoveryFails, RestoreInv, DiskInv, SwapPending, At, Settled, Held, Matches, disk, keys
<1>5. RunningInv'
  BY DEF RecoveryFails, RestoreInv, RunningInv, control
<1>6. StagingInv'
  BY DEF RecoveryFails, StagingInv
<1>7. WritingInv'
  BY DEF RecoveryFails, WritingInv
<1>8. ActivatingInv'
  BY DEF RecoveryFails, ActivatingInv
<1>9. UndoInv'
  BY DEF RecoveryFails, UndoInv
<1> QED
  BY <1>2, <1>3, <1>4, <1>5, <1>6, <1>7, <1>8, <1>9 DEF RestoreInv

LEMMA UndoRemovesKeeps ==
  ASSUME RestoreInv, UndoRemoves
  PROVE  RestoreInv'
<1> USE VersionsAssumption, KeysAssumption, JournalAssumption
<1>1. Reading /\ Published' = Published /\ Latest' = Latest
  BY LatestSlot, SameJournals DEF RestoreInv, UndoRemoves
<1>2. RestoreTypeOK'
  BY DEF UndoRemoves, RestoreInv, RestoreTypeOK, keys, control, Shrunk
<1>3. SlotsInv'
  BY DEF RestoreInv, SlotsInv, UndoRemoves
<1>4. DiskInv'
  BY <1>1 DEF UndoRemoves, RestoreInv, DiskInv, UndoInv, SwapPending, At, Held, Restored, keys,
     Shrunk
<1>5. RunningInv'
  BY DEF UndoRemoves, RestoreInv, RunningInv, control
<1>6. StagingInv'
  BY DEF UndoRemoves, StagingInv
<1>7. WritingInv'
  BY DEF UndoRemoves, WritingInv
<1>8. ActivatingInv'
  BY DEF UndoRemoves, ActivatingInv
<1>9. UndoInv'
  BY <1>1 DEF UndoRemoves, RestoreInv, UndoInv, At, Untouched, keys, control, Shrunk
<1> QED
  BY <1>2, <1>3, <1>4, <1>5, <1>6, <1>7, <1>8, <1>9 DEF RestoreInv

LEMMA UndoRestoresKeeps ==
  ASSUME RestoreInv, UndoRestores
  PROVE  RestoreInv'
<1> USE VersionsAssumption, KeysAssumption, JournalAssumption
<1>1. Reading /\ Published' = Published /\ Latest' = Latest
  BY LatestSlot, SameJournals DEF RestoreInv, UndoRestores
<1>2. RestoreTypeOK'
  BY DEF UndoRestores, AfterUndo, RestoreInv, RestoreTypeOK, keys, Dirs
<1>3. SlotsInv'
  BY DEF RestoreInv, SlotsInv, UndoRestores
<1>4. DiskInv'
  BY <1>1 DEF UndoRestores, RestoreInv, RestoreTypeOK, DiskInv, RunningInv, SwapPending, At, Settled,
     Held, Restored, keys, Empty
<1>5. RunningInv'
  BY DEF UndoRestores, AfterUndo, RestoreInv, RunningInv
<1>6. StagingInv'
  BY DEF UndoRestores, AfterUndo, StagingInv
<1>7. WritingInv'
  BY DEF UndoRestores, AfterUndo, WritingInv
<1>8. ActivatingInv'
  BY DEF UndoRestores, AfterUndo, ActivatingInv
<1>9. UndoInv'
  <2>1. Dirs = {"database", "documents"} /\ dir \in Dirs /\ journal = Latest /\ Held(journal)
    BY DEF RestoreInv, UndoInv, DiskInv, RestoreTypeOK, Dirs, UndoRestores
  <2>2. /\ rollback[dir] # None /\ rollback \in [Dirs -> Versions \cup {None, Partial}]
        /\ active \in [Dirs -> Versions \cup {None, Partial}]
    BY DEF UndoRestores, RestoreInv, RestoreTypeOK
  <2>3. PICK v \in Versions :
        /\ journal.existed = Dirs /\ current = KeyOf[v]
        /\ \A d \in Dirs : rollback[d] = v \/ (rollback[d] = None /\ active[d] = v)
    BY <2>1, <2>2 DEF Held, Empty
  <2>4. CASE dir = "database"
    BY <1>1, <2>3, <2>4 DEF UndoRestores, AfterUndo, RestoreInv, RestoreTypeOK, UndoInv, At,
       Untouched, keys
  <2>5. CASE dir = "documents"
    <3>1. active' = [d \in Dirs |-> v] /\ rollback' = Empty
      <4>1. rollback["database"] = None /\ active["database"] = v /\ rollback["documents"] = v
        BY <2>1, <2>3, <2>5 DEF UndoRestores, RestoreInv, UndoInv, Untouched
      <4>2. /\ active' = [active EXCEPT !["documents"] = v]
            /\ rollback' = [rollback EXCEPT !["documents"] = None]
        BY <2>5, <4>1 DEF UndoRestores
      <4> QED
        BY <2>1, <2>2, <4>1, <4>2 DEF Empty
    <3>2. /\ pc' = "sweep" /\ home' = "opening" /\ pending' = None
          /\ At(2) \/ (At(3) /\ current # Latest.key)
      BY <2>5 DEF RestoreInv, UndoInv, UndoRestores, AfterUndo, keys
    <3>3. current' = current /\ Settled'
      BY <2>3, <3>1 DEF UndoRestores, keys, Settled
    <3>4. Matches(Latest)'
      BY <1>1, <2>1, <2>3, <3>1 DEF Matches
    <3> QED
      BY <1>1, <3>2, <3>3, <3>4 DEF UndoInv, At, SwapPending
  <2> QED
    BY <2>1, <2>4, <2>5
<1> QED
  BY <1>2, <1>3, <1>4, <1>5, <1>6, <1>7, <1>8, <1>9 DEF RestoreInv

LEMMA UndoSkipsKeeps ==
  ASSUME RestoreInv, UndoSkips
  PROVE  RestoreInv'
<1> USE VersionsAssumption, KeysAssumption, JournalAssumption
<1>1. Reading /\ Published' = Published /\ Latest' = Latest
  BY LatestSlot, SameJournals DEF RestoreInv, UndoSkips, disk
<1>2. RestoreTypeOK'
  BY DEF UndoSkips, AfterUndo, RestoreInv, RestoreTypeOK, disk, keys, Dirs
<1>3. SlotsInv'
  BY DEF RestoreInv, SlotsInv, UndoSkips, disk
<1>4. DiskInv'
  BY <1>1 DEF UndoSkips, RestoreInv, DiskInv, SwapPending, At, Settled, Held, Matches, disk, keys
<1>5. RunningInv'
  BY DEF UndoSkips, AfterUndo, RestoreInv, RunningInv
<1>6. StagingInv'
  BY DEF UndoSkips, AfterUndo, StagingInv
<1>7. WritingInv'
  BY DEF UndoSkips, AfterUndo, WritingInv
<1>8. ActivatingInv'
  BY DEF UndoSkips, AfterUndo, ActivatingInv
<1>9. UndoInv'
  BY <1>1 DEF UndoSkips, AfterUndo, RestoreInv, RestoreTypeOK, DiskInv, UndoInv, At, Settled,
     Held, Matches, Untouched, disk, keys, Dirs, Empty
<1> QED
  BY <1>2, <1>3, <1>4, <1>5, <1>6, <1>7, <1>8, <1>9 DEF RestoreInv

LEMMA OpenKeeps ==
  ASSUME RestoreInv, Open
  PROVE  RestoreInv'
<1> USE VersionsAssumption, KeysAssumption, JournalAssumption
<1>1. Reading /\ Published' = Published /\ Latest' = Latest
  BY LatestSlot, SameJournals DEF RestoreInv, Open
<1>2. RestoreTypeOK'
  BY DEF Open, RestoreInv, RestoreTypeOK, control, Keys
<1>3. SlotsInv'
  BY DEF RestoreInv, SlotsInv, Open
<1>4. DiskInv'
  BY <1>1 DEF Open, RestoreInv, DiskInv, RunningInv, SwapPending, At, Settled, Dirs, Empty
<1>5. RunningInv'
  BY <1>1 DEF Open, RestoreInv, RunningInv, SwapPending
<1>6. StagingInv'
  BY DEF Open, StagingInv
<1>7. WritingInv'
  BY DEF Open, WritingInv
<1>8. ActivatingInv'
  BY DEF Open, ActivatingInv
<1>9. UndoInv'
  BY DEF Open, UndoInv
<1> QED
  BY <1>2, <1>3, <1>4, <1>5, <1>6, <1>7, <1>8, <1>9 DEF RestoreInv

LEMMA CrashKeeps ==
  ASSUME RestoreInv, Crash
  PROVE  RestoreInv'
<1> USE VersionsAssumption, KeysAssumption, JournalAssumption
<1>1. Reading /\ Published' = Published /\ Latest' = Latest
  BY LatestSlot, SameJournals DEF RestoreInv, Crash, disk
<1>2. RestoreTypeOK'
  BY DEF Crash, RestoreInv, RestoreTypeOK, disk, keys, control
<1>3. SlotsInv'
  BY DEF RestoreInv, SlotsInv, Crash, disk
<1>4. DiskInv'
  BY <1>1 DEF Crash, RestoreInv, DiskInv, SwapPending, At, Settled, Held, Matches, disk, keys
<1>5. RunningInv'
  BY DEF Crash, RestoreInv, RunningInv, control
<1>6. StagingInv'
  BY DEF Crash, StagingInv
<1>7. WritingInv'
  BY DEF Crash, WritingInv
<1>8. ActivatingInv'
  BY DEF Crash, ActivatingInv
<1>9. UndoInv'
  BY DEF Crash, UndoInv
<1> QED
  BY <1>2, <1>3, <1>4, <1>5, <1>6, <1>7, <1>8, <1>9 DEF RestoreInv

LEMMA LosePendingKeyKeeps ==
  ASSUME RestoreInv, LosePendingKey
  PROVE  RestoreInv'
<1> USE VersionsAssumption, KeysAssumption, JournalAssumption
<1>1. Reading /\ Published' = Published /\ Latest' = Latest
  BY LatestSlot, SameJournals DEF RestoreInv, LosePendingKey, disk
<1>2. RestoreTypeOK'
  BY DEF LosePendingKey, RestoreInv, RestoreTypeOK, disk, control
<1>3. SlotsInv'
  BY DEF RestoreInv, SlotsInv, LosePendingKey, disk
<1>4. DiskInv'
  BY <1>1, LatestKey DEF LosePendingKey, RestoreInv, DiskInv, SwapPending, At, Settled, Held,
     Matches, disk
<1>5. RunningInv'
  BY <1>1 DEF LosePendingKey, RestoreInv, RunningInv, SwapPending, At, control
<1>6. StagingInv'
  BY <1>1 DEF LosePendingKey, RestoreInv, StagingInv, SwapPending, Matches, disk, control
<1>7. WritingInv'
  BY <1>1 DEF LosePendingKey, RestoreInv, WritingInv, SwapPending, At, Follows, Matches, disk,
     control, NextGen
<1>8. ActivatingInv'
  BY <1>1 DEF LosePendingKey, RestoreInv, ActivatingInv, SwapPending, At, Untouched, Swapping, disk,
     control
<1>9. UndoInv'
  BY <1>1 DEF LosePendingKey, RestoreInv, UndoInv, SwapPending
<1> QED
  BY <1>2, <1>3, <1>4, <1>5, <1>6, <1>7, <1>8, <1>9 DEF RestoreInv

LEMMA SweepDoneKeeps ==
  ASSUME RestoreInv, SweepDone
  PROVE  RestoreInv'
<1> USE VersionsAssumption, KeysAssumption, JournalAssumption
<1>1. Reading /\ Published' = Published /\ Latest' = Latest
  BY LatestSlot, SameJournals DEF RestoreInv, SweepDone
<1>2. RestoreTypeOK'
  BY DEF SweepDone, RestoreInv, RestoreTypeOK, control
<1>3. SlotsInv'
  BY DEF RestoreInv, SlotsInv, SweepDone
<1>4. DiskInv'
  BY <1>1 DEF SweepDone, RestoreInv, DiskInv, SwapPending, At, Settled
<1>5. RunningInv'
  BY <1>1 DEF SweepDone, RestoreInv, RunningInv, SwapPending, control
<1>6. StagingInv'
  BY <1>1 DEF SweepDone, RestoreInv, RestoreTypeOK, StagingInv, SwapPending
<1>7. WritingInv'
  BY DEF SweepDone, RestoreInv, RestoreTypeOK, WritingInv
<1>8. ActivatingInv'
  BY DEF SweepDone, RestoreInv, RestoreTypeOK, ActivatingInv
<1>9. UndoInv'
  BY DEF SweepDone, RestoreInv, RestoreTypeOK, UndoInv
<1> QED
  BY <1>2, <1>3, <1>4, <1>5, <1>6, <1>7, <1>8, <1>9 DEF RestoreInv

LEMMA VacateSlotKeeps ==
  ASSUME RestoreInv, VacateSlot
  PROVE  RestoreInv'
<1> USE VersionsAssumption, KeysAssumption, JournalAssumption
<1>1. Reading
  BY LatestSlot DEF RestoreInv
<1>2. journal \in Journal /\ NextGen \in 1..4 /\ SlotOf(NextGen) \in 0..1
  BY DEF VacateSlot, RestoreInv, RestoreTypeOK, WritingInv, SwapPending, At, Follows, NextGen,
     SlotOf, Journal, Phases
<1>3. journal' \in Journal /\ journal' # None
  BY <1>2 DEF VacateSlot, Journal
<1>4. RestoreTypeOK'
  BY <1>3 DEF VacateSlot, RestoreInv, RestoreTypeOK, keys
<1>5. SlotsInv'
  BY DEF VacateSlot, RestoreInv, SlotsInv
<1>6. Reading'
  BY <1>4, <1>5, LatestSlotNext
<1>7. (Published' = {} <=> Published = {}) /\ (Published # {} => Latest' = Latest)
  BY <1>1, <1>6 DEF Reading, VacateSlot, RestoreInv, RestoreTypeOK, SlotsInv, WritingInv,
     NextGen, SlotOf
<1>8. DiskInv'
  BY <1>7 DEF VacateSlot, RestoreInv, DiskInv, SwapPending, At, Settled, Held, Matches, keys
<1>9. RunningInv'
  BY DEF VacateSlot, RestoreInv, RunningInv
<1>10. StagingInv'
  BY DEF VacateSlot, StagingInv
<1>11. WritingInv'
  BY <1>2, <1>3, <1>7 DEF VacateSlot, RestoreInv, RestoreTypeOK, WritingInv, SwapPending, At,
     Follows, Matches, keys, NextGen
<1>12. ActivatingInv'
  BY DEF VacateSlot, ActivatingInv
<1>13. UndoInv'
  BY DEF VacateSlot, UndoInv
<1> QED
  BY <1>4, <1>5, <1>8, <1>9, <1>10, <1>11, <1>12, <1>13 DEF RestoreInv

LEMMA PublishSlotKeeps ==
  ASSUME RestoreInv, PublishSlot
  PROVE  RestoreInv'
<1> USE VersionsAssumption, KeysAssumption, JournalAssumption
<1>1. Reading
  BY LatestSlot DEF RestoreInv
<1>2. journal \in Journal /\ journal # None /\ journal.gen = NextGen /\ slot[SlotOf(journal.gen)] = None
  BY DEF PublishSlot, RestoreInv, RestoreTypeOK, WritingInv
<1>3. \/ ~SwapPending /\ journal.gen = 1 /\ journal.phase = "Prepared"
      \/ Follows(1) /\ journal.gen = 2 /\ journal.phase = "Activating"
      \/ Follows(2) /\ journal.gen = 3 /\ journal.phase = "DirectoriesActivated"
      \/ Follows(3) /\ journal.gen = 4 /\ journal.phase = "CredentialActivated"
  BY <1>2 DEF PublishSlot, RestoreInv, WritingInv, SwapPending, At, Follows, NextGen, Journal, Phases
<1>4. RestoreTypeOK'
  BY DEF PublishSlot, AfterPublish, RestoreInv, RestoreTypeOK, keys, Dirs
<1>5. SlotsInv'
  BY <1>1, <1>3 DEF Reading, Follows, At, SwapPending, PublishSlot, RestoreInv, SlotsInv, SlotOf
<1>6. Reading'
  BY <1>4, <1>5, LatestSlotNext
<1>7. Published' # {} /\ Latest' = journal
  BY <1>1, <1>2, <1>3, <1>6 DEF Reading, Newest, Follows, At, SwapPending, PublishSlot, RestoreInv,
     RestoreTypeOK, SlotOf
<1>8. DiskInv'
  <2>1. CASE ~SwapPending /\ journal.gen = 1 /\ journal.phase = "Prepared"
    BY <1>7, <2>1 DEF PublishSlot, RestoreInv, DiskInv, WritingInv, At, Settled, Matches, keys
  <2>2. CASE Follows(1) /\ journal.gen = 2 /\ journal.phase = "Activating"
    BY <1>7, <2>2 DEF PublishSlot, RestoreInv, DiskInv, SwapPending, At, Follows, Settled, Held,
       Matches, keys, Empty
  <2>3. CASE Follows(2) /\ journal.gen = 3 /\ journal.phase = "DirectoriesActivated"
    BY <1>7, <2>3 DEF PublishSlot, RestoreInv, DiskInv, WritingInv, SwapPending, At, Follows, Held,
       keys
  <2>4. CASE Follows(3) /\ journal.gen = 4 /\ journal.phase = "CredentialActivated"
    BY <1>7, <2>4 DEF PublishSlot, RestoreInv, DiskInv, WritingInv, SwapPending, At, Follows, keys
  <2> QED
    BY <1>3, <2>1, <2>2, <2>3, <2>4
<1>9. RunningInv'
  BY <1>3, <1>7 DEF PublishSlot, AfterPublish, RestoreInv, RunningInv, At
<1>10. StagingInv'
  BY DEF PublishSlot, AfterPublish, StagingInv
<1>11. WritingInv'
  BY DEF PublishSlot, AfterPublish, WritingInv
<1>12. ActivatingInv'
  BY <1>3, <1>7 DEF PublishSlot, AfterPublish, RestoreInv, DiskInv, WritingInv, ActivatingInv,
     At, Follows, Settled, Restored, Matches, Untouched, Swapping, Dirs, Empty
<1>13. UndoInv'
  BY DEF PublishSlot, AfterPublish, UndoInv
<1> QED
  BY <1>4, <1>5, <1>8, <1>9, <1>10, <1>11, <1>12, <1>13 DEF RestoreInv

LEMMA SweepKeeps ==
  ASSUME RestoreInv, Sweep
  PROVE  RestoreInv'
<1> USE VersionsAssumption, KeysAssumption, JournalAssumption
<1>1. Reading
  BY LatestSlot DEF RestoreInv
<1>2. RestoreTypeOK'
  BY DEF Sweep, RestoreInv, RestoreTypeOK, keys, control, Shrunk
<1>3. SlotsInv'
  BY DEF Sweep, RestoreInv, RestoreTypeOK, SlotsInv
<1>4. Reading'
  BY <1>2, <1>3, LatestSlotNext
<1>5. Published' # {} => /\ Published # {} /\ Latest'.key = Latest.key /\ Latest'.existed = Latest.existed
                         /\ Latest'.gen \in 1..Latest.gen /\ (Latest'.gen = 3 => Latest.gen = 3)
  <2>1. CASE UNCHANGED slot
    BY <1>1, <2>1, SameJournals DEF Reading
  <2>2. ASSUME NEW i \in 0..1, slot' = [slot EXCEPT ![i] = None]
        PROVE  Published' # {} => slot'[1 - i] # None /\ slot'[i] = None /\ Latest' = slot[1 - i]
    BY <1>4, <2>2 DEF Reading, RestoreInv, RestoreTypeOK
  <2>3. ASSUME NEW i \in 0..1, slot' = [slot EXCEPT ![i] = None]
        PROVE  Published' # {} => /\ Published # {}
                                  /\ Latest'.key = Latest.key /\ Latest'.existed = Latest.existed
                                  /\ Latest'.gen \in 1..Latest.gen /\ (Latest'.gen = 3 => Latest.gen \in {3, 4})
    <3>1. slot \in [0..1 -> Journal \cup {None}]
      BY DEF RestoreInv, RestoreTypeOK
    <3>2. CASE i = 0
      BY <1>1, <2>2, <2>3, <3>2 DEF Reading, Newest, RestoreInv, SlotsInv
    <3>3. CASE i = 1
      BY <1>1, <2>2, <2>3, <3>3 DEF Reading, Newest, RestoreInv, SlotsInv
    <3> QED
      BY <3>2, <3>3
  <2> QED
    BY <2>1, <2>3 DEF Sweep, RestoreInv, UndoInv, At, SwapPending
<1>6. DiskInv'
  BY <1>1, <1>5, LatestKey DEF Sweep, RestoreInv, DiskInv, UndoInv, SwapPending, At, Settled, Held,
     Matches, keys
<1>7. RunningInv'
  BY DEF Sweep, RestoreInv, RunningInv, control
<1>8. StagingInv'
  BY DEF Sweep, StagingInv
<1>9. WritingInv'
  BY DEF Sweep, WritingInv
<1>10. ActivatingInv'
  BY DEF Sweep, ActivatingInv
<1>11. UndoInv'
  BY <1>5 DEF Sweep, RestoreInv, UndoInv, SwapPending, At, Settled, Matches, keys, control
<1> QED
  BY <1>2, <1>3, <1>6, <1>7, <1>8, <1>9, <1>10, <1>11 DEF RestoreInv

LEMMA FinalizeKeeps ==
  ASSUME RestoreInv, Finalize
  PROVE  RestoreInv'
<1> USE VersionsAssumption, KeysAssumption, JournalAssumption
<1>1. Reading
  BY LatestSlot DEF RestoreInv
<1>2. RestoreTypeOK'
  <2>1. ASSUME NEW d \in Dirs, rollback' = Shrunk(rollback, d)
        PROVE  rollback' \in [Dirs -> Versions \cup {None, Partial}]
    BY <2>1 DEF RestoreInv, RestoreTypeOK, Shrunk
  <2>2. rollback' \in [Dirs -> Versions \cup {None, Partial}]
    BY <2>1 DEF Finalize, RestoreInv, RestoreTypeOK
  <2>3. slot' \in [0..1 -> Journal \cup {None}]
    BY DEF Finalize, RestoreInv, RestoreTypeOK
  <2> QED
    BY <2>2 DEF Finalize, RestoreInv, RestoreTypeOK, keys, control
<1>3. SlotsInv'
  BY DEF Finalize, RestoreInv, RestoreTypeOK, SlotsInv
<1>4. Reading'
  BY <1>2, <1>3, LatestSlotNext
<1>5. Published' # {} => /\ Published # {} /\ Latest'.key = Latest.key /\ Latest'.gen \in {3, 4}
  BY <1>1, <1>4 DEF Reading, Newest, Finalize, RestoreInv, RestoreTypeOK, SlotsInv,
     ActivatingInv, SwapPending, At
<1>6. DiskInv'
  <2>1. PICK v \in Versions : active = [d \in Dirs |-> v] /\ current = KeyOf[v]
    BY DEF Finalize, RestoreInv, ActivatingInv
  <2>2. CASE Published' = {}
    <3>1. rollback' = Empty
      <4>1. CASE UNCHANGED slot
        BY <2>2, SameJournals DEF Finalize, RestoreInv, DiskInv, Settled, SwapPending, Empty
      <4>2. CASE slot' # slot
        BY <4>2 DEF Finalize
      <4> QED
        BY <4>1, <4>2
    <3> QED
      BY <2>1, <2>2, <3>1 DEF Finalize, DiskInv, SwapPending, At, Settled, keys
  <2>3. CASE Published' # {}
    <3>1. current' = Latest'.key /\ work' /\ Restored(active', Latest'.key)
      BY <1>5, <2>3 DEF Finalize, RestoreInv, DiskInv, ActivatingInv, SwapPending, keys
    <3> QED
      BY <1>5, <2>3, <3>1 DEF DiskInv, SwapPending, At
  <2> QED
    BY <2>2, <2>3
<1>7. RunningInv'
  BY <1>5 DEF Finalize, RestoreInv, RunningInv, SwapPending, control
<1>8. StagingInv'
  BY DEF Finalize, RestoreInv, RestoreTypeOK, StagingInv
<1>9. WritingInv'
  BY DEF Finalize, RestoreInv, RestoreTypeOK, WritingInv
<1>10. ActivatingInv'
  BY <1>5 DEF Finalize, RestoreInv, RestoreTypeOK, ActivatingInv, SwapPending, At, keys
<1>11. UndoInv'
  BY DEF Finalize, RestoreInv, RestoreTypeOK, UndoInv
<1> QED
  BY <1>2, <1>3, <1>6, <1>7, <1>8, <1>9, <1>10, <1>11 DEF RestoreInv

LEMMA RestoreInitInv == RestoreInit => RestoreInv
<1> SUFFICES ASSUME RestoreInit PROVE RestoreInv
  OBVIOUS
<1> USE VersionsAssumption, KeysAssumption DEF RestoreInit
<1>1. Published = {}
  BY DEF Published
<1>2. RestoreTypeOK
  <2>1. {active, rollback, candidate} \subseteq [Dirs -> Versions \cup {None, Partial}]
    BY DEF Empty
  <2>2. {current, pending} \subseteq Keys \cup {None}
    BY DEF Keys
  <2> QED
    BY <2>1, <2>2 DEF RestoreTypeOK, Dirs
<1> QED
  BY <1>1, <1>2 DEF RestoreInv, SlotsInv, DiskInv, RunningInv, StagingInv, WritingInv,
     ActivatingInv, UndoInv, SwapPending, At, Settled

LEMMA RestoreStep == RestoreInv /\ [RestoreNext]_restoreVars => RestoreInv'
<1> SUFFICES ASSUME RestoreInv, [RestoreNext]_restoreVars PROVE RestoreInv'
  OBVIOUS
<1>1. CASE UNCHANGED restoreVars
  BY <1>1, SameJournals DEF restoreVars, disk, keys, control, RestoreInv, RestoreTypeOK,
     SlotsInv, DiskInv, RunningInv, StagingInv, WritingInv, ActivatingInv, UndoInv, SwapPending, At,
     Follows, Settled, Held, Matches, Untouched, Swapping, NextGen
<1> QED
  BY <1>1, VacateSlotKeeps, PublishSlotKeeps, StageBeginsKeeps, ExtractKeeps,
     ExtractRejectedKeeps, StageKeyKeeps, StagingFailsKeeps, ActivateKeeps, BackUpKeeps,
     InstallKeeps, InstallKeyKeeps, DiscardPendingKeeps, FinalizeKeeps, RecoverKeeps,
     RecoveryFailsKeeps, UndoRemovesKeeps, UndoRestoresKeeps, UndoSkipsKeeps, SweepKeeps,
     SweepDoneKeeps, OpenKeeps, CrashKeeps, LosePendingKeyKeeps DEF RestoreNext

LEMMA RestoreInvariant == RestoreSpec => []RestoreInv
BY RestoreInitInv, RestoreStep, PTL DEF RestoreSpec

-----------------------------------------------------------------------------
(* What follows. *)

\* Every path, slot and credential holds what the code can put there, wherever
\* the process died and whatever the start-up found.
THEOREM RestoreTypesCorrect == RestoreSpec => []RestoreTypeOK
BY RestoreInvariant, PTL DEF RestoreInv

\* The application opens a whole data set with its own key, never half of a swap
\* and never a swap half undone (activate_staged_restore and recover_interrupted_restore
\* of restore.rs end in one of two settled disks before lib.rs opens the database).
THEOREM OpensWhole == RestoreSpec => []OpensWholeData
<1>1. RestoreInv => OpensWholeData
  BY DEF RestoreInv, OpensWholeData, Whole, DiskInv, RunningInv, Settled
<1> QED
  BY <1>1, RestoreInvariant, PTL

\* Once the application has had data, a whole version and its key are on disk in
\* every state, for any crashes, failures and repeated recoveries.
THEOREM NothingIsLost == RestoreSpec => []NothingLost
<1>1. RestoreInv => NothingLost
  <2> SUFFICES ASSUME RestoreInv, opened PROVE NothingLost
    BY DEF NothingLost
  <2>1. Reading
    BY LatestSlot DEF RestoreInv
  <2>2. ~SwapPending \/ At(1) \/ At(2) \/ At(3) \/ At(4)
    BY <2>1 DEF Reading, SwapPending, At
  <2>3. CASE ~SwapPending \/ At(1)
    BY <2>3 DEF RestoreInv, DiskInv, Settled, NothingLost
  <2>4. CASE (At(2) \/ At(3)) /\ Held(Latest)
    BY <2>4 DEF Held, NothingLost
  <2>5. CASE (At(3) \/ At(4)) /\ current = Latest.key
    BY <2>5 DEF RestoreInv, DiskInv, Restored, NothingLost
  <2> QED
    BY <2>2, <2>3, <2>4, <2>5 DEF RestoreInv, DiskInv
<1> QED
  BY <1>1, RestoreInvariant, PTL

\* No rename of the swap meets a missing source or an occupied target, however
\* often it was interrupted and rolled back before.
THEOREM SwapGoesThrough == RestoreSpec => []SwapNeverRefused
<1>1. RestoreInv => SwapNeverRefused
  <2> SUFFICES ASSUME RestoreInv PROVE SwapNeverRefused
    OBVIOUS
  <2> USE VersionsAssumption
  <2>1. pc = "backup" /\ dir \in journal.existed => rollback[dir] = None /\ active[dir] # None
    BY DEF RestoreInv, ActivatingInv, Swapping, Untouched, DiskInv, Held
  <2>2. pc = "install" => active[dir] = None /\ candidate[dir] # None
    BY DEF RestoreInv, RestoreTypeOK, ActivatingInv, Swapping, Dirs
  <2>3. pc = "finalize" => \A d \in Dirs : active[d] # None
    BY DEF RestoreInv, ActivatingInv
  <2> QED
    BY <2>1, <2>2, <2>3 DEF SwapNeverRefused
<1> QED
  BY <1>1, RestoreInvariant, PTL
=================================================================================
