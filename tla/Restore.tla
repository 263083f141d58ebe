-------------------------------- MODULE Restore --------------------------------
(***************************************************************************)
(* Crash-recoverable activation of a portable backup (restore.rs, with the *)
(* two OS credential entries of key_store.rs and the start-up sequence of  *)
(* lib.rs).  A backup is staged in .restore-work while the application     *)
(* runs; the next start swaps the database and documents directories,      *)
(* installs the backup's master key and removes the work directory, or     *)
(* rolls everything back.                                                  *)
(*                                                                         *)
(* Renames, file removals and credential writes are atomic and durable in  *)
(* program order (the code syncs the directories); the process may die     *)
(* between any two of them.  Removing a tree is not atomic: a directory    *)
(* is Partial on the way, and remove_dir_all takes the entries of the work *)
(* directory in no particular order.  unpacked/ and journal.new are never  *)
(* read by recovery and are left out.                                      *)
(***************************************************************************)
EXTENDS Naturals, FiniteSets

CONSTANTS
  Versions,    \* whole data sets: a database with its documents
  Fresh,       \* what a first start creates
  KeyOf,       \* the master key a data set is encrypted with
  None,        \* absent directory, journal slot or credential
  Partial,     \* a directory whose removal was interrupted
  PendingKeyMayVanish   \* whether the OS may lose the pending credential

Dirs == {"database", "documents"}

ASSUME VersionsAssumption == Fresh \in Versions /\ None \notin Versions /\ Partial \notin Versions
ASSUME KeysAssumption == None # Partial /\ \A v \in Versions : KeyOf[v] # None

VARIABLES
  active,      \* the live directories: a version, Partial or None
  rollback,    \* .restore-work/rollback
  candidate,   \* .restore-work/candidate
  work,        \* .restore-work exists
  slot,        \* journal.0 and journal.1
  current,     \* the "database-master-key" credential
  pending,     \* the "pending-restore-master-key" credential
  pc,          \* where the process is
  home,        \* where it returns to: staging in a running application, or start-up
  then,        \* what follows the removal of the work directory
  dir,         \* the directory being swapped or rolled back
  journal,     \* the journal held in memory
  opened       \* history: the application has opened data at least once

disk == <<active, rollback, candidate, work, slot>>
keys == <<current, pending>>
control == <<home, then, dir, journal>>
restoreVars == <<disk, keys, pc, control, opened>>

Phases == {"Prepared", "Activating", "DirectoriesActivated", "CredentialActivated"}
Keys == {KeyOf[v] : v \in Versions}
Journal == [gen: 0..4, phase: Phases, existed: SUBSET Dirs, key: Keys]
ASSUME JournalAssumption == None \notin Journal
Empty == [d \in Dirs |-> None]

\* The application runs on its data, or was never started.
RestoreInit ==
  /\ \/ active = [d \in Dirs |-> Fresh] /\ current = KeyOf[Fresh]
     \/ active = Empty /\ current = None
  /\ rollback = Empty /\ candidate = Empty
  /\ work = FALSE
  /\ slot = [s \in 0..1 |-> None]
  /\ pending = None
  /\ pc = "off" /\ home = "off" /\ then = "home" /\ dir = "database"
  /\ journal = None
  /\ opened = FALSE

\* One step of removing a directory tree.
Shrunk(f, d) == [f EXCEPT ![d] = IF @ = Partial THEN None ELSE Partial]

-----------------------------------------------------------------------------
(* The journal: two slots, the newer one counts. *)

Published == {slot[s] : s \in 0..1} \ {None}
Latest == CHOOSE r \in Published : \A other \in Published : other.gen <= r.gen

NextGen == IF Published = {} THEN 1 ELSE Latest.gen + 1

\* Mutant: one slot.
OnlySlot(gen) == 0

SlotOf(gen) == gen % 2

\* write_journal empties the slot of the new generation, which never holds the
\* latest one, and renames the new file into it.
VacateSlot ==
  /\ pc = "write"
  /\ journal' = [journal EXCEPT !.gen = NextGen]
  /\ slot' = [slot EXCEPT ![SlotOf(NextGen)] = None]
  /\ pc' = "publish"
  /\ UNCHANGED <<active, rollback, candidate, work, keys, home, then, dir, opened>>

AfterPublish ==
  CASE journal.phase = "Prepared" -> IF home = "open" THEN "open" ELSE "activate"
    [] journal.phase = "Activating" -> "backup"
    [] journal.phase = "DirectoriesActivated" -> "install_key"
    [] OTHER -> "discard"

PublishSlot ==
  /\ pc = "publish"
  /\ slot' = [slot EXCEPT ![SlotOf(journal.gen)] = journal]
  /\ pc' = AfterPublish
  /\ dir' = "database"
  /\ UNCHANGED <<active, rollback, candidate, work, keys, home, then, journal, opened>>

Write(phase) ==
  /\ journal' = [journal EXCEPT !.phase = phase]
  /\ pc' = "write"

-----------------------------------------------------------------------------
(* stage_portable_restore, from the running application, or from               *)
(* restore_and_activate before anything is open                                *)

\* With a journal on disk the command answers RestorePending.
StageBegins ==
  /\ pc \in {"off", "open"}
  /\ Published = {}
  /\ home' = pc
  /\ IF work
     THEN pc' = "sweep" /\ then' = "restage" /\ UNCHANGED work
     ELSE pc' = "extract" /\ work' = TRUE /\ UNCHANGED then
  /\ UNCHANGED <<active, rollback, candidate, slot, keys, dir, journal, opened>>

\* The archive is authenticated, extracted, laid out and validated.
Extract(v) ==
  /\ pc = "extract"
  /\ candidate' = [d \in Dirs |-> v]
  /\ journal' = [gen |-> 0, phase |-> "Prepared",
                 existed |-> {d \in Dirs : active[d] # None}, key |-> KeyOf[v]]
  /\ pc' = "stage_key"
  /\ UNCHANGED <<active, rollback, work, slot, keys, home, then, dir, opened>>

\* A bad archive only loses its work directory, bad contents the pending key too.
ExtractRejected ==
  /\ pc = "extract"
  /\ pc' = "sweep"
  /\ then' \in {"home", "discard"}
  /\ UNCHANGED <<disk, keys, home, dir, journal, opened>>

StageKey ==
  /\ pc = "stage_key"
  /\ pending' = journal.key
  /\ pc' = "write"
  /\ UNCHANGED <<disk, current, control, opened>>

\* An I/O or credential error: the command answers, the work directory stays.
StagingFails ==
  /\ pc \in {"sweep", "extract", "stage_key", "write", "publish"}
  /\ pc = "sweep" => home # "opening"
  /\ pc \in {"write", "publish"} => journal.phase = "Prepared"
  /\ pc' = home
  /\ UNCHANGED <<disk, keys, control, opened>>

-----------------------------------------------------------------------------
(* activate_staged_restore *)

Activate ==
  /\ pc = "activate"
  /\ Latest.phase = "Prepared"
  /\ pending = Latest.key
  /\ journal' = [Latest EXCEPT !.phase = "Activating"]
  /\ pc' = "write"
  /\ UNCHANGED <<disk, keys, home, then, dir, opened>>

BackUp ==
  /\ pc = "backup"
  /\ IF dir \in journal.existed
     THEN /\ rollback[dir] = None /\ active[dir] # None
          /\ rollback' = [rollback EXCEPT ![dir] = active[dir]]
          /\ active' = [active EXCEPT ![dir] = None]
     ELSE UNCHANGED <<active, rollback>>
  /\ pc' = "install"
  /\ UNCHANGED <<candidate, work, slot, keys, control, opened>>

Install ==
  /\ pc = "install"
  /\ active[dir] = None /\ candidate[dir] # None
  /\ active' = [active EXCEPT ![dir] = candidate[dir]]
  /\ candidate' = [candidate EXCEPT ![dir] = None]
  /\ IF dir = "database"
     THEN dir' = "documents" /\ pc' = "backup" /\ UNCHANGED journal
     ELSE Write("DirectoriesActivated") /\ UNCHANGED dir
  /\ UNCHANGED <<rollback, work, slot, keys, home, then, opened>>

InstallKey ==
  /\ pc = "install_key"
  /\ pending = journal.key
  /\ current' = pending
  /\ Write("CredentialActivated")
  /\ UNCHANGED <<disk, pending, home, then, dir, opened>>

DiscardPending ==
  /\ pc = "discard"
  /\ pending' = None
  /\ pc' = "finalize"
  /\ UNCHANGED <<disk, current, control, opened>>

\* finalize_activation: the old data first, then journal.0, then journal.1 (the
\* candidates have been renamed away).
Finalize ==
  /\ pc = "finalize"
  /\ \A d \in Dirs : active[d] # None
  /\ \/ \E d \in Dirs :
          /\ rollback[d] # None
          /\ rollback' = Shrunk(rollback, d)
          /\ UNCHANGED <<slot, work, pc>>
     \/ /\ rollback = Empty /\ slot[0] # None
        /\ slot' = [slot EXCEPT ![0] = None]
        /\ UNCHANGED <<rollback, work, pc>>
     \/ /\ rollback = Empty /\ slot[0] = None /\ slot[1] # None
        /\ slot' = [slot EXCEPT ![1] = None]
        /\ UNCHANGED <<rollback, work, pc>>
     \/ /\ rollback = Empty /\ Published = {}
        /\ work' = FALSE
        /\ pc' = home
        /\ UNCHANGED <<rollback, slot>>
  /\ UNCHANGED <<active, candidate, keys, control, opened>>

-----------------------------------------------------------------------------
(* recover_interrupted_restore, at every start *)

Undo ==
  /\ pending' = None
  /\ dir' = "database"
  /\ pc' = "undo"
  /\ UNCHANGED <<current, then>>

Commit ==
  /\ pending' = None
  /\ pc' = "finalize"
  /\ UNCHANGED <<current, then, dir>>

\* Mutant: a half-done swap whose key is already installed (a backup of this
\* device) is taken for a finished one.
ResumeByKey ==
  \/ Latest.phase = "Prepared" /\ pc' = "activate" /\ UNCHANGED <<keys, then, dir>>
  \/ Latest.phase = "Activating" /\ current # Latest.key /\ Undo
  \/ Latest.phase # "Prepared" /\ current = Latest.key /\ Commit
  \/ /\ Latest.phase = "DirectoriesActivated" /\ current # Latest.key /\ pending = Latest.key
     /\ pc' = "install_key" /\ UNCHANGED <<keys, then, dir>>
  \/ /\ Latest.phase = "DirectoriesActivated" /\ current # Latest.key /\ pending # Latest.key
     /\ Undo

\* Mutant: an interrupted swap is taken up again from its beginning.
ResumeSwap ==
  \/ Latest.phase = "Prepared" /\ pc' = "activate" /\ UNCHANGED <<keys, then, dir>>
  \/ /\ Latest.phase = "Activating"
     /\ pc' = "backup" /\ dir' = "database" /\ UNCHANGED <<keys, then>>
  \/ Latest.phase \in {"DirectoriesActivated", "CredentialActivated"} /\ Commit

\* What the phase of the journal asks for.
Resume ==
  \/ Latest.phase = "Prepared" /\ pc' = "activate" /\ UNCHANGED <<keys, then, dir>>
  \/ Latest.phase = "Activating" /\ Undo
  \/ /\ Latest.phase \in {"DirectoriesActivated", "CredentialActivated"}
     /\ current = Latest.key
     /\ Commit
  \/ /\ Latest.phase = "DirectoriesActivated" /\ current # Latest.key /\ pending = Latest.key
     /\ pc' = "install_key" /\ UNCHANGED <<keys, then, dir>>
  \/ /\ Latest.phase = "DirectoriesActivated" /\ current # Latest.key /\ pending # Latest.key
     /\ Undo

Recover ==
  /\ pc \in {"off", "failed"}
  /\ home' = "opening"
  /\ \/ /\ ~work
        /\ pending' = None /\ pc' = "opening"
        /\ UNCHANGED <<current, then, dir, journal>>
     \/ /\ work /\ Published = {}
        /\ pc' = "sweep" /\ then' = "discard"
        /\ UNCHANGED <<keys, dir, journal>>
     \/ /\ Published # {}
        /\ journal' = Latest
        /\ Resume
  /\ UNCHANGED <<disk, opened>>

\* recover_interrupted_restore returns an error and the application does not
\* start; the next start tries again.
Refused ==
  \/ pc = "activate" /\ (Latest.phase # "Prepared" \/ pending # Latest.key)
  \/ pc = "install_key" /\ pending # journal.key

RecoveryFails ==
  /\ Refused
  /\ pc' = "failed"
  /\ UNCHANGED <<disk, keys, control, opened>>

\* rollback_directory: the old directory comes back over whatever is there.
UndoRemoves ==
  /\ pc = "undo"
  /\ rollback[dir] # None \/ dir \notin journal.existed
  /\ active[dir] # None
  /\ active' = Shrunk(active, dir)
  /\ UNCHANGED <<rollback, candidate, work, slot, keys, pc, control, opened>>

AfterUndo ==
  IF dir = "database"
  THEN dir' = "documents" /\ UNCHANGED <<pc, then>>
  ELSE pc' = "sweep" /\ then' = "home" /\ UNCHANGED dir

UndoRestores ==
  /\ pc = "undo"
  /\ rollback[dir] # None /\ active[dir] = None
  /\ active' = [active EXCEPT ![dir] = rollback[dir]]
  /\ rollback' = [rollback EXCEPT ![dir] = None]
  /\ AfterUndo
  /\ UNCHANGED <<candidate, work, slot, keys, home, journal, opened>>

UndoSkips ==
  /\ pc = "undo"
  /\ rollback[dir] = None
  /\ dir \in journal.existed \/ active[dir] = None
  /\ AfterUndo
  /\ UNCHANGED <<disk, keys, home, journal, opened>>

\* remove_tree_if_exists(work)
Sweep ==
  /\ pc = "sweep"
  /\ \/ \E d \in Dirs : /\ candidate[d] # None
                        /\ candidate' = Shrunk(candidate, d)
                        /\ UNCHANGED <<rollback, slot>>
     \/ \E s \in 0..1 : /\ slot[s] # None
                        /\ slot' = [slot EXCEPT ![s] = None]
                        /\ UNCHANGED <<rollback, candidate>>
  /\ UNCHANGED <<active, work, keys, pc, control, opened>>

SweepDone ==
  /\ pc = "sweep"
  /\ candidate = Empty /\ rollback = Empty /\ Published = {}
  /\ work' = (then = "restage")
  /\ pc' = IF then = "restage" THEN "extract" ELSE home
  /\ pending' = IF then = "home" THEN pending ELSE None
  /\ UNCHANGED <<active, rollback, candidate, slot, current, control, opened>>

-----------------------------------------------------------------------------
\* The key is loaded (or created, when there is no database), the vault and the
\* database are opened.
Open ==
  /\ pc = "opening"
  /\ IF active["database"] = None
     THEN /\ active' = [d \in Dirs |-> Fresh]
          /\ current' = IF current = None THEN KeyOf[Fresh] ELSE current
     ELSE UNCHANGED <<active, current>>
  /\ opened' = TRUE
  /\ pc' = "open"
  /\ UNCHANGED <<rollback, candidate, work, slot, pending, control>>

\* The user quits, the process is killed, or the machine loses power.
Crash ==
  /\ pc # "off"
  /\ pc' = "off"
  /\ UNCHANGED <<disk, keys, control, opened>>

LosePendingKey ==
  /\ PendingKeyMayVanish
  /\ pending # None
  /\ pending' = None
  /\ UNCHANGED <<disk, current, pc, control, opened>>

RestoreNext ==
  \/ VacateSlot \/ PublishSlot
  \/ StageBegins \/ (\E v \in Versions : Extract(v)) \/ ExtractRejected \/ StageKey \/ StagingFails
  \/ Activate \/ BackUp \/ Install \/ InstallKey \/ DiscardPending \/ Finalize
  \/ Recover \/ RecoveryFails \/ UndoRemoves \/ UndoRestores \/ UndoSkips
  \/ Sweep \/ SweepDone
  \/ Open \/ Crash \/ LosePendingKey

RestoreSpec == RestoreInit /\ [][RestoreNext]_restoreVars

-----------------------------------------------------------------------------
RestoreTypeOK ==
  /\ {active, rollback, candidate} \subseteq [Dirs -> Versions \cup {None, Partial}]
  /\ work \in BOOLEAN
  /\ slot \in [0..1 -> Journal \cup {None}]
  /\ {current, pending} \subseteq Keys \cup {None}
  /\ pc \in {"off", "open", "opening", "failed", "sweep", "extract", "stage_key", "write", "publish",
             "activate", "backup", "install", "install_key", "discard", "finalize", "undo"}
  /\ home \in {"off", "open", "opening"}
  /\ then \in {"restage", "discard", "home"}
  /\ dir \in Dirs
  /\ journal \in Journal \cup {None}
  /\ opened \in BOOLEAN

\* A whole data set in the live directories, and a credential that opens it.
Whole(v, credentials) == (\A d \in Dirs : active[d] = v) /\ KeyOf[v] \in credentials

\* Whatever was interrupted, the data the application opens is one whole version,
\* the old or the restored, with its own key: never a new database with old
\* documents, a half-removed directory or the other key.
OpensWholeData ==
  /\ pc = "opening" => active = Empty \/ \E v \in Versions : Whole(v, {current})
  /\ pc = "open" => \E v \in Versions : Whole(v, {current})

\* At every instant a crash would leave enough on disk: the data in use before
\* the restore, in the live or the rollback directories, with the installed key,
\* or the complete restored data with its key installed or pending.
NothingLost ==
  opened => \E v \in Versions :
    \/ (\A d \in Dirs : v \in {active[d], rollback[d]}) /\ current = KeyOf[v]
    \/ Whole(v, {current, pending})

\* rename_no_replace never meets an existing destination or a missing source,
\* and finalize_activation never a missing directory, after any number of
\* interrupted attempts.
SwapNeverRefused ==
  /\ pc = "backup" /\ dir \in journal.existed => rollback[dir] = None /\ active[dir] # None
  /\ pc = "install" => active[dir] = None /\ candidate[dir] # None
  /\ pc = "finalize" => \A d \in Dirs : active[d] # None

\* "makes every crash checkpoint restart-safe" (lib.rs): start-up recovery never
\* ends in an error.
RestartSafe == pc # "failed"
=================================================================================
