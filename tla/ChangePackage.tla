----------------------------- MODULE ChangePackage -----------------------------
(***************************************************************************)
(* Change packages between the installations of one household              *)
(* (change_package.rs): export of the current state, staging with its      *)
(* three-way classification against the replica heads, review decisions,   *)
(* and the atomic application.                                             *)
(*                                                                         *)
(* A package, once exported, is a file or a relay artifact: any other      *)
(* installation may stage it at any time, late, twice or never.  Between   *)
(* staging and application the user goes on editing.  A payload holds the  *)
(* row's timestamps, so every edit makes a new one: it is the edit's       *)
(* number, which also is its digest; 0 is "no such row".                   *)
(* materialize_upsert and materialize_delete write exactly the reviewed    *)
(* payload: apply_package reads every row back and fails otherwise.        *)
(***************************************************************************)
EXTENDS Naturals

CONSTANTS
  Installations,
  Entities,
  MaxEdits,      \* local edits, over all installations
  MaxRevision    \* packages exported by one installation

Payloads == 0..MaxEdits

VARIABLES
  data,      \* the payload of each entity on each installation
  heads,     \* sync_replica_entity_heads: [source, payload] or NoHead
  revision,  \* local_change_package_revisions
  exports,   \* every package exported: [source, revision, content]
  review,    \* the package in the review slot, with its records, or NoReview
  applied,   \* applied_change_packages: the latest revision of each source
  localEdits

packageVars == <<data, heads, revision, exports, review, applied, localEdits>>

NoHead == [source |-> "none", payload |-> 0]
NoReview == [records |-> {}]

PackageInit ==
  /\ data = [i \in Installations |-> [e \in Entities |-> 0]]
  /\ heads = [i \in Installations |-> [e \in Entities |-> NoHead]]
  /\ revision = [i \in Installations |-> 0]
  /\ exports = {}
  /\ review = [i \in Installations |-> NoReview]
  /\ applied = [i \in Installations |-> [s \in Installations |-> 0]]
  /\ localEdits = 0

edit_entity(i, e, deleted) ==
  /\ localEdits < MaxEdits
  /\ localEdits' = localEdits + 1
  /\ deleted => data[i][e] # 0
  /\ data' = [data EXCEPT ![i][e] = IF deleted THEN 0 ELSE localEdits']
  /\ UNCHANGED <<heads, revision, exports, review, applied>>

export_current_state(i) ==
  /\ revision[i] < MaxRevision
  /\ revision' = [revision EXCEPT ![i] = @ + 1]
  /\ exports' = exports \cup {[source |-> i, revision |-> revision'[i], content |-> data[i]]}
  /\ UNCHANGED <<data, heads, review, applied, localEdits>>

----------------------------------------------------------------------------
(* Staging *)

\* The local row is still what this source last delivered.
follows_source(i, e, source) == heads[i][e] = [source |-> source, payload |-> data[i][e]]

record(verdict, resolution, current) == [verdict |-> verdict, resolution |-> resolution, current |-> current]

\* A row in the package: new, equal, an update of what its source delivered
\* before, or a conflict.  A row missing from it is never deleted undecided.
classify(i, e, p) ==
  LET current == data[i][e]  incoming == p.content[e] IN
  IF incoming # 0
  THEN IF current = 0 THEN record("CREATE", "APPLY_INCOMING", 0)
       ELSE IF current = incoming THEN record("UNCHANGED", "SKIP", current)
       ELSE IF follows_source(i, e, p.source) THEN record("UPDATE", "APPLY_INCOMING", current)
       ELSE record("CONFLICT", "PENDING", current)
  ELSE IF current = 0 THEN record("NONE", "NONE", 0)
       ELSE IF follows_source(i, e, p.source) \/ heads[i][e] = NoHead THEN record("DELETE", "PENDING", current)
       ELSE record("CONFLICT", "PENDING", current)

newer_than_applied(i, p) == p.revision > applied[i][p.source]

from_elsewhere(i, p) == p.source # i

\* One package at a time, from elsewhere, newer than what was applied of it.
stage_package(i, p) ==
  /\ from_elsewhere(i, p)
  /\ review[i] = NoReview
  /\ newer_than_applied(i, p)
  /\ review' = [review EXCEPT ![i] = [package |-> p, records |-> [e \in Entities |-> classify(i, e, p)]]]
  /\ UNCHANGED <<data, heads, revision, exports, applied, localEdits>>

resolve_package(i, e, resolution) ==
  /\ review[i] # NoReview
  /\ review[i].records[e].resolution = "PENDING"
  /\ review' = [review EXCEPT ![i].records[e].resolution = resolution]
  /\ UNCHANGED <<data, heads, revision, exports, applied, localEdits>>

\* The package is REJECTED, and may be staged again.
discard_package(i) ==
  /\ review[i] # NoReview
  /\ review' = [review EXCEPT ![i] = NoReview]
  /\ UNCHANGED <<data, heads, revision, exports, applied, localEdits>>

----------------------------------------------------------------------------
(* Application *)

READY(i) == review[i] # NoReview /\ \A e \in Entities : review[i].records[e].resolution # "PENDING"

\* Mutant: only rows the package would overwrite with a decision are checked.
decided_unchanged(i) ==
  \A e \in Entities : review[i].records[e].verdict = "CONFLICT" /\ review[i].records[e].resolution = "APPLY_INCOMING"
                        => data[i][e] = review[i].records[e].current

\* Every row it does not keep is still the one that was reviewed.
unchanged_since_staging(i) ==
  \A e \in Entities : review[i].records[e].resolution \notin {"KEEP_LOCAL", "NONE"}
                        => data[i][e] = review[i].records[e].current

materialize(i, e) ==
  IF review[i].records[e].resolution = "APPLY_INCOMING" THEN review[i].package.content[e] ELSE data[i][e]

\* The head is the accepted payload, of a deleted row the deleted one.
accepted_head(i, e) ==
  LET r == review[i].records[e]  p == review[i].package IN
  IF r.resolution \notin {"APPLY_INCOMING", "SKIP"} THEN heads[i][e]
  ELSE [source |-> p.source, payload |-> IF p.content[e] # 0 THEN p.content[e] ELSE r.current]

apply_package(i) ==
  /\ READY(i) /\ unchanged_since_staging(i)
  /\ data' = [data EXCEPT ![i] = [e \in Entities |-> materialize(i, e)]]
  /\ heads' = [heads EXCEPT ![i] = [e \in Entities |-> accepted_head(i, e)]]
  /\ applied' = [applied EXCEPT ![i][review[i].package.source] = review[i].package.revision]
  /\ review' = [review EXCEPT ![i] = NoReview]
  /\ UNCHANGED <<revision, exports, localEdits>>

PackageNext ==
  \E i \in Installations :
    \/ \E e \in Entities : \/ \E deleted \in BOOLEAN : edit_entity(i, e, deleted)
                           \/ \E resolution \in {"APPLY_INCOMING", "KEEP_LOCAL"} : resolve_package(i, e, resolution)
    \/ export_current_state(i)
    \/ \E p \in exports : stage_package(i, p)
    \/ discard_package(i) \/ apply_package(i)

PackageSpec == PackageInit /\ [][PackageNext]_packageVars

----------------------------------------------------------------------------

\* Types; a head and the review slot belong to packages of other installations,
\* and no source is applied beyond what it exported.
PackageTypeOK ==
  \A i \in Installations :
    /\ \A e \in Entities : /\ data[i][e] \in Payloads
                           /\ heads[i][e] = NoHead \/ applied[i][heads[i][e].source] > 0
    /\ \A s \in Installations : applied[i][s] \in 0..revision[s] /\ applied[i][i] = 0
    /\ review[i] # NoReview => review[i].package \in exports

\* Every row a step replaces without a decision held a payload its source had
\* exported at an earlier revision.
UndecidedWasTheirs ==
  \A i \in Installations, e \in Entities :
    /\ localEdits' = localEdits
    /\ data'[i][e] # data[i][e] /\ data[i][e] # 0
    /\ review[i].records[e].verdict \notin {"CONFLICT", "DELETE"}
    => \E p \in exports : /\ p.source = review[i].package.source
                          /\ p.revision < review[i].package.revision
                          /\ p.content[e] = data[i][e]

\* What this installation's user typed is never overwritten without a decision:
\* an application that replaces a row nobody decided about replaces a payload
\* the source itself exported at an earlier revision, so the source has seen
\* it and moved on.  Old, repeated, discarded and restaged packages, edits
\* between staging and application, and a third installation's rows included.
NoUndecidedOverwrite == [][UndecidedWasTheirs]_packageVars
================================================================================
