------------------------------- MODULE MCInboxes -------------------------------
(***************************************************************************)
(* The three inboxes that are filled in the background and reviewed by a   *)
(* person, in one instance for TLC: watched folders, the Google Drive      *)
(* inbox and the packages other family members sent.  They share no        *)
(* tables, so nothing is gained by interleaving them: `part` says which    *)
(* one a behaviour is of, and the others stay as they start.               *)
(***************************************************************************)
EXTENDS DriveInbox, FolderInbox, FamilyReceive

VARIABLE part

vars == <<part, driveVars, folderVars, receiveVars>>

Init ==
  /\ part \in {"drive", "folder", "family"}
  /\ DriveInit /\ FolderInit
  /\ ReceiveInit /\ (part # "family" => ours = {})

OfDrive(A) == part = "drive" /\ A /\ UNCHANGED <<part, folderVars, receiveVars>>
OfFolder(A) == part = "folder" /\ A /\ UNCHANGED <<part, driveVars, receiveVars>>
OfFamily(A) == part = "family" /\ A /\ UNCHANGED <<part, driveVars, folderVars>>

Next == OfDrive(DriveNext) \/ OfFolder(FolderNext) \/ OfFamily(ReceiveNext)

\* DriveFairness, FolderFairness and ReceiveFairness.  As `part` never changes,
\* weak fairness of a disjunction over parts is that of the disjunct of the part.
Fairness ==
  /\ WF_vars(OfDrive(DrivePass) \/ OfFolder(finish_scan("worker")) \/ OfFamily(RunNext))
  /\ WF_vars(OfDrive(list_inbox) \/ OfFolder(finish_scan("manual")))
  /\ WF_vars(OfDrive(InboxLeaseExpires) \/ OfFolder(prepare_registered_scan("worker")))
  /\ WF_vars(OfFolder(list))
  /\ WF_vars(OfFolder(ClaimExpires))

Spec == Init /\ [][Next]_vars /\ Fairness

-----------------------------------------------------------------------------
\* The types of the inbox, with the constraints its tables declare.
InboxTypes ==
  CASE part = "drive" -> DriveTypeOK
    [] part = "folder" -> FolderTypeOK
    [] part = "family" -> ReceiveTypeOK

\* What is offered for review is the generation the store last learnt of, however
\* hydrations, imports, scans and retries overlap with its discovery.
PendingIsCurrent ==
  /\ part = "drive" => PendingIsStored
  /\ part = "folder" => PendingIsListed

\* A row is staged with an import run of exactly the bytes of its generation,
\* although the file may change at any moment.
StagedWithItsBytes ==
  /\ part = "drive" => ContentIsOfGeneration
  /\ part = "folder" => FileStagedWithItsBytes

\* No row stays with a lease that has expired, whatever became of its holder.
LeasesComeBack ==
  []<>CASE part = "drive" -> NoDeadLease
        [] part = "folder" -> NoDeadClaim
        [] OTHER -> TRUE

\* The folder inbox is again and again what is on disk, and every publication of
\* another device is registered while automatic checking is on.
DiscoveryCatchesUp ==
  []<>CASE part = "folder" -> CaughtUp
        [] part = "family" -> AllRegistered
        [] OTHER -> TRUE
================================================================================
