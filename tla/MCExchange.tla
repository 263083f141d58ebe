------------------------------ MODULE MCExchange ------------------------------
(***************************************************************************)
(* Four components that exchange records with a server or another device,  *)
(* in one instance for TLC: mobile capture, family delivery, change        *)
(* packages and the Gmail mirror.  They share no tables, so nothing is     *)
(* gained by interleaving them: `part` says which one a behaviour is of,   *)
(* and the others stay as they start.                                      *)
(***************************************************************************)
EXTENDS MobileCapture, FamilySend, ChangePackage, GmailSync

VARIABLE part

vars == <<part, mobileVars, sendVars, packageVars, gmailVars>>

Init ==
  /\ part \in {"gmail", "mobile", "family", "packages"}
  /\ MobileInit /\ (part # "mobile" => \A c \in Captures : Other(c))
  /\ SendInit
  /\ PackageInit
  /\ GmailInit /\ (part # "gmail" => \A m \in Messages : mailbox[m] = "labelled")

OfGmail(A) == part = "gmail" /\ A /\ UNCHANGED <<part, mobileVars, sendVars, packageVars>>
OfMobile(A) == part = "mobile" /\ A /\ UNCHANGED <<part, sendVars, packageVars, gmailVars>>
OfFamily(A) == part = "family" /\ A /\ UNCHANGED <<part, mobileVars, packageVars, gmailVars>>
OfPackages(A) == part = "packages" /\ A /\ UNCHANGED <<part, mobileVars, sendVars, gmailVars>>

Next == OfGmail(GmailNext) \/ OfMobile(MobileNext) \/ OfFamily(SendNext) \/ OfPackages(PackageNext)

Spec == Init /\ [][Next]_vars

-----------------------------------------------------------------------------
\* The types of the component, with the constraints its tables declare.
ExchangeTypes ==
  CASE part = "gmail" -> GmailTypeOK
    [] part = "mobile" -> MobileTypeOK
    [] part = "family" -> SendTypeOK
    [] part = "packages" -> PackageTypeOK

\* After a run that completed, the Gmail inbox holds every message the label had
\* at the stored history id, and none that had left it; a message that is STAGED
\* has its import run, through every rollback.
GmailMirrored ==
  part = "gmail" => GmailNothingMissed /\ GmailNoGhosts /\ GmailStagedHasRun
=============================================================================
