------------------------------- MODULE MCLedger -------------------------------
(***************************************************************************)
(* Five components that write the ledger, replace it or pass its edits on, *)
(* in one instance for TLC: receipt and card-settlement links, the browser *)
(* vault, the validation of postings, the activation of a restored backup  *)
(* and the relay outbox.  They share no state, so nothing is gained by     *)
(* interleaving them: `part` says which one a behaviour is of, and the     *)
(* others stay as they start.                                              *)
(***************************************************************************)
EXTENDS MCEvidenceLinks, PwaVault, PostingCore, MCRestore, RelayOutbox

VARIABLE part

vars == <<part, linkVars, pwaVars, postingVars, restoreVars, outboxVars>>

\* A header without defect: the codes of the header do not depend on the entries.
mcHeaders == {[approved |-> TRUE, identified |-> TRUE, supported |-> TRUE]}

-----------------------------------------------------------------------------
Init ==
  /\ part \in {"links", "pwa", "posting", "restore", "outbox"}
  /\ LinkInit /\ PwaInit
  /\ PostingInit /\ (part # "posting" => candidateAmount = MaxAmount)
  /\ RestoreInit /\ (part # "restore" => active = Empty)
  /\ OutboxInit

Next ==
  \/ part = "links" /\ LinkNext /\ UNCHANGED <<part, pwaVars, postingVars, restoreVars, outboxVars>>
  \/ part = "pwa" /\ PwaNext /\ UNCHANGED <<part, linkVars, postingVars, restoreVars, outboxVars>>
  \/ part = "posting" /\ PostingNext /\ UNCHANGED <<part, linkVars, pwaVars, restoreVars, outboxVars>>
  \/ part = "restore" /\ RestoreNext /\ UNCHANGED <<part, linkVars, pwaVars, postingVars, outboxVars>>
  \/ part = "outbox" /\ OutboxNext /\ UNCHANGED <<part, linkVars, pwaVars, postingVars, restoreVars>>

Spec == Init /\ [][Next]_vars

-----------------------------------------------------------------------------
\* The types of the component, with the constraints its tables declare.
LedgerTypes ==
  CASE part = "links" -> LinkTypeOK
    [] part = "pwa" -> PwaTypeOK
    [] part = "restore" -> RestoreTypeOK
    [] part = "outbox" -> OutboxTypeOK
    [] OTHER -> TRUE
=============================================================================
