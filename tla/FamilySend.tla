------------------------------ MODULE FamilySend ------------------------------
(***************************************************************************)
(* Sending the household's snapshot partitions to the family relay: the    *)
(* send procedure of FamilyDeliveryPanel.tsx, the delivery rows of         *)
(* family_delivery_transport.rs it drives, and the relay's publication     *)
(* endpoint (external, relay-service/server.mjs).                          *)
(*                                                                         *)
(* One native command is one action.  Between two of them the user edits   *)
(* the ledger, members join or leave on the relay, requests are lost or    *)
(* arrive after the client gave up, the window reloads and the program     *)
(* crashes.  The ledger is the number of its edits: a package is the       *)
(* edits it contains.  An envelope is the recipient set it was sealed for. *)
(***************************************************************************)
EXTENDS Naturals, FiniteSets

CONSTANTS
  MaxLedgerEdits,       \* edits of the ledger
  MaxRecipientChanges,  \* changes of the relay's recipient set
  MaxSendFaults         \* timeouts, losses, reloads and crashes

Keys == {"SHARED", "PERSONAL"}
Unsent == {"SENDING", "FAILED_RETRYABLE"}
Connected == {"CONNECTED", "NETWORK_UNAVAILABLE"}

VARIABLES
  ledger,      \* edits of the local ledger
  partition,   \* family_delivery_partition_state: [dirty, accepted] of each key
  delivery,    \* the latest family_delivery_deliveries row of each key
  link,        \* family_delivery_connections.state
  recipients,  \* relay: the current recipient set
  relayed,     \* relay: publications [key, version, envelope]
  requests,    \* uploads on their way: [key, version, envelope, live]
  send,        \* the send procedure: [pc, keys, known, answer]
  pendingReset,\* pendingRecipientSetChanges: [key, envelope]
  sendFaults

sendVars ==
  <<ledger, partition, delivery, link, recipients, relayed, requests, send, pendingReset, sendFaults>>

NoDelivery == [state |-> "NONE", version |-> 0, envelope |-> 0]
NoSend == [pc |-> "idle", keys |-> {}, known |-> 0, answer |-> [k \in Keys |-> "none"]]

SendInit ==
  /\ ledger = 1
  /\ partition = [k \in Keys |-> [dirty |-> TRUE, accepted |-> 0]]
  /\ delivery = [k \in Keys |-> NoDelivery]
  /\ link = "CONNECTED"
  /\ recipients = 1
  /\ relayed = {}
  /\ requests = {}
  /\ send = NoSend
  /\ pendingReset = {}
  /\ sendFaults = 0

SendFault == sendFaults < MaxSendFaults /\ sendFaults' = sendFaults + 1

----------------------------------------------------------------------------
(* Local edits, the connection, and the relay's members *)

\* The triggers on the ledger tables mark every partition.
edit_ledger ==
  /\ ledger < MaxLedgerEdits
  /\ ledger' = ledger + 1
  /\ partition' = [k \in Keys |-> [partition[k] EXCEPT !.dirty = TRUE]]
  /\ UNCHANGED <<delivery, link, recipients, relayed, requests, send, pendingReset, sendFaults>>

recipients_change ==
  /\ recipients <= MaxRecipientChanges
  /\ recipients' = recipients + 1
  /\ UNCHANGED <<ledger, partition, delivery, link, relayed, requests, send, pendingReset, sendFaults>>

family_connection_removed ==
  /\ send.pc = "idle" /\ link # "DISCONNECTED"
  /\ link' = "DISCONNECTED"
  /\ UNCHANGED <<ledger, partition, delivery, recipients, relayed, requests, send, pendingReset, sendFaults>>

\* Partition rows, deliveries and cursor of an earlier connection are kept.
save_connection ==
  /\ send.pc = "idle"
  /\ link' = "CONNECTED"
  /\ UNCHANGED <<ledger, partition, delivery, recipients, relayed, requests, send, pendingReset, sendFaults>>

----------------------------------------------------------------------------
(* The send procedure *)

\* Every row's cached envelope is the rejected one, or it is already without.
Resettable(rejected) ==
  \A r \in rejected :
    \/ delivery[r.key].state = "FAILED_RETRYABLE" /\ delivery[r.key].envelope = 0
    \/ delivery[r.key].state \in Unsent /\ delivery[r.key].envelope = r.envelope

reset_rejected_outbound_envelopes(rejected) ==
  [k \in Keys |-> IF \E r \in rejected : r.key = k
                  THEN [delivery[k] EXCEPT !.state = "FAILED_RETRYABLE", !.envelope = 0]
                  ELSE delivery[k]]

\* A reset still owed is repeated, then the recipients are read and registered.
send_begin(keys) ==
  /\ send.pc = "idle" /\ link # "DISCONNECTED" /\ Resettable(pendingReset)
  /\ delivery' = reset_rejected_outbound_envelopes(pendingReset)
  /\ pendingReset' = {}
  /\ link' = "CONNECTED"
  /\ send' = [NoSend EXCEPT !.pc = "prepare", !.keys = keys, !.known = recipients]
  /\ UNCHANGED <<ledger, partition, recipients, relayed, requests, sendFaults>>

\* An unsent delivery of every chosen key is retried as it is; otherwise each
\* key needs changes to send, and its package is stored.
prepare_send ==
  LET retries == {k \in send.keys : delivery[k].state \in Unsent} IN
  /\ send.pc = "prepare"
  /\ IF \/ link \notin Connected
        \/ retries # {} /\ retries # send.keys
        \/ retries = {} /\ \E k \in send.keys : ~partition[k].dirty
     THEN send' = NoSend /\ UNCHANGED delivery
     ELSE /\ send' = [send EXCEPT !.pc = "seal"]
          /\ delivery' = [k \in Keys |->
               IF k \in send.keys /\ retries = {}
               THEN [state |-> "SENDING", version |-> ledger, envelope |-> 0] ELSE delivery[k]]
  /\ UNCHANGED <<ledger, partition, link, recipients, relayed, requests, pendingReset, sendFaults>>

\* The cached envelope, for whichever recipients, or a new one that is cached.
cache_outbound_envelope(k) ==
  /\ send.pc = "seal" /\ k \in send.keys /\ send.answer[k] = "none"
  /\ delivery' = [delivery EXCEPT ![k].envelope = IF @ = 0 THEN send.known ELSE @]
  /\ send' = [send EXCEPT !.answer[k] = "sealed"]
  /\ UNCHANGED <<ledger, partition, link, recipients, relayed, requests, pendingReset, sendFaults>>

uploadFamilyArtifact ==
  /\ send.pc = "seal" /\ \A k \in send.keys : send.answer[k] = "sealed"
  /\ send' = [send EXCEPT !.pc = "upload"]
  /\ requests' = requests \cup
       {[key |-> k, version |-> delivery[k].version, envelope |-> delivery[k].envelope, live |-> TRUE] :
          k \in send.keys}
  /\ UNCHANGED <<ledger, partition, delivery, link, recipients, relayed, pendingReset, sendFaults>>

\* POST publications: a publication already stored is confirmed if it is the
\* same one; a new one must be sealed for the current recipients.
PublicationAnswer(r) ==
  LET stored == {p \in relayed : p.key = r.key /\ p.version = r.version}
  IN IF stored # {} THEN (IF \A p \in stored : p.envelope = r.envelope THEN "accepted" ELSE "failed")
     ELSE IF r.envelope # recipients THEN "changed" ELSE "accepted"

relay_publish(r) ==
  /\ r \in requests
  /\ requests' = requests \ {r}
  /\ relayed' = IF PublicationAnswer(r) = "accepted"
                THEN relayed \cup {[key |-> r.key, version |-> r.version, envelope |-> r.envelope]}
                ELSE relayed
  /\ send' = IF r.live THEN [send EXCEPT !.answer[r.key] = PublicationAnswer(r)] ELSE send
  /\ UNCHANGED <<ledger, partition, delivery, link, recipients, pendingReset, sendFaults>>

Orphaned(rs) == {[r EXCEPT !.live = FALSE] : r \in rs}

\* The client gives up on an upload that may still arrive, or never does.
upload_fails(r, arrives) ==
  /\ SendFault
  /\ r \in requests /\ r.live
  /\ requests' = (requests \ {r}) \cup IF arrives THEN Orphaned({r}) ELSE {}
  /\ send' = [send EXCEPT !.answer[r.key] = "failed"]
  /\ UNCHANGED <<ledger, partition, delivery, link, recipients, relayed, pendingReset>>

Answered(answer) == {k \in send.keys : send.answer[k] = answer}

receipts == Answered("accepted")

\* Receipts first: the delivery is final, its partition clean.
mark_accepted ==
  /\ send.pc = "upload" /\ \A k \in send.keys : send.answer[k] # "sealed"
  /\ delivery' = [k \in Keys |-> IF k \in receipts
                                 THEN [delivery[k] EXCEPT !.state = "RELAY_ACCEPTED"] ELSE delivery[k]]
  /\ partition' = [k \in Keys |-> IF k \in receipts
                                  THEN [dirty |-> FALSE, accepted |-> delivery[k].version] ELSE partition[k]]
  /\ link' = IF receipts # {} THEN "CONNECTED" ELSE link
  /\ pendingReset' = {[key |-> k, envelope |-> delivery[k].envelope] : k \in Answered("changed")}
  /\ send' = [send EXCEPT !.pc = "reset"]
  /\ UNCHANGED <<ledger, recipients, relayed, requests, sendFaults>>

\* Then the envelopes the relay refused.  If the call fails twice the reset is
\* owed and the procedure ends.
reset_changed(ok) ==
  /\ send.pc = "reset"
  /\ IF ok THEN Resettable(pendingReset) /\ UNCHANGED sendFaults ELSE SendFault /\ pendingReset # {}
  /\ delivery' = IF ok THEN reset_rejected_outbound_envelopes(pendingReset) ELSE delivery
  /\ pendingReset' = IF ok THEN {} ELSE pendingReset
  /\ send' = IF ok THEN [send EXCEPT !.pc = "fail"] ELSE NoSend
  /\ UNCHANGED <<ledger, partition, link, recipients, relayed, requests>>

\* Mutant: a delivery that may have arrived is sealed again.
envelope_dropped(row) == [row EXCEPT !.state = "FAILED_RETRYABLE", !.envelope = 0]

\* An ambiguous failure keeps package and envelope.
failed_retryable(row) == [row EXCEPT !.state = "FAILED_RETRYABLE"]

family_mark_failed ==
  /\ send.pc = "fail"
  /\ delivery' = [k \in Keys |-> IF k \in Answered("failed") THEN failed_retryable(delivery[k]) ELSE delivery[k]]
  /\ link' = IF Answered("failed") # {} THEN "NETWORK_UNAVAILABLE" ELSE link
  /\ send' = NoSend
  /\ UNCHANGED <<ledger, partition, recipients, relayed, requests, pendingReset, sendFaults>>

----------------------------------------------------------------------------
(* Reloads and crashes *)

WindowReloads ==
  /\ SendFault
  /\ send' = NoSend /\ pendingReset' = {}
  /\ requests' = Orphaned(requests)
  /\ UNCHANGED <<ledger, partition, delivery, link, recipients, relayed>>

interrupted(row) == row.state = "SENDING"

\* The next start makes interrupted sends retryable.
recover_interrupted_sends ==
  /\ SendFault
  /\ send' = NoSend /\ pendingReset' = {}
  /\ requests' = Orphaned(requests)
  /\ delivery' = [k \in Keys |-> IF interrupted(delivery[k]) THEN failed_retryable(delivery[k]) ELSE delivery[k]]
  /\ UNCHANGED <<ledger, partition, link, recipients, relayed>>

SendNext ==
  \/ edit_ledger \/ recipients_change \/ family_connection_removed \/ save_connection
  \/ \E keys \in SUBSET Keys \ {{}} : send_begin(keys)
  \/ \E k \in Keys : cache_outbound_envelope(k)
  \/ prepare_send \/ uploadFamilyArtifact \/ mark_accepted \/ family_mark_failed
  \/ \E r \in requests : relay_publish(r) \/ \E arrives \in BOOLEAN : upload_fails(r, arrives)
  \/ \E ok \in BOOLEAN : reset_changed(ok)
  \/ WindowReloads \/ recover_interrupted_sends

SendSpec == SendInit /\ [][SendNext]_sendVars

----------------------------------------------------------------------------

\* A delivery is final exactly when it is the one its partition last had
\* accepted, and the relay holds each package once.
SendTypeOK ==
  /\ \A k \in Keys : /\ delivery[k].state \in Unsent \cup {"NONE", "RELAY_ACCEPTED"}
                     /\ delivery[k].version \in 0..ledger
                     /\ partition[k].accepted \in 0..delivery[k].version
                     /\ delivery[k].state = "RELAY_ACCEPTED" <=>
                          delivery[k].version = partition[k].accepted /\ partition[k].accepted # 0
  /\ send.pc \in {"idle", "prepare", "seal", "upload", "reset", "fail"}
  /\ Cardinality({<<p.key, p.version>> : p \in relayed}) = Cardinality(relayed)

\* A delivery that reached the relay although the client does not know it is
\* retried with the envelope the relay has, so the retry is confirmed and not
\* refused as a conflicting publication: "ambiguous transport failures must
\* keep the exact envelope bytes for an idempotent retry".
ResendIsIdempotent ==
  \A k \in Keys : \A p \in relayed :
    delivery[k].state \in Unsent /\ p.key = k /\ p.version = delivery[k].version
      => p.envelope = delivery[k].envelope

\* A delivery is shown as accepted by the relay only if the relay has it, and
\* then whatever was lost, repeated, reset or interrupted before.
AcceptedIsRelayed ==
  \A k \in Keys : delivery[k].state = "RELAY_ACCEPTED" =>
    \E p \in relayed : p.key = k /\ p.version = delivery[k].version

\* A family delivery is at the relay once under its identity, and accepted only
\* when it is there.
DeliveredAsSent == ResendIsIdempotent /\ AcceptedIsRelayed

\* Any local edit that no accepted package contains leaves its partition marked
\* (migration 0045: "Conservatively mark both current partitions dirty for any
\* local ledger graph mutation").
EditsAreMarked ==
  \A k \in Keys : partition[k].accepted < ledger => partition[k].dirty
==============================================================================
