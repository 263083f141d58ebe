------------------------------ MODULE RelayOutbox ------------------------------
(***************************************************************************)
(* Sending local changes through the desktop relay: the trigger-made       *)
(* captures and the outbox of sync_foundation.rs, the delivery rows of     *)
(* relay_transport.rs, and the send procedure of DesktopRelayPanel.tsx     *)
(* with the relay's artifact endpoint (external, server.mjs).              *)
(*                                                                         *)
(* One native command is one action.  A panel that is closed while its     *)
(* upload runs leaves a procedure behind: it no longer accepts, but it     *)
(* still reports a failure, next to the send of the panel opened since.    *)
(* Local edits are numbered; a package is the number of edits it contains. *)
(***************************************************************************)
EXTENDS Naturals, Sequences, FiniteSetsExt

CONSTANTS
  Entities,
  MaxLocalEdits,
  MaxRelayFaults

Panels == 1..2
Retryable == {"SENDING", "FAILED_RETRYABLE"}
Usable == {"CONNECTED", "DEGRADED"}

VARIABLES
  log,        \* the local edits: which entity each one changed
  captured,   \* sync_local_change_capture not processed: [entity, edit]
  outbox,     \* sync_outbox with its envelope: [entity, edit, state]
  delivery,   \* the latest relay_deliveries row, with its envelopes
  relayLink,  \* relay_connections.state
  artifacts,  \* relay: the packages it stores
  panel,      \* the send procedure of each panel: [pc, package, closed]
  relayFaults

outboxVars == <<log, captured, outbox, delivery, relayLink, artifacts, panel, relayFaults>>

NoRelayDelivery == [state |-> "NONE", package |-> 0, snapshot |-> 0, envelopes |-> {}]
Resting == [pc |-> "idle", package |-> 0, closed |-> FALSE]

OutboxInit ==
  /\ log = <<>> /\ captured = {} /\ outbox = {}
  /\ delivery = NoRelayDelivery
  /\ relayLink = "CONNECTED"
  /\ artifacts = {}
  /\ panel = [p \in Panels |-> Resting]
  /\ relayFaults = 0

RelayFault == relayFaults < MaxRelayFaults /\ relayFaults' = relayFaults + 1

Sequence(rows) == Max({row.edit : row \in rows} \cup {0})
Pending(rows) == {row \in rows : row.state = "PENDING"}

----------------------------------------------------------------------------
(* Captures and envelopes *)

\* The capture triggers.
edit_entity(e) ==
  /\ Len(log) < MaxLocalEdits
  /\ log' = Append(log, e)
  /\ captured' = captured \cup {[entity |-> e, edit |-> Len(log')]}
  /\ UNCHANGED <<outbox, delivery, relayLink, artifacts, panel, relayFaults>>

NewestPerEntity(rows) == {c \in rows : \A o \in rows : o.entity = c.entity => o.edit <= c.edit}

\* Mutant: an entity is drained with its oldest unprocessed capture.
oldest_captures ==
  outbox \cup {[entity |-> c.entity, edit |-> c.edit, state |-> "PENDING"] :
                c \in {c \in captured : \A o \in captured : o.entity = c.entity => o.edit >= c.edit}}

\* The latest capture of each entity becomes an envelope; the ones before it
\* are processed with it.
drain_local_change_capture ==
  outbox \cup {[entity |-> c.entity, edit |-> c.edit, state |-> "PENDING"] : c \in NewestPerEntity(captured)}

\* Every status and export drains the captures first.
get_local_status ==
  /\ captured # {}
  /\ outbox' = drain_local_change_capture
  /\ captured' = {}
  /\ UNCHANGED <<log, delivery, relayLink, artifacts, panel, relayFaults>>

----------------------------------------------------------------------------
(* Connection and deliveries *)

save_connection ==
  /\ relayLink = "DISCONNECTED"
  /\ relayLink' = "CONNECTED"
  /\ UNCHANGED <<log, captured, outbox, delivery, artifacts, panel, relayFaults>>

disconnect ==
  /\ relayLink # "DISCONNECTED"
  /\ relayLink' = "DISCONNECTED"
  /\ UNCHANGED <<log, captured, outbox, delivery, artifacts, panel, relayFaults>>

\* An unaccepted delivery is sent again as it is.  Otherwise pending changes
\* make a package of the current state, recorded with the envelopes it covers.
prepare_send(p) ==
  /\ panel[p].pc = "idle"
  /\ \A o \in Panels : o # p => panel[o].closed \/ panel[o].pc = "idle"
  /\ relayLink \in Usable
  /\ IF delivery.state \in Retryable
     THEN UNCHANGED <<captured, outbox, delivery>>
     ELSE /\ Pending(outbox) # {}
          /\ captured' = {}
          /\ outbox' = drain_local_change_capture
          /\ delivery' = [state |-> "SENDING", package |-> Len(log), snapshot |-> Sequence(outbox'),
                          envelopes |-> {row.edit : row \in Pending(outbox')}]
  /\ panel' = [panel EXCEPT ![p] = [pc |-> "upload", package |-> delivery'.package, closed |-> FALSE]]
  /\ UNCHANGED <<log, relayLink, artifacts, relayFaults>>

\* POST artifacts: a package the relay has is confirmed, a new one is stored.
\* The answer may be lost, before or after the relay stored the package.
uploadDesktopRelayArtifact(p, stored, answered) ==
  /\ panel[p].pc = "upload"
  /\ stored \/ ~answered
  /\ IF stored /\ answered THEN UNCHANGED relayFaults ELSE RelayFault
  /\ artifacts' = IF stored THEN artifacts \cup {panel[p].package} ELSE artifacts
  /\ panel' = [panel EXCEPT ![p].pc = IF answered THEN "accept" ELSE "fail"]
  /\ UNCHANGED <<log, captured, outbox, delivery, relayLink>>

delivered_envelopes == {row \in outbox : row.edit \in delivery.envelopes}

\* A procedure whose panel was closed ends without accepting.
mark_accepted(p) ==
  /\ panel[p].pc = "accept"
  /\ panel' = [panel EXCEPT ![p] = Resting]
  /\ IF panel[p].closed
     THEN UNCHANGED <<delivery, outbox, relayLink>>
     ELSE /\ delivery' = [delivery EXCEPT !.state = "ACCEPTED"]
          /\ outbox' = (outbox \ delivered_envelopes)
                         \cup {[row EXCEPT !.state = "ACKNOWLEDGED"] : row \in delivered_envelopes}
          /\ relayLink' = "CONNECTED"
  /\ UNCHANGED <<log, captured, artifacts, relayFaults>>

still_open(package) == delivery.package = package /\ delivery.state # "ACCEPTED"

mark_send_failed(p) ==
  /\ panel[p].pc = "fail"
  /\ panel' = [panel EXCEPT ![p] = Resting]
  /\ IF still_open(panel[p].package)
     THEN delivery' = [delivery EXCEPT !.state = "FAILED_RETRYABLE"] /\ relayLink' = "DEGRADED"
     ELSE UNCHANGED <<delivery, relayLink>>
  /\ UNCHANGED <<log, captured, outbox, artifacts, relayFaults>>

\* The panel is closed, for another household or page, and opened again.
panel_closed(p) ==
  /\ RelayFault
  /\ panel[p].pc # "idle" /\ ~panel[p].closed
  /\ panel' = [panel EXCEPT ![p].closed = TRUE]
  /\ UNCHANGED <<log, captured, outbox, delivery, relayLink, artifacts>>

\* A crash ends every procedure; an interrupted delivery stays as it is.
relay_crash ==
  /\ RelayFault
  /\ panel' = [p \in Panels |-> Resting]
  /\ UNCHANGED <<log, captured, outbox, delivery, relayLink, artifacts>>

OutboxNext ==
  \/ \E e \in Entities : edit_entity(e)
  \/ get_local_status \/ save_connection \/ disconnect \/ relay_crash
  \/ \E p \in Panels : \/ prepare_send(p) \/ mark_accepted(p) \/ mark_send_failed(p) \/ panel_closed(p)
                       \/ \E stored, answered \in BOOLEAN : uploadDesktopRelayArtifact(p, stored, answered)

OutboxSpec == OutboxInit /\ [][OutboxNext]_outboxVars

----------------------------------------------------------------------------

\* Types, and what the restore validation of persistence.rs asks of relay rows
\* (lines 549 to 560): the envelopes of a delivery are not newer than its
\* snapshot, acknowledged once it is accepted and pending until then.
OutboxTypeOK ==
  /\ captured \subseteq [entity : Entities, edit : 1..Len(log)]
  /\ outbox \subseteq [entity : Entities, edit : 1..Len(log), state : {"PENDING", "ACKNOWLEDGED"}]
  /\ delivery.state \in Retryable \cup {"NONE", "ACCEPTED"}
  /\ artifacts \subseteq 1..Len(log)
  /\ \A row \in outbox : row.edit \in delivery.envelopes =>
       /\ row.edit <= delivery.snapshot
       /\ row.state = IF delivery.state = "ACCEPTED" THEN "ACKNOWLEDGED" ELSE "PENDING"

\* No local edit is lost on the way: each one is captured, pending, or in a
\* package the relay stores, whichever procedures of closed panels answer
\* late and however often a delivery is repeated.  (DesktopRelayPanel.tsx: an
\* unfinished send leaves "the unsent changes".)
UnsentStaysPending ==
  \A n \in 1..Len(log) :
    \/ \E row \in captured \cup Pending(outbox) : row.entity = log[n] /\ row.edit >= n
    \/ \E package \in artifacts : package >= n
================================================================================
