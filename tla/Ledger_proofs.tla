---------------------------- MODULE Ledger_proofs ----------------------------
(***************************************************************************)
(* Proofs about the components that write the ledger or pass its edits on: *)
(* the relay outbox, the links of receipts and card settlements, the       *)
(* browser vault and the validation of postings.  They share no state;     *)
(* each has its own invariant, for any entities, items, receipts, tabs and *)
(* entries and any number of edits, runs, appends and faults.              *)
(***************************************************************************)
EXTENDS MCLedger, Restore_proofs, Numbers_proofs, FiniteSetTheorems, SequenceTheorems

-----------------------------------------------------------------------------
(* The relay outbox: the inductive invariant *)

EntityRows == [entity : Entities, edit : Nat \ {0}]
Envelopes == [entity : Entities, edit : Nat \ {0}, state : {"PENDING", "ACKNOWLEDGED"}]
Deliveries ==
  [state : Retryable \cup {"NONE", "ACCEPTED"}, package : Nat, snapshot : Nat,
   envelopes : SUBSET (Nat \ {0})]
Procedures == [pc : {"idle", "upload", "accept", "fail"}, package : Nat, closed : BOOLEAN]

TypesOK ==
  /\ log \in Seq(Entities)
  /\ captured \subseteq EntityRows
  /\ outbox \subseteq Envelopes
  /\ delivery \in Deliveries
  /\ panel \in [Panels -> Procedures]
  /\ artifacts \subseteq 1..Len(log)

\* Captures and envelopes are of edits that were made, each of its own.
RowsOK ==
  /\ \A c \in captured : c.edit <= Len(log)
  /\ \A row \in outbox : row.edit <= Len(log)
  /\ \A c \in captured : \A row \in outbox : c.edit # row.edit
  /\ \A c \in captured : \A o \in captured : c.edit = o.edit => c = o
  /\ \A row \in outbox : \A other \in outbox : row.edit = other.edit => row = other

\* The envelopes of a delivery are in the outbox, in the package, and not newer
\* than its snapshot; they are acknowledged with it.
DeliveryOK ==
  /\ delivery.state # "NONE" => delivery.package \in 1..Len(log)
  /\ delivery.state = "NONE" => delivery.envelopes = {}
  /\ \A m \in delivery.envelopes :
       m <= delivery.package /\ m <= delivery.snapshot /\ \E row \in outbox : row.edit = m
  /\ \A row \in outbox : row.edit \in delivery.envelopes =>
       row.state = IF delivery.state = "ACCEPTED" THEN "ACKNOWLEDGED" ELSE "PENDING"

\* A procedure that may still accept sends the latest delivery, and one that was
\* confirmed has its package at the relay.
PanelsOK ==
  \A p \in Panels : panel[p].pc # "idle" =>
    /\ panel[p].package \in 1..Len(log)
    /\ ~panel[p].closed => panel[p].package = delivery.package /\ delivery.state # "NONE"
    /\ panel[p].pc = "accept" => panel[p].package \in artifacts

\* Edit n of entity e is captured, pending, or at the relay.
Safe(e, n) ==
  \/ \E c \in captured : c.entity = e /\ c.edit >= n
  \/ \E row \in outbox : row.state = "PENDING" /\ row.entity = e /\ row.edit >= n
  \/ \E package \in artifacts : package >= n

EditsSafe == \A n \in 1..Len(log) : Safe(log[n], n)

OutboxInv == TypesOK /\ RowsOK /\ DeliveryOK /\ PanelsOK /\ EditsSafe

-----------------------------------------------------------------------------
(* The relay outbox: draining *)

\* What a drain of the captures leaves in the outbox: every capture has an
\* envelope that is at least as new, every envelope stays, a new one is new.
LEMMA Drained ==
  ASSUME TypesOK, RowsOK
  PROVE  LET drained == drain_local_change_capture IN
         /\ drained \subseteq Envelopes
         /\ outbox \subseteq drained
         /\ \A row \in drained \ outbox :
              /\ row.state = "PENDING"
              /\ \E c \in captured : c.entity = row.entity /\ c.edit = row.edit
         /\ \A c \in captured : \E row \in drained :
              row.state = "PENDING" /\ row.entity = c.entity /\ row.edit >= c.edit
<1> DEFINE Envelope(c) == [entity |-> c.entity, edit |-> c.edit, state |-> "PENDING"]
           new == {Envelope(c) : c \in NewestPerEntity(captured)}
           drained == drain_local_change_capture
<1>1. drained = outbox \cup new /\ NewestPerEntity(captured) \subseteq captured
  BY DEF drain_local_change_capture, NewestPerEntity
<1>2. \A c \in captured : /\ Envelope(c) \in Envelopes /\ Envelope(c).state = "PENDING"
                          /\ Envelope(c).entity = c.entity /\ Envelope(c).edit = c.edit
  BY DEF TypesOK, EntityRows, Envelopes
<1>3. ASSUME NEW c \in captured
      PROVE  \E o \in NewestPerEntity(captured) : o.entity = c.entity /\ o.edit >= c.edit
  <2> DEFINE Edits == {o.edit : o \in {o \in captured : o.entity = c.entity}}
  <2>1. Edits \in SUBSET (0..Len(log)) /\ c.edit \in Edits /\ Len(log) \in Nat
    BY DEF TypesOK, RowsOK, EntityRows
  <2>2. PICK m \in Edits : \A k \in Edits : k <= m
    <3> HIDE DEF Edits
    <3> QED
      BY <2>1, GreatestNumber
  <2>3. PICK o \in captured : o.entity = c.entity /\ o.edit = m
    OBVIOUS
  <2>4. o \in NewestPerEntity(captured)
    BY <2>2, <2>3 DEF NewestPerEntity
  <2>5. o.edit >= c.edit
    BY <2>1, <2>2, <2>3
  <2> QED
    BY <2>3, <2>4, <2>5
<1> HIDE DEF Envelope
<1>4. ASSUME NEW c \in captured
      PROVE  \E row \in drained : row.state = "PENDING" /\ row.entity = c.entity /\ row.edit >= c.edit
  <2>1. PICK o \in NewestPerEntity(captured) : o.entity = c.entity /\ o.edit >= c.edit
    BY <1>3
  <2>2. Envelope(o) \in drained
    BY <1>1, <2>1
  <2> QED
    BY <1>1, <1>2, <2>1, <2>2
<1>5. ASSUME NEW row \in drained \ outbox
      PROVE  row.state = "PENDING" /\ \E c \in captured : c.entity = row.entity /\ c.edit = row.edit
  <2>1. PICK c \in NewestPerEntity(captured) : row = Envelope(c)
    BY <1>1
  <2> QED
    BY <1>1, <1>2, <2>1
<1>6. drained \subseteq Envelopes
  BY <1>1, <1>2 DEF TypesOK
<1> QED
  BY <1>1, <1>4, <1>5, <1>6

LEMMA DrainKeepsRows ==
  ASSUME OutboxInv, outbox' = drain_local_change_capture, captured' = {}, UNCHANGED <<log, artifacts>>
  PROVE  /\ outbox' \subseteq Envelopes /\ outbox \subseteq outbox'
         /\ RowsOK'
         /\ EditsSafe'
         /\ \A row \in outbox' \ outbox : row.state = "PENDING" /\ \A old \in outbox : old.edit # row.edit
<1>1. /\ TypesOK /\ RowsOK /\ log \in Seq(Entities) /\ Len(log) \in Nat
      /\ captured \subseteq EntityRows /\ outbox \subseteq Envelopes
  BY DEF OutboxInv, TypesOK
<1>2. /\ outbox' \subseteq Envelopes /\ outbox \subseteq outbox'
      /\ \A row \in outbox' \ outbox :
           row.state = "PENDING" /\ \E c \in captured : c.entity = row.entity /\ c.edit = row.edit
      /\ \A c \in captured : \E row \in outbox' :
           row.state = "PENDING" /\ row.entity = c.entity /\ row.edit >= c.edit
  BY <1>1, Drained
<1>3. \A row \in outbox' \ outbox : \A old \in outbox : old.edit # row.edit
  BY <1>2 DEF OutboxInv, RowsOK
<1>4. RowsOK'
  <2>1. \A row \in outbox' : row.edit <= Len(log)
    BY <1>1, <1>2 DEF RowsOK
  <2>2. ASSUME NEW row \in outbox', NEW other \in outbox', row.edit = other.edit
        PROVE  row = other
    <3>1. CASE row \in outbox /\ other \in outbox
      BY <1>1, <2>2, <3>1 DEF RowsOK
    <3>2. CASE row \notin outbox /\ other \notin outbox
      <4>1. row.entity = other.entity /\ row.state = "PENDING" /\ other.state = "PENDING"
        BY <1>1, <1>2, <2>2, <3>2 DEF RowsOK
      <4> QED
        BY <1>2, <2>2, <4>1 DEF Envelopes
    <3> QED
      BY <1>3, <2>2, <3>1, <3>2
  <2> QED
    BY <2>1, <2>2 DEF RowsOK
<1>5. ASSUME NEW n \in 1..Len(log)
      PROVE  \/ \E row \in outbox' : row.state = "PENDING" /\ row.entity = log[n] /\ row.edit >= n
             \/ \E package \in artifacts : package >= n
  <2>1. CASE \E c \in captured : c.entity = log[n] /\ c.edit >= n
    <3>1. PICK c \in captured : c.entity = log[n] /\ c.edit >= n
      BY <2>1
    <3>2. PICK row \in outbox' : row.state = "PENDING" /\ row.entity = c.entity /\ row.edit >= c.edit
      BY <1>2, <3>1
    <3>3. row.edit >= n
      BY <1>1, <1>2, <3>1, <3>2 DEF EntityRows, Envelopes
    <3> QED
      BY <3>1, <3>2, <3>3
  <2>2. CASE \E row \in outbox : row.state = "PENDING" /\ row.entity = log[n] /\ row.edit >= n
    BY <1>2, <2>2
  <2> QED
    BY <2>1, <2>2 DEF OutboxInv, EditsSafe, Safe
<1>6. EditsSafe'
  BY <1>5 DEF EditsSafe, Safe
<1> QED
  BY <1>2, <1>3, <1>4, <1>6

\* The rest of the invariant when rows may change and delivery and panels do not.
LEMMA DrainKeeps ==
  ASSUME OutboxInv, outbox' = drain_local_change_capture, captured' = {},
         UNCHANGED <<log, delivery, artifacts, panel>>
  PROVE  OutboxInv'
<1>1. /\ outbox' \subseteq Envelopes /\ outbox \subseteq outbox'
      /\ RowsOK'
      /\ EditsSafe'
      /\ \A row \in outbox' \ outbox : row.state = "PENDING" /\ \A old \in outbox : old.edit # row.edit
  BY DrainKeepsRows
<1>2. TypesOK'
  BY <1>1 DEF OutboxInv, TypesOK
<1>3. DeliveryOK'
  <2>1. \A row \in outbox' \ outbox : row.edit \notin delivery.envelopes
    BY <1>1 DEF OutboxInv, DeliveryOK
  <2> QED
    BY <1>1, <2>1 DEF OutboxInv, DeliveryOK
<1>4. PanelsOK'
  BY DEF OutboxInv, PanelsOK
<1> QED
  BY <1>1, <1>2, <1>3, <1>4 DEF OutboxInv

-----------------------------------------------------------------------------
(* The relay outbox: steps *)

LEMMA EditKeeps ==
  ASSUME OutboxInv, NEW e \in Entities, edit_entity(e)
  PROVE  OutboxInv'
<1> DEFINE row == [entity |-> e, edit |-> Len(log) + 1]
<1>1. /\ log \in Seq(Entities) /\ Len(log) \in Nat /\ log' = Append(log, e)
      /\ log' \in Seq(Entities) /\ Len(log') = Len(log) + 1
      /\ log'[Len(log) + 1] = e /\ \A n \in 1..Len(log) : log'[n] = log[n]
  BY AppendProperties DEF OutboxInv, TypesOK, edit_entity
<1>2. captured' = captured \cup {row} /\ UNCHANGED <<outbox, delivery, artifacts, panel>>
  BY <1>1 DEF edit_entity
<1>3. row \in EntityRows /\ row.entity = e /\ row.edit = Len(log) + 1
  BY <1>1 DEF EntityRows
<1> HIDE DEF row
<1>4. TypesOK'
  <2>1. artifacts' \subseteq 1..Len(log')
    BY <1>1, <1>2 DEF OutboxInv, TypesOK
  <2> QED
    BY <1>1, <1>2, <1>3, <2>1 DEF OutboxInv, TypesOK
<1>5. RowsOK'
  <2>1. /\ \A c \in captured : c.edit \in Nat /\ c.edit <= Len(log)
        /\ \A o \in outbox : o.edit \in Nat /\ o.edit <= Len(log)
    BY DEF OutboxInv, TypesOK, RowsOK, EntityRows, Envelopes
  <2> QED
    BY <1>1, <1>2, <1>3, <2>1 DEF OutboxInv, RowsOK
<1>6. DeliveryOK' /\ PanelsOK'
  BY <1>1, <1>2 DEF OutboxInv, DeliveryOK, PanelsOK
<1>7. ASSUME NEW n \in 1..Len(log')
      PROVE  \/ \E c \in captured' : c.entity = log'[n] /\ c.edit >= n
             \/ \E o \in outbox : o.state = "PENDING" /\ o.entity = log'[n] /\ o.edit >= n
             \/ \E package \in artifacts : package >= n
  <2>1. CASE n \in 1..Len(log)
    BY <1>1, <1>2, <2>1 DEF OutboxInv, EditsSafe, Safe
  <2>2. CASE n = Len(log) + 1
    BY <1>1, <1>2, <1>3, <2>2
  <2> QED
    BY <1>1, <2>1, <2>2
<1>8. EditsSafe'
  BY <1>2, <1>7 DEF EditsSafe, Safe
<1> QED
  BY <1>4, <1>5, <1>6, <1>8 DEF OutboxInv

\* A procedure that ends, or whose panel is closed, accepts nothing new.
LEMMA PanelKeeps ==
  ASSUME OutboxInv, NEW p \in Panels, NEW new \in Procedures,
         panel' = [panel EXCEPT ![p] = new],
         UNCHANGED <<log, captured, outbox, delivery, artifacts>>,
         new.pc # "idle" =>
           /\ panel[p].pc # "idle" /\ new.package = panel[p].package
           /\ new.closed \/ new.closed = panel[p].closed
           /\ new.pc = "accept" => panel[p].pc = "accept" \/ new.package \in artifacts
  PROVE  OutboxInv'
<1>1. /\ panel' \in [Panels -> Procedures] /\ panel'[p] = new
      /\ \A o \in Panels \ {p} : panel'[o] = panel[o]
  BY DEF OutboxInv, TypesOK
<1>2. TypesOK' /\ RowsOK' /\ DeliveryOK'
  BY <1>1 DEF OutboxInv, TypesOK, RowsOK, DeliveryOK
<1>3. PanelsOK'
  BY <1>1 DEF OutboxInv, PanelsOK
<1>4. EditsSafe'
  BY DEF OutboxInv, EditsSafe, Safe
<1> QED
  BY <1>2, <1>3, <1>4 DEF OutboxInv

LEMMA PrepareKeeps ==
  ASSUME OutboxInv, NEW p \in Panels, prepare_send(p)
  PROVE  OutboxInv'
<1> DEFINE new == [pc |-> "upload", package |-> delivery'.package, closed |-> FALSE]
<1>1. /\ panel' = [panel EXCEPT ![p] = new] /\ UNCHANGED <<log, artifacts>>
      /\ \A o \in Panels : o # p => panel[o].closed \/ panel[o].pc = "idle"
  BY DEF prepare_send
<1>2. /\ log \in Seq(Entities) /\ Len(log) \in Nat /\ outbox \subseteq Envelopes
      /\ delivery \in Deliveries /\ panel \in [Panels -> Procedures]
  BY DEF OutboxInv, TypesOK
<1>3. ASSUME delivery' \in Deliveries, delivery'.state # "NONE", delivery'.package \in 1..Len(log)
      PROVE  panel' \in [Panels -> Procedures] /\ PanelsOK'
  <2>1. new \in Procedures /\ new.pc = "upload" /\ new.package = delivery'.package
    BY <1>2, <1>3 DEF Procedures
  <2> HIDE DEF new
  <2>2. /\ panel' \in [Panels -> Procedures] /\ panel'[p] = new
        /\ \A o \in Panels \ {p} : panel'[o] = panel[o]
    BY <1>1, <1>2, <2>1
  <2> QED
    BY <1>1, <1>3, <2>1, <2>2 DEF OutboxInv, PanelsOK
<1>4. CASE delivery.state \in Retryable
  <2>1. UNCHANGED <<captured, outbox, delivery>>
    BY <1>4 DEF prepare_send
  <2>2. delivery.state # "NONE" /\ delivery.package \in 1..Len(log)
    BY <1>4 DEF OutboxInv, DeliveryOK, Retryable
  <2>3. TypesOK' /\ PanelsOK'
    BY <1>1, <1>2, <1>3, <2>1, <2>2 DEF OutboxInv, TypesOK
  <2> QED
    BY <1>1, <2>1, <2>3 DEF OutboxInv, RowsOK, DeliveryOK, EditsSafe, Safe
<1>5. CASE delivery.state \notin Retryable
  <2> DEFINE edits == {row.edit : row \in Pending(outbox')}
             snapshot == Sequence(outbox')
  <2>1. /\ Pending(outbox) # {} /\ captured' = {} /\ outbox' = drain_local_change_capture
        /\ delivery' = [state |-> "SENDING", package |-> Len(log), snapshot |-> snapshot,
                        envelopes |-> edits]
    BY <1>5 DEF prepare_send
  <2>2. outbox' \subseteq Envelopes /\ RowsOK' /\ EditsSafe'
    BY <1>1, <2>1, DrainKeepsRows
  <2>3. /\ \A row \in outbox' : row.edit \in 1..Len(log)
        /\ \A m \in edits : \E row \in outbox' : row.edit = m /\ row.state = "PENDING"
    BY <1>1, <2>2 DEF RowsOK, Envelopes, Pending
  <2>4. snapshot \in Nat /\ \A row \in outbox' : row.edit <= snapshot
    <3> DEFINE all == {row.edit : row \in outbox'} \cup {0}
    <3>1. all \in SUBSET (0..Len(log)) /\ all # {}
      BY <1>2, <2>3
    <3>2. snapshot = Max(all)
      BY DEF Sequence
    <3>3. \A row \in outbox' : row.edit \in all
      OBVIOUS
    <3> HIDE DEF all, snapshot
    <3>4. PICK x \in all : \A y \in all : y <= x
      BY <1>2, <3>1, GreatestNumber
    <3>5. \E x1 \in all : \A y \in all : x1 >= y
      BY <1>2, <3>1, <3>4
    <3>6. snapshot \in all /\ \A y \in all : snapshot >= y
      BY <3>2, <3>5 DEF Max
    <3>7. snapshot \in Nat
      BY <3>1, <3>6
    <3> QED
      BY <2>3, <3>3, <3>6, <3>7
  <2>5. \A row \in outbox' : row.edit \in edits => row.state = "PENDING"
    BY <2>2, <2>3 DEF RowsOK
  <2>6. Len(log) \in 1..Len(log)
    <3>1. PICK row \in outbox : TRUE
      BY <2>1 DEF Pending
    <3>2. row.edit \in Nat \ {0} /\ row.edit <= Len(log)
      BY <1>2 DEF OutboxInv, RowsOK, Envelopes
    <3> QED
      BY <1>2, <3>2
  <2>7. edits \in SUBSET (Nat \ {0})
    <3>1. \A m \in edits : m \in 1..Len(log)
      BY <2>3
    <3>2. 1..Len(log) \subseteq Nat \ {0}
      BY <1>2
    <3> HIDE DEF edits
    <3> QED
      BY <3>1, <3>2
  <2> HIDE DEF edits, snapshot
  <2>8. /\ delivery' \in Deliveries /\ delivery'.state = "SENDING" /\ delivery'.package = Len(log)
        /\ delivery'.snapshot = snapshot /\ delivery'.envelopes = edits
    BY <1>2, <2>1, <2>4, <2>7 DEF Deliveries, Retryable
  <2>9. DeliveryOK'
    <3>1. \A m \in edits : m <= Len(log) /\ m <= snapshot /\ \E row \in outbox' : row.edit = m
      BY <1>2, <2>3, <2>4
    <3> QED
      BY <1>1, <2>5, <2>6, <2>8, <3>1 DEF DeliveryOK
  <2>10. TypesOK' /\ PanelsOK'
    <3>1. panel' \in [Panels -> Procedures] /\ PanelsOK'
      BY <1>3, <2>6, <2>8
    <3> QED
      BY <1>1, <2>1, <2>2, <2>8, <3>1 DEF OutboxInv, TypesOK
  <2> QED
    BY <2>2, <2>9, <2>10 DEF OutboxInv
<1> QED
  BY <1>4, <1>5

LEMMA UploadKeeps ==
  ASSUME OutboxInv, NEW p \in Panels, NEW stored \in BOOLEAN, NEW answered \in BOOLEAN,
         uploadDesktopRelayArtifact(p, stored, answered)
  PROVE  OutboxInv'
<1> DEFINE next == IF answered THEN "accept" ELSE "fail"
           new == [panel[p] EXCEPT !.pc = next]
<1>1. /\ panel[p].pc = "upload" /\ (answered => stored)
      /\ artifacts' = IF stored THEN artifacts \cup {panel[p].package} ELSE artifacts
      /\ panel' = [panel EXCEPT ![p] = new]
      /\ UNCHANGED <<log, captured, outbox, delivery>>
  BY DEF uploadDesktopRelayArtifact
<1>2. next \in {"accept", "fail"} /\ (next = "accept" => panel[p].package \in artifacts')
  BY <1>1
<1> HIDE DEF next
<1>3. /\ new \in Procedures /\ new.pc = next /\ new.package = panel[p].package
      /\ new.closed = panel[p].closed
  BY <1>2 DEF OutboxInv, TypesOK, Procedures
<1> HIDE DEF new
<1>4. /\ panel' \in [Panels -> Procedures] /\ panel'[p] = new
      /\ \A o \in Panels \ {p} : panel'[o] = panel[o]
  BY <1>1, <1>3 DEF OutboxInv, TypesOK
<1>5. artifacts \subseteq artifacts' /\ artifacts' \subseteq 1..Len(log)
  BY <1>1 DEF OutboxInv, TypesOK, PanelsOK
<1>6. TypesOK' /\ RowsOK' /\ DeliveryOK'
  BY <1>1, <1>4, <1>5 DEF OutboxInv, TypesOK, RowsOK, DeliveryOK
<1>7. PanelsOK'
  BY <1>1, <1>2, <1>3, <1>4, <1>5 DEF OutboxInv, PanelsOK
<1>8. EditsSafe'
  BY <1>1, <1>5 DEF OutboxInv, EditsSafe, Safe
<1> QED
  BY <1>6, <1>7, <1>8 DEF OutboxInv

LEMMA Rested == Resting \in Procedures /\ Resting.pc = "idle"
BY DEF Resting, Procedures

LEMMA AcceptKeeps ==
  ASSUME OutboxInv, NEW p \in Panels, mark_accepted(p)
  PROVE  OutboxInv'
<1>1. CASE panel[p].closed
  BY <1>1, PanelKeeps, Rested DEF mark_accepted
<1>2. CASE ~panel[p].closed
  <2> DEFINE Acknowledged(row) == [row EXCEPT !.state = "ACKNOWLEDGED"]
             done == [delivery EXCEPT !.state = "ACCEPTED"]
  <2>1. /\ panel[p].pc = "accept" /\ panel' = [panel EXCEPT ![p] = Resting]
        /\ delivery' = done
        /\ outbox' = (outbox \ delivered_envelopes) \cup {Acknowledged(row) : row \in delivered_envelopes}
        /\ UNCHANGED <<log, captured, artifacts>>
    BY <1>2 DEF mark_accepted
  <2>2. /\ done \in Deliveries /\ done.state = "ACCEPTED" /\ done.package = delivery.package
        /\ done.snapshot = delivery.snapshot /\ done.envelopes = delivery.envelopes
    BY DEF OutboxInv, TypesOK, Deliveries
  <2>3. \A row \in outbox :
          /\ Acknowledged(row) \in Envelopes /\ Acknowledged(row).state = "ACKNOWLEDGED"
          /\ Acknowledged(row).entity = row.entity /\ Acknowledged(row).edit = row.edit
    BY DEF OutboxInv, TypesOK, Envelopes
  <2>4. delivery.state # "NONE" /\ delivery.package \in artifacts /\ delivery.package \in 1..Len(log)
    BY <1>2, <2>1 DEF OutboxInv, PanelsOK
  <2> HIDE DEF Acknowledged, done
  <2>5. /\ delivered_envelopes \subseteq outbox
        /\ \A row \in outbox : row \in delivered_envelopes <=> row.edit \in delivery.envelopes
    BY DEF delivered_envelopes
  <2>6. \A new \in outbox' : /\ new \in Envelopes
                             /\ \E row \in outbox :
                                  /\ new.edit = row.edit /\ new.entity = row.entity
                                  /\ new = IF row.edit \in delivery.envelopes THEN Acknowledged(row) ELSE row
    BY <2>1, <2>3, <2>5 DEF OutboxInv, TypesOK
  <2>7. \A row \in outbox : \E new \in outbox' : new.edit = row.edit
    BY <2>1, <2>3, <2>5
  <2>8. TypesOK'
    <3>1. panel' \in [Panels -> Procedures]
      BY <2>1, Rested DEF OutboxInv, TypesOK
    <3> QED
      BY <2>1, <2>2, <2>6, <3>1 DEF OutboxInv, TypesOK
  <2>9. RowsOK'
    BY <2>1, <2>6 DEF OutboxInv, RowsOK
  <2>10. DeliveryOK'
    <3>1. \A new \in outbox' : new.edit \in delivery.envelopes => new.state = "ACKNOWLEDGED"
      BY <2>3, <2>6
    <3> QED
      BY <2>1, <2>2, <2>4, <2>7, <3>1 DEF OutboxInv, DeliveryOK
  <2>11. PanelsOK'
    <3>1. panel'[p].pc = "idle" /\ \A o \in Panels \ {p} : panel'[o] = panel[o]
      BY <2>1, Rested DEF OutboxInv, TypesOK
    <3> QED
      BY <2>1, <2>2, <3>1 DEF OutboxInv, PanelsOK
  <2>12. ASSUME NEW n \in 1..Len(log)
         PROVE  \/ \E c \in captured : c.entity = log[n] /\ c.edit >= n
                \/ \E row \in outbox' : row.state = "PENDING" /\ row.entity = log[n] /\ row.edit >= n
                \/ \E package \in artifacts : package >= n
    <3>1. CASE \E row \in outbox : row.state = "PENDING" /\ row.entity = log[n] /\ row.edit >= n
      <4>1. PICK row \in outbox : row.state = "PENDING" /\ row.entity = log[n] /\ row.edit >= n
        BY <3>1
      <4>2. CASE row.edit \in delivery.envelopes
        <5>1. row.edit <= delivery.package /\ row.edit \in Nat
          BY <4>2 DEF OutboxInv, DeliveryOK, TypesOK, Envelopes
        <5> QED
          BY <2>4, <4>1, <5>1
      <4>3. CASE row.edit \notin delivery.envelopes
        BY <2>1, <2>5, <4>1, <4>3
      <4> QED
        BY <4>2, <4>3
    <3> QED
      BY <3>1 DEF OutboxInv, EditsSafe, Safe
  <2>13. EditsSafe'
    BY <2>1, <2>12 DEF EditsSafe, Safe
  <2> QED
    BY <2>8, <2>9, <2>10, <2>11, <2>13 DEF OutboxInv
<1> QED
  BY <1>1, <1>2

LEMMA FailureKeeps ==
  ASSUME OutboxInv, NEW p \in Panels, mark_send_failed(p)
  PROVE  OutboxInv'
<1>1. CASE ~still_open(panel[p].package)
  BY <1>1, PanelKeeps, Rested DEF mark_send_failed
<1>2. CASE still_open(panel[p].package)
  <2> DEFINE open == [delivery EXCEPT !.state = "FAILED_RETRYABLE"]
  <2>1. /\ panel' = [panel EXCEPT ![p] = Resting] /\ delivery' = open
        /\ delivery.state # "ACCEPTED" /\ panel[p].pc # "idle" /\ delivery.package = panel[p].package
        /\ UNCHANGED <<log, captured, outbox, artifacts>>
    BY <1>2 DEF mark_send_failed, still_open
  <2>2. /\ open \in Deliveries /\ open.state = "FAILED_RETRYABLE" /\ open.package = delivery.package
        /\ open.snapshot = delivery.snapshot /\ open.envelopes = delivery.envelopes
    BY DEF OutboxInv, TypesOK, Deliveries, Retryable
  <2> HIDE DEF open
  <2>3. /\ panel' \in [Panels -> Procedures] /\ panel'[p].pc = "idle"
        /\ \A o \in Panels \ {p} : panel'[o] = panel[o]
    BY <2>1, Rested DEF OutboxInv, TypesOK
  <2>4. TypesOK' /\ RowsOK' /\ EditsSafe'
    BY <2>1, <2>2, <2>3 DEF OutboxInv, TypesOK, RowsOK, EditsSafe, Safe
  <2>5. DeliveryOK' /\ PanelsOK'
    BY <2>1, <2>2, <2>3 DEF OutboxInv, DeliveryOK, PanelsOK
  <2> QED
    BY <2>4, <2>5 DEF OutboxInv
<1> QED
  BY <1>1, <1>2

LEMMA ClosingKeeps ==
  ASSUME OutboxInv, NEW p \in Panels, panel_closed(p)
  PROVE  OutboxInv'
<1> DEFINE new == [panel[p] EXCEPT !.closed = TRUE]
<1>1. /\ panel' = [panel EXCEPT ![p] = new] /\ panel[p].pc # "idle"
      /\ UNCHANGED <<log, captured, outbox, delivery, artifacts>>
  BY DEF panel_closed
<1>2. new \in Procedures /\ new.pc = panel[p].pc /\ new.package = panel[p].package /\ new.closed
  BY DEF OutboxInv, TypesOK, Procedures
<1> HIDE DEF new
<1> QED
  BY <1>1, <1>2, PanelKeeps

LEMMA RelayCrashKeeps ==
  ASSUME OutboxInv, relay_crash
  PROVE  OutboxInv'
BY Rested DEF relay_crash, OutboxInv, TypesOK, RowsOK, DeliveryOK, PanelsOK, EditsSafe, Safe

-----------------------------------------------------------------------------

LEMMA OutboxInvInit == OutboxInit => OutboxInv
<1> SUFFICES ASSUME OutboxInit
             PROVE  OutboxInv
  OBVIOUS
<1>1. TypesOK /\ PanelsOK
  BY Rested DEF OutboxInit, TypesOK, PanelsOK, NoRelayDelivery, Deliveries
<1>2. RowsOK /\ DeliveryOK /\ EditsSafe
  BY DEF OutboxInit, RowsOK, DeliveryOK, EditsSafe, NoRelayDelivery
<1> QED
  BY <1>1, <1>2 DEF OutboxInv

LEMMA OutboxInvNext == OutboxInv /\ [OutboxNext]_outboxVars => OutboxInv'
<1> SUFFICES ASSUME OutboxInv, [OutboxNext]_outboxVars
             PROVE  OutboxInv'
  OBVIOUS
<1>1. ASSUME NEW e \in Entities, edit_entity(e)
      PROVE  OutboxInv'
  BY <1>1, EditKeeps
<1>2. CASE get_local_status
  BY <1>2, DrainKeeps DEF get_local_status
<1>3. CASE save_connection \/ disconnect
  BY <1>3
  DEF save_connection, disconnect, OutboxInv, TypesOK, RowsOK, DeliveryOK, PanelsOK, EditsSafe, Safe
<1>4. CASE relay_crash
  BY <1>4, RelayCrashKeeps
<1>5. ASSUME NEW p \in Panels,
             prepare_send(p) \/ mark_accepted(p) \/ mark_send_failed(p) \/ panel_closed(p)
      PROVE  OutboxInv'
  BY <1>5, PrepareKeeps, AcceptKeeps, FailureKeeps, ClosingKeeps
<1>6. ASSUME NEW p \in Panels, NEW stored \in BOOLEAN, NEW answered \in BOOLEAN,
             uploadDesktopRelayArtifact(p, stored, answered)
      PROVE  OutboxInv'
  BY <1>6, UploadKeeps
<1>7. CASE UNCHANGED outboxVars
  BY <1>7
  DEF outboxVars, OutboxInv, TypesOK, RowsOK, DeliveryOK, PanelsOK, EditsSafe, Safe
<1> QED
  BY <1>1, <1>2, <1>3, <1>4, <1>5, <1>6, <1>7 DEF OutboxNext

LEMMA OutboxInvAlways == OutboxSpec => []OutboxInv
BY OutboxInvInit, OutboxInvNext, PTL DEF OutboxSpec

\* Rows are ones of edits that were made, and the relay's tables pass what a
\* restore asks of them (persistence.rs:549): the envelopes of a delivery are not
\* newer than its snapshot, acknowledged once it is accepted, pending until then.
THEOREM OutboxTypesCorrect == OutboxSpec => []OutboxTypeOK
<1>1. OutboxInv => OutboxTypeOK
  BY DEF OutboxInv, TypesOK, RowsOK, DeliveryOK, OutboxTypeOK, EntityRows, Envelopes, Deliveries
<1> QED
  BY <1>1, OutboxInvAlways, PTL

\* No local edit is lost on its way: each is captured, pending in the outbox or
\* in a package the relay stores, whatever answer of whatever closed panel comes
\* late and however often a delivery is repeated (mark_accepted acknowledges the
\* envelopes recorded with the delivery, and only the open panel accepts).
THEOREM NoEditIsLost == OutboxSpec => []UnsentStaysPending
<1>1. OutboxInv => UnsentStaysPending
  <2> SUFFICES ASSUME OutboxInv, NEW n \in 1..Len(log)
               PROVE  \/ \E row \in captured \cup Pending(outbox) : row.entity = log[n] /\ row.edit >= n
                      \/ \E package \in artifacts : package >= n
    BY DEF UnsentStaysPending
  <2> QED
    BY DEF OutboxInv, EditsSafe, Safe, Pending
<1> QED
  BY <1>1, OutboxInvAlways, PTL

-----------------------------------------------------------------------------
(* Folds over finite sets.  One step of a fold is given as a function of the *)
(* element and of the value so far, the order as a function from sets.       *)

Step(base, pick, op, g, s) ==
  IF s = {} THEN base ELSE op[pick[s]][g[s \ {pick[s]}]]

Picks(T, pick) == \A s \in SUBSET T : s # {} => pick[s] \in s

IsFold(base, pick, op, T, g) == g = [s \in SUBSET T |-> Step(base, pick, op, g, s)]

LEMMA RemoveOne ==
  ASSUME NEW T, IsFiniteSet(T), NEW s \in SUBSET T, NEW x \in s
  PROVE  /\ Cardinality(s) \in Nat \ {0} /\ s \ {x} \in SUBSET T
         /\ Cardinality(s \ {x}) = Cardinality(s) - 1
<1>1. IsFiniteSet(s)
  BY FS_Subset
<1>2. Cardinality(s \ {x}) = Cardinality(s) - 1 /\ Cardinality(s) \in Nat
  BY <1>1, FS_RemoveElement, FS_CardinalityType
<1>3. Cardinality(s \ {x}) \in Nat
  BY <1>1, FS_Subset, FS_CardinalityType
<1> QED
  BY <1>2, <1>3

LEMMA FoldExists ==
  ASSUME NEW T, IsFiniteSet(T), NEW base, NEW pick, NEW op, Picks(T, pick)
  PROVE  \E g : IsFold(base, pick, op, T, g)
<1> USE DEF Picks
<1> DEFINE Sized(n) == {s \in SUBSET T : Cardinality(s) <= n}
           Solves(n, g) == g = [s \in Sized(n) |-> Step(base, pick, op, g, s)]
           Unsolved == {n \in Nat : ~ \E g : Solves(n, g)}
<1>1. 0 \notin Unsolved
  <2>1. \A s \in Sized(0) : s = {}
    <3> SUFFICES ASSUME NEW s \in SUBSET T, Cardinality(s) <= 0, s # {}
                 PROVE  FALSE
      OBVIOUS
    <3>1. PICK x \in s : TRUE
      OBVIOUS
    <3>2. Cardinality(s) \in Nat \ {0}
      BY <3>1, RemoveOne
    <3> QED
      BY <3>2
  <2> DEFINE g == [s \in Sized(0) |-> base]
  <2>2. Solves(0, g)
    <3>1. \A s \in Sized(0) : Step(base, pick, op, g, s) = base
      BY <2>1 DEF Step
    <3> HIDE DEF Sized
    <3> QED
      BY <3>1
  <2> QED
    BY <2>2
<1>2. ASSUME NEW n \in Nat \ {0}, n - 1 \notin Unsolved
      PROVE  n \notin Unsolved
  <2>1. PICK g : Solves(n - 1, g)
    <3>1. n - 1 \in Nat
      OBVIOUS
    <3> HIDE DEF Solves
    <3> QED
      BY <1>2, <3>1, Zenon
  <2> DEFINE h == [s \in Sized(n) |-> Step(base, pick, op, g, s)]
  <2>2. ASSUME NEW s \in Sized(n)
        PROVE  Step(base, pick, op, g, s) = Step(base, pick, op, h, s)
    <3>1. CASE s = {}
      BY <3>1 DEF Step
    <3>2. CASE s # {}
      <4> DEFINE t == s \ {pick[s]}
      <4>1. t \in Sized(n - 1) /\ t \in Sized(n)
        BY <3>2, RemoveOne
      <4>2. g[t] = h[t]
        <5> HIDE DEF t, Sized
        <5> QED
          BY <2>1, <4>1
      <4> HIDE DEF h, Sized
      <4> QED
        BY <3>2, <4>2 DEF Step
    <3> QED
      BY <3>1, <3>2
  <2>3. Solves(n, h)
    <3> HIDE DEF Sized
    <3> QED
      BY <2>2
  <2> QED
    BY <2>3
<1>3. Unsolved = {}
  <2> SUFFICES ASSUME Unsolved # {}
               PROVE  FALSE
    OBVIOUS
  <2> HIDE DEF Unsolved
  <2>1. Unsolved \in SUBSET Nat
    BY DEF Unsolved
  <2>2. PICK n \in Unsolved : \A m \in Unsolved : n <= m
    BY <2>1, LeastNumber
  <2>3. n \in Nat \ {0} /\ n - 1 \notin Unsolved
    BY <1>1, <2>1, <2>2
  <2> QED
    BY <1>2, <2>2, <2>3
<1>4. Cardinality(T) \in Nat /\ Sized(Cardinality(T)) = SUBSET T
  BY FS_CardinalityType, FS_Subset
<1>5. PICK g : Solves(Cardinality(T), g)
  BY <1>3, <1>4
<1> QED
  BY <1>4, <1>5 DEF IsFold

\* What holds of the empty set, and of a set if it holds of the set without
\* the element picked from it, holds of every subset.
GrowsBy(T, pick, Good) ==
  \A s \in SUBSET T : s # {} /\ s \ {pick[s]} \in Good => s \in Good

LEMMA FoldInduction ==
  ASSUME NEW T, IsFiniteSet(T), NEW pick, NEW Good, Picks(T, pick), {} \in Good,
         GrowsBy(T, pick, Good)
  PROVE  SUBSET T \subseteq Good
<1> USE DEF Picks, GrowsBy
<1> DEFINE Bad == {Cardinality(s) : s \in {s \in SUBSET T : s \notin Good}}
<1>1. Bad \in SUBSET Nat
  <2>1. \A s \in SUBSET T : Cardinality(s) \in Nat
    BY FS_Subset, FS_CardinalityType
  <2> QED
    BY <2>1
<1>2. Bad = {}
  <2> SUFFICES ASSUME Bad # {}
               PROVE  FALSE
    OBVIOUS
  <2>1. PICK n \in Bad : \A m \in Bad : n <= m
    <3> HIDE DEF Bad
    <3> QED
      BY <1>1, LeastNumber
  <2>2. PICK s \in SUBSET T : Cardinality(s) = n /\ s \notin Good
    BY <2>1
  <2>3. pick[s] \in s /\ s \ {pick[s]} \notin Good
    BY <2>2
  <2> DEFINE t == s \ {pick[s]}
  <2>4. t \in SUBSET T /\ n \in Nat \ {0} /\ Cardinality(t) = n - 1
    <3>1. \A x \in s : /\ Cardinality(s) \in Nat \ {0} /\ s \ {x} \in SUBSET T
                       /\ Cardinality(s \ {x}) = Cardinality(s) - 1
      BY RemoveOne
    <3> QED
      BY <2>2, <2>3, <3>1, Zenon
  <2>5. Cardinality(t) \in Bad
    BY <2>3, <2>4
  <2>6. n <= Cardinality(t)
    BY <2>1, <2>5, Zenon
  <2> HIDE DEF t, Bad
  <2> QED
    BY <2>4, <2>6
<1> QED
  BY <1>2

-----------------------------------------------------------------------------
(* The links: confirmed totals *)

Total(T) == MapThenSumSet(LAMBDA p : Item[p].amount, T)

LEMMA TotalIsNat ==
  ASSUME NEW T \in SUBSET DOMAIN Item
  PROVE  Total(T) \in Nat /\ (T = {} => Total(T) = 0)
<1> DEFINE pick == [s \in SUBSET T |-> CHOOSE x \in s : TRUE]
           op == [p \in T |-> [v \in Nat |-> Item[p].amount + v]]
           Sum(g, s) == IF s = {} THEN 0
                        ELSE Item[CHOOSE x \in s : TRUE].amount
                             + g[s \ {CHOOSE x \in s : TRUE}]
           Solves(g) == g = [s \in SUBSET T |-> Sum(g, s)]
           iter == CHOOSE g : Solves(g)
<1>1. IsFiniteSet(T) /\ \A p \in T : Item[p].amount \in Nat
  BY LinksAssumption, FS_Subset
<1>2. \A s \in SUBSET T : s # {} => pick[s] \in s
  OBVIOUS
<1>10. Picks(T, pick)
  BY <1>2 DEF Picks
<1>3. PICK h : IsFold(0, pick, op, T, h)
  <2> HIDE DEF pick, op
  <2> QED
    BY <1>1, <1>10, FoldExists
<1>4. \A s \in SUBSET T : h[s] = Step(0, pick, op, h, s)
  <2> HIDE DEF pick, op
  <2> QED
    BY <1>3 DEF IsFold
<1>5. \A s \in SUBSET T : h[s] \in Nat
  <2> DEFINE Good == {s \in SUBSET T : h[s] \in Nat}
  <2>1. {} \in Good
    <3>1. {} \in SUBSET T
      OBVIOUS
    <3>2. h[{}] = 0
      BY <1>4, <3>1, Zenon DEF Step
    <3> QED
      BY <3>1, <3>2
  <2>2. ASSUME NEW s \in SUBSET T, s # {}, s \ {pick[s]} \in Good
        PROVE  s \in Good
    <3>1. h[s] = op[pick[s]][h[s \ {pick[s]}]]
      BY <1>4, <2>2 DEF Step
    <3>2. \A v \in Nat : op[pick[s]][v] \in Nat
      BY <1>1, <1>2, <2>2
    <3> HIDE DEF pick, op
    <3> QED
      BY <2>2, <3>1, <3>2
  <2> HIDE DEF pick, op, Good
  <2>3. GrowsBy(T, pick, Good)
    BY <2>2 DEF GrowsBy
  <2>4. SUBSET T \subseteq Good
    BY <1>1, <1>10, <2>1, <2>3, FoldInduction
  <2> QED
    BY <2>4 DEF Good
<1>6. Solves(h)
  <2>1. ASSUME NEW s \in SUBSET T
        PROVE  h[s] = Sum(h, s)
    <3>1. CASE s = {}
      BY <1>4, <3>1 DEF Step
    <3>2. CASE s # {}
      <4>1. h[s] = op[pick[s]][h[s \ {pick[s]}]]
        BY <1>4, <3>2 DEF Step
      <4>2. s \ {pick[s]} \in SUBSET T
        OBVIOUS
      <4> QED
        BY <1>2, <1>5, <3>2, <4>1, <4>2
    <3> QED
      BY <3>1, <3>2
  <2>2. h = [s \in SUBSET T |-> h[s]]
    <3> HIDE DEF pick, op
    <3> QED
      BY <1>3 DEF IsFold
  <2> HIDE DEF Sum
  <2> QED
    BY <2>1, <2>2
<1>7. Solves(iter)
  <2> HIDE DEF Solves
  <2> QED
    BY <1>6
<1>8. iter[{}] = 0 /\ \A s \in SUBSET T : iter[s] \in Nat
  <2> HIDE DEF iter
  <2> DEFINE Good == {s \in SUBSET T : iter[s] \in Nat}
  <2>1. \A s \in SUBSET T : iter[s] = Sum(iter, s)
    <3> HIDE DEF Sum
    <3> QED
      BY <1>7
  <2>2. iter[{}] = 0
    BY <2>1
  <2>3. ASSUME NEW s \in SUBSET T, s # {}, s \ {pick[s]} \in Good
        PROVE  s \in Good
    <3>1. iter[s \ {CHOOSE x \in s : TRUE}] \in Nat
      BY <2>3
    <3>2. Item[CHOOSE x \in s : TRUE].amount \in Nat
      BY <1>1, <1>2, <2>3
    <3>3. iter[s] = Item[CHOOSE x \in s : TRUE].amount + iter[s \ {CHOOSE x \in s : TRUE}]
      BY <2>1, <2>3
    <3> QED
      BY <2>3, <3>1, <3>2, <3>3
  <2>4. {} \in Good
    BY <2>2
  <2> HIDE DEF pick, Good
  <2>5. GrowsBy(T, pick, Good)
    BY <2>3 DEF GrowsBy
  <2>6. SUBSET T \subseteq Good
    BY <1>1, <1>10, <2>4, <2>5, FoldInduction
  <2> QED
    BY <2>2, <2>6 DEF Good
<1>9. Total(T) = iter[T]
  BY DEF Total, MapThenSumSet, MapThenFoldSet
<1> HIDE DEF iter
<1> QED
  BY <1>8, <1>9

ConfirmedOf(s, rows) == {p \in DOMAIN rows : rows[p].statement = s /\ rows[p].confirmed}

LEMMA ConfirmedTotal ==
  ASSUME NEW s, NEW rows
  PROVE  confirmed_total(s, rows) = Total(ConfirmedOf(s, rows))
BY DEF confirmed_total, Total, ConfirmedOf

-----------------------------------------------------------------------------
(* The inductive invariant of the links *)

Labels == {"UNMATCHED", "PARTIALLY_RECONCILED", "FULLY_RECONCILED", "OVERPAID"}
PaymentRows ==
  [statement : DOMAIN due \union {NoStatement}, confirmed : BOOLEAN,
   status : {"UNMATCHED", "POSSIBLE_MATCH", "FULLY_RECONCILED"}]

LinkRowsOK ==
  /\ runsPosted \subseteq Runs
  /\ txns \in [DOMAIN txns -> Facts]
  /\ DOMAIN txns \subseteq (UNION runsPosted) \ Statements
  /\ links \in [DOMAIN links -> DOMAIN txns] /\ DOMAIN links \subseteq Receipts
  /\ DOMAIN paid = Payments \intersect DOMAIN txns
  /\ DOMAIN due = Statements \intersect UNION runsPosted
  /\ paid \in [DOMAIN paid -> PaymentRows]
  /\ due \in [DOMAIN due -> Labels]
  /\ \A p \in DOMAIN paid : paid[p].status = "UNMATCHED" <=> paid[p].statement = NoStatement
  /\ corrections \subseteq Statements \X Payments

\* A confirmed payment is as a restore demands it.
SettledPayment(p) ==
  /\ paid[p].status = "FULLY_RECONCILED"
  /\ paid[p].statement \in DOMAIN due
  /\ Item[paid[p].statement].card = Item[p].card
  /\ InWindow(p, paid[p].statement)
  /\ txns[p].amount = Item[p].amount

SettledOK == \A p \in DOMAIN paid : paid[p].confirmed => SettledPayment(p)

\* The label of a statement is always that of the total as it is now, although
\* imports rewrite payments without looking at labels.
LabelsOK ==
  \A s \in DOMAIN due :
    due[s] = reconciliation_status_for_total(Item[s].amount, Total(ConfirmedOf(s, paid)))

LinksInv == LinkRowsOK /\ SettledOK /\ LabelsOK /\ ReceiptCountedOnce

-----------------------------------------------------------------------------

LEMMA TotalOfStatement ==
  ASSUME LinkRowsOK, NEW s
  PROVE  Total(ConfirmedOf(s, paid)) \in Nat
<1>1. DOMAIN paid \subseteq DOMAIN Item
  BY DEF LinkRowsOK, Payments, ItemOf
<1>2. ConfirmedOf(s, paid) \in SUBSET DOMAIN Item
  BY <1>1 DEF ConfirmedOf
<1> QED
  BY <1>2, TotalIsNat

LEMMA LabelIsLabel ==
  ASSUME NEW amount \in Nat, NEW total \in Nat
  PROVE  /\ reconciliation_status_for_total(amount, total) \in Labels
         /\ reconciliation_status_for_total(amount, total) = "UNMATCHED" <=> total = 0
         /\ reconciliation_status_for_total(amount, total) = "PARTIALLY_RECONCILED"
              <=> total \in 1 .. amount - 1
         /\ reconciliation_status_for_total(amount, total) = "FULLY_RECONCILED"
              <=> total = amount /\ total # 0
         /\ reconciliation_status_for_total(amount, total) = "OVERPAID" <=> total > amount
<1>1. CASE total = 0
  BY <1>1 DEF reconciliation_status_for_total, Labels
<1>2. CASE total > 0 /\ total < amount
  BY <1>2 DEF reconciliation_status_for_total, Labels
<1>3. CASE total > 0 /\ total = amount
  BY <1>3 DEF reconciliation_status_for_total, Labels
<1>4. CASE total > 0 /\ total > amount
  BY <1>4 DEF reconciliation_status_for_total, Labels
<1> QED
  BY <1>1, <1>2, <1>3, <1>4

LEMMA LinksInvSays ==
  LinksInv => LinkTypeOK /\ SettlementRestorable /\ ReceiptCountedOnce
<1> SUFFICES ASSUME LinksInv
             PROVE  LinkTypeOK /\ SettlementRestorable
  BY DEF LinksInv
<1>1. LinkTypeOK
  BY DEF LinksInv, LinkRowsOK, LinkTypeOK, PaymentRows
<1>2. ASSUME NEW p \in DOMAIN paid, paid[p].confirmed
      PROVE  SettledPayment(p)
  BY <1>2 DEF LinksInv, SettledOK
<1>3. ASSUME NEW s \in DOMAIN due
      PROVE  LET total == confirmed_total(s, paid)
             IN  /\ due[s] = "UNMATCHED" <=> total = 0
                 /\ due[s] = "PARTIALLY_RECONCILED" <=> total \in 1 .. Item[s].amount - 1
                 /\ due[s] = "FULLY_RECONCILED" <=> total = Item[s].amount /\ total # 0
                 /\ due[s] = "OVERPAID" <=> total > Item[s].amount
  <2>1. Total(ConfirmedOf(s, paid)) \in Nat
    BY TotalOfStatement DEF LinksInv
  <2>2. Item[s].amount \in Nat
    BY LinksAssumption DEF LinksInv, LinkRowsOK, Statements, ItemOf
  <2>3. due[s] = reconciliation_status_for_total(Item[s].amount, Total(ConfirmedOf(s, paid)))
    BY DEF LinksInv, LabelsOK
  <2>4. confirmed_total(s, paid) = Total(ConfirmedOf(s, paid))
    BY ConfirmedTotal
  <2> QED
    BY <2>1, <2>2, <2>3, <2>4, LabelIsLabel
<1> QED
  BY <1>1, <1>2, <1>3 DEF SettlementRestorable, SettledPayment

LEMMA LinksStart == LinkInit => LinksInv
<1> SUFFICES ASSUME LinkInit
             PROVE  LinksInv
  OBVIOUS
<1>1. LinkRowsOK
  BY DEF LinkInit, NoRows, LinkRowsOK
<1>2. SettledOK /\ LabelsOK
  BY DEF LinkInit, NoRows, SettledOK, LabelsOK
<1>3. ReceiptCountedOnce
  <2>1. \A run \in Runs : run # {}
    BY LinksAssumption
  <2> QED
    BY <2>1 DEF LinkInit, NoRows, ReceiptCountedOnce
<1> QED
  BY <1>1, <1>2, <1>3 DEF LinksInv

-----------------------------------------------------------------------------
(* The links: steps *)

LEMMA NearestIsOffered ==
  ASSUME NEW p \in Payments, NEW labels, DOMAIN labels \subseteq Statements
  PROVE  nearest_statement(p, labels) \in DOMAIN labels \union {NoStatement}
<1> DEFINE fits == {s \in DOMAIN labels :
                      /\ labels[s] = "UNMATCHED"
                      /\ Item[s].card = Item[p].card
                      /\ Item[s].amount = Item[p].amount
                      /\ InWindow(p, s)}
           days == {Item[s].day : s \in fits}
<1>1. CASE fits = {}
  BY <1>1 DEF nearest_statement
<1>2. CASE fits # {}
  <2>1. Item[p].day \in Nat /\ \A s \in fits : Item[s].day \in 0 .. Item[p].day
    <3>1. Item[p].day \in Nat /\ \A s \in fits : Item[s].day \in Nat
      BY LinksAssumption DEF Payments, Statements, ItemOf
    <3>2. ASSUME NEW s \in fits
          PROVE  Item[p].day - Item[s].day >= 0
      <4>1. Item[p].day - Item[s].day \in 0 .. SettlementDays
        BY DEF InWindow
      <4>2. Item[p].day \in Nat /\ Item[s].day \in Nat
        BY <3>1
      <4> QED
        BY <4>1, <4>2 DEF SettlementDays
    <3> QED
      BY <3>1, <3>2
  <2>2. PICK last \in days : \A d \in days : d <= last
    <3>1. days \in SUBSET (0 .. Item[p].day) /\ days # {}
      BY <1>2, <2>1
    <3> HIDE DEF days
    <3> QED
      BY <2>1, <3>1, GreatestNumber
  <2>3. \E s \in fits : \A o \in fits : Item[o].day <= Item[s].day
    <3>1. PICK s \in fits : Item[s].day = last
      BY <2>2
    <3>2. \A o \in fits : Item[o].day <= last
      BY <2>2
    <3> QED
      BY <3>1, <3>2
  <2>4. (CHOOSE s \in fits : \A o \in fits : Item[o].day <= Item[s].day) \in fits
    <3> HIDE DEF fits
    <3> QED
      BY <2>3
  <2>5. nearest_statement(p, labels) \in fits
    BY <1>2, <2>4 DEF nearest_statement
  <2> QED
    BY <2>5
<1> QED
  BY <1>1, <1>2

\* The row of a payment is rewritten for statement s, which is labelled again:
\* only the total of s changes.
LEMMA PaymentRowStep ==
  ASSUME LinksInv, NEW s \in DOMAIN due, NEW p \in DOMAIN paid, NEW row \in PaymentRows,
         paid[p].statement \in {NoStatement, s}, row.statement \in {NoStatement, s},
         row.statement = NoStatement => row.confirmed = FALSE,
         row.status = "UNMATCHED" <=> row.statement = NoStatement,
         paid' = [paid EXCEPT ![p] = row], relabel(s, paid'),
         UNCHANGED <<txns, runsPosted, links>>,
         corrections' \subseteq Statements \X Payments
  PROVE  /\ LinkRowsOK' /\ LabelsOK' /\ ReceiptCountedOnce'
         /\ DOMAIN due' = DOMAIN due /\ DOMAIN paid' = DOMAIN paid /\ paid'[p] = row
         /\ \A q \in DOMAIN paid : q # p => paid'[q] = paid[q]
<1> USE DEF LinksInv
<1>1. NoStatement \notin DOMAIN due /\ Item[s].amount \in Nat
  BY LinksAssumption DEF LinkRowsOK, Statements, ItemOf
<1>2. /\ DOMAIN paid' = DOMAIN paid /\ paid'[p] = row
      /\ \A q \in DOMAIN paid : q # p => paid'[q] = paid[q]
  BY DEF LinkRowsOK
<1>3. Total(ConfirmedOf(s, paid')) \in Nat
  <2>1. ConfirmedOf(s, paid') \in SUBSET DOMAIN Item
    BY <1>2 DEF ConfirmedOf, LinkRowsOK, Payments, ItemOf
  <2> QED
    BY <2>1, TotalIsNat
<1>4. confirmed_total(s, paid') = Total(ConfirmedOf(s, paid'))
  BY ConfirmedTotal
<1>5. /\ DOMAIN due' = DOMAIN due
      /\ due'[s] = reconciliation_status_for_total(Item[s].amount, Total(ConfirmedOf(s, paid')))
      /\ \A o \in DOMAIN due : o # s => due'[o] = due[o]
  BY <1>4 DEF LinkRowsOK, relabel
<1>6. due'[s] \in Labels
  BY <1>1, <1>3, <1>5, LabelIsLabel
<1>7. LinkRowsOK'
  <2>1. paid' \in [DOMAIN paid' -> PaymentRows']
    BY <1>2, <1>5 DEF LinkRowsOK, PaymentRows
  <2>2. due' \in [DOMAIN due' -> Labels]
    BY <1>5, <1>6 DEF LinkRowsOK, relabel
  <2> QED
    BY <1>1, <1>2, <1>5, <2>1, <2>2 DEF LinkRowsOK
<1>8. ASSUME NEW o \in DOMAIN due, o # s
      PROVE  ConfirmedOf(o, paid') = ConfirmedOf(o, paid)
  BY <1>1, <1>2, <1>8 DEF ConfirmedOf
<1>9. LabelsOK'
  BY <1>5, <1>8 DEF LabelsOK
<1>10. ReceiptCountedOnce'
  BY DEF ReceiptCountedOnce
<1> QED
  BY <1>2, <1>5, <1>7, <1>9, <1>10

LEMMA ConfirmPaymentStep ==
  ASSUME LinksInv, NEW s \in Statements, NEW p \in Payments, confirm_card_payment_link(s, p)
  PROVE  LinksInv'
<1> DEFINE row == [statement |-> s, confirmed |-> TRUE, status |-> "FULLY_RECONCILED"]
<1>1. s # NoStatement
  BY LinksAssumption DEF Statements, ItemOf
<1>2. /\ s \in DOMAIN due /\ p \in DOMAIN paid /\ paid' = [paid EXCEPT ![p] = row]
      /\ paid[p].statement \in {NoStatement, s} /\ relabel(s, paid')
      /\ UNCHANGED <<txns, runsPosted, links, corrections>>
  BY DEF confirm_card_payment_link
<1>3. /\ row \in PaymentRows /\ row.statement = s /\ row.confirmed
      /\ row.status = "FULLY_RECONCILED"
  BY <1>2 DEF PaymentRows
<1> HIDE DEF row
<1>4. corrections' \subseteq Statements \X Payments
  BY <1>2 DEF LinksInv, LinkRowsOK
<1>5. /\ LinkRowsOK' /\ LabelsOK' /\ ReceiptCountedOnce'
      /\ DOMAIN due' = DOMAIN due /\ DOMAIN paid' = DOMAIN paid /\ paid'[p] = row
      /\ \A q \in DOMAIN paid : q # p => paid'[q] = paid[q]
  BY <1>1, <1>2, <1>3, <1>4, PaymentRowStep
<1>6. SettledOK'
  BY <1>2, <1>3, <1>5 DEF LinksInv, SettledOK, SettledPayment, confirm_card_payment_link
<1> QED
  BY <1>5, <1>6 DEF LinksInv

LEMMA UnlinkPaymentStep ==
  ASSUME LinksInv, NEW s \in Statements, NEW p \in Payments, unlink_card_payment_link(s, p)
  PROVE  LinksInv'
<1> DEFINE row == unlinked(paid[p])
<1>1. /\ s \in DOMAIN due /\ p \in DOMAIN paid /\ paid' = [paid EXCEPT ![p] = row]
      /\ paid[p].statement \in {NoStatement, s} /\ relabel(s, paid')
      /\ UNCHANGED <<txns, runsPosted, links>> /\ corrections' = corrections \union {<<s, p>>}
  BY DEF unlink_card_payment_link
<1>2. /\ row \in PaymentRows /\ row.statement = NoStatement /\ row.confirmed = FALSE
      /\ row.status = "UNMATCHED"
  BY DEF PaymentRows, unlinked
<1> HIDE DEF row
<1>3. corrections' \subseteq Statements \X Payments
  BY <1>1 DEF LinksInv, LinkRowsOK
<1>4. /\ LinkRowsOK' /\ LabelsOK' /\ ReceiptCountedOnce'
      /\ DOMAIN due' = DOMAIN due /\ DOMAIN paid' = DOMAIN paid /\ paid'[p] = row
      /\ \A q \in DOMAIN paid : q # p => paid'[q] = paid[q]
  BY <1>1, <1>2, <1>3, PaymentRowStep
<1>5. SettledOK'
  BY <1>1, <1>2, <1>4 DEF LinksInv, SettledOK, SettledPayment
<1> QED
  BY <1>4, <1>5 DEF LinksInv

LEMMA EditTransactionStep ==
  ASSUME LinksInv, NEW t \in DOMAIN txns, NEW facts \in Edited, update_posted_transaction(t, facts)
  PROVE  LinksInv'
<1> USE DEF LinksInv
<1>1. /\ t \notin DOMAIN paid /\ txns' = [txns EXCEPT ![t] = facts]
      /\ UNCHANGED <<runsPosted, links, paid, due, corrections>>
  BY DEF update_posted_transaction, reconciliation_linked
<1>2. facts \in Facts
  BY LinksAssumption
<1>3. /\ DOMAIN txns' = DOMAIN txns /\ txns' \in [DOMAIN txns -> Facts]
      /\ \A p \in DOMAIN paid : txns'[p] = txns[p]
  BY <1>1, <1>2 DEF LinkRowsOK
<1>4. LinkRowsOK'
  BY <1>1, <1>3 DEF LinkRowsOK, PaymentRows
<1>5. SettledOK'
  BY <1>1, <1>3 DEF SettledOK, SettledPayment
<1>6. LabelsOK' /\ ReceiptCountedOnce'
  BY <1>1, <1>3 DEF LabelsOK, ReceiptCountedOnce
<1> QED
  BY <1>4, <1>5, <1>6

\* Confirming the last candidate of a run that still awaits review posts the run.
LEMMA ConfirmReceiptStep ==
  ASSUME LinksInv, NEW c \in Receipts, NEW t \in DOMAIN txns, confirm(c, t)
  PROVE  LinksInv'
<1> DEFINE run == CHOOSE r \in Runs : c \in r
<1> USE DEF LinksInv
<1>1. /\ c \notin DOMAIN links /\ c \notin DOMAIN txns
      /\ UNCHANGED <<txns, paid, due, corrections>>
      /\ links' = inserted([r \in {c} |-> t], links)
      /\ runsPosted' = IF \E i \in run \ {c} : reviewable(i) THEN runsPosted
                       ELSE runsPosted \union {run}
  BY DEF confirm, reviewable
<1>2. run \in Runs /\ c \in run /\ \A r \in Runs : c \in r => r = run
  <2>1. \E r \in Runs : c \in r
    BY LinksAssumption DEF Receipts, ItemOf
  <2> QED
    BY <2>1, LinksAssumption
<1> HIDE DEF run
<1>3. DOMAIN links' = DOMAIN links \union {c} /\ links' \in [DOMAIN links' -> DOMAIN txns]
  BY <1>1 DEF inserted, LinkRowsOK
<1>4. Statements \intersect DOMAIN links = {} /\ Statements \intersect DOMAIN txns = {}
      /\ c \notin Statements
  BY DEF LinkRowsOK, Receipts, Statements, ItemOf
\* A run with a statement stays open: a statement is linked to nothing.
<1>5. Statements \intersect UNION runsPosted' = Statements \intersect UNION runsPosted
  <2>1. CASE \E i \in run \ {c} : reviewable(i)
    BY <1>1, <2>1
  <2>2. CASE ~ \E i \in run \ {c} : reviewable(i)
    <3>1. Statements \intersect run = {}
      BY <1>4, <2>2 DEF reviewable
    <3> QED
      BY <1>1, <2>2, <3>1
  <2> QED
    BY <2>1, <2>2
<1>6. LinkRowsOK'
  <2>1. runsPosted' \subseteq Runs /\ UNION runsPosted \subseteq UNION runsPosted'
    BY <1>1, <1>2 DEF LinkRowsOK
  <2>2. DOMAIN links' \subseteq Receipts
    BY <1>3 DEF LinkRowsOK
  <2> QED
    BY <1>1, <1>3, <1>5, <2>1, <2>2 DEF LinkRowsOK, PaymentRows
<1>7. SettledOK' /\ LabelsOK'
  BY <1>1 DEF SettledOK, SettledPayment, LabelsOK
<1>8. ReceiptCountedOnce'
  <2>1. \A r \in Receipts : ~(r \in DOMAIN links' /\ r \in DOMAIN txns')
    BY <1>1, <1>3 DEF ReceiptCountedOnce
  <2>2. ASSUME NEW r \in Runs \ runsPosted'
        PROVE  \E i \in r : i \notin DOMAIN links'
    <3>1. CASE r = run
      <4>1. \E i \in run \ {c} : reviewable(i)
        BY <1>1, <2>2, <3>1
      <4> QED
        BY <1>3, <3>1, <4>1 DEF reviewable
    <3>2. CASE r # run
      <4>1. r \notin runsPosted /\ c \notin r
        BY <1>1, <1>2, <2>2, <3>2
      <4> QED
        BY <1>3, <2>2, <4>1 DEF ReceiptCountedOnce
    <3> QED
      BY <3>1, <3>2
  <2> QED
    BY <2>1, <2>2 DEF ReceiptCountedOnce
<1> QED
  BY <1>6, <1>7, <1>8

LEMMA CommitStep ==
  ASSUME LinksInv, NEW run \in Runs, commit_import(run)
  PROVE  LinksInv'
<1> DEFINE posting == {i \in run \ Statements : reviewable(i)}
           fresh == [p \in posting \intersect Payments |->
                       [statement |-> NoStatement, confirmed |-> FALSE, status |-> "UNMATCHED"]]
           rows == inserted(fresh, paid)
           candidates == [i \in posting |-> [amount |-> Item[i].amount, day |-> Item[i].day]]
<1> USE DEF LinksInv
<1>1. /\ run \notin runsPosted /\ runsPosted' = runsPosted \union {run}
      /\ txns' = inserted(candidates, txns)
      /\ due' = finalize_card_statements(run)
      /\ paid' = reconcile_exact_card_payments(rows, due')
      /\ UNCHANGED <<links, corrections>>
  BY DEF commit_import
<1>2. posting \subseteq run \ Statements /\ posting \intersect DOMAIN txns = {}
      /\ posting \intersect DOMAIN links = {} /\ posting \intersect DOMAIN paid = {}
      /\ posting \subseteq DOMAIN Item
  BY LinksAssumption DEF reviewable, LinkRowsOK
<1>3. Statements \intersect run \intersect UNION runsPosted = {}
  BY <1>1, LinksAssumption DEF LinkRowsOK
<1>4. /\ DOMAIN txns' = posting \union DOMAIN txns /\ txns' \in [DOMAIN txns' -> Facts]
      /\ \A i \in DOMAIN txns : txns'[i] = txns[i]
  <2>1. candidates \in [posting -> Facts]
    BY <1>2, LinksAssumption DEF Facts
  <2> HIDE DEF candidates, posting
  <2> QED
    BY <1>1, <1>2, <2>1 DEF inserted, LinkRowsOK
<1>5. \A p \in posting \intersect Payments : txns'[p].amount = Item[p].amount
  <2> HIDE DEF posting
  <2> QED
    BY <1>1, <1>2 DEF inserted
<1>6. /\ DOMAIN due' = (Statements \intersect run) \union DOMAIN due
      /\ due' \in [DOMAIN due' -> Labels]
      /\ \A s \in DOMAIN due : due'[s] = due[s]
      /\ \A s \in Statements \intersect run : due'[s] = "UNMATCHED"
  BY <1>1, <1>3 DEF finalize_card_statements, inserted, LinkRowsOK, Labels
<1>7. NoStatement \notin DOMAIN due' /\ DOMAIN due' \subseteq Statements
  BY <1>6, LinksAssumption DEF LinkRowsOK, Statements, ItemOf
<1>8. /\ DOMAIN rows = (posting \intersect Payments) \union DOMAIN paid
      /\ \A p \in DOMAIN paid : rows[p] = paid[p]
      /\ \A p \in posting \intersect Payments :
           rows[p] = [statement |-> NoStatement, confirmed |-> FALSE, status |-> "UNMATCHED"]
  <2> HIDE DEF posting
  <2> QED
    BY <1>2 DEF inserted
<1> HIDE DEF rows, posting, candidates
<1>9. DOMAIN rows = Payments \intersect DOMAIN txns'
  BY <1>2, <1>4, <1>8 DEF LinkRowsOK
\* Matching touches only payments that are not confirmed.
<1>10. ASSUME NEW p \in DOMAIN rows
       PROVE  /\ rows[p] \in [statement : DOMAIN due' \union {NoStatement}, confirmed : BOOLEAN,
                              status : {"UNMATCHED", "POSSIBLE_MATCH", "FULLY_RECONCILED"}]
              /\ unmatched(rows[p]) <=> rows[p].statement = NoStatement
              /\ unmatched(rows[p]) => rows[p].confirmed = FALSE
  <2>1. CASE p \in DOMAIN paid
    <3>1. rows[p] = paid[p] /\ paid[p] \in PaymentRows /\ DOMAIN due \subseteq DOMAIN due'
      BY <1>6, <1>8, <2>1 DEF LinkRowsOK
    <3>2. unmatched(rows[p]) <=> rows[p].statement = NoStatement
      BY <2>1, <3>1 DEF LinkRowsOK, unmatched
    <3>3. paid[p].confirmed => paid[p].status = "FULLY_RECONCILED"
      BY <2>1 DEF SettledOK, SettledPayment
    <3> QED
      BY <3>1, <3>2, <3>3 DEF PaymentRows, unmatched
  <2>2. CASE p \in posting \intersect Payments
    <3> DEFINE new == [statement |-> NoStatement, confirmed |-> FALSE, status |-> "UNMATCHED"]
    <3>1. rows[p] = new
      BY <1>8, <2>2
    <3>2. /\ new \in [statement : DOMAIN due' \union {NoStatement}, confirmed : BOOLEAN,
                      status : {"UNMATCHED", "POSSIBLE_MATCH", "FULLY_RECONCILED"}]
          /\ unmatched(new) /\ new.statement = NoStatement /\ new.confirmed = FALSE
      BY DEF unmatched
    <3> QED
      BY <3>1, <3>2
  <2> QED
    BY <1>8, <2>1, <2>2
<1>11. DOMAIN paid' = DOMAIN rows
  BY <1>1 DEF reconcile_exact_card_payments
<1>12. ASSUME NEW p \in DOMAIN rows
       PROVE  \/ paid'[p] = rows[p]
              \/ /\ unmatched(rows[p])
                 /\ paid'[p] = [rows[p] EXCEPT !.statement = nearest_statement(p, due'),
                                               !.status = "POSSIBLE_MATCH"]
                 /\ nearest_statement(p, due') \in DOMAIN due'
  <2>1. nearest_statement(p, due') \in DOMAIN due' \union {NoStatement}
    BY <1>7, <1>9, NearestIsOffered
  <2> QED
    BY <1>1, <2>1 DEF reconcile_exact_card_payments
<1>13. ASSUME NEW p \in DOMAIN rows
       PROVE  /\ paid'[p] \in [statement : DOMAIN due' \union {NoStatement}, confirmed : BOOLEAN,
                               status : {"UNMATCHED", "POSSIBLE_MATCH", "FULLY_RECONCILED"}]
              /\ paid'[p].status = "UNMATCHED" <=> paid'[p].statement = NoStatement
              /\ paid'[p].confirmed <=> rows[p].confirmed
              /\ paid'[p].confirmed => paid'[p] = rows[p]
  <2>1. CASE paid'[p] = rows[p]
    BY <1>10, <2>1 DEF unmatched
  <2>2. CASE paid'[p] # rows[p]
    <3> DEFINE near == nearest_statement(p, due')
               matched == [rows[p] EXCEPT !.statement = near, !.status = "POSSIBLE_MATCH"]
    <3>1. unmatched(rows[p]) /\ paid'[p] = matched /\ near \in DOMAIN due'
      BY <1>12, <2>2
    <3>2. rows[p].confirmed = FALSE
      BY <1>10, <3>1
    <3> HIDE DEF near
    <3>3. /\ matched \in [statement : DOMAIN due' \union {NoStatement}, confirmed : BOOLEAN,
                          status : {"UNMATCHED", "POSSIBLE_MATCH", "FULLY_RECONCILED"}]
          /\ matched.status = "POSSIBLE_MATCH" /\ matched.statement = near
          /\ matched.confirmed = rows[p].confirmed
      BY <1>10, <3>1
    <3> QED
      BY <1>7, <3>1, <3>2, <3>3
  <2> QED
    BY <2>1, <2>2
<1>14. ASSUME NEW p \in DOMAIN paid', paid'[p].confirmed
       PROVE  p \in DOMAIN paid /\ paid'[p] = paid[p] /\ paid[p].confirmed
  BY <1>8, <1>11, <1>13, <1>14
<1>15. \A p \in DOMAIN paid : p \in DOMAIN paid' /\ (paid[p].confirmed => paid'[p] = paid[p])
  BY <1>8, <1>11, <1>13
<1>16. \A s : ConfirmedOf(s, paid') = ConfirmedOf(s, paid)
  BY <1>14, <1>15 DEF ConfirmedOf
<1>17. LinkRowsOK'
  <2>1. runsPosted' \subseteq Runs /\ UNION runsPosted' = (UNION runsPosted) \union run
    BY <1>1 DEF LinkRowsOK
  <2>2. DOMAIN txns' \subseteq (UNION runsPosted') \ Statements
    BY <1>2, <1>4, <2>1 DEF LinkRowsOK
  <2>3. links' \in [DOMAIN links' -> DOMAIN txns']
    BY <1>1, <1>4 DEF LinkRowsOK
  <2>4. DOMAIN due' = Statements \intersect UNION runsPosted'
    BY <1>6, <2>1 DEF LinkRowsOK
  <2>5. paid' \in [DOMAIN paid' -> PaymentRows']
    <3>1. paid' = [p \in DOMAIN paid' |-> paid'[p]]
      BY <1>1 DEF reconcile_exact_card_payments
    <3> QED
      BY <1>11, <1>13, <3>1 DEF PaymentRows
  <2> QED
    BY <1>1, <1>4, <1>6, <1>9, <1>11, <1>13, <2>1, <2>2, <2>3, <2>4, <2>5 DEF LinkRowsOK
<1>18. SettledOK'
  BY <1>4, <1>6, <1>14 DEF SettledOK, SettledPayment, LinkRowsOK
<1>19. LabelsOK'
  <2> SUFFICES ASSUME NEW s \in DOMAIN due'
               PROVE  due'[s] = reconciliation_status_for_total(Item[s].amount, Total(ConfirmedOf(s, paid)))
    BY <1>16 DEF LabelsOK
  <2>1. CASE s \in DOMAIN due
    BY <1>6, <2>1 DEF LabelsOK
  <2>2. CASE s \notin DOMAIN due
    <3>1. due'[s] = "UNMATCHED"
      BY <1>6, <2>2
    <3>2. ConfirmedOf(s, paid) = {}
      BY <2>2 DEF ConfirmedOf, SettledOK, SettledPayment
    <3>3. Total(ConfirmedOf(s, paid)) = 0
      BY <3>2, TotalIsNat
    <3>4. Item[s].amount \in Nat
      BY <1>7, LinksAssumption DEF Statements, ItemOf
    <3> QED
      BY <3>1, <3>3, <3>4, LabelIsLabel
  <2> QED
    BY <2>1, <2>2
<1>20. ReceiptCountedOnce'
  BY <1>1, <1>2, <1>4 DEF ReceiptCountedOnce
<1> QED
  BY <1>17, <1>18, <1>19, <1>20

LEMMA LinksStep == LinksInv /\ [LinkNext]_linkVars => LinksInv'
<1> SUFFICES ASSUME LinksInv, [LinkNext]_linkVars
             PROVE  LinksInv'
  OBVIOUS
<1>1. CASE \E run \in Runs : commit_import(run)
  BY <1>1, CommitStep
<1>2. CASE \E c \in Receipts : \E t \in DOMAIN txns : confirm(c, t)
  BY <1>2, ConfirmReceiptStep
<1>3. CASE \E s \in Statements, p \in Payments : confirm_card_payment_link(s, p)
  BY <1>3, ConfirmPaymentStep
<1>4. CASE \E s \in Statements, p \in Payments : unlink_card_payment_link(s, p)
  BY <1>4, UnlinkPaymentStep
<1>5. CASE \E t \in DOMAIN txns, facts \in Edited : update_posted_transaction(t, facts)
  BY <1>5, EditTransactionStep
<1>6. CASE UNCHANGED linkVars
  BY <1>6 DEF linkVars, LinksInv, LinkRowsOK, PaymentRows, SettledOK, SettledPayment, LabelsOK,
              ReceiptCountedOnce
<1> QED
  BY <1>1, <1>2, <1>3, <1>4, <1>5, <1>6 DEF LinkNext

LEMMA LinksInvariant == LinkSpec => []LinksInv
<1> QED
  BY LinksStart, LinksStep, PTL DEF LinkSpec

\* Types of the receipt links, statements and payments, with the constraints of
\* their tables.
THEOREM LinkTypesCorrect == LinkSpec => []LinkTypeOK
<1> QED
  BY LinksInvariant, LinksInvSays, PTL

\* Whatever is imported, confirmed, unlinked and edited, in any order, a backup of
\* the settlements passes the validation of a restore, and a receipt is counted once.
THEOREM LinksAreConsistent == LinkSpec => []LinksConsistent
<1>1. LinksInv => LinksConsistent
  BY LinksInvSays DEF LinksConsistent
<1> QED
  BY <1>1, LinksInvariant, PTL

-----------------------------------------------------------------------------
(* The inductive invariant of the browser vault *)

Candidates == [PwaReceipts -> {Absent, "CANDIDATE", "POSTED"}]
Rows ==
  [events : Seq(Batch), revision : Nat, eventSequence : Nat, candidate : Candidates,
   transactions : [PwaReceipts -> Nat]]
Archives ==
  [events : Seq(Batch), revision : Nat, eventSequence : Nat, candidate : Candidates,
   transactions : [PwaReceipts -> Nat], evidence : SUBSET PwaReceipts]
Changes ==
  [step : {"idle", "staging", "staged", "approved", "read", "restoring"},
   receipt : PwaReceipts \union {Absent}, expectedRevision : Nat]
Sessions(vaults) ==
  [session : {"locked", "unlocked"}, vault : vaults, change : Changes, posting : BOOLEAN,
   restoring : SUBSET Archives]
Exports ==
  [step : {"idle", "sources", "events", "projections"}, tab : Tabs \union {Absent},
   vault : DOMAIN store, sources : SUBSET PwaReceipts, events : Seq(Batch), candidate : Candidates,
   transactions : [PwaReceipts -> Nat]]

PwaRowsOK ==
  /\ store \in [DOMAIN store -> Rows]
  /\ \E n \in 1 .. MaxVaults : DOMAIN store = 1 .. n
  /\ activeVault \in DOMAIN store
  /\ envelopes \subseteq VaultIds \X PwaReceipts \X {"OPFS", "INDEXED_DB"}
  /\ tab \in [Tabs -> Sessions(DOMAIN store)]
  /\ exporter \in Exports
  /\ archives \subseteq Archives

\* Rows whose counters and projections are those of their events.
Sound(rows) ==
  /\ rows.revision = Len(rows.events) /\ rows.eventSequence = Len(rows.events)
  /\ Projected(rows)

\* What an export has read is of one moment, or its events have become fewer than
\* those of the vault, which the counters read last will tell.
ExportOK ==
  LET rows == store[exporter.vault]
  IN  /\ exporter.step \in {"events", "projections"} =>
           /\ Len(exporter.events) <= Len(rows.events)
           /\ Len(exporter.events) = Len(rows.events) => exporter.events = rows.events
      /\ exporter.step = "projections" /\ Len(exporter.events) = Len(rows.events) =>
           exporter.candidate = rows.candidate /\ exporter.transactions = rows.transactions

ArchiveOK(a) == validateEventSequence(a) => Sound(a)

TabOK(t) ==
  /\ tab[t].change.step \in {"staging", "staged", "approved", "read"} =>
       tab[t].change.receipt \in PwaReceipts
  /\ \A a \in tab[t].restoring : validateEventSequence(a) /\ ArchiveOK(a)

PwaInv ==
  /\ PwaRowsOK /\ ExportOK
  /\ \A v \in DOMAIN store : Sound(store[v])
  /\ \A a \in archives : ArchiveOK(a)
  /\ \A t \in Tabs : TabOK(t)

-----------------------------------------------------------------------------
(* The browser vault: appending *)

LEMMA LastOne ==
  ASSUME NEW n \in Nat, NEW S \in SUBSET (1 .. n)
  PROVE  Max(S \union {n + 1}) = n + 1
<1>1. \A x \in S \union {n + 1} : x <= n + 1 /\ (x >= n + 1 => x = n + 1)
  OBVIOUS
<1>2. \E x \in S \union {n + 1} : \A y \in S \union {n + 1} : x >= y
  BY <1>1
<1>3. /\ Max(S \union {n + 1}) \in S \union {n + 1}
      /\ \A y \in S \union {n + 1} : Max(S \union {n + 1}) >= y
  BY <1>2 DEF Max
<1> QED
  BY <1>1, <1>3

LEMMA MaxIsOne ==
  ASSUME NEW n \in Nat, NEW S \in SUBSET (1 .. n), S # {}
  PROVE  Max(S) \in S /\ \A y \in S : Max(S) >= y
<1>1. S \in SUBSET (0 .. n)
  OBVIOUS
<1>2. PICK x \in S : \A y \in S : y <= x
  BY <1>1, GreatestNumber
<1>3. \E z \in S : \A y \in S : z >= y
  BY <1>2
<1> QED
  BY <1>3 DEF Max

LEMMA AppendedIsSound ==
  ASSUME NEW rows \in Rows, Sound(rows), NEW batch \in Batch
  PROVE  appended(rows, batch) \in Rows /\ Sound(appended(rows, batch))
         /\ Len(appended(rows, batch).events) = Len(rows.events) + 1
<1> DEFINE new == appended(rows, batch)
           n == Len(rows.events)
           posted(rs, r) == {i \in BatchesOf(rs, r) : rs.events[i].type = "POSTED"}
<1>1. /\ batch.type \in {"STAGED", "POSTED"} /\ batch.receipt \in PwaReceipts
      /\ n \in Nat /\ rows.events \in Seq(Batch) /\ rows.candidate \in Candidates
      /\ rows.transactions \in [PwaReceipts -> Nat]
      /\ rows.revision \in Nat /\ rows.eventSequence \in Nat
  BY DEF Batch, Rows
<1>2. /\ new.events = Append(rows.events, batch)
      /\ new.revision = rows.revision + 1 /\ new.eventSequence = rows.eventSequence + 1
      /\ new.candidate = [rows.candidate EXCEPT ![batch.receipt] =
                            IF batch.type = "STAGED" THEN "CANDIDATE" ELSE "POSTED"]
      /\ new.transactions = [rows.transactions EXCEPT ![batch.receipt] =
                               IF batch.type = "STAGED" THEN @ ELSE @ + 1]
      /\ new \in Rows
  <2> DEFINE marked == [rows.candidate EXCEPT ![batch.receipt] =
                          IF batch.type = "STAGED" THEN "CANDIDATE" ELSE "POSTED"]
             counted == [rows.transactions EXCEPT ![batch.receipt] =
                           IF batch.type = "STAGED" THEN @ ELSE @ + 1]
  <2>1. rows = [events |-> rows.events, revision |-> rows.revision,
                eventSequence |-> rows.eventSequence, candidate |-> rows.candidate,
                transactions |-> rows.transactions]
    BY DEF Rows
  <2>2. project(rows, batch) = [[rows EXCEPT !.candidate = marked] EXCEPT !.transactions = counted]
    BY <2>1, Zenon DEF project
  <2> HIDE DEF marked, counted
  <2>3. project(rows, batch) =
          [events |-> rows.events, revision |-> rows.revision,
           eventSequence |-> rows.eventSequence, candidate |-> marked, transactions |-> counted]
    <3> HIDE DEF new
    <3> QED
      BY <2>2 DEF Rows
  <2>8. new = [events |-> Append(rows.events, batch), revision |-> rows.revision + 1,
               eventSequence |-> rows.eventSequence + 1, candidate |-> marked,
               transactions |-> counted]
    <3> DEFINE projected == project(rows, batch)
    <3>1. new = [projected EXCEPT !.events = Append(@, batch), !.revision = @ + 1,
                                  !.eventSequence = @ + 1]
      BY Zenon DEF appended
    <3> HIDE DEF new, projected
    <3>2. projected =
            [events |-> rows.events, revision |-> rows.revision,
             eventSequence |-> rows.eventSequence, candidate |-> marked, transactions |-> counted]
      BY <2>3, Zenon DEF projected
    <3> QED
      BY <3>1, <3>2
  <2> USE DEF marked, counted
  <2>4. marked \in Candidates
    BY <1>1 DEF Candidates
  <2>5. counted \in [PwaReceipts -> Nat]
    BY <1>1
  <2>6. Append(rows.events, batch) \in Seq(Batch)
    BY <1>1, AppendProperties
  <2>7. new \in Rows
    <3> HIDE DEF marked, counted, new
    <3> QED
      BY <1>1, <2>8, <2>4, <2>5, <2>6 DEF Rows
  <2> QED
    <3> HIDE DEF new
    <3> QED
      BY <2>8, <2>7
<1>3. /\ Len(new.events) = n + 1 /\ DOMAIN new.events = 1 .. n + 1 /\ DOMAIN rows.events = 1 .. n
      /\ new.events[n + 1] = batch /\ \A i \in 1 .. n : new.events[i] = rows.events[i]
  BY <1>1, <1>2
<1> HIDE DEF new, n
<1>4. ASSUME NEW r \in PwaReceipts, r # batch.receipt
      PROVE  BatchesOf(new, r) = BatchesOf(rows, r) /\ posted(new, r) = posted(rows, r)
  BY <1>1, <1>3, <1>4 DEF BatchesOf
<1>5. /\ BatchesOf(new, batch.receipt) = BatchesOf(rows, batch.receipt) \union {n + 1}
      /\ BatchesOf(rows, batch.receipt) \in SUBSET (1 .. n)
      /\ posted(new, batch.receipt) =
           posted(rows, batch.receipt) \union (IF batch.type = "POSTED" THEN {n + 1} ELSE {})
      /\ posted(rows, batch.receipt) \in SUBSET (1 .. n)
  BY <1>1, <1>3 DEF BatchesOf
<1>6. Max(BatchesOf(new, batch.receipt)) = n + 1
  BY <1>1, <1>5, LastOne
<1>7. Cardinality(posted(new, batch.receipt)) =
        Cardinality(posted(rows, batch.receipt)) + (IF batch.type = "POSTED" THEN 1 ELSE 0)
  <2>1. IsFiniteSet(posted(rows, batch.receipt)) /\ n + 1 \notin posted(rows, batch.receipt)
    <3>1. IsFiniteSet(1 .. n)
      BY <1>1, FS_Interval
    <3>2. IsFiniteSet(posted(rows, batch.receipt))
      BY <1>5, <3>1, FS_Subset
    <3> QED
      BY <1>1, <1>5, <3>2
  <2>2. Cardinality(posted(rows, batch.receipt)) \in Nat
    BY <2>1, FS_CardinalityType
  <2> HIDE DEF posted
  <2>3. CASE batch.type = "POSTED"
    BY <1>5, <2>1, <2>2, <2>3, FS_AddElement
  <2>4. CASE batch.type # "POSTED"
    BY <1>5, <2>2, <2>4
  <2> QED
    BY <2>3, <2>4
<1>8. ASSUME NEW r \in PwaReceipts
      PROVE  /\ new.transactions[r] = Cardinality(posted(new, r))
             /\ new.candidate[r] =
                  IF BatchesOf(new, r) = {} THEN Absent
                  ELSE IF new.events[Max(BatchesOf(new, r))].type = "STAGED"
                       THEN "CANDIDATE" ELSE "POSTED"
  <2>1. /\ rows.transactions[r] = Cardinality(posted(rows, r))
        /\ rows.candidate[r] =
             IF BatchesOf(rows, r) = {} THEN Absent
             ELSE IF rows.events[Max(BatchesOf(rows, r))].type = "STAGED"
                  THEN "CANDIDATE" ELSE "POSTED"
    BY DEF Sound, Projected
  <2>2. CASE r # batch.receipt
    <3>1. new.transactions[r] = rows.transactions[r] /\ new.candidate[r] = rows.candidate[r]
      BY <1>1, <1>2, <2>2 DEF Candidates
    <3>2. BatchesOf(rows, r) # {} => Max(BatchesOf(rows, r)) \in 1 .. n
      <4>1. BatchesOf(rows, r) \subseteq 1 .. n
        BY <1>3 DEF BatchesOf
      <4> QED
        BY <1>1, <4>1, MaxIsOne
    <3> QED
      BY <1>3, <1>4, <2>1, <2>2, <3>1, <3>2
  <2>3. CASE r = batch.receipt
    <3>1. new.candidate[r] = IF batch.type = "STAGED" THEN "CANDIDATE" ELSE "POSTED"
      BY <1>1, <1>2, <2>3 DEF Candidates
    <3>2. new.transactions[r] =
            IF batch.type = "STAGED" THEN rows.transactions[r] ELSE rows.transactions[r] + 1
      BY <1>1, <1>2, <2>3
    <3>3. rows.transactions[r] \in Nat
      BY <1>1
    <3> HIDE DEF posted
    <3>4. new.transactions[r] = Cardinality(posted(new, r))
      BY <1>1, <1>7, <2>1, <2>3, <3>2, <3>3
    <3>5. BatchesOf(new, r) # {} /\ new.events[Max(BatchesOf(new, r))] = batch
      BY <1>3, <1>5, <1>6, <2>3
    <3> QED
      BY <3>1, <3>4, <3>5
  <2> QED
    BY <2>2, <2>3
<1>9. Projected(new)
  BY <1>8 DEF Projected
<1> QED
  BY <1>1, <1>2, <1>3, <1>9 DEF Sound, new, n

-----------------------------------------------------------------------------
(* The browser vault: sessions and export *)

\* What a step makes of a session is a session that keeps the invariant.
SessionOK(vaults, s) ==
  /\ s \in Sessions(vaults)
  /\ s.change.step \in {"staging", "staged", "approved", "read"} => s.change.receipt \in PwaReceipts
  /\ \A a \in s.restoring : validateEventSequence(a) /\ ArchiveOK(a)

LEMMA IdleChange == Idle \in Changes
BY DEF Idle, Changes

LEMMA SessionsOK ==
  ASSUME PwaInv, NEW t \in Tabs
  PROVE  SessionOK(DOMAIN store, tab[t])
BY DEF PwaInv, PwaRowsOK, SessionOK, TabOK

LEMMA NoExport ==
  ASSUME PwaRowsOK
  PROVE  NotExporting \in Exports
<1>1. EmptyVault.candidate \in Candidates /\ EmptyVault.transactions \in [PwaReceipts -> Nat]
  BY DEF EmptyVault, Candidates
<1>2. 1 \in DOMAIN store
  BY PwaAssumption DEF PwaRowsOK
<1>3. << >> \in Seq(Batch)
  OBVIOUS
<1> QED
  BY <1>1, <1>2, <1>3 DEF NotExporting, Exports

\* A step of tab t that leaves the store alone.
LEMMA SessionStep ==
  ASSUME PwaInv, NEW t \in Tabs, NEW s, SessionOK(DOMAIN store, s), tab' = [tab EXCEPT ![t] = s],
         UNCHANGED <<store, activeVault, archives>>,
         envelopes' \subseteq VaultIds \X PwaReceipts \X {"OPFS", "INDEXED_DB"},
         exporter' \in {exporter, NotExporting}
  PROVE  PwaInv'
<1>1. Exports' = Exports
  BY DEF Exports
<1>2. tab \in [Tabs -> Sessions(DOMAIN store)] /\ s \in Sessions(DOMAIN store)
  BY DEF PwaInv, PwaRowsOK, SessionOK
<1>3. PwaRowsOK'
  <2>1. tab' \in [Tabs -> Sessions(DOMAIN store)]
    BY <1>2
  <2>2. exporter' \in Exports
    BY NoExport DEF PwaInv, PwaRowsOK
  <2> QED
    BY <1>1, <2>1, <2>2 DEF PwaInv, PwaRowsOK
<1>4. ExportOK'
  BY DEF PwaInv, ExportOK, NotExporting
<1>5. \A u \in Tabs : TabOK(u)'
  <2>1. ASSUME NEW u \in Tabs
        PROVE  TabOK(u)'
    <3>1. tab'[u] = IF u = t THEN s ELSE tab[u]
      BY <1>2
    <3>2. SessionOK(DOMAIN store, tab'[u])
      BY <3>1, SessionsOK
    <3> QED
      BY <3>2 DEF SessionOK, TabOK
  <2> QED
    BY <2>1
<1> QED
  BY <1>3, <1>4, <1>5 DEF PwaInv

LEMMA StageStep ==
  ASSUME PwaInv, NEW t \in Tabs, NEW r \in PwaReceipts,
         stageReceipt(t, r) \/ approveCandidate(t, r)
  PROVE  PwaInv'
<1>1. PICK step \in {"staging", "approved"} :
        tab' = [tab EXCEPT ![t].change = [step |-> step, receipt |-> r, expectedRevision |-> 0]]
  BY Zenon DEF stageReceipt, approveCandidate
<1> DEFINE s == [tab[t] EXCEPT !.change = [step |-> step, receipt |-> r, expectedRevision |-> 0]]
<1>2. [step |-> step, receipt |-> r, expectedRevision |-> 0] \in Changes
  BY DEF Changes
<1>3. SessionOK(DOMAIN store, s)
  BY <1>2, SessionsOK DEF SessionOK, Sessions
<1>4. tab' = [tab EXCEPT ![t] = s]
  BY <1>1, Zenon
<1> HIDE DEF s
<1>5. /\ UNCHANGED <<store, activeVault, archives>> /\ envelopes' = envelopes
      /\ exporter' = exporter
  BY DEF stageReceipt, approveCandidate
<1>6. envelopes \subseteq VaultIds \X PwaReceipts \X {"OPFS", "INDEXED_DB"}
  BY DEF PwaInv, PwaRowsOK
<1> QED
  BY <1>3, <1>4, <1>5, <1>6, SessionStep

LEMMA PutStep ==
  ASSUME PwaInv, NEW t \in Tabs, NEW b \in {"OPFS", "INDEXED_DB"}, putEvidence(t, b)
  PROVE  PwaInv'
<1> DEFINE s == [tab[t] EXCEPT !.change.step = "staged"]
<1>1. tab[t].change \in Changes /\ tab[t].change.receipt \in PwaReceipts
      /\ tab[t].vault \in DOMAIN store /\ DOMAIN store \subseteq VaultIds
  <2>1. tab[t] \in Sessions(DOMAIN store) /\ tab[t].change.receipt \in PwaReceipts
    BY SessionsOK DEF SessionOK, putEvidence
  <2>2. DOMAIN store \subseteq VaultIds
    BY PwaAssumption DEF PwaInv, PwaRowsOK, VaultIds
  <2> QED
    BY <2>1, <2>2 DEF Sessions
<1>2. [tab[t].change EXCEPT !.step = "staged"] \in Changes
  BY <1>1 DEF Changes
<1>3. SessionOK(DOMAIN store, s)
  <2>1. s = [tab[t] EXCEPT !.change = [tab[t].change EXCEPT !.step = "staged"]]
    BY Zenon
  <2>2. s.change = [tab[t].change EXCEPT !.step = "staged"]
    BY <2>1, SessionsOK DEF SessionOK, Sessions
  <2>3. s.change.receipt = tab[t].change.receipt
    BY <2>2, <1>1 DEF Changes
  <2> HIDE DEF s
  <2> QED
    BY <1>1, <1>2, <2>1, <2>2, <2>3, SessionsOK DEF SessionOK, Sessions
<1>4. tab' = [tab EXCEPT ![t] = s]
  BY Zenon DEF putEvidence, advance
<1> HIDE DEF s
<1>5. envelopes' \subseteq VaultIds \X PwaReceipts \X {"OPFS", "INDEXED_DB"}
  <2>1. <<tab[t].vault, tab[t].change.receipt, b>> \in VaultIds \X PwaReceipts \X {"OPFS", "INDEXED_DB"}
    BY <1>1
  <2> QED
    BY <2>1 DEF putEvidence, PwaInv, PwaRowsOK
<1>6. UNCHANGED <<store, activeVault, archives>> /\ exporter' = exporter
  BY DEF putEvidence
<1> QED
  BY <1>3, <1>4, <1>5, <1>6, SessionStep

LEMMA ReadStep ==
  ASSUME PwaInv, NEW t \in Tabs, appendDomainChange(t)
  PROVE  PwaInv'
<1> DEFINE change == [tab[t].change EXCEPT !.step = "read",
                                           !.expectedRevision = store[tab[t].vault].revision]
           posting == tab[t].change.step = "approved"
           s == [[tab[t] EXCEPT !.change = change] EXCEPT !.posting = posting]
<1>1. /\ tab[t] \in Sessions(DOMAIN store) /\ tab[t].change \in Changes
      /\ tab[t].change.receipt \in PwaReceipts /\ store[tab[t].vault].revision \in Nat
  BY SessionsOK DEF SessionOK, Sessions, appendDomainChange, PwaInv, PwaRowsOK, Rows
<1>2. change \in Changes /\ change.receipt = tab[t].change.receipt
  BY <1>1 DEF Changes
<1>3. SessionOK(DOMAIN store, s)
  <2> HIDE DEF change
  <2>1. s.change = change /\ s \in Sessions(DOMAIN store) /\ s.restoring = tab[t].restoring
    BY <1>1, <1>2 DEF Sessions
  <2> HIDE DEF s
  <2> QED
    BY <1>1, <1>2, <2>1, SessionsOK DEF SessionOK
<1>4. tab' = [tab EXCEPT ![t] = s]
  BY Zenon DEF appendDomainChange
<1> HIDE DEF s
<1>5. UNCHANGED <<store, activeVault, archives, envelopes, exporter>>
  BY DEF appendDomainChange
<1>6. envelopes \subseteq VaultIds \X PwaReceipts \X {"OPFS", "INDEXED_DB"}
  BY DEF PwaInv, PwaRowsOK
<1> QED
  BY <1>3, <1>4, <1>5, <1>6, SessionStep

LEMMA RestoreArchiveStep ==
  ASSUME PwaInv, NEW t \in Tabs, restorePwaArchive(t)
  PROVE  PwaInv'
<1>1. PICK a \in archives :
        /\ validateEventSequence(a)
        /\ tab' = [tab EXCEPT ![t].change.step = "restoring", ![t].restoring = {a}]
  BY Zenon DEF restorePwaArchive
<1> DEFINE change == [tab[t].change EXCEPT !.step = "restoring"]
           s == [[tab[t] EXCEPT !.change = change] EXCEPT !.restoring = {a}]
<1>2. tab[t] \in Sessions(DOMAIN store) /\ tab[t].change \in Changes /\ a \in Archives /\ ArchiveOK(a)
  BY SessionsOK DEF SessionOK, Sessions, PwaInv, PwaRowsOK
<1>3. change \in Changes /\ change.step = "restoring"
  BY <1>2 DEF Changes
<1>4. SessionOK(DOMAIN store, s)
  <2> HIDE DEF change
  <2>1. s.change = change /\ s \in Sessions(DOMAIN store) /\ s.restoring = {a}
    BY <1>2, <1>3 DEF Sessions
  <2> HIDE DEF s
  <2> QED
    BY <1>1, <1>2, <1>3, <2>1 DEF SessionOK
<1>5. tab' = [tab EXCEPT ![t] = s]
  BY <1>1, Zenon
<1> HIDE DEF s
<1>6. UNCHANGED <<store, activeVault, archives, envelopes, exporter>>
  BY DEF restorePwaArchive
<1>7. envelopes \subseteq VaultIds \X PwaReceipts \X {"OPFS", "INDEXED_DB"}
  BY DEF PwaInv, PwaRowsOK
<1> QED
  BY <1>4, <1>5, <1>6, <1>7, SessionStep

LEMMA RestoreFailsStep ==
  ASSUME PwaInv, NEW t \in Tabs, restoreFails(t)
  PROVE  PwaInv'
<1> DEFINE s == [[tab[t] EXCEPT !.change = Idle] EXCEPT !.restoring = {}]
<1>1. tab[t] \in Sessions(DOMAIN store)
  BY SessionsOK DEF SessionOK
<1>2. SessionOK(DOMAIN store, s)
  <2>1. s.change = Idle /\ s \in Sessions(DOMAIN store) /\ s.restoring = {}
    BY <1>1, IdleChange DEF Sessions
  <2> HIDE DEF s
  <2> QED
    BY <2>1 DEF SessionOK, Idle
<1>3. tab' = [tab EXCEPT ![t] = s]
  BY Zenon DEF restoreFails
<1> HIDE DEF s
<1>4. UNCHANGED <<store, activeVault, archives, envelopes, exporter>>
  BY DEF restoreFails
<1>5. envelopes \subseteq VaultIds \X PwaReceipts \X {"OPFS", "INDEXED_DB"}
  BY DEF PwaInv, PwaRowsOK
<1> QED
  BY <1>2, <1>3, <1>4, <1>5, SessionStep

LEMMA UnlockStep ==
  ASSUME PwaInv, NEW t \in Tabs, unlockVault(t)
  PROVE  PwaInv'
<1> DEFINE s == [[tab[t] EXCEPT !.session = "unlocked"] EXCEPT !.vault = activeVault]
<1>1. tab[t] \in Sessions(DOMAIN store) /\ activeVault \in DOMAIN store
  BY SessionsOK DEF SessionOK, PwaInv, PwaRowsOK
<1>2. SessionOK(DOMAIN store, s)
  <2>1. s.change = tab[t].change /\ s \in Sessions(DOMAIN store) /\ s.restoring = tab[t].restoring
    BY <1>1 DEF Sessions
  <2> HIDE DEF s
  <2> QED
    BY <2>1, SessionsOK DEF SessionOK
<1>3. tab' = [tab EXCEPT ![t] = s]
  BY Zenon DEF unlockVault
<1> HIDE DEF s
<1>4. UNCHANGED <<store, activeVault, archives, envelopes, exporter>>
  BY DEF unlockVault
<1>5. envelopes \subseteq VaultIds \X PwaReceipts \X {"OPFS", "INDEXED_DB"}
  BY DEF PwaInv, PwaRowsOK
<1> QED
  BY <1>2, <1>3, <1>4, <1>5, SessionStep

LEMMA LockStep ==
  ASSUME PwaInv, NEW t \in Tabs, lockVault(t)
  PROVE  PwaInv'
<1> DEFINE change == IF tab[t].change.step = "restoring" THEN tab[t].change ELSE Idle
           s == [[[tab[t] EXCEPT !.session = "locked"] EXCEPT !.posting = FALSE]
                   EXCEPT !.change = change]
<1>1. tab[t] \in Sessions(DOMAIN store) /\ change \in Changes
  BY SessionsOK, IdleChange DEF SessionOK, Sessions
<1>2. SessionOK(DOMAIN store, s)
  <2>1. change.step \notin {"staging", "staged", "approved", "read"}
    BY DEF Idle
  <2> HIDE DEF change
  <2>2. s.change = change /\ s \in Sessions(DOMAIN store) /\ s.restoring = tab[t].restoring
    BY <1>1 DEF Sessions
  <2> HIDE DEF s
  <2> QED
    BY <2>1, <2>2, SessionsOK DEF SessionOK
<1>3. tab' = [tab EXCEPT ![t] = s]
  <2>1. tab' = [tab EXCEPT ![t].session = "locked", ![t].posting = FALSE,
                           ![t].change = IF @.step = "restoring" THEN @ ELSE Idle]
    BY Zenon DEF lockVault
  <2>2. tab \in [Tabs -> Sessions(DOMAIN store)]
    BY DEF PwaInv, PwaRowsOK
  <2> QED
    BY <2>1, <2>2 DEF Sessions
<1> HIDE DEF s
<1>4. UNCHANGED <<store, activeVault, archives, envelopes>> /\ exporter' \in {exporter, NotExporting}
  BY DEF lockVault
<1>5. envelopes \subseteq VaultIds \X PwaReceipts \X {"OPFS", "INDEXED_DB"}
  BY DEF PwaInv, PwaRowsOK
<1> QED
  BY <1>2, <1>3, <1>4, <1>5, SessionStep

\* A step of the export alone.
LEMMA Unmoved ==
  ASSUME PwaInv, UNCHANGED <<store, envelopes, activeVault, tab, archives>>,
         exporter' \in Exports, ExportOK'
  PROVE  PwaInv'
BY DEF PwaInv, PwaRowsOK, Sessions, Exports, TabOK

LEMMA ListStep ==
  ASSUME PwaInv, NEW t \in Tabs, listSources(t)
  PROVE  PwaInv'
<1>1. tab[t].vault \in DOMAIN store /\ Sources(tab[t].vault) \subseteq PwaReceipts
  BY SessionsOK DEF SessionOK, Sessions, Sources
<1>2. NotExporting \in Exports
  BY NoExport DEF PwaInv
<1>3. exporter' \in Exports /\ exporter'.step = "sources"
  BY <1>1, <1>2 DEF listSources, Exports
<1>4. UNCHANGED <<store, envelopes, activeVault, tab, archives>>
  BY DEF listSources
<1> QED
  BY <1>3, <1>4, Unmoved DEF ExportOK

LEMMA ReadEventsStep ==
  ASSUME PwaInv, NEW t \in Tabs, readEvents(t)
  PROVE  PwaInv'
<1>1. exporter \in Exports /\ store[exporter.vault].events \in Seq(Batch)
  BY DEF PwaInv, PwaRowsOK, Exports, Rows
<1>2. /\ exporter' = [exporter EXCEPT !.step = "events", !.events = store[exporter.vault].events]
      /\ UNCHANGED <<store, envelopes, activeVault, tab, archives>>
  BY DEF readEvents, reads
<1>3. /\ exporter' \in Exports /\ exporter'.step = "events" /\ exporter'.vault = exporter.vault
      /\ exporter'.events = store[exporter.vault].events
  BY <1>1, <1>2 DEF Exports
<1>4. Len(store[exporter.vault].events) \in Nat
  BY <1>1
<1> QED
  BY <1>2, <1>3, <1>4, Unmoved DEF ExportOK

LEMMA ReadProjectionsStep ==
  ASSUME PwaInv, NEW t \in Tabs, readProjections(t)
  PROVE  PwaInv'
<1> DEFINE rows == store[exporter.vault]
<1>1. /\ exporter \in Exports /\ rows.candidate \in Candidates
      /\ rows.transactions \in [PwaReceipts -> Nat]
  BY DEF PwaInv, PwaRowsOK, Exports, Rows
<1>2. /\ exporter' = [exporter EXCEPT !.step = "projections", !.candidate = rows.candidate,
                                      !.transactions = rows.transactions]
      /\ UNCHANGED <<store, envelopes, activeVault, tab, archives>> /\ exporter.step = "events"
  BY DEF readProjections, reads
<1> HIDE DEF rows
<1>3. /\ exporter' \in Exports /\ exporter'.step = "projections" /\ exporter'.vault = exporter.vault
      /\ exporter'.events = exporter.events /\ exporter'.candidate = rows.candidate
      /\ exporter'.transactions = rows.transactions
  BY <1>1, <1>2 DEF Exports
<1>4. /\ Len(exporter.events) <= Len(rows.events)
      /\ Len(exporter.events) = Len(rows.events) => exporter.events = rows.events
  BY <1>2 DEF PwaInv, ExportOK, rows
<1> QED
  BY <1>2, <1>3, <1>4, Unmoved DEF rows, ExportOK

LEMMA ArchiveStep ==
  ASSUME PwaInv, NEW t \in Tabs, createPwaArchive(t)
  PROVE  PwaInv'
<1> DEFINE v == exporter.vault
           rows == store[v]
           stored == {r \in PwaReceipts : <<v, r, "INDEXED_DB">> \in envelopes}
           a == [events |-> exporter.events, candidate |-> exporter.candidate,
                 transactions |-> exporter.transactions, revision |-> rows.revision,
                 eventSequence |-> rows.eventSequence,
                 evidence |-> stored \union exporter.sources]
<1>1. exporter \in Exports /\ v \in DOMAIN store /\ rows \in Rows /\ Sound(rows)
  BY DEF PwaInv, PwaRowsOK, Exports
<1>2. /\ archives' = {a} /\ exporter' = NotExporting /\ exporter.step = "projections"
      /\ UNCHANGED <<store, envelopes, activeVault, tab>>
  BY DEF createPwaArchive
<1>3. stored \subseteq PwaReceipts
  OBVIOUS
<1>4. /\ Len(exporter.events) <= Len(rows.events)
      /\ Len(exporter.events) = Len(rows.events) =>
           /\ exporter.events = rows.events /\ exporter.candidate = rows.candidate
           /\ exporter.transactions = rows.transactions
  BY <1>2 DEF PwaInv, ExportOK
<1> HIDE DEF stored, rows
<1>5. a \in Archives
  BY <1>1, <1>3 DEF Exports, Rows, Archives
<1>6. ArchiveOK(a)
  <2>1. SUFFICES ASSUME Len(exporter.events) = rows.eventSequence
                 PROVE  Sound(a)
    BY DEF ArchiveOK, validateEventSequence
  <2>2. /\ a.events = rows.events /\ a.candidate = rows.candidate
        /\ a.transactions = rows.transactions /\ a.revision = rows.revision
        /\ a.eventSequence = rows.eventSequence
    BY <1>1, <1>4, <2>1 DEF Sound
  <2> HIDE DEF a
  <2> QED
    <3>1. \A r \in PwaReceipts : BatchesOf(a, r) = BatchesOf(rows, r)
      BY <2>2, Zenon DEF BatchesOf
    <3> QED
      BY <1>1, <2>2, <3>1 DEF Sound, Projected
<1> HIDE DEF a
<1>7. NotExporting \in Exports /\ NotExporting.step = "idle"
  BY NoExport DEF PwaInv, NotExporting
<1>8. PwaRowsOK' /\ ExportOK'
  BY <1>2, <1>5, <1>7 DEF PwaInv, PwaRowsOK, Sessions, Exports, ExportOK
<1>9. \A b \in archives' : ArchiveOK(b)
  BY <1>2, <1>6
<1>10. \A u \in Tabs : TabOK(u)'
  BY <1>2 DEF PwaInv, TabOK
<1> QED
  BY <1>2, <1>8, <1>9, <1>10 DEF PwaInv

-----------------------------------------------------------------------------
(* The browser vault: the store *)

LEMMA OneTo ==
  ASSUME NEW n \in 1 .. MaxVaults
  PROVE  Cardinality(1 .. n) = n
<1>1. n \in Nat /\ n >= 1
  BY PwaAssumption
<1> QED
  BY <1>1, FS_Interval

\* A step of tab t that replaces or adds the rows of vault v.
LEMMA StoreStep ==
  ASSUME PwaInv, NEW t \in Tabs, NEW s, NEW v \in VaultIds, NEW rows \in Rows, Sound(rows),
         v \in DOMAIN store \/ v = Cardinality(DOMAIN store) + 1,
         v \in DOMAIN store => Len(rows.events) > Len(store[v].events),
         store' = [u \in DOMAIN store \union {v} |-> IF u = v THEN rows ELSE store[u]],
         tab' = [tab EXCEPT ![t] = s], SessionOK(DOMAIN store', s),
         activeVault' \in DOMAIN store', archives' = archives,
         envelopes' \subseteq VaultIds \X PwaReceipts \X {"OPFS", "INDEXED_DB"},
         exporter' \in {exporter, NotExporting}
  PROVE  PwaInv'
<1>1. PICK n \in 1 .. MaxVaults : DOMAIN store = 1 .. n
  BY DEF PwaInv, PwaRowsOK
<1>2. Cardinality(DOMAIN store) = n
  BY <1>1, OneTo
<1>3. DOMAIN store' = DOMAIN store \union {v}
  OBVIOUS
<1>4. \E m \in 1 .. MaxVaults : DOMAIN store' = 1 .. m
  <2>1. CASE v \in DOMAIN store
    BY <1>1, <1>3, <2>1
  <2>2. CASE v = n + 1
    <3>1. v \in 1 .. MaxVaults /\ 1 .. n \union {n + 1} = 1 .. n + 1
      BY <1>1, <2>2 DEF VaultIds
    <3> QED
      BY <1>1, <1>3, <2>2, <3>1
  <2> QED
    BY <1>2, <2>1, <2>2
<1>5. store' \in [DOMAIN store' -> Rows] /\ \A u \in DOMAIN store' : Sound(store'[u])
  BY <1>3 DEF PwaInv, PwaRowsOK
<1>6. Sessions(DOMAIN store) \subseteq Sessions(DOMAIN store') /\ Exports \subseteq Exports'
  BY <1>3 DEF Sessions, Exports
<1>7. tab' \in [Tabs -> Sessions(DOMAIN store')] /\ \A u \in Tabs : TabOK(u)'
  <2>1. tab \in [Tabs -> Sessions(DOMAIN store)]
    BY DEF PwaInv, PwaRowsOK
  <2>2. ASSUME NEW u \in Tabs
        PROVE  SessionOK(DOMAIN store', tab'[u])
    <3>1. tab'[u] = IF u = t THEN s ELSE tab[u]
      BY <2>1
    <3>2. CASE u = t
      BY <3>1, <3>2 DEF SessionOK
    <3>3. CASE u # t
      BY <1>6, <3>1, <3>3, SessionsOK DEF SessionOK
    <3> QED
      BY <3>2, <3>3
  <2>3. DOMAIN tab' = Tabs /\ tab' = [u \in Tabs |-> tab'[u]]
    BY <2>1
  <2> QED
    BY <2>2, <2>3 DEF SessionOK, TabOK
<1>8. exporter' \in Exports'
  <2>1. exporter \in Exports /\ NotExporting \in Exports
    BY NoExport DEF PwaInv, PwaRowsOK
  <2> QED
    BY <1>6, <2>1
<1>9. ExportOK'
  <2>1. CASE exporter' = NotExporting
    BY <2>1 DEF ExportOK, NotExporting
  <2>2. CASE exporter' = exporter
    <3> DEFINE w == exporter.vault
    <3>1. w \in DOMAIN store /\ exporter.events \in Seq(Batch)
      BY DEF PwaInv, PwaRowsOK, Exports
    <3>2. store'[w] = IF w = v THEN rows ELSE store[w]
      BY <3>1
    <3>3. /\ Len(exporter.events) \in Nat /\ Len(rows.events) \in Nat
          /\ Len(store[w].events) \in Nat
      <4>1. store[w] \in Rows
        BY <3>1 DEF PwaInv, PwaRowsOK
      <4>2. rows.events \in Seq(Batch) /\ store[w].events \in Seq(Batch)
        BY <4>1 DEF Rows
      <4> QED
        BY <3>1, <4>2, LenProperties
    <3>4. CASE w # v
      BY <2>2, <3>2, <3>4 DEF PwaInv, ExportOK
    <3>5. CASE w = v
      BY <2>2, <3>1, <3>2, <3>3, <3>5 DEF PwaInv, ExportOK
    <3> QED
      BY <3>4, <3>5
  <2> QED
    BY <2>1, <2>2
<1>10. PwaRowsOK'
  BY <1>4, <1>5, <1>7, <1>8 DEF PwaRowsOK, PwaInv
<1>11. \A a \in archives' : ArchiveOK(a)
  BY DEF PwaInv
<1> QED
  BY <1>5, <1>7, <1>9, <1>10, <1>11 DEF PwaInv

LEMMA AppendStep ==
  ASSUME PwaInv, NEW t \in Tabs, commitChange(t)
  PROVE  PwaInv'
<1> DEFINE v == tab[t].vault
           batch == [type |-> IF tab[t].posting THEN "POSTED" ELSE "STAGED",
                     receipt |-> tab[t].change.receipt]
           s == [[tab[t] EXCEPT !.change = Idle] EXCEPT !.posting = FALSE]
<1>1. /\ tab[t] \in Sessions(DOMAIN store) /\ v \in DOMAIN store /\ tab[t].change.step = "read"
      /\ tab[t].change.receipt \in PwaReceipts
  BY SessionsOK DEF SessionOK, Sessions, commitChange, appendPostingAtomically
<1>2. batch \in Batch
  BY <1>1 DEF Batch
<1>3. /\ store' = (IF unmoved(store[v], tab[t].change.expectedRevision)
                   THEN [store EXCEPT ![v] = appended(@, batch)] ELSE store)
      /\ tab' = [tab EXCEPT ![t].change = Idle, ![t].posting = FALSE]
      /\ UNCHANGED <<envelopes, activeVault, exporter, archives>>
  BY Zenon DEF commitChange, appendPostingAtomically
<1>4. s \in Sessions(DOMAIN store) /\ s.change = Idle /\ s.restoring = tab[t].restoring
  BY <1>1, IdleChange DEF Sessions
<1>5. tab' = [tab EXCEPT ![t] = s]
  BY <1>3, Zenon
<1>6. envelopes' \subseteq VaultIds \X PwaReceipts \X {"OPFS", "INDEXED_DB"}
  BY <1>3 DEF PwaInv, PwaRowsOK
<1> HIDE DEF s, batch
<1>7. SessionOK(DOMAIN store, s)
  BY <1>4, SessionsOK DEF SessionOK, Idle
<1>8. CASE store' = store
  BY <1>3, <1>5, <1>6, <1>7, <1>8, SessionStep
<1>9. CASE store' = [store EXCEPT ![v] = appended(@, batch)]
  <2> DEFINE rows == appended(store[v], batch)
  <2>1. store[v] \in Rows /\ Sound(store[v]) /\ v \in VaultIds
    <3>1. DOMAIN store \subseteq VaultIds
      BY PwaAssumption DEF PwaInv, PwaRowsOK, VaultIds
    <3> QED
      BY <1>1, <3>1 DEF PwaInv, PwaRowsOK
  <2>2. rows \in Rows /\ Sound(rows) /\ Len(rows.events) = Len(store[v].events) + 1
    BY <1>2, <2>1, AppendedIsSound
  <2>3. Len(store[v].events) \in Nat
    BY <2>1 DEF Rows
  <2>4. store' = [u \in DOMAIN store \union {v} |-> IF u = v THEN rows ELSE store[u]]
    <3>1. store' = [store EXCEPT ![v] = rows] /\ DOMAIN store \union {v} = DOMAIN store
      BY <1>1, <1>9
    <3>2. store = [u \in DOMAIN store |-> store[u]]
      BY DEF PwaInv, PwaRowsOK
    <3> HIDE DEF rows
    <3> QED
      BY <3>1, <3>2
  <2> HIDE DEF rows, v
  <2>8. Len(rows.events) > Len(store[v].events)
    BY <2>2, <2>3
  <2> USE DEF v
  <2>5. DOMAIN store' = DOMAIN store
    BY <1>9
  <2>6. activeVault' \in DOMAIN store' /\ SessionOK(DOMAIN store', s)
    BY <1>3, <1>7, <2>5 DEF PwaInv, PwaRowsOK
  <2> QED
    <3>1. v \in DOMAIN store
      BY <1>1
    <3>2. exporter' \in {exporter, NotExporting} /\ archives' = archives
      BY <1>3
    <3> HIDE DEF v
    <3> QED
      BY <1>5, <1>6, <2>1, <2>2, <2>4, <2>6, <2>8, <3>1, <3>2, StoreStep
<1> QED
  BY <1>3, <1>8, <1>9

LEMMA ActivateStep ==
  ASSUME PwaInv, NEW t \in Tabs, activateRestoredVault(t)
  PROVE  PwaInv'
<1> DEFINE v == Cardinality(DOMAIN store) + 1
           vault == IF Unlocked(t) THEN v ELSE tab[t].vault
           s == [[[tab[t] EXCEPT !.change = Idle] EXCEPT !.restoring = {}] EXCEPT !.vault = vault]
<1>1. PICK a \in tab[t].restoring :
        /\ store' = [u \in DOMAIN store \union {v} |-> IF u = v THEN restored(a) ELSE store[u]]
        /\ envelopes' = envelopes \union ({v} \X a.evidence \X {"INDEXED_DB"})
  BY Zenon DEF activateRestoredVault
<1>2. /\ tab[t] \in Sessions(DOMAIN store) /\ a \in Archives
      /\ validateEventSequence(a) /\ ArchiveOK(a)
  <2>1. SessionOK(DOMAIN store, tab[t])
    BY SessionsOK
  <2> QED
    BY <1>1, <2>1 DEF SessionOK, Sessions
<1>3. restored(a) \in Rows /\ Sound(restored(a))
  <2>1. restored(a) \in Rows
    BY <1>2 DEF restored, Archives, Rows
  <2>2. Sound(a)
    BY <1>2 DEF ArchiveOK
  <2>3. /\ restored(a).events = a.events /\ restored(a).candidate = a.candidate
        /\ restored(a).transactions = a.transactions /\ restored(a).revision = a.revision
        /\ restored(a).eventSequence = a.eventSequence
    BY DEF restored
  <2>4. \A r \in PwaReceipts : BatchesOf(restored(a), r) = BatchesOf(a, r)
    BY <2>3, Zenon DEF BatchesOf
  <2> QED
    BY <2>1, <2>2, <2>3, <2>4 DEF Sound, Projected
<1>4. v \in VaultIds /\ v \notin DOMAIN store
  <2>1. PICK n \in 1 .. MaxVaults : DOMAIN store = 1 .. n
    BY DEF PwaInv, PwaRowsOK
  <2>2. Cardinality(DOMAIN store) = n
    BY <2>1, OneTo
  <2>3. v \in VaultIds
    BY DEF activateRestoredVault
  <2> QED
    BY <2>1, <2>2, <2>3
<1>5. /\ tab' = [tab EXCEPT ![t].change = Idle, ![t].restoring = {},
                           ![t].vault = IF Unlocked(t) THEN v ELSE @]
      /\ activeVault' = v /\ archives' = archives /\ exporter' \in {exporter, NotExporting}
  BY DEF activateRestoredVault
<1>6. tab' = [tab EXCEPT ![t] = s]
  <2>1. tab \in [Tabs -> Sessions(DOMAIN store)]
    BY DEF PwaInv, PwaRowsOK
  <2> HIDE DEF v
  <2> QED
    BY <1>5, <2>1 DEF Sessions
<1> HIDE DEF v
<1>7. DOMAIN store' = DOMAIN store \union {v}
  BY <1>1
<1>8. SessionOK(DOMAIN store', s)
  <2>1. vault \in DOMAIN store'
    BY <1>2, <1>7 DEF Sessions
  <2> HIDE DEF vault
  <2>2. s.change = Idle /\ s.restoring = {} /\ s \in Sessions(DOMAIN store')
    BY <1>2, <2>1, IdleChange DEF Sessions
  <2> HIDE DEF s
  <2> QED
    BY <2>2 DEF SessionOK, Idle
<1>9. envelopes' \subseteq VaultIds \X PwaReceipts \X {"OPFS", "INDEXED_DB"}
  <2>1. a.evidence \subseteq PwaReceipts
    BY <1>2 DEF Archives
  <2> QED
    BY <1>1, <1>4, <2>1 DEF PwaInv, PwaRowsOK
<1> HIDE DEF s
<1>10. v = Cardinality(DOMAIN store) + 1 /\ activeVault' \in DOMAIN store'
  BY <1>5, <1>7 DEF v
<1> QED
  BY <1>1, <1>3, <1>4, <1>5, <1>6, <1>8, <1>9, <1>10, StoreStep

-----------------------------------------------------------------------------
(* The browser vault: the invariant *)

LEMMA PwaStart == PwaInit => PwaInv
<1> SUFFICES ASSUME PwaInit PROVE PwaInv
  OBVIOUS
<1>1. /\ DOMAIN store = 1 .. 1 /\ 1 \in 1 .. MaxVaults /\ store[1] = EmptyVault
      /\ \A v \in DOMAIN store : store[v] = EmptyVault
  BY PwaAssumption DEF PwaInit
<1>2. EmptyVault \in Rows
  BY DEF EmptyVault, Rows, Candidates
<1>3. Sound(EmptyVault)
  <2>1. \A r \in PwaReceipts : BatchesOf(EmptyVault, r) = {}
    BY DEF BatchesOf, EmptyVault
  <2>2. \A r \in PwaReceipts :
          Cardinality({i \in BatchesOf(EmptyVault, r) : EmptyVault.events[i].type = "POSTED"}) = 0
    BY <2>1, FS_EmptySet
  <2> QED
    BY <2>1, <2>2 DEF Sound, Projected, EmptyVault
<1>4. store \in [DOMAIN store -> Rows] /\ \A v \in DOMAIN store : Sound(store[v])
  BY <1>1, <1>2, <1>3 DEF PwaInit
<1>5. tab \in [Tabs -> Sessions(DOMAIN store)] /\ \A t \in Tabs : TabOK(t)
  BY <1>1, IdleChange DEF PwaInit, Sessions, TabOK, Idle
<1>6. exporter \in Exports /\ ExportOK
  <2>1. EmptyVault.candidate \in Candidates /\ EmptyVault.transactions \in [PwaReceipts -> Nat]
    BY DEF EmptyVault, Candidates
  <2> QED
    BY <1>1, <2>1 DEF PwaInit, NotExporting, Exports, ExportOK
<1> QED
  BY <1>1, <1>4, <1>5, <1>6 DEF PwaInit, PwaInv, PwaRowsOK

LEMMA PwaStep == PwaInv /\ [PwaNext]_pwaVars => PwaInv'
<1> SUFFICES ASSUME PwaInv, [PwaNext]_pwaVars PROVE PwaInv'
  OBVIOUS
<1>1. CASE UNCHANGED pwaVars
  BY <1>1 DEF pwaVars, PwaInv, PwaRowsOK, Sessions, Exports, ExportOK, TabOK
<1>2. CASE PwaNext
  <2>1. PICK t \in Tabs :
          \/ \E r \in PwaReceipts : stageReceipt(t, r) \/ approveCandidate(t, r)
          \/ \E b \in {"OPFS", "INDEXED_DB"} : putEvidence(t, b)
          \/ appendDomainChange(t) \/ commitChange(t)
          \/ listSources(t) \/ readEvents(t) \/ readProjections(t)
          \/ createPwaArchive(t)
          \/ restorePwaArchive(t) \/ activateRestoredVault(t) \/ restoreFails(t)
          \/ unlockVault(t) \/ lockVault(t)
    BY <1>2 DEF PwaNext
  <2> QED
    BY <2>1, StageStep, PutStep, ReadStep, AppendStep, ListStep, ReadEventsStep,
       ReadProjectionsStep, ArchiveStep, RestoreArchiveStep, ActivateStep, RestoreFailsStep, UnlockStep,
       LockStep
<1> QED
  BY <1>1, <1>2

LEMMA PwaInvariant == PwaSpec => []PwaInv
BY PwaStart, PwaStep, PTL DEF PwaSpec

\* In every vault, also one restored from an archive that was read while another
\* tab was posting, the revision and the sequence count the appends, the active
\* pointer and every session name a vault that exists, and evidence is of the
\* receipts of a vault.
THEOREM PwaTypesCorrect == PwaSpec => []PwaTypeOK
<1>1. PwaInv => PwaTypeOK
  <2> SUFFICES ASSUME PwaInv PROVE PwaTypeOK
    OBVIOUS
  <2>1. DOMAIN store \subseteq VaultIds
    BY PwaAssumption DEF PwaInv, PwaRowsOK, VaultIds
  <2> QED
    BY <2>1 DEF PwaInv, PwaRowsOK, Rows, Candidates, Sessions, Sound, PwaTypeOK
<1> QED
  BY <1>1, PwaInvariant, PTL

\* The projections of every vault are those of its events: an archive whose
\* stores were read between the appends of another tab either is refused by the
\* comparison of its events with the counter read last, or is of one moment.
THEOREM ProjectionsFollowEvents == PwaSpec => []ProjectionsOfEvents
<1>1. PwaInv => ProjectionsOfEvents
  BY DEF PwaInv, Sound, ProjectionsOfEvents
<1> QED
  BY <1>1, PwaInvariant, PTL

-----------------------------------------------------------------------------
(* The validation of postings *)

\* A fold whose steps keep a set of values has its values there.
Keeps(T, V, op) == \A x \in T, v \in V : op[x][v] \in V

LEMMA TypedFold ==
  ASSUME NEW T, IsFiniteSet(T), NEW V, NEW base, base \in V, NEW pick, NEW op,
         Picks(T, pick), Keeps(T, V, op)
  PROVE  \E g : IsFold(base, pick, op, T, g) /\ g \in [SUBSET T -> V]
<1>1. PICK g : IsFold(base, pick, op, T, g)
  BY FoldExists
<1>2. \A s \in SUBSET T : g[s] = Step(base, pick, op, g, s)
  BY <1>1 DEF IsFold
<1> DEFINE Good == {s \in SUBSET T : g[s] \in V}
<1>3. {} \in Good
  BY <1>2 DEF Step
<1>4. ASSUME NEW s \in SUBSET T, s # {} /\ s \ {pick[s]} \in Good
      PROVE  s \in Good
  <2>1. pick[s] \in T /\ g[s \ {pick[s]}] \in V /\ g[s] = op[pick[s]][g[s \ {pick[s]}]]
    BY <1>2, <1>4 DEF Step, Picks
  <2> QED
    BY <2>1 DEF Keeps
<1>5. SUBSET T \subseteq Good
  <2>1. GrowsBy(T, pick, Good)
    BY <1>4 DEF GrowsBy
  <2> HIDE DEF Good
  <2> QED
    BY <1>3, <2>1, FoldInduction
<1>6. g \in [SUBSET T -> V]
  <2>1. g = [s \in SUBSET T |-> g[s]]
    BY <1>1 DEF IsFold
  <2>2. \A s \in SUBSET T : g[s] \in V
    BY <1>5
  <2> QED
    BY <2>1, <2>2
<1> QED
  BY <1>1, <1>6

Accumulators == [total : Int, overflow : BOOLEAN]
NothingAdded == [total |-> 0, overflow |-> FALSE]

Added(side, acc, e) == IF e.side = side /\ e.amount > 0 THEN CheckedAdd(acc, e.amount) ELSE acc
Summed(side, total, e) == IF e.side = side THEN total + e.amount ELSE total

\* The running total of a side as a function of the entries counted so far.
Counts(drafted, side, g) ==
  \A s \in SUBSET DOMAIN drafted :
    g[s] = IF s = {} THEN NothingAdded ELSE Added(side, g[s \ {Max(s)}], drafted[Max(s)])

Sums(drafted, side, g) ==
  \A s \in SUBSET DOMAIN drafted :
    g[s] = IF s = {} THEN 0 ELSE Summed(side, g[s \ {Max(s)}], drafted[Max(s)])

LEMMA LastPicked ==
  ASSUME NEW drafted \in Seq(Entry)
  PROVE  /\ IsFiniteSet(DOMAIN drafted)
         /\ \A s \in SUBSET DOMAIN drafted : s # {} => Max(s) \in s
<1>1. Len(drafted) \in Nat /\ DOMAIN drafted = 1 .. Len(drafted)
  OBVIOUS
<1>2. IsFiniteSet(DOMAIN drafted)
  BY <1>1, FS_Interval
<1>3. ASSUME NEW s \in SUBSET DOMAIN drafted, s # {}
      PROVE  Max(s) \in s
  <2>1. s \in SUBSET (1 .. Len(drafted))
    BY <1>1
  <2> QED
    BY <1>1, <1>3, <2>1, MaxIsOne
<1> QED
  BY <1>2, <1>3

LEMMA EntryTypes ==
  ASSUME NEW drafted \in Seq(Entry), NEW i \in DOMAIN drafted
  PROVE  drafted[i].amount \in Int /\ drafted[i].side \in Sides /\ drafted[i].amount <= MaxAmount
<1>1. drafted[i] \in Entry
  BY ElementOfSeq
<1> QED
  BY <1>1, AmountsAssumption DEF Entry

LEMMA SideIsCounted ==
  ASSUME NEW drafted \in Seq(Entry), NEW side
  PROVE  \E g : Counts(drafted, side, g) /\ SideTotal(drafted, side) = g[DOMAIN drafted]
<1> DEFINE T == DOMAIN drafted
           pick == [s \in SUBSET T |-> Max(s)]
           op == [i \in T |-> [acc \in Accumulators |-> Added(side, acc, drafted[i])]]
           Count(g, s) == IF s = {} THEN NothingAdded
                          ELSE Added(side, g[s \ {Max(s)}], drafted[Max(s)])
           Solves(g) == g = [s \in SUBSET T |-> Count(g, s)]
           iter == CHOOSE g : Solves(g)
<1>1. \A i \in T, acc \in Accumulators : op[i][acc] \in Accumulators
  <2>1. \A i \in T : drafted[i].amount \in Int
    BY EntryTypes
  <2>2. \A i \in T, acc \in Accumulators : Added(side, acc, drafted[i]) \in Accumulators
    <3> SUFFICES ASSUME NEW i \in T, NEW acc \in Accumulators
                 PROVE  Added(side, acc, drafted[i]) \in Accumulators
      OBVIOUS
    <3>1. acc.total \in Int /\ acc.total + drafted[i].amount \in Int
      BY <2>1 DEF Accumulators
    <3>2. CheckedAdd(acc, drafted[i].amount) \in Accumulators
      <4> DEFINE amount == drafted[i].amount
      <4>1. amount \in Int
        BY <2>1
      <4> HIDE DEF amount
      <4>2. CheckedAdd(acc, amount) \in Accumulators
        <5>1. CASE acc.total + amount <= MaxAmount
          <6>1. CheckedAdd(acc, amount) = [acc EXCEPT !.total = acc.total + amount]
            BY <5>1, Zenon DEF CheckedAdd
          <6> QED
            BY <4>1, <6>1 DEF Accumulators
        <5>2. CASE ~(acc.total + amount <= MaxAmount)
          <6>1. CheckedAdd(acc, amount) = [acc EXCEPT !.overflow = TRUE]
            BY <5>2, Zenon DEF CheckedAdd
          <6> QED
            BY <6>1 DEF Accumulators
        <5> QED
          BY <5>1, <5>2
      <4> QED
        BY <4>2 DEF amount
    <3> QED
      BY <3>2 DEF Added
  <2> QED
    BY <2>2
<1>2. IsFiniteSet(T) /\ \A s \in SUBSET T : s # {} => pick[s] \in s
  BY LastPicked
<1>3. NothingAdded \in Accumulators
  BY DEF NothingAdded, Accumulators
<1>4. PICK h : IsFold(NothingAdded, pick, op, T, h) /\ h \in [SUBSET T -> Accumulators]
  <2> HIDE DEF T, pick, op
  <2>1. Picks(T, pick) /\ Keeps(T, Accumulators, op)
    BY <1>1, <1>2 DEF Picks, Keeps
  <2> QED
    BY <1>2, <1>3, <2>1, TypedFold
<1>9. \A s \in SUBSET T : h[s] = IF s = {} THEN NothingAdded ELSE op[pick[s]][h[s \ {pick[s]}]]
  <2> HIDE DEF pick, op
  <2> QED
    BY <1>4 DEF IsFold, Step
<1>5. Solves(h)
  <2>1. ASSUME NEW s \in SUBSET T
        PROVE  h[s] = Count(h, s)
    <3>1. CASE s = {}
      BY <1>9, <3>1
    <3>2. CASE s # {}
      <4>1. h[s] = op[pick[s]][h[s \ {pick[s]}]] /\ pick[s] \in s /\ pick[s] = Max(s)
        BY <1>2, <1>9, <3>2
      <4>2. h[s \ {Max(s)}] \in Accumulators
        BY <1>4
      <4> HIDE DEF pick
      <4> QED
        BY <3>2, <4>1, <4>2
    <3> QED
      BY <3>1, <3>2
  <2> HIDE DEF Count
  <2> QED
    BY <1>4, <2>1
<1>6. Solves(iter)
  <2> HIDE DEF Solves
  <2> QED
    BY <1>5
<1>7. Counts(drafted, side, iter)
  <2> HIDE DEF iter
  <2> QED
    BY <1>6 DEF Counts
<1>8. SideTotal(drafted, side) = iter[T]
  BY DEF SideTotal, FoldLeft, MapThenFoldSet, Added, NothingAdded
<1> QED
  BY <1>7, <1>8

LEMMA SideIsSummed ==
  ASSUME NEW drafted \in Seq(Entry), NEW side
  PROVE  \E g : Sums(drafted, side, g) /\ ExactTotal(drafted, side) = g[DOMAIN drafted]
<1> DEFINE T == DOMAIN drafted
           pick == [s \in SUBSET T |-> Max(s)]
           op == [i \in T |-> [total \in Int |-> Summed(side, total, drafted[i])]]
           Sum(g, s) == IF s = {} THEN 0
                        ELSE Summed(side, g[s \ {Max(s)}], drafted[Max(s)])
           Solves(g) == g = [s \in SUBSET T |-> Sum(g, s)]
           iter == CHOOSE g : Solves(g)
<1>1. \A i \in T, total \in Int : op[i][total] \in Int
  <2>1. \A i \in T : drafted[i].amount \in Int
    BY EntryTypes
  <2>2. \A i \in T, total \in Int : Summed(side, total, drafted[i]) \in Int
    BY <2>1 DEF Summed
  <2> QED
    BY <2>2
<1>2. IsFiniteSet(T) /\ \A s \in SUBSET T : s # {} => pick[s] \in s
  BY LastPicked
<1>3. 0 \in Int
  OBVIOUS
<1>4. PICK h : IsFold(0, pick, op, T, h) /\ h \in [SUBSET T -> Int]
  <2> HIDE DEF T, pick, op
  <2>1. Picks(T, pick) /\ Keeps(T, Int, op)
    BY <1>1, <1>2 DEF Picks, Keeps
  <2> QED
    BY <1>2, <1>3, <2>1, TypedFold
<1>9. \A s \in SUBSET T : h[s] = IF s = {} THEN 0 ELSE op[pick[s]][h[s \ {pick[s]}]]
  <2> HIDE DEF pick, op
  <2> QED
    BY <1>4 DEF IsFold, Step
<1>5. Solves(h)
  <2>1. ASSUME NEW s \in SUBSET T
        PROVE  h[s] = Sum(h, s)
    <3>1. CASE s = {}
      BY <1>9, <3>1
    <3>2. CASE s # {}
      <4>1. h[s] = op[pick[s]][h[s \ {pick[s]}]] /\ pick[s] \in s /\ pick[s] = Max(s)
        BY <1>2, <1>9, <3>2
      <4>2. h[s \ {Max(s)}] \in Int
        BY <1>4
      <4> HIDE DEF pick
      <4> QED
        BY <3>2, <4>1, <4>2
    <3> QED
      BY <3>1, <3>2
  <2> HIDE DEF Sum
  <2> QED
    BY <1>4, <2>1
<1>6. Solves(iter)
  <2> HIDE DEF Solves
  <2> QED
    BY <1>5
<1>7. Sums(drafted, side, iter)
  <2> HIDE DEF iter
  <2> QED
    BY <1>6 DEF Sums
<1>8. ExactTotal(drafted, side) = iter[T]
  BY DEF ExactTotal, FoldLeft, MapThenFoldSet, Summed
<1> QED
  BY <1>7, <1>8

\* Where every amount is positive, a side overflows exactly if its sum does not
\* fit, and its total is the sum otherwise.
LEMMA TotalIsTheSum ==
  ASSUME NEW drafted \in Seq(Entry), \A i \in DOMAIN drafted : drafted[i].amount > 0, NEW side
  PROVE  /\ ExactTotal(drafted, side) \in Nat
         /\ SideTotal(drafted, side).overflow => ExactTotal(drafted, side) > MaxAmount
         /\ ~SideTotal(drafted, side).overflow =>
              SideTotal(drafted, side).total = ExactTotal(drafted, side)
         /\ (\E i \in DOMAIN drafted : drafted[i].side = side) => ExactTotal(drafted, side) > 0
<1>1. PICK g : Counts(drafted, side, g) /\ SideTotal(drafted, side) = g[DOMAIN drafted]
  BY SideIsCounted
<1>2. PICK e : Sums(drafted, side, e) /\ ExactTotal(drafted, side) = e[DOMAIN drafted]
  BY SideIsSummed
<1> DEFINE T == DOMAIN drafted
           pick == [s \in SUBSET T |-> Max(s)]
           Agree(s) ==
             /\ g[s] \in Accumulators /\ e[s] \in Nat
             /\ g[s].overflow => e[s] > MaxAmount
             /\ ~g[s].overflow => g[s].total = e[s]
             /\ (\E i \in s : drafted[i].side = side) => e[s] > 0
           Good == {s \in SUBSET T : Agree(s)}
<1>3. IsFiniteSet(T) /\ Picks(T, pick)
  BY LastPicked DEF Picks
<1>4. {} \in Good
  <2>1. {} \in SUBSET T /\ g[{}] = NothingAdded /\ e[{}] = 0
    BY <1>1, <1>2 DEF Counts, Sums
  <2>2. g[{}] \in Accumulators /\ g[{}].total = 0 /\ g[{}].overflow = FALSE
    BY <2>1 DEF NothingAdded, Accumulators
  <2> QED
    BY <2>1, <2>2
<1>5. ASSUME NEW s \in SUBSET T, s # {}, Agree(s \ {Max(s)})
      PROVE  Agree(s)
  <2> DEFINE i == Max(s)
             r == s \ {i}
             amount == drafted[i].amount
  <2>1. i \in s /\ amount \in Int /\ amount > 0 /\ i \in T
    BY <1>5, LastPicked, EntryTypes
  <2>2. g[s] = Added(side, g[r], drafted[i]) /\ e[s] = Summed(side, e[r], drafted[i])
    BY <1>1, <1>2, <1>5 DEF Counts, Sums
  <2>3. g[r] \in Accumulators /\ e[r] \in Nat /\ g[r].total \in Int /\ g[r].overflow \in BOOLEAN
    BY <1>5 DEF Accumulators
  <2>4. (\E j \in s : drafted[j].side = side) <=>
          (\E j \in r : drafted[j].side = side) \/ drafted[i].side = side
    BY <2>1
  <2>5. /\ g[r].overflow => e[r] > MaxAmount
        /\ ~g[r].overflow => g[r].total = e[r]
        /\ (\E j \in r : drafted[j].side = side) => e[r] > 0
    BY <1>5
  <2> HIDE DEF r, i, Agree
  <2>6. CASE drafted[i].side # side
    <3>1. g[s] = g[r] /\ e[s] = e[r]
      BY <2>2, <2>6, Zenon DEF Added, Summed
    <3> QED
      BY <2>3, <2>4, <2>5, <2>6, <3>1 DEF Agree
  <2>7. CASE drafted[i].side = side
    <3>1. g[s] = CheckedAdd(g[r], amount) /\ e[s] = e[r] + amount
      BY <2>1, <2>2, <2>7 DEF Added, Summed
    <3> HIDE DEF amount
    <3>2. MaxAmount \in Nat
      BY AmountsAssumption
    <3>3. CASE g[r].total + amount <= MaxAmount
      <4>1. g[s] = [g[r] EXCEPT !.total = g[r].total + amount]
        BY <3>1, <3>3, Zenon DEF CheckedAdd
      <4>2. /\ g[s] \in Accumulators /\ g[s].total = g[r].total + amount
            /\ g[s].overflow = g[r].overflow
        BY <2>1, <2>3, <4>1 DEF Accumulators
      <4> QED
        BY <2>1, <2>3, <2>5, <3>1, <3>2, <3>3, <4>2 DEF Agree
    <3>4. CASE ~(g[r].total + amount <= MaxAmount)
      <4>1. g[s] = [g[r] EXCEPT !.overflow = TRUE]
        BY <3>1, <3>4, Zenon DEF CheckedAdd
      <4>2. g[s] \in Accumulators /\ g[s].overflow
        BY <2>3, <4>1 DEF Accumulators
      <4>3. e[s] > MaxAmount
        BY <2>1, <2>3, <2>5, <3>1, <3>2, <3>4
      <4> QED
        BY <2>1, <2>3, <3>1, <3>2, <4>2, <4>3 DEF Agree
    <3> QED
      BY <3>3, <3>4
  <2> QED
    BY <2>6, <2>7
<1>6. T \in Good
  <2>1. GrowsBy(T, pick, Good)
    <3> HIDE DEF Agree
    <3> QED
      BY <1>5 DEF GrowsBy
  <2> HIDE DEF Good, pick, T
  <2>2. SUBSET T \subseteq Good
    BY <1>3, <1>4, <2>1, FoldInduction
  <2> QED
    BY <2>2
<1> QED
  BY <1>1, <1>2, <1>6

PostingInv == header \in Headers /\ candidateAmount \in Amounts /\ entries \in Seq(Entry)

LEMMA PostingInvariant == PostingSpec => []PostingInv
<1>1. PostingInit => PostingInv
  BY DEF PostingInit, PostingInv
<1>2. PostingInv /\ [PostingNext]_postingVars => PostingInv'
  <2> SUFFICES ASSUME PostingInv, [PostingNext]_postingVars PROVE PostingInv'
    OBVIOUS
  <2>1. CASE UNCHANGED postingVars
    BY <2>1 DEF postingVars, PostingInv
  <2>2. ASSUME NEW e \in Entry, AddEntry(e)
        PROVE  PostingInv'
    BY <2>2, AppendProperties DEF AddEntry, PostingInv
  <2> QED
    BY <2>1, <2>2 DEF PostingNext
<1> QED
  BY <1>1, <1>2, PTL DEF PostingSpec

\* A posting raises no code exactly if nothing is wrong with it.
NothingWrong(hdr, cand, drafted) ==
  /\ hdr.approved /\ hdr.identified /\ hdr.supported
  /\ Len(drafted) \in MinEntries .. MaxEntries
  /\ ~HasDuplicateId(drafted)
  /\ ~(cand <= 0) /\ \A i \in DOMAIN drafted : ~(drafted[i].amount <= 0)
  /\ ~SideTotal(drafted, "DEBIT").overflow /\ ~SideTotal(drafted, "CREDIT").overflow
  /\ SideTotal(drafted, "DEBIT").total = SideTotal(drafted, "CREDIT").total
  /\ {SideTotal(drafted, "DEBIT").total, SideTotal(drafted, "CREDIT").total} = {cand}

LEMMA NoCode ==
  ASSUME NEW hdr, NEW cand, NEW drafted
  PROVE  Codes(hdr, cand, drafted) = {} <=> NothingWrong(hdr, cand, drafted)
BY DEF Codes, NothingWrong

\* validate_posting accepts exactly the balanced journals, whatever the width of
\* an amount, the bounds on the number of entries and the order of the entries.
THEOREM AcceptedIsBalanced == PostingSpec => []AcceptsExactlyBalanced
<1>1. PostingInv => AcceptsExactlyBalanced
  <2> SUFFICES ASSUME PostingInv PROVE AcceptsExactlyBalanced
    OBVIOUS
  <2> DEFINE positive == \A i \in DOMAIN entries : entries[i].amount > 0
             debit == SideTotal(entries, "DEBIT")
             credit == SideTotal(entries, "CREDIT")
             exactDebit == ExactTotal(entries, "DEBIT")
             exactCredit == ExactTotal(entries, "CREDIT")
  <2>1. /\ entries \in Seq(Entry) /\ candidateAmount \in Int /\ candidateAmount <= MaxAmount
        /\ MaxAmount \in Nat
    BY AmountsAssumption DEF PostingInv
  <2>2. \A i \in DOMAIN entries : entries[i].amount \in Int
    BY <2>1, EntryTypes
  <2>3. positive <=> \A i \in DOMAIN entries : ~(entries[i].amount <= 0)
    BY <2>2
  <2>4. ~HasDuplicateId(entries) <=>
          \A i, j \in DOMAIN entries : i # j => entries[i].id # entries[j].id
    <3>1. DOMAIN entries \subseteq Int
      BY <2>1
    <3> QED
      BY <3>1 DEF HasDuplicateId
  <2>5. ASSUME positive
        PROVE  /\ exactDebit \in Nat /\ exactCredit \in Nat
               /\ debit.overflow => exactDebit > MaxAmount
               /\ ~debit.overflow => debit.total = exactDebit
               /\ credit.overflow => exactCredit > MaxAmount
               /\ ~credit.overflow => credit.total = exactCredit
    BY <2>1, <2>5, TotalIsTheSum
  <2>6. ASSUME positive, Len(entries) \in MinEntries .. MaxEntries
        PROVE  exactDebit > 0 \/ exactCredit > 0
    <3>1. 1 \in DOMAIN entries
      BY <2>1, <2>6, EntriesAssumption
    <3>2. entries[1].side \in {"DEBIT", "CREDIT"}
      BY <2>1, <3>1, EntryTypes DEF Sides
    <3>3. entries[1].side = "DEBIT" => exactDebit > 0
      BY <2>1, <2>6, <3>1, TotalIsTheSum
    <3>4. entries[1].side = "CREDIT" => exactCredit > 0
      BY <2>1, <2>6, <3>1, TotalIsTheSum
    <3> QED
      BY <3>2, <3>3, <3>4
  <2>7. Codes(header, candidateAmount, entries) = {} <=>
          /\ header.approved /\ header.identified /\ header.supported
          /\ Len(entries) \in MinEntries .. MaxEntries
          /\ ~HasDuplicateId(entries)
          /\ ~(candidateAmount <= 0) /\ positive
          /\ ~debit.overflow /\ ~credit.overflow
          /\ debit.total = credit.total
          /\ {debit.total, credit.total} = {candidateAmount}
    <3>1. Codes(header, candidateAmount, entries) = {} <=>
            /\ header.approved /\ header.identified /\ header.supported
            /\ Len(entries) \in MinEntries .. MaxEntries
            /\ ~HasDuplicateId(entries)
            /\ ~(candidateAmount <= 0) /\ \A i \in DOMAIN entries : ~(entries[i].amount <= 0)
            /\ ~debit.overflow /\ ~credit.overflow
            /\ debit.total = credit.total
            /\ {debit.total, credit.total} = {candidateAmount}
      <4>1. Codes(header, candidateAmount, entries) = {} <=>
              NothingWrong(header, candidateAmount, entries)
        BY NoCode
      <4> QED
        BY <4>1, Zenon DEF NothingWrong
    <3> HIDE DEF positive, debit, credit
    <3> QED
      BY <2>3, <3>1
  <2> HIDE DEF positive, debit, credit, exactDebit, exactCredit
  <2>8. ASSUME positive, Len(entries) \in MinEntries .. MaxEntries
        PROVE  /\ ~(candidateAmount <= 0) /\ ~debit.overflow /\ ~credit.overflow
               /\ debit.total = credit.total
               /\ {debit.total, credit.total} = {candidateAmount}
               <=> exactDebit = candidateAmount /\ exactCredit = candidateAmount
    BY <2>1, <2>5, <2>6, <2>8
  <2>9. AcceptsExactlyBalanced <=>
          (Codes(header, candidateAmount, entries) = {} <=>
            /\ header.approved /\ header.identified /\ header.supported
            /\ Len(entries) \in MinEntries .. MaxEntries
            /\ positive
            /\ \A i, j \in DOMAIN entries : i # j => entries[i].id # entries[j].id
            /\ exactDebit = candidateAmount /\ exactCredit = candidateAmount)
    BY DEF AcceptsExactlyBalanced, positive, exactDebit, exactCredit
  <2> QED
    BY <2>4, <2>7, <2>8, <2>9
<1> QED
  BY <1>1, PostingInvariant, PTL

-----------------------------------------------------------------------------
(* Postings in another order *)

\* The journal with two neighbours exchanged.
Swapped(drafted, i) == [drafted EXCEPT ![i] = drafted[i + 1], ![i + 1] = drafted[i]]

\* Where an entry went.
Moved(i, j) == IF j = i THEN i + 1 ELSE IF j = i + 1 THEN i ELSE j

LEMMA SwapMoves ==
  ASSUME NEW drafted \in Seq(Entry), NEW i \in 1 .. (Len(drafted) - 1)
  PROVE  LET swapped == Swapped(drafted, i)
         IN  /\ swapped \in Seq(Entry) /\ Len(swapped) = Len(drafted)
             /\ DOMAIN swapped = DOMAIN drafted
             /\ \A j \in DOMAIN drafted :
                  /\ Moved(i, j) \in DOMAIN drafted /\ Moved(i, Moved(i, j)) = j
                  /\ swapped[j] = drafted[Moved(i, j)]
<1>1. Len(drafted) \in Nat /\ DOMAIN drafted = 1 .. Len(drafted) /\ i \in DOMAIN drafted /\ i + 1 \in DOMAIN drafted
  OBVIOUS
<1>2. \A j \in DOMAIN drafted : drafted[j] \in Entry
  BY ElementOfSeq
<1> DEFINE swapped == Swapped(drafted, i)
<1>3. /\ DOMAIN swapped = DOMAIN drafted
      /\ \A j \in DOMAIN drafted :
           /\ Moved(i, j) \in DOMAIN drafted /\ Moved(i, Moved(i, j)) = j
           /\ swapped[j] = drafted[Moved(i, j)]
  BY <1>1 DEF Swapped, Moved
<1>4. swapped = [j \in 1 .. Len(drafted) |-> swapped[j]]
  BY <1>1 DEF Swapped
<1>5. \A j \in 1 .. Len(drafted) : swapped[j] \in Entry
  BY <1>1, <1>2, <1>3
<1> HIDE DEF swapped
<1>6. swapped \in Seq(Entry) /\ Len(swapped) = Len(drafted)
  BY <1>1, <1>4, <1>5
<1> QED
  BY <1>3, <1>6 DEF swapped

-----------------------------------------------------------------------------
(* Codes do not depend on the order *)

\* Two running totals the core cannot tell apart: once a side overflows its
\* total is reported but compared with nothing.
Alike(a, b) == (a.overflow <=> b.overflow) /\ (~a.overflow => a.total = b.total)

LEMMA CheckedSum ==
  ASSUME NEW c \in Accumulators, NEW k \in Int
  PROVE  /\ CheckedAdd(c, k) \in Accumulators
         /\ CheckedAdd(c, k).overflow <=> c.overflow \/ c.total + k > MaxAmount
         /\ CheckedAdd(c, k).total = IF c.total + k <= MaxAmount THEN c.total + k ELSE c.total
<1>1. c.total \in Int /\ c.overflow \in BOOLEAN /\ MaxAmount \in Nat
  BY AmountsAssumption DEF Accumulators
<1>2. CASE c.total + k <= MaxAmount
  <2>1. CheckedAdd(c, k) = [c EXCEPT !.total = c.total + k]
    BY <1>2, Zenon DEF CheckedAdd
  <2> QED
    BY <1>1, <1>2, <2>1 DEF Accumulators
<1>3. CASE ~(c.total + k <= MaxAmount)
  <2>1. CheckedAdd(c, k) = [c EXCEPT !.overflow = TRUE]
    BY <1>3, Zenon DEF CheckedAdd
  <2>2. CheckedAdd(c, k) \in Accumulators /\ CheckedAdd(c, k).overflow /\ CheckedAdd(c, k).total = c.total
    BY <1>1, <2>1 DEF Accumulators
  <2> QED
    BY <1>1, <1>3, <2>2
<1> QED
  BY <1>2, <1>3

LEMMA AddedAlike ==
  ASSUME NEW a \in Accumulators, NEW b \in Accumulators, Alike(a, b), NEW e \in Entry, NEW side
  PROVE  Alike(Added(side, a, e), Added(side, b, e)) /\ Added(side, a, e) \in Accumulators
<1> DEFINE m == e.amount
<1>1. m \in Int /\ MaxAmount \in Nat
  BY AmountsAssumption DEF Entry
<1> HIDE DEF m
<1>2. CASE e.side = side /\ e.amount > 0
  <2>1. Added(side, a, e) = CheckedAdd(a, m) /\ Added(side, b, e) = CheckedAdd(b, m)
    BY <1>2 DEF Added, m
  <2>2. a.total \in Int /\ b.total \in Int /\ a.overflow \in BOOLEAN /\ b.overflow \in BOOLEAN
    BY DEF Accumulators
  <2>3. ASSUME NEW c \in Accumulators
        PROVE  /\ CheckedAdd(c, m) \in Accumulators
               /\ CheckedAdd(c, m).overflow <=> c.overflow \/ c.total + m > MaxAmount
               /\ CheckedAdd(c, m).total = IF c.total + m <= MaxAmount THEN c.total + m ELSE c.total
    BY <1>1, CheckedSum
  <2>4. (a.overflow <=> b.overflow) /\ (~a.overflow => a.total = b.total)
    BY DEF Alike
  <2> QED
    BY <1>1, <2>1, <2>2, <2>3, <2>4 DEF Alike
<1>3. CASE ~(e.side = side /\ e.amount > 0)
  BY <1>3, Zenon DEF Added
<1> QED
  BY <1>2, <1>3

\* Two entries may be counted in either order.
LEMMA AddedTwice ==
  ASSUME NEW a \in Accumulators, NEW d \in Entry, NEW e \in Entry, NEW side
  PROVE  Alike(Added(side, Added(side, a, d), e), Added(side, Added(side, a, e), d))
<1> DEFINE m == d.amount
           n == e.amount
<1>1. m \in Int /\ n \in Int /\ MaxAmount \in Nat
  BY AmountsAssumption DEF Entry
<1>2. a.total \in Int /\ a.overflow \in BOOLEAN
  BY DEF Accumulators
<1>3. CASE ~(d.side = side /\ d.amount > 0) \/ ~(e.side = side /\ e.amount > 0)
  BY <1>3, Zenon DEF Added, Alike
<1>4. CASE (d.side = side /\ d.amount > 0) /\ (e.side = side /\ e.amount > 0)
  <2>1. \A c : Added(side, c, d) = CheckedAdd(c, m) /\ Added(side, c, e) = CheckedAdd(c, n)
    BY <1>4, Zenon DEF Added
  <2>2. m > 0 /\ n > 0
    BY <1>4
  <2> HIDE DEF m, n
  <2>3. CheckedAdd(a, m) \in Accumulators /\ CheckedAdd(a, n) \in Accumulators
    BY <1>1, CheckedSum
  <2>6. /\ CheckedAdd(a, m).overflow <=> a.overflow \/ a.total + m > MaxAmount
        /\ CheckedAdd(a, n).overflow <=> a.overflow \/ a.total + n > MaxAmount
        /\ CheckedAdd(a, m).total = IF a.total + m <= MaxAmount THEN a.total + m ELSE a.total
        /\ CheckedAdd(a, n).total = IF a.total + n <= MaxAmount THEN a.total + n ELSE a.total
    BY <1>1, CheckedSum
  <2> DEFINE am == CheckedAdd(a, m)
             an == CheckedAdd(a, n)
  <2>7. /\ CheckedAdd(am, n).overflow <=> am.overflow \/ am.total + n > MaxAmount
        /\ CheckedAdd(am, n).total = IF am.total + n <= MaxAmount THEN am.total + n ELSE am.total
        /\ CheckedAdd(an, m).overflow <=> an.overflow \/ an.total + m > MaxAmount
        /\ CheckedAdd(an, m).total = IF an.total + m <= MaxAmount THEN an.total + m ELSE an.total
    BY <1>1, <2>3, CheckedSum
  <2> HIDE DEF am, an
  <2>4. /\ CheckedAdd(am, n).overflow <=> a.overflow \/ a.total + m + n > MaxAmount
        /\ CheckedAdd(an, m).overflow <=> a.overflow \/ a.total + m + n > MaxAmount
    BY <1>1, <1>2, <2>2, <2>6, <2>7 DEF am, an
  <2>5. a.total + m + n <= MaxAmount =>
          CheckedAdd(am, n).total = a.total + m + n /\ CheckedAdd(an, m).total = a.total + m + n
    BY <1>1, <1>2, <2>2, <2>6, <2>7 DEF am, an
  <2> QED
    BY <1>1, <1>2, <2>1, <2>4, <2>5 DEF Alike, am, an
<1> QED
  BY <1>3, <1>4

\* The running total of a side after its first k entries.
LEMMA PrefixTotals ==
  ASSUME NEW drafted \in Seq(Entry), NEW side
  PROVE  \E p : /\ p[0] = NothingAdded
                /\ \A k \in 1 .. Len(drafted) : p[k] = Added(side, p[k - 1], drafted[k])
                /\ SideTotal(drafted, side) = p[Len(drafted)]
<1>1. PICK g : Counts(drafted, side, g) /\ SideTotal(drafted, side) = g[DOMAIN drafted]
  BY SideIsCounted
<1>2. Len(drafted) \in Nat /\ DOMAIN drafted = 1 .. Len(drafted)
  OBVIOUS
<1> DEFINE n == Len(drafted)
           p == [k \in 0 .. n |-> g[1 .. k]]
<1>3. p[0] = NothingAdded
  <2>1. 1 .. 0 = {} /\ {} \in SUBSET DOMAIN drafted
    OBVIOUS
  <2>2. g[{}] = NothingAdded
    BY <1>1, <2>1 DEF Counts
  <2> QED
    BY <1>2, <2>1, <2>2
<1>4. ASSUME NEW k \in 1 .. n
      PROVE  p[k] = Added(side, p[k - 1], drafted[k])
  <2>1. k \in Nat \ {0} /\ k <= n /\ n \in Nat /\ k - 1 \in 0 .. n /\ k \in 0 .. n
    BY <1>2
  <2>4. 1 .. k \subseteq 1 .. n /\ 1 \in 1 .. k
    BY <2>1
  <2>5. (1 .. k) \ {k} = 1 .. (k - 1)
    BY <2>1
  <2>6. 1 .. k \in SUBSET DOMAIN drafted /\ 1 .. k # {}
    BY <1>2, <2>4
  <2>2. Max(1 .. k) = k
    <3>1. \A x \in 1 .. k : k >= x
      BY <1>2
    <3>2. k \in 1 .. k /\ k \in Int
      BY <1>2
    <3>3. \A y \in 1 .. k : (\A x \in 1 .. k : y >= x) => y = k
      BY <1>2
    <3> QED
      BY <3>1, <3>2, <3>3 DEF Max
  <2>3. g[1 .. k] = Added(side, g[(1 .. k) \ {Max(1 .. k)}], drafted[Max(1 .. k)])
    BY <1>1, <2>6 DEF Counts
  <2> QED
    BY <2>1, <2>2, <2>3, <2>5
<1>5. SideTotal(drafted, side) = p[n]
  BY <1>1, <1>2
<1> QED
  BY <1>3, <1>4, <1>5

LEMMA TotalsAlike ==
  ASSUME NEW drafted \in Seq(Entry), NEW i \in 1 .. (Len(drafted) - 1), NEW side
  PROVE  Alike(SideTotal(drafted, side), SideTotal(Swapped(drafted, i), side))
<1> DEFINE swapped == Swapped(drafted, i)
           n == Len(drafted)
<1>1. /\ swapped \in Seq(Entry) /\ Len(swapped) = n /\ n \in Nat
      /\ DOMAIN swapped = 1 .. n /\ DOMAIN drafted = 1 .. n
      /\ \A j \in 1 .. n : swapped[j] = drafted[Moved(i, j)]
  BY SwapMoves
<1>2. \A j \in 1 .. n : drafted[j] \in Entry /\ swapped[j] \in Entry
  BY <1>1, ElementOfSeq
<1>3. PICK p : /\ p[0] = NothingAdded
               /\ \A k \in 1 .. n : p[k] = Added(side, p[k - 1], drafted[k])
               /\ SideTotal(drafted, side) = p[n]
  BY PrefixTotals
<1>4. PICK q : /\ q[0] = NothingAdded
               /\ \A k \in 1 .. n : q[k] = Added(side, q[k - 1], swapped[k])
               /\ SideTotal(swapped, side) = q[n]
  BY <1>1, PrefixTotals
<1> HIDE DEF swapped, n
<1>5. i \in 1 .. n /\ i + 1 \in 1 .. n /\ i \in Nat
  BY <1>1 DEF n
<1> DEFINE Agree(k) ==
             /\ p[k] \in Accumulators /\ q[k] \in Accumulators
             /\ k # i => Alike(p[k], q[k])
             /\ k = i => \E a \in Accumulators :
                           p[k] = Added(side, a, drafted[i]) /\ q[k] = Added(side, a, drafted[i + 1])
             /\ k < i => p[k] = q[k]
           Bad == {k \in 0 .. n : ~Agree(k)}
<1>6. Agree(0)
  <2>1. NothingAdded \in Accumulators
    BY DEF NothingAdded, Accumulators
  <2> QED
    BY <1>3, <1>4, <1>5, <2>1 DEF Alike
<1>7. ASSUME NEW k \in 1 .. n, Agree(k - 1)
      PROVE  Agree(k)
  <2>1. /\ p[k] = Added(side, p[k - 1], drafted[k]) /\ q[k] = Added(side, q[k - 1], swapped[k])
        /\ drafted[k] \in Entry /\ swapped[k] \in Entry
        /\ p[k - 1] \in Accumulators /\ q[k - 1] \in Accumulators
    BY <1>2, <1>3, <1>4, <1>7
  <2>2. p[k] \in Accumulators /\ q[k] \in Accumulators
    <3>1. \A a : Alike(a, a)
      BY DEF Alike
    <3> QED
      BY <2>1, <3>1, AddedAlike
  <2>3. CASE k < i
    <3>1. swapped[k] = drafted[k] /\ p[k - 1] = q[k - 1]
      BY <1>1, <1>5, <1>7, <2>3 DEF Moved
    <3>2. p[k] = q[k]
      BY <2>1, <3>1
    <3> QED
      BY <1>5, <2>2, <2>3, <3>2 DEF Alike
  <2>4. CASE k = i
    <3>1. swapped[k] = drafted[i + 1] /\ p[k - 1] = q[k - 1]
      BY <1>1, <1>5, <1>7, <2>4 DEF Moved
    <3>2. p[k] = Added(side, p[k - 1], drafted[i]) /\ q[k] = Added(side, p[k - 1], drafted[i + 1])
      BY <2>1, <2>4, <3>1
    <3> HIDE DEF Bad
    <3> QED
      BY <1>5, <2>1, <2>2, <2>4, <3>2
  <2>5. CASE k = i + 1
    <3>1. swapped[k] = drafted[i] /\ k - 1 = i
      BY <1>1, <1>5, <2>5 DEF Moved
    <3>2. PICK a \in Accumulators :
            p[i] = Added(side, a, drafted[i]) /\ q[i] = Added(side, a, drafted[i + 1])
      BY <1>7, <3>1
    <3>3. /\ p[k] = Added(side, Added(side, a, drafted[i]), drafted[i + 1])
          /\ q[k] = Added(side, Added(side, a, drafted[i + 1]), drafted[i])
      BY <2>1, <2>5, <3>1, <3>2
    <3>4. Alike(p[k], q[k])
      BY <1>2, <1>5, <3>3, AddedTwice
    <3> QED
      BY <1>5, <2>2, <2>5, <3>4
  <2>6. CASE k > i + 1
    <3>1. swapped[k] = drafted[k] /\ Alike(p[k - 1], q[k - 1])
      BY <1>1, <1>5, <1>7, <2>6 DEF Moved
    <3>2. Alike(p[k], q[k])
      BY <2>1, <3>1, AddedAlike
    <3> QED
      BY <1>5, <2>2, <2>6, <3>2
  <2> QED
    BY <1>1, <1>5, <2>3, <2>4, <2>5, <2>6
<1>8. Bad = {}
  <2> SUFFICES ASSUME Bad # {} PROVE FALSE
    OBVIOUS
  <2> HIDE DEF Agree
  <2>1. Bad \in SUBSET Nat
    BY <1>1
  <2>2. PICK k \in Bad : \A j \in Bad : k <= j
    <3> HIDE DEF Bad
    <3> QED
      BY <2>1, LeastNumber
  <2>3. k \in 1 .. n /\ k - 1 \in 0 .. n /\ ~Agree(k)
    BY <1>1, <1>6, <2>2
  <2>4. k - 1 \notin Bad
    BY <1>1, <2>2, <2>3
  <2>5. Agree(k - 1)
    BY <2>3, <2>4
  <2> QED
    BY <1>7, <2>3, <2>5
<1>9. Agree(n) /\ n # i
  <2>1. n \in 0 .. n /\ n # i
    BY <1>1, <1>5
  <2> HIDE DEF Agree
  <2> QED
    BY <1>8, <2>1
<1> QED
  BY <1>3, <1>4, <1>9 DEF swapped, n

\* When a code is raised.
Raised(hdr, cand, drafted, code) ==
  LET debit == SideTotal(drafted, "DEBIT")
      credit == SideTotal(drafted, "CREDIT")
  IN  \/ code = "APPROVAL_REQUIRED" /\ ~hdr.approved
      \/ code = "INVALID_IDENTIFIER" /\ ~hdr.identified
      \/ code = "UNSUPPORTED_TRANSACTION_TYPE" /\ ~hdr.supported
      \/ code = "ENTRY_COUNT_OUT_OF_RANGE" /\ Len(drafted) \notin MinEntries .. MaxEntries
      \/ code = "DUPLICATE_ENTRY_ID" /\ HasDuplicateId(drafted)
      \/ code = "NON_POSITIVE_AMOUNT" /\ (cand <= 0 \/ \E i \in DOMAIN drafted : drafted[i].amount <= 0)
      \/ code = "AMOUNT_OVERFLOW" /\ (debit.overflow \/ credit.overflow)
      \/ code = "UNBALANCED_JOURNAL" /\ ~(debit.overflow \/ credit.overflow) /\ debit.total # credit.total
      \/ /\ code = "CANDIDATE_AMOUNT_MISMATCH" /\ ~(debit.overflow \/ credit.overflow)
         /\ {debit.total, credit.total} # {cand}

LEMMA CodesRaised ==
  ASSUME NEW hdr, NEW cand, NEW drafted, NEW code
  PROVE  code \in Codes(hdr, cand, drafted) <=> Raised(hdr, cand, drafted, code)
<1> DEFINE debit == SideTotal(drafted, "DEBIT")
           credit == SideTotal(drafted, "CREDIT")
           overflow == debit.overflow \/ credit.overflow
           nonPositive == cand <= 0 \/ \E i \in DOMAIN drafted : drafted[i].amount <= 0
           miscounted == Len(drafted) \notin MinEntries .. MaxEntries
           duplicated == HasDuplicateId(drafted)
           unbalanced == ~overflow /\ debit.total # credit.total
           mismatched == ~overflow /\ {debit.total, credit.total} # {cand}
<1>1. Codes(hdr, cand, drafted) = UNION {
        IF ~hdr.approved THEN {"APPROVAL_REQUIRED"} ELSE {},
        IF ~hdr.identified THEN {"INVALID_IDENTIFIER"} ELSE {},
        IF ~hdr.supported THEN {"UNSUPPORTED_TRANSACTION_TYPE"} ELSE {},
        IF miscounted THEN {"ENTRY_COUNT_OUT_OF_RANGE"} ELSE {},
        IF duplicated THEN {"DUPLICATE_ENTRY_ID"} ELSE {},
        IF nonPositive THEN {"NON_POSITIVE_AMOUNT"} ELSE {},
        IF overflow THEN {"AMOUNT_OVERFLOW"} ELSE {},
        IF unbalanced THEN {"UNBALANCED_JOURNAL"} ELSE {},
        IF mismatched THEN {"CANDIDATE_AMOUNT_MISMATCH"} ELSE {}}
  BY Zenon DEF Codes
<1>2. Raised(hdr, cand, drafted, code) <=>
        \/ code = "APPROVAL_REQUIRED" /\ ~hdr.approved
        \/ code = "INVALID_IDENTIFIER" /\ ~hdr.identified
        \/ code = "UNSUPPORTED_TRANSACTION_TYPE" /\ ~hdr.supported
        \/ code = "ENTRY_COUNT_OUT_OF_RANGE" /\ miscounted
        \/ code = "DUPLICATE_ENTRY_ID" /\ duplicated
        \/ code = "NON_POSITIVE_AMOUNT" /\ nonPositive
        \/ code = "AMOUNT_OVERFLOW" /\ overflow
        \/ code = "UNBALANCED_JOURNAL" /\ unbalanced
        \/ code = "CANDIDATE_AMOUNT_MISMATCH" /\ mismatched
  BY Zenon DEF Raised
<1> HIDE DEF overflow, nonPositive, miscounted, duplicated, unbalanced, mismatched
<1> QED
  BY <1>1, <1>2

\* Neighbours exchanged, the core answers with the same codes.
LEMMA CodesAlike ==
  ASSUME NEW hdr, NEW cand, NEW drafted \in Seq(Entry), NEW i \in 1 .. (Len(drafted) - 1)
  PROVE  Codes(hdr, cand, Swapped(drafted, i)) = Codes(hdr, cand, drafted)
<1> DEFINE swapped == Swapped(drafted, i)
           dd == SideTotal(drafted, "DEBIT")
           dc == SideTotal(drafted, "CREDIT")
           sd == SideTotal(swapped, "DEBIT")
           sc == SideTotal(swapped, "CREDIT")
<1>1. /\ Len(swapped) = Len(drafted) /\ DOMAIN swapped = DOMAIN drafted
      /\ \A j \in DOMAIN drafted :
           /\ Moved(i, j) \in DOMAIN drafted /\ Moved(i, Moved(i, j)) = j
           /\ swapped[j] = drafted[Moved(i, j)]
  BY SwapMoves
<1>2. Alike(dd, sd) /\ Alike(dc, sc)
  BY TotalsAlike
<1>3. HasDuplicateId(drafted) <=> HasDuplicateId(swapped)
  <2>1. DOMAIN drafted \subseteq Int
    OBVIOUS
  <2>2. HasDuplicateId(drafted) <=>
          \E j, k \in DOMAIN drafted : j # k /\ drafted[j].id = drafted[k].id
    BY <2>1 DEF HasDuplicateId
  <2>3. HasDuplicateId(swapped) <=>
          \E j, k \in DOMAIN drafted : j # k /\ swapped[j].id = swapped[k].id
    BY <1>1, <2>1 DEF HasDuplicateId
  <2> HIDE DEF swapped
  <2>4. ASSUME NEW j \in DOMAIN drafted, NEW k \in DOMAIN drafted, j # k
        PROVE  /\ Moved(i, j) \in DOMAIN drafted /\ Moved(i, k) \in DOMAIN drafted
               /\ Moved(i, j) # Moved(i, k)
               /\ swapped[j].id = drafted[Moved(i, j)].id /\ swapped[k].id = drafted[Moved(i, k)].id
               /\ drafted[j].id = swapped[Moved(i, j)].id /\ drafted[k].id = swapped[Moved(i, k)].id
    BY <1>1, <2>4
  <2>5. HasDuplicateId(drafted) => HasDuplicateId(swapped)
    <3> SUFFICES ASSUME NEW j \in DOMAIN drafted, NEW k \in DOMAIN drafted, j # k,
                        drafted[j].id = drafted[k].id
                 PROVE  HasDuplicateId(swapped)
      BY <2>2
    <3>1. /\ Moved(i, j) \in DOMAIN drafted /\ Moved(i, k) \in DOMAIN drafted
          /\ Moved(i, j) # Moved(i, k)
          /\ swapped[Moved(i, j)].id = swapped[Moved(i, k)].id
      BY <2>4
    <3> QED
      BY <2>3, <3>1, Zenon
  <2>6. HasDuplicateId(swapped) => HasDuplicateId(drafted)
    <3> SUFFICES ASSUME NEW j \in DOMAIN drafted, NEW k \in DOMAIN drafted, j # k,
                        swapped[j].id = swapped[k].id
                 PROVE  HasDuplicateId(drafted)
      BY <2>3
    <3>1. /\ Moved(i, j) \in DOMAIN drafted /\ Moved(i, k) \in DOMAIN drafted
          /\ Moved(i, j) # Moved(i, k)
          /\ drafted[Moved(i, j)].id = drafted[Moved(i, k)].id
      BY <2>4
    <3> QED
      BY <2>2, <3>1, Zenon
  <2> QED
    BY <2>5, <2>6
<1>4. (\E j \in DOMAIN drafted : drafted[j].amount <= 0) <=>
        (\E j \in DOMAIN swapped : swapped[j].amount <= 0)
  <2> HIDE DEF swapped
  <2>1. ASSUME NEW j \in DOMAIN drafted
        PROVE  /\ Moved(i, j) \in DOMAIN drafted
               /\ swapped[j].amount = drafted[Moved(i, j)].amount
               /\ drafted[j].amount = swapped[Moved(i, j)].amount
    BY <1>1
  <2> QED
    BY <1>1, <2>1
<1> HIDE DEF swapped
<1>5. dd.overflow \/ dc.overflow <=> sd.overflow \/ sc.overflow
  BY <1>2 DEF Alike
<1>6. ~(dd.overflow \/ dc.overflow) => dd.total = sd.total /\ dc.total = sc.total
  BY <1>2 DEF Alike
<1> HIDE DEF dd, dc, sd, sc
<1>7. ~(dd.overflow \/ dc.overflow) /\ dd.total # dc.total <=>
        ~(sd.overflow \/ sc.overflow) /\ sd.total # sc.total
  BY <1>5, <1>6, Zenon
<1>8. ~(dd.overflow \/ dc.overflow) /\ {dd.total, dc.total} # {cand} <=>
        ~(sd.overflow \/ sc.overflow) /\ {sd.total, sc.total} # {cand}
  BY <1>5, <1>6, Zenon
<1>9. ASSUME NEW code
      PROVE  code \in Codes(hdr, cand, swapped) <=> code \in Codes(hdr, cand, drafted)
  <2>1. /\ code \in Codes(hdr, cand, drafted) <=> Raised(hdr, cand, drafted, code)
        /\ code \in Codes(hdr, cand, swapped) <=> Raised(hdr, cand, swapped, code)
    BY CodesRaised
  <2> QED
    BY <1>1, <1>3, <1>4, <1>5, <1>7, <1>8, <2>1, Zenon DEF Raised, dd, dc, sd, sc
<1>10. \A code : code \in Codes(hdr, cand, swapped) <=> code \in Codes(hdr, cand, drafted)
  BY <1>9
<1> QED
  BY <1>10, Zenon DEF swapped

-----------------------------------------------------------------------------
(* The canonical form does not depend on the order *)

DistinctIds(drafted) ==
  \A i, j \in DOMAIN drafted : i # j => drafted[i].id # drafted[j].id

Before(drafted, i) == {j \in DOMAIN drafted : drafted[j].id < drafted[i].id}

\* Every place is that of exactly one entry.
LEMMA OneAtEachPlace ==
  ASSUME NEW drafted \in Seq(Entry), DistinctIds(drafted), NEW k \in DOMAIN drafted
  PROVE  /\ \E i \in DOMAIN drafted : Position(drafted, i) = k
         /\ \A i, j \in DOMAIN drafted : Position(drafted, i) = Position(drafted, j) => i = j
<1> DEFINE T == DOMAIN drafted
<1>1. IsFiniteSet(T) /\ Len(drafted) \in Nat /\ T = 1 .. Len(drafted)
  BY LastPicked
<1>2. \A i \in T : drafted[i].id \in Nat
  <2>1. \A i \in T : drafted[i] \in Entry
    BY ElementOfSeq
  <2> QED
    BY <2>1, EntriesAssumption DEF Entry
<1> HIDE DEF T
<1>3. ASSUME NEW i \in T
      PROVE  /\ IsFiniteSet(Before(drafted, i)) /\ Cardinality(Before(drafted, i)) \in Nat
             /\ i \notin Before(drafted, i) /\ Before(drafted, i) \subseteq T
             /\ Position(drafted, i) = 1 + Cardinality(Before(drafted, i))
  <2>1. Before(drafted, i) \subseteq T /\ i \notin Before(drafted, i)
    BY <1>2 DEF Before, T
  <2> QED
    BY <1>1, <2>1, FS_Subset, FS_CardinalityType, Zenon DEF Position, Before
<1>4. ASSUME NEW i \in T, NEW S, S \subseteq T, Before(drafted, i) \subseteq S, i \in S
      PROVE  Position(drafted, i) <= Cardinality(S)
  <2>1. /\ IsFiniteSet(Before(drafted, i) \cup {i})
        /\ Cardinality(Before(drafted, i) \cup {i}) = Cardinality(Before(drafted, i)) + 1
    BY <1>3, FS_AddElement
  <2>2. IsFiniteSet(S) /\ Before(drafted, i) \cup {i} \subseteq S
    BY <1>1, <1>4, FS_Subset
  <2>3. Cardinality(Before(drafted, i) \cup {i}) <= Cardinality(S)
    BY <2>2, FS_Subset
  <2> QED
    BY <1>3, <2>1, <2>3
<1>5. \A i, j \in T : Position(drafted, i) = Position(drafted, j) => i = j
  <2>1. ASSUME NEW i \in T, NEW j \in T, drafted[i].id < drafted[j].id
        PROVE  Position(drafted, i) # Position(drafted, j)
    <3>1. Before(drafted, i) \subseteq Before(drafted, j) /\ i \in Before(drafted, j)
      BY <1>2, <2>1 DEF Before, T
    <3>2. Position(drafted, i) <= Cardinality(Before(drafted, j))
      BY <1>3, <1>4, <3>1
    <3> QED
      BY <1>3, <3>2
  <2> QED
    BY <1>2, <2>1 DEF DistinctIds, T
<1>6. \A i \in T : Position(drafted, i) \in T
  <2>1. ASSUME NEW i \in T
        PROVE  Position(drafted, i) \in T
    <3>1. Position(drafted, i) <= Cardinality(T)
      BY <1>3, <1>4
    <3>2. Cardinality(T) = Len(drafted)
      <4>1. \A n \in Nat : Cardinality(1 .. n) = n
        BY FS_Interval
      <4> QED
        BY <1>1, <4>1
    <3> QED
      BY <1>1, <1>3, <3>1, <3>2
  <2> QED
    BY <2>1
<1> DEFINE f == [i \in T |-> Position(drafted, i)]
<1>7. f \in Injection(T, T)
  BY <1>5, <1>6 DEF Injection, IsInjective
<1>8. f \in Surjection(T, T)
  BY <1>1, <1>7, FS_Injection
<1>9. \E i \in T : f[i] = k
  BY <1>8 DEF Surjection, T
<1> QED
  BY <1>5, <1>9 DEF T

LEMMA PlacesMove ==
  ASSUME NEW drafted \in Seq(Entry), NEW i \in 1 .. (Len(drafted) - 1), NEW j \in DOMAIN drafted
  PROVE  Position(Swapped(drafted, i), j) = Position(drafted, Moved(i, j))
<1> DEFINE swapped == Swapped(drafted, i)
           T == DOMAIN drafted
           S == Before(drafted, Moved(i, j))
           R == Before(swapped, j)
           f == [k \in S |-> Moved(i, k)]
<1>1. /\ DOMAIN swapped = T
      /\ \A k \in T :
           /\ Moved(i, k) \in T /\ Moved(i, Moved(i, k)) = k
           /\ swapped[k] = drafted[Moved(i, k)]
  BY SwapMoves
<1>2. IsFiniteSet(S)
  <2>1. S \subseteq T
    BY DEF Before
  <2> QED
    BY <2>1, LastPicked, FS_Subset
<1> HIDE DEF swapped
<1>3. \A k \in S : k \in T /\ Moved(i, k) \in R
  BY <1>1 DEF Before
<1>4. \A k \in R : k \in T /\ Moved(i, k) \in S
  BY <1>1 DEF Before
<1> HIDE DEF S, R, T
<1>5. f \in [S -> R] /\ \A a, b \in S : f[a] = f[b] => a = b
  BY <1>1, <1>3, Zenon
<1>6. \A k \in R : \E a \in S : f[a] = k
  BY <1>1, <1>4, Zenon
<1>7. f \in Bijection(S, R)
  <2> HIDE DEF f
  <2> QED
    BY <1>5, <1>6 DEF Bijection, Injection, Surjection, IsInjective
<1>8. Cardinality(R) = Cardinality(S)
  BY <1>2, <1>7, FS_Bijection DEF ExistsBijection
<1> QED
  BY <1>8, Zenon DEF Position, Before, S, R, swapped

LEMMA CanonicalAlike ==
  ASSUME NEW drafted \in Seq(Entry), DistinctIds(drafted), NEW i \in 1 .. (Len(drafted) - 1)
  PROVE  Canonical(Swapped(drafted, i)) = Canonical(drafted)
<1> DEFINE swapped == Swapped(drafted, i)
           T == DOMAIN drafted
           here(k) == CHOOSE j \in DOMAIN drafted : Position(drafted, j) = k
           there(k) == CHOOSE j \in DOMAIN swapped : Position(swapped, j) = k
<1>1. /\ DOMAIN swapped = T
      /\ \A k \in T :
           /\ Moved(i, k) \in T /\ Moved(i, Moved(i, k)) = k
           /\ swapped[k] = drafted[Moved(i, k)]
  BY SwapMoves
<1>2. \A k \in T : Position(swapped, k) = Position(drafted, Moved(i, k))
  BY PlacesMove
<1> HIDE DEF swapped
<1>3. ASSUME NEW k \in T
      PROVE  swapped[there(k)] = drafted[here(k)]
  <2>1. PICK j \in T : Position(drafted, j) = k
    BY OneAtEachPlace
  <2>2. here(k) \in T /\ Position(drafted, here(k)) = k
    BY <2>1
  <2>3. Moved(i, j) \in T /\ Position(swapped, Moved(i, j)) = k
    BY <1>1, <1>2, <2>1
  <2>4. there(k) \in T /\ Position(swapped, there(k)) = k
    BY <1>1, <2>3
  <2> HIDE DEF here, there
  <2>5. Moved(i, there(k)) \in T /\ Position(drafted, Moved(i, there(k))) = k
    BY <1>1, <1>2, <2>4
  <2>6. Moved(i, there(k)) = here(k)
    BY <2>2, <2>5, OneAtEachPlace
  <2> QED
    BY <1>1, <2>4, <2>6
<1>4. /\ Canonical(swapped) = [k \in T |-> swapped[there(k)]]
      /\ Canonical(drafted) = [k \in T |-> drafted[here(k)]]
  BY <1>1, Zenon DEF Canonical
<1> HIDE DEF here, there, T
<1>5. Canonical(swapped) = Canonical(drafted)
  BY <1>3, <1>4
<1> QED
  BY <1>5 DEF swapped

\* The codes of a posting and the canonical form of an accepted one are those of
\* its entries in any order, although totals are added with checked_add: the
\* desktop and the browser agree on what they accept and on its hash.
THEOREM OrderDoesNotMatter == PostingSpec => []OrderIrrelevant
<1>1. PostingInv => OrderIrrelevant
  <2> SUFFICES ASSUME PostingInv, NEW i \in 1 .. (Len(entries) - 1)
               PROVE  /\ Codes(header, candidateAmount, Swapped(entries, i)) =
                           Codes(header, candidateAmount, entries)
                      /\ Codes(header, candidateAmount, entries) = {} =>
                           Canonical(Swapped(entries, i)) = Canonical(entries)
    BY Zenon DEF OrderIrrelevant, Swapped
  <2>1. entries \in Seq(Entry)
    BY DEF PostingInv
  <2>2. Codes(header, candidateAmount, Swapped(entries, i)) = Codes(header, candidateAmount, entries)
    BY <2>1, CodesAlike
  <2>3. ASSUME Codes(header, candidateAmount, entries) = {}
        PROVE  Canonical(Swapped(entries, i)) = Canonical(entries)
    <3>1. ~HasDuplicateId(entries)
      BY <2>3, NoCode DEF NothingWrong
    <3>2. DOMAIN entries \subseteq Int
      BY <2>1
    <3>3. DistinctIds(entries)
      BY <3>1, <3>2 DEF HasDuplicateId, DistinctIds
    <3> QED
      BY <2>1, <3>3, CanonicalAlike
  <2> QED
    BY <2>2, <2>3
<1> QED
  BY <1>1, PostingInvariant, PTL

-----------------------------------------------------------------------------
(* The components together *)

\* A behaviour of the ledger is one of each of its components.
LEMMA EachComponent ==
  Spec => LinkSpec /\ PwaSpec /\ RestoreSpec /\ OutboxSpec
<1>1. Init => LinkInit /\ PwaInit /\ RestoreInit /\ OutboxInit
  BY DEF Init
<1>2. [Next]_vars => /\ [LinkNext]_linkVars /\ [PwaNext]_pwaVars
                     /\ [RestoreNext]_restoreVars /\ [OutboxNext]_outboxVars
  BY Zenon DEF Next, vars
<1> QED
  BY <1>1, <1>2, PTL DEF Spec, LinkSpec, PwaSpec, RestoreSpec, OutboxSpec

\* The rows of every component satisfy the constraints of its tables.
THEOREM LedgerTypesCorrect == Spec => []LedgerTypes
<1>1. LinkTypeOK /\ PwaTypeOK /\ RestoreTypeOK /\ OutboxTypeOK => LedgerTypes
  BY DEF LedgerTypes
<1> QED
  BY <1>1, EachComponent, LinkTypesCorrect, PwaTypesCorrect, RestoreTypesCorrect,
     OutboxTypesCorrect, PTL
=============================================================================
