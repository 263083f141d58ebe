---------------------------- MODULE EvidenceLinks ----------------------------
(***************************************************************************)
(* What hangs on posted transactions: the receipts linked to an expense    *)
(* (receipt_matching.rs), the card statements and the bank payments that   *)
(* settle them (import_workflow.rs, read_model.rs), and the editing of a   *)
(* posted transaction under them (read_model.rs).                          *)
(*                                                                         *)
(* An item is a reviewed candidate or a staged statement; a run posts its  *)
(* items together.  Item gives each one its kind, card, amount and day     *)
(* (for a statement, the day its period ends).  Dates are day numbers.     *)
(* Every operation is one database transaction, under the one mutex of     *)
(* AppState, so the actions are atomic.                                    *)
(***************************************************************************)
EXTENDS Integers, FiniteSetsExt

CONSTANTS
    Item,       \* item -> [kind, card, amount, day]
    Runs,       \* sets of items that are imported together; a run without
                \*   items has nothing to post and is left out
    Edited      \* the [amount, day] a person may give a posted transaction

ItemOf(kind) == {i \in DOMAIN Item : Item[i].kind = kind}
Receipts == ItemOf("receipt")
Payments == ItemOf("payment")
Statements == ItemOf("statement")

NoStatement == "none"

Facts == [amount : Nat, day : Nat]

ASSUME LinksAssumption ==
    /\ \A i \in DOMAIN Item :
          /\ Item[i].kind \in {"receipt", "purchase", "payment", "statement"}
          /\ Item[i].amount \in Nat /\ Item[i].day \in Nat
    /\ IsFiniteSet(DOMAIN Item) /\ NoStatement \notin DOMAIN Item
    /\ UNION Runs = DOMAIN Item /\ {} \notin Runs
    /\ \A a, b \in Runs : a = b \/ a \cap b = {}
    /\ Edited \subseteq Facts

VARIABLES
    txns,         \* posted transactions: item -> its amount and date now
    runsPosted,   \* runs whose status is POSTED
    links,        \* receipt_candidate_links: receipt -> transaction
    paid,         \* card_payments: payment -> [statement, status, confirmed]
    due,          \* card_statements: statement -> reconciliation_status
    corrections   \* <<statement, payment>> of card_payment_link_corrections

linkVars == <<txns, runsPosted, links, paid, due, corrections>>

\* A table after rows were inserted.
inserted(rows, table) ==
    [i \in DOMAIN rows \union DOMAIN table |->
        IF i \in DOMAIN rows THEN rows[i] ELSE table[i]]

-----------------------------------------------------------------------------
(* Card settlement.                                                        *)

SettlementDays == 120

InWindow(p, s) == Item[p].day - Item[s].day \in 0 .. SettlementDays

confirmed_total(s, rows) ==
    MapThenSumSet(LAMBDA p : Item[p].amount,
        {p \in DOMAIN rows : rows[p].statement = s /\ rows[p].confirmed})

reconciliation_status_for_total(amount, total) ==
    CASE total = 0      -> "UNMATCHED"
      [] total > 0 /\ total < amount -> "PARTIALLY_RECONCILED"
      [] total > 0 /\ total = amount -> "FULLY_RECONCILED"
      [] total > amount -> "OVERPAID"

unmatched(row) == row.status = "UNMATCHED"

\* An UNMATCHED payment is offered the UNMATCHED statement of its card and
\* exact amount whose period ended last before it.
nearest_statement(p, labels) ==
    LET fits == {s \in DOMAIN labels :
                    /\ labels[s] = "UNMATCHED"
                    /\ Item[s].card = Item[p].card
                    /\ Item[s].amount = Item[p].amount
                    /\ InWindow(p, s)}
    IN  IF fits = {} THEN NoStatement
        ELSE CHOOSE s \in fits : \A o \in fits : Item[o].day <= Item[s].day

reconcile_exact_card_payments(rows, labels) ==
    [p \in DOMAIN rows |->
        IF unmatched(rows[p]) /\ nearest_statement(p, labels) # NoStatement
        THEN [rows[p] EXCEPT !.statement = nearest_statement(p, labels),
                             !.status = "POSSIBLE_MATCH"]
        ELSE rows[p]]

\* The label of statement s, after its payments became rows.
relabel(s, rows) ==
    due' = [due EXCEPT ![s] =
        reconciliation_status_for_total(Item[s].amount, confirmed_total(s, rows))]

confirm_card_payment_link(s, p) ==
    /\ s \in DOMAIN due /\ p \in DOMAIN paid
    /\ Item[p].card = Item[s].card
    /\ paid[p].statement \in {NoStatement, s}
    /\ InWindow(p, s)
    /\ txns[p].amount = Item[p].amount
    /\ paid' = [paid EXCEPT ![p] = [statement |-> s, confirmed |-> TRUE,
                                    status |-> "FULLY_RECONCILED"]]
    /\ relabel(s, paid')
    /\ UNCHANGED <<txns, runsPosted, links, corrections>>

unlinked(row) == [statement |-> NoStatement, confirmed |-> FALSE,
                  status |-> "UNMATCHED"]

unlink_card_payment_link(s, p) ==
    /\ s \in DOMAIN due /\ p \in DOMAIN paid
    /\ paid[p].statement = s /\ paid[p].confirmed
    /\ corrections' = corrections \union {<<s, p>>}
    /\ paid' = [paid EXCEPT ![p] = unlinked(paid[p])]
    /\ relabel(s, paid')
    /\ UNCHANGED <<txns, runsPosted, links>>

-----------------------------------------------------------------------------
(* Posting a run.  What its review decides is ImportReview's subject; here *)
(* every candidate that no receipt link has excluded is posted.            *)

\* Mutant: a linked or posted candidate can still be reviewed.
always_reviewable(c) == TRUE

reviewable(c) == c \notin DOMAIN links \union DOMAIN txns

finalize_card_statements(run) ==
    inserted([s \in run \intersect Statements |-> "UNMATCHED"], due)

commit_import(run) ==
    LET posting == {i \in run \ Statements : reviewable(i)}
        fresh == [p \in posting \intersect Payments |->
                    [statement |-> NoStatement, confirmed |-> FALSE,
                     status |-> "UNMATCHED"]]
    IN  /\ run \notin runsPosted
        /\ runsPosted' = runsPosted \union {run}
        /\ txns' = inserted([i \in posting |->
                            [amount |-> Item[i].amount, day |-> Item[i].day]], txns)
        /\ due' = finalize_card_statements(run)
        /\ paid' = reconcile_exact_card_payments(inserted(fresh, paid), due')
        /\ UNCHANGED <<links, corrections>>

-----------------------------------------------------------------------------
(* Receipts.                                                               *)

ReceiptDays == 3

\* The transaction is an expense or a card purchase of the receipt's amount,
\* dated within three days of it.
valid_target(c, t) ==
    /\ t \in DOMAIN txns
    /\ Item[t].kind \in {"purchase", "receipt"}
    /\ txns[t].amount = Item[c].amount
    /\ txns[t].day - Item[c].day \in -ReceiptDays .. ReceiptDays

\* receipt_matching::confirm.  Confirming the same link again answers from
\* the stored row and changes nothing.
confirm(c, t) ==
    /\ reviewable(c)
    /\ valid_target(c, t)
    /\ links' = inserted([r \in {c} |-> t], links)
    /\ LET run == CHOOSE r \in Runs : c \in r
       IN  runsPosted' = IF \E i \in run \ {c} : reviewable(i) THEN runsPosted
                         ELSE runsPosted \union {run}
    /\ UNCHANGED <<txns, paid, due, corrections>>

-----------------------------------------------------------------------------
(* Editing a posted transaction: refused for a bank payment of a card and  *)
(* for a line billed by a statement.                                       *)

billed(t) == \E run \in runsPosted : t \in run /\ run \cap Statements # {}

reconciliation_linked(t) == t \in DOMAIN paid \/ billed(t)

update_posted_transaction(t, facts) ==
    /\ t \in DOMAIN txns
    /\ ~reconciliation_linked(t)
    /\ txns' = [txns EXCEPT ![t] = facts]
    /\ UNCHANGED <<runsPosted, links, paid, due, corrections>>

-----------------------------------------------------------------------------

NoRows == [i \in {} |-> NoStatement]

LinkInit ==
    /\ txns = NoRows /\ links = NoRows /\ paid = NoRows /\ due = NoRows
    /\ runsPosted = {} /\ corrections = {}

LinkNext ==
    \/ \E run \in Runs : commit_import(run)
    \/ \E c \in Receipts : \E t \in DOMAIN txns : confirm(c, t)
    \/ \E s \in Statements, p \in Payments :
          \/ confirm_card_payment_link(s, p)
          \/ unlink_card_payment_link(s, p)
    \/ \E t \in DOMAIN txns, facts \in Edited : update_posted_transaction(t, facts)

LinkSpec == LinkInit /\ [][LinkNext]_linkVars

-----------------------------------------------------------------------------
(* Properties.                                                             *)

\* Types, and what the schema keeps: a payment or statement row belongs to a
\* posted run.
LinkTypeOK ==
    /\ txns \in [DOMAIN txns -> Facts]
    /\ DOMAIN txns \subseteq (UNION runsPosted) \ Statements
    /\ links \in [DOMAIN links -> DOMAIN txns] /\ DOMAIN links \subseteq Receipts
    /\ DOMAIN paid = Payments \intersect DOMAIN txns
    /\ DOMAIN due = Statements \intersect UNION runsPosted
    /\ \A p \in DOMAIN paid :
          /\ paid[p].statement \in DOMAIN due \union {NoStatement}
          /\ paid[p].status = "UNMATCHED" <=> paid[p].statement = NoStatement
    /\ corrections \subseteq Statements \X Payments

\* The settlement part of what a restore demands of a database
\* (persistence.rs, validate_restored_semantics): a confirmed payment is
\* FULLY_RECONCILED, of its statement's card, inside the window, and still
\* carries the amount of its bank transaction; a statement's label is that of
\* its confirmed total, a total of 0 first.  It must survive imports that match payments again,
\* confirmations, unlinks and edits in any order, or a backup taken then could
\* not be restored.
SettlementRestorable ==
    /\ \A p \in DOMAIN paid : paid[p].confirmed =>
          /\ paid[p].status = "FULLY_RECONCILED"
          /\ paid[p].statement \in DOMAIN due
          /\ Item[paid[p].statement].card = Item[p].card
          /\ InWindow(p, paid[p].statement)
          /\ txns[p].amount = Item[p].amount
    /\ \A s \in DOMAIN due :
          LET total == confirmed_total(s, paid)
          IN  /\ due[s] = "UNMATCHED" <=> total = 0
              /\ due[s] = "PARTIALLY_RECONCILED" <=> total \in 1 .. Item[s].amount - 1
              /\ due[s] = "FULLY_RECONCILED" <=> total = Item[s].amount /\ total # 0
              /\ due[s] = "OVERPAID" <=> total > Item[s].amount

\* A receipt counts once: it is either evidence of a transaction that another
\* source posted or a transaction of its own, whatever the order in which its
\* run is committed and its match confirmed; and a run that is not POSTED
\* still has something to review.
ReceiptCountedOnce ==
    /\ \A c \in Receipts : ~(c \in DOMAIN links /\ c \in DOMAIN txns)
    /\ \A run \in Runs \ runsPosted : \E i \in run : i \notin DOMAIN links

\* A backup of the ledger passes the validation a restore makes of its card
\* settlements, and a receipt is the evidence of at most one transaction.
LinksConsistent == SettlementRestorable /\ ReceiptCountedOnce

\* The receipt part of what a restore demands (persistence.rs,
\* validate_restored_semantics): a linked transaction still has the receipt's
\* amount and a date within three days of it.
ReceiptLinksRestorable == \A c \in DOMAIN links : valid_target(c, links[c])
=============================================================================
