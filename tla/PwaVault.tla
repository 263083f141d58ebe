------------------------------ MODULE PwaVault ------------------------------
(***************************************************************************)
(* The browser runtime: an encrypted vault in IndexedDB (database.ts),     *)
(* evidence in OPFS with an IndexedDB fallback (evidenceStore.ts), the     *)
(* ledger client over it (client.ts), export and restore (archive.ts) and  *)
(* the session of a tab (usePwaClient.ts).                                 *)
(*                                                                         *)
(* Several tabs of one origin share the database.  An IndexedDB            *)
(* transaction is atomic; every await between two of them is a place where *)
(* another tab may run, so each client call is split there.  A tab runs    *)
(* one change at a time (the busy flag of PwaRoot), an export beside it.   *)
(* Household and accounts exist already.  A batch is the events of one     *)
(* append.  Encryption, and the hashes of an archive, are not modelled:    *)
(* archives are the ones exportVault made.                                 *)
(***************************************************************************)
EXTENDS Integers, Sequences, FiniteSets, FiniteSetsExt

CONSTANTS
    Tabs,
    PwaReceipts,   \* receipt images, named by their SHA-256
    MaxBatches,    \* bound on the appends of a vault
    MaxVaults      \* bound on the vaults: the first, and the restored ones

ASSUME PwaAssumption ==
    MaxBatches \in Nat /\ MaxVaults \in Nat \ {0} /\ IsFiniteSet(PwaReceipts)

VaultIds == 1 .. MaxVaults

Batch == [type : {"STAGED", "POSTED"}, receipt : PwaReceipts]

VARIABLES
    store,        \* vault -> its rows: events, candidate, transactions,
                  \*   revision, eventSequence
    envelopes,    \* <<vault, receipt, backend>> of the stored evidence
    activeVault,  \* meta row activeVaultId
    tab,          \* tab -> its session and the change it is making
    exporter,     \* the export under way
    archives      \* the last archive downloaded, if any

pwaVars == <<store, envelopes, activeVault, tab, exporter, archives>>

Absent == "none"

EmptyVault ==
    [events |-> << >>, revision |-> 0, eventSequence |-> 0,
     candidate |-> [r \in PwaReceipts |-> Absent],
     transactions |-> [r \in PwaReceipts |-> 0]]

Idle == [step |-> "idle", receipt |-> Absent, expectedRevision |-> 0]

NotExporting ==
    [step |-> "idle", tab |-> Absent, vault |-> 1, sources |-> {}, events |-> << >>,
     candidate |-> EmptyVault.candidate, transactions |-> EmptyVault.transactions]

-----------------------------------------------------------------------------
(* The database.                                                           *)

\* The projections after a batch: staging writes the candidate afresh,
\* approval marks it POSTED and adds a transaction.
project(rows, batch) ==
    [rows EXCEPT
        !.candidate[batch.receipt] =
            IF batch.type = "STAGED" THEN "CANDIDATE" ELSE "POSTED",
        !.transactions[batch.receipt] =
            IF batch.type = "STAGED" THEN @ ELSE @ + 1]

\* Mutant: the projections are left for later.
events_only(rows, batch) ==
    [rows EXCEPT !.events = Append(@, batch), !.revision = @ + 1,
                 !.eventSequence = @ + 1]

appended(rows, batch) ==
    [project(rows, batch) EXCEPT !.events = Append(@, batch),
                                 !.revision = @ + 1,
                                 !.eventSequence = @ + 1]

unmoved(rows, expected) == rows.revision = expected

\* appendPostingAtomically: one transaction over events, projections and meta,
\* refused when the revision moved since expectedRevision was read.
appendPostingAtomically(t, batch) ==
    LET v == tab[t].vault
    IN  /\ tab[t].change.step = "read"
        /\ Len(store[v].events) < MaxBatches
        /\ store' = IF unmoved(store[v], tab[t].change.expectedRevision)
                    THEN [store EXCEPT ![v] = appended(@, batch)]
                    ELSE store
        /\ tab' = [tab EXCEPT ![t].change = Idle, ![t].posting = FALSE]
        /\ UNCHANGED <<envelopes, activeVault, exporter, archives>>

-----------------------------------------------------------------------------
(* The ledger client.                                                      *)

Unlocked(t) == tab[t].session = "unlocked"

advance(t, step) == tab' = [tab EXCEPT ![t].change.step = step]

\* stageReceipt looks its hash up among the SOURCE_HASH projections and
\* answers with the stored candidate when it is there.
stageReceipt(t, r) ==
    /\ Unlocked(t) /\ tab[t].change.step = "idle"
    /\ store[tab[t].vault].candidate[r] = Absent
    /\ tab' = [tab EXCEPT ![t].change =
                  [step |-> "staging", receipt |-> r, expectedRevision |-> 0]]
    /\ UNCHANGED <<store, envelopes, activeVault, exporter, archives>>

\* It stores the image first: in OPFS, or in IndexedDB where OPFS is
\* unavailable.
putEvidence(t, backend) ==
    /\ Unlocked(t) /\ tab[t].change.step = "staging"
    /\ envelopes' = envelopes \union
                       {<<tab[t].vault, tab[t].change.receipt, backend>>}
    /\ advance(t, "staged")
    /\ UNCHANGED <<store, activeVault, exporter, archives>>

\* approveCandidate reads the candidate and refuses one that is not awaiting
\* approval.
approveCandidate(t, r) ==
    /\ Unlocked(t) /\ tab[t].change.step = "idle"
    /\ store[tab[t].vault].candidate[r] = "CANDIDATE"
    /\ tab' = [tab EXCEPT ![t].change =
                  [step |-> "approved", receipt |-> r, expectedRevision |-> 0]]
    /\ UNCHANGED <<store, envelopes, activeVault, exporter, archives>>

\* appendDomainChange reads the revision it will append at.
appendDomainChange(t) ==
    /\ Unlocked(t) /\ tab[t].change.step \in {"staged", "approved"}
    /\ tab' = [tab EXCEPT ![t].change.step = "read",
                          ![t].change.expectedRevision = store[tab[t].vault].revision,
                          ![t].posting = tab[t].change.step = "approved"]
    /\ UNCHANGED <<store, envelopes, activeVault, exporter, archives>>

commitChange(t) ==
    /\ Unlocked(t)
    /\ appendPostingAtomically(t,
          [type |-> IF tab[t].posting THEN "POSTED" ELSE "STAGED",
           receipt |-> tab[t].change.receipt])

-----------------------------------------------------------------------------
(* Export.  The source list, and each store of the database, is read in a  *)
(* transaction of its own.                                                 *)

\* A step of the export of tab t, at step from; read is the export with what it read.
reads(t, from, read) ==
    /\ exporter.step = from /\ exporter.tab = t
    /\ exporter' = read
    /\ UNCHANGED <<store, envelopes, activeVault, tab, archives>>

Sources(v) == {r \in PwaReceipts : store[v].candidate[r] # Absent}

listSources(t) ==
    /\ Unlocked(t) /\ exporter.step = "idle"
    /\ exporter' = [NotExporting EXCEPT !.step = "sources", !.tab = t, !.vault = tab[t].vault,
                                        !.sources = Sources(tab[t].vault)]
    /\ UNCHANGED <<store, envelopes, activeVault, tab, archives>>

readEvents(t) ==
    reads(t, "sources",
          [exporter EXCEPT !.step = "events", !.events = store[exporter.vault].events])

readProjections(t) ==
    reads(t, "events",
          [exporter EXCEPT !.step = "projections",
                           !.candidate = store[exporter.vault].candidate,
                           !.transactions = store[exporter.vault].transactions])

\* The evidence rows of IndexedDB, the counters, and the envelopes of the
\* sources that were listed at the start.
createPwaArchive(t) ==
    LET v == exporter.vault
        stored == {r \in PwaReceipts : <<v, r, "INDEXED_DB">> \in envelopes}
    IN  /\ exporter.step = "projections" /\ exporter.tab = t
        /\ archives' = {[events |-> exporter.events,
                         candidate |-> exporter.candidate,
                         transactions |-> exporter.transactions,
                         revision |-> store[v].revision,
                         eventSequence |-> store[v].eventSequence,
                         evidence |-> stored \union exporter.sources]}
        /\ exporter' = NotExporting
        /\ UNCHANGED <<store, envelopes, activeVault, tab>>

-----------------------------------------------------------------------------
(* Restore.                                                                *)

\* Mutant: the number of events is not compared with the manifest's.
any_sequence(a) == TRUE

validateEventSequence(a) == Len(a.events) = a.eventSequence

restorePwaArchive(t) ==
    /\ Unlocked(t) /\ tab[t].change.step = "idle"
    /\ Cardinality(DOMAIN store) < MaxVaults
    /\ \E a \in archives :
          /\ validateEventSequence(a)
          /\ tab' = [tab EXCEPT ![t].change.step = "restoring", ![t].restoring = {a}]
    /\ UNCHANGED <<store, envelopes, activeVault, exporter, archives>>

restored(a) ==
    [events |-> a.events, revision |-> a.revision, eventSequence |-> a.eventSequence,
     candidate |-> a.candidate, transactions |-> a.transactions]

\* One transaction adds the rows under a new vault id and switches the active
\* pointer.  A lock meanwhile leaves the tab locked; the switch stays.
activateRestoredVault(t) ==
    LET v == Cardinality(DOMAIN store) + 1
    IN  /\ tab[t].change.step = "restoring" /\ v \in VaultIds
        /\ \E a \in tab[t].restoring :
              /\ store' = [u \in DOMAIN store \union {v} |->
                              IF u = v THEN restored(a) ELSE store[u]]
              /\ envelopes' = envelopes \union
                                 ({v} \X a.evidence \X {"INDEXED_DB"})
        /\ activeVault' = v
        /\ tab' = [tab EXCEPT ![t].change = Idle, ![t].restoring = {},
                              ![t].vault = IF Unlocked(t) THEN v ELSE @]
        /\ exporter' = IF exporter.tab = t THEN NotExporting ELSE exporter
        /\ UNCHANGED archives

\* The quota runs out inside the transaction: everything is rolled back.
restoreFails(t) ==
    /\ tab[t].change.step = "restoring"
    /\ tab' = [tab EXCEPT ![t].change = Idle, ![t].restoring = {}]
    /\ UNCHANGED <<store, envelopes, activeVault, exporter, archives>>

-----------------------------------------------------------------------------
(* The session.                                                            *)

unlockVault(t) ==
    /\ ~Unlocked(t) /\ tab[t].change.step = "idle"
    /\ tab' = [tab EXCEPT ![t].session = "unlocked", ![t].vault = activeVault]
    /\ UNCHANGED <<store, envelopes, activeVault, exporter, archives>>

\* The key is dropped: a change or an export under way fails at its next use
\* of it.  Closing the tab ends them the same way.
lockVault(t) ==
    /\ Unlocked(t)
    /\ tab' = [tab EXCEPT ![t].session = "locked",
                          ![t].posting = FALSE,
                          ![t].change = IF @.step = "restoring" THEN @ ELSE Idle]
    /\ exporter' = IF exporter.tab = t THEN NotExporting ELSE exporter
    /\ UNCHANGED <<store, envelopes, activeVault, archives>>

-----------------------------------------------------------------------------

PwaInit ==
    /\ store = [v \in {1} |-> EmptyVault]
    /\ envelopes = {} /\ activeVault = 1
    /\ tab = [t \in Tabs |-> [session |-> "locked", vault |-> 1,
                              change |-> Idle, posting |-> FALSE,
                              restoring |-> {}]]
    /\ exporter = NotExporting /\ archives = {}

PwaNext ==
    \E t \in Tabs :
        \/ \E r \in PwaReceipts : stageReceipt(t, r) \/ approveCandidate(t, r)
        \/ \E b \in {"OPFS", "INDEXED_DB"} : putEvidence(t, b)
        \/ appendDomainChange(t) \/ commitChange(t)
        \/ listSources(t) \/ readEvents(t) \/ readProjections(t)
        \/ createPwaArchive(t)
        \/ restorePwaArchive(t) \/ activateRestoredVault(t) \/ restoreFails(t)
        \/ unlockVault(t) \/ lockVault(t)

PwaSpec == PwaInit /\ [][PwaNext]_pwaVars

-----------------------------------------------------------------------------
(* Properties.                                                             *)

\* Types, and the counters of a vault: one revision and one sequence step for
\* each append, in a restored vault too.
PwaTypeOK ==
    /\ activeVault \in DOMAIN store /\ DOMAIN store \subseteq VaultIds
    /\ \A v \in DOMAIN store :
          /\ store[v].events \in Seq(Batch)
          /\ store[v].revision = Len(store[v].events)
          /\ store[v].eventSequence = Len(store[v].events)
          /\ store[v].candidate \in [PwaReceipts -> {Absent, "CANDIDATE", "POSTED"}]
    /\ envelopes \subseteq VaultIds \X PwaReceipts \X {"OPFS", "INDEXED_DB"}
    /\ \A t \in Tabs : tab[t].vault \in DOMAIN store

BatchesOf(rows, r) == {i \in DOMAIN rows.events : rows.events[i].receipt = r}

Projected(rows) ==
    \A r \in PwaReceipts :
        LET batches == BatchesOf(rows, r)
        IN  /\ rows.transactions[r] =
                  Cardinality({i \in batches : rows.events[i].type = "POSTED"})
            /\ rows.candidate[r] =
                  IF batches = {} THEN Absent
                  ELSE IF rows.events[Max(batches)].type = "STAGED"
                       THEN "CANDIDATE" ELSE "POSTED"

\* "Projections are disposable and can be rebuilt from authenticated events":
\* in every vault, also one restored from an archive whose stores were read
\* while another tab was posting, the projections are those of the events.
ProjectionsOfEvents == \A v \in DOMAIN store : Projected(store[v])

\* A candidate is posted at most once: approveCandidate refuses one that is
\* not awaiting approval.
PostedOnce ==
    \A v \in DOMAIN store, r \in PwaReceipts : store[v].transactions[r] <= 1

\* Every source of a vault has its encrypted evidence, in the vault the user
\* restored as well.
SourcesHaveEvidence ==
    \A v \in DOMAIN store : \A r \in Sources(v) :
        \E b \in {"OPFS", "INDEXED_DB"} : <<v, r, b>> \in envelopes
=============================================================================
