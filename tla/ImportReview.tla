------------------------------ MODULE ImportReview ------------------------------
(***************************************************************************)
(* The import workflow (import_workflow.rs): a document is staged as a run *)
(* with candidates, duplicates are detected and resolved, and the run is   *)
(* committed to the ledger or rolled back; the commit is fenced by the     *)
(* connector binding the reviewer saw (ConnectorBinding).                  *)
(*                                                                         *)
(* Every operation is one IMMEDIATE transaction; one the code refuses      *)
(* changes nothing and is not a step.  Ids are fresh, so the transaction   *)
(* posted for a candidate is named by the candidate.  The journal of a     *)
(* posting is validated by PostingCore and is not repeated here.           *)
(***************************************************************************)
EXTENDS ConnectorBinding

CONSTANTS
  Runs,           \* import runs
  Candidates,     \* normalized candidates
  RunOf,          \* [Candidates -> Runs]
  Content,        \* [Runs -> SHA-256 of the document]
  ConnectionOf,   \* [Runs -> Connections]
  ParsedBy,       \* [Runs -> Nat]: parser profile version of the run, 0 for none
  Account,        \* [Candidates -> Accounts]
  Shape,          \* [Candidates -> date, amount, direction and account]
  Text,           \* [Candidates -> normalized merchant and description]
  Key,            \* [Candidates -> external source and id, or NoKey]
  Fact,           \* [Candidates -> external fact hash]
  NoKey,          \* the source gives no transaction id
  None            \* SQL NULL

ASSUME RunsAssumption ==
  /\ RunOf \in [Candidates -> Runs]
  /\ ConnectionOf \in [Runs -> Connections]
  /\ ParsedBy \in [Runs -> Nat]
  /\ Account \in [Candidates -> Accounts]
  /\ None \notin Candidates

\* validate_start and start_import: one import names an external id once.
ASSUME KeysAssumption ==
  \A c, d \in Candidates :
    RunOf[c] = RunOf[d] /\ Key[c] = Key[d] /\ Key[c] # NoKey => c = d

VARIABLES
  run,          \* import_runs.status ("NONE": not started)
  cand,         \* transaction_candidates.review_status ("NONE": no row)
  review,       \* import_duplicate_reviews, per candidate
  sources,      \* transaction_sources with a candidate: <<transaction, candidate>>
  replays,      \* transaction_sources without one: <<transaction, run>>
  keyOwner,     \* transaction_external_keys: key -> transaction
  exceptions,   \* import_keep_both_exceptions: <<fingerprint, transaction>>
  seen          \* what the review screen of a run last loaded of the binding

importVars == <<run, cand, review, sources, replays, keyOwner, exceptions, seen>>
vars == <<bindingVars, importVars>>

RunStatuses == {"NONE", "REVIEW_REQUIRED", "POSTED", "ROLLED_BACK"}
CandidateStatuses == {"NONE", "PENDING", "POSTED", "DUPLICATE", "EXCLUDED"}
Resolutions == {"LINK", "KEEP_BOTH", "EXCLUDE"}

Keys == {Key[c] : c \in Candidates} \ {NoKey}
Fingerprint(c) == <<Shape[c], Text[c]>>
CandidatesOf(r) == {c \in Candidates : RunOf[c] = r}
Reviewable(r) == {c \in CandidatesOf(r) : cand[c] = "PENDING"}
Ledger == {c \in Candidates : cand[c] = "POSTED"}
AccountsInUse == {Account[c] : c \in {d \in Candidates : cand[d] \in {"PENDING", "POSTED"}}}

\* tx and candidate are never both set and, in a review row, never both NULL.
Review == [tx: Candidates \cup {None}, candidate: Candidates \cup {None},
           decision: Resolutions \cup {"UNRESOLVED"}]
NoReview == [tx |-> None, candidate |-> None, decision |-> "UNRESOLVED"]
HasReview(c) == review[c] # NoReview

\* What a review screen holds: the expectation it will send with the commit and
\* the binding row it was read from.
Seen == [expected: [version: 0..MaxVersion, generation: 0..MaxVersion],
         content: Binding \cup {NoBinding}]

Init ==
  /\ BindingInit
  /\ run = [r \in Runs |-> "NONE"]
  /\ cand = [c \in Candidates |-> "NONE"]
  /\ review = [c \in Candidates |-> NoReview]
  /\ sources = {}
  /\ replays = {}
  /\ keyOwner = [k \in Keys |-> None]
  /\ exceptions = {}
  /\ seen = [r \in Runs |-> None]

-----------------------------------------------------------------------------
(* start_import *)

\* The transaction an external id was posted as.
Owner(c) == IF Key[c] = NoKey THEN None ELSE keyOwner[Key[c]]

\* stage_duplicate_review: posted transactions of the same shape without a
\* keep-both exception, and reviewable candidates of other runs.
PostedMatches(c) ==
  {t \in Ledger : Shape[t] = Shape[c] /\ <<Fingerprint(c), t>> \notin exceptions}

\* Mutant: candidates still under review in other runs are not looked at.
NoPendingMatches(c) == {}

PendingMatches(c) ==
  {d \in Candidates : cand[d] = "PENDING" /\ Shape[d] = Shape[c] /\ RunOf[d] # RunOf[c]}

\* A likely match (equal text) before a possible one, then a transaction before
\* a candidate, then by id, whose order is arbitrary.
MatchRank(c, d) ==
  (IF Text[d] = Text[c] THEN 0 ELSE 2) + (IF d \in Ledger THEN 0 ELSE 1)

Matches(c) == PostedMatches(c) \cup PendingMatches(c)
BestMatch(c) ==
  CHOOSE d \in Matches(c) : \A e \in Matches(c) : MatchRank(c, d) <= MatchRank(c, e)

StagedReview(c) ==
  IF Matches(c) = {} THEN NoReview
  ELSE IF BestMatch(c) \in Ledger THEN [NoReview EXCEPT !.tx = BestMatch(c)]
  ELSE [NoReview EXCEPT !.candidate = BestMatch(c)]

StartImport(r) ==
  LET replayed == {c \in CandidatesOf(r) : Owner(c) # None}
      staged == CandidatesOf(r) \ replayed
  IN /\ run[r] = "NONE"
     /\ \A s \in Runs : Content[s] = Content[r] => run[s] \notin {"REVIEW_REQUIRED", "POSTED"}
     /\ \A c \in replayed : Fact[Owner(c)] = Fact[c]
     /\ run' = [run EXCEPT ![r] = "REVIEW_REQUIRED"]
     /\ cand' = [c \in Candidates |-> IF c \in staged THEN "PENDING" ELSE cand[c]]
     /\ review' = [c \in Candidates |-> IF c \in staged THEN StagedReview(c) ELSE review[c]]
     /\ replays' = replays \cup {<<Owner(c), r>> : c \in replayed}
     /\ UNCHANGED <<sources, keyOwner, exceptions, seen, bindingVars>>

-----------------------------------------------------------------------------
(* Review *)

\* preview_import: the screen remembers the expectation to send with the commit.
\* `content` is a history variable for PostedUnderReviewedBinding.
PreviewImport(r) ==
  /\ run[r] = "REVIEW_REQUIRED"
  /\ seen' = [seen EXCEPT ![r] =
                [expected |-> Expectation(ConnectionOf[r]), content |-> binding[ConnectionOf[r]]]]
  /\ UNCHANGED <<run, cand, review, sources, replays, keyOwner, exceptions, bindingVars>>

\* The transaction a review points to: directly, or through the matched
\* candidate once that candidate has been posted or linked.
MatchedTx(c) ==
  LET linked == {t \in Candidates : <<t, review[c].candidate>> \in sources}
  IN IF review[c].tx # None THEN review[c].tx
     ELSE IF linked # {} THEN CHOOSE t \in linked : TRUE
     ELSE None

SetDuplicateResolution(c, resolution) ==
  /\ run[RunOf[c]] = "REVIEW_REQUIRED"
  /\ HasReview(c)
  /\ resolution = "LINK" => MatchedTx(c) # None
  /\ review' = [review EXCEPT ![c] =
                  [tx |-> MatchedTx(c),
                   candidate |-> IF MatchedTx(c) = None THEN @.candidate ELSE None,
                   decision |-> resolution]]
  /\ UNCHANGED <<run, cand, sources, replays, keyOwner, exceptions, seen, bindingVars>>

-----------------------------------------------------------------------------
(* commit_import *)

\* The resolution that counts: the decision's own ("UNRESOLVED": none given),
\* else the stored one.
Resolution(c, given) == IF given = "UNRESOLVED" THEN review[c].decision ELSE given

\* Mutant: the commit does not look the external id up again.
FateAsStaged(c, given) == IF HasReview(c) THEN Resolution(c, given) ELSE "POST"

\* What the loop over the decisions makes of one candidate.
Fate(c, given) ==
  IF Owner(c) # None THEN "REPLAY"
  ELSE IF HasReview(c) THEN Resolution(c, given)
  ELSE "POST"

\* The checks that abort the whole commit.
Decidable(c, given) ==
  /\ Owner(c) # None => Fact[Owner(c)] = Fact[c]
  /\ Owner(c) = None /\ ~HasReview(c) => given = "UNRESOLVED"
  /\ Owner(c) = None /\ HasReview(c) =>
       /\ Resolution(c, given) # "UNRESOLVED"
       /\ MatchedTx(c) = None => cand[review[c].candidate] = "PENDING"
       /\ Resolution(c, given) = "LINK" => MatchedTx(c) # None

NewStatus(fate) ==
  IF fate \in {"REPLAY", "LINK"} THEN "DUPLICATE"
  ELSE IF fate = "EXCLUDE" THEN "EXCLUDED"
  ELSE "POSTED"

\* Mutant: a link uses the stored pointer, not what it resolves to.
EvidenceAsStored(c, fate) ==
  IF fate = "REPLAY" THEN Owner(c) ELSE IF fate = "LINK" THEN review[c].tx ELSE c

\* The transaction a candidate becomes evidence of.
EvidenceOf(c, fate) ==
  IF fate = "REPLAY" THEN Owner(c) ELSE IF fate = "LINK" THEN MatchedTx(c) ELSE c

DecidedReview(c, fate) ==
  IF fate = "LINK" THEN [tx |-> MatchedTx(c), candidate |-> None, decision |-> "LINK"]
  ELSE IF fate \in {"EXCLUDE", "KEEP_BOTH"} THEN [review[c] EXCEPT !.decision = fate]
  ELSE review[c]

CommitImport(r, given) ==
  LET todo == Reviewable(r)
      fate == [c \in todo |-> Fate(c, given[c])]
      posted == {c \in todo : fate[c] \in {"POST", "KEEP_BOTH"}}
      k == ConnectionOf[r]
  IN /\ run[r] = "REVIEW_REQUIRED"
     /\ seen[r] # None
     /\ BindingAccepts(k, seen[r].expected, {Account[c] : c \in todo}, ParsedBy[r])
     /\ \A c \in todo : Decidable(c, given[c])
     /\ run' = [run EXCEPT ![r] = "POSTED"]
     /\ cand' = [c \in Candidates |-> IF c \in todo THEN NewStatus(fate[c]) ELSE cand[c]]
     /\ review' = [c \in Candidates |-> IF c \in todo THEN DecidedReview(c, fate[c]) ELSE review[c]]
     /\ sources' = sources \cup
          {<<EvidenceOf(c, fate[c]), c>> : c \in {d \in todo : fate[d] # "EXCLUDE"}}
     /\ exceptions' = exceptions \cup
          {<<Fingerprint(c), MatchedTx(c)>> :
             c \in {d \in posted : fate[d] = "KEEP_BOTH" /\ MatchedTx(d) # None}}
     /\ keyOwner' = [x \in Keys |->
          IF \E c \in posted : Key[c] = x THEN CHOOSE c \in posted : Key[c] = x ELSE keyOwner[x]]
     /\ UNCHANGED <<replays, seen, bindingVars>>

-----------------------------------------------------------------------------
(* rollback_import *)

\* Deleting a candidate sets matched_candidate_id of the reviews that point to
\* it to NULL, which the CHECK of migration 0066 refuses: the rollback fails.
RollbackBlocked(r) ==
  \E c \in Candidates : RunOf[c] # r /\ review[c].candidate \in CandidatesOf(r)

RollbackImport(r) ==
  /\ run[r] = "REVIEW_REQUIRED"
  /\ ~\E c \in CandidatesOf(r) : cand[c] = "POSTED"
  /\ ~RollbackBlocked(r)
  /\ run' = [run EXCEPT ![r] = "ROLLED_BACK"]
  /\ cand' = [c \in Candidates |-> IF RunOf[c] = r THEN "NONE" ELSE cand[c]]
  /\ review' = [c \in Candidates |-> IF RunOf[c] = r THEN NoReview ELSE review[c]]
  /\ replays' = {p \in replays : p[2] # r}
  /\ UNCHANGED <<sources, keyOwner, exceptions, seen, bindingVars>>

-----------------------------------------------------------------------------
Next ==
  \/ BindingNext(AccountsInUse) /\ UNCHANGED importVars
  \/ \E r \in Runs :
       \/ StartImport(r)
       \/ PreviewImport(r)
       \/ \E given \in [Reviewable(r) -> Resolutions \cup {"UNRESOLVED"}] : CommitImport(r, given)
       \/ RollbackImport(r)
  \/ \E c \in Candidates, resolution \in Resolutions : SetDuplicateResolution(c, resolution)

Spec == Init /\ [][Next]_vars

-----------------------------------------------------------------------------
TypeOK ==
  /\ binding \in [Connections -> Binding \cup {NoBinding}]
  /\ generation \in [Connections -> 0..MaxVersion]
  /\ active \in SUBSET Accounts
  /\ profile \in Nat
  /\ run \in [Runs -> RunStatuses]
  /\ cand \in [Candidates -> CandidateStatuses]
  /\ review \in [Candidates -> Review]
  /\ sources \in SUBSET (Candidates \X Candidates)
  /\ replays \in SUBSET (Candidates \X Runs)
  /\ keyOwner \in [Keys -> Candidates \cup {None}]
  /\ exceptions \in SUBSET ({Fingerprint(c) : c \in Candidates} \X Candidates)
  /\ seen \in [Runs -> Seen \cup {None}]

\* The commit fence: when a run is posted, the binding row of its connection is
\* exactly the one its reviewer last loaded, even if it was deleted and created
\* again in between (same version, other accounts).
PostedUnderReviewedBinding ==
  [][\A r \in Runs :
       run[r] = "REVIEW_REQUIRED" /\ run'[r] = "POSTED" =>
         seen[r].content = binding[ConnectionOf[r]]]_vars

\* Two imports of the same external transaction, in any interleaving of their
\* staging and commits, post it once.
OneTransactionPerExternalKey ==
  \A c, d \in Ledger : Key[c] = Key[d] /\ Key[c] # NoKey => c = d

\* Two transactions of the same account, date, amount and direction from
\* different documents are both in the ledger only by an explicit KEEP_BOTH.
DuplicatesAreDeliberate ==
  \A c, d \in Ledger :
    Shape[c] = Shape[d] /\ RunOf[c] # RunOf[d] =>
      "KEEP_BOTH" \in {review[c].decision, review[d].decision}

\* Provenance survives every rollback: a ledger transaction has its candidate as
\* evidence and its run is posted, and a candidate marked DUPLICATE is evidence
\* of a transaction of the ledger.
EvidenceOfLedger ==
  /\ \A c \in Ledger : <<c, c>> \in sources /\ run[RunOf[c]] = "POSTED"
  /\ \A c \in Candidates : cand[c] = "DUPLICATE" => \E t \in Ledger : <<t, c>> \in sources
  /\ \A p \in replays : p[1] \in Ledger /\ run[p[2]] \in {"REVIEW_REQUIRED", "POSTED"}

\* rollback_import, "Removes only staging owned by an unposted run and keeps a
\* rolled-back audit row": an unposted run can be rolled back.
UnpostedRunCanRollBack ==
  \A r \in Runs : run[r] = "REVIEW_REQUIRED" => ~RollbackBlocked(r)
=================================================================================
