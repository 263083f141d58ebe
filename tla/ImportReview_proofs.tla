--------------------------- MODULE ImportReview_proofs ---------------------------
(***************************************************************************)
(* Proofs about the import workflow, for any number of runs, candidates,   *)
(* connections and accounts and any bound on versions.                     *)
(***************************************************************************)
EXTENDS ImportReview, TLAPS

-----------------------------------------------------------------------------
(* Types *)

BindingTypeOK ==
  /\ binding \in [Connections -> Binding \cup {NoBinding}]
  /\ generation \in [Connections -> 0..MaxVersion]
  /\ active \in SUBSET Accounts
  /\ profile \in Nat

LEMMA BindingTypes ==
  ASSUME BindingTypeOK, NEW inUse, BindingNext(inUse)
  PROVE  BindingTypeOK'
<1> USE MaxVersionAssumption DEF BindingTypeOK, Binding, Versions, BumpGeneration
<1>1. ASSUME NEW k \in Connections, NEW accounts \in SUBSET Accounts, NEW pin \in {0, profile},
             CreateBinding(k, accounts, pin)
      PROVE  BindingTypeOK'
  BY <1>1 DEF CreateBinding
<1>2. ASSUME NEW k \in Connections, NEW accounts \in SUBSET Accounts, NEW pin \in {0, profile},
             NEW expected \in Versions, UpdateBinding(k, expected, accounts, pin)
      PROVE  BindingTypeOK'
  BY <1>2 DEF UpdateBinding
<1>3. ASSUME NEW k \in Connections, DeleteBinding(k)
      PROVE  BindingTypeOK'
  BY <1>3 DEF DeleteBinding
<1>4. ASSUME NEW a \in Accounts, ArchiveAccount(a, inUse)
      PROVE  BindingTypeOK'
  BY <1>4 DEF ArchiveAccount
<1>5. CASE EditProfile
  BY <1>5 DEF EditProfile
<1> QED
  BY <1>1, <1>2, <1>3, <1>4, <1>5 DEF BindingNext

LEMMA OwnerType ==
  ASSUME TypeOK, NEW c \in Candidates
  PROVE  Owner(c) \in Candidates \cup {None}
BY DEF TypeOK, Owner, Keys

LEMMA MatchedTxType ==
  ASSUME TypeOK, NEW c \in Candidates
  PROVE  MatchedTx(c) \in Candidates \cup {None}
BY DEF TypeOK, MatchedTx, Review

LEMMA NoReviewType == NoReview \in Review
BY DEF NoReview, Review, Resolutions

LEMMA BestMatchType ==
  ASSUME NEW c \in Candidates, Matches(c) # {}
  PROVE  BestMatch(c) \in Matches(c)
<1> DEFINE Rank(d) == MatchRank(c, d)
<1>1. \A d \in Matches(c) : Rank(d) \in 0..3
  BY DEF MatchRank
<1>2. \E d \in Matches(c) : \A e \in Matches(c) : Rank(d) <= Rank(e)
  <2> HIDE DEF Rank
  <2>1. \/ \E d \in Matches(c) : Rank(d) = 0
        \/ (\A d \in Matches(c) : Rank(d) >= 1) /\ (\E d \in Matches(c) : Rank(d) = 1)
        \/ (\A d \in Matches(c) : Rank(d) >= 2) /\ (\E d \in Matches(c) : Rank(d) = 2)
        \/ \A d \in Matches(c) : Rank(d) = 3
    BY <1>1
  <2> QED
    BY <1>1, <2>1
<1> QED
  BY <1>2 DEF BestMatch

LEMMA StagedReviewType ==
  ASSUME NEW c \in Candidates
  PROVE  StagedReview(c) \in Review
<1>1. Matches(c) \subseteq Candidates
  BY DEF Matches, PostedMatches, PendingMatches, Ledger
<1>2. CASE Matches(c) = {}
  BY <1>2, NoReviewType DEF StagedReview
<1>3. CASE Matches(c) # {}
  <2>1. BestMatch(c) \in Candidates
    BY <1>1, <1>3, BestMatchType
  <2> QED
    BY <1>3, <2>1 DEF StagedReview, NoReview, Review, Resolutions
<1> QED
  BY <1>2, <1>3

LEMMA InitTypes == Init => TypeOK
BY MaxVersionAssumption, NoReviewType
   DEF Init, BindingInit, TypeOK, RunStatuses, CandidateStatuses

LEMMA StartImportTypes ==
  ASSUME TypeOK, NEW r \in Runs, StartImport(r)
  PROVE  TypeOK'
<1> DEFINE replayed == {c \in CandidatesOf(r) : Owner(c) # None}
<1>1. \A c \in replayed : Owner(c) \in Candidates
  BY OwnerType DEF CandidatesOf
<1>2. cand' \in [Candidates -> CandidateStatuses]
  BY DEF TypeOK, StartImport, CandidateStatuses
<1>3. review' \in [Candidates -> Review]
  BY StagedReviewType DEF TypeOK, StartImport
<1>4. replays' \in SUBSET (Candidates \X Runs)
  BY <1>1 DEF TypeOK, StartImport
<1> QED
  BY <1>2, <1>3, <1>4 DEF TypeOK, StartImport, RunStatuses, bindingVars, Fingerprint

LEMMA PreviewImportTypes ==
  ASSUME TypeOK, NEW r \in Runs, PreviewImport(r)
  PROVE  TypeOK'
<1> DEFINE k == ConnectionOf[r]
<1>1. k \in Connections
  BY RunsAssumption
<1>2. Expectation(k) \in [version: 0..MaxVersion, generation: 0..MaxVersion]
  BY <1>1, MaxVersionAssumption DEF TypeOK, Expectation, Binding, Versions
<1>3. seen' \in [Runs -> Seen \cup {None}]
  BY <1>1, <1>2 DEF TypeOK, PreviewImport, Seen
<1> QED
  BY <1>3 DEF TypeOK, PreviewImport, bindingVars, Fingerprint

LEMMA SetDuplicateResolutionTypes ==
  ASSUME TypeOK, NEW c \in Candidates, NEW resolution \in Resolutions,
         SetDuplicateResolution(c, resolution)
  PROVE  TypeOK'
<1>1. review' \in [Candidates -> Review]
  BY MatchedTxType DEF TypeOK, SetDuplicateResolution, Review
<1> QED
  BY <1>1 DEF TypeOK, SetDuplicateResolution, bindingVars, Fingerprint

\* What the checks of commit_import say about one of its candidates.
LEMMA CommitFates ==
  ASSUME TypeOK, NEW c \in Candidates,
         NEW given \in Resolutions \cup {"UNRESOLVED"}, Decidable(c, given)
  PROVE  /\ Fate(c, given) \in {"REPLAY", "POST"} \cup Resolutions
         /\ Fate(c, given) = "REPLAY" <=> Owner(c) # None
         /\ Fate(c, given) = "LINK" => MatchedTx(c) # None
<1>1. Resolution(c, given) \in Resolutions \cup {"UNRESOLVED"}
  BY DEF Resolution, TypeOK, Review
<1> QED
  BY <1>1 DEF Fate, Decidable, Resolutions, HasReview

LEMMA CommitImportTypes ==
  ASSUME TypeOK, NEW r \in Runs,
         NEW given \in [Reviewable(r) -> Resolutions \cup {"UNRESOLVED"}],
         CommitImport(r, given)
  PROVE  TypeOK'
<1> DEFINE todo == Reviewable(r)
           fate == [c \in todo |-> Fate(c, given[c])]
           posted == {c \in todo : fate[c] \in {"POST", "KEEP_BOTH"}}
<1>1. todo \subseteq Candidates
  BY DEF Reviewable, CandidatesOf
<1>2. \A c \in todo : /\ Owner(c) \in Candidates \cup {None}
                      /\ MatchedTx(c) \in Candidates \cup {None}
  BY <1>1, OwnerType, MatchedTxType
<1>3. \A c \in todo : /\ fate[c] \in {"REPLAY", "POST"} \cup Resolutions
                      /\ fate[c] = "REPLAY" <=> Owner(c) # None
                      /\ fate[c] = "LINK" => MatchedTx(c) # None
  BY <1>1, CommitFates DEF CommitImport
<1> HIDE DEF todo, fate
<1>4. cand' \in [Candidates -> CandidateStatuses]
  <2>1. \A c \in todo : NewStatus(fate[c]) \in CandidateStatuses
    BY DEF NewStatus, CandidateStatuses
  <2>2. cand' = [c \in Candidates |-> IF c \in todo THEN NewStatus(fate[c]) ELSE cand[c]]
    BY DEF CommitImport, todo, fate
  <2> QED
    BY <2>1, <2>2 DEF TypeOK
<1>5. review' \in [Candidates -> Review]
  <2>1. \A c \in todo : DecidedReview(c, fate[c]) \in Review
    BY <1>1, <1>2, <1>3 DEF DecidedReview, TypeOK, Review, Resolutions
  <2>2. review' = [c \in Candidates |-> IF c \in todo THEN DecidedReview(c, fate[c]) ELSE review[c]]
    BY DEF CommitImport, todo, fate
  <2> QED
    BY <2>1, <2>2 DEF TypeOK
<1>6. sources' \in SUBSET (Candidates \X Candidates)
  <2>1. \A c \in todo : EvidenceOf(c, fate[c]) \in Candidates
    BY <1>1, <1>2, <1>3 DEF EvidenceOf
  <2>2. sources' = sources \cup
          {<<EvidenceOf(c, fate[c]), c>> : c \in {d \in todo : fate[d] # "EXCLUDE"}}
    BY DEF CommitImport, todo, fate
  <2> QED
    BY <1>1, <2>1, <2>2 DEF TypeOK
<1>7. exceptions' \in SUBSET ({Fingerprint(c) : c \in Candidates} \X Candidates)
  <2>1. exceptions' = exceptions \cup
          {<<Fingerprint(c), MatchedTx(c)>> :
             c \in {d \in posted : fate[d] = "KEEP_BOTH" /\ MatchedTx(d) # None}}
    BY DEF CommitImport, todo, fate
  <2> QED
    BY <1>1, <1>2, <2>1 DEF TypeOK
<1>8. keyOwner' \in [Keys -> Candidates \cup {None}]
  <2>1. keyOwner' = [x \in Keys |->
          IF \E c \in posted : Key[c] = x THEN CHOOSE c \in posted : Key[c] = x ELSE keyOwner[x]]
    BY DEF CommitImport, todo, fate
  <2> QED
    BY <1>1, <2>1 DEF TypeOK
<1> QED
  BY <1>4, <1>5, <1>6, <1>7, <1>8
  DEF TypeOK, CommitImport, RunStatuses, bindingVars, Fingerprint

LEMMA RollbackImportTypes ==
  ASSUME TypeOK, NEW r \in Runs, RollbackImport(r)
  PROVE  TypeOK'
BY NoReviewType
   DEF TypeOK, RollbackImport, RunStatuses, CandidateStatuses, bindingVars, Fingerprint

LEMMA StepTypes == TypeOK /\ [Next]_vars => TypeOK'
<1> SUFFICES ASSUME TypeOK, [Next]_vars PROVE TypeOK'
  OBVIOUS
<1>1. CASE BindingNext(AccountsInUse) /\ UNCHANGED importVars
  BY <1>1, BindingTypes DEF TypeOK, BindingTypeOK, importVars, Fingerprint
<1>2. CASE UNCHANGED vars
  BY <1>2 DEF TypeOK, vars, bindingVars, importVars, Fingerprint
<1> QED
  BY <1>1, <1>2, StartImportTypes, PreviewImportTypes, SetDuplicateResolutionTypes,
     CommitImportTypes, RollbackImportTypes
  DEF Next

\* TypeOK holds in every reachable state: bindings, reviews, sources and the
\* expectations of the review screens stay within their types.
THEOREM TypeCorrect == Spec => []TypeOK
BY InitTypes, StepTypes, PTL DEF Spec

-----------------------------------------------------------------------------
(* The commit fence *)

\* A generation is never used twice: a screen whose generation is the current
\* one was loaded from the current row.
SeenIsCurrent ==
  \A r \in Runs : seen[r] # None =>
    LET k == ConnectionOf[r] IN
    /\ seen[r].expected.generation <= generation[k]
    /\ seen[r].expected.generation = generation[k] => seen[r].content = binding[k]

LEMMA BindingSteps ==
  ASSUME TypeOK, NEW inUse, BindingNext(inUse), NEW k \in Connections
  PROVE  \/ generation'[k] = generation[k] /\ binding'[k] = binding[k]
         \/ generation'[k] = generation[k] + 1
BY DEF TypeOK, BindingNext, CreateBinding, UpdateBinding, DeleteBinding, ArchiveAccount,
       EditProfile, BumpGeneration

LEMMA SeenIsCurrentStep ==
  ASSUME TypeOK, SeenIsCurrent, [Next]_vars
  PROVE  SeenIsCurrent'
<1> USE RunsAssumption DEF SeenIsCurrent
<1>1. CASE BindingNext(AccountsInUse) /\ UNCHANGED importVars
  <2> SUFFICES ASSUME NEW r \in Runs, seen[r] # None
               PROVE  LET k == ConnectionOf[r] IN
                      /\ seen[r].expected.generation <= generation'[k]
                      /\ seen[r].expected.generation = generation'[k]
                           => seen[r].content = binding'[k]
    BY <1>1 DEF importVars
  <2>1. ConnectionOf[r] \in Connections /\ generation[ConnectionOf[r]] \in Nat
    BY DEF TypeOK
  <2>2. seen[r].expected.generation \in Nat
    BY DEF TypeOK, Seen
  <2> QED
    BY <1>1, <2>1, <2>2, BindingSteps
<1>2. ASSUME NEW r \in Runs, PreviewImport(r)
      PROVE  SeenIsCurrent'
  BY <1>2 DEF PreviewImport, TypeOK, Expectation, bindingVars
<1>3. CASE UNCHANGED <<seen, bindingVars>>
  BY <1>3 DEF bindingVars
<1> QED
  BY <1>1, <1>2, <1>3
  DEF Next, vars, importVars, StartImport, CommitImport, RollbackImport, SetDuplicateResolution

\* A run is posted only while the binding row of its connection is exactly the
\* row its reviewer last loaded (validate_import_binding_at_review), whatever
\* updates, deletions and re-creations happened in between.
THEOREM CommitFence == Spec => PostedUnderReviewedBinding
<1>1. Init => SeenIsCurrent
  BY DEF Init, SeenIsCurrent
<1>2. TypeOK /\ SeenIsCurrent /\ [Next]_vars =>
        [\A r \in Runs : run[r] = "REVIEW_REQUIRED" /\ run'[r] = "POSTED" =>
           seen[r].content = binding[ConnectionOf[r]]]_vars
  <2> SUFFICES ASSUME TypeOK, SeenIsCurrent, Next, NEW s \in Runs,
                      run[s] = "REVIEW_REQUIRED", run'[s] = "POSTED"
               PROVE  seen[s].content = binding[ConnectionOf[s]]
    OBVIOUS
  <2>1. ASSUME NEW r \in Runs,
               NEW given \in [Reviewable(r) -> Resolutions \cup {"UNRESOLVED"}],
               CommitImport(r, given)
        PROVE  seen[s].content = binding[ConnectionOf[s]]
    <3>1. r = s
      BY <2>1 DEF CommitImport, TypeOK
    <3> QED
      BY <2>1, <3>1 DEF CommitImport, BindingAccepts, SeenIsCurrent
  <2> QED
    BY <2>1
    DEF Next, TypeOK, importVars, StartImport, PreviewImport, RollbackImport,
        SetDuplicateResolution
<1> QED
  BY <1>1, <1>2, TypeCorrect, SeenIsCurrentStep, PTL DEF Spec, PostedUnderReviewedBinding

-----------------------------------------------------------------------------
(* The ledger and its evidence *)

\* Every pointer to a transaction points into the ledger, and an external id
\* posted to the ledger is owned by its transaction.
PointersInv ==
  /\ \A p \in sources : p[1] \in Ledger
  /\ \A x \in Keys : keyOwner[x] # None => keyOwner[x] \in Ledger
  /\ \A c \in Candidates : review[c].tx # None => review[c].tx \in Ledger

KeyOwnersInv ==
  \A c \in Ledger : Key[c] # NoKey => keyOwner[Key[c]] = c

LedgerInv == TypeOK /\ EvidenceOfLedger /\ PointersInv /\ KeyOwnersInv

LEMMA OwnerInLedger ==
  ASSUME LedgerInv, NEW c \in Candidates
  PROVE  Owner(c) \in Ledger \cup {None}
BY DEF LedgerInv, PointersInv, Owner, Keys

LEMMA MatchedTxInLedger ==
  ASSUME LedgerInv, NEW c \in Candidates
  PROVE  MatchedTx(c) \in Ledger \cup {None}
<1>1. \A t \in Candidates : <<t, review[c].candidate>> \in sources => t \in Ledger
  BY DEF LedgerInv, PointersInv
<1> QED
  BY <1>1 DEF LedgerInv, PointersInv, MatchedTx

LEMMA LedgerInit == Init => LedgerInv
<1> SUFFICES ASSUME Init PROVE LedgerInv
  OBVIOUS
<1>1. Ledger = {}
  BY DEF Init, Ledger
<1> QED
  BY <1>1, InitTypes DEF Init, LedgerInv, EvidenceOfLedger, PointersInv, KeyOwnersInv, NoReview

LEMMA StartImportLedger ==
  ASSUME LedgerInv, NEW r \in Runs, StartImport(r)
  PROVE  EvidenceOfLedger' /\ PointersInv' /\ KeyOwnersInv'
<1> USE DEF LedgerInv
<1>1. Ledger' = Ledger
  BY DEF StartImport, Ledger, EvidenceOfLedger, CandidatesOf
<1>2. EvidenceOfLedger'
  <2>1. \A c \in Ledger' : <<c, c>> \in sources' /\ run'[RunOf[c]] = "POSTED"
    BY <1>1, RunsAssumption DEF StartImport, EvidenceOfLedger, TypeOK, Ledger
  <2>2. \A c \in Candidates : cand'[c] = "DUPLICATE" => \E t \in Ledger' : <<t, c>> \in sources'
    BY <1>1 DEF StartImport, EvidenceOfLedger, TypeOK
  <2>3. \A c \in CandidatesOf(r) : Owner(c) # None => Owner(c) \in Ledger
    BY OwnerInLedger DEF CandidatesOf
  <2>4. \A p \in replays' : p[1] \in Ledger' /\ run'[p[2]] \in {"REVIEW_REQUIRED", "POSTED"}
    BY <1>1, <2>3 DEF StartImport, EvidenceOfLedger, TypeOK
  <2> QED
    BY <2>1, <2>2, <2>4 DEF EvidenceOfLedger
<1>3. PointersInv'
  <2>1. \A c \in Candidates : StagedReview(c).tx # None => StagedReview(c).tx \in Ledger
    <3> SUFFICES ASSUME NEW c \in Candidates
                 PROVE  StagedReview(c).tx # None => StagedReview(c).tx \in Ledger
      OBVIOUS
    <3>1. CASE StagedReview(c) = NoReview
      BY <3>1 DEF NoReview
    <3>2. CASE StagedReview(c) = [NoReview EXCEPT !.tx = BestMatch(c)] /\ BestMatch(c) \in Ledger
      BY <3>2 DEF NoReview
    <3>3. CASE StagedReview(c) = [NoReview EXCEPT !.candidate = BestMatch(c)]
      BY <3>3 DEF NoReview
    <3> QED
      BY <3>1, <3>2, <3>3 DEF StagedReview
  <2> QED
    BY <1>1, <2>1 DEF PointersInv, StartImport
<1>4. KeyOwnersInv'
  BY <1>1 DEF KeyOwnersInv, StartImport
<1> QED
  BY <1>2, <1>3, <1>4

LEMMA CommitImportLedger ==
  ASSUME LedgerInv, NEW r \in Runs,
         NEW given \in [Reviewable(r) -> Resolutions \cup {"UNRESOLVED"}],
         CommitImport(r, given)
  PROVE  EvidenceOfLedger' /\ PointersInv' /\ KeyOwnersInv'
<1> USE DEF LedgerInv
<1> DEFINE todo == Reviewable(r)
           fate == [c \in todo |-> Fate(c, given[c])]
           posted == {c \in todo : fate[c] \in {"POST", "KEEP_BOTH"}}
<1>1. /\ todo \subseteq Candidates
      /\ \A c \in todo : RunOf[c] = r /\ cand[c] = "PENDING"
  BY DEF Reviewable, CandidatesOf
<1>2. \A c \in todo : /\ Owner(c) \in Ledger \cup {None}
                      /\ MatchedTx(c) \in Ledger \cup {None}
  BY <1>1, OwnerInLedger, MatchedTxInLedger
<1>3. \A c \in todo : /\ fate[c] \in {"REPLAY", "POST"} \cup Resolutions
                      /\ fate[c] = "REPLAY" <=> Owner(c) # None
                      /\ fate[c] = "LINK" => MatchedTx(c) # None
  BY <1>1, CommitFates DEF CommitImport
<1>4. /\ run' = [run EXCEPT ![r] = "POSTED"]
      /\ cand' = [c \in Candidates |-> IF c \in todo THEN NewStatus(fate[c]) ELSE cand[c]]
      /\ review' = [c \in Candidates |-> IF c \in todo THEN DecidedReview(c, fate[c]) ELSE review[c]]
      /\ sources' = sources \cup
           {<<EvidenceOf(c, fate[c]), c>> : c \in {d \in todo : fate[d] # "EXCLUDE"}}
      /\ keyOwner' = [x \in Keys |->
           IF \E c \in posted : Key[c] = x THEN CHOOSE c \in posted : Key[c] = x ELSE keyOwner[x]]
      /\ replays' = replays
  BY DEF CommitImport
<1> HIDE DEF todo, fate
<1>5. Ledger' = Ledger \cup posted
  BY <1>1, <1>3, <1>4 DEF Ledger, NewStatus, Resolutions
<1>6. \A c \in todo : fate[c] # "EXCLUDE" =>
        EvidenceOf(c, fate[c]) \in Ledger' /\ <<EvidenceOf(c, fate[c]), c>> \in sources'
  BY <1>2, <1>3, <1>4, <1>5 DEF EvidenceOf, Resolutions
<1>7. EvidenceOfLedger'
  <2>1. \A c \in Ledger' : <<c, c>> \in sources' /\ run'[RunOf[c]] = "POSTED"
    <3>1. \A c \in posted : <<c, c>> \in sources'
      BY <1>6 DEF EvidenceOf
    <3> QED
      BY <1>1, <1>4, <1>5, <3>1, RunsAssumption DEF EvidenceOfLedger, TypeOK, Ledger
  <2>2. \A c \in Candidates : cand'[c] = "DUPLICATE" => \E t \in Ledger' : <<t, c>> \in sources'
    <3>1. \A c \in todo : cand'[c] = "DUPLICATE" => fate[c] # "EXCLUDE"
      BY <1>1, <1>4 DEF NewStatus
    <3> QED
      BY <1>4, <1>5, <1>6, <3>1 DEF EvidenceOfLedger
  <2>3. \A p \in replays' : p[1] \in Ledger' /\ run'[p[2]] \in {"REVIEW_REQUIRED", "POSTED"}
    BY <1>4, <1>5 DEF EvidenceOfLedger, TypeOK
  <2> QED
    BY <2>1, <2>2, <2>3 DEF EvidenceOfLedger
<1>8. \A c \in posted : Owner(c) = None
  BY <1>3
<1>9. PointersInv'
  <2>1. \A p \in sources' : p[1] \in Ledger'
    BY <1>4, <1>5, <1>6 DEF PointersInv
  <2>2. \A x \in Keys : keyOwner'[x] # None => keyOwner'[x] \in Ledger'
    BY <1>4, <1>5 DEF PointersInv
  <2>3. \A c \in Candidates : review'[c].tx # None => review'[c].tx \in Ledger'
    <3>1. ASSUME NEW c \in todo
          PROVE  DecidedReview(c, fate[c]).tx \in {review[c].tx, MatchedTx(c)}
      <4>1. review[c] \in Review
        BY <1>1 DEF TypeOK
      <4> QED
        BY <4>1 DEF DecidedReview, Review
    <3> QED
      BY <1>1, <1>2, <1>4, <1>5, <3>1 DEF PointersInv
  <2> QED
    BY <2>1, <2>2, <2>3 DEF PointersInv
<1>10. KeyOwnersInv'
  <2> SUFFICES ASSUME NEW c \in Ledger', Key[c] # NoKey
               PROVE  keyOwner'[Key[c]] = c
    BY DEF KeyOwnersInv
  <2>1. c \in Candidates /\ Key[c] \in Keys
    BY DEF Ledger, Keys
  <2>2. CASE c \in posted
    <3>1. \A d \in posted : Key[d] = Key[c] => d = c
      BY <1>1, <2>2, KeysAssumption
    <3> QED
      BY <1>4, <2>1, <2>2, <3>1
  <2>3. CASE c \in Ledger
    <3>1. \A d \in posted : Key[d] # Key[c]
      BY <1>8, <2>1, <2>3, RunsAssumption DEF KeyOwnersInv, Owner
    <3> QED
      BY <1>4, <2>1, <2>3, <3>1 DEF KeyOwnersInv
  <2> QED
    BY <1>5, <2>2, <2>3
<1> QED
  BY <1>7, <1>9, <1>10

LEMMA RollbackImportLedger ==
  ASSUME LedgerInv, NEW r \in Runs, RollbackImport(r)
  PROVE  EvidenceOfLedger' /\ PointersInv' /\ KeyOwnersInv'
<1> USE DEF LedgerInv
<1>1. Ledger' = Ledger
  BY DEF RollbackImport, Ledger, EvidenceOfLedger
<1>2. EvidenceOfLedger'
  <2>1. \A c \in Ledger' : <<c, c>> \in sources' /\ run'[RunOf[c]] = "POSTED"
    BY <1>1, RunsAssumption DEF RollbackImport, EvidenceOfLedger, TypeOK, Ledger
  <2>2. \A c \in Candidates : cand'[c] = "DUPLICATE" => \E t \in Ledger' : <<t, c>> \in sources'
    BY <1>1 DEF RollbackImport, EvidenceOfLedger, TypeOK
  <2>3. \A p \in replays' : p[1] \in Ledger' /\ run'[p[2]] \in {"REVIEW_REQUIRED", "POSTED"}
    BY <1>1 DEF RollbackImport, EvidenceOfLedger, TypeOK
  <2> QED
    BY <2>1, <2>2, <2>3 DEF EvidenceOfLedger
<1>3. PointersInv'
  BY <1>1 DEF PointersInv, RollbackImport, NoReview
<1>4. KeyOwnersInv'
  BY <1>1 DEF KeyOwnersInv, RollbackImport
<1> QED
  BY <1>2, <1>3, <1>4

LEMMA SetDuplicateResolutionLedger ==
  ASSUME LedgerInv, NEW c \in Candidates, NEW resolution \in Resolutions,
         SetDuplicateResolution(c, resolution)
  PROVE  EvidenceOfLedger' /\ PointersInv' /\ KeyOwnersInv'
<1> USE DEF LedgerInv
<1>1. Ledger' = Ledger /\ UNCHANGED <<run, cand, sources, replays, keyOwner>>
  BY DEF SetDuplicateResolution, Ledger
<1>2. EvidenceOfLedger' /\ KeyOwnersInv'
  BY <1>1 DEF EvidenceOfLedger, KeyOwnersInv
<1>3. \A d \in Candidates : review'[d].tx \in {review[d].tx, MatchedTx(c)}
  BY DEF SetDuplicateResolution, TypeOK, Review
<1>4. PointersInv'
  BY <1>1, <1>3, MatchedTxInLedger DEF PointersInv
<1> QED
  BY <1>2, <1>4

LEMMA LedgerStep == LedgerInv /\ [Next]_vars => LedgerInv'
<1> SUFFICES ASSUME LedgerInv, [Next]_vars PROVE LedgerInv'
  OBVIOUS
<1>1. TypeOK'
  BY StepTypes DEF LedgerInv
<1>2. CASE UNCHANGED <<run, cand, review, sources, replays, keyOwner>>
  <2>1. Ledger' = Ledger
    BY <1>2 DEF Ledger
  <2> QED
    BY <1>1, <1>2, <2>1 DEF LedgerInv, EvidenceOfLedger, PointersInv, KeyOwnersInv
<1>3. UNCHANGED importVars \/ UNCHANGED vars => UNCHANGED <<run, cand, review, sources, replays, keyOwner>>
  BY DEF vars, importVars
<1>4. \A r \in Runs : PreviewImport(r) => UNCHANGED <<run, cand, review, sources, replays, keyOwner>>
  BY DEF PreviewImport
<1> QED
  BY <1>1, <1>2, <1>3, <1>4, StartImportLedger, CommitImportLedger, RollbackImportLedger,
     SetDuplicateResolutionLedger
  DEF Next, LedgerInv

LEMMA LedgerInvariant == Spec => []LedgerInv
BY LedgerInit, LedgerStep, PTL DEF Spec

\* Every transaction of the ledger keeps its evidence, and every candidate marked
\* DUPLICATE is evidence of a transaction of the ledger, through any
\* interleaving of imports, commits and rollbacks.
THEOREM EvidenceKept == Spec => []EvidenceOfLedger
BY LedgerInvariant, PTL DEF LedgerInv

\* An external transaction is posted at most once, however the imports that
\* contain it are interleaved (commit_import looks the key up again).
THEOREM PostedOnce == Spec => []OneTransactionPerExternalKey
<1>1. LedgerInv => OneTransactionPerExternalKey
  BY DEF LedgerInv, KeyOwnersInv, OneTransactionPerExternalKey
<1> QED
  BY <1>1, LedgerInvariant, PTL

-----------------------------------------------------------------------------
(* Duplicates are deliberate *)

\* Two candidates of different runs with the same shape, both under review or in
\* the ledger, are never both without a review; and every exception leaves a
\* transaction of its fingerprint that later candidates still match.
DeliberateInv ==
  /\ \A c \in Ledger : HasReview(c) => review[c].decision = "KEEP_BOTH"
  /\ \A c, d \in Candidates :
       /\ cand[c] \in {"PENDING", "POSTED"} /\ cand[d] \in {"PENDING", "POSTED"}
       /\ Shape[c] = Shape[d] /\ RunOf[c] # RunOf[d]
       => HasReview(c) \/ HasReview(d)
  /\ \A p \in exceptions :
       /\ p[2] \in Ledger
       /\ \E e \in Ledger : Fingerprint(e) = p[1] /\ <<p[1], e>> \notin exceptions

\* stage_duplicate_review finds a match for a candidate whenever another run has
\* a pending or posted candidate of the same shape.
LEMMA StagedHasReview ==
  ASSUME DeliberateInv, NEW c \in Candidates, NEW d \in Candidates,
         Shape[c] = Shape[d], RunOf[c] # RunOf[d], cand[d] \in {"PENDING", "POSTED"}
  PROVE  StagedReview(c) # NoReview
<1>1. Matches(c) # {}
  <2>1. CASE cand[d] = "PENDING"
    BY <2>1 DEF Matches, PendingMatches
  <2>2. CASE cand[d] = "POSTED" /\ <<Fingerprint(c), d>> \notin exceptions
    BY <2>2 DEF Matches, PostedMatches, Ledger
  <2>3. CASE <<Fingerprint(c), d>> \in exceptions
    <3>1. PICK e \in Ledger : Fingerprint(e) = Fingerprint(c) /\ <<Fingerprint(c), e>> \notin exceptions
      BY <2>3 DEF DeliberateInv
    <3>2. Shape[e] = Shape[c]
      BY <3>1 DEF Fingerprint
    <3> QED
      BY <3>1, <3>2 DEF Matches, PostedMatches
  <2> QED
    BY <2>1, <2>2, <2>3
<1>2. BestMatch(c) \in Candidates
  BY <1>1, BestMatchType DEF Matches, PostedMatches, PendingMatches, Ledger
<1> QED
  BY <1>1, <1>2, RunsAssumption DEF StagedReview, NoReview

LEMMA StartImportDeliberate ==
  ASSUME LedgerInv, DeliberateInv, NEW r \in Runs, StartImport(r)
  PROVE  DeliberateInv'
<1> USE DEF LedgerInv
<1> DEFINE staged == CandidatesOf(r) \ {c \in CandidatesOf(r) : Owner(c) # None}
<1>1. /\ \A c \in staged : cand'[c] = "PENDING" /\ review'[c] = StagedReview(c)
      /\ \A c \in Candidates \ staged : cand'[c] = cand[c] /\ review'[c] = review[c]
      /\ exceptions' = exceptions
  BY DEF StartImport, CandidatesOf
<1>2. \A c \in staged : RunOf[c] = r /\ c \notin Ledger
  BY DEF StartImport, CandidatesOf, EvidenceOfLedger
<1> HIDE DEF staged
<1>3. Ledger' = Ledger
  BY <1>1, <1>2 DEF Ledger
<1>4. \A c \in Ledger' : HasReview(c)' => review'[c].decision = "KEEP_BOTH"
  BY <1>1, <1>2, <1>3 DEF DeliberateInv, HasReview, NoReview, Ledger
<1>5. ASSUME NEW c \in Candidates, NEW d \in Candidates,
             cand'[c] \in {"PENDING", "POSTED"}, cand'[d] \in {"PENDING", "POSTED"},
             Shape[c] = Shape[d], RunOf[c] # RunOf[d]
      PROVE  HasReview(c)' \/ HasReview(d)'
  <2>1. CASE c \in staged
    BY <1>1, <1>2, <1>5, <2>1, StagedHasReview DEF HasReview, NoReview
  <2>2. CASE d \in staged
    BY <1>1, <1>2, <1>5, <2>2, StagedHasReview DEF HasReview, NoReview
  <2>3. CASE c \notin staged /\ d \notin staged
    BY <1>1, <1>5, <2>3 DEF DeliberateInv, HasReview, NoReview
  <2> QED
    BY <2>1, <2>2, <2>3
<1>6. \A p \in exceptions' :
        /\ p[2] \in Ledger'
        /\ \E e \in Ledger' : Fingerprint(e) = p[1] /\ <<p[1], e>> \notin exceptions'
  BY <1>1, <1>3 DEF DeliberateInv
<1> QED
  BY <1>4, <1>5, <1>6 DEF DeliberateInv, Fingerprint

LEMMA CommitImportDeliberate ==
  ASSUME LedgerInv, DeliberateInv, NEW r \in Runs,
         NEW given \in [Reviewable(r) -> Resolutions \cup {"UNRESOLVED"}],
         CommitImport(r, given)
  PROVE  DeliberateInv'
<1> USE DEF LedgerInv
<1> DEFINE todo == Reviewable(r)
           fate == [c \in todo |-> Fate(c, given[c])]
           posted == {c \in todo : fate[c] \in {"POST", "KEEP_BOTH"}}
<1>1. /\ todo \subseteq Candidates
      /\ \A c \in todo : RunOf[c] = r /\ cand[c] = "PENDING" /\ review[c] \in Review
  BY DEF Reviewable, CandidatesOf, TypeOK
<1>2. \A c \in todo : MatchedTx(c) \in Ledger \cup {None}
  BY <1>1, MatchedTxInLedger
<1>3. \A c \in todo : /\ fate[c] \in {"REPLAY", "POST"} \cup Resolutions
                      /\ fate[c] = "POST" => ~HasReview(c)
                      /\ fate[c] \in Resolutions => HasReview(c)
  <2>1. \A c \in todo : Decidable(c, given[c])
    BY DEF CommitImport
  <2> QED
    BY <1>1, <2>1, CommitFates DEF Fate, Decidable, Resolution, Review, Resolutions
<1>4. /\ cand' = [c \in Candidates |-> IF c \in todo THEN NewStatus(fate[c]) ELSE cand[c]]
      /\ review' = [c \in Candidates |-> IF c \in todo THEN DecidedReview(c, fate[c]) ELSE review[c]]
      /\ exceptions' = exceptions \cup
           {<<Fingerprint(c), MatchedTx(c)>> :
              c \in {d \in posted : fate[d] = "KEEP_BOTH" /\ MatchedTx(d) # None}}
  BY DEF CommitImport
<1> HIDE DEF todo, fate
<1>5. Ledger' = Ledger \cup posted
  BY <1>1, <1>3, <1>4 DEF Ledger, NewStatus, Resolutions
<1>6. \A c \in todo : /\ (DecidedReview(c, fate[c]) = NoReview <=> ~HasReview(c))
                      /\ fate[c] = "KEEP_BOTH" => DecidedReview(c, fate[c]).decision = "KEEP_BOTH"
  <2> SUFFICES ASSUME NEW c \in todo
               PROVE  /\ (DecidedReview(c, fate[c]) = NoReview <=> ~HasReview(c))
                      /\ fate[c] = "KEEP_BOTH" => DecidedReview(c, fate[c]).decision = "KEEP_BOTH"
    OBVIOUS
  <2>1. review[c] \in Review
    BY <1>1
  <2> QED
    BY <1>3, <2>1 DEF DecidedReview, HasReview, NoReview, Review, Resolutions
<1>7. \A c \in Ledger' : HasReview(c)' => review'[c].decision = "KEEP_BOTH"
  <2>1. \A c \in posted : HasReview(c)' => review'[c].decision = "KEEP_BOTH"
    BY <1>1, <1>3, <1>4, <1>6 DEF HasReview, NoReview
  <2>2. \A c \in Ledger : HasReview(c)' => review'[c].decision = "KEEP_BOTH"
    BY <1>1, <1>4 DEF DeliberateInv, Ledger, HasReview, NoReview
  <2> QED
    BY <1>5, <2>1, <2>2
<1>8. ASSUME NEW c \in Candidates, NEW d \in Candidates,
             cand'[c] \in {"PENDING", "POSTED"}, cand'[d] \in {"PENDING", "POSTED"},
             Shape[c] = Shape[d], RunOf[c] # RunOf[d]
      PROVE  HasReview(c)' \/ HasReview(d)'
  <2>1. cand[c] \in {"PENDING", "POSTED"} /\ cand[d] \in {"PENDING", "POSTED"}
    BY <1>1, <1>4, <1>8
  <2>2. \A e \in Candidates : HasReview(e) => HasReview(e)'
    BY <1>4, <1>6 DEF HasReview, NoReview
  <2> QED
    BY <1>8, <2>1, <2>2 DEF DeliberateInv
<1>9. ASSUME NEW p \in exceptions'
      PROVE  /\ p[2] \in Ledger
             /\ \E e \in Ledger' : Fingerprint(e) = p[1] /\ <<p[1], e>> \notin exceptions'
  <2>1. \A q \in exceptions' :
          \/ q \in exceptions
          \/ \E c \in posted : q = <<Fingerprint(c), MatchedTx(c)>> /\ MatchedTx(c) # None
    BY <1>4
  <2>2. \A q \in exceptions' : q[2] \in Ledger
    BY <1>2, <2>1 DEF DeliberateInv
  <2>3. \A c \in posted : c \notin Ledger
    BY <1>1 DEF Ledger
  <2>4. CASE \E c \in posted : p[1] = Fingerprint(c)
    <3>1. PICK c \in posted : p[1] = Fingerprint(c)
      BY <2>4
    <3>2. <<p[1], c>> \notin exceptions'
      BY <2>2, <2>3
    <3> QED
      BY <1>5, <2>2, <3>1, <3>2
  <2>5. CASE p \in exceptions /\ ~\E c \in posted : p[1] = Fingerprint(c)
    <3>1. PICK e \in Ledger : Fingerprint(e) = p[1] /\ <<p[1], e>> \notin exceptions
      BY <2>5 DEF DeliberateInv
    <3>2. <<p[1], e>> \notin exceptions'
      BY <2>1, <2>5, <3>1
    <3> QED
      BY <1>5, <2>2, <3>1, <3>2
  <2> QED
    BY <2>1, <2>4, <2>5
<1> QED
  BY <1>5, <1>7, <1>8, <1>9 DEF DeliberateInv, Fingerprint

LEMMA RollbackImportDeliberate ==
  ASSUME LedgerInv, DeliberateInv, NEW r \in Runs, RollbackImport(r)
  PROVE  DeliberateInv'
<1> USE DEF LedgerInv
<1>1. Ledger' = Ledger
  BY DEF RollbackImport, Ledger, EvidenceOfLedger
<1>2. /\ \A c \in Candidates : RunOf[c] = r => cand'[c] = "NONE"
      /\ \A c \in Candidates : RunOf[c] # r => cand'[c] = cand[c] /\ review'[c] = review[c]
      /\ exceptions' = exceptions
  BY DEF RollbackImport
<1>3. \A c \in Ledger : RunOf[c] # r
  BY DEF RollbackImport, EvidenceOfLedger, CandidatesOf, Ledger
<1>4. \A c \in Ledger' : HasReview(c)' => review'[c].decision = "KEEP_BOTH"
  BY <1>1, <1>2, <1>3 DEF DeliberateInv, HasReview, NoReview, Ledger
<1>5. \A c \in Candidates : cand'[c] \in {"PENDING", "POSTED"} =>
        cand'[c] = cand[c] /\ (HasReview(c)' <=> HasReview(c))
  BY <1>2 DEF HasReview, NoReview
<1> QED
  BY <1>1, <1>2, <1>4, <1>5 DEF DeliberateInv, Fingerprint

LEMMA SetDuplicateResolutionDeliberate ==
  ASSUME LedgerInv, DeliberateInv, NEW c \in Candidates, NEW resolution \in Resolutions,
         SetDuplicateResolution(c, resolution)
  PROVE  DeliberateInv'
<1> USE DEF LedgerInv
<1>1. Ledger' = Ledger /\ UNCHANGED <<cand, exceptions>>
  BY DEF SetDuplicateResolution, Ledger
<1>2. c \notin Ledger
  BY DEF SetDuplicateResolution, EvidenceOfLedger
<1>3. review'[c].decision = resolution /\ \A d \in Candidates \ {c} : review'[d] = review[d]
  BY DEF SetDuplicateResolution, TypeOK
<1>4. \A d \in Candidates : HasReview(d) => HasReview(d)'
  BY <1>3 DEF HasReview, NoReview, Resolutions
<1>5. \A d \in Ledger : review'[d] = review[d]
  BY <1>2, <1>3 DEF Ledger
<1> QED
  BY <1>1, <1>4, <1>5 DEF DeliberateInv, HasReview, NoReview, Fingerprint

LEMMA DeliberateStep == LedgerInv /\ DeliberateInv /\ [Next]_vars => DeliberateInv'
<1> SUFFICES ASSUME LedgerInv, DeliberateInv, [Next]_vars PROVE DeliberateInv'
  OBVIOUS
<1>1. CASE UNCHANGED <<cand, review, exceptions>>
  BY <1>1 DEF DeliberateInv, Ledger, HasReview, NoReview, Fingerprint
<1>2. UNCHANGED importVars \/ UNCHANGED vars => UNCHANGED <<cand, review, exceptions>>
  BY DEF vars, importVars
<1>3. \A r \in Runs : PreviewImport(r) => UNCHANGED <<cand, review, exceptions>>
  BY DEF PreviewImport
<1> QED
  BY <1>1, <1>2, <1>3, StartImportDeliberate, CommitImportDeliberate, RollbackImportDeliberate,
     SetDuplicateResolutionDeliberate
  DEF Next

\* Two documents that describe the same transaction put it into the ledger twice
\* only if a reviewer decided KEEP_BOTH, in whatever order they are staged,
\* reviewed, committed and rolled back; a keep-both exception never hides a
\* transaction from a later third document (stage_duplicate_review).
THEOREM Deliberate == Spec => []DuplicatesAreDeliberate
<1>1. Init => DeliberateInv
  BY DEF Init, DeliberateInv, Ledger
<1>2. DeliberateInv => DuplicatesAreDeliberate
  BY DEF DeliberateInv, DuplicatesAreDeliberate, Ledger
<1> QED
  BY <1>1, <1>2, LedgerInvariant, DeliberateStep, PTL DEF Spec
=================================================================================
