---------------------------- MODULE Exchange_proofs ----------------------------
(*****************************************************************************)
(* Proofs about the components of MCExchange: mobile capture for any set     *)
(* of images, any number of captures, any page size of the relay and any     *)
(* number of faults, sending family artifacts for any number of ledger       *)
(* edits, recipient changes and faults, change packages for any              *)
(* installations and entities and any number of edits and packages, the      *)
(* Gmail mirror for any set of messages and any number of records and        *)
(* faults, and the four together.                                            *)
(*****************************************************************************)
EXTENDS MCExchange, Numbers_proofs, FiniteSetTheorems

-----------------------------------------------------------------------------
(* Mobile capture *)

\* What the proofs ask of the constants.
MobileSetting == MaxCaptures \in Nat /\ RelayPage \in Nat

-----------------------------------------------------------------------------
(* Types *)

CaptureStates ==
  {"ABSENT", "RECEIVED", "OCR_READY", "OCR_REVIEW_REQUIRED", "PROMOTED", "DUPLICATE"}
DocumentStates == {"none", "REVIEW", "POSTED"}
Schedule == [enabled : BOOLEAN, suspended : BOOLEAN, token : 0..2, live : BOOLEAN]
Intake == [pc : {"idle", "list", "page", "done", "failed"}, token : 0..2,
           page : SUBSET Captures, next : 0..MaxCaptures]

PhotoTypeOK == photo \in [Captures -> [image : Images, other : BOOLEAN]]
RelayTypeOK == published \in 0..MaxCaptures /\ cursor \in 0..published

\* Only the worker takes a lease, and an idle intake has none.
IntakeTypeOK ==
  /\ intakeOn \in Schedule /\ (intakeOn.live => intakeOn.token # 0)
  /\ intake \in [Intakes -> Intake]
  /\ \A i \in Intakes : intake[i].pc = "idle" \/ i = "screen" => intake[i].token = 0

RowTypeOK ==
  /\ captures \in [Artifacts -> CaptureStates]
  /\ documents \in [Images -> DocumentStates]
  /\ upload.pc = "start" => upload.image \in Images

\* An intake that works on a page: the page lies below its boundary, and every
\* capture of another device up to the boundary is on it or has its row.
PageInv ==
  \A i \in Intakes : intake[i].pc = "page" =>
    /\ intake[i].next <= published
    /\ \A c \in intake[i].page : c <= intake[i].next
    /\ \A c \in Captures : c <= intake[i].next /\ Other(c) =>
         c \in intake[i].page \/ captures[c] # "ABSENT"

\* The inductive invariant of the intake.
IntakeInv == PhotoTypeOK /\ RelayTypeOK /\ IntakeTypeOK /\ RowTypeOK /\ PageInv /\ NothingSkipped

-----------------------------------------------------------------------------
(* The relay's pages *)

LEMMA MatchingCount ==
  ASSUME MobileSetting, RelayTypeOK, NEW after \in Nat
  PROVE  \A S \in SUBSET Matching(after) : \A T \in SUBSET S :
           /\ Cardinality(S) \in Nat /\ Cardinality(T) \in Nat
           /\ Cardinality(T) <= Cardinality(S)
<1>1. Matching(after) \in SUBSET (1..published) /\ published \in Int
  BY DEF Matching, MobileSetting, RelayTypeOK
<1>2. IsFiniteSet(1..published)
  BY <1>1, FS_Interval
<1> SUFFICES ASSUME NEW S \in SUBSET Matching(after), NEW T \in SUBSET S
             PROVE  /\ Cardinality(S) \in Nat /\ Cardinality(T) \in Nat
                    /\ Cardinality(T) <= Cardinality(S)
  OBVIOUS
<1>3. IsFiniteSet(S)
  <2>1. S \in SUBSET (1..published)
    BY <1>1
  <2> QED
    BY <1>2, <2>1, FS_Subset
<1> QED
  BY <1>3, FS_Subset, FS_CardinalityType

\* The page holds every capture of another device between the cursor and the
\* boundary the relay answers with.
LEMMA PageComplete ==
  ASSUME MobileSetting, PhotoTypeOK, RelayTypeOK, NEW next \in 0..published, BoundaryAfter(cursor, next)
  PROVE  /\ PageAfter(cursor) \subseteq Captures
         /\ \A c \in PageAfter(cursor) : c <= next
         /\ \A c \in Captures : cursor < c /\ c <= next /\ Other(c) => c \in PageAfter(cursor)
<1> DEFINE M == Matching(cursor)
           UpTo(c) == {d \in M : d <= c}
<1>1. cursor \in Nat /\ published \in Nat /\ published <= MaxCaptures /\ M \subseteq 1..published
  BY DEF MobileSetting, RelayTypeOK, Matching
<1>2. PageAfter(cursor) = {c \in M : Cardinality(UpTo(c)) <= RelayPage}
  BY DEF PageAfter
<1>3. \A c \in PageAfter(cursor) : c <= next
  BY <1>1, <1>2 DEF BoundaryAfter
<1>4. ASSUME NEW c \in Captures, cursor < c, c <= next, Other(c)
      PROVE  c \in PageAfter(cursor)
  <2>1. c \in M
    BY <1>1, <1>4 DEF Matching, Captures
  <2>2. Cardinality(UpTo(c)) <= RelayPage
    <3>1. CASE Cardinality(M) >= RelayPage
      <4>1. next \in M /\ Cardinality(UpTo(next)) <= RelayPage
        BY <1>2, <3>1 DEF BoundaryAfter
      <4>2. UpTo(c) \in SUBSET UpTo(next) /\ UpTo(next) \in SUBSET M
        BY <1>1, <1>4 DEF Captures
      <4> HIDE DEF UpTo, M
      <4>3. /\ Cardinality(UpTo(c)) \in Nat /\ Cardinality(UpTo(next)) \in Nat
            /\ Cardinality(UpTo(c)) <= Cardinality(UpTo(next))
        BY <1>1, <4>2, MatchingCount DEF M
      <4> QED
        BY <4>1, <4>3 DEF MobileSetting
    <3>2. CASE ~(Cardinality(M) >= RelayPage)
      <4>1. UpTo(c) \in SUBSET M
        OBVIOUS
      <4> HIDE DEF UpTo, M
      <4>2. /\ Cardinality(UpTo(c)) \in Nat /\ Cardinality(M) \in Nat
            /\ Cardinality(UpTo(c)) <= Cardinality(M)
        BY <1>1, <4>1, MatchingCount DEF M
      <4> QED
        BY <3>2, <4>2 DEF MobileSetting
    <3> QED
      BY <3>1, <3>2
  <2> QED
    BY <1>2, <2>1, <2>2
<1>5. PageAfter(cursor) \subseteq Captures
  BY <1>1, <1>2 DEF Captures, MobileSetting
<1> QED
  BY <1>3, <1>4, <1>5

-----------------------------------------------------------------------------
(* The steps of the intakes *)

LEMMA IdleIntake ==
  ASSUME MobileSetting
  PROVE  NoIntake \in Intake /\ NoIntake.pc = "idle" /\ NoIntake.token = 0
BY DEF MobileSetting, NoIntake, Intake

\* An intake that gives up keeps its lease until finish and works on no page.
LEMMA GiveUp ==
  ASSUME MobileSetting, IntakeTypeOK, NEW i \in Intakes
  PROVE  /\ GivesUp(i) \in Intake
         /\ GivesUp(i).pc \in {"idle", "failed"}
         /\ GivesUp(i).pc = "idle" \/ i = "screen" => GivesUp(i).token = 0
BY IdleIntake DEF GivesUp, IntakeTypeOK, Intake

\* What an intake does to itself alone: it ends up on no page, or off.
LEMMA LeavesPage ==
  ASSUME MobileSetting, IntakeInv, NEW i \in Intakes, NEW new \in Intake,
         new.pc # "page", new.pc = "idle" \/ i = "screen" => new.token = 0,
         intake' = [intake EXCEPT ![i] = new],
         UNCHANGED <<photo, published, cursor, captures>>
  PROVE  /\ intake' \in [Intakes -> Intake]
         /\ \A j \in Intakes : intake'[j].pc = "idle" \/ j = "screen" => intake'[j].token = 0
         /\ PhotoTypeOK' /\ RelayTypeOK' /\ PageInv' /\ NothingSkipped'
<1>1. intake' \in [Intakes -> Intake] /\ intake'[i] = new
      /\ \A j \in Intakes \ {i} : intake'[j] = intake[j]
  BY DEF IntakeInv, IntakeTypeOK
<1> QED
  BY <1>1 DEF IntakeInv, IntakeTypeOK, PhotoTypeOK, RelayTypeOK, PageInv, NothingSkipped, Other

LEMMA PublishKeeps ==
  ASSUME MobileSetting, IntakeInv, publish_capture
  PROVE  IntakeInv'
<1>1. RelayTypeOK'
  BY DEF MobileSetting, IntakeInv, RelayTypeOK, publish_capture, intakeVars
<1>2. published <= published'
  BY DEF MobileSetting, IntakeInv, RelayTypeOK, publish_capture
<1>3. \A i \in Intakes : intake[i].next \in Nat
  BY DEF IntakeInv, IntakeTypeOK, Intake
<1>4. PageInv'
  BY <1>2, <1>3 DEF MobileSetting, IntakeInv, RelayTypeOK, PageInv, publish_capture, intakeVars, Other
<1> QED
  BY <1>1, <1>4
  DEF IntakeInv, PhotoTypeOK, IntakeTypeOK, RowTypeOK, NothingSkipped, publish_capture,
      intakeVars, reviewVars, Other

LEMMA ScheduleKeeps ==
  ASSUME IntakeInv, intakeOn' \in Schedule, intakeOn'.live => intakeOn'.token # 0,
         UNCHANGED <<photo, published, cursor, intake, captures, reviewVars>>
  PROVE  IntakeInv'
BY DEF IntakeInv, PhotoTypeOK, RelayTypeOK, IntakeTypeOK, RowTypeOK, PageInv, NothingSkipped,
       reviewVars, Other

LEMMA ScheduleSteps ==
  ASSUME IntakeInv,
         \/ \E enabled \in BOOLEAN : configure(enabled)
         \/ background_status
         \/ IntakeLeaseExpires
  PROVE  IntakeInv'
<1> USE DEF IntakeInv, IntakeTypeOK
<1>1. ASSUME NEW enabled \in BOOLEAN, configure(enabled)
      PROVE  IntakeInv'
  BY <1>1, ScheduleKeeps DEF configure, Schedule
<1>2. CASE background_status
  <2>1. intakeOn' \in Schedule /\ (intakeOn'.live => intakeOn'.token # 0)
    BY <1>2 DEF background_status, recover_expired, Schedule
  <2> QED
    BY <1>2, <2>1, ScheduleKeeps DEF background_status
<1>3. CASE IntakeLeaseExpires
  <2>1. intakeOn' \in Schedule /\ (intakeOn'.live => intakeOn'.token # 0)
    BY <1>3 DEF IntakeLeaseExpires, Schedule
  <2> QED
    BY <1>3, <2>1, ScheduleKeeps DEF IntakeLeaseExpires
<1> QED
  BY <1>1, <1>2, <1>3

LEMMA Listing ==
  ASSUME MobileSetting, NEW t \in 0..2, NEW new, new = [NoIntake EXCEPT !.pc = "list", !.token = t]
  PROVE  new \in Intake /\ new.pc = "list"
<1>1. new = [pc |-> "list", token |-> t, page |-> {}, next |-> 0]
  BY DEF NoIntake
<1> QED
  BY <1>1 DEF Intake, MobileSetting

LEMMA ClaimKeeps ==
  ASSUME MobileSetting, IntakeInv, NEW i \in Intakes, claim_due(i)
  PROVE  IntakeInv'
<1>1. i = "worker" /\ intakeOn.token = 0 /\ \A j \in Intakes : intake[j].token = 0
  BY DEF claim_due, Due, IntakeInv, IntakeTypeOK, Intakes
<1>2. PICK t \in 0..2 : t = NewLease /\ t # 0
  <2>1. NewLease \in 1..2
    BY <1>1 DEF NewLease
  <2> QED
    BY <2>1
<1>3. PICK new : new = [NoIntake EXCEPT !.pc = "list", !.token = t]
  OBVIOUS
<1>4. PICK on : on = [intakeOn EXCEPT !.token = t, !.live = TRUE]
  OBVIOUS
<1>5. intake' = [intake EXCEPT ![i] = new] /\ intakeOn' = on
  BY <1>2, <1>3, <1>4 DEF claim_due
<1>6. new \in Intake /\ new.pc = "list"
  BY <1>3, Listing
<1>7. on \in Schedule /\ on.token # 0
  <2>1. intakeOn \in Schedule
    BY DEF IntakeInv, IntakeTypeOK
  <2>2. on = [enabled |-> intakeOn.enabled, suspended |-> intakeOn.suspended,
              token |-> t, live |-> TRUE]
    BY <1>4, <2>1 DEF Schedule
  <2> QED
    BY <1>2, <2>1, <2>2 DEF Schedule
<1> QED
  BY <1>1, <1>5, <1>6, <1>7, LeavesPage
  DEF IntakeInv, IntakeTypeOK, RowTypeOK, claim_due, reviewVars

LEMMA CaptureListKeeps ==
  ASSUME MobileSetting, IntakeInv, NEW i \in Intakes, list_captures(i)
  PROVE  IntakeInv'
<1> USE DEF IntakeInv
<1>1. CASE intake' = [intake EXCEPT ![i] = GivesUp(i)]
  BY <1>1, GiveUp, LeavesPage DEF IntakeTypeOK, RowTypeOK, list_captures, reviewVars
<1>2. ASSUME NEW next \in 0..published, BoundaryAfter(cursor, next),
             intake' = [intake EXCEPT ![i] =
               [@ EXCEPT !.pc = "page", !.page = PageAfter(cursor), !.next = next]]
      PROVE  IntakeInv'
  <2> DEFINE new == [intake[i] EXCEPT !.pc = "page", !.page = PageAfter(cursor), !.next = next]
  <2>1. /\ PageAfter(cursor) \subseteq Captures
        /\ \A c \in PageAfter(cursor) : c <= next
        /\ \A c \in Captures : cursor < c /\ c <= next /\ Other(c) => c \in PageAfter(cursor)
    BY <1>2, PageComplete
  <2>2. next \in 0..MaxCaptures
    BY DEF MobileSetting, RelayTypeOK
  <2>3. /\ new \in Intake /\ new.page = PageAfter(cursor) /\ new.next = next
        /\ new.token = intake[i].token /\ new.pc = "page"
    BY <2>1, <2>2 DEF IntakeTypeOK, Intake
  <2>4. intake' = [intake EXCEPT ![i] = new]
    BY <1>2
  <2> HIDE DEF new
  <2>5. /\ intake' \in [Intakes -> Intake] /\ intake'[i] = new
        /\ \A j \in Intakes \ {i} : intake'[j] = intake[j]
    BY <2>3, <2>4 DEF IntakeTypeOK
  <2>6. UNCHANGED <<photo, published, cursor, intakeOn, captures, documents, upload>>
    BY DEF list_captures, reviewVars
  <2>7. IntakeTypeOK'
    <3>1. i = "screen" => new.token = 0
      BY <2>3 DEF IntakeTypeOK
    <3> QED
      BY <2>3, <2>5, <2>6, <3>1 DEF IntakeTypeOK
  <2>8. PageInv'
    <3>1. \A c \in Captures : c <= next /\ Other(c) =>
            c \in PageAfter(cursor) \/ captures[c] # "ABSENT"
      BY <2>1 DEF NothingSkipped, RelayTypeOK, Captures, MobileSetting
    <3>2. next <= published
      BY DEF RelayTypeOK, MobileSetting
    <3> QED
      BY <2>1, <2>3, <2>5, <2>6, <3>1, <3>2 DEF PageInv, Other
  <2> QED
    BY <2>6, <2>7, <2>8 DEF PhotoTypeOK, RelayTypeOK, RowTypeOK, NothingSkipped, Other
<1> QED
  BY <1>1, <1>2 DEF list_captures

LEMMA ReceiveKeeps ==
  ASSUME MobileSetting, IntakeInv, NEW i \in Intakes, NEW c \in Captures, NEW ok \in BOOLEAN,
         receive_capture(i, c, ok)
  PROVE  IntakeInv'
<1> USE DEF IntakeInv
<1>1. UNCHANGED <<photo, published, intakeOn, documents, upload>>
  BY DEF receive_capture, reviewVars
<1>2. CASE intake' = [intake EXCEPT ![i] = GivesUp(i)] /\ UNCHANGED <<cursor, captures>>
  BY <1>1, <1>2, GiveUp, LeavesPage DEF IntakeTypeOK, RowTypeOK
<1>3. CASE ok /\ Allowed(i)
  <2> DEFINE new == [intake[i] EXCEPT !.page = intake[i].page \ {c}]
  <2>1. /\ intake[i].pc = "page" /\ c \in intake[i].page /\ \A d \in intake[i].page : c <= d
        /\ intake' = [intake EXCEPT ![i] = new]
        /\ ingest_with_cursor(i, c, ok)
    BY <1>3 DEF receive_capture
  <2>2. /\ new \in Intake /\ new.pc = "page" /\ new.page = intake[i].page \ {c}
        /\ new.next = intake[i].next /\ new.token = intake[i].token
    BY <2>1 DEF IntakeTypeOK, Intake
  <2> HIDE DEF new
  <2>3. /\ intake' \in [Intakes -> Intake] /\ intake'[i] = new
        /\ \A j \in Intakes \ {i} : intake'[j] = intake[j]
    BY <2>1, <2>2 DEF IntakeTypeOK
  <2>4. IntakeTypeOK'
    <3>1. i = "screen" => new.token = 0
      BY <2>2 DEF IntakeTypeOK
    <3> QED
      BY <1>1, <2>2, <2>3, <3>1 DEF IntakeTypeOK
  <2>5. /\ captures' \in [Artifacts -> CaptureStates] /\ captures'[c] # "ABSENT"
        /\ \A a \in Artifacts : captures'[a] = "ABSENT" => captures[a] = "ABSENT"
    BY <1>3, <2>1 DEF ingest_with_cursor, RowTypeOK, CaptureStates, Artifacts
  <2>6. /\ c \in Nat /\ c <= intake[i].next /\ intake[i].next <= published
        /\ intake[i].next \in Nat /\ published \in Nat /\ cursor \in Nat /\ Captures \subseteq Nat
    BY <2>1 DEF PageInv, Captures, IntakeTypeOK, Intake, RelayTypeOK, MobileSetting
  <2>7. cursor' = cursor \/ (cursor' = c /\ cursor <= c)
    BY <2>1 DEF ingest_with_cursor, advance_cursor
  <2>8. RelayTypeOK'
    BY <1>1, <2>6, <2>7 DEF RelayTypeOK, MobileSetting
  <2>9. \A d \in Captures : d <= c /\ Other(d) => captures'[d] # "ABSENT"
    <3> SUFFICES ASSUME NEW d \in Captures, d <= c, Other(d)
                 PROVE  captures'[d] # "ABSENT"
      OBVIOUS
    <3>1. d <= intake[i].next
      <4>1. \A n \in Nat : d \in Nat /\ c \in Nat /\ c <= n => d <= n
        OBVIOUS
      <4>2. d \in Nat
        BY <2>6
      <4> QED
        BY <2>6, <4>1, <4>2, Zenon
    <3>2. d \in intake[i].page \/ captures[d] # "ABSENT"
      BY <2>1, <3>1 DEF IntakeInv, PageInv
    <3>3. d \in intake[i].page => d = c
      BY <2>1, <2>6
    <3> QED
      BY <2>5, <3>2, <3>3 DEF Artifacts
  <2>10. NothingSkipped'
    BY <1>1, <2>5, <2>7, <2>9 DEF NothingSkipped, Other, Artifacts
  <2>11. PageInv'
    <3> SUFFICES ASSUME NEW j \in Intakes, intake'[j].pc = "page"
                 PROVE  /\ intake'[j].next <= published'
                        /\ \A d \in intake'[j].page : d <= intake'[j].next
                        /\ \A d \in Captures : d <= intake'[j].next /\ Other(d) =>
                             d \in intake'[j].page \/ captures'[d] # "ABSENT"
      BY <1>1 DEF PageInv, Other
    <3>1. /\ intake[j].pc = "page" /\ intake'[j].next = intake[j].next
          /\ intake'[j].page \subseteq intake[j].page
          /\ \A d \in intake[j].page : d \in intake'[j].page \/ d = c
      BY <2>1, <2>2, <2>3
    <3>2. \A d \in Captures : captures'[d] = "ABSENT" => captures[d] = "ABSENT"
      BY <2>5 DEF Artifacts
    <3> QED
      BY <1>1, <2>5, <3>1, <3>2 DEF PageInv
  <2> QED
    BY <1>1, <2>4, <2>5, <2>8, <2>10, <2>11 DEF PhotoTypeOK, RowTypeOK
<1>4. \/ intake' = [intake EXCEPT ![i] = GivesUp(i)] /\ UNCHANGED <<cursor, captures>>
      \/ ok /\ Allowed(i)
  BY DEF receive_capture, ingest_with_cursor
<1> QED
  BY <1>2, <1>3, <1>4

LEMMA UpdateKeeps ==
  ASSUME MobileSetting, IntakeInv, NEW i \in Intakes, update_cursor(i)
  PROVE  IntakeInv'
<1> USE DEF IntakeInv
<1>1. UNCHANGED <<photo, published, intakeOn, captures, documents, upload>>
  BY DEF update_cursor, reviewVars
<1>2. PICK new \in Intake :
        /\ intake' = [intake EXCEPT ![i] = new]
        /\ new.pc # "page" /\ (new.pc = "idle" \/ i = "screen" => new.token = 0)
  <2>1. CASE i = "screen"
    BY <2>1, IdleIntake DEF update_cursor
  <2>2. CASE i # "screen"
    <3> DEFINE pc == IF Allowed(i) /\ cursor <= intake[i].next THEN "done" ELSE "failed"
               new == [intake[i] EXCEPT !.pc = pc]
    <3>1. intake' = [intake EXCEPT ![i] = new]
      BY <2>2 DEF update_cursor
    <3>2. pc \in {"done", "failed"}
      OBVIOUS
    <3> HIDE DEF pc
    <3>3. new \in Intake /\ new.pc = pc
      BY <3>2 DEF IntakeTypeOK, Intake
    <3> QED
      BY <2>2, <3>1, <3>2, <3>3
  <2> QED
    BY <2>1, <2>2
<1>3. /\ intake' \in [Intakes -> Intake] /\ intake'[i] = new
      /\ \A j \in Intakes \ {i} : intake'[j] = intake[j]
  BY <1>2 DEF IntakeTypeOK
<1>4. IntakeTypeOK' /\ PageInv'
  BY <1>1, <1>2, <1>3 DEF IntakeTypeOK, PageInv, Other
<1>5. /\ intake[i].next \in Nat /\ intake[i].next <= published
      /\ \A c \in Captures : c <= intake[i].next /\ Other(c) => captures[c] # "ABSENT"
  BY DEF update_cursor, PageInv, IntakeTypeOK, Intake
<1>6. cursor' \in {cursor, intake[i].next}
  BY DEF update_cursor, advance_cursor
<1>7. RelayTypeOK' /\ NothingSkipped'
  BY <1>1, <1>5, <1>6 DEF RelayTypeOK, NothingSkipped, MobileSetting, Other
<1> QED
  BY <1>1, <1>4, <1>7 DEF PhotoTypeOK, RowTypeOK

LEMMA FinishKeeps ==
  ASSUME MobileSetting, IntakeInv, NEW i \in Intakes, NEW ok \in BOOLEAN, finish(i, ok)
  PROVE  IntakeInv'
<1>1. intakeOn' \in Schedule /\ (intakeOn'.live => intakeOn'.token # 0)
  <2>0. PICK off : off = [intakeOn EXCEPT !.token = 0, !.live = FALSE, !.suspended = ok]
    OBVIOUS
  <2>1. intakeOn \in Schedule /\ (intakeOn.live => intakeOn.token # 0)
    BY DEF IntakeInv, IntakeTypeOK
  <2>2. off \in Schedule /\ ~off.live
    <3>1. off = [enabled |-> intakeOn.enabled, suspended |-> ok, token |-> 0, live |-> FALSE]
      BY <2>0, <2>1 DEF Schedule
    <3> QED
      BY <2>1, <3>1 DEF Schedule
  <2>3. intakeOn' = intakeOn \/ intakeOn' = off
    BY <2>0 DEF finish, released
  <2> QED
    BY <2>1, <2>2, <2>3
<1>2. intake' = [intake EXCEPT ![i] = NoIntake] /\ UNCHANGED <<photo, published, cursor, captures>>
  BY DEF finish
<1> QED
  BY <1>1, <1>2, IdleIntake, LeavesPage DEF IntakeInv, IntakeTypeOK, RowTypeOK, finish, reviewVars

LEMMA CrashKeeps ==
  ASSUME MobileSetting, IntakeInv, MobileCrash
  PROVE  IntakeInv'
<1>1. intake' \in [Intakes -> Intake] /\ \A i \in Intakes : intake'[i] = NoIntake
  BY IdleIntake DEF MobileCrash
<1>2. upload'.pc = "start" => upload.pc = "start" /\ upload'.image = upload.image
  BY DEF MobileCrash
<1> QED
  BY <1>1, <1>2, IdleIntake
  DEF IntakeInv, PhotoTypeOK, RelayTypeOK, IntakeTypeOK, RowTypeOK, PageInv, NothingSkipped,
      MobileCrash, Other
-----------------------------------------------------------------------------
(* The steps of the review *)

LEMMA ImageOfType == PhotoTypeOK => \A a \in Artifacts : ImageOf(a) \in Images
BY DEF PhotoTypeOK, Artifacts, ImageOf

\* Rows change and no capture's row disappears: the intake is not disturbed.
LEMMA RowsKeep ==
  ASSUME IntakeInv, UNCHANGED <<photo, published, cursor, intakeOn, intake>>, RowTypeOK',
         \A a \in Artifacts : captures[a] # "ABSENT" => captures'[a] # "ABSENT"
  PROVE  IntakeInv'
BY DEF IntakeInv, PhotoTypeOK, RelayTypeOK, IntakeTypeOK, PageInv, NothingSkipped, Other, Artifacts

\* The rows a step of the review writes.
ReviewRows ==
  /\ RowTypeOK'
  /\ \A a \in Artifacts : captures[a] # "ABSENT" => captures'[a] # "ABSENT"

LEMMA ReviewKeeps ==
  ASSUME IntakeInv, MobileReview
  PROVE  IntakeInv'
<1>1. PhotoTypeOK /\ RowTypeOK /\ \A a \in Artifacts : ImageOf(a) \in Images
  BY ImageOfType DEF IntakeInv
<1>2. ASSUME NEW a \in Artifacts, record_extraction(a) \/ mark_ocr_review_required(a)
      PROVE  ReviewRows
  BY <1>1, <1>2
  DEF record_extraction, mark_ocr_review_required, ReviewRows, RowTypeOK, CaptureStates, reviewVars
<1>3. ASSUME NEW a \in Artifacts, promote(a)
      PROVE  ReviewRows
  BY <1>1, <1>3 DEF promote, ReviewRows, RowTypeOK, CaptureStates, DocumentStates
<1>4. ASSUME NEW image \in Images, ingest_local(image)
      PROVE  ReviewRows
  BY <1>1, <1>4 DEF ingest_local, ReviewRows, RowTypeOK, CaptureStates, Artifacts
<1>5. ASSUME NEW image \in Images, upload_put(image)
      PROVE  ReviewRows
  BY <1>1, <1>5 DEF upload_put, ReviewRows, RowTypeOK
<1>6. ASSUME NEW image \in Images,
             commit_image(image) \/ rollback_image(image) \/ rollback_cleanup(image)
      PROVE  ReviewRows
  BY <1>1, <1>6
  DEF commit_image, rollback_image, rollback_cleanup, ReviewRows, RowTypeOK, DocumentStates
<1>7. ASSUME NEW ok \in BOOLEAN, upload_start(ok)
      PROVE  ReviewRows
  <2>1. upload'.pc = "idle" \/ upload' = upload
    BY <1>7 DEF upload_start
  <2> QED
    BY <1>1, <1>7, <2>1 DEF upload_start, ReviewRows, RowTypeOK, DocumentStates
<1>8. ReviewRows
  BY <1>2, <1>3, <1>4, <1>5, <1>6, <1>7 DEF MobileReview
<1>9. UNCHANGED <<photo, published, cursor, intakeOn, intake>>
  BY DEF MobileReview, record_extraction, mark_ocr_review_required, promote, ingest_local,
         upload_put, commit_image, rollback_image, rollback_cleanup, upload_start, intakeVars
<1> QED
  BY <1>8, <1>9, RowsKeep DEF ReviewRows

-----------------------------------------------------------------------------
(* The inductive invariant *)

LEMMA IntakeInvInit ==
  ASSUME MobileSetting, MobileInit
  PROVE  IntakeInv
<1>1. PhotoTypeOK /\ RelayTypeOK /\ NothingSkipped
  BY DEF MobileInit, PhotoTypeOK, RelayTypeOK, NothingSkipped, Captures, MobileSetting
<1>2. IntakeTypeOK /\ PageInv
  BY IdleIntake DEF MobileInit, IntakeTypeOK, PageInv, Schedule
<1>3. RowTypeOK
  BY DEF MobileInit, RowTypeOK, CaptureStates, DocumentStates
<1> QED
  BY <1>1, <1>2, <1>3 DEF IntakeInv

LEMMA IntakeInvStutters ==
  ASSUME IntakeInv, UNCHANGED mobileVars
  PROVE  IntakeInv'
BY DEF mobileVars, IntakeInv, PhotoTypeOK, RelayTypeOK, IntakeTypeOK, RowTypeOK, PageInv,
       NothingSkipped, Other

LEMMA IntakeInvNext ==
  ASSUME MobileSetting, IntakeInv, MobileNext
  PROVE  IntakeInv'
<1>1. CASE publish_capture
  BY <1>1, PublishKeeps
<1>2. CASE background_status \/ IntakeLeaseExpires \/ \E enabled \in BOOLEAN : configure(enabled)
  BY <1>2, ScheduleSteps
<1>3. ASSUME NEW i \in Intakes, claim_due(i) \/ list_captures(i) \/ update_cursor(i)
      PROVE  IntakeInv'
  BY <1>3, ClaimKeeps, CaptureListKeeps, UpdateKeeps
<1>4. ASSUME NEW i \in Intakes, NEW ok \in BOOLEAN, NEW c \in Captures, receive_capture(i, c, ok)
      PROVE  IntakeInv'
  BY <1>4, ReceiveKeeps
<1>5. ASSUME NEW i \in Intakes, NEW ok \in BOOLEAN, finish(i, ok)
      PROVE  IntakeInv'
  BY <1>5, FinishKeeps
<1>6. CASE MobileReview
  BY <1>6, ReviewKeeps
<1>7. CASE MobileCrash
  BY <1>7, CrashKeeps
<1> QED
  BY <1>1, <1>2, <1>3, <1>4, <1>5, <1>6, <1>7 DEF MobileNext, MobileIntake

LEMMA IntakeInvAlways ==
  ASSUME MobileSetting
  PROVE  MobileSpec => []IntakeInv
<1>1. MobileInit => IntakeInv
  BY IntakeInvInit
<1>2. IntakeInv /\ [MobileNext]_mobileVars => IntakeInv'
  BY IntakeInvNext, IntakeInvStutters
<1> QED
  BY <1>1, <1>2, PTL DEF MobileSpec

\* Rows, program counters and cursor are ones the tables and the code can hold,
\* and the stored cursor never runs ahead of what the relay has numbered.
THEOREM MobileTypesCorrect ==
  ASSUME MobileSetting
  PROVE  MobileSpec => []MobileTypeOK
<1>1. IntakeInv => MobileTypeOK
  BY DEF IntakeInv, RelayTypeOK, IntakeTypeOK, RowTypeOK, MobileTypeOK, Intake, CaptureStates,
         DocumentStates
<1> QED
  BY <1>1, IntakeInvAlways, PTL

\* Whatever order the background intake and the screen list, store, fail, crash
\* and lose their lease in, every capture of another device up to the stored
\* cursor has its Inbox row (ingest_with_cursor, update_cursor).
THEOREM CursorLeavesNothingBehind ==
  ASSUME MobileSetting
  PROVE  MobileSpec => []NothingSkipped
<1>1. IntakeInv => NothingSkipped
  BY DEF IntakeInv
<1> QED
  BY <1>1, IntakeInvAlways, PTL

-----------------------------------------------------------------------------
(* Promoted captures and their documents *)

DocumentInv == PhotoTypeOK /\ RowTypeOK /\ PromotedHasDocument

\* Captures are only received, and documents only appear: both stay resolved.
LEMMA DocumentsAppear ==
  ASSUME PromotedHasDocument, UNCHANGED photo,
         \A a \in Artifacts : captures'[a] \in {"PROMOTED", "DUPLICATE"} =>
           captures[a] \in {"PROMOTED", "DUPLICATE"} \/ documents'[ImageOf(a)] # "none",
         \A a \in Artifacts :
           documents[ImageOf(a)] # "none" => documents'[ImageOf(a)] # "none"
  PROVE  PromotedHasDocument'
BY DEF PromotedHasDocument, ImageOf

LEMMA IntakeKeepsDocuments ==
  ASSUME DocumentInv, MobileIntake \/ IntakeLeaseExpires \/ MobileCrash
  PROVE  PromotedHasDocument'
<1>1. UNCHANGED <<photo, documents>>
  BY DEF MobileIntake, IntakeLeaseExpires, MobileCrash, publish_capture, background_status,
         configure, claim_due, list_captures, update_cursor, receive_capture, finish, reviewVars
<1>2. \/ UNCHANGED captures
      \/ \E c \in Captures : captures' = [captures EXCEPT ![c] = "RECEIVED"]
  <2>1. ASSUME NEW i \in Intakes, NEW ok \in BOOLEAN, NEW c \in Captures, receive_capture(i, c, ok)
        PROVE  captures' \in {captures, [captures EXCEPT ![c] = "RECEIVED"]}
    BY <2>1 DEF receive_capture, ingest_with_cursor
  <2> QED
    BY <2>1
    DEF MobileIntake, IntakeLeaseExpires, MobileCrash, publish_capture, background_status,
        configure, claim_due, list_captures, update_cursor, finish
<1> QED
  BY <1>1, <1>2, DocumentsAppear DEF DocumentInv, RowTypeOK

LEMMA ReviewKeepsDocuments ==
  ASSUME DocumentInv, MobileReview
  PROVE  PromotedHasDocument'
<1>1. /\ PhotoTypeOK /\ RowTypeOK /\ PromotedHasDocument
      /\ \A a \in Artifacts : ImageOf(a) \in Images
  BY ImageOfType DEF DocumentInv
<1>2. UNCHANGED photo
  BY DEF MobileReview, record_extraction, mark_ocr_review_required, promote, ingest_local,
         upload_put, commit_image, rollback_image, rollback_cleanup, upload_start
<1>3. ASSUME NEW a \in Artifacts, record_extraction(a) \/ mark_ocr_review_required(a)
      PROVE  PromotedHasDocument'
  BY <1>1, <1>2, <1>3, DocumentsAppear
  DEF record_extraction, mark_ocr_review_required, RowTypeOK, reviewVars
<1>4. ASSUME NEW a \in Artifacts, promote(a)
      PROVE  PromotedHasDocument'
  BY <1>1, <1>2, <1>4, DocumentsAppear DEF promote, RowTypeOK
<1>5. ASSUME NEW image \in Images, ingest_local(image)
      PROVE  PromotedHasDocument'
  BY <1>1, <1>2, <1>5, DocumentsAppear DEF ingest_local, RowTypeOK
<1>6. ASSUME NEW image \in Images,
             upload_put(image) \/ commit_image(image) \/ rollback_cleanup(image)
      PROVE  PromotedHasDocument'
  BY <1>1, <1>2, <1>6, DocumentsAppear DEF upload_put, commit_image, rollback_cleanup, RowTypeOK
<1>7. ASSUME NEW image \in Images, rollback_image(image)
      PROVE  PromotedHasDocument'
  BY <1>1, <1>2, <1>7 DEF rollback_image, deletable, RowTypeOK, PromotedHasDocument, ImageOf
<1>8. ASSUME NEW ok \in BOOLEAN, upload_start(ok)
      PROVE  PromotedHasDocument'
  BY <1>1, <1>2, <1>8, DocumentsAppear DEF upload_start, RowTypeOK
<1> QED
  BY <1>3, <1>4, <1>5, <1>6, <1>7, <1>8 DEF MobileReview

\* A capture that was promoted, or recognised as a duplicate, keeps the document
\* it was resolved to through every rollback of an import
\* (local_document_id REFERENCES source_documents ON DELETE RESTRICT).
THEOREM DocumentsStay ==
  ASSUME MobileSetting
  PROVE  MobileSpec => []PromotedHasDocument
<1>1. MobileInit => PromotedHasDocument
  BY DEF MobileInit, PromotedHasDocument
<1>2. IntakeInv /\ PromotedHasDocument /\ [MobileNext]_mobileVars => PromotedHasDocument'
  <2> SUFFICES ASSUME IntakeInv, PromotedHasDocument, [MobileNext]_mobileVars
               PROVE  PromotedHasDocument'
    OBVIOUS
  <2>1. DocumentInv
    BY DEF DocumentInv, IntakeInv
  <2>2. CASE UNCHANGED mobileVars
    BY <2>2 DEF mobileVars, PromotedHasDocument, ImageOf
  <2> QED
    BY <2>1, <2>2, IntakeKeepsDocuments, ReviewKeepsDocuments DEF MobileNext
<1> QED
  BY <1>1, <1>2, IntakeInvAlways, PTL DEF MobileSpec

-----------------------------------------------------------------------------
(* Sending family artifacts *)

-----------------------------------------------------------------------------
(* The inductive invariant *)

Partitions == [dirty : BOOLEAN, accepted : Nat]
Deliveries == [state : Unsent \cup {"NONE", "RELAY_ACCEPTED"}, version : Nat, envelope : Nat]
RelayRows == [key : Keys, version : Nat \ {0}, envelope : Nat \ {0}]
Uploads == [key : Keys, version : Nat \ {0}, envelope : Nat \ {0}, live : BOOLEAN]
Answers == {"none", "sealed", "accepted", "failed", "changed"}
Procedures ==
  [pc : {"idle", "prepare", "seal", "upload", "reset", "fail"}, keys : SUBSET Keys, known : Nat,
   answer : [Keys -> Answers]]
Rejections == [key : Keys, envelope : Nat \ {0}]

SendTypes ==
  /\ ledger \in Nat \ {0} /\ recipients \in Nat \ {0}
  /\ partition \in [Keys -> Partitions]
  /\ delivery \in [Keys -> Deliveries]
  /\ relayed \subseteq RelayRows /\ IsFiniteSet(relayed)
  /\ requests \subseteq Uploads
  /\ send \in Procedures
  /\ pendingReset \subseteq Rejections

\* A marked partition has edits that are in no accepted package, and every
\* delivery that is not accepted is newer than the accepted one.
VersionsOK ==
  \A k \in Keys :
    /\ delivery[k].version <= ledger
    /\ partition[k].accepted <= delivery[k].version
    /\ partition[k].dirty => partition[k].accepted < ledger
    /\ delivery[k].state = "NONE" <=> delivery[k].version = 0
    /\ delivery[k].state = "RELAY_ACCEPTED" <=>
         delivery[k].version = partition[k].accepted /\ partition[k].accepted # 0

\* The relay will refuse this envelope from now on.
Stale(envelope) == envelope < recipients

\* What is at the relay, or on its way to it, is of no later version than the
\* delivery; of the same version it is the very envelope that will be retried,
\* unless the relay refuses it.
RelayedOK ==
  /\ \A p \in relayed : p.version <= delivery[p.key].version
  /\ \A r \in requests : r.version <= delivery[r.key].version /\ r.envelope <= recipients
  /\ \A p, q \in relayed : p.key = q.key /\ p.version = q.version => p = q
  /\ \A r \in requests : delivery[r.key].state \in Unsent /\ r.version = delivery[r.key].version =>
                           r.envelope = delivery[r.key].envelope \/ Stale(r.envelope)
  /\ \A k \in Keys : delivery[k].envelope <= recipients

Relayed(k) == \E p \in relayed : p.key = k /\ p.version = delivery[k].version

\* The relay refused the envelope of delivery k, and has no other of it.
Refused(k) ==
  delivery[k].state \in Unsent /\ delivery[k].envelope # 0 /\ Stale(delivery[k].envelope) /\ ~Relayed(k)

Sending == {"seal", "upload"}

\* What the procedure knows of the deliveries it sends.
ProcedureOK ==
  /\ send.known <= recipients /\ (send.pc \in {"prepare", "seal"} => send.known # 0)
  /\ send.pc \in Sending => \A k \in send.keys : delivery[k].state \in Unsent
  /\ send.pc \in {"idle", "prepare"} => \A k \in Keys : send.answer[k] = "none"
  /\ send.pc = "seal" => \A k \in Keys : send.answer[k] \in {"none", "sealed"}
  /\ \A k \in Keys : send.answer[k] # "none" => k \in send.keys
  /\ \A k \in Keys : send.pc \in Sending /\ send.answer[k] = "sealed" => delivery[k].envelope # 0
  /\ send.pc \in {"upload", "reset", "fail"} => \A k \in send.keys : send.answer[k] # "none"
  /\ \A k \in send.keys : send.answer[k] = "failed" => delivery[k].state \in Unsent
  /\ send.pc = "upload" => \A k \in send.keys : /\ send.answer[k] = "accepted" => Relayed(k)
                                                /\ send.answer[k] = "changed" => Refused(k)
  /\ \A r \in requests : r.live =>
       /\ send.pc = "upload" /\ r.key \in send.keys /\ send.answer[r.key] = "sealed"
       /\ r.version = delivery[r.key].version /\ r.envelope = delivery[r.key].envelope

\* A reset that is owed is of an envelope the relay refused.
ResetsOK ==
  /\ pendingReset # {} => send.pc \in {"idle", "reset"}
  /\ \A r \in pendingReset : r.envelope = delivery[r.key].envelope /\ Refused(r.key)

SendInv ==
  /\ SendTypes /\ VersionsOK /\ RelayedOK /\ ProcedureOK /\ ResetsOK
  /\ ResendIsIdempotent /\ AcceptedIsRelayed

-----------------------------------------------------------------------------
(* The initial state, and the steps one by one *)

LEMMA SendInvInit == SendInit => SendInv
<1> SUFFICES ASSUME SendInit PROVE SendInv
  OBVIOUS
<1>1. SendTypes
  BY FS_EmptySet
  DEF SendInit, SendTypes, Partitions, Deliveries, NoDelivery, NoSend, Procedures, Answers
<1>2. VersionsOK /\ RelayedOK /\ ProcedureOK /\ ResetsOK
  BY DEF SendInit, VersionsOK, RelayedOK, ProcedureOK, ResetsOK, NoDelivery, NoSend, Unsent, Sending
<1>3. ResendIsIdempotent /\ AcceptedIsRelayed
  BY DEF SendInit, ResendIsIdempotent, AcceptedIsRelayed, NoDelivery
<1> QED
  BY <1>1, <1>2, <1>3 DEF SendInv

LEMMA LedgerEditKeeps == SendInv /\ edit_ledger => SendInv'
<1> SUFFICES ASSUME SendInv, edit_ledger
             PROVE  SendInv'
  OBVIOUS
<1>1. ASSUME NEW k \in Keys
      PROVE  /\ partition'[k] \in Partitions /\ partition'[k].accepted = partition[k].accepted
             /\ partition[k].accepted \in Nat /\ delivery[k].version \in Nat
  BY DEF edit_ledger, SendInv, SendTypes, Partitions, Deliveries
<1>2. ledger \in Nat /\ ledger' = ledger + 1
  BY DEF edit_ledger, SendInv, SendTypes
<1>3. SendTypes'
  BY <1>1, <1>2 DEF edit_ledger, SendInv, SendTypes
<1>4. VersionsOK'
  BY <1>1, <1>2 DEF edit_ledger, SendInv, VersionsOK
<1> QED
  BY <1>3, <1>4
  DEF edit_ledger, SendInv, RelayedOK, ProcedureOK, ResetsOK, Refused, Relayed, Stale,
      ResendIsIdempotent, AcceptedIsRelayed

LEMMA RecipientsKeep == SendInv /\ recipients_change => SendInv'
<1> SUFFICES ASSUME SendInv, recipients_change
             PROVE  SendInv'
  OBVIOUS
<1>1. recipients \in Nat /\ recipients' = recipients + 1
  BY DEF recipients_change, SendInv, SendTypes
<1>2. \A n \in Nat : (n <= recipients => n <= recipients') /\ (n < recipients => n < recipients')
  BY <1>1
<1>3. /\ \A k \in Keys : delivery[k].envelope \in Nat
      /\ \A r \in requests : r.envelope \in Nat
      /\ send.known \in Nat
  BY DEF SendInv, SendTypes, Deliveries, Uploads, Procedures
<1>4. SendTypes'
  BY <1>1 DEF recipients_change, SendInv, SendTypes
<1>5. VersionsOK' /\ RelayedOK'
  BY <1>2, <1>3 DEF recipients_change, SendInv, SendTypes, Uploads, VersionsOK, RelayedOK, Stale
<1>6. \A k \in Keys : Relayed(k)' = Relayed(k) /\ (Refused(k) => Refused(k)')
  BY <1>2, <1>3 DEF recipients_change, Relayed, Refused, Stale
<1>7. ProcedureOK' /\ ResetsOK'
  BY <1>2, <1>3, <1>6 DEF recipients_change, SendInv, SendTypes, Procedures, Rejections, ProcedureOK, ResetsOK
<1> QED
  BY <1>4, <1>5, <1>7 DEF recipients_change, SendInv, ResendIsIdempotent, AcceptedIsRelayed

\* A reset makes the deliveries retryable without the envelope the relay refused.
LEMMA ResetRows ==
  ASSUME SendInv, delivery' = reset_rejected_outbound_envelopes(pendingReset)
  PROVE  /\ delivery' \in [Keys -> Deliveries]
         /\ \A k \in Keys :
              \/ delivery'[k] = delivery[k]
              \/ /\ Refused(k) /\ delivery'[k].state = "FAILED_RETRYABLE"
                 /\ delivery'[k].version = delivery[k].version /\ delivery'[k].envelope = 0
<1>1. ASSUME NEW k \in Keys
      PROVE  /\ delivery'[k] \in Deliveries
             /\ \/ delivery'[k] = delivery[k]
                \/ /\ Refused(k) /\ delivery'[k].state = "FAILED_RETRYABLE"
                   /\ delivery'[k].version = delivery[k].version /\ delivery'[k].envelope = 0
  <2>1. delivery[k] \in Deliveries
    BY DEF SendInv, SendTypes
  <2>2. CASE \E r \in pendingReset : r.key = k
    <3>1. Refused(k)
      BY <2>2 DEF SendInv, ResetsOK
    <3>2. delivery'[k] = [delivery[k] EXCEPT !.state = "FAILED_RETRYABLE", !.envelope = 0]
      BY <2>2 DEF reset_rejected_outbound_envelopes
    <3>3. delivery'[k] =
            [state |-> "FAILED_RETRYABLE", version |-> delivery[k].version, envelope |-> 0]
      BY <2>1, <3>2 DEF Deliveries
    <3> QED
      BY <2>1, <3>1, <3>3 DEF Deliveries, Unsent
  <2>3. CASE ~\E r \in pendingReset : r.key = k
    <3>1. delivery'[k] = delivery[k]
      BY <2>3 DEF reset_rejected_outbound_envelopes
    <3> QED
      BY <2>1, <3>1
  <2> QED
    BY <2>2, <2>3
<1>2. delivery' \in [Keys -> Deliveries]
  BY <1>1 DEF reset_rejected_outbound_envelopes
<1> QED
  BY <1>1, <1>2

\* So what the relay has, or may still take, stays what will be retried.
LEMMA ResetKeeps ==
  ASSUME SendInv, delivery' = reset_rejected_outbound_envelopes(pendingReset),
         UNCHANGED <<ledger, partition, recipients, relayed, requests>>
  PROVE  /\ delivery' \in [Keys -> Deliveries]
         /\ VersionsOK' /\ RelayedOK' /\ ResendIsIdempotent' /\ AcceptedIsRelayed'
<1>1. \A k \in Keys :
        \/ delivery'[k] = delivery[k]
        \/ /\ Refused(k) /\ delivery'[k].state = "FAILED_RETRYABLE"
           /\ delivery'[k].version = delivery[k].version /\ delivery'[k].envelope = 0
  BY ResetRows
<1>2. delivery' \in [Keys -> Deliveries]
  BY ResetRows
<1>3. VersionsOK'
  BY <1>1 DEF SendInv, VersionsOK, Refused, Unsent
<1>4. RelayedOK'
  <2>1. \A r \in requests : r \in Uploads
    BY DEF SendInv, SendTypes
  <2>2. ASSUME NEW r \in requests, delivery'[r.key].state \in Unsent, r.version = delivery'[r.key].version
        PROVE  r.envelope = delivery'[r.key].envelope \/ Stale(r.envelope)
    BY <1>1, <2>1, <2>2 DEF SendInv, RelayedOK, Refused, Uploads
  <2>3. \A k \in Keys : delivery'[k].envelope <= recipients
    BY <1>1 DEF SendInv, SendTypes, RelayedOK
  <2>4. \A k \in Keys : delivery'[k].version = delivery[k].version
    BY <1>1
  <2>5. \A p \in relayed : p \in RelayRows
    BY DEF SendInv, SendTypes
  <2> QED
    BY <2>1, <2>2, <2>3, <2>4, <2>5 DEF SendInv, RelayedOK, Stale, Uploads, RelayRows
<1>5. ResendIsIdempotent'
  BY <1>1 DEF SendInv, ResendIsIdempotent, Refused, Relayed
<1>6. AcceptedIsRelayed'
  BY <1>1 DEF SendInv, AcceptedIsRelayed
<1> QED
  BY <1>2, <1>3, <1>4, <1>5, <1>6

LEMMA BeginKeeps ==
  ASSUME SendInv, NEW keys \in SUBSET Keys \ {{}}, send_begin(keys)
  PROVE  SendInv'
<1>1. /\ delivery' \in [Keys -> Deliveries]
      /\ VersionsOK' /\ RelayedOK' /\ ResendIsIdempotent' /\ AcceptedIsRelayed'
  BY ResetKeeps DEF send_begin
<1>2. /\ send'.pc = "prepare" /\ send'.keys = keys /\ send'.known = recipients
      /\ send'.answer = [k \in Keys |-> "none"] /\ send' \in Procedures
  BY DEF send_begin, NoSend, Procedures, Answers, SendInv, SendTypes
<1>3. SendTypes'
  BY <1>1, <1>2 DEF send_begin, SendInv, SendTypes
<1>4. ~\E r \in requests : r.live
  BY DEF send_begin, SendInv, ProcedureOK
<1>5. ProcedureOK'
  BY <1>2, <1>4 DEF send_begin, SendInv, SendTypes, ProcedureOK, Sending
<1>6. ResetsOK'
  BY DEF send_begin, ResetsOK
<1> QED
  BY <1>1, <1>3, <1>5, <1>6 DEF SendInv

\* A new package is of edits the relay has seen nothing of, its envelope unsealed.
LEMMA PrepareKeeps == SendInv /\ prepare_send => SendInv'
<1> SUFFICES ASSUME SendInv, prepare_send
             PROVE  SendInv'
  OBVIOUS
<1> DEFINE retries == {k \in send.keys : delivery[k].state \in Unsent}
<1>1. ~\E r \in requests : r.live
  BY DEF prepare_send, SendInv, ProcedureOK
<1>2. send \in Procedures /\ send.pc = "prepare" /\ pendingReset = {} /\ send.keys \subseteq Keys
  BY DEF prepare_send, SendInv, SendTypes, Procedures, ResetsOK
<1>3. CASE send' = NoSend /\ delivery' = delivery
  <2>1. SendTypes'
    BY <1>3 DEF prepare_send, SendInv, SendTypes, NoSend, Procedures, Answers
  <2>2. ProcedureOK'
    BY <1>1, <1>3 DEF prepare_send, SendInv, SendTypes, ProcedureOK, NoSend, Sending
  <2> QED
    BY <1>2, <1>3, <2>1, <2>2
    DEF prepare_send, SendInv, VersionsOK, RelayedOK, ResetsOK, Refused, Relayed, Stale,
        ResendIsIdempotent, AcceptedIsRelayed
<1>4. CASE /\ send' = [send EXCEPT !.pc = "seal"]
           /\ delivery' = [k \in Keys |->
                IF k \in send.keys /\ retries = {}
                THEN [state |-> "SENDING", version |-> ledger, envelope |-> 0] ELSE delivery[k]]
           /\ retries = {} \/ retries = send.keys
           /\ retries # {} \/ \A k \in send.keys : partition[k].dirty
  <2> DEFINE new(k) == k \in send.keys /\ retries = {}
  <2>1. /\ send'.pc = "seal" /\ send'.keys = send.keys /\ send'.known = send.known
        /\ send'.answer = send.answer /\ send' \in Procedures
    BY <1>2, <1>4 DEF Procedures
  <2>2. ASSUME NEW k \in Keys
        PROVE  /\ delivery[k] \in Deliveries /\ delivery'[k] \in Deliveries
               /\ partition[k].accepted \in Nat
               /\ new(k) => /\ delivery'[k].state = "SENDING" /\ delivery'[k].version = ledger
                            /\ delivery'[k].envelope = 0
               /\ ~new(k) => delivery'[k] = delivery[k]
    BY <1>4 DEF SendInv, SendTypes, Partitions, Deliveries, Unsent
  <2>3. SendTypes'
    <3>1. delivery' \in [Keys -> Deliveries]
      BY <1>4, <2>2
    <3> QED
      BY <2>1, <3>1 DEF prepare_send, SendInv, SendTypes
  <2>4. ledger \in Nat \ {0}
    BY DEF SendInv, SendTypes
  <2>5. ASSUME NEW k \in Keys, new(k)
        PROVE  delivery[k].version < ledger /\ partition[k].accepted < ledger
    <3>1. delivery[k].state \in {"NONE", "RELAY_ACCEPTED"} /\ partition[k].dirty
      BY <1>4, <2>2, <2>5 DEF Deliveries
    <3> QED
      BY <2>2, <2>4, <3>1 DEF SendInv, VersionsOK, Deliveries
  <2>6. \A k \in send.keys : delivery'[k].state \in Unsent
    BY <1>2, <1>4, <2>2 DEF Unsent
  <2> HIDE DEF new, retries
  <2>7. VersionsOK'
    <3> SUFFICES ASSUME NEW k \in Keys
                 PROVE  /\ delivery'[k].version <= ledger
                        /\ partition[k].accepted <= delivery'[k].version
                        /\ partition[k].dirty => partition[k].accepted < ledger
                        /\ delivery'[k].state = "NONE" <=> delivery'[k].version = 0
                        /\ delivery'[k].state = "RELAY_ACCEPTED" <=>
                             delivery'[k].version = partition[k].accepted /\ partition[k].accepted # 0
      BY DEF prepare_send, VersionsOK
    <3>1. CASE new(k)
      BY <2>2, <2>4, <2>5, <3>1 DEF SendInv, VersionsOK
    <3>2. CASE ~new(k)
      BY <2>2, <3>2 DEF SendInv, VersionsOK
    <3> QED
      BY <3>1, <3>2
  <2>8. RelayedOK'
    <3>1. ASSUME NEW p \in relayed
          PROVE  p.version <= delivery'[p.key].version
      <4>1. p.key \in Keys /\ p.version \in Nat /\ p.version <= delivery[p.key].version
        BY DEF SendInv, SendTypes, RelayedOK, RelayRows
      <4> QED
        BY <2>2, <2>4, <2>5, <4>1 DEF Deliveries
    <3>2. ASSUME NEW r \in requests
          PROVE  /\ r.version <= delivery'[r.key].version /\ r.envelope <= recipients
                 /\ delivery'[r.key].state \in Unsent /\ r.version = delivery'[r.key].version =>
                      r.envelope = delivery'[r.key].envelope \/ Stale(r.envelope)
      <4>1. /\ r.key \in Keys /\ r.version \in Nat /\ r.version <= delivery[r.key].version
            /\ r.envelope <= recipients
        BY DEF SendInv, SendTypes, RelayedOK, Uploads
      <4>2. CASE new(r.key)
        BY <2>2, <2>4, <2>5, <4>1, <4>2 DEF Deliveries
      <4>3. CASE ~new(r.key)
        BY <2>2, <4>1, <4>3 DEF SendInv, RelayedOK
      <4> QED
        BY <4>2, <4>3
    <3>3. \A k \in Keys : delivery'[k].envelope <= recipients
      BY <2>2 DEF SendInv, SendTypes, RelayedOK
    <3> QED
      BY <3>1, <3>2, <3>3 DEF prepare_send, SendInv, RelayedOK, Stale
  <2>9. ProcedureOK'
    BY <1>1, <1>2, <2>1, <2>6 DEF prepare_send, SendInv, ProcedureOK, Sending
  <2>10. ResendIsIdempotent' /\ AcceptedIsRelayed'
    <3>1. ASSUME NEW k \in Keys, NEW p \in relayed, delivery'[k].state \in Unsent, p.key = k,
                 p.version = delivery'[k].version
          PROVE  p.envelope = delivery'[k].envelope
      <4>1. ~new(k)
        <5>1. p.version <= delivery[k].version /\ p.version \in Nat
          BY <3>1 DEF SendInv, SendTypes, RelayedOK, RelayRows
        <5> QED
          BY <2>2, <2>4, <2>5, <3>1, <5>1 DEF Deliveries
      <4> QED
        BY <2>2, <3>1, <4>1 DEF SendInv, ResendIsIdempotent
    <3>2. ASSUME NEW k \in Keys, delivery'[k].state = "RELAY_ACCEPTED"
          PROVE  \E p \in relayed : p.key = k /\ p.version = delivery'[k].version
      BY <2>2, <3>2 DEF SendInv, AcceptedIsRelayed
    <3> QED
      BY <3>1, <3>2 DEF prepare_send, ResendIsIdempotent, AcceptedIsRelayed
  <2> QED
    BY <1>2, <2>3, <2>7, <2>8, <2>9, <2>10 DEF prepare_send, SendInv, ResetsOK
<1> QED
  BY <1>3, <1>4 DEF prepare_send

LEMMA CacheKeeps == ASSUME SendInv, NEW k \in Keys, cache_outbound_envelope(k) PROVE SendInv'
<1>1. /\ send \in Procedures /\ send.pc = "seal" /\ pendingReset = {} /\ k \in send.keys
      /\ send.known \in Nat /\ send.known # 0 /\ send.known <= recipients
      /\ delivery[k].state \in Unsent
  BY DEF cache_outbound_envelope, SendInv, SendTypes, Procedures, ProcedureOK, ResetsOK, Sending
<1>2. ~\E r \in requests : r.live
  BY <1>1 DEF SendInv, ProcedureOK
<1> DEFINE new == IF delivery[k].envelope = 0 THEN send.known ELSE delivery[k].envelope
<1>3. /\ delivery' = [delivery EXCEPT ![k] = [delivery[k] EXCEPT !.envelope = new]]
      /\ send' = [send EXCEPT !.answer = [send.answer EXCEPT ![k] = "sealed"]]
  BY DEF cache_outbound_envelope
<1>4. \A j \in Keys : delivery[j] \in Deliveries
  BY DEF SendInv, SendTypes
<1>5. new \in Nat \ {0} /\ new <= recipients /\ (delivery[k].envelope # 0 => new = delivery[k].envelope)
  BY <1>1, <1>4 DEF SendInv, RelayedOK, Deliveries
<1> HIDE DEF new
<1>6. ASSUME NEW j \in Keys
      PROVE  /\ delivery'[j] \in Deliveries /\ delivery'[j].state = delivery[j].state
             /\ delivery'[j].version = delivery[j].version
             /\ delivery'[j].envelope = IF j = k THEN new ELSE delivery[j].envelope
  BY <1>3, <1>4, <1>5 DEF SendInv, SendTypes, Deliveries
<1>7. /\ send' \in Procedures /\ send'.pc = "seal" /\ send'.keys = send.keys /\ send'.known = send.known
      /\ \A j \in Keys : send'.answer[j] = IF j = k THEN "sealed" ELSE send.answer[j]
  BY <1>1, <1>3 DEF Procedures, Answers
<1>8. SendTypes'
  BY <1>3, <1>6, <1>7 DEF cache_outbound_envelope, SendInv, SendTypes
<1>9. VersionsOK'
  BY <1>6 DEF cache_outbound_envelope, SendInv, VersionsOK
\* What was sealed before was refused: else it would be the cached envelope.
<1>10. ASSUME NEW r \in requests, delivery[r.key].state \in Unsent, r.version = delivery[r.key].version
       PROVE  r.envelope = delivery'[r.key].envelope \/ Stale(r.envelope)
  <2>1. r \in Uploads
    BY DEF SendInv, SendTypes
  <2>2. r.envelope = delivery[r.key].envelope \/ Stale(r.envelope)
    BY <1>10 DEF SendInv, RelayedOK
  <2> QED
    BY <1>5, <1>6, <2>1, <2>2 DEF Uploads
<1>11. RelayedOK'
  <2>1. \A p \in relayed : p.key \in Keys
    BY DEF SendInv, SendTypes, RelayRows
  <2>2. \A r \in requests : r.key \in Keys
    BY DEF SendInv, SendTypes, Uploads
  <2>3. \A j \in Keys : delivery'[j].envelope <= recipients
    BY <1>5, <1>6 DEF SendInv, RelayedOK
  <2> QED
    BY <1>6, <1>10, <2>1, <2>2, <2>3 DEF cache_outbound_envelope, SendInv, RelayedOK, Stale
<1>12. ProcedureOK'
  <2>1. \A j \in Keys : send.answer[j] \in {"none", "sealed"} /\ (send.answer[j] # "none" => j \in send.keys)
    BY <1>1 DEF SendInv, ProcedureOK
  <2>2. \A j \in Keys : send'.answer[j] = "sealed" => delivery'[j].envelope # 0
    BY <1>1, <1>5, <1>6, <1>7 DEF SendInv, ProcedureOK, Sending
  <2>3. \A j \in send.keys : delivery'[j].state \in Unsent
    BY <1>1, <1>6 DEF SendInv, ProcedureOK, Sending, Procedures
  <2> QED
    BY <1>1, <1>2, <1>7, <2>1, <2>2, <2>3
    DEF cache_outbound_envelope, SendInv, ProcedureOK, Procedures
<1>13. ResendIsIdempotent' /\ AcceptedIsRelayed'
  <2>1. ASSUME NEW p \in relayed, p.key = k, p.version = delivery[k].version
        PROVE  p.envelope = delivery'[k].envelope
    <3>1. p.envelope = delivery[k].envelope /\ p.envelope # 0
      BY <1>1, <2>1 DEF SendInv, SendTypes, ResendIsIdempotent, RelayRows
    <3> QED
      BY <1>5, <1>6, <3>1
  <2> QED
    BY <1>6, <2>1 DEF cache_outbound_envelope, SendInv, ResendIsIdempotent, AcceptedIsRelayed
<1> QED
  BY <1>1, <1>8, <1>9, <1>11, <1>12, <1>13 DEF cache_outbound_envelope, SendInv, ResetsOK

LEMMA UploadKeeps == SendInv /\ uploadFamilyArtifact => SendInv'
<1> SUFFICES ASSUME SendInv, uploadFamilyArtifact
             PROVE  SendInv'
  OBVIOUS
<1> DEFINE sealed(k) ==
      [key |-> k, version |-> delivery[k].version, envelope |-> delivery[k].envelope, live |-> TRUE]
<1>1. /\ send \in Procedures /\ send.pc = "seal" /\ pendingReset = {}
      /\ \A k \in send.keys : k \in Keys /\ send.answer[k] = "sealed" /\ delivery[k].state \in Unsent
                               /\ delivery[k].envelope # 0
  BY DEF uploadFamilyArtifact, SendInv, SendTypes, Procedures, ProcedureOK, ResetsOK, Sending
<1>2. ~\E r \in requests : r.live
  BY <1>1 DEF SendInv, ProcedureOK
<1>3. ASSUME NEW k \in send.keys
      PROVE  /\ sealed(k) \in Uploads /\ sealed(k).key = k /\ sealed(k).version = delivery[k].version
             /\ sealed(k).envelope = delivery[k].envelope
             /\ delivery[k].version <= delivery[k].version /\ delivery[k].envelope <= recipients
  <2>1. delivery[k] \in Deliveries /\ delivery[k].version # 0
    BY <1>1 DEF SendInv, SendTypes, VersionsOK, Unsent
  <2> QED
    BY <1>1, <2>1 DEF SendInv, RelayedOK, Deliveries, Uploads
<1>4. \A r \in requests' : r \in requests \/ \E k \in send.keys : r = sealed(k)
  BY DEF uploadFamilyArtifact
<1> HIDE DEF sealed
<1>5. send' = [send EXCEPT !.pc = "upload"] /\ send' \in Procedures
  BY <1>1 DEF uploadFamilyArtifact, Procedures
<1>6. SendTypes'
  BY <1>3, <1>4, <1>5 DEF uploadFamilyArtifact, SendInv, SendTypes
<1>7. RelayedOK'
  BY <1>3, <1>4 DEF uploadFamilyArtifact, SendInv, RelayedOK, Stale
<1>8. ProcedureOK'
  <2>1. /\ send'.pc = "upload" /\ send'.keys = send.keys /\ send'.known = send.known
        /\ send'.answer = send.answer
    BY <1>1, <1>5 DEF Procedures
  <2>2. \A r \in requests' : r.live =>
          /\ r.key \in send.keys /\ send.answer[r.key] = "sealed"
          /\ r.version = delivery[r.key].version /\ r.envelope = delivery[r.key].envelope
    BY <1>1, <1>2, <1>3, <1>4
  <2>3. delivery' = delivery /\ recipients' = recipients
    BY DEF uploadFamilyArtifact
  <2> QED
    BY <1>1, <2>1, <2>2, <2>3 DEF SendInv, ProcedureOK, Sending
<1> QED
  BY <1>1, <1>6, <1>7, <1>8
  DEF uploadFamilyArtifact, SendInv, VersionsOK, ResetsOK, ResendIsIdempotent, AcceptedIsRelayed

\* What the relay stores is what it confirms, and nothing else of that version.
LEMMA EnvelopeKeeps == ASSUME SendInv, NEW r \in requests, relay_publish(r) PROVE SendInv'
<1> DEFINE stored == {p \in relayed : p.key = r.key /\ p.version = r.version}
           new == [key |-> r.key, version |-> r.version, envelope |-> r.envelope]
           answer == PublicationAnswer(r)
<1>1. /\ r \in Uploads /\ send \in Procedures /\ relayed \subseteq RelayRows
      /\ delivery \in [Keys -> Deliveries] /\ recipients \in Nat
  BY DEF SendInv, SendTypes
<1>2. new \in RelayRows
  BY <1>1 DEF Uploads, RelayRows
<1>3. answer = IF stored # {}
               THEN (IF \A p \in stored : p.envelope = r.envelope THEN "accepted" ELSE "failed")
               ELSE IF r.envelope # recipients THEN "changed" ELSE "accepted"
  BY DEF PublicationAnswer
<1>4. /\ answer \in {"accepted", "failed", "changed"}
      /\ requests' = requests \ {r}
      /\ relayed' = IF answer = "accepted" THEN relayed \cup {new} ELSE relayed
      /\ send' = IF r.live THEN [send EXCEPT !.answer = [send.answer EXCEPT ![r.key] = answer]] ELSE send
  BY <1>3 DEF relay_publish
\* Either nothing is added, or it is the first of its version, for those who receive now.
<1>5. \/ relayed' = relayed
      \/ relayed' = relayed \cup {new} /\ stored = {} /\ r.envelope = recipients
  <2>1. ASSUME answer = "accepted", stored # {}
        PROVE  new \in relayed
    <3>1. PICK p \in stored : p.envelope = r.envelope
      BY <1>3, <2>1
    <3>2. p = new
      BY <1>1, <3>1 DEF RelayRows
    <3> QED
      BY <3>1, <3>2
  <2> QED
    BY <1>3, <1>4, <2>1
<1>6. answer = "accepted" => new \in relayed'
  BY <1>4
<1>7. answer = "changed" => stored = {} /\ r.envelope # recipients /\ relayed' = relayed
  BY <1>3, <1>4
<1>8. /\ new.key = r.key /\ new.version = r.version /\ new.envelope = r.envelope
      /\ \A p \in relayed : p \in stored <=> p.key = r.key /\ p.version = r.version
  OBVIOUS
<1> HIDE DEF stored, new, answer
<1>9. /\ r.key \in Keys /\ r.version \in Nat /\ r.version <= delivery[r.key].version /\ r.envelope <= recipients
      /\ r.envelope \in Nat \ {0}
  BY <1>1 DEF SendInv, RelayedOK, Uploads
<1>10. /\ send' \in Procedures /\ send'.pc = send.pc /\ send'.keys = send.keys /\ send'.known = send.known
       /\ \A k \in Keys : send'.answer[k] = IF r.live /\ k = r.key THEN answer ELSE send.answer[k]
  BY <1>1, <1>4, <1>9 DEF Procedures, Answers
<1>11. SendTypes'
  <2>1. relayed' \subseteq RelayRows /\ IsFiniteSet(relayed')
    BY <1>2, <1>5, FS_AddElement DEF SendInv, SendTypes
  <2> QED
    BY <1>4, <1>10, <2>1 DEF relay_publish, SendInv, SendTypes
<1>12. RelayedOK'
  <2>1. \A p \in relayed' : p.version <= delivery[p.key].version
    BY <1>5, <1>8, <1>9 DEF SendInv, RelayedOK
  <2>2. \A p, q \in relayed' : p.key = q.key /\ p.version = q.version => p = q
    BY <1>5, <1>8 DEF SendInv, RelayedOK
  <2> QED
    BY <1>4, <2>1, <2>2 DEF relay_publish, SendInv, RelayedOK, Stale
<1>13. \A k \in Keys : Relayed(k) => Relayed(k)'
  BY <1>5 DEF relay_publish, Relayed
\* A refused envelope is not the one for those who receive now.
<1>14. ASSUME NEW k \in Keys, Refused(k)
       PROVE  Refused(k)'
  <2>1. ~(r.key = k /\ r.version = delivery[k].version /\ r.envelope = recipients)
    <3> SUFFICES ASSUME r.key = k, r.version = delivery[k].version, r.envelope = recipients
                 PROVE  FALSE
      OBVIOUS
    <3>1. r.envelope = delivery[k].envelope \/ r.envelope < recipients
      BY <1>14 DEF SendInv, RelayedOK, Refused, Stale
    <3> QED
      BY <1>1, <1>14, <3>1 DEF Refused, Stale
  <2>2. ~Relayed(k)'
    BY <1>5, <1>8, <1>14, <2>1 DEF relay_publish, Refused, Relayed
  <2> QED
    BY <1>14, <2>2 DEF relay_publish, Refused, Stale
<1>15. ProcedureOK'
  <2>1. CASE r.live
    <3>1. /\ send.pc = "upload" /\ r.key \in send.keys /\ send.answer[r.key] = "sealed"
          /\ r.version = delivery[r.key].version /\ r.envelope = delivery[r.key].envelope
          /\ delivery[r.key].state \in Unsent
      BY <2>1 DEF SendInv, ProcedureOK, Sending
    <3>2. answer = "accepted" => Relayed(r.key)'
      BY <1>6, <1>8, <3>1 DEF relay_publish, Relayed
    <3>3. answer = "changed" => Refused(r.key)'
      <4> SUFFICES ASSUME answer = "changed"
                   PROVE  Refused(r.key)'
        OBVIOUS
      <4>1. ~Relayed(r.key)' /\ r.envelope < recipients
        BY <1>1, <1>7, <1>8, <1>9, <3>1 DEF relay_publish, Relayed
      <4> QED
        BY <1>9, <3>1, <4>1 DEF relay_publish, Refused, Stale
    <3>4. \A k \in send.keys : k # r.key =>
            /\ send.answer[k] = "accepted" => Relayed(k)'
            /\ send.answer[k] = "changed" => Refused(k)'
      BY <1>1, <1>13, <1>14, <3>1 DEF SendInv, ProcedureOK, Procedures
    <3>5. \A s \in requests' : s.live => s.key # r.key
      <4> SUFFICES ASSUME NEW s \in requests', s.live, s.key = r.key
                   PROVE  FALSE
        OBVIOUS
      <4>1. s \in requests /\ s # r /\ s \in Uploads
        BY <1>4 DEF SendInv, SendTypes
      <4>2. s.version = r.version /\ s.envelope = r.envelope /\ s.live = TRUE /\ r.live = TRUE
        BY <2>1, <3>1, <4>1 DEF SendInv, ProcedureOK, Uploads
      <4>3. s = r
        BY <1>1, <4>1, <4>2 DEF Uploads
      <4> QED
        BY <4>1, <4>3
    <3>6. \A k \in send.keys : k \in Keys
      BY <1>1 DEF Procedures
    <3>7. /\ send.known <= recipients
          /\ \A k \in send.keys : delivery[k].state \in Unsent /\ send.answer[k] # "none"
      BY <3>1 DEF SendInv, ProcedureOK, Sending
    <3>8. \A k \in Keys : send'.answer[k] # "none" => k \in send.keys
      BY <1>10, <3>1 DEF SendInv, ProcedureOK
    <3>9. \A k \in Keys : send'.answer[k] = "sealed" => delivery[k].envelope # 0
      BY <1>4, <1>10, <2>1, <3>1 DEF SendInv, ProcedureOK, Sending
    <3>10. \A k \in send.keys : send'.answer[k] # "none"
      BY <1>4, <1>10, <3>6, <3>7
    <3>11. \A k \in send.keys :
             /\ send'.answer[k] = "accepted" => Relayed(k)'
             /\ send'.answer[k] = "changed" => Refused(k)'
      <4> SUFFICES ASSUME NEW k \in send.keys
                   PROVE  /\ send'.answer[k] = "accepted" => Relayed(k)'
                          /\ send'.answer[k] = "changed" => Refused(k)'
        OBVIOUS
      <4>1. CASE k = r.key
        BY <1>10, <2>1, <3>2, <3>3, <3>6, <4>1 DEF Relayed, Refused, Stale
      <4>2. CASE k # r.key
        BY <1>10, <3>4, <3>6, <4>2
      <4> QED
        BY <4>1, <4>2
    <3>12. \A s \in requests' : s.live =>
             /\ s.key \in send.keys /\ send'.answer[s.key] = "sealed"
             /\ s.version = delivery[s.key].version /\ s.envelope = delivery[s.key].envelope
      BY <1>4, <1>10, <3>5, <3>6 DEF SendInv, ProcedureOK
    <3>13. send'.pc = "upload" /\ send'.keys = send.keys /\ send'.known = send.known
           /\ delivery' = delivery /\ recipients' = recipients
      BY <1>10, <3>1 DEF relay_publish
    <3> QED
      BY <3>7, <3>8, <3>9, <3>10, <3>11, <3>12, <3>13 DEF ProcedureOK, Sending
  <2>2. CASE ~r.live
    <3>1. send' = send /\ requests' \subseteq requests /\ delivery' = delivery /\ recipients' = recipients
      BY <1>4, <2>2 DEF relay_publish
    <3>2. \A k \in send.keys : k \in Keys
      BY <1>1 DEF Procedures
    <3> QED
      BY <1>13, <1>14, <3>1, <3>2 DEF SendInv, ProcedureOK, Sending
  <2> QED
    BY <2>1, <2>2
<1>16. ResetsOK'
  <2>1. \A x \in pendingReset : x.key \in Keys
    BY DEF SendInv, SendTypes, Rejections
  <2> QED
    BY <1>10, <1>14, <2>1 DEF relay_publish, SendInv, ResetsOK
<1>17. ResendIsIdempotent'
  <2> SUFFICES ASSUME NEW k \in Keys, delivery[k].state \in Unsent, new.key = k,
                      new.version = delivery[k].version, r.envelope = recipients
               PROVE  new.envelope = delivery[k].envelope
    BY <1>5 DEF relay_publish, SendInv, ResendIsIdempotent
  <2>1. r.envelope = delivery[k].envelope \/ r.envelope < recipients
    BY <1>8 DEF SendInv, RelayedOK, Stale
  <2> QED
    BY <1>1, <1>8, <2>1
<1>18. AcceptedIsRelayed'
  BY <1>5 DEF relay_publish, SendInv, AcceptedIsRelayed
<1> QED
  BY <1>11, <1>12, <1>15, <1>16, <1>17, <1>18 DEF relay_publish, SendInv, VersionsOK

\* A request the client has given up on may still arrive; nobody waits for it.
LEMMA OrphanedUploads ==
  ASSUME NEW rs, rs \subseteq Uploads
  PROVE  \A o \in Orphaned(rs) :
           \E r \in rs : /\ o \in Uploads /\ ~o.live /\ o.key = r.key /\ o.version = r.version
                         /\ o.envelope = r.envelope
BY DEF Orphaned, Uploads

\* Whatever requests are left, or left without a reader, what was said of them holds.
LEMMA FewerRequests ==
  ASSUME SendInv, UNCHANGED <<delivery, relayed, recipients>>,
         \A o \in requests' :
           \E r \in requests : /\ o \in Uploads /\ o.key = r.key /\ o.version = r.version
                               /\ o.envelope = r.envelope
  PROVE  RelayedOK' /\ requests' \subseteq Uploads
<1>1. ASSUME NEW o \in requests'
      PROVE  /\ o.version <= delivery[o.key].version /\ o.envelope <= recipients
             /\ delivery[o.key].state \in Unsent /\ o.version = delivery[o.key].version =>
                  o.envelope = delivery[o.key].envelope \/ Stale(o.envelope)
  <2>1. PICK r \in requests : o.key = r.key /\ o.version = r.version /\ o.envelope = r.envelope
    OBVIOUS
  <2> QED
    BY <2>1 DEF SendInv, RelayedOK
<1> QED
  BY <1>1 DEF SendInv, RelayedOK, Stale

LEMMA FailureKeeps ==
  ASSUME SendInv, NEW r \in requests, NEW arrives \in BOOLEAN, upload_fails(r, arrives)
  PROVE  SendInv'
<1>1. r \in Uploads /\ requests \subseteq Uploads /\ send \in Procedures
  BY DEF SendInv, SendTypes
<1>2. /\ r.live /\ r.key \in Keys
      /\ requests' = (requests \ {r}) \cup IF arrives THEN Orphaned({r}) ELSE {}
      /\ send' = [send EXCEPT !.answer = [send.answer EXCEPT ![r.key] = "failed"]]
  BY <1>1 DEF upload_fails, Uploads
<1>3. ASSUME NEW o \in requests'
      PROVE  \/ o \in requests \ {r}
             \/ /\ o \in Uploads /\ ~o.live /\ o.key = r.key /\ o.version = r.version
                /\ o.envelope = r.envelope
  <2>1. \A x \in Orphaned({r}) :
          x \in Uploads /\ ~x.live /\ x.key = r.key /\ x.version = r.version /\ x.envelope = r.envelope
    BY <1>1, OrphanedUploads
  <2> QED
    BY <1>2, <2>1
<1>4. RelayedOK' /\ requests' \subseteq Uploads
  <2>1. UNCHANGED <<delivery, relayed, recipients>>
    BY DEF upload_fails
  <2>2. \A o \in requests' :
           \E x \in requests : /\ o \in Uploads /\ o.key = x.key /\ o.version = x.version
                               /\ o.envelope = x.envelope
    BY <1>1, <1>3
  <2> QED
    BY <2>1, <2>2, FewerRequests
<1>5. /\ send' \in Procedures /\ send'.pc = send.pc /\ send'.keys = send.keys /\ send'.known = send.known
      /\ \A k \in Keys : send'.answer[k] = IF k = r.key THEN "failed" ELSE send.answer[k]
  BY <1>1, <1>2 DEF Procedures, Answers
<1>6. SendTypes'
  BY <1>4, <1>5 DEF upload_fails, SendInv, SendTypes
<1>7. ProcedureOK'
  <2>1. send.pc = "upload" /\ r.key \in send.keys
    BY <1>2 DEF SendInv, ProcedureOK
  <2>2. \A k \in send.keys : k \in Keys /\ delivery[k].state \in Unsent
    BY <1>1, <2>1 DEF SendInv, ProcedureOK, Procedures, Sending
  <2>3. ASSUME NEW s \in requests', s.live
        PROVE  s \in requests /\ s.key \in Keys /\ s.key # r.key
    <3>1. s \in requests \ {r} /\ s \in Uploads
      BY <1>1, <1>3, <2>3
    <3>2. CASE s.key = r.key
      <4>1. s.version = r.version /\ s.envelope = r.envelope /\ s.live = TRUE /\ r.live = TRUE
        BY <1>1, <1>2, <2>3, <3>1, <3>2 DEF SendInv, ProcedureOK, Uploads
      <4> QED
        BY <1>1, <3>1, <3>2, <4>1 DEF Uploads
    <3> QED
      BY <3>1, <3>2 DEF Uploads
  <2>4. send'.pc = "upload" /\ UNCHANGED <<delivery, relayed, recipients>>
    BY <1>5, <2>1 DEF upload_fails
  <2>5. \A k \in Keys : Relayed(k)' = Relayed(k) /\ Refused(k)' = Refused(k)
    BY <2>4 DEF Relayed, Refused, Stale
  <2>6. \A k \in send.keys :
          /\ send'.answer[k] = "accepted" => Relayed(k)'
          /\ send'.answer[k] = "changed" => Refused(k)'
    BY <1>5, <2>1, <2>2, <2>5 DEF SendInv, ProcedureOK
  <2>7. \A s \in requests' : s.live =>
          /\ s.key \in send.keys /\ send'.answer[s.key] = "sealed"
          /\ s.version = delivery[s.key].version /\ s.envelope = delivery[s.key].envelope
    BY <1>5, <2>3 DEF SendInv, ProcedureOK
  <2>8. send.known <= recipients /\ \A k \in Keys : send'.answer[k] # "none" => k \in send.keys
    BY <1>5, <2>1 DEF SendInv, ProcedureOK
  <2>9. \A k \in Keys : send'.answer[k] = "sealed" => delivery[k].envelope # 0
    BY <1>5, <2>1 DEF SendInv, ProcedureOK, Sending
  <2>10. \A k \in send.keys : send'.answer[k] # "none"
    BY <1>5, <2>1, <2>2 DEF SendInv, ProcedureOK
  <2> QED
    BY <1>5, <2>2, <2>4, <2>6, <2>7, <2>8, <2>9, <2>10 DEF ProcedureOK, Sending
<1>8. ResetsOK'
  BY <1>5 DEF upload_fails, SendInv, ResetsOK, Refused, Relayed, Stale
<1> QED
  BY <1>4, <1>6, <1>7, <1>8
  DEF upload_fails, SendInv, VersionsOK, ResendIsIdempotent, AcceptedIsRelayed

\* A reload forgets the procedure; a restart also makes what was being sent
\* retryable, with its package and its envelope.
LEMMA RestartKeeps == SendInv /\ (WindowReloads \/ recover_interrupted_sends) => SendInv'
<1> SUFFICES ASSUME SendInv, WindowReloads \/ recover_interrupted_sends
             PROVE  SendInv'
  OBVIOUS
<1>1. /\ send' = NoSend /\ pendingReset' = {} /\ requests' = Orphaned(requests)
      /\ UNCHANGED <<ledger, partition, recipients, relayed>>
  BY DEF WindowReloads, recover_interrupted_sends
<1>2. \A k \in Keys : delivery[k] \in Deliveries
  BY DEF SendInv, SendTypes
<1>3. ASSUME NEW k \in Keys
      PROVE  /\ delivery'[k] \in Deliveries
             /\ delivery'[k].version = delivery[k].version /\ delivery'[k].envelope = delivery[k].envelope
             /\ \/ delivery'[k].state = delivery[k].state
                \/ delivery[k].state = "SENDING" /\ delivery'[k].state = "FAILED_RETRYABLE"
  <2>1. \/ delivery'[k] = delivery[k]
        \/ delivery[k].state = "SENDING" /\ delivery'[k] = [delivery[k] EXCEPT !.state = "FAILED_RETRYABLE"]
    BY DEF WindowReloads, recover_interrupted_sends, interrupted, failed_retryable
  <2> QED
    BY <1>2, <2>1 DEF Deliveries, Unsent
<1>4. delivery' \in [Keys -> Deliveries]
  BY <1>3 DEF WindowReloads, recover_interrupted_sends, SendInv, SendTypes
<1>5. \A o \in requests' :
        \E r \in requests : /\ o \in Uploads /\ ~o.live /\ o.key = r.key /\ o.version = r.version
                            /\ o.envelope = r.envelope
  BY <1>1, OrphanedUploads DEF SendInv, SendTypes
<1>6. SendTypes'
  BY <1>1, <1>4, <1>5 DEF SendInv, SendTypes, NoSend, Procedures, Answers
<1>7. VersionsOK'
  BY <1>1, <1>3 DEF SendInv, VersionsOK
<1>8. RelayedOK'
  <2>1. ASSUME NEW o \in requests'
        PROVE  /\ o.version <= delivery'[o.key].version /\ o.envelope <= recipients
               /\ delivery'[o.key].state \in Unsent /\ o.version = delivery'[o.key].version =>
                    o.envelope = delivery'[o.key].envelope \/ Stale(o.envelope)
    <3>1. PICK r \in requests :
            o.key \in Keys /\ o.key = r.key /\ o.version = r.version /\ o.envelope = r.envelope
      BY <1>5 DEF Uploads
    <3> QED
      BY <1>3, <3>1 DEF SendInv, RelayedOK, Unsent
  <2>2. \A p \in relayed : p.key \in Keys
    BY DEF SendInv, SendTypes, RelayRows
  <2> QED
    BY <1>1, <1>3, <2>1, <2>2 DEF SendInv, RelayedOK, Stale
<1>9. ProcedureOK'
  BY <1>1, <1>5 DEF SendInv, SendTypes, ProcedureOK, NoSend, Sending
<1>10. ResetsOK'
  BY <1>1 DEF ResetsOK
<1>11. ResendIsIdempotent' /\ AcceptedIsRelayed'
  BY <1>1, <1>3 DEF SendInv, ResendIsIdempotent, AcceptedIsRelayed, Unsent
<1> QED
  BY <1>6, <1>7, <1>8, <1>9, <1>10, <1>11 DEF SendInv

\* Only what the relay confirmed becomes final; what it refused is owed a reset.
LEMMA AcceptKeeps == SendInv /\ mark_accepted => SendInv'
<1> SUFFICES ASSUME SendInv, mark_accepted
             PROVE  SendInv'
  OBVIOUS
<1>1. /\ send \in Procedures /\ send.pc = "upload" /\ receipts \subseteq send.keys /\ send.keys \subseteq Keys
      /\ \A k \in send.keys : /\ delivery[k].state \in Unsent
                              /\ send.answer[k] \in {"accepted", "changed", "failed"}
  BY DEF mark_accepted, SendInv, SendTypes, Procedures, ProcedureOK, Sending, Answers, receipts, Answered
<1>2. ~\E r \in requests : r.live
  BY <1>1 DEF mark_accepted, SendInv, ProcedureOK
<1>3. ASSUME NEW k \in Keys
      PROVE  /\ delivery[k] \in Deliveries /\ partition[k] \in Partitions
             /\ k \in receipts => /\ delivery'[k].state = "RELAY_ACCEPTED"
                                  /\ partition'[k].accepted = delivery[k].version
                                  /\ ~partition'[k].dirty
             /\ k \notin receipts => delivery'[k] = delivery[k] /\ partition'[k] = partition[k]
             /\ delivery'[k].version = delivery[k].version /\ delivery'[k].envelope = delivery[k].envelope
             /\ delivery'[k] \in Deliveries /\ partition'[k] \in Partitions
  <2>1. delivery[k] \in Deliveries /\ partition[k] \in Partitions
    BY DEF SendInv, SendTypes
  <2>2. CASE k \in receipts
    <3>1. /\ delivery'[k] = [delivery[k] EXCEPT !.state = "RELAY_ACCEPTED"]
          /\ partition'[k] = [dirty |-> FALSE, accepted |-> delivery[k].version]
      BY <2>2 DEF mark_accepted
    <3>2. /\ partition'[k].accepted = delivery[k].version /\ ~partition'[k].dirty
          /\ partition'[k] \in Partitions
      BY <2>1, <3>1 DEF Deliveries, Partitions
    <3>3. /\ delivery'[k].state = "RELAY_ACCEPTED" /\ delivery'[k].version = delivery[k].version
          /\ delivery'[k].envelope = delivery[k].envelope /\ delivery'[k] \in Deliveries
      BY <2>1, <3>1 DEF Deliveries
    <3> QED
      BY <2>1, <2>2, <3>2, <3>3
  <2>3. CASE k \notin receipts
    <3>1. delivery'[k] = delivery[k] /\ partition'[k] = partition[k]
      BY <2>3 DEF mark_accepted
    <3> QED
      BY <2>1, <2>3, <3>1
  <2> QED
    BY <2>2, <2>3
<1>4. ASSUME NEW k \in receipts
      PROVE  /\ k \in Keys /\ Relayed(k) /\ partition'[k].accepted = delivery[k].version
             /\ ~partition'[k].dirty /\ delivery[k].version # 0
  <2>1. k \in Keys /\ Relayed(k)
    BY <1>1 DEF SendInv, ProcedureOK, receipts, Answered
  <2>2. partition'[k].accepted = delivery[k].version /\ ~partition'[k].dirty
    BY <1>3, <2>1
  <2>3. delivery[k].version # 0
    BY <1>1, <2>1 DEF SendInv, VersionsOK, Unsent
  <2> QED
    BY <2>1, <2>2, <2>3
<1>5. ASSUME NEW k \in Keys, send.answer[k] = "changed"
      PROVE  Refused(k) /\ k \notin receipts
  BY <1>1, <1>5 DEF SendInv, ProcedureOK, receipts, Answered
<1>6. send' = [send EXCEPT !.pc = "reset"] /\ send' \in Procedures
  BY <1>1 DEF mark_accepted, Procedures
<1>7. \A x \in pendingReset' : /\ x.key \in Keys /\ send.answer[x.key] = "changed"
                               /\ x.envelope = delivery[x.key].envelope
  BY <1>1 DEF mark_accepted, Answered
<1>8. pendingReset' \subseteq Rejections
  <2>1. ASSUME NEW k \in Answered("changed")
        PROVE  [key |-> k, envelope |-> delivery[k].envelope] \in Rejections
    <3>1. k \in Keys /\ delivery[k].envelope # 0 /\ delivery[k].envelope \in Nat
      BY <1>1, <1>3, <1>5, <2>1 DEF Answered, Refused, Deliveries
    <3> QED
      BY <3>1 DEF Rejections
  <2> QED
    BY <2>1 DEF mark_accepted
<1>9. SendTypes'
  <2>1. delivery' \in [Keys -> Deliveries] /\ partition' \in [Keys -> Partitions]
    BY <1>3 DEF mark_accepted
  <2> QED
    BY <1>6, <1>8, <2>1 DEF mark_accepted, SendInv, SendTypes
<1>10. VersionsOK'
  <2> SUFFICES ASSUME NEW k \in Keys
               PROVE  /\ delivery'[k].version <= ledger
                      /\ partition'[k].accepted <= delivery'[k].version
                      /\ partition'[k].dirty => partition'[k].accepted < ledger
                      /\ delivery'[k].state = "NONE" <=> delivery'[k].version = 0
                      /\ delivery'[k].state = "RELAY_ACCEPTED" <=>
                           delivery'[k].version = partition'[k].accepted /\ partition'[k].accepted # 0
    BY DEF mark_accepted, VersionsOK
  <2>1. CASE k \in receipts
    BY <1>3, <1>4, <2>1 DEF SendInv, VersionsOK, Deliveries
  <2>2. CASE k \notin receipts
    BY <1>3, <2>2 DEF SendInv, VersionsOK
  <2> QED
    BY <2>1, <2>2
<1>11. RelayedOK'
  <2>1. (\A r \in requests : r.key \in Keys) /\ (\A p \in relayed : p.key \in Keys)
    BY DEF SendInv, SendTypes, Uploads, RelayRows
  <2>2. \A k \in Keys : delivery'[k].state \in Unsent => delivery'[k] = delivery[k]
    BY <1>3 DEF Unsent
  <2>3. \A k \in Keys :
          delivery'[k].version = delivery[k].version /\ delivery'[k].envelope = delivery[k].envelope
    BY <1>3
  <2>4. relayed' = relayed /\ requests' = requests /\ recipients' = recipients
    BY DEF mark_accepted
  <2> QED
    BY <2>1, <2>2, <2>3, <2>4 DEF SendInv, RelayedOK, Stale
<1>12. /\ send'.pc = "reset" /\ send'.keys = send.keys /\ send'.known = send.known
       /\ send'.answer = send.answer
  BY <1>1, <1>6 DEF Procedures
<1>13. ProcedureOK'
  <2>1. \A k \in send.keys : send.answer[k] = "failed" => delivery'[k].state \in Unsent
    BY <1>1, <1>3 DEF receipts, Answered
  <2>2. \A k \in send.keys : send.answer[k] # "none"
    BY <1>1
  <2>3. requests' = requests /\ recipients' = recipients
    BY DEF mark_accepted
  <2> QED
    BY <1>2, <1>12, <2>1, <2>2, <2>3 DEF SendInv, ProcedureOK, Sending
<1>14. ResetsOK'
  <2>1. \A k \in Keys : Refused(k) /\ k \notin receipts => Refused(k)'
    BY <1>3 DEF mark_accepted, Refused, Relayed, Stale
  <2>2. ASSUME NEW x \in pendingReset'
        PROVE  x.envelope = delivery'[x.key].envelope /\ Refused(x.key)'
    <3>1. /\ x.key \in Keys /\ Refused(x.key) /\ x.key \notin receipts
          /\ x.envelope = delivery[x.key].envelope
      BY <1>5, <1>7
    <3> QED
      BY <1>3, <2>1, <3>1
  <2> QED
    BY <1>12, <2>2 DEF ResetsOK
<1>15. ResendIsIdempotent'
  BY <1>3 DEF mark_accepted, SendInv, ResendIsIdempotent, Unsent
<1>16. AcceptedIsRelayed'
  <2> SUFFICES ASSUME NEW k \in Keys, delivery'[k].state = "RELAY_ACCEPTED"
               PROVE  \E p \in relayed : p.key = k /\ p.version = delivery'[k].version
    BY DEF mark_accepted, AcceptedIsRelayed
  <2>1. delivery'[k].version = delivery[k].version
    BY <1>3
  <2>2. CASE k \in receipts
    BY <1>4, <2>1, <2>2 DEF Relayed
  <2>3. CASE k \notin receipts
    BY <1>3, <2>1, <2>3 DEF SendInv, AcceptedIsRelayed
  <2> QED
    BY <2>2, <2>3
<1> QED
  BY <1>9, <1>10, <1>11, <1>13, <1>14, <1>15, <1>16 DEF SendInv

LEMMA ChangedKeeps == ASSUME SendInv, NEW ok \in BOOLEAN, reset_changed(ok) PROVE SendInv'
<1>1. send \in Procedures /\ send.pc = "reset" /\ ~\E r \in requests : r.live
  BY DEF reset_changed, SendInv, SendTypes, ProcedureOK
<1>2. CASE ok
  <2>1. /\ delivery' \in [Keys -> Deliveries]
        /\ VersionsOK' /\ RelayedOK' /\ ResendIsIdempotent' /\ AcceptedIsRelayed'
    BY <1>2, ResetKeeps DEF reset_changed
  <2>2. /\ send' \in Procedures /\ send'.pc = "fail" /\ send'.keys = send.keys
        /\ send'.known = send.known /\ send'.answer = send.answer /\ pendingReset' = {}
    BY <1>1, <1>2 DEF reset_changed, Procedures
  <2>3. SendTypes'
    BY <2>1, <2>2 DEF reset_changed, SendInv, SendTypes
  <2>4. \A k \in Keys : delivery[k].state \in Unsent => delivery'[k].state \in Unsent
    <3>1. delivery' = reset_rejected_outbound_envelopes(pendingReset)
      BY <1>2 DEF reset_changed
    <3> QED
      BY <3>1, ResetRows DEF Unsent
  <2>5. ProcedureOK'
    BY <1>1, <2>2, <2>4 DEF reset_changed, SendInv, ProcedureOK, Procedures, Sending
  <2> QED
    BY <2>1, <2>2, <2>3, <2>5 DEF SendInv, ResetsOK
<1>3. CASE ~ok
  <2>1. /\ send' = NoSend
        /\ UNCHANGED <<delivery, pendingReset, ledger, partition, recipients, relayed, requests>>
    BY <1>3 DEF reset_changed
  <2>2. SendTypes'
    BY <2>1 DEF SendInv, SendTypes, NoSend, Procedures, Answers
  <2>3. ProcedureOK'
    BY <1>1, <2>1 DEF SendInv, SendTypes, ProcedureOK, NoSend, Sending
  <2> QED
    BY <2>1, <2>2, <2>3
    DEF SendInv, VersionsOK, RelayedOK, ResetsOK, Refused, Relayed, Stale, ResendIsIdempotent,
        AcceptedIsRelayed, NoSend
<1> QED
  BY <1>2, <1>3

LEMMA MarkFailedKeeps == SendInv /\ family_mark_failed => SendInv'
<1> SUFFICES ASSUME SendInv, family_mark_failed
             PROVE  SendInv'
  OBVIOUS
<1>1. /\ send.pc = "fail" /\ send' = NoSend /\ pendingReset = {}
      /\ UNCHANGED <<pendingReset, ledger, partition, recipients, relayed, requests>>
  BY DEF family_mark_failed, SendInv, ResetsOK
<1>2. ~\E r \in requests : r.live
  BY <1>1 DEF SendInv, ProcedureOK
<1>3. ASSUME NEW k \in Keys
      PROVE  /\ delivery'[k] \in Deliveries
             /\ delivery'[k].version = delivery[k].version /\ delivery'[k].envelope = delivery[k].envelope
             /\ \/ delivery'[k].state = delivery[k].state
                \/ delivery[k].state \in Unsent /\ delivery'[k].state = "FAILED_RETRYABLE"
  <2>1. delivery[k] \in Deliveries
    BY DEF SendInv, SendTypes
  <2>2. k \in Answered("failed") => delivery[k].state \in Unsent
    BY DEF Answered, SendInv, ProcedureOK
  <2>3. \/ delivery'[k] = delivery[k]
        \/ k \in Answered("failed") /\ delivery'[k] = [delivery[k] EXCEPT !.state = "FAILED_RETRYABLE"]
    BY DEF family_mark_failed, failed_retryable
  <2> QED
    BY <2>1, <2>2, <2>3 DEF Deliveries, Unsent
<1>4. SendTypes'
  <2>1. delivery' \in [Keys -> Deliveries]
    BY <1>3 DEF family_mark_failed
  <2> QED
    BY <1>1, <2>1 DEF SendInv, SendTypes, NoSend, Procedures, Answers
<1>5. VersionsOK'
  BY <1>1, <1>3 DEF SendInv, VersionsOK, Unsent
<1>6. RelayedOK'
  <2>1. (\A r \in requests : r.key \in Keys) /\ (\A p \in relayed : p.key \in Keys)
    BY DEF SendInv, SendTypes, Uploads, RelayRows
  <2> QED
    BY <1>1, <1>3, <2>1 DEF SendInv, RelayedOK, Stale
<1>7. ProcedureOK'
  BY <1>1, <1>2 DEF SendInv, SendTypes, ProcedureOK, NoSend, Sending
<1>8. ResendIsIdempotent' /\ AcceptedIsRelayed'
  BY <1>1, <1>3 DEF SendInv, ResendIsIdempotent, AcceptedIsRelayed
<1> QED
  BY <1>1, <1>4, <1>5, <1>6, <1>7, <1>8 DEF SendInv, ResetsOK

-----------------------------------------------------------------------------
(* The theorems *)

LEMMA SendInvNext == SendInv /\ [SendNext]_sendVars => SendInv'
<1> SUFFICES ASSUME SendInv, [SendNext]_sendVars
             PROVE  SendInv'
  OBVIOUS
<1>1. CASE edit_ledger \/ recipients_change
  BY <1>1, LedgerEditKeeps, RecipientsKeep
<1>2. CASE family_connection_removed \/ save_connection
  BY <1>2
  DEF family_connection_removed, save_connection, SendInv, SendTypes, VersionsOK, RelayedOK, ProcedureOK, ResetsOK,
      Refused, Relayed, Stale, ResendIsIdempotent, AcceptedIsRelayed
<1>3. ASSUME NEW keys \in SUBSET Keys \ {{}}, send_begin(keys)
      PROVE  SendInv'
  BY <1>3, BeginKeeps
<1>4. ASSUME NEW k \in Keys, cache_outbound_envelope(k)
      PROVE  SendInv'
  BY <1>4, CacheKeeps
<1>5. CASE prepare_send \/ uploadFamilyArtifact \/ mark_accepted \/ family_mark_failed
  BY <1>5, PrepareKeeps, UploadKeeps, AcceptKeeps, MarkFailedKeeps
<1>6. ASSUME NEW r \in requests, NEW arrives \in BOOLEAN, relay_publish(r) \/ upload_fails(r, arrives)
      PROVE  SendInv'
  BY <1>6, EnvelopeKeeps, FailureKeeps
<1>7. ASSUME NEW ok \in BOOLEAN, reset_changed(ok)
      PROVE  SendInv'
  BY <1>7, ChangedKeeps
<1>8. CASE WindowReloads \/ recover_interrupted_sends
  BY <1>8, RestartKeeps
<1>9. CASE UNCHANGED sendVars
  BY <1>9
  DEF sendVars, SendInv, SendTypes, VersionsOK, RelayedOK, ProcedureOK, ResetsOK, Refused, Relayed,
      Stale, ResendIsIdempotent, AcceptedIsRelayed
<1> QED
  BY <1>1, <1>2, <1>3, <1>4, <1>5, <1>6, <1>7, <1>8, <1>9 DEF SendNext

LEMMA SendInvAlways == SendSpec => []SendInv
BY SendInvInit, SendInvNext, PTL DEF SendSpec

\* Deliveries agree with the partitions they are of: a delivery is final exactly
\* when it is the accepted one of its partition, and the relay holds each package
\* once, under one envelope.
THEOREM SendTypesCorrect == SendSpec => []SendTypeOK
<1>1. SendInv => Cardinality({<<p.key, p.version>> : p \in relayed}) = Cardinality(relayed)
  <2> SUFFICES ASSUME SendInv
               PROVE  Cardinality({<<p.key, p.version>> : p \in relayed}) = Cardinality(relayed)
    OBVIOUS
  <2> DEFINE T == {<<p.key, p.version>> : p \in relayed}
             f == [p \in relayed |-> <<p.key, p.version>>]
  <2>1. f \in Bijection(relayed, T)
    <3>1. f \in Injection(relayed, T)
      BY Zenon DEF Injection, IsInjective, SendInv, RelayedOK
    <3>2. f \in Surjection(relayed, T)
      BY Zenon DEF Surjection
    <3> QED
      BY <3>1, <3>2 DEF Bijection
  <2> QED
    BY <2>1, FS_Bijection DEF ExistsBijection, SendInv, SendTypes
<1>2. SendInv => SendTypeOK
  BY <1>1 DEF SendInv, SendTypes, VersionsOK, Partitions, Deliveries, Procedures, SendTypeOK
<1> QED
  BY <1>2, SendInvAlways, PTL

\* Whatever was lost, delivered late, refused, reset, or interrupted, and however
\* often the recipients changed: a retry carries the very envelope the relay may
\* have already, and a delivery shown as accepted is at the relay.
THEOREM SentExactlyOnce == SendSpec => []DeliveredAsSent
<1>1. SendInv => DeliveredAsSent
  BY DEF SendInv, DeliveredAsSent
<1> QED
  BY <1>1, SendInvAlways, PTL

-----------------------------------------------------------------------------
(* Change packages *)

PackageSetting == MaxEdits \in Nat

-----------------------------------------------------------------------------
(* The inductive invariant *)

Contents == [Entities -> Nat]
Packages == [source : Installations, revision : Nat \ {0}, content : Contents]
Heads == [source : Installations, payload : Nat]
Verdicts == {"CREATE", "UNCHANGED", "UPDATE", "CONFLICT", "DELETE", "NONE"}
Resolutions == {"APPLY_INCOMING", "SKIP", "PENDING", "KEEP_LOCAL", "NONE"}
ReviewRecords == [verdict : Verdicts, resolution : Resolutions, current : Nat]
Reviews == [package : Packages, records : [Entities -> ReviewRecords]]

PackageTypes ==
  /\ localEdits \in 0..MaxEdits
  /\ data \in [Installations -> Contents]
  /\ heads \in [Installations -> [Entities -> Heads \cup {NoHead}]]
  /\ revision \in [Installations -> Nat]
  /\ exports \subseteq Packages
  /\ review \in [Installations -> Reviews \cup {NoReview}]
  /\ applied \in [Installations -> [Installations -> Nat]]

\* A payload is the number of an edit that was made.
PayloadsOK ==
  /\ \A i \in Installations, e \in Entities :
       data[i][e] <= localEdits /\ heads[i][e].payload <= localEdits
  /\ \A p \in exports : \A e \in Entities : p.content[e] <= localEdits

\* Nothing is applied that was not exported, and nothing of the installation itself.
RevisionsOK ==
  /\ \A p \in exports : p.revision <= revision[p.source]
  /\ \A i \in Installations : applied[i][i] = 0
  /\ \A i, s \in Installations : applied[i][s] <= revision[s]
  /\ \A i \in Installations, e \in Entities :
       heads[i][e] # NoHead => applied[i][heads[i][e].source] > 0

\* The source s exported payload x of entity e, at revision r or before.
Exported(s, e, x, r) ==
  \E p \in exports : p.source = s /\ p.revision <= r /\ p.content[e] = x

\* A row that still is its head came in a package of that source.
Delivered(i) ==
  \A e \in Entities, s \in Installations :
    follows_source(i, e, s) /\ data[i][e] # 0 => Exported(s, e, data[i][e], applied[i][s])

\* What the record of an entity says of the package, and of what its source had
\* exported before it.
RecordOK(r, e, p) ==
  /\ r.verdict = "CREATE" => r.current = 0
  /\ r.verdict = "UPDATE" => \E q \in exports : /\ q.source = p.source /\ q.revision < p.revision
                                                /\ q.content[e] = r.current
  /\ r.verdict = "UNCHANGED" => r.resolution = "SKIP"
  /\ r.verdict = "NONE" => r.resolution = "NONE"
  /\ r.resolution = "SKIP" => r.current = p.content[e]
  /\ r.current <= localEdits

ReviewOK(i) ==
  review[i] # NoReview =>
    LET p == review[i].package IN
    /\ p \in exports /\ p.source # i /\ p.revision > applied[i][p.source]
    /\ \A e \in Entities : RecordOK(review[i].records[e], e, p)

PackageInv ==
  /\ PackageTypes /\ PayloadsOK /\ RevisionsOK
  /\ \A i \in Installations : Delivered(i) /\ ReviewOK(i)

-----------------------------------------------------------------------------
(* The initial state, and the steps one by one *)

LEMMA PackageInvInit == ASSUME PackageSetting PROVE PackageInit => PackageInv
<1> SUFFICES ASSUME PackageInit PROVE PackageInv
  OBVIOUS
<1>1. PackageTypes
  BY DEF PackageSetting, PackageInit, PackageTypes, Contents, Heads, Reviews
<1>2. PayloadsOK /\ RevisionsOK
  BY DEF PackageInit, PayloadsOK, RevisionsOK, NoHead
<1>3. \A i \in Installations : Delivered(i) /\ ReviewOK(i)
  BY DEF PackageInit, Delivered, ReviewOK
<1> QED
  BY <1>1, <1>2, <1>3 DEF PackageInv

\* A review stays right while nothing it speaks of changes.
LEMMA ReviewStays ==
  ASSUME PackageInv, NEW j \in Installations, review'[j] = review[j], applied'[j] = applied[j],
         exports \subseteq exports', localEdits' \in Nat, localEdits <= localEdits'
  PROVE  ReviewOK(j)'
<1> SUFFICES ASSUME review[j] # NoReview
             PROVE  ReviewOK(j)'
  BY DEF ReviewOK
<1>1. /\ review[j].package \in exports /\ review[j].package.source # j
      /\ review[j].package.revision > applied[j][review[j].package.source]
      /\ \A g \in Entities : RecordOK(review[j].records[g], g, review[j].package)
  BY DEF PackageInv, ReviewOK
<1>2. ASSUME NEW g \in Entities
      PROVE  RecordOK(review[j].records[g], g, review[j].package)'
  <2>1. review[j].records[g].current \in Nat /\ localEdits \in Nat
    BY DEF PackageInv, PackageTypes, Reviews, ReviewRecords
  <2>2. RecordOK(review[j].records[g], g, review[j].package)
    BY <1>1
  <2> QED
    BY <2>1, <2>2 DEF RecordOK
<1> QED
  BY <1>1, <1>2 DEF ReviewOK

LEMMA EntityEditKeeps ==
  ASSUME PackageSetting, PackageInv, NEW i \in Installations, NEW e \in Entities,
         NEW deleted \in BOOLEAN, edit_entity(i, e, deleted)
  PROVE  PackageInv'
<1> DEFINE new == IF deleted THEN 0 ELSE localEdits + 1
<1>1. /\ localEdits \in Nat /\ localEdits' = localEdits + 1 /\ localEdits' \in 0..MaxEdits
      /\ new \in Nat /\ new <= localEdits' /\ (new = 0 \/ new = localEdits')
  BY DEF PackageSetting, edit_entity, PackageInv, PackageTypes
<1>2. data' = [data EXCEPT ![i][e] = new]
  BY <1>1 DEF edit_entity
<1> HIDE DEF new
<1>3. \A j \in Installations, g \in Entities :
        data'[j][g] = IF j = i /\ g = e THEN new ELSE data[j][g]
  BY <1>2 DEF PackageInv, PackageTypes, Contents
<1>4. PackageTypes'
  BY <1>1, <1>2 DEF edit_entity, PackageInv, PackageTypes, Contents
<1>5. PayloadsOK'
  <2>1. \A j \in Installations, g \in Entities : data[j][g] \in Nat
    BY DEF PackageInv, PackageTypes, Contents
  <2>2. \A j \in Installations, g \in Entities : heads[j][g].payload \in Nat
    BY DEF PackageInv, PackageTypes, Heads, NoHead
  <2>3. \A p \in exports : \A g \in Entities : p.content[g] \in Nat
    BY DEF PackageInv, PackageTypes, Packages, Contents
  <2> QED
    BY <1>1, <1>3, <2>1, <2>2, <2>3 DEF edit_entity, PackageInv, PayloadsOK
<1>6. RevisionsOK'
  BY DEF edit_entity, PackageInv, RevisionsOK
<1>7. ASSUME NEW j \in Installations
      PROVE  Delivered(j)'
  <2>1. SUFFICES ASSUME NEW g \in Entities, NEW s \in Installations,
                        heads'[j][g] = [source |-> s, payload |-> data'[j][g]], data'[j][g] # 0
                 PROVE  Exported(s, g, data[j][g], applied[j][s])'
    BY DEF Delivered, follows_source
  <2>2. heads[j][g].payload <= localEdits /\ heads[j][g].payload = data'[j][g]
    BY <2>1 DEF edit_entity, PackageInv, PayloadsOK
  <2>3. data'[j][g] = data[j][g]
    BY <1>1, <1>3, <2>1, <2>2
  <2> QED
    BY <2>1, <2>3 DEF edit_entity, PackageInv, Delivered, follows_source, Exported
<1>8. ASSUME NEW j \in Installations
      PROVE  ReviewOK(j)'
  BY <1>1, ReviewStays DEF edit_entity, PackageInv, PackageTypes
<1> QED
  BY <1>4, <1>5, <1>6, <1>7, <1>8 DEF PackageInv

LEMMA ExportKeeps ==
  ASSUME PackageSetting, PackageInv, NEW i \in Installations, export_current_state(i)
  PROVE  PackageInv'
<1> DEFINE new == [source |-> i, revision |-> revision[i] + 1, content |-> data[i]]
<1>1. exports' = exports \cup {new} /\ new \in Packages
      /\ revision' = [revision EXCEPT ![i] = revision[i] + 1]
  BY DEF export_current_state, PackageInv, PackageTypes, Packages
<1>2. PackageTypes'
  BY <1>1 DEF export_current_state, PackageInv, PackageTypes
<1>3. PayloadsOK'
  BY <1>1 DEF export_current_state, PackageInv, PayloadsOK
<1>4. \A s \in Installations :
        revision[s] \in Nat /\ revision'[s] = IF s = i THEN revision[s] + 1 ELSE revision[s]
  BY <1>1 DEF PackageInv, PackageTypes
<1>5. RevisionsOK'
  <2>1. \A p \in exports' : p.revision <= revision'[p.source]
    <3>1. \A p \in exports : p.revision \in Nat /\ p.source \in Installations
      BY DEF PackageInv, PackageTypes, Packages
    <3> QED
      BY <1>1, <1>4, <3>1 DEF PackageInv, RevisionsOK
  <2>2. \A j, s \in Installations : applied[j][s] \in Nat
    BY DEF PackageInv, PackageTypes
  <2>3. \A j, s \in Installations : applied[j][s] <= revision'[s]
    BY <1>4, <2>2 DEF PackageInv, RevisionsOK
  <2> QED
    BY <2>1, <2>3 DEF export_current_state, PackageInv, RevisionsOK
<1> HIDE DEF new
<1>6. ASSUME NEW j \in Installations
      PROVE  Delivered(j)'
  BY <1>1 DEF export_current_state, PackageInv, Delivered, follows_source, Exported
<1>7. ASSUME NEW j \in Installations
      PROVE  ReviewOK(j)'
  BY <1>1, ReviewStays DEF export_current_state, PackageInv, PackageTypes
<1> QED
  BY <1>2, <1>3, <1>5, <1>6, <1>7 DEF PackageInv

\* What staging says of an entity is true of the package.
LEMMA Classification ==
  ASSUME PackageSetting, PackageInv, NEW i \in Installations, NEW e \in Entities, NEW p \in exports,
         newer_than_applied(i, p)
  PROVE  classify(i, e, p) \in ReviewRecords /\ RecordOK(classify(i, e, p), e, p)
<1> DEFINE current == data[i][e]
           incoming == p.content[e]
<1>1. current \in Nat /\ incoming \in Nat /\ current <= localEdits /\ 0 <= localEdits
  BY DEF PackageInv, PackageTypes, PayloadsOK, Packages, Contents
<1>2. p.source \in Installations /\ p.revision \in Nat /\ applied[i][p.source] < p.revision
  BY DEF PackageInv, PackageTypes, Packages, newer_than_applied
<1>3. ASSUME follows_source(i, e, p.source), current # 0
      PROVE  \E q \in exports : q.source = p.source /\ q.revision < p.revision /\ q.content[e] = current
  <2>1. PICK q \in exports :
          q.source = p.source /\ q.revision <= applied[i][p.source] /\ q.content[e] = current
    BY <1>2, <1>3 DEF PackageInv, Delivered, Exported
  <2>2. q.revision \in Nat /\ applied[i][p.source] \in Nat
    BY <1>2 DEF PackageInv, PackageTypes, Packages
  <2> QED
    BY <1>2, <2>1, <2>2
<1>4. CASE incoming # 0 /\ current = 0
  <2>1. classify(i, e, p) = record("CREATE", "APPLY_INCOMING", 0)
    BY <1>4 DEF classify
  <2> QED
    BY <1>1, <2>1 DEF record, ReviewRecords, RecordOK, Verdicts, Resolutions
<1>5. CASE incoming # 0 /\ current = incoming
  <2>1. classify(i, e, p) = record("UNCHANGED", "SKIP", current)
    BY <1>5 DEF classify
  <2> QED
    BY <1>1, <1>5, <2>1 DEF record, ReviewRecords, RecordOK, Verdicts, Resolutions
<1>6. CASE incoming # 0 /\ current # 0 /\ current # incoming /\ follows_source(i, e, p.source)
  <2>1. classify(i, e, p) = record("UPDATE", "APPLY_INCOMING", current)
    BY <1>6 DEF classify
  <2> QED
    BY <1>1, <1>3, <1>6, <2>1 DEF record, ReviewRecords, RecordOK, Verdicts, Resolutions
<1>7. CASE incoming = 0 /\ current = 0
  <2>1. classify(i, e, p) = record("NONE", "NONE", 0)
    BY <1>7 DEF classify
  <2> QED
    BY <1>1, <2>1 DEF record, ReviewRecords, RecordOK, Verdicts, Resolutions
<1>8. CASE \/ incoming # 0 /\ current # 0 /\ current # incoming /\ ~follows_source(i, e, p.source)
           \/ incoming = 0 /\ current # 0
  <2>1. \E verdict \in {"CONFLICT", "DELETE"} : classify(i, e, p) = record(verdict, "PENDING", current)
    BY <1>8 DEF classify
  <2> QED
    BY <1>1, <2>1 DEF record, ReviewRecords, RecordOK, Verdicts, Resolutions
<1> QED
  BY <1>4, <1>5, <1>6, <1>7, <1>8

LEMMA StageKeeps ==
  ASSUME PackageSetting, PackageInv, NEW i \in Installations, NEW p \in exports, stage_package(i, p)
  PROVE  PackageInv'
<1> DEFINE new == [package |-> p, records |-> [e \in Entities |-> classify(i, e, p)]]
<1>1. newer_than_applied(i, p) /\ p.source # i /\ p \in Packages
  BY DEF stage_package, from_elsewhere, PackageInv, PackageTypes
<1>2. \A e \in Entities : classify(i, e, p) \in ReviewRecords /\ RecordOK(classify(i, e, p), e, p)
  BY <1>1, Classification
<1>3. new \in Reviews
  BY <1>1, <1>2 DEF Reviews
<1>4. new.package = p /\ \A e \in Entities : new.records[e] = classify(i, e, p)
  OBVIOUS
<1>5. review' = [review EXCEPT ![i] = new]
  BY DEF stage_package
<1> HIDE DEF new
<1>6. PackageTypes'
  BY <1>3, <1>5 DEF stage_package, PackageInv, PackageTypes
<1>7. PayloadsOK' /\ RevisionsOK'
  BY DEF stage_package, PackageInv, PayloadsOK, RevisionsOK
<1>8. ASSUME NEW j \in Installations
      PROVE  Delivered(j)' /\ ReviewOK(j)'
  <2>1. Delivered(j)'
    BY DEF stage_package, PackageInv, Delivered, follows_source, Exported
  <2>2. review'[j] = IF j = i THEN new ELSE review[j]
    BY <1>5 DEF PackageInv, PackageTypes
  <2>3. CASE j = i
    <3>1. review'[j].package = p /\ \A e \in Entities : review'[j].records[e] = classify(i, e, p)
      BY <1>4, <2>2, <2>3
    <3>2. \A e \in Entities : RecordOK(review[j].records[e], e, review[j].package)'
      BY <1>2, <3>1 DEF stage_package, RecordOK
    <3>3. p \in exports' /\ p.revision > applied'[j][p.source]
      BY <1>1, <2>3 DEF stage_package, newer_than_applied
    <3> QED
      BY <1>1, <2>1, <2>3, <3>1, <3>2, <3>3 DEF ReviewOK
  <2>4. CASE j # i
    BY <2>1, <2>2, <2>4, ReviewStays DEF stage_package, PackageInv, PackageTypes
  <2> QED
    BY <2>1, <2>3, <2>4
<1> QED
  BY <1>6, <1>7, <1>8 DEF PackageInv

\* A decision is about a conflict or a deletion: it never is a SKIP or a NONE.
LEMMA ResolveKeeps ==
  ASSUME PackageSetting, PackageInv, NEW i \in Installations, NEW e \in Entities,
         NEW resolution \in {"APPLY_INCOMING", "KEEP_LOCAL"}, resolve_package(i, e, resolution)
  PROVE  PackageInv'
<1>1. review[i] \in Reviews /\ review[i] # NoReview
  BY DEF resolve_package, PackageInv, PackageTypes
<1> DEFINE old == review[i].records[e]
           new == [old EXCEPT !.resolution = resolution]
<1>2. old \in ReviewRecords /\ old.resolution = "PENDING"
  BY <1>1 DEF resolve_package, Reviews
<1>3. /\ new \in ReviewRecords /\ new.verdict = old.verdict /\ new.current = old.current
      /\ new.resolution = resolution
  BY <1>2 DEF ReviewRecords, Resolutions
<1>4. review' = [review EXCEPT
                   ![i] = [review[i] EXCEPT !.records = [review[i].records EXCEPT ![e] = new]]]
  BY DEF resolve_package
<1> HIDE DEF old, new
<1> DEFINE changed == [review[i] EXCEPT !.records = [review[i].records EXCEPT ![e] = new]]
<1>5. /\ changed \in Reviews /\ changed.package = review[i].package
      /\ \A g \in Entities : changed.records[g] = IF g = e THEN new ELSE review[i].records[g]
  BY <1>1, <1>3 DEF Reviews
<1>6. review' = [review EXCEPT ![i] = changed]
  BY <1>4
<1> HIDE DEF changed
<1>7. PackageTypes'
  BY <1>5, <1>6 DEF resolve_package, PackageInv, PackageTypes
<1>8. PayloadsOK' /\ RevisionsOK'
  BY DEF resolve_package, PackageInv, PayloadsOK, RevisionsOK
<1>9. ASSUME NEW j \in Installations
      PROVE  Delivered(j)' /\ ReviewOK(j)'
  <2>1. Delivered(j)'
    BY DEF resolve_package, PackageInv, Delivered, follows_source, Exported
  <2>2. review'[j] = IF j = i THEN changed ELSE review[j]
    BY <1>6 DEF PackageInv, PackageTypes
  <2>3. CASE j = i
    <3> DEFINE p == review[i].package
    <3>1. /\ p \in exports /\ p.source # i /\ p.revision > applied[i][p.source]
          /\ \A g \in Entities : RecordOK(review[i].records[g], g, p)
      BY <1>1 DEF PackageInv, ReviewOK
    <3>2. RecordOK(new, e, p)
      BY <1>2, <1>3, <3>1 DEF RecordOK, old
    <3>3. \A g \in Entities : RecordOK(changed.records[g], g, p)
      BY <1>5, <3>1, <3>2
    <3>4. review'[j] = changed /\ changed.package = p
      BY <1>5, <2>2, <2>3
    <3> HIDE DEF p
    <3>5. \A g \in Entities : RecordOK(review[j].records[g], g, review[j].package)'
      <4> SUFFICES ASSUME NEW g \in Entities
                   PROVE  RecordOK(review[j].records[g], g, review[j].package)'
        OBVIOUS
      <4>1. RecordOK(changed.records[g], g, p)
        BY <3>3
      <4>2. review'[j].records[g] = changed.records[g] /\ review'[j].package = p
        BY <3>4
      <4>3. exports' = exports /\ localEdits' = localEdits
        BY DEF resolve_package
      <4> QED
        BY <4>1, <4>2, <4>3 DEF RecordOK
    <3>6. p \in exports' /\ p.source # j /\ p.revision > applied'[j][p.source]
      BY <2>3, <3>1 DEF resolve_package
    <3> QED
      BY <2>1, <3>4, <3>5, <3>6 DEF ReviewOK
  <2>4. CASE j # i
    BY <2>1, <2>2, <2>4, ReviewStays DEF resolve_package, PackageInv, PackageTypes
  <2> QED
    BY <2>1, <2>3, <2>4
<1> QED
  BY <1>7, <1>8, <1>9 DEF PackageInv

LEMMA DiscardKeeps ==
  ASSUME PackageSetting, PackageInv, NEW i \in Installations, discard_package(i)
  PROVE  PackageInv'
<1>1. review' = [review EXCEPT ![i] = NoReview]
  BY DEF discard_package
<1>2. PackageTypes'
  BY <1>1 DEF discard_package, PackageInv, PackageTypes
<1>3. PayloadsOK' /\ RevisionsOK'
  BY DEF discard_package, PackageInv, PayloadsOK, RevisionsOK
<1>4. ASSUME NEW j \in Installations
      PROVE  Delivered(j)' /\ ReviewOK(j)'
  <2>1. Delivered(j)'
    BY DEF discard_package, PackageInv, Delivered, follows_source, Exported
  <2>2. review'[j] = IF j = i THEN NoReview ELSE review[j]
    BY <1>1 DEF PackageInv, PackageTypes
  <2> QED
    BY <2>1, <2>2, ReviewStays DEF discard_package, PackageInv, PackageTypes, ReviewOK
<1> QED
  BY <1>2, <1>3, <1>4 DEF PackageInv

\* A row that is applied or skipped is still the reviewed one, and its new head is
\* what the package says of it; every other row keeps data and head.
LEMMA AppliedRow ==
  ASSUME PackageSetting, PackageInv, NEW i \in Installations, NEW e \in Entities, apply_package(i)
  PROVE  LET r == review[i].records[e]  p == review[i].package IN
         /\ r \in ReviewRecords /\ p \in Packages /\ p \in exports /\ RecordOK(r, e, p)
         /\ data'[i][e] = IF r.resolution = "APPLY_INCOMING" THEN p.content[e] ELSE data[i][e]
         /\ heads'[i][e] = IF r.resolution \notin {"APPLY_INCOMING", "SKIP"} THEN heads[i][e]
                           ELSE [source |-> p.source,
                                 payload |-> IF p.content[e] # 0 THEN p.content[e] ELSE r.current]
         /\ r.resolution \in {"APPLY_INCOMING", "SKIP"} => data[i][e] = r.current
<1> DEFINE r == review[i].records[e]
           p == review[i].package
<1>1. review[i] # NoReview
  BY DEF apply_package, READY
<1>2. r \in ReviewRecords /\ p \in Packages
  BY <1>1 DEF PackageInv, PackageTypes, Reviews
<1>3. p \in exports /\ RecordOK(r, e, p)
  BY <1>1 DEF PackageInv, ReviewOK
<1>4. data'[i][e] = materialize(i, e) /\ heads'[i][e] = accepted_head(i, e)
  <2>1. i \in DOMAIN data /\ i \in DOMAIN heads
    BY DEF PackageInv, PackageTypes
  <2> QED
    BY <2>1 DEF apply_package
<1>5. r.resolution \in {"APPLY_INCOMING", "SKIP"} => data[i][e] = r.current
  BY DEF apply_package, unchanged_since_staging
<1> QED
  BY <1>2, <1>3, <1>4, <1>5 DEF materialize, accepted_head

LEMMA ApplyKeeps ==
  ASSUME PackageSetting, PackageInv, NEW i \in Installations, apply_package(i)
  PROVE  PackageInv'
<1> DEFINE p == review[i].package
<1>1. /\ p \in exports /\ p \in Packages /\ p.source # i
      /\ p.source \in Installations /\ p.revision \in Nat \ {0} /\ p.revision > applied[i][p.source]
  <2>1. review[i] # NoReview
    BY DEF apply_package, READY
  <2> QED
    BY <2>1 DEF PackageInv, ReviewOK, PackageTypes, Packages
<1>2. \A e \in Entities :
        /\ data[i][e] \in Nat /\ data[i][e] <= localEdits
        /\ p.content[e] \in Nat /\ p.content[e] <= localEdits
        /\ heads[i][e] \in Heads \cup {NoHead} /\ heads[i][e].payload <= localEdits
  BY <1>1 DEF PackageInv, PackageTypes, PayloadsOK, Packages, Contents
<1>3. /\ review' = [review EXCEPT ![i] = NoReview]
      /\ applied' = [applied EXCEPT ![i] = [applied[i] EXCEPT ![p.source] = p.revision]]
      /\ data' = [data EXCEPT ![i] = [e \in Entities |-> materialize(i, e)]]
      /\ heads' = [heads EXCEPT ![i] = [e \in Entities |-> accepted_head(i, e)]]
      /\ revision' = revision /\ exports' = exports /\ localEdits' = localEdits
  BY DEF apply_package
<1>4. \A j, s \in Installations :
        applied'[j][s] = IF j = i /\ s = p.source THEN p.revision ELSE applied[j][s]
  BY <1>1, <1>3 DEF PackageInv, PackageTypes
<1>5. \A j \in Installations : j # i =>
        data'[j] = data[j] /\ heads'[j] = heads[j] /\ review'[j] = review[j] /\ applied'[j] = applied[j]
  BY <1>3 DEF PackageInv, PackageTypes
<1> DEFINE r(e) == review[i].records[e]
<1>12. ASSUME NEW e \in Entities
        PROVE  /\ r(e) \in ReviewRecords /\ RecordOK(r(e), e, p)
               /\ r(e).resolution = "APPLY_INCOMING" =>
                    data'[i][e] = p.content[e] /\ data[i][e] = r(e).current
               /\ r(e).resolution = "SKIP" => data'[i][e] = data[i][e] /\ data[i][e] = p.content[e]
               /\ r(e).resolution \in {"APPLY_INCOMING", "SKIP"} =>
                    heads'[i][e] = [source |-> p.source,
                                    payload |-> IF p.content[e] # 0 THEN p.content[e] ELSE r(e).current]
               /\ r(e).resolution \notin {"APPLY_INCOMING", "SKIP"} =>
                    data'[i][e] = data[i][e] /\ heads'[i][e] = heads[i][e]
  <2>1. r(e) \in ReviewRecords /\ RecordOK(r(e), e, p)
    BY AppliedRow
  <2>2. data'[i][e] = IF r(e).resolution = "APPLY_INCOMING" THEN p.content[e] ELSE data[i][e]
    BY AppliedRow
  <2>3. heads'[i][e] = IF r(e).resolution \notin {"APPLY_INCOMING", "SKIP"} THEN heads[i][e]
                       ELSE [source |-> p.source,
                             payload |-> IF p.content[e] # 0 THEN p.content[e] ELSE r(e).current]
    BY AppliedRow
  <2>4. r(e).resolution \in {"APPLY_INCOMING", "SKIP"} => data[i][e] = r(e).current
    BY AppliedRow
  <2> HIDE DEF p, r
  <2> QED
    BY <2>1, <2>2, <2>3, <2>4 DEF RecordOK
<1> HIDE DEF p, r
<1>6. ASSUME NEW e \in Entities
      PROVE  /\ data'[i][e] \in Nat /\ data'[i][e] <= localEdits
             /\ heads'[i][e] \in Heads \cup {NoHead} /\ heads'[i][e].payload <= localEdits
             /\ heads'[i][e] = heads[i][e] \/ heads'[i][e].source = p.source
  <2>1. r(e).current \in Nat /\ r(e).current <= localEdits
    BY <1>12 DEF ReviewRecords, RecordOK
  <2>2. CASE r(e).resolution \in {"APPLY_INCOMING", "SKIP"}
    <3> DEFINE x == IF p.content[e] # 0 THEN p.content[e] ELSE r(e).current
    <3>1. data'[i][e] = p.content[e] \/ data'[i][e] = data[i][e]
      BY <1>12, <2>2
    <3>2. x \in Nat /\ x <= localEdits
      BY <1>2, <2>1
    <3>3. heads'[i][e] = [source |-> p.source, payload |-> x]
      BY <1>12, <2>2
    <3> HIDE DEF x
    <3>4. heads'[i][e] \in Heads /\ heads'[i][e].payload = x /\ heads'[i][e].source = p.source
      BY <1>1, <3>2, <3>3 DEF Heads
    <3> QED
      BY <1>2, <3>1, <3>2, <3>4
  <2>3. CASE r(e).resolution \notin {"APPLY_INCOMING", "SKIP"}
    BY <1>2, <1>12, <2>3
  <2> QED
    BY <2>2, <2>3
<1>7. PackageTypes'
  <2>1. data' \in [Installations -> Contents]
    <3>1. data'[i] = [e \in Entities |-> materialize(i, e)]
      BY <1>3 DEF PackageInv, PackageTypes
    <3>2. data'[i] \in Contents
      BY <1>6, <3>1 DEF Contents
    <3>3. data' = [data EXCEPT ![i] = data'[i]]
      BY <1>3, <3>1
    <3> QED
      BY <3>2, <3>3 DEF PackageInv, PackageTypes
  <2>2. heads' \in [Installations -> [Entities -> Heads \cup {NoHead}]]
    <3>1. heads'[i] = [e \in Entities |-> accepted_head(i, e)]
      BY <1>3 DEF PackageInv, PackageTypes
    <3>2. heads'[i] \in [Entities -> Heads \cup {NoHead}]
      BY <1>6, <3>1
    <3>3. heads' = [heads EXCEPT ![i] = heads'[i]]
      BY <1>3, <3>1
    <3> QED
      BY <3>2, <3>3 DEF PackageInv, PackageTypes
  <2>3. applied' \in [Installations -> [Installations -> Nat]]
    BY <1>1, <1>3 DEF PackageInv, PackageTypes
  <2>4. review' \in [Installations -> Reviews \cup {NoReview}]
    BY <1>3 DEF PackageInv, PackageTypes
  <2> QED
    BY <1>3, <2>1, <2>2, <2>3, <2>4 DEF PackageInv, PackageTypes
<1>8. PayloadsOK'
  BY <1>3, <1>5, <1>6 DEF PackageInv, PayloadsOK
<1>9. RevisionsOK'
  <2>1. \A j \in Installations : applied'[j][j] = 0
    BY <1>1, <1>4 DEF PackageInv, RevisionsOK
  <2>2. \A j, s \in Installations : applied'[j][s] <= revision'[s]
    BY <1>1, <1>3, <1>4 DEF PackageInv, RevisionsOK
  <2>3. ASSUME NEW j \in Installations, NEW e \in Entities, heads'[j][e] # NoHead
        PROVE  applied'[j][heads'[j][e].source] > 0
    <3>1. CASE j # i
      BY <1>5, <2>3, <3>1 DEF PackageInv, RevisionsOK
    <3>2. CASE j = i /\ heads'[i][e].source = p.source
      BY <1>1, <1>4, <3>2
    <3>3. CASE j = i /\ heads'[i][e] = heads[i][e] /\ heads[i][e].source # p.source
      <4>1. heads[i][e].source \in Installations
        BY <1>2, <2>3, <3>3 DEF Heads
      <4>2. applied[i][heads[i][e].source] > 0
        BY <2>3, <3>3 DEF PackageInv, RevisionsOK
      <4> QED
        BY <1>4, <3>3, <4>1, <4>2
    <3> QED
      BY <1>6, <3>1, <3>2, <3>3
  <2> QED
    BY <1>3, <2>1, <2>2, <2>3 DEF PackageInv, RevisionsOK
<1>10. ASSUME NEW j \in Installations
       PROVE  Delivered(j)'
  <2> SUFFICES ASSUME NEW e \in Entities, NEW s \in Installations,
                      heads'[j][e] = [source |-> s, payload |-> data'[j][e]], data'[j][e] # 0
               PROVE  Exported(s, e, data[j][e], applied[j][s])'
    BY DEF Delivered, follows_source
  <2>1. CASE j # i
    BY <1>3, <1>5, <2>1 DEF PackageInv, Delivered, follows_source, Exported
  <2>2. CASE j = i
    <3>1. CASE r(e).resolution \in {"APPLY_INCOMING", "SKIP"}
      <4>1. data'[i][e] = p.content[e]
        BY <1>12, <3>1
      <4>2. s = p.source
        <5>1. heads'[i][e].source = s
          BY <2>2
        <5>2. heads'[i][e] = [source |-> p.source,
                              payload |-> IF p.content[e] # 0 THEN p.content[e] ELSE r(e).current]
          BY <1>12, <3>1
        <5> QED
          BY <5>1, <5>2
      <4>3. applied'[i][s] = p.revision
        BY <1>4, <4>2
      <4> QED
        BY <1>1, <1>3, <2>2, <4>1, <4>2, <4>3 DEF Exported
    <3>2. CASE r(e).resolution \notin {"APPLY_INCOMING", "SKIP"}
      <4>1. data'[i][e] = data[i][e] /\ heads'[i][e] = heads[i][e]
        BY <1>12, <3>2
      <4>2. PICK q \in exports :
              q.source = s /\ q.revision <= applied[i][s] /\ q.content[e] = data[i][e]
        BY <2>2, <4>1 DEF PackageInv, Delivered, follows_source, Exported
      <4>3. q.revision \in Nat /\ applied[i][s] \in Nat
        BY DEF PackageInv, PackageTypes, Packages
      <4>4. q.revision <= applied'[i][s]
        BY <1>1, <1>4, <4>2, <4>3
      <4> QED
        BY <1>3, <2>2, <4>1, <4>2, <4>4 DEF Exported
    <3> QED
      BY <3>1, <3>2
  <2> QED
    BY <2>1, <2>2
<1>11. ASSUME NEW j \in Installations
       PROVE  ReviewOK(j)'
  <2>1. CASE j = i
    <3>1. review'[j] = NoReview
      BY <1>3, <2>1 DEF PackageInv, PackageTypes
    <3> QED
      BY <3>1 DEF ReviewOK
  <2>2. CASE j # i
    BY <1>3, <1>5, <2>2, ReviewStays DEF PackageInv, PackageTypes
  <2> QED
    BY <2>1, <2>2
<1> QED
  BY <1>7, <1>8, <1>9, <1>10, <1>11 DEF PackageInv

-----------------------------------------------------------------------------
(* The theorems *)

LEMMA PackageInvNext == ASSUME PackageSetting PROVE PackageInv /\ [PackageNext]_packageVars => PackageInv'
<1> SUFFICES ASSUME PackageInv, [PackageNext]_packageVars
             PROVE  PackageInv'
  OBVIOUS
<1>1. ASSUME NEW i \in Installations, NEW e \in Entities, NEW deleted \in BOOLEAN,
             edit_entity(i, e, deleted)
      PROVE  PackageInv'
  BY <1>1, EntityEditKeeps
<1>2. ASSUME NEW i \in Installations, NEW e \in Entities,
             NEW resolution \in {"APPLY_INCOMING", "KEEP_LOCAL"}, resolve_package(i, e, resolution)
      PROVE  PackageInv'
  BY <1>2, ResolveKeeps
<1>3. ASSUME NEW i \in Installations, export_current_state(i)
      PROVE  PackageInv'
  BY <1>3, ExportKeeps
<1>4. ASSUME NEW i \in Installations, NEW p \in exports, stage_package(i, p)
      PROVE  PackageInv'
  BY <1>4, StageKeeps
<1>5. ASSUME NEW i \in Installations, discard_package(i) \/ apply_package(i)
      PROVE  PackageInv'
  BY <1>5, DiscardKeeps, ApplyKeeps
<1>6. CASE UNCHANGED packageVars
  BY <1>6
  DEF packageVars, PackageInv, PackageTypes, PayloadsOK, RevisionsOK, Delivered, follows_source, Exported,
      ReviewOK, RecordOK
<1> QED
  BY <1>1, <1>2, <1>3, <1>4, <1>5, <1>6 DEF PackageNext

LEMMA PackageInvAlways == ASSUME PackageSetting PROVE PackageSpec => []PackageInv
BY PackageInvInit, PackageInvNext, PTL DEF PackageSpec

\* Rows and heads have their types, a head belongs to a source of which something
\* was applied, nothing is applied that its source did not export nor anything of
\* the installation itself, and what is reviewed was exported.
THEOREM PackageTypesCorrect == ASSUME PackageSetting PROVE PackageSpec => []PackageTypeOK
<1>1. PackageInv => PackageTypeOK
  <2> SUFFICES ASSUME PackageInv, NEW i \in Installations
               PROVE  /\ \A e \in Entities : /\ data[i][e] \in Payloads
                                             /\ heads[i][e] = NoHead \/ applied[i][heads[i][e].source] > 0
                      /\ \A s \in Installations : applied[i][s] \in 0..revision[s] /\ applied[i][i] = 0
                      /\ review[i] # NoReview => review[i].package \in exports
    BY DEF PackageTypeOK
  <2>1. \A e \in Entities : data[i][e] \in Payloads
    BY DEF PackageSetting, PackageInv, PackageTypes, PayloadsOK, Contents, Payloads
  <2>2. \A s \in Installations : applied[i][s] \in 0..revision[s] /\ applied[i][i] = 0
    BY DEF PackageInv, PackageTypes, RevisionsOK
  <2> QED
    BY <2>1, <2>2 DEF PackageInv, RevisionsOK, ReviewOK
<1> QED
  BY <1>1, PackageInvAlways, PTL

LEMMA UndecidedRow ==
  ASSUME PackageSetting, PackageInv, NEW i \in Installations, NEW e \in Entities, apply_package(i),
         data'[i][e] # data[i][e], data[i][e] # 0,
         review[i].records[e].verdict \notin {"CONFLICT", "DELETE"}
  PROVE  \E q \in exports : /\ q.source = review[i].package.source
                            /\ q.revision < review[i].package.revision
                            /\ q.content[e] = data[i][e]
<1> DEFINE r == review[i].records[e]
           p == review[i].package
<1>1. /\ r \in ReviewRecords /\ RecordOK(r, e, p)
      /\ r.resolution = "APPLY_INCOMING" /\ data[i][e] = r.current
  BY AppliedRow
<1>2. r.verdict \notin {"CONFLICT", "DELETE"}
  OBVIOUS
<1> HIDE DEF r, p
<1>3. r.verdict = "UPDATE"
  BY <1>1, <1>2 DEF RecordOK, ReviewRecords, Verdicts
<1>4. \E q \in exports : /\ q.source = p.source /\ q.revision < p.revision
                         /\ q.content[e] = data[i][e]
  BY <1>1, <1>3 DEF RecordOK
<1> QED
  BY <1>4 DEF p

\* An application overwrites without a decision only what its source exported
\* itself, at an earlier revision than the package (apply_package compares every
\* row with the one that was classified), for any installations, rows, edits
\* between staging and application, and old, repeated or restaged packages.
THEOREM OverwritesAreDecided == ASSUME PackageSetting PROVE PackageSpec => NoUndecidedOverwrite
<1>1. PackageInv /\ [PackageNext]_packageVars => [UndecidedWasTheirs]_packageVars
  <2> SUFFICES ASSUME PackageInv, PackageNext, localEdits' = localEdits,
                      NEW i \in Installations, NEW e \in Entities,
                      data'[i][e] # data[i][e], data[i][e] # 0,
                      review[i].records[e].verdict \notin {"CONFLICT", "DELETE"}
               PROVE  \E p \in exports : /\ p.source = review[i].package.source
                                         /\ p.revision < review[i].package.revision
                                         /\ p.content[e] = data[i][e]
    BY DEF UndecidedWasTheirs
  <2>1. \A j \in Installations, g \in Entities, deleted \in BOOLEAN : ~edit_entity(j, g, deleted)
    BY DEF edit_entity, PackageInv, PackageTypes
  <2>2. data' = data \/ \E j \in Installations : apply_package(j)
    BY <2>1 DEF PackageNext, resolve_package, export_current_state, stage_package, discard_package
  <2>3. PICK j \in Installations : apply_package(j)
    BY <2>2
  <2>4. j = i
    BY <2>3 DEF apply_package, PackageInv, PackageTypes
  <2> QED
    BY <2>3, <2>4, UndecidedRow
<1> QED
  BY <1>1, PackageInvAlways, PTL DEF PackageSpec, NoUndecidedOverwrite

\* What an installation has of the others changes with the revision of one source,
\* which grows: no package is applied twice and none after a later one
\* (stage_package refuses what is not newer than applied_change_packages, and
\* nothing else is applied while the review is open).
RevisionsOnlyGrow ==
  \A i \in Installations :
    heads'[i] # heads[i] \/ applied'[i] # applied[i] =>
      \E s \in Installations : /\ applied'[i][s] > applied[i][s]
                               /\ \A t \in Installations \ {s} : applied'[i][t] = applied[i][t]

THEOREM AppliedInOrder == ASSUME PackageSetting PROVE PackageSpec => [][RevisionsOnlyGrow]_packageVars
<1>1. PackageInv /\ [PackageNext]_packageVars => [RevisionsOnlyGrow]_packageVars
  <2> SUFFICES ASSUME PackageInv, PackageNext
               PROVE  RevisionsOnlyGrow
    OBVIOUS
  <2>1. ASSUME NEW j \in Installations, apply_package(j)
        PROVE  RevisionsOnlyGrow
    <3> DEFINE p == review[j].package
    <3>1. p.source \in Installations /\ p.revision > applied[j][p.source]
      BY <2>1 DEF apply_package, READY, PackageInv, ReviewOK, PackageTypes, Packages
    <3>2. \A i, s \in Installations :
            applied'[i][s] = IF i = j /\ s = p.source THEN p.revision ELSE applied[i][s]
      BY <2>1, <3>1 DEF apply_package, PackageInv, PackageTypes
    <3>3. \A i \in Installations : i # j => heads'[i] = heads[i] /\ applied'[i] = applied[i]
      BY <2>1 DEF apply_package, PackageInv, PackageTypes
    <3> HIDE DEF p
    <3> QED
      BY <3>1, <3>2, <3>3 DEF RevisionsOnlyGrow
  <2>2. CASE applied' = applied /\ heads' = heads
    BY <2>2 DEF RevisionsOnlyGrow
  <2> QED
    BY <2>1, <2>2
    DEF PackageNext, edit_entity, resolve_package, export_current_state, stage_package, discard_package
<1> QED
  BY <1>1, PackageInvAlways, PTL DEF PackageSpec

-----------------------------------------------------------------------------
(* Gmail: the inductive invariant *)

MailboxStates == {"labelled", "unlabelled", "deleted"}
AccountStates ==
  {"NONE", "AUTHORIZING", "SELECTING_LABEL", "CONNECTED", "DISCONNECTED", "AUTH_REQUIRED"}
LetterStates ==
  {"ABSENT", "DISCOVERED", "PROCESSING", "READY", "FAILED", "REMOVED", "IGNORED", "STAGED"}
Bound == {"CONNECTED", "DISCONNECTED", "AUTH_REQUIRED"}
Accounts == [status : AccountStates, cursor : Nat, scanned : BOOLEAN]
Pollings == [exists : BOOLEAN, enabled : BOOLEAN, token : Nat, live : BOOLEAN]
Letters ==
  [state : LetterStates, tries : 0..MaxInboxAttempts, content : Nat, token : Nat, live : BOOLEAN,
   origin : {"none", "DISCOVERED", "READY"}, run : Nat]
Claims ==
  [pc : {"idle", "claimed", "running", "restoring"}, token : Nat, cursor : Nat, restore : BOOLEAN]
Phases == {"none", "list", "history", "fetch", "store", "claim", "ready", "complete"}
Pages == UNION {[S -> BOOLEAN] : S \in SUBSET Messages}
Passes ==
  [by : Syncers \cup {"nobody"}, phase : Phases, token : Nat, lease : Nat, full : BOOLEAN,
   from : Nat, cursor : Nat, unlisted : SUBSET Messages, drain : BOOLEAN, page : Pages,
   present : SUBSET Messages, msg : Messages \cup {"none"}]
Imports == [pc : {"idle", "start", "stage"}, msg : Messages \cup {"none"}, token : Nat]

MailboxOK ==
  /\ mailbox \in [Messages -> MailboxStates]
  /\ records \in Seq([msg : Messages, upsert : BOOLEAN])

\* Until a label is bound nothing has been synchronised.
AccountOK ==
  /\ account \in Accounts /\ account.cursor <= HistoryId
  /\ account.status \in {"SELECTING_LABEL", "CONNECTED"} => account.cursor # 0
  /\ account.status \notin Bound => ~account.scanned
  /\ polling \in Pollings

\* A claim is one of a label that was bound and names a history id; the run inside
\* the mutex is that of its worker.
SyncersOK ==
  /\ syncer \in [Syncers -> Claims]
  /\ \A w \in Syncers :
       /\ syncer[w].pc = "claimed" => syncer[w].token \in 1..4 /\ syncer[w].cursor \in 1..HistoryId
       /\ syncer[w].pc \in {"claimed", "running"} => account.status \in Bound
       /\ syncer[w].pc = "running" <=> pass.by = w

\* A row without its bytes is never READY, FAILED or claimed by the screen.
LetterOK(row) ==
  /\ row \in Letters
  /\ row.state = "PROCESSING" <=> row.token # NoSyncLease
  /\ row.state \in {"READY", "FAILED"} \/ row.token = ScreenToken => row.content # NoBytes

LettersOK ==
  /\ letters = [m \in Messages |-> letters[m]]
  /\ \A m \in Messages : LetterOK(letters[m])

\* A linked document cannot be deleted, so its run cannot be rolled back.
LinksOK ==
  /\ import \in Imports
  /\ import.pc # "idle" => import.msg \in Messages /\ import.token = ScreenToken
  /\ runs = [m \in Messages |-> runs[m]] /\ linked \subseteq Messages
  /\ \A m \in Messages : letters[m].state = "STAGED" => m \in linked
  /\ \A m \in linked : runs[m] \in {"REVIEW", "POSTED"}

\* What a phase says of a pass: only storing leaves a page behind, only a full
\* pass lists, and an incremental one begins with the history.
PassTypesOK ==
  /\ pass \in Passes
  /\ pass.by = "nobody" <=> pass.phase = "none"
  /\ pass.by # "nobody" => pass.token \in 1..4 /\ pass.from \in 1..pass.cursor /\ pass.cursor <= HistoryId
  /\ pass.phase \in {"list", "history", "complete"} => DOMAIN pass.page = {}
  /\ pass.phase \in {"claim", "ready"} => pass.msg \in Messages
  /\ pass.phase = "list" => pass.full /\ ~pass.drain
  /\ pass.phase = "complete" => pass.drain
  /\ pass.phase = "history" /\ pass.full /\ ~pass.drain => pass.unlisted = {}
  /\ ~pass.full /\ ~pass.drain => pass.phase \in {"none", "history"}
  /\ ~pass.full => pass.from = pass.lease

GmailTypes == MailboxOK /\ AccountOK /\ SyncersOK /\ LettersOK /\ LinksOK /\ PassTypesOK

Labelled(m) == mailbox[m] = "labelled"
Missing == {"ABSENT", "REMOVED", "DISCOVERED"}

\* No record from history id c on is about m.
Quiet(m, c) == \A i \in 1..Len(records) : i >= c => records[i].msg # m

\* The inbox agrees with the mailbox on m.
Agrees(m) ==
  /\ Labelled(m) => letters[m].state \notin Missing
  /\ ~Labelled(m) => letters[m].state \notin OpenStates

\* The last record of a message says whether it has the label.
RecordsOK ==
  \A i \in 1..Len(records), m \in Messages :
    records[i].msg = m /\ Quiet(m, i + 1) => (records[i].upsert <=> Labelled(m))

\* What a scanned account has stored agrees with the mailbox on every message
\* without a record from its history id on.
StoredOK == account.scanned => \A m \in Messages : Quiet(m, account.cursor) => Agrees(m)

\* Messages that a pass has been told of and has not dealt with yet.
Unanswered == DOMAIN pass.page \cup {m \in Messages : pass.phase \in {"claim", "ready"} /\ m = pass.msg}

\* A page says of a message without a later record what the mailbox says, and
\* what is being hydrated has the label.
PageOK ==
  /\ \A m \in DOMAIN pass.page : Quiet(m, pass.cursor) => (pass.page[m] <=> Labelled(m))
  /\ pass.phase \in {"claim", "ready"} =>
       pass.msg \in pass.present /\ (Quiet(pass.msg, pass.cursor) => Labelled(pass.msg))

\* An incremental pass: its pages are of messages that changed since the stored
\* history id, and up to its own position the inbox agrees with the mailbox.
IncrementOK ==
  ~pass.full =>
    /\ \A m \in Unanswered : ~Quiet(m, pass.from)
    /\ account.cursor = pass.lease =>
         \A m \in Messages \ Unanswered : Quiet(m, pass.cursor) => Agrees(m)

\* A full pass: up to its position it has found exactly the messages with the
\* label, and those are in the inbox; the others go when it completes.
ScanOK ==
  pass.full =>
    \A m \in Messages : Quiet(m, pass.cursor) =>
      /\ Labelled(m) /\ m \notin Unanswered /\ (pass.drain \/ m \notin pass.unlisted) =>
           m \in pass.present /\ letters[m].state \notin Missing
      /\ ~Labelled(m) /\ (~pass.drain \/ m \notin Unanswered) => m \notin pass.present

PassOK ==
  pass.by # "nobody" => (pass.full <=> ~account.scanned) /\ PageOK /\ IncrementOK /\ ScanOK

GmailInv == GmailTypes /\ RecordsOK /\ StoredOK /\ PassOK

GmailSetting == MaxInboxAttempts \in Nat

-----------------------------------------------------------------------------
(* Gmail: what the store functions make of a row *)

\* The row is well formed, and staged only if it was.
Sound(new, row) == LetterOK(new) /\ (new.state = "STAGED" => row.state = "STAGED")

\* Neither does it go missing nor is it opened.
Settles(new, row) ==
  /\ row.state \notin Missing => new.state \notin Missing
  /\ row.state \notin OpenStates => new.state \notin OpenStates

LEMMA DiscoverLetter ==
  ASSUME NEW row, LetterOK(row)
  PROVE  LET new == discover_messages_claimed(row)
         IN  Sound(new, row) /\ new.state \notin {"ABSENT", "REMOVED"}
<1>1. row \in Letters
  BY DEF LetterOK
<1> QED
  BY <1>1
  DEF LetterOK, Letters, LetterStates, OpenStates, Sound, discover_messages_claimed, NoSyncLease,
      NoBytes, ScreenToken

LEMMA UnleasedLetter ==
  ASSUME NEW row \in Letters
  PROVE  /\ Unleased(row) \in Letters /\ Unleased(row).token = NoSyncLease
         /\ Unleased(row).content = row.content
BY DEF Letters, LetterStates, Unleased, NoSyncLease

LEMMA RemoveLetter ==
  ASSUME NEW row, LetterOK(row)
  PROVE  LET new == mark_message_removed_claimed(row)
         IN  Sound(new, row) /\ new.state \notin OpenStates
<1> DEFINE free == Unleased(row)
           new == [free EXCEPT !.state = "REMOVED"]
<1>1. free \in Letters /\ free.token = NoSyncLease
  BY UnleasedLetter DEF LetterOK
<1> HIDE DEF free
<1>2. new \in Letters /\ new.state = "REMOVED" /\ new.token = NoSyncLease
  BY <1>1 DEF Letters, LetterStates
<1>3. mark_message_removed_claimed(row) = IF row.state \in OpenStates THEN new ELSE row
  BY DEF mark_message_removed_claimed, free
<1> HIDE DEF new
<1>4. LetterOK(new)
  BY <1>2 DEF LetterOK, NoSyncLease, ScreenToken
<1> QED
  BY <1>2, <1>3, <1>4 DEF Sound, OpenStates

LEMMA ClaimLetter ==
  ASSUME NEW row, LetterOK(row), CanClaim(row), GmailSetting,
         NEW t \in Nat \ {0}, t = ScreenToken => row.state = "READY"
  PROVE  Sound(claim_inbox(row, t), row) /\ Settles(claim_inbox(row, t), row)
<1> DEFINE new == claim_inbox(row, t)
           lent == [row EXCEPT !.state = "PROCESSING", !.token = t, !.live = TRUE]
<1>1. row \in Letters /\ row.state \in {"DISCOVERED", "READY"} /\ row.tries + 1 \in 0..MaxInboxAttempts
  BY DEF LetterOK, CanClaim, Letters, GmailSetting
<1>2. new = [[lent EXCEPT !.origin = row.state] EXCEPT !.tries = row.tries + 1]
  BY <1>1 DEF claim_inbox, Letters
<1>3. /\ lent \in Letters /\ lent.state = "PROCESSING" /\ lent.token = t
      /\ lent.content = row.content
  BY <1>1 DEF Letters, LetterStates, OpenStates
<1> HIDE DEF new, lent
<1>4. /\ new \in Letters /\ new.state = "PROCESSING" /\ new.token = t
      /\ new.content = row.content
  BY <1>1, <1>2, <1>3 DEF Letters, LetterStates, OpenStates
<1>5. LetterOK(new)
  BY <1>4 DEF LetterOK, NoSyncLease
<1> QED
  BY <1>1, <1>4, <1>5 DEF Sound, Settles, Missing, OpenStates, new

LEMMA ReadyLetter ==
  ASSUME NEW row, LetterOK(row), row.state = "PROCESSING", NEW bytes \in Nat \ {0}
  PROVE  /\ Sound(mark_inbox_ready(row, bytes), row) /\ Settles(mark_inbox_ready(row, bytes), row)
         /\ mark_inbox_ready(row, bytes).state = "READY"
<1>1. row \in Letters
  BY DEF LetterOK
<1> QED
  BY <1>1
  DEF LetterOK, Letters, LetterStates, OpenStates, Missing, Sound, Settles, mark_inbox_ready, Unleased,
      NoSyncLease, NoBytes, ScreenToken

LEMMA StageLetter ==
  ASSUME NEW row, LetterOK(row), row.state = "PROCESSING", NEW run \in Nat
  PROVE  LetterOK(mark_inbox_staged(row, run)) /\ Settles(mark_inbox_staged(row, run), row)
<1> DEFINE free == Unleased(row)
           new == [free EXCEPT !.state = "STAGED", !.run = run]
<1>1. free \in Letters /\ free.token = NoSyncLease
  BY UnleasedLetter DEF LetterOK
<1>2. mark_inbox_staged(row, run) = new
  BY DEF mark_inbox_staged
<1> HIDE DEF free
<1>3. new \in Letters /\ new.state = "STAGED" /\ new.token = NoSyncLease
  BY <1>1 DEF Letters, LetterStates
<1> HIDE DEF new
<1>4. LetterOK(new)
  BY <1>3 DEF LetterOK, NoSyncLease, ScreenToken
<1> QED
  BY <1>2, <1>3, <1>4 DEF Settles, Missing, OpenStates

LEMMA FailLetter ==
  ASSUME NEW row, LetterOK(row), Holds(row, ScreenToken)
  PROVE  Sound(fail_inbox(row), row) /\ Settles(fail_inbox(row), row)
<1>1. row \in Letters /\ row.state = "PROCESSING" /\ row.content # NoBytes
  BY DEF LetterOK, Holds
<1> QED
  BY <1>1
  DEF LetterOK, Letters, LetterStates, OpenStates, Missing, Sound, Settles, fail_inbox, Unleased,
      NoSyncLease, NoBytes, ScreenToken

LEMMA IgnoreLetter ==
  ASSUME NEW row, LetterOK(row), CanIgnore(row)
  PROVE  Sound(ignore_inbox(row), row) /\ Settles(ignore_inbox(row), row)
<1>1. row \in Letters
  BY DEF LetterOK
<1> QED
  BY <1>1
  DEF LetterOK, Letters, LetterStates, OpenStates, Missing, Sound, Settles, CanIgnore, ignore_inbox,
      NoSyncLease, NoBytes, ScreenToken

LEMMA RetryLetter ==
  ASSUME NEW row, LetterOK(row), CanRetry(row), GmailSetting
  PROVE  Sound(retry_inbox(row), row) /\ Settles(retry_inbox(row), row)
<1> DEFINE fresh == [row EXCEPT !.tries = 0]
           new == [fresh EXCEPT !.state = "READY"]
<1>1. row \in Letters /\ row.state = "FAILED" /\ row.content # NoBytes /\ row.token = NoSyncLease
  BY DEF LetterOK, CanRetry
<1>2. 0 \in 0..MaxInboxAttempts
  BY DEF GmailSetting
<1>3. fresh \in Letters /\ fresh.content = row.content /\ fresh.token = row.token
  BY <1>1, <1>2 DEF Letters
<1>4. retry_inbox(row) = new
  BY <1>1 DEF retry_inbox, Letters
<1> HIDE DEF fresh
<1>5. new \in Letters /\ new.state = "READY" /\ new.content = row.content /\ new.token = row.token
  BY <1>3 DEF Letters, LetterStates
<1> HIDE DEF new
<1>6. LetterOK(new)
  BY <1>1, <1>5 DEF LetterOK, NoSyncLease, ScreenToken
<1> QED
  BY <1>1, <1>4, <1>5, <1>6 DEF Sound, Settles, Missing, OpenStates

LEMMA ExpireLetter ==
  ASSUME NEW row, LetterOK(row)
  PROVE  LET new == [row EXCEPT !.live = FALSE] IN Sound(new, row) /\ Settles(new, row)
<1>1. row \in Letters
  BY DEF LetterOK
<1> QED
  BY <1>1 DEF LetterOK, Letters, Sound, Settles

-----------------------------------------------------------------------------
(* Gmail: the schedule and its claims *)

\* Of four tokens the schedule and two workers use three.
LEMMA SyncLeases ==
  /\ NewSyncLease \in 1..4 /\ NewSyncLease \in Nat \ {0} /\ NewSyncLease # NoSyncLease
  /\ NewSyncLease # polling.token
<1> DEFINE Free(t) == t # polling.token /\ \A w \in Syncers : syncer[w].token # t
<1>1. \E t \in 1..4 : Free(t)
  <2>1. ASSUME NEW a, NEW b, NEW c
        PROVE  \E t \in 1..4 : t # a /\ t # b /\ t # c
    <3>1. 1 \in 1..4 /\ 2 \in 1..4 /\ 3 \in 1..4 /\ 4 \in 1..4
      OBVIOUS
    <3> QED
      BY <3>1
  <2> QED
    BY <2>1 DEF Syncers, Poller, Requested
<1>2. NewSyncLease = CHOOSE t \in 1..4 : Free(t)
  BY DEF NewSyncLease
<1> HIDE DEF Free
<1>3. NewSyncLease \in 1..4 /\ Free(NewSyncLease)
  BY <1>1, <1>2
<1> QED
  BY <1>3 DEF Free, NoSyncLease

LEMMA ScheduleRows ==
  ASSUME NEW s \in Pollings, NEW on \in BOOLEAN
  PROVE  /\ configure_schedule(on) \in Pollings /\ configure_schedule(on).token = NoSyncLease
         /\ Freed(s) \in Pollings /\ Freed(s).token = NoSyncLease
         /\ disabled_schedule(s) \in Pollings /\ heartbeat_sync(s) \in Pollings
         /\ [s EXCEPT !.live = FALSE] \in Pollings /\ [s EXCEPT !.enabled = FALSE] \in Pollings
BY DEF Pollings, configure_schedule, NoPolling, Freed, disabled_schedule, heartbeat_sync, NoSyncLease

LEMMA ClaimedSchedule ==
  ASSUME NEW c, NEW s \in Pollings, NEW t \in Nat \ {0}, s.token # t
  PROVE  LET new == claim_due_sync(c, s, t)
         IN  new \in Pollings /\ (new.token = t => c.status = "CONNECTED")
<1> DEFINE r == IF s.token # NoSyncLease /\ ~s.live THEN Freed(s) ELSE s
<1>1. r \in Pollings /\ r.token # t
  <2>1. Freed(s) \in Pollings /\ Freed(s).token = NoSyncLease /\ t # NoSyncLease
    BY ScheduleRows DEF NoSyncLease
  <2> QED
    BY <2>1
<1>2. claim_due_sync(c, s, t) = IF Claimable(c, r) THEN [r EXCEPT !.token = t, !.live = TRUE] ELSE r
  BY DEF claim_due_sync
<1> HIDE DEF r
<1>3. /\ [r EXCEPT !.token = t, !.live = TRUE] \in Pollings
      /\ [r EXCEPT !.token = t, !.live = TRUE].token = t
  BY <1>1 DEF Pollings
<1> QED
  BY <1>1, <1>2, <1>3 DEF Claimable

LEMMA PolledSchedule ==
  ASSUME NEW c, NEW s \in Pollings, NEW t \in Nat \ {0}, s.token # t
  PROVE  LET new == claim_next_due_sync(c, s, t)
         IN  new \in Pollings /\ (new.token = t => c.status = "CONNECTED")
BY ClaimedSchedule DEF claim_next_due_sync

LEMMA FailedSchedule ==
  ASSUME polling \in Pollings, NEW t, NEW c
  PROVE  fail_if_active(t, c) \in Pollings
BY ScheduleRows DEF fail_if_active, fail_sync
-----------------------------------------------------------------------------
(* Gmail: the mailbox *)

\* A new record is behind every history id anybody holds: of the messages without a
\* record from there on, none has changed.
LEMMA Recorded ==
  ASSUME MailboxOK, NEW m \in Messages, NEW now \in MailboxStates, MailboxChange(m, now)
  PROVE  /\ MailboxOK' /\ HistoryId \in Nat /\ HistoryId' = HistoryId + 1
         /\ records' = Append(records, [msg |-> m, upsert |-> now = "labelled"])
         /\ \A n \in Messages, c \in 0..HistoryId :
              /\ Quiet(n, c)' => Quiet(n, c) /\ n # m
              /\ n # m => (Labelled(n)' <=> Labelled(n))
<1> DEFINE upsert == now = "labelled"
           new == [msg |-> m, upsert |-> upsert]
<1>1. /\ mailbox' = [mailbox EXCEPT ![m] = now] /\ records' = Append(records, new)
      /\ mailbox \in [Messages -> MailboxStates]
      /\ records \in Seq([msg : Messages, upsert : BOOLEAN])
  BY DEF MailboxChange, MailboxOK
<1>2. upsert \in BOOLEAN
  BY Zenon
<1> HIDE DEF upsert
<1>3. new \in [msg : Messages, upsert : BOOLEAN] /\ new.msg = m
  BY <1>2
<1> HIDE DEF new
<1>4. /\ Len(records) \in Nat /\ Len(records') = Len(records) + 1
      /\ records'[Len(records) + 1] = new /\ \A i \in 1..Len(records) : records'[i] = records[i]
      /\ records' \in Seq([msg : Messages, upsert : BOOLEAN])
  BY <1>1, <1>3
<1>5. MailboxOK' /\ HistoryId \in Nat /\ HistoryId' = HistoryId + 1
  BY <1>1, <1>4 DEF MailboxOK, HistoryId
<1>6. ASSUME NEW n \in Messages, NEW c \in 0..HistoryId, Quiet(n, c)'
      PROVE  Quiet(n, c) /\ n # m
  <2>1. \A i \in 1..Len(records') : i >= c => records'[i].msg # n
    BY <1>6 DEF Quiet
  <2>2. \A i \in 1..Len(records) : i \in 1..Len(records')
    BY <1>4
  <2>3. Quiet(n, c)
    BY <2>1, <2>2, <1>4 DEF Quiet
  <2>4. Len(records) + 1 \in 1..Len(records') /\ Len(records) + 1 >= c
    BY <1>4 DEF HistoryId
  <2> QED
    BY <2>1, <2>3, <2>4, <1>3, <1>4
<1>7. \A n \in Messages : n # m => (Labelled(n)' <=> Labelled(n))
  BY <1>1 DEF Labelled
<1>8. records' = Append(records, [msg |-> m, upsert |-> now = "labelled"])
  BY DEF MailboxChange
<1> QED
  BY <1>5, <1>6, <1>7, <1>8

LEMMA RecordsKeep ==
  ASSUME MailboxOK, RecordsOK, NEW m \in Messages, NEW now \in MailboxStates, MailboxChange(m, now)
  PROVE  RecordsOK'
<1> DEFINE upsert == now = "labelled"
           new == [msg |-> m, upsert |-> upsert]
<1>0. upsert <=> now = "labelled"
  BY Zenon
<1>1. /\ mailbox' = [mailbox EXCEPT ![m] = now] /\ mailbox \in [Messages -> MailboxStates]
      /\ records' = Append(records, new) /\ records \in Seq([msg : Messages, upsert : BOOLEAN])
  BY DEF MailboxChange, MailboxOK
<1>7. Labelled(m)' <=> now = "labelled"
  BY <1>1 DEF Labelled
<1> HIDE DEF upsert
<1>2. new.msg = m /\ new.upsert = upsert
  OBVIOUS
<1> HIDE DEF new
<1>3. /\ Len(records) \in Nat /\ Len(records') = Len(records) + 1
      /\ records'[Len(records) + 1] = new /\ \A i \in 1..Len(records) : records'[i] = records[i]
  <2> DEFINE anything == {records[i] : i \in 1..Len(records)} \cup {new}
  <2>1. records \in Seq(anything) /\ new \in anything
    BY <1>1
  <2> HIDE DEF anything
  <2> QED
    BY <1>1, <2>1
<1>4. ASSUME NEW i \in 1..Len(records'), NEW n \in Messages, records'[i].msg = n, Quiet(n, i + 1)'
      PROVE  records'[i].upsert <=> Labelled(n)'
  <2>1. CASE i = Len(records) + 1
    BY <2>1, <1>0, <1>2, <1>3, <1>4, <1>7
  <2>2. CASE i # Len(records) + 1
    <3>1. i \in 1..Len(records) /\ i + 1 \in 0..HistoryId /\ records'[i] = records[i]
      BY <2>2, <1>3 DEF HistoryId
    <3>2. Quiet(n, i + 1) /\ (Labelled(n)' <=> Labelled(n))
      BY <3>1, <1>4, Recorded
    <3> QED
      BY <3>1, <3>2, <1>4 DEF RecordsOK
  <2> QED
    BY <2>1, <2>2
<1> QED
  BY <1>4 DEF RecordsOK
LEMMA MailboxKeeps ==
  ASSUME GmailInv, NEW m \in Messages, NEW now \in MailboxStates, MailboxChange(m, now)
  PROVE  GmailInv'
<1> USE DEF GmailInv, GmailTypes
<1>1. /\ UNCHANGED <<account, polling, letters, linked, syncer, pass, import, runs>>
      /\ HistoryId \in Nat /\ HistoryId' = HistoryId + 1
  BY Recorded DEF MailboxChange, gmailRows
<1>2. \A n \in Messages, c \in 0..HistoryId :
        Quiet(n, c)' => Quiet(n, c) /\ n # m /\ (Labelled(n)' <=> Labelled(n))
  BY Recorded
<1>3. MailboxOK' /\ RecordsOK'
  BY Recorded, RecordsKeep
<1>4. account.cursor \in 0..HistoryId /\ AccountOK'
  BY <1>1 DEF AccountOK, Accounts
<1>5. SyncersOK' /\ LettersOK' /\ LinksOK'
  <2>1. \A w \in Syncers : syncer[w].cursor \in 1..HistoryId => syncer[w].cursor \in 1..HistoryId'
    BY <1>1
  <2>2. SyncersOK'
    BY <1>1, <2>1 DEF SyncersOK
  <2> QED
    BY <1>1, <2>2 DEF LettersOK, LinksOK
<1>6. PassTypesOK'
  BY <1>1 DEF PassTypesOK, Passes
<1>7. \A n \in Messages, c \in 0..HistoryId : Quiet(n, c)' /\ Agrees(n) => Agrees(n)'
  BY <1>1, <1>2 DEF Agrees
<1>8. StoredOK'
  BY <1>1, <1>2, <1>4, <1>7 DEF StoredOK
<1>9. ASSUME pass.by # "nobody"
      PROVE  (pass.full <=> ~account.scanned) /\ PageOK' /\ IncrementOK' /\ ScanOK'
  <2>1. /\ pass.cursor \in 0..HistoryId /\ pass.from \in 0..HistoryId /\ DOMAIN pass.page \subseteq Messages
        /\ pass.phase \in {"claim", "ready"} => pass.msg \in Messages
    BY <1>1, <1>9 DEF PassTypesOK, Passes, Pages
  <2>2. (pass.full <=> ~account.scanned) /\ PageOK /\ IncrementOK /\ ScanOK
    BY <1>9 DEF PassOK
  <2>3. Unanswered' = Unanswered /\ Unanswered \subseteq Messages
    BY <1>1, <2>1 DEF Unanswered
  <2>4. PageOK'
    BY <1>1, <1>2, <2>1, <2>2 DEF PageOK
  <2>5. IncrementOK'
    BY <1>1, <1>2, <1>7, <2>1, <2>2, <2>3 DEF IncrementOK
  <2>6. ScanOK'
    BY <1>1, <1>2, <2>1, <2>2, <2>3 DEF ScanOK
  <2> QED
    BY <2>2, <2>4, <2>5, <2>6
<1>10. PassOK'
  BY <1>1, <1>9 DEF PassOK
<1> QED
  BY <1>3, <1>4, <1>5, <1>6, <1>8, <1>10

-----------------------------------------------------------------------------
(* Gmail: what a step leaves as it was *)

\* Nothing of the mailbox has changed.
LEMMA SameMailbox ==
  ASSUME UNCHANGED <<mailbox, records>>
  PROVE  /\ HistoryId' = HistoryId /\ (MailboxOK => MailboxOK') /\ (RecordsOK => RecordsOK')
         /\ \A m, c : Quiet(m, c)' <=> Quiet(m, c)
         /\ \A m : Labelled(m)' <=> Labelled(m)
BY DEF HistoryId, MailboxOK, RecordsOK, Quiet, Labelled

\* What was opened before stays so until it is answered, and nothing goes missing.
LEMMA StoredStays ==
  ASSUME StoredOK, UNCHANGED <<mailbox, records>>,
         account'.scanned => account.scanned /\ account'.cursor = account.cursor,
         \A m \in Messages : ~Quiet(m, account.cursor) \/ ~account.scanned \/ Settles(letters'[m], letters[m])
  PROVE  StoredOK'
<1> SUFFICES ASSUME account'.scanned, NEW m \in Messages, Quiet(m, account.cursor)'
             PROVE  Agrees(m)'
  BY DEF StoredOK
<1>1. account.scanned /\ Quiet(m, account.cursor)
  BY SameMailbox DEF Quiet
<1>2. Agrees(m) /\ Settles(letters'[m], letters[m])
  BY <1>1 DEF StoredOK
<1> QED
  BY <1>2, SameMailbox DEF Agrees, Settles

\* Outside a run, or when it ends, there is nothing to say of it.
LEMMA NoRun ==
  ASSUME pass' = NoPass
  PROVE  PassTypesOK' /\ PassOK'
<1>1. <<>> \in Pages /\ NoPass.page = <<>>
  BY DEF Pages, NoPass
<1>2. NoPass \in Passes
  BY <1>1 DEF NoPass, Passes, Phases, NoSyncLease
<1> QED
  BY <1>2 DEF PassTypesOK, PassOK, NoPass
\* Steps of the application, as against those of the mailbox.
GmailApplication == HistoryExpires \/ GmailUser \/ GmailPass \/ GmailLeaseExpires \/ GmailCrash

LEMMA MailboxUntouched ==
  ASSUME GmailApplication
  PROVE  UNCHANGED <<mailbox, records>>
<1>1. CASE HistoryExpires \/ GmailLeaseExpires \/ GmailCrash
  BY <1>1 DEF HistoryExpires, GmailLeaseExpires, GmailCrash, gmailRemote
<1>2. CASE GmailUser
  BY <1>2
  DEF GmailUser, gmail_connect, gmail_label_bind, gmail_disconnect, start_gmail_sync,
      gmail_schedule_update, import_start, gmail_inbox_mark_staged, gmail_inbox_claim, gmail_inbox_ignore,
      gmail_inbox_retry, import_commit, import_rollback, gmailRemote
<1>3. CASE GmailPass
  BY <1>3
  DEF GmailPass, poll, restore_polling, run_claimed_gmail_sync, finish_claim, pass_fails, list_messages,
      list_history, fetch_page, persist_raw_message, persist_removed_message, claim_for_hydration,
      hydrate, page_stored, history_cursor_expired, complete_pass, gmailRemote
<1> QED
  BY <1>1, <1>2, <1>3 DEF GmailApplication

LEMMA AccountKeeps ==
  ASSUME GmailInv, GmailApplication
  PROVE  AccountOK'
<1>0. /\ account \in Accounts /\ account.cursor \in Nat /\ account.cursor <= HistoryId
      /\ account.status \in {"SELECTING_LABEL", "CONNECTED"} => account.cursor # 0
      /\ account.status \notin Bound => ~account.scanned
      /\ polling \in Pollings /\ HistoryId \in Nat \ {0} /\ HistoryId' = HistoryId
  BY MailboxUntouched DEF GmailInv, GmailTypes, AccountOK, Accounts, MailboxOK, HistoryId
<1>1. ASSUME account' = account, polling' \in Pollings
      PROVE  AccountOK'
  BY <1>0, <1>1 DEF AccountOK
<1>2. CASE gmail_connect
  <2>1. CASE account' = begin_connection(account) /\ polling' = polling
    <3>1. /\ account' = [status |-> "AUTHORIZING", cursor |-> 0, scanned |-> FALSE]
          /\ 0 \in Nat /\ FALSE \in BOOLEAN
      BY <2>1 DEF begin_connection, NoAccount
    <3>2. account' \in Accounts /\ account'.status = "AUTHORIZING" /\ account'.cursor = 0 /\ ~account'.scanned
      BY <3>1 DEF Accounts, AccountStates, Bound
    <3> QED
      BY <1>0, <2>1, <3>2 DEF AccountOK
  <2>2. CASE account' = mark_authorized(account, HistoryId) /\ polling' = polling /\ account.status = "AUTHORIZING"
    <3>1. /\ account' \in Accounts /\ account'.status = "SELECTING_LABEL"
          /\ account'.cursor = HistoryId /\ account'.scanned = account.scanned
      BY <1>0, <2>2 DEF mark_authorized, Accounts, AccountStates, Bound
    <3> QED
      BY <1>0, <2>2, <3>1 DEF AccountOK, Bound
  <2> QED
    BY <1>2, <2>1, <2>2 DEF gmail_connect
<1>3. CASE gmail_label_bind
  <2>1. /\ account' = bind_label(account, HistoryId) /\ account.status = "SELECTING_LABEL"
        /\ polling' \in Pollings
    BY <1>3, <1>0, ScheduleRows DEF gmail_label_bind
  <2> QED
    <3>1. /\ account' \in Accounts /\ account'.status = "CONNECTED"
          /\ account'.cursor = HistoryId /\ account'.scanned = account.scanned
      BY <1>0, <2>1 DEF bind_label, Accounts, AccountStates, Bound
    <3> QED
      BY <1>0, <2>1, <3>1 DEF AccountOK, Bound
<1>4. CASE gmail_disconnect
  <2>1. account' = disconnect(account) /\ polling' \in Pollings
    BY <1>4, <1>0, ScheduleRows DEF gmail_disconnect
  <2> QED
    BY <1>0, <2>1 DEF disconnect, AccountOK, Accounts, AccountStates, Bound
<1>5. ASSUME NEW on \in BOOLEAN, gmail_schedule_update(on)
      PROVE  AccountOK'
  BY <1>0, <1>1, <1>5, ScheduleRows DEF gmail_schedule_update
<1>6. CASE poll
  BY <1>0, <1>1, <1>6, PolledSchedule, SyncLeases DEF poll
<1>7. CASE start_gmail_sync
  <2>1. configure_schedule(TRUE) \in Pollings /\ configure_schedule(TRUE).token # NewSyncLease
    BY <1>0, ScheduleRows, SyncLeases
  <2> QED
    BY <1>0, <1>1, <1>7, <2>1, ClaimedSchedule, SyncLeases DEF start_gmail_sync
<1>8. ASSUME NEW w \in Syncers, NEW terminal \in BOOLEAN, finish_claim(w, terminal)
      PROVE  AccountOK'
  <2>1. polling' \in Pollings /\ account' \in {[account EXCEPT !.status = "AUTH_REQUIRED"], account}
    BY <1>0, <1>8, FailedSchedule DEF finish_claim
  <2> QED
    BY <1>0, <2>1 DEF AccountOK, Accounts, AccountStates, Bound
<1>9. ASSUME NEW w \in Syncers, run_claimed_gmail_sync(w)
      PROVE  AccountOK'
  BY <1>0, <1>1, <1>9, ScheduleRows DEF run_claimed_gmail_sync
<1>10. CASE pass_fails
  BY <1>0, <1>1, <1>10, FailedSchedule DEF pass_fails, PassFails
<1>11. CASE \E m \in Messages : persist_raw_message(m) \/ persist_removed_message(m)
  BY <1>0, <1>1, <1>11, ScheduleRows DEF persist_raw_message, persist_removed_message
<1>12. CASE history_cursor_expired
  <2> DEFINE c == require_full_reconciliation(account)
             s == claim_due_sync(c, fail_sync(polling), NewSyncLease)
  <2>1. CASE PassFails
    BY <1>0, <1>1, <2>1, FailedSchedule DEF PassFails
  <2>2. CASE account' = c /\ polling' \in {s, fail_sync(polling)}
    <3>1. fail_sync(polling) \in Pollings /\ fail_sync(polling).token # NewSyncLease
      BY <1>0, ScheduleRows, SyncLeases DEF fail_sync
    <3>2. polling' \in Pollings
      BY <2>2, <3>1, ClaimedSchedule, SyncLeases
    <3> QED
      BY <1>0, <2>2, <3>2 DEF require_full_reconciliation, AccountOK, Accounts, AccountStates, Bound
  <2> QED
    BY <1>12, <2>1, <2>2 DEF history_cursor_expired
<1>13. CASE complete_pass
  <2> DEFINE scanned == account.scanned \/ pass.full
             at == [account EXCEPT !.cursor = pass.cursor]
  <2>1. /\ pass.phase = "complete" /\ account' = complete_sync(account, pass.cursor, pass.full)
        /\ polling' = Freed(polling)
    BY <1>13 DEF complete_pass
  <2>2. pass.cursor \in Nat /\ pass.cursor # 0 /\ pass.cursor <= HistoryId
    BY <2>1, <1>0 DEF GmailInv, GmailTypes, PassTypesOK, Passes
  <2>3. scanned \in BOOLEAN
    BY Zenon
  <2>4. at \in Accounts /\ at.status = account.status /\ at.cursor = pass.cursor
    BY <1>0, <2>2 DEF Accounts
  <2>5. account' = [at EXCEPT !.scanned = scanned]
    BY <1>0, <2>1 DEF complete_sync, Accounts
  <2> HIDE DEF scanned, at
  <2>6. account' \in Accounts /\ account'.status = account.status /\ account'.cursor = pass.cursor
    BY <2>3, <2>4, <2>5 DEF Accounts
  <2>7. account.status \in Bound
    BY <2>1 DEF GmailInv, GmailTypes, PassTypesOK, Passes, SyncersOK
  <2> QED
    BY <1>0, <2>1, <2>2, <2>6, <2>7, ScheduleRows DEF AccountOK
<1>14. CASE restore_polling
  BY <1>0, <1>1, <1>14, ScheduleRows DEF restore_polling
<1>15. CASE GmailLeaseExpires
  BY <1>0, <1>1, <1>15, ScheduleRows DEF GmailLeaseExpires
<1>16. CASE UNCHANGED <<account, polling>>
  BY <1>0, <1>1, <1>16
<1>17. \/ UNCHANGED <<account, polling>> \/ gmail_connect \/ gmail_label_bind \/ gmail_disconnect
       \/ start_gmail_sync \/ poll \/ pass_fails \/ history_cursor_expired \/ complete_pass
       \/ restore_polling \/ GmailLeaseExpires
       \/ \E on \in BOOLEAN : gmail_schedule_update(on)
       \/ \E m \in Messages : persist_raw_message(m) \/ persist_removed_message(m)
       \/ \E w \in Syncers :
            run_claimed_gmail_sync(w) \/ \E terminal \in BOOLEAN : finish_claim(w, terminal)
  BY DEF GmailApplication, HistoryExpires, GmailUser, GmailPass, GmailCrash, import_start,
         gmail_inbox_mark_staged, gmail_inbox_claim, gmail_inbox_ignore, gmail_inbox_retry,
         import_commit, import_rollback, list_messages, list_history, fetch_page,
         claim_for_hydration, hydrate, page_stored, gmailRows
<1> QED
  BY <1>2, <1>3, <1>4, <1>5, <1>6, <1>7, <1>8, <1>9, <1>10, <1>11, <1>12, <1>13, <1>14, <1>15, <1>16,
     <1>17
LEMMA BoundStays ==
  ASSUME GmailInv, GmailApplication
  PROVE  account.status \in Bound => account'.status \in Bound
<1>0. account \in Accounts
  BY DEF GmailInv, GmailTypes, AccountOK
<1>1. \/ UNCHANGED account \/ gmail_connect \/ gmail_label_bind \/ gmail_disconnect
      \/ history_cursor_expired \/ complete_pass
      \/ \E w \in Syncers, terminal \in BOOLEAN : finish_claim(w, terminal)
  BY DEF GmailApplication, HistoryExpires, GmailUser, GmailPass, GmailCrash, import_start,
         gmail_inbox_mark_staged, gmail_inbox_claim, gmail_inbox_ignore, gmail_inbox_retry,
         import_commit, import_rollback, list_messages, list_history, fetch_page,
         claim_for_hydration, hydrate, page_stored, gmailRows, start_gmail_sync, poll, pass_fails,
         PassFails, restore_polling, GmailLeaseExpires, gmail_schedule_update, persist_raw_message,
         persist_removed_message, run_claimed_gmail_sync
<1>2. CASE gmail_connect
  BY <1>2 DEF gmail_connect, Bound
<1>3. CASE gmail_label_bind
  BY <1>3 DEF gmail_label_bind, Bound
<1>4. CASE gmail_disconnect
  BY <1>0, <1>4 DEF gmail_disconnect, disconnect, Accounts, Bound
<1>5. CASE history_cursor_expired
  BY <1>0, <1>5 DEF history_cursor_expired, require_full_reconciliation, PassFails, Accounts
<1>6. CASE complete_pass
  <2>1. account' = [account EXCEPT !.cursor = pass.cursor, !.scanned = @ \/ pass.full]
    BY <1>6 DEF complete_pass, complete_sync
  <2> QED
    BY <1>0, <2>1 DEF Accounts
<1>7. ASSUME NEW w \in Syncers, NEW terminal \in BOOLEAN, finish_claim(w, terminal)
      PROVE  account.status \in Bound => account'.status \in Bound
  BY <1>0, <1>7 DEF finish_claim, Accounts, Bound
<1> QED
  BY <1>1, <1>2, <1>3, <1>4, <1>5, <1>6, <1>7

\* A worker that is done, or dead.
IdleWorker(c) == c \in Claims /\ c.pc \in {"idle", "restoring"}

LEMMA IdleWorkers ==
  IdleWorker(Idle) /\ IdleWorker([Idle EXCEPT !.pc = "restoring"])
BY DEF IdleWorker, Idle, Claims, NoSyncLease

\* The worker that had the run, if there was one, is done with it.
LEMMA WorkerDone ==
  ASSUME GmailInv, GmailApplication, NEW w \in Syncers, syncer' = DoneSyncing(w),
         pass'.by = "nobody", pass.by \in {w, "nobody"}
  PROVE  SyncersOK'
<1>1. /\ syncer \in [Syncers -> Claims] /\ HistoryId' = HistoryId /\ "nobody" \notin Syncers
      /\ \A v \in Syncers :
           /\ syncer[v].pc = "claimed" => syncer[v].token \in 1..4 /\ syncer[v].cursor \in 1..HistoryId
           /\ syncer[v].pc \in {"claimed", "running"} => account.status \in Bound
           /\ syncer[v].pc = "running" <=> pass.by = v
  BY MailboxUntouched, SameMailbox
  DEF GmailInv, GmailTypes, SyncersOK, Syncers, Poller, Requested
<1>2. syncer' = [syncer EXCEPT ![w] = IF syncer[w].restore THEN [Idle EXCEPT !.pc = "restoring"] ELSE Idle]
  BY <1>1 DEF DoneSyncing
<1>3. /\ syncer' \in [Syncers -> Claims] /\ IdleWorker(syncer'[w])
      /\ \A v \in Syncers \ {w} : syncer'[v] = syncer[v]
  <2>1. \A c : IdleWorker(c) => c \in Claims
    BY DEF IdleWorker
  <2> QED
    BY <1>1, <1>2, <2>1, IdleWorkers
<1>4. ASSUME NEW v \in Syncers
      PROVE  /\ syncer'[v].pc = "claimed" => syncer'[v].token \in 1..4 /\ syncer'[v].cursor \in 1..HistoryId'
             /\ syncer'[v].pc \in {"claimed", "running"} => account'.status \in Bound
             /\ syncer'[v].pc = "running" <=> pass'.by = v
  <2>1. CASE v = w
    BY <1>1, <1>3, <2>1 DEF IdleWorker
  <2>2. CASE v # w
    BY <1>1, <1>3, <2>2, BoundStays
  <2> QED
    BY <2>1, <2>2
<1> QED
  BY <1>3, <1>4 DEF SyncersOK

LEMMA WorkerClaims ==
  ASSUME GmailInv, GmailApplication, NEW w \in Syncers, NEW s, NEW restore \in BOOLEAN,
         ClaimedBy(w, s, restore), pass' = pass, connectionFree, UNCHANGED account,
         s.token = NewSyncLease => account.status = "CONNECTED"
  PROVE  SyncersOK'
<1> DEFINE claim == [pc |-> "claimed", token |-> NewSyncLease, cursor |-> account.cursor, restore |-> restore]
           idle == [Idle EXCEPT !.pc = IF restore THEN "restoring" ELSE "idle"]
<1>1. /\ syncer \in [Syncers -> Claims] /\ HistoryId' = HistoryId /\ "nobody" \notin Syncers
      /\ \A v \in Syncers :
           /\ syncer[v].pc = "claimed" => syncer[v].token \in 1..4 /\ syncer[v].cursor \in 1..HistoryId
           /\ syncer[v].pc \in {"claimed", "running"} => account.status \in Bound
           /\ syncer[v].pc = "running" <=> pass.by = v
  BY MailboxUntouched, SameMailbox
  DEF GmailInv, GmailTypes, SyncersOK, Syncers, Poller, Requested
<1>2. syncer' = [syncer EXCEPT ![w] = IF s.token = NewSyncLease THEN claim ELSE idle]
  BY DEF ClaimedBy
<1>3. IdleWorker(idle)
  BY DEF IdleWorker, Idle, Claims, NoSyncLease
<1>4. s.token = NewSyncLease =>
        /\ claim \in Claims /\ claim.pc = "claimed" /\ claim.token \in 1..4
        /\ claim.cursor \in 1..HistoryId /\ account.status \in Bound
  BY SyncLeases DEF Claims, GmailInv, GmailTypes, AccountOK, Accounts, Bound
<1> HIDE DEF claim, idle
<1>5. /\ syncer' \in [Syncers -> Claims]
      /\ syncer'[w] = IF s.token = NewSyncLease THEN claim ELSE idle
      /\ \A v \in Syncers \ {w} : syncer'[v] = syncer[v]
  BY <1>1, <1>2, <1>3, <1>4 DEF IdleWorker
<1>6. ASSUME NEW v \in Syncers
      PROVE  /\ syncer'[v].pc = "claimed" => syncer'[v].token \in 1..4 /\ syncer'[v].cursor \in 1..HistoryId'
             /\ syncer'[v].pc \in {"claimed", "running"} => account'.status \in Bound
             /\ syncer'[v].pc = "running" <=> pass'.by = v
  <2>1. CASE v = w
    BY <1>1, <1>3, <1>4, <1>5, <2>1 DEF IdleWorker, connectionFree
  <2>2. CASE v # w
    BY <1>1, <1>5, <2>2
  <2> QED
    BY <2>1, <2>2
<1> QED
  BY <1>5, <1>6 DEF SyncersOK

LEMMA SyncersKeep ==
  ASSUME GmailInv, GmailApplication
  PROVE  SyncersOK'
<1>1. /\ syncer \in [Syncers -> Claims] /\ HistoryId' = HistoryId /\ "nobody" \notin Syncers
      /\ Poller \in Syncers /\ Requested \in Syncers /\ pass.by \in Syncers \cup {"nobody"}
      /\ pass.by = "nobody" <=> pass.phase = "none"
      /\ polling \in Pollings /\ NoPass.by = "nobody"
      /\ \A v \in Syncers :
           /\ syncer[v].pc = "claimed" => syncer[v].token \in 1..4 /\ syncer[v].cursor \in 1..HistoryId
           /\ syncer[v].pc \in {"claimed", "running"} => account.status \in Bound
           /\ syncer[v].pc = "running" <=> pass.by = v
  BY MailboxUntouched, SameMailbox
  DEF GmailInv, GmailTypes, SyncersOK, AccountOK, PassTypesOK, Passes, Syncers, Poller, Requested, NoPass
<1>2. CASE syncer' = syncer /\ pass'.by = pass.by
  BY <1>1, <1>2, BoundStays DEF SyncersOK
<1>3. CASE poll
  BY <1>1, <1>3, WorkerClaims, PolledSchedule, SyncLeases DEF poll
<1>4. CASE start_gmail_sync
  <2>1. /\ configure_schedule(TRUE) \in Pollings /\ configure_schedule(TRUE).token # NewSyncLease
        /\ (~polling.enabled) \in BOOLEAN
    <3>1. (~polling.enabled) \in BOOLEAN
      BY Zenon
    <3> QED
      BY <3>1, <1>1, ScheduleRows, SyncLeases
  <2> DEFINE restore == ~polling.enabled
             on == IF restore THEN configure_schedule(TRUE) ELSE polling
             s == claim_due_sync(account, on, NewSyncLease)
  <2>2. /\ ClaimedBy(Requested, s, restore) /\ pass' = pass /\ connectionFree /\ UNCHANGED account
    BY <1>4 DEF start_gmail_sync
  <2>3. on \in Pollings /\ on.token # NewSyncLease
    BY <2>1, <1>1, SyncLeases
  <2> HIDE DEF on, restore
  <2>4. s.token = NewSyncLease => account.status = "CONNECTED"
    BY <2>3, ClaimedSchedule, SyncLeases
  <2> QED
    BY <1>1, <2>1, <2>2, <2>4, WorkerClaims DEF restore
<1>5. ASSUME NEW w \in Syncers, NEW terminal \in BOOLEAN, finish_claim(w, terminal)
      PROVE  SyncersOK'
  BY <1>1, <1>5, WorkerDone DEF finish_claim, connectionFree
<1>6. ASSUME NEW w \in Syncers, run_claimed_gmail_sync(w)
      PROVE  SyncersOK'
  <2>1. connectionFree /\ syncer[w].pc = "claimed" /\ pass.by = "nobody"
    BY <1>6 DEF run_claimed_gmail_sync, connectionFree
  <2>2. CASE syncer' = DoneSyncing(w) /\ pass' = pass
    BY <2>1, <2>2, WorkerDone
  <2>3. CASE pass'.by = w /\ syncer' = [syncer EXCEPT ![w].pc = "running", ![w].cursor = 0]
    <3> DEFINE c == [syncer[w] EXCEPT !.pc = "running", !.cursor = 0]
    <3>1. syncer' = [syncer EXCEPT ![w] = c]
      BY <2>3, <1>1
    <3>2. c \in Claims /\ c.pc = "running"
      <4> DEFINE at == [syncer[w] EXCEPT !.pc = "running"]
      <4>1. syncer[w] \in Claims /\ at \in Claims /\ at.pc = "running"
        BY <1>1 DEF Claims
      <4> HIDE DEF at
      <4>2. [at EXCEPT !.cursor = 0] \in Claims /\ [at EXCEPT !.cursor = 0].pc = "running"
        BY <4>1 DEF Claims
      <4>3. c = [at EXCEPT !.cursor = 0]
        BY <4>1 DEF Claims, at
      <4> QED
        BY <4>2, <4>3
    <3> HIDE DEF c
    <3>3. /\ syncer' \in [Syncers -> Claims] /\ syncer'[w].pc = "running"
          /\ \A v \in Syncers \ {w} : syncer'[v] = syncer[v]
      BY <3>1, <3>2, <1>1
    <3>4. account.status \in Bound /\ account'.status \in Bound
      BY <2>1, <1>1, BoundStays
    <3> QED
      BY <1>1, <2>1, <2>3, <3>3, <3>4 DEF SyncersOK
  <2>4. \/ syncer' = DoneSyncing(w) /\ pass' = pass
        \/ pass'.by = w /\ syncer' = [syncer EXCEPT ![w].pc = "running", ![w].cursor = 0]
    BY <1>6 DEF run_claimed_gmail_sync, FullPass, NoPass
  <2> QED
    BY <2>2, <2>3, <2>4
<1>7. CASE GmailLeave /\ pass.phase # "none"
  BY <1>1, <1>7, WorkerDone DEF GmailLeave
<1>8. CASE restore_polling
  <2>1. /\ syncer' = [syncer EXCEPT ![Requested] = Idle] /\ pass.by = "nobody" /\ pass' = pass
    BY <1>8 DEF restore_polling, connectionFree
  <2> QED
    BY <1>1, <2>1, IdleWorkers, BoundStays DEF SyncersOK, IdleWorker
<1>9. CASE GmailCrash
  BY <1>1, <1>9, IdleWorkers DEF GmailCrash, SyncersOK, IdleWorker
<1>10. CASE HistoryExpires \/ GmailUser \/ GmailLeaseExpires
  BY <1>2, <1>4, <1>10
  DEF HistoryExpires, GmailLeaseExpires, GmailUser, gmail_connect, gmail_label_bind, gmail_disconnect,
      gmail_schedule_update, import_start, gmail_inbox_mark_staged, gmail_inbox_claim, gmail_inbox_ignore,
      gmail_inbox_retry, import_commit, import_rollback
<1>11. CASE GmailPass
  <2> DEFINE Same == syncer' = syncer /\ pass'.by = pass.by
             Left == GmailLeave /\ pass.phase # "none"
  <2>1. ASSUME NEW m \in Messages, persist_raw_message(m) \/ persist_removed_message(m)
        PROVE  Same
    BY <2>1 DEF persist_raw_message, persist_removed_message, GmailInv, GmailTypes, PassTypesOK, Passes
  <2>2. list_messages \/ list_history \/ fetch_page \/ claim_for_hydration \/ hydrate \/ page_stored => Same
    BY DEF list_messages, list_history, fetch_page, claim_for_hydration, hydrate, page_stored, GmailInv,
           GmailTypes, PassTypesOK, Passes
  <2>3. pass_fails \/ complete_pass => Left
    BY DEF pass_fails, PassFails, complete_pass
  <2>4. history_cursor_expired => Left \/ Same
    BY DEF history_cursor_expired, PassFails, FullPass, NoPass
  <2> HIDE DEF Same, Left
  <2>5. Same \/ Left \/ poll \/ restore_polling
        \/ \E w \in Syncers :
             run_claimed_gmail_sync(w) \/ \E terminal \in BOOLEAN : finish_claim(w, terminal)
    BY <1>11, <2>1, <2>2, <2>3, <2>4 DEF GmailPass
  <2> QED
    BY <2>5, <1>2, <1>3, <1>5, <1>6, <1>7, <1>8 DEF Same, Left
<1> QED
  BY <1>9, <1>10, <1>11 DEF GmailApplication
-----------------------------------------------------------------------------
(* Gmail: the Inbox *)

\* The steps of the screen, and time, lose and open no row; one that is staged has
\* its document linked.
LEMMA ScreenSettles ==
  ASSUME GmailInv, GmailSetting, GmailApplication, ~GmailPass
  PROVE  /\ letters' = [m \in Messages |-> letters'[m]]
         /\ \A m \in Messages :
              /\ LetterOK(letters'[m]) /\ Settles(letters'[m], letters[m])
              /\ letters'[m].state = "STAGED" => letters[m].state = "STAGED" \/ m \in linked'
<1> DEFINE Fine(m) ==
             /\ LetterOK(letters'[m]) /\ Settles(letters'[m], letters[m])
             /\ letters'[m].state = "STAGED" => letters[m].state = "STAGED" \/ m \in linked'
           Goal == letters' = [m \in Messages |-> letters'[m]] /\ \A m \in Messages : Fine(m)
<1> SUFFICES Goal
  OBVIOUS
<1>1. /\ letters = [m \in Messages |-> letters[m]] /\ \A m \in Messages : LetterOK(letters[m])
      /\ \A row : Settles(row, row)
  BY DEF GmailInv, GmailTypes, LettersOK, Settles
<1>2. ASSUME NEW m \in Messages, NEW row, letters' = [letters EXCEPT ![m] = row],
             LetterOK(row), Settles(row, letters[m]), Sound(row, letters[m]) \/ m \in linked'
      PROVE  Goal
  <2>1. ASSUME NEW n \in Messages
        PROVE  Fine(n)
    <3>1. letters'[n] = IF n = m THEN row ELSE letters[n]
      BY <1>1, <1>2
    <3> QED
      BY <3>1, <1>1, <1>2 DEF Sound
  <2> QED
    BY <2>1, <1>1, <1>2
<1>3. CASE UNCHANGED letters
  BY <1>1, <1>3
<1> HIDE DEF Goal
<1>4. ASSUME NEW m \in Messages, gmail_inbox_claim(m)
      PROVE  Goal
  <2>1. /\ CanClaim(letters[m]) /\ letters[m].state = "READY"
        /\ letters' = [letters EXCEPT ![m] = claim_inbox(letters[m], ScreenToken)]
        /\ ScreenToken \in Nat \ {0}
    BY <1>4 DEF gmail_inbox_claim, ScreenToken
  <2>2. /\ Sound(claim_inbox(letters[m], ScreenToken), letters[m])
        /\ Settles(claim_inbox(letters[m], ScreenToken), letters[m])
    BY <2>1, <1>1, ClaimLetter
  <2> QED
    BY <2>1, <2>2, <1>2 DEF Sound
<1>5. CASE import_start
  <2>1. CASE letters' = [letters EXCEPT ![import.msg] =
                           IF Holds(letters[import.msg], import.token) THEN fail_inbox(letters[import.msg])
                           ELSE letters[import.msg]]
    <3>1. import.msg \in Messages /\ import.token = ScreenToken
      BY <1>5 DEF import_start, GmailInv, GmailTypes, LinksOK
    <3>2. CASE Holds(letters[import.msg], import.token)
      BY <2>1, <3>1, <3>2, <1>1, <1>2, FailLetter DEF Sound
    <3>3. CASE ~Holds(letters[import.msg], import.token)
      BY <2>1, <3>1, <3>3, <1>1, <1>2 DEF Sound
    <3> QED
      BY <3>2, <3>3
  <2> QED
    BY <1>5, <2>1, <1>3 DEF import_start
<1>6. CASE gmail_inbox_mark_staged
  <2>1. CASE /\ letters' = [letters EXCEPT ![import.msg] = mark_inbox_staged(letters[import.msg], 1)]
             /\ CanMarkStaged(letters[import.msg], import.token) /\ import.msg \in linked'
    <3>1. import.msg \in Messages /\ letters[import.msg].state = "PROCESSING" /\ 1 \in Nat
      BY <1>6, <2>1 DEF gmail_inbox_mark_staged, CanMarkStaged, Holds, GmailInv, GmailTypes, LinksOK
    <3> QED
      BY <2>1, <3>1, <1>1, <1>2, StageLetter
  <2> QED
    BY <1>6, <2>1, <1>3 DEF gmail_inbox_mark_staged
<1>7. ASSUME NEW m \in Messages, gmail_inbox_ignore(m)
      PROVE  Goal
  BY <1>7, <1>1, <1>2, IgnoreLetter DEF gmail_inbox_ignore, Sound
<1>8. ASSUME NEW m \in Messages, gmail_inbox_retry(m)
      PROVE  Goal
  BY <1>8, <1>1, <1>2, RetryLetter DEF gmail_inbox_retry, Sound
<1>9. CASE letters' = [m \in Messages |-> [letters[m] EXCEPT !.live = FALSE]]
  BY <1>9, <1>1, ExpireLetter DEF Goal, Sound
<1>10. \/ UNCHANGED letters \/ import_start \/ gmail_inbox_mark_staged
       \/ letters' = [m \in Messages |-> [letters[m] EXCEPT !.live = FALSE]]
       \/ \E m \in Messages : gmail_inbox_claim(m) \/ gmail_inbox_ignore(m) \/ gmail_inbox_retry(m)
  BY DEF GmailApplication, HistoryExpires, GmailUser, GmailCrash, GmailLeaseExpires, gmail_connect,
         gmail_label_bind, gmail_disconnect, start_gmail_sync, gmail_schedule_update, import_commit,
         import_rollback, gmailRows
<1> QED
  BY <1>3, <1>4, <1>5, <1>6, <1>7, <1>8, <1>9, <1>10

\* A row that the run or the screen has not staged is not staged.
LEMMA PassRows ==
  ASSUME GmailInv, GmailSetting, GmailPass
  PROVE  /\ letters' = [m \in Messages |-> letters'[m]]
         /\ \A m \in Messages : letters'[m] = letters[m] \/ Sound(letters'[m], letters[m])
<1> DEFINE Fine(m) == letters'[m] = letters[m] \/ Sound(letters'[m], letters[m])
           Goal == letters' = [m \in Messages |-> letters'[m]] /\ \A m \in Messages : Fine(m)
<1> SUFFICES Goal
  OBVIOUS
<1>1. letters = [m \in Messages |-> letters[m]] /\ \A m \in Messages : LetterOK(letters[m])
  BY DEF GmailInv, GmailTypes, LettersOK
<1>2. ASSUME NEW m \in Messages, NEW row, letters' = [letters EXCEPT ![m] = row], Sound(row, letters[m])
      PROVE  Goal
  <2>1. ASSUME NEW n \in Messages
        PROVE  Fine(n)
    <3>1. letters'[n] = IF n = m THEN row ELSE letters[n]
      BY <1>1, <1>2
    <3> QED
      BY <3>1, <1>2
  <2> QED
    BY <2>1, <1>1, <1>2
<1>3. CASE UNCHANGED letters
  BY <1>1, <1>3
<1>4. CASE complete_pass
  <2>1. CASE letters' = [m \in Messages |-> remove_absent(letters[m], m \in pass.present)]
    <3>1. ASSUME NEW m \in Messages
          PROVE  Fine(m)
      BY <2>1, <1>1, RemoveLetter DEF remove_absent
    <3> QED
      BY <2>1, <3>1
  <2> QED
    BY <1>3, <1>4, <2>1 DEF complete_pass
<1> HIDE DEF Goal
<1>5. ASSUME NEW m \in Messages, persist_raw_message(m)
      PROVE  Goal
  BY <1>5, <1>1, <1>2, DiscoverLetter DEF persist_raw_message
<1>6. ASSUME NEW m \in Messages, persist_removed_message(m)
      PROVE  Goal
  BY <1>6, <1>1, <1>2, RemoveLetter DEF persist_removed_message
<1>7. CASE claim_for_hydration
  <2>1. /\ pass.msg \in Messages /\ pass.token \in Nat \ {0} /\ pass.token # ScreenToken
        /\ CanClaim(letters[pass.msg])
        /\ letters' = [letters EXCEPT ![pass.msg] = claim_inbox(letters[pass.msg], pass.token)]
    BY <1>7 DEF claim_for_hydration, GmailInv, GmailTypes, PassTypesOK, ScreenToken
  <2> QED
    BY <2>1, <1>1, <1>2, ClaimLetter
<1>8. CASE hydrate
  <2>1. /\ pass.msg \in Messages /\ letters[pass.msg].state = "PROCESSING" /\ 1 \in Nat \ {0}
        /\ letters' = [letters EXCEPT ![pass.msg] = mark_inbox_ready(letters[pass.msg], 1)]
    BY <1>8 DEF hydrate, CanMarkReady, Holds, GmailInv, GmailTypes, PassTypesOK
  <2> QED
    BY <2>1, <1>1, <1>2, ReadyLetter
<1>9. \/ UNCHANGED letters \/ complete_pass \/ claim_for_hydration \/ hydrate
      \/ \E m \in Messages : persist_raw_message(m) \/ persist_removed_message(m)
  BY DEF GmailPass, poll, restore_polling, run_claimed_gmail_sync, finish_claim, pass_fails, list_messages,
         list_history, fetch_page, page_stored, history_cursor_expired, gmailRows
<1> QED
  BY <1>3, <1>4, <1>5, <1>6, <1>7, <1>8, <1>9

LEMMA LettersKeep ==
  ASSUME GmailInv, GmailSetting, GmailApplication
  PROVE  LettersOK'
<1>1. CASE GmailPass
  BY <1>1, PassRows DEF LettersOK, Sound, GmailInv, GmailTypes
<1>2. CASE ~GmailPass
  BY <1>2, ScreenSettles DEF LettersOK
<1> QED
  BY <1>1, <1>2

LEMMA LinksKeep ==
  ASSUME GmailInv, GmailSetting, GmailApplication
  PROVE  LinksOK'
<1>0. /\ import \in Imports /\ (import.pc # "idle" => import.msg \in Messages /\ import.token = ScreenToken)
      /\ runs = [m \in Messages |-> runs[m]] /\ linked \subseteq Messages
      /\ \A m \in Messages : letters[m].state = "STAGED" => m \in linked
      /\ \A m \in linked : runs[m] \in {"REVIEW", "POSTED"}
      /\ letters = [m \in Messages |-> letters[m]]
  BY DEF GmailInv, GmailTypes, LinksOK, LettersOK
<1>1. CASE GmailPass
  <2>1. UNCHANGED <<import, runs, linked>>
    BY <1>1 DEF GmailPass, poll, restore_polling, run_claimed_gmail_sync, finish_claim, pass_fails,
          list_messages, list_history, fetch_page, persist_raw_message, persist_removed_message,
          claim_for_hydration, hydrate, page_stored, history_cursor_expired, complete_pass, gmailRows
  <2> QED
    BY <1>0, <1>1, <2>1, PassRows DEF LinksOK, Sound
<1>2. CASE ~GmailPass
  <2>1. linked \subseteq linked' => \A m \in Messages : letters'[m].state = "STAGED" => m \in linked'
    BY <1>0, <1>2, ScreenSettles
  <2>2. CASE UNCHANGED <<import, runs, linked>>
    BY <1>0, <2>1, <2>2 DEF LinksOK
  <2>3. ASSUME NEW m \in Messages, gmail_inbox_claim(m)
        PROVE  LinksOK'
    <3>1. import' = [pc |-> "start", msg |-> m, token |-> ScreenToken] /\ UNCHANGED <<runs, linked>>
      BY <2>3 DEF gmail_inbox_claim
    <3>2. import' \in Imports
      BY <3>1 DEF Imports, ScreenToken
    <3> QED
      BY <1>0, <2>1, <3>1, <3>2 DEF LinksOK
  <2>4. CASE import_start
    <3>0. import.pc = "start" /\ UNCHANGED linked
      BY <2>4 DEF import_start
    <3>1. CASE /\ runs' = [runs EXCEPT ![import.msg] = IF @ \in {"REVIEW", "POSTED"} THEN @ ELSE "REVIEW"]
               /\ import' = [import EXCEPT !.pc = "stage"]
      <4>1. import' \in Imports /\ import'.msg = import.msg /\ import'.token = import.token
        BY <1>0, <3>1 DEF Imports
      <4> QED
        BY <1>0, <2>1, <3>0, <3>1, <4>1 DEF LinksOK
    <3>2. CASE UNCHANGED runs /\ import' = NoImport
      BY <1>0, <2>1, <3>0, <3>2 DEF LinksOK, NoImport, Imports, NoSyncLease
    <3> QED
      BY <2>4, <3>1, <3>2 DEF import_start
  <2>5. CASE gmail_inbox_mark_staged
    <3>1. /\ import' = NoImport /\ UNCHANGED runs /\ linked' \in {linked, linked \cup {import.msg}}
          /\ linked' # linked => runs[import.msg] = "REVIEW"
          /\ import.msg \in Messages
      BY <1>0, <2>5 DEF gmail_inbox_mark_staged
    <3>2. NoImport \in Imports /\ NoImport.pc = "idle"
      BY DEF NoImport, Imports, NoSyncLease
    <3>3. /\ linked \subseteq linked' /\ linked' \subseteq Messages
          /\ \A m \in linked' : runs'[m] \in {"REVIEW", "POSTED"}
      BY <1>0, <3>1
    <3> QED
      BY <1>0, <2>1, <3>1, <3>2, <3>3 DEF LinksOK
  <2>6. ASSUME NEW m \in Messages, import_commit(m) \/ import_rollback(m)
        PROVE  LinksOK'
    <3>1. /\ UNCHANGED <<import, linked>> /\ runs' = [runs EXCEPT ![m] = runs'[m]]
          /\ runs'[m] = "POSTED" \/ m \notin linked
      BY <1>0, <2>6 DEF import_commit, import_rollback, document_deletable, gmailRows
    <3> QED
      BY <1>0, <2>1, <3>1 DEF LinksOK
  <2>7. CASE GmailCrash
    BY <1>0, <2>1, <2>7 DEF GmailCrash, gmailRows, LinksOK, NoImport, Imports, NoSyncLease
  <2>8. \/ UNCHANGED <<import, runs, linked>> \/ import_start \/ gmail_inbox_mark_staged \/ GmailCrash
        \/ \E m \in Messages : gmail_inbox_claim(m) \/ import_commit(m) \/ import_rollback(m)
    BY <1>2
    DEF GmailApplication, HistoryExpires, GmailUser, GmailLeaseExpires, gmail_connect,
        gmail_label_bind, gmail_disconnect, start_gmail_sync, gmail_schedule_update, gmail_inbox_ignore,
        gmail_inbox_retry, gmailRows
  <2> QED
    BY <2>2, <2>3, <2>4, <2>5, <2>6, <2>7, <2>8
<1> QED
  BY <1>1, <1>2
-----------------------------------------------------------------------------
(* Gmail: what is stored *)

LEMMA AccountStands ==
  ASSUME GmailInv, GmailApplication, ~complete_pass
  PROVE  account'.scanned => account.scanned /\ account'.cursor = account.cursor
<1>0. account \in Accounts /\ (account.status \notin Bound => ~account.scanned)
  BY DEF GmailInv, GmailTypes, AccountOK
<1>1. CASE gmail_connect
  BY <1>0, <1>1
  DEF gmail_connect, begin_connection, mark_authorized, NoAccount, Accounts, Bound
<1>2. CASE gmail_label_bind
  BY <1>0, <1>2 DEF gmail_label_bind, bind_label, Accounts, Bound
<1>3. CASE gmail_disconnect
  BY <1>0, <1>3 DEF gmail_disconnect, disconnect, Accounts
<1>4. CASE history_cursor_expired
  BY <1>0, <1>4 DEF history_cursor_expired, require_full_reconciliation, PassFails, Accounts
<1>5. ASSUME NEW w \in Syncers, NEW terminal \in BOOLEAN, finish_claim(w, terminal)
      PROVE  account'.scanned => account.scanned /\ account'.cursor = account.cursor
  BY <1>0, <1>5 DEF finish_claim, Accounts
<1>6. \/ UNCHANGED account \/ gmail_connect \/ gmail_label_bind \/ gmail_disconnect
      \/ history_cursor_expired
      \/ \E w \in Syncers, terminal \in BOOLEAN : finish_claim(w, terminal)
  BY DEF GmailApplication, HistoryExpires, GmailUser, GmailPass, GmailCrash, import_start,
         gmail_inbox_mark_staged, gmail_inbox_claim, gmail_inbox_ignore, gmail_inbox_retry,
         import_commit, import_rollback, list_messages, list_history, fetch_page,
         claim_for_hydration, hydrate, page_stored, gmailRows, start_gmail_sync, poll, pass_fails,
         PassFails, restore_polling, GmailLeaseExpires, gmail_schedule_update, persist_raw_message,
         persist_removed_message, run_claimed_gmail_sync
<1> QED
  BY <1>1, <1>2, <1>3, <1>4, <1>5, <1>6

\* A pass answers a message of the page only while its fence holds: the message has
\* changed since the stored history id, or nothing has been stored yet.
LEMMA AnsweredChanged ==
  ASSUME GmailInv, NEW m \in DOMAIN pass.page, pass.phase = "store", Fenced
  PROVE  m \in Messages /\ (~Quiet(m, account.cursor) \/ ~account.scanned)
<1>1. /\ pass.by # "nobody" /\ account.cursor = pass.lease /\ (pass.full <=> ~account.scanned)
      /\ IncrementOK /\ pass.page \in Pages /\ (~pass.full => pass.from = pass.lease)
  BY DEF GmailInv, GmailTypes, PassTypesOK, PassOK, Fenced, Passes
<1> QED
  BY <1>1 DEF IncrementOK, Unanswered, Pages

\* While it is hydrated a message stays where it is.
LEMMA HydrationSettles ==
  ASSUME GmailInv, GmailSetting, claim_for_hydration \/ hydrate
  PROVE  /\ pass.msg \in Messages /\ \A m \in Messages : Settles(letters'[m], letters[m])
         /\ \A m \in Messages \ {pass.msg} : letters'[m] = letters[m]
         /\ hydrate => letters'[pass.msg].state = "READY"
<1>1. /\ pass.msg \in Messages /\ LetterOK(letters[pass.msg]) /\ letters = [m \in Messages |-> letters[m]]
      /\ pass.token \in Nat \ {0} /\ pass.token # ScreenToken /\ \A row : Settles(row, row)
  BY DEF claim_for_hydration, hydrate, GmailInv, GmailTypes, PassTypesOK, LettersOK, ScreenToken, Settles
<1>2. CASE claim_for_hydration
  <2>1. /\ letters' = [letters EXCEPT ![pass.msg] = claim_inbox(letters[pass.msg], pass.token)]
        /\ Settles(claim_inbox(letters[pass.msg], pass.token), letters[pass.msg])
    BY <1>1, <1>2, ClaimLetter DEF claim_for_hydration
  <2>2. ~hydrate
    BY <1>2 DEF claim_for_hydration, hydrate
  <2> QED
    BY <1>1, <2>1, <2>2
<1>3. CASE hydrate
  <2>1. 1 \in Nat \ {0} /\ letters[pass.msg].state = "PROCESSING"
    BY <1>3 DEF hydrate, CanMarkReady, Holds
  <2>2. /\ letters' = [letters EXCEPT ![pass.msg] = mark_inbox_ready(letters[pass.msg], 1)]
        /\ Settles(mark_inbox_ready(letters[pass.msg], 1), letters[pass.msg])
        /\ mark_inbox_ready(letters[pass.msg], 1).state = "READY"
    BY <1>1, <1>3, <2>1, ReadyLetter DEF hydrate
  <2> QED
    BY <1>1, <2>2
<1> QED
  BY <1>2, <1>3

\* A pass that completes leaves an inbox that agrees with the mailbox up to the
\* history id it publishes.
LEMMA CompletionStores ==
  ASSUME GmailInv, complete_pass
  PROVE  StoredOK'
<1>1. /\ pass.phase = "complete" /\ pass.by # "nobody" /\ account.cursor = pass.lease
      /\ IncrementOK /\ ScanOK /\ pass.drain /\ pass.full \in BOOLEAN
      /\ \A m \in Messages : LetterOK(letters[m])
      /\ account \in Accounts /\ Unanswered = {}
  BY DEF complete_pass, Fenced, GmailInv, GmailTypes, PassTypesOK, PassOK, LettersOK, AccountOK, Passes,
         Unanswered
<1>2. /\ account' = [account EXCEPT !.cursor = pass.cursor, !.scanned = @ \/ pass.full]
      /\ letters' = IF pass.full THEN [m \in Messages |-> remove_absent(letters[m], m \in pass.present)]
                    ELSE letters
      /\ UNCHANGED <<mailbox, records>>
  BY DEF complete_pass, complete_sync, gmailRemote
<1>3. account'.cursor = pass.cursor
  BY <1>1, <1>2 DEF Accounts
<1>4. SUFFICES ASSUME NEW m \in Messages, Quiet(m, pass.cursor)
               PROVE  Agrees(m)'
  BY <1>2, <1>3, SameMailbox DEF StoredOK, Quiet
<1>5. CASE ~pass.full
  <2>1. Agrees(m)
    BY <1>1, <1>4, <1>5 DEF IncrementOK
  <2> QED
    BY <1>2, <1>5, <2>1, SameMailbox DEF Agrees
<1>6. CASE pass.full
  <2>1. letters'[m] = IF m \in pass.present THEN letters[m] ELSE mark_message_removed_claimed(letters[m])
    BY <1>2, <1>6 DEF remove_absent
  <2>2. CASE Labelled(m)
    <3>1. m \in pass.present /\ letters[m].state \notin Missing
      BY <1>1, <1>4, <1>6, <2>2 DEF ScanOK
    <3> QED
      BY <1>2, <2>1, <2>2, <3>1, SameMailbox DEF Agrees
  <2>3. CASE ~Labelled(m)
    <3>1. m \notin pass.present
      BY <1>1, <1>4, <1>6, <2>3 DEF ScanOK
    <3> QED
      BY <1>1, <1>2, <2>1, <2>3, <3>1, SameMailbox, RemoveLetter DEF Agrees
  <2> QED
    BY <2>2, <2>3
<1> QED
  BY <1>1, <1>5, <1>6

LEMMA StoredKeeps ==
  ASSUME GmailInv, GmailSetting, GmailApplication
  PROVE  StoredOK'
<1>1. /\ StoredOK /\ letters = [m \in Messages |-> letters[m]] /\ \A row : Settles(row, row)
      /\ UNCHANGED <<mailbox, records>>
  BY MailboxUntouched DEF GmailInv, GmailTypes, LettersOK, Settles
<1>2. CASE complete_pass
  BY <1>2, CompletionStores
<1>3. CASE ~GmailPass
  BY <1>1, <1>3, ScreenSettles, AccountStands, StoredStays DEF GmailPass
<1>4. CASE GmailPass /\ ~complete_pass
  <2> SUFFICES \A m \in Messages :
                 ~Quiet(m, account.cursor) \/ ~account.scanned \/ Settles(letters'[m], letters[m])
    BY <1>1, <1>4, AccountStands, StoredStays
  <2>1. ASSUME NEW n \in Messages, persist_raw_message(n) \/ persist_removed_message(n),
               NEW m \in Messages
        PROVE  ~Quiet(m, account.cursor) \/ ~account.scanned \/ Settles(letters'[m], letters[m])
    <3>1. CASE m = n
      BY <2>1, <3>1, AnsweredChanged DEF persist_raw_message, persist_removed_message
    <3>2. CASE m # n
      BY <1>1, <2>1, <3>2 DEF persist_raw_message, persist_removed_message
    <3> QED
      BY <3>1, <3>2
  <2>2. CASE claim_for_hydration \/ hydrate
    BY <2>2, HydrationSettles
  <2>3. CASE UNCHANGED letters
    BY <1>1, <2>3
  <2>4. \/ UNCHANGED letters \/ claim_for_hydration \/ hydrate
        \/ \E n \in Messages : persist_raw_message(n) \/ persist_removed_message(n)
    BY <1>4
    DEF GmailPass, poll, restore_polling, run_claimed_gmail_sync, finish_claim, pass_fails, list_messages,
        list_history, fetch_page, page_stored, history_cursor_expired, gmailRows
  <2> QED
    BY <2>1, <2>2, <2>3, <2>4
<1> QED
  BY <1>2, <1>3, <1>4
-----------------------------------------------------------------------------
(* Gmail: the run inside the mutex *)

\* The record of the run, as far as its claim and its beginning go, stays as it is.
Continues ==
  /\ pass' \in Passes /\ pass'.by = pass.by /\ pass'.token = pass.token /\ pass'.lease = pass.lease
  /\ pass'.full = pass.full /\ pass'.from = pass.from

LEMMA Running ==
  ASSUME GmailInv, pass.phase # "none"
  PROVE  /\ pass \in Passes /\ pass.by # "nobody" /\ pass.from \in 1..pass.cursor /\ pass.cursor \in Nat
         /\ pass.from \in Nat /\ HistoryId \in Nat /\ pass.cursor <= HistoryId /\ pass.page \in Pages
         /\ DOMAIN pass.page \subseteq Messages /\ \A m \in DOMAIN pass.page : pass.page[m] \in BOOLEAN
         /\ Unanswered \subseteq Messages /\ pass.full \in BOOLEAN
         /\ (pass.full <=> ~account.scanned) /\ PageOK /\ IncrementOK /\ ScanOK
<1>1. /\ pass \in Passes /\ pass.by # "nobody" /\ pass.from \in 1..pass.cursor /\ pass.cursor <= HistoryId
      /\ (pass.full <=> ~account.scanned) /\ PageOK /\ IncrementOK /\ ScanOK
  BY DEF GmailInv, GmailTypes, PassTypesOK, PassOK
<1>2. pass.cursor \in Nat /\ pass.page \in Pages /\ pass.full \in BOOLEAN /\ HistoryId \in Nat
  BY <1>1 DEF Passes, GmailInv, GmailTypes, MailboxOK, HistoryId
<1>3. DOMAIN pass.page \subseteq Messages /\ \A m \in DOMAIN pass.page : pass.page[m] \in BOOLEAN
  BY <1>2 DEF Pages
<1> QED
  BY <1>1, <1>2, <1>3 DEF Unanswered

LEMMA PageIsOne ==
  ASSUME NEW S \in SUBSET Messages, NEW f \in [S -> BOOLEAN]
  PROVE  f \in Pages
BY DEF Pages

LEMMA ListKeeps ==
  ASSUME GmailInv, list_messages
  PROVE  PassTypesOK' /\ PassOK'
<1>0. /\ pass.phase = "list" /\ UNCHANGED <<mailbox, records, account, letters>>
      /\ pass.full /\ ~pass.drain /\ DOMAIN pass.page = {}
  BY DEF list_messages, gmailRemote, gmailRows, GmailInv, GmailTypes, PassTypesOK
<1>1. PICK batch \in SUBSET pass.unlisted :
        pass' = [pass EXCEPT !.phase = "fetch", !.unlisted = @ \ batch,
                   !.page = [m \in {n \in batch : mailbox[n] = "labelled"} |-> TRUE]]
  BY DEF list_messages
<1> DEFINE found == {n \in batch : Labelled(n)}
           page == [m \in found |-> TRUE]
<1>2. batch \subseteq Messages
  BY <1>0, <1>1, Running DEF Passes
<1>3. page \in Pages
  BY <1>2, PageIsOne
<1>4. pass' = [pass EXCEPT !.phase = "fetch", !.unlisted = pass.unlisted \ batch, !.page = page]
  BY <1>1 DEF Labelled
<1>5. DOMAIN page = found /\ \A m \in found : page[m]
  OBVIOUS
<1> HIDE DEF page
<1>6. /\ Continues /\ pass'.phase = "fetch" /\ pass'.unlisted = pass.unlisted \ batch /\ pass'.page = page
      /\ pass'.cursor = pass.cursor /\ pass'.drain = pass.drain /\ pass'.present = pass.present
  BY <1>0, <1>3, <1>4, Running DEF Passes, Phases, Continues
<1>7. PassTypesOK'
  BY <1>0, <1>6, SameMailbox DEF PassTypesOK, Continues, GmailInv, GmailTypes
<1>8. Unanswered' = found /\ Unanswered = {}
  BY <1>0, <1>5, <1>6 DEF Unanswered
<1>9. PageOK'
  BY <1>0, <1>5, <1>6, SameMailbox DEF PageOK
<1>10. IncrementOK'
  BY <1>0, <1>6 DEF IncrementOK, Continues
<1>11. ScanOK'
  BY <1>0, <1>2, <1>6, <1>8, SameMailbox, Running DEF ScanOK, Continues
<1> QED
  BY <1>0, <1>6, <1>7, <1>9, <1>10, <1>11, Running DEF PassOK, Continues

\* The messages of a history page are those with a record on it, and of a message
\* without a later record the page says what the mailbox says.
LEMMA LastMutations ==
  ASSUME GmailInv, NEW a \in Nat \ {0}, NEW b \in Nat, b <= Len(records)
  PROVE  LET page == normalize_history_mutations(a, b)
         IN  /\ page \in Pages
             /\ \A m \in Messages : m \in DOMAIN page <=> \E i \in a..b : records[i].msg = m
             /\ \A m \in DOMAIN page : Quiet(m, b + 1) => (page[m] <=> Labelled(m))
<1> DEFINE about == {records[i].msg : i \in a..b}
           Last(m, i) == records[i].msg = m /\ \A j \in (i + 1)..b : records[j].msg # m
           last(m) == CHOOSE i \in a..b : Last(m, i)
           page == normalize_history_mutations(a, b)
<1>1. /\ records \in Seq([msg : Messages, upsert : BOOLEAN]) /\ Len(records) \in Nat
      /\ \A i \in a..b : /\ i \in 1..Len(records)
                          /\ records[i].msg \in Messages /\ records[i].upsert \in BOOLEAN
      /\ RecordsOK
  <2>1. records \in Seq([msg : Messages, upsert : BOOLEAN]) /\ RecordsOK
    BY DEF GmailInv, GmailTypes, MailboxOK
  <2>2. /\ Len(records) \in Nat
        /\ \A i \in 1..Len(records) : records[i] \in [msg : Messages, upsert : BOOLEAN]
    <3> DEFINE Entries == [msg : Messages, upsert : BOOLEAN]
    <3>1. records \in Seq(Entries)
      BY <2>1
    <3> HIDE DEF Entries
    <3>2. Len(records) \in Nat /\ \A i \in 1..Len(records) : records[i] \in Entries
      BY <3>1
    <3> QED
      BY <3>2 DEF Entries
  <2>3. \A i \in a..b : i \in 1..Len(records)
    BY <2>2
  <2> QED
    BY <2>1, <2>2, <2>3
<1>2. page = [m \in about |-> records[last(m)].upsert]
  BY DEF normalize_history_mutations
<1>3. ASSUME NEW m \in about
      PROVE  last(m) \in a..b /\ Last(m, last(m))
  <2> DEFINE S == {i \in a..b : records[i].msg = m}
  <2>1. S \in SUBSET (0..b) /\ S # {}
    OBVIOUS
  <2>2. PICK i \in S : \A j \in S : j <= i
    BY <2>1, GreatestNumber
  <2>3. i \in a..b /\ Last(m, i)
    BY <2>2
  <2> HIDE DEF Last
  <2> QED
    BY <2>3
<1>4. about \subseteq Messages
  BY <1>1
<1>5. page \in [about -> BOOLEAN]
  <2>1. ASSUME NEW m \in about
        PROVE  records[last(m)].upsert \in BOOLEAN
    BY <1>1, <1>3
  <2> HIDE DEF last
  <2> QED
    BY <1>2, <2>1
<1>6. page \in Pages /\ DOMAIN page = about
  BY <1>4, <1>5, PageIsOne
<1>7. ASSUME NEW m \in about, Quiet(m, b + 1)
      PROVE  page[m] <=> Labelled(m)
  <2>1. /\ last(m) \in 1..Len(records) /\ records[last(m)].msg = m
        /\ \A j \in (last(m) + 1)..b : records[j].msg # m
    BY <1>1, <1>3
  <2> DEFINE k == last(m)
  <2> HIDE DEF k
  <2>2. k \in 1..Len(records) /\ records[k].msg = m /\ \A j \in (k + 1)..b : records[j].msg # m
    BY <2>1 DEF k
  <2>3. Quiet(m, k + 1)
    BY <1>1, <1>7, <2>2 DEF Quiet
  <2>4. records[k].upsert <=> Labelled(m)
    BY <1>1, <1>4, <2>2, <2>3 DEF RecordsOK
  <2> QED
    BY <1>2, <2>4 DEF k
<1> QED
  BY <1>1, <1>4, <1>6, <1>7
\* A page of the history: a message that is not on it has no record on it either, so it
\* was quiet from the last position on if it is from the next.
LEMMA HistoryKeeps ==
  ASSUME GmailInv, list_history
  PROVE  PassTypesOK' /\ PassOK'
<1>0. /\ pass.phase = "history" /\ UNCHANGED <<mailbox, records, account, letters>>
      /\ pass.phase # "none" /\ DOMAIN pass.page = {} /\ Unanswered = {}
      /\ (pass.full /\ ~pass.drain => pass.unlisted = {})
  BY DEF list_history, gmailRemote, gmailRows, GmailInv, GmailTypes, PassTypesOK, Unanswered
<1>1. PICK to \in pass.cursor..HistoryId :
        pass' = [pass EXCEPT !.phase = "fetch", !.cursor = to, !.drain = TRUE,
                   !.page = normalize_history_mutations(pass.cursor, to - 1)]
  BY DEF list_history
<1> DEFINE page == normalize_history_mutations(pass.cursor, to - 1)
<1>2. /\ to \in Nat /\ to <= HistoryId /\ pass.cursor <= to /\ pass.cursor \in Nat \ {0}
      /\ pass.from \in 1..pass.cursor /\ to - 1 \in Nat /\ to - 1 <= Len(records) /\ (to - 1) + 1 = to
      /\ Len(records) \in Nat
  <2>1. Len(records) \in Nat
    BY DEF GmailInv, GmailTypes, MailboxOK
  <2> QED
    BY <1>0, <2>1, Running DEF HistoryId
<1>3. /\ page \in Pages
      /\ \A m \in Messages : m \in DOMAIN page <=> \E i \in pass.cursor..(to - 1) : records[i].msg = m
      /\ \A m \in DOMAIN page : Quiet(m, to) => (page[m] <=> Labelled(m))
  <2>1. /\ page \in Pages
        /\ \A m \in Messages : m \in DOMAIN page <=> \E i \in pass.cursor..(to - 1) : records[i].msg = m
        /\ \A m \in DOMAIN page : Quiet(m, (to - 1) + 1) => (page[m] <=> Labelled(m))
    BY <1>2, LastMutations
  <2> QED
    BY <2>1, <1>2
<1>4. DOMAIN page \subseteq Messages
  BY <1>3 DEF Pages
<1>5. \A m \in DOMAIN page : ~Quiet(m, pass.from)
  BY <1>2, <1>3, <1>4 DEF Quiet
<1>6. \A m \in Messages \ DOMAIN page : Quiet(m, to) => Quiet(m, pass.cursor)
  BY <1>2, <1>3 DEF Quiet
<1> HIDE DEF page
<1>7. pass' = [pass EXCEPT !.phase = "fetch", !.cursor = to, !.drain = TRUE, !.page = page]
  BY <1>1 DEF page
<1>8. /\ Continues /\ pass'.phase = "fetch" /\ pass'.unlisted = pass.unlisted /\ pass'.page = page
      /\ pass'.cursor = to /\ pass'.drain /\ pass'.present = pass.present
  <2> DEFINE at == [pass EXCEPT !.phase = "fetch", !.cursor = to]
  <2>1. /\ at \in Passes /\ at.by = pass.by /\ at.token = pass.token /\ at.lease = pass.lease
        /\ at.full = pass.full /\ at.from = pass.from /\ at.phase = "fetch" /\ at.cursor = to
        /\ at.unlisted = pass.unlisted /\ at.present = pass.present
    BY <1>0, <1>2, Running DEF Passes, Phases
  <2>2. pass' = [at EXCEPT !.drain = TRUE, !.page = page]
    BY <1>0, <1>7, Running DEF Passes
  <2> HIDE DEF at
  <2> QED
    BY <1>3, <2>1, <2>2 DEF Passes, Continues
<1>9. PassTypesOK'
  BY <1>0, <1>2, <1>8, SameMailbox DEF PassTypesOK, Continues, GmailInv, GmailTypes
<1>10. Unanswered' = DOMAIN page
  BY <1>8 DEF Unanswered
<1>11. PageOK'
  BY <1>0, <1>3, <1>8, SameMailbox DEF PageOK
<1>12. IncrementOK'
  BY <1>0, <1>5, <1>6, <1>8, <1>10, SameMailbox, Running DEF IncrementOK, Continues, Agrees
<1>13. ScanOK'
  BY <1>0, <1>6, <1>8, <1>10, SameMailbox, Running DEF ScanOK, Continues
<1> QED
  BY <1>0, <1>8, <1>9, <1>11, <1>12, <1>13, Running DEF PassOK, Continues

\* A message that is gone has no label: the listing skips it and the history removes it.
LEMMA FetchKeeps ==
  ASSUME GmailInv, fetch_page
  PROVE  PassTypesOK' /\ PassOK'
<1>0. /\ pass.phase = "fetch" /\ UNCHANGED <<mailbox, records, account, letters>>
      /\ Unanswered = DOMAIN pass.page /\ (pass.full \/ pass.drain)
  BY DEF fetch_page, gmailRemote, gmailRows, Unanswered, GmailInv, GmailTypes, PassTypesOK
<1> DEFINE found == {m \in DOMAIN pass.page : pass.page[m] /\ mailbox[m] # "deleted"}
           told == IF pass.drain THEN DOMAIN pass.page ELSE found
           page == [m \in told |-> m \in found]
<1>1. pass' = [pass EXCEPT !.phase = "store", !.page = page]
  BY DEF fetch_page
<1>2. /\ told \subseteq DOMAIN pass.page /\ told \subseteq Messages /\ DOMAIN page = told
      /\ \A m \in told : page[m] <=> m \in found
  BY <1>0, Running
<1>3. page \in [told -> BOOLEAN]
  OBVIOUS
<1>4. page \in Pages
  BY <1>2, <1>3, PageIsOne
<1>5. \A m \in Messages : Labelled(m) => mailbox[m] # "deleted"
  BY DEF Labelled
<1>6. \A m \in DOMAIN pass.page : Quiet(m, pass.cursor) => (m \in found <=> Labelled(m))
  BY <1>0, <1>5, Running DEF PageOK
<1>7. \A m \in DOMAIN pass.page \ told : Quiet(m, pass.cursor) => ~pass.drain /\ ~Labelled(m)
  BY <1>6
<1> HIDE DEF page, told, found
<1>8. /\ Continues /\ pass'.phase = "store" /\ pass'.unlisted = pass.unlisted /\ pass'.page = page
      /\ pass'.cursor = pass.cursor /\ pass'.drain = pass.drain /\ pass'.present = pass.present
  BY <1>0, <1>1, <1>4, Running DEF Passes, Phases, Continues
<1>9. PassTypesOK'
  BY <1>0, <1>8, SameMailbox DEF PassTypesOK, Continues, GmailInv, GmailTypes
<1>10. Unanswered' = told
  BY <1>2, <1>8 DEF Unanswered
<1>11. PageOK'
  BY <1>0, <1>2, <1>6, <1>8, SameMailbox DEF PageOK
<1>12. IncrementOK'
  <2>1. ~pass.full => told = DOMAIN pass.page
    BY <1>0 DEF told
  <2> QED
    BY <1>0, <1>8, <1>10, <2>1, SameMailbox, Running DEF IncrementOK, Continues, Agrees
<1>13. ScanOK'
  BY <1>0, <1>2, <1>7, <1>8, <1>10, SameMailbox, Running DEF ScanOK, Continues
<1> QED
  BY <1>0, <1>8, <1>9, <1>11, <1>12, <1>13, Running DEF PassOK, Continues
\* A message that is stored is answered, or goes on to be hydrated.
LEMMA RawKeeps ==
  ASSUME GmailInv, NEW m \in Messages, persist_raw_message(m)
  PROVE  PassTypesOK' /\ PassOK'
<1>0. /\ pass.phase = "store" /\ m \in DOMAIN pass.page /\ pass.page[m]
      /\ UNCHANGED <<mailbox, records, account>>
      /\ Unanswered = DOMAIN pass.page /\ (pass.full \/ pass.drain) /\ LetterOK(letters[m])
      /\ letters = [n \in Messages |-> letters[n]]
  BY DEF persist_raw_message, gmailRemote, Unanswered, GmailInv, GmailTypes, PassTypesOK, LettersOK
<1> DEFINE row == discover_messages_claimed(letters[m])
           hydrates == row.state = "DISCOVERED"
           rest == DOMAIN pass.page \ {m}
           page == [n \in rest |-> pass.page[n]]
           phase == IF hydrates THEN "claim" ELSE "store"
           msg == IF hydrates THEN m ELSE "none"
<1>1. letters' = [letters EXCEPT ![m] = row]
  BY DEF persist_raw_message
<1>2. letters'[m] = row /\ \A n \in Messages \ {m} : letters'[n] = letters[n]
  BY <1>0, <1>1
<1>3. row.state \notin {"ABSENT", "REMOVED"} /\ (~hydrates => row.state \notin Missing)
  BY <1>0, DiscoverLetter DEF Missing
<1> HIDE DEF row
<1>4. pass' = [pass EXCEPT !.page = page, !.present = pass.present \cup {m}, !.phase = phase, !.msg = msg]
  BY <1>2 DEF persist_raw_message
<1>5. page \in [rest -> BOOLEAN] /\ rest \subseteq Messages
  BY <1>0, Running
<1>6. /\ page \in Pages /\ DOMAIN page = rest /\ \A n \in rest : page[n] = pass.page[n]
      /\ phase \in {"claim", "store"} /\ (phase = "claim" <=> hydrates) /\ (hydrates => msg = m)
      /\ msg \in Messages \cup {"none"}
  BY <1>5, PageIsOne
<1> HIDE DEF page, hydrates, phase, msg
<1>7. /\ Continues /\ pass'.phase = phase /\ pass'.unlisted = pass.unlisted /\ pass'.page = page
      /\ pass'.cursor = pass.cursor /\ pass'.drain = pass.drain /\ pass'.msg = msg
      /\ pass'.present = pass.present \cup {m}
  <2> DEFINE at == [pass EXCEPT !.page = page, !.present = pass.present \cup {m}]
  <2>1. /\ at \in Passes /\ at.by = pass.by /\ at.token = pass.token /\ at.lease = pass.lease
        /\ at.full = pass.full /\ at.from = pass.from /\ at.cursor = pass.cursor
        /\ at.unlisted = pass.unlisted /\ at.present = pass.present \cup {m} /\ at.drain = pass.drain
        /\ at.page = page
    BY <1>0, <1>6, Running DEF Passes
  <2>2. pass' = [at EXCEPT !.phase = phase, !.msg = msg]
    BY <1>0, <1>4, Running DEF Passes
  <2> HIDE DEF at
  <2> QED
    BY <1>6, <2>1, <2>2 DEF Passes, Phases, Continues
<1>8. PassTypesOK'
  BY <1>0, <1>6, <1>7, SameMailbox DEF PassTypesOK, Continues, GmailInv, GmailTypes
<1>9. Unanswered' = rest \cup {n \in {m} : hydrates}
  BY <1>6, <1>7 DEF Unanswered
<1>10. Quiet(m, pass.cursor) => Labelled(m)
  BY <1>0, Running DEF PageOK
<1>11. PageOK'
  BY <1>0, <1>6, <1>7, <1>10, SameMailbox, Running DEF PageOK
<1>12. \A n \in Messages \ {m} : Agrees(n)' <=> Agrees(n)
  BY <1>0, <1>2, SameMailbox DEF Agrees
<1>13. ~hydrates /\ Labelled(m) => Agrees(m)'
  BY <1>0, <1>2, <1>3, SameMailbox DEF Agrees
<1>14. IncrementOK'
  BY <1>0, <1>7, <1>9, <1>10, <1>12, <1>13, SameMailbox, Running DEF IncrementOK, Continues
<1>15. ScanOK'
  <2> SUFFICES ASSUME pass.full, NEW n \in Messages, Quiet(n, pass.cursor)
               PROVE  /\ Labelled(n) /\ n \notin Unanswered' /\ (pass.drain \/ n \notin pass.unlisted) =>
                           n \in pass'.present /\ letters'[n].state \notin Missing
                      /\ ~Labelled(n) /\ (~pass.drain \/ n \notin Unanswered') => n \notin pass'.present
    BY <1>0, <1>7, SameMailbox DEF ScanOK, Continues
  <2>1. CASE n = m
    BY <1>2, <1>3, <1>7, <1>9, <1>10, <2>1
  <2>2. CASE n # m
    BY <1>0, <1>2, <1>7, <1>9, <2>2, Running DEF ScanOK
  <2> QED
    BY <2>1, <2>2
<1> QED
  BY <1>0, <1>7, <1>8, <1>11, <1>14, <1>15, Running DEF PassOK, Continues

LEMMA RemovedKeeps ==
  ASSUME GmailInv, NEW m \in Messages, persist_removed_message(m)
  PROVE  PassTypesOK' /\ PassOK'
<1>0. /\ pass.phase = "store" /\ m \in DOMAIN pass.page /\ ~pass.page[m]
      /\ UNCHANGED <<mailbox, records, account>>
      /\ Unanswered = DOMAIN pass.page /\ (pass.full \/ pass.drain) /\ LetterOK(letters[m])
      /\ letters = [n \in Messages |-> letters[n]]
  BY DEF persist_removed_message, gmailRemote, Unanswered, GmailInv, GmailTypes, PassTypesOK, LettersOK
<1> DEFINE row == mark_message_removed_claimed(letters[m])
           rest == DOMAIN pass.page \ {m}
           page == [n \in rest |-> pass.page[n]]
<1>1. letters' = [letters EXCEPT ![m] = row]
  BY DEF persist_removed_message
<1>2. letters'[m] = row /\ \A n \in Messages \ {m} : letters'[n] = letters[n]
  BY <1>0, <1>1
<1>3. row.state \notin OpenStates
  BY <1>0, RemoveLetter
<1> HIDE DEF row
<1>4. pass' = [pass EXCEPT !.page = page, !.present = pass.present \ {m}]
  BY DEF persist_removed_message
<1>5. page \in [rest -> BOOLEAN] /\ rest \subseteq Messages
  BY <1>0, Running
<1>6. page \in Pages /\ DOMAIN page = rest /\ \A n \in rest : page[n] = pass.page[n]
  BY <1>5, PageIsOne
<1> HIDE DEF page
<1>7. /\ Continues /\ pass'.phase = "store" /\ pass'.unlisted = pass.unlisted /\ pass'.page = page
      /\ pass'.cursor = pass.cursor /\ pass'.drain = pass.drain
      /\ pass'.present = pass.present \ {m}
  BY <1>0, <1>4, <1>6, Running DEF Passes, Continues
<1>8. PassTypesOK'
  BY <1>0, <1>7, SameMailbox DEF PassTypesOK, Continues, GmailInv, GmailTypes
<1>9. Unanswered' = rest
  BY <1>6, <1>7 DEF Unanswered
<1>10. Quiet(m, pass.cursor) => ~Labelled(m)
  BY <1>0, Running DEF PageOK
<1>11. PageOK'
  BY <1>0, <1>6, <1>7, SameMailbox, Running DEF PageOK
<1>12. \A n \in Messages \ {m} : Agrees(n)' <=> Agrees(n)
  BY <1>0, <1>2, SameMailbox DEF Agrees
<1>13. ~Labelled(m) => Agrees(m)'
  BY <1>0, <1>2, <1>3, SameMailbox DEF Agrees
<1>14. IncrementOK'
  BY <1>0, <1>7, <1>9, <1>10, <1>12, <1>13, SameMailbox, Running DEF IncrementOK, Continues
<1>15. ScanOK'
  <2> SUFFICES ASSUME pass.full, NEW n \in Messages, Quiet(n, pass.cursor)
               PROVE  /\ Labelled(n) /\ n \notin Unanswered' /\ (pass.drain \/ n \notin pass.unlisted) =>
                           n \in pass'.present /\ letters'[n].state \notin Missing
                      /\ ~Labelled(n) /\ (~pass.drain \/ n \notin Unanswered') => n \notin pass'.present
    BY <1>0, <1>7, SameMailbox DEF ScanOK, Continues
  <2>1. CASE n = m
    BY <1>7, <1>10, <2>1
  <2>2. CASE n # m
    BY <1>0, <1>2, <1>7, <1>9, <2>2, Running DEF ScanOK
  <2> QED
    BY <2>1, <2>2
<1> QED
  BY <1>0, <1>7, <1>8, <1>11, <1>14, <1>15, Running DEF PassOK, Continues

\* What is hydrated was found and has the label.
LEMMA HydrationKeeps ==
  ASSUME GmailInv, GmailSetting, claim_for_hydration \/ hydrate
  PROVE  PassTypesOK' /\ PassOK'
<1>0. /\ pass.phase \in {"claim", "ready"} /\ UNCHANGED <<mailbox, records, account>>
      /\ pass.msg \in Messages /\ (pass.full \/ pass.drain)
      /\ Unanswered = DOMAIN pass.page \cup {pass.msg}
  BY DEF claim_for_hydration, hydrate, gmailRemote, Unanswered, GmailInv, GmailTypes, PassTypesOK
<1>1. /\ \A m \in Messages : Settles(letters'[m], letters[m])
      /\ \A m \in Messages \ {pass.msg} : letters'[m] = letters[m]
      /\ hydrate => letters'[pass.msg].state = "READY"
  BY HydrationSettles
<1>2. /\ Continues /\ pass'.unlisted = pass.unlisted /\ pass'.page = pass.page
      /\ pass'.cursor = pass.cursor /\ pass'.drain = pass.drain /\ pass'.present = pass.present
      /\ \/ claim_for_hydration /\ pass'.phase = "ready" /\ pass'.msg = pass.msg
         \/ hydrate /\ pass'.phase = "store"
  BY <1>0, Running DEF claim_for_hydration, hydrate, Passes, Phases, Continues
<1>3. PassTypesOK'
  BY <1>0, <1>2, SameMailbox DEF PassTypesOK, Continues, GmailInv, GmailTypes
<1>4. Unanswered \ {pass.msg} \subseteq Unanswered' /\ Unanswered' \subseteq Unanswered
  BY <1>0, <1>2 DEF Unanswered
<1>5. pass.msg \in pass.present /\ (Quiet(pass.msg, pass.cursor) => Labelled(pass.msg))
  BY <1>0, Running DEF PageOK
<1>6. PageOK'
  BY <1>0, <1>2, SameMailbox, Running DEF PageOK
<1>7. pass.msg \notin Unanswered' => letters'[pass.msg].state = "READY"
  BY <1>0, <1>1, <1>2 DEF Unanswered
<1>8. \A m \in Messages : Agrees(m) => Agrees(m)'
  BY <1>0, <1>1, SameMailbox DEF Agrees, Settles
<1>9. \A m \in Messages : m = pass.msg /\ m \notin Unanswered' /\ Labelled(m) => Agrees(m)'
  BY <1>0, <1>7, SameMailbox DEF Agrees, Missing
<1>10. IncrementOK'
  BY <1>0, <1>2, <1>4, <1>5, <1>8, <1>9, SameMailbox, Running DEF IncrementOK, Continues
<1>11. ScanOK'
  BY <1>0, <1>1, <1>2, <1>4, <1>5, <1>7, SameMailbox, Running DEF ScanOK, Continues, Settles, Missing
<1> QED
  BY <1>0, <1>2, <1>3, <1>6, <1>10, <1>11, Running DEF PassOK, Continues

LEMMA StoredPageKeeps ==
  ASSUME GmailInv, page_stored
  PROVE  PassTypesOK' /\ PassOK'
<1>0. /\ pass.phase = "store" /\ DOMAIN pass.page = {} /\ (pass.full \/ pass.drain)
      /\ UNCHANGED <<mailbox, records, account, letters>>
  BY DEF page_stored, gmailRemote, gmailRows, GmailInv, GmailTypes, PassTypesOK
<1> DEFINE phase == CASE ~pass.drain /\ pass.unlisted # {} -> "list"
                      [] ~pass.drain /\ pass.unlisted = {} -> "history"
                      [] pass.drain /\ pass.cursor < HistoryId -> "history"
                      [] OTHER -> "complete"
<1>1. /\ phase \in {"list", "history", "complete"}
      /\ phase = "list" => ~pass.drain
      /\ phase = "complete" => pass.drain
      /\ phase = "history" /\ ~pass.drain => pass.unlisted = {}
  OBVIOUS
<1>2. pass' = [pass EXCEPT !.phase = phase]
  BY DEF page_stored
<1> HIDE DEF phase
<1>3. /\ Continues /\ pass'.phase = phase /\ pass'.unlisted = pass.unlisted /\ pass'.page = pass.page
      /\ pass'.cursor = pass.cursor /\ pass'.drain = pass.drain /\ pass'.present = pass.present
  BY <1>0, <1>1, <1>2, Running DEF Passes, Phases, Continues
<1>4. PassTypesOK'
  BY <1>0, <1>1, <1>3, SameMailbox DEF PassTypesOK, Continues, GmailInv, GmailTypes
<1>5. Unanswered' = Unanswered
  BY <1>0, <1>1, <1>3 DEF Unanswered
<1>6. PageOK' /\ IncrementOK' /\ ScanOK'
  BY <1>0, <1>1, <1>3, <1>5, SameMailbox, Running DEF PageOK, IncrementOK, ScanOK, Continues, Agrees
<1> QED
  BY <1>0, <1>3, <1>4, <1>6, Running DEF PassOK, Continues
\* A full pass begins with everything still to be listed.
LEMMA FullPassBegins ==
  ASSUME GmailInv, UNCHANGED <<mailbox, records>>, NEW w \in Syncers, NEW t \in 1..4, NEW c \in Nat,
         pass' = FullPass(w, t, c), ~account'.scanned
  PROVE  PassTypesOK' /\ PassOK'
<1>1. HistoryId \in Nat \ {0} /\ HistoryId' = HistoryId /\ w # "nobody"
  BY SameMailbox DEF GmailInv, GmailTypes, MailboxOK, HistoryId, Syncers, Poller, Requested
<1>2. <<>> \in Pages /\ DOMAIN <<>> = {}
  BY DEF Pages
<1>3. pass' = [by |-> w, phase |-> "list", token |-> t, lease |-> c, full |-> TRUE, from |-> HistoryId,
               cursor |-> HistoryId, unlisted |-> Messages, drain |-> FALSE, page |-> <<>>,
               present |-> {}, msg |-> "none"]
  BY DEF FullPass, NoPass
<1>4. pass' \in Passes
  <2>1. t \in Nat /\ HistoryId \in Nat /\ {} \subseteq Messages /\ TRUE \in BOOLEAN /\ FALSE \in BOOLEAN
    BY <1>1
  <2> QED
    BY <1>2, <1>3, <2>1 DEF Passes, Phases
<1>5. PassTypesOK'
  BY <1>1, <1>2, <1>3, <1>4 DEF PassTypesOK
<1> QED
  BY <1>1, <1>2, <1>3, <1>5 DEF PassOK, PageOK, IncrementOK, ScanOK, Unanswered

LEMMA RunBegins ==
  ASSUME GmailInv, NEW w \in Syncers, run_claimed_gmail_sync(w)
  PROVE  PassTypesOK' /\ PassOK'
<1>0. /\ UNCHANGED <<mailbox, records, account, letters>> /\ pass.by = "nobody" /\ w # "nobody"
      /\ syncer[w].token \in 1..4 /\ syncer[w].cursor \in 1..HistoryId /\ HistoryId \in Nat
      /\ PassTypesOK /\ account.scanned \in BOOLEAN
  BY DEF run_claimed_gmail_sync, connectionFree, gmailRemote, GmailInv, GmailTypes, SyncersOK, MailboxOK,
         HistoryId, Syncers, Poller, Requested, AccountOK, Accounts
<1>1. CASE pass' = pass
  BY <1>0, <1>1, SameMailbox DEF PassTypesOK, PassOK
<1>2. CASE pass' = FullPass(w, syncer[w].token, syncer[w].cursor) /\ ~account.scanned
  BY <1>0, <1>2, FullPassBegins
<1>3. CASE /\ account.scanned
           /\ pass' = [NoPass EXCEPT !.by = w, !.token = syncer[w].token, !.lease = syncer[w].cursor,
                         !.from = syncer[w].cursor, !.cursor = syncer[w].cursor, !.phase = "history"]
  <2> DEFINE t == syncer[w].token
             c == syncer[w].cursor
  <2>1. pass' = [by |-> w, phase |-> "history", token |-> t, lease |-> c, full |-> FALSE, from |-> c,
                 cursor |-> c, unlisted |-> {}, drain |-> FALSE, page |-> <<>>, present |-> {},
                 msg |-> "none"]
    BY <1>3 DEF NoPass
  <2>2. t \in 1..4 /\ t \in Nat /\ c \in Nat /\ c \in 1..c /\ c <= HistoryId /\ HistoryId' = HistoryId
    BY <1>0, SameMailbox
  <2> HIDE DEF t, c
  <2>3. <<>> \in Pages /\ DOMAIN <<>> = {}
    BY DEF Pages
  <2>4. pass' \in Passes
    <3>1. {} \subseteq Messages /\ FALSE \in BOOLEAN
      OBVIOUS
    <3> QED
      BY <2>1, <2>2, <2>3, <3>1 DEF Passes, Phases
  <2>5. PassTypesOK'
    BY <1>0, <2>1, <2>2, <2>3, <2>4 DEF PassTypesOK
  <2>6. account.cursor = c => \A m \in Messages : Quiet(m, c) => Agrees(m)
    BY <1>3 DEF GmailInv, StoredOK
  <2>7. PageOK' /\ ScanOK' /\ Unanswered' = {}
    BY <2>1, <2>3 DEF PageOK, ScanOK, Unanswered
  <2>8. IncrementOK'
    BY <1>0, <2>1, <2>6, <2>7, SameMailbox DEF IncrementOK, Agrees
  <2>9. ~pass'.full /\ account'.scanned
    <3>1. pass'.full = FALSE
      BY <2>1
    <3>2. account' = account
      BY <1>0
    <3> QED
      BY <1>3, <3>1, <3>2
  <2> QED
    BY <2>5, <2>7, <2>8, <2>9, Zenon DEF PassOK
<1> QED
  BY <1>0, <1>1, <1>2, <1>3 DEF run_claimed_gmail_sync

LEMMA ExpiredCursorKeeps ==
  ASSUME GmailInv, history_cursor_expired
  PROVE  PassTypesOK' /\ PassOK'
<1> DEFINE c == require_full_reconciliation(account)
<1>1. CASE pass' = NoPass
  BY <1>1, NoRun
<1>2. CASE account' = c /\ pass' = FullPass(pass.by, NewSyncLease, c.cursor)
  <2>1. account \in Accounts /\ pass.by \in Syncers /\ UNCHANGED <<mailbox, records>>
    BY DEF history_cursor_expired, gmailRemote, GmailInv, GmailTypes, AccountOK, PassTypesOK, Passes
  <2>2. c.cursor \in Nat /\ ~c.scanned
    BY <2>1 DEF require_full_reconciliation, Accounts
  <2> HIDE DEF c
  <2> QED
    BY <1>2, <2>1, <2>2, FullPassBegins, SyncLeases
<1> QED
  BY <1>1, <1>2 DEF history_cursor_expired, PassFails, GmailLeave

\* While nobody is inside the mutex, and while time passes, the run stands still.
LEMMA RunStands ==
  ASSUME GmailInv, UNCHANGED <<mailbox, records, pass>>,
         \/ pass.by = "nobody"
         \/ UNCHANGED account /\ \A m \in Messages : Settles(letters'[m], letters[m])
  PROVE  PassTypesOK' /\ PassOK'
<1>1. PassTypesOK'
  BY SameMailbox DEF PassTypesOK, GmailInv, GmailTypes
<1>2. CASE pass.by = "nobody"
  BY <1>1, <1>2 DEF PassOK
<1>3. CASE /\ pass.by # "nobody" /\ UNCHANGED account
           /\ \A m \in Messages : Settles(letters'[m], letters[m])
  <2>1. (pass.full <=> ~account.scanned) /\ PageOK /\ IncrementOK /\ ScanOK
    BY <1>3 DEF GmailInv, PassOK
  <2>2. \A m \in Messages : Agrees(m) => Agrees(m)'
    BY <1>3, SameMailbox DEF Agrees, Settles
  <2>3. Unanswered' = Unanswered
    BY DEF Unanswered
  <2>4. PageOK' /\ IncrementOK'
    BY <1>3, <2>1, <2>2, <2>3, SameMailbox DEF PageOK, IncrementOK
  <2>5. ScanOK'
    BY <1>3, <2>1, <2>3, SameMailbox DEF ScanOK, Settles
  <2> QED
    BY <1>1, <1>3, <2>1, <2>4, <2>5 DEF PassOK
<1> QED
  BY <1>2, <1>3

LEMMA PassKeeps ==
  ASSUME GmailInv, GmailSetting, GmailApplication
  PROVE  PassTypesOK' /\ PassOK'
<1>0. UNCHANGED <<mailbox, records>>
  BY MailboxUntouched
<1>1. CASE GmailPass
  <2>1. CASE pass' = NoPass
    BY <2>1, NoRun
  <2>2. CASE pass' = pass /\ connectionFree
    BY <1>0, <2>2, RunStands DEF connectionFree
  <2>3. \/ pass' = NoPass \/ (pass' = pass /\ connectionFree) \/ list_messages \/ list_history
        \/ fetch_page \/ claim_for_hydration \/ hydrate \/ page_stored \/ history_cursor_expired
        \/ \E m \in Messages : persist_raw_message(m) \/ persist_removed_message(m)
        \/ \E w \in Syncers : run_claimed_gmail_sync(w)
    BY <1>1
    DEF GmailPass, poll, restore_polling, finish_claim, pass_fails, PassFails, GmailLeave, complete_pass
  <2> QED
    BY <2>1, <2>2, <2>3, ListKeeps, HistoryKeeps, FetchKeeps, RawKeeps, RemovedKeeps, HydrationKeeps,
       StoredPageKeeps, ExpiredCursorKeeps, RunBegins
<1>2. CASE ~GmailPass
  <2>1. \A m \in Messages : Settles(letters'[m], letters[m])
    BY <1>2, ScreenSettles
  <2>2. CASE pass' = NoPass
    BY <2>2, NoRun
  <2>3. CASE pass' = pass /\ (connectionFree \/ UNCHANGED account)
    BY <1>0, <2>1, <2>3, RunStands DEF connectionFree
  <2>4. pass' = NoPass \/ (pass' = pass /\ (connectionFree \/ UNCHANGED account))
    BY <1>2
    DEF GmailApplication, HistoryExpires, GmailUser, GmailLeaseExpires, GmailCrash, gmail_connect,
        gmail_label_bind, gmail_disconnect, start_gmail_sync, gmail_schedule_update, import_start,
        gmail_inbox_mark_staged, gmail_inbox_claim, gmail_inbox_ignore, gmail_inbox_retry, import_commit,
        import_rollback, gmailRows
  <2> QED
    BY <2>2, <2>3, <2>4
<1> QED
  BY <1>1, <1>2

LEMMA GmailInvInit ==
  ASSUME GmailInit, GmailSetting
  PROVE  GmailInv
<1>1. MailboxOK /\ RecordsOK
  BY DEF GmailInit, MailboxOK, MailboxStates, RecordsOK
<1>2. HistoryId = 1
  BY DEF GmailInit, HistoryId
<1>3. AccountOK
  BY <1>2 DEF GmailInit, AccountOK, Accounts, AccountStates, NoAccount, NoPolling, Pollings, NoSyncLease
<1>4. SyncersOK
  BY DEF GmailInit, SyncersOK, Idle, Claims, NoSyncLease, NoPass, Syncers, Poller, Requested
<1>5. LetterOK(NoLetter)
  BY DEF GmailSetting, LetterOK, NoLetter, Letters, LetterStates, NoBytes, NoSyncLease, ScreenToken
<1>6. LettersOK
  BY <1>5 DEF GmailInit, LettersOK
<1>7. LinksOK
  BY DEF GmailInit, LinksOK, NoImport, Imports, NoSyncLease, NoLetter
<1>8. PassTypesOK /\ PassOK
  <2>1. <<>> \in Pages
    BY DEF Pages
  <2>2. NoPass \in Passes
    BY <2>1 DEF NoPass, Passes, Phases, NoSyncLease
  <2> QED
    BY <2>2 DEF GmailInit, PassTypesOK, PassOK, NoPass
<1>9. StoredOK
  BY DEF GmailInit, StoredOK, NoAccount
<1> QED
  BY <1>1, <1>3, <1>4, <1>6, <1>7, <1>8, <1>9 DEF GmailInv, GmailTypes

LEMMA GmailInvNext ==
  ASSUME GmailSetting
  PROVE  GmailInv /\ [GmailNext]_gmailVars => GmailInv'
<1> SUFFICES ASSUME GmailInv, [GmailNext]_gmailVars
             PROVE  GmailInv'
  OBVIOUS
<1>1. CASE GmailApplication
  <2>1. MailboxOK' /\ RecordsOK'
    BY <1>1, MailboxUntouched, SameMailbox DEF GmailInv, GmailTypes
  <2> QED
    BY <1>1, <2>1, AccountKeeps, SyncersKeep, LettersKeep, LinksKeep, StoredKeeps, PassKeeps
    DEF GmailInv, GmailTypes
<1>2. CASE GmailNext /\ ~GmailApplication
  <2>1. PICK m \in Messages, now \in MailboxStates : MailboxChange(m, now)
    BY <1>2 DEF GmailNext, GmailMailbox, GmailApplication, MailboxStates
  <2> QED
    BY <2>1, MailboxKeeps
<1>3. CASE UNCHANGED gmailVars
  <2>1. /\ UNCHANGED <<mailbox, records, account, polling, letters, linked, syncer, pass, import, runs>>
        /\ \A row : Settles(row, row)
    BY <1>3 DEF gmailVars, Settles
  <2>2. MailboxOK' /\ RecordsOK' /\ HistoryId' = HistoryId
    BY <2>1, SameMailbox DEF GmailInv, GmailTypes
  <2>3. PassTypesOK' /\ PassOK' /\ StoredOK'
    BY <2>1, RunStands, StoredStays DEF GmailInv
  <2>4. AccountOK' /\ SyncersOK' /\ LettersOK' /\ LinksOK'
    BY <2>1, <2>2 DEF GmailInv, GmailTypes, AccountOK, SyncersOK, LettersOK, LinksOK
  <2> QED
    BY <2>2, <2>3, <2>4 DEF GmailInv, GmailTypes
<1> QED
  BY <1>1, <1>2, <1>3

LEMMA GmailInvTypes ==
  GmailInv => GmailTypeOK /\ GmailNothingMissed /\ GmailNoGhosts /\ GmailStagedHasRun
<1> SUFFICES ASSUME GmailInv
             PROVE  GmailTypeOK /\ GmailNothingMissed /\ GmailNoGhosts /\ GmailStagedHasRun
  OBVIOUS
<1>1. GmailTypeOK
  <2>1. \A m \in Messages : /\ letters[m].state \in OpenStates \cup {"ABSENT", "REMOVED", "IGNORED", "STAGED"}
                            /\ letters[m].tries \in 0..MaxInboxAttempts
                            /\ letters[m].state = "PROCESSING" <=> letters[m].token # NoSyncLease
    BY DEF GmailInv, GmailTypes, LettersOK, LetterOK, Letters, LetterStates, OpenStates
  <2>2. account.cursor \in 0..HistoryId /\ mailbox \in [Messages -> {"labelled", "unlabelled", "deleted"}]
    BY DEF GmailInv, GmailTypes, AccountOK, Accounts, MailboxOK, MailboxStates, HistoryId
  <2> QED
    BY <2>1, <2>2 DEF GmailTypeOK, GmailInv, GmailTypes, SyncersOK
<1>2. GmailSettled => \A m \in Messages : Agrees(m)
  <2>1. Len(records) \in Nat
    BY DEF GmailInv, GmailTypes, MailboxOK
  <2>2. \A m \in Messages : Quiet(m, HistoryId)
    BY <2>1 DEF Quiet, HistoryId
  <2> QED
    BY <2>2 DEF GmailSettled, GmailInv, StoredOK
<1>3. GmailNothingMissed /\ GmailNoGhosts
  BY <1>2 DEF GmailNothingMissed, GmailNoGhosts, Agrees, Labelled, Missing
<1>4. GmailStagedHasRun
  BY DEF GmailStagedHasRun, GmailInv, GmailTypes, LinksOK
<1> QED
  BY <1>1, <1>3, <1>4

LEMMA GmailInvAlways ==
  ASSUME GmailSetting
  PROVE  GmailSpec => []GmailInv
BY GmailInvInit, GmailInvNext, PTL DEF GmailSpec

\* Rows of the inbox are claimed exactly while PROCESSING, attempts stay in
\* bounds, the stored history id never runs ahead of the mailbox's, and the run
\* inside the mutex is that of one worker.
THEOREM GmailTypesCorrect ==
  ASSUME GmailSetting
  PROVE  GmailSpec => []GmailTypeOK
<1>1. GmailInv => GmailTypeOK
  BY GmailInvTypes
<1> QED
  BY <1>1, GmailInvAlways, PTL

-----------------------------------------------------------------------------
(* The four components together *)

\* What the proofs ask of the constants.
ExchangeSetting == GmailSetting /\ MobileSetting /\ PackageSetting

\* A behaviour of the exchange is one of each of its components.
LEMMA EachExchange ==
  Spec => GmailSpec /\ MobileSpec /\ SendSpec /\ PackageSpec
<1>1. Init => GmailInit /\ MobileInit /\ SendInit /\ PackageInit
  BY DEF Init
<1>2. [Next]_vars => /\ [GmailNext]_gmailVars /\ [MobileNext]_mobileVars
                     /\ [SendNext]_sendVars /\ [PackageNext]_packageVars
  BY Zenon DEF Next, vars, OfGmail, OfMobile, OfFamily, OfPackages
<1> QED
  BY <1>1, <1>2, PTL DEF Spec, GmailSpec, MobileSpec, SendSpec, PackageSpec

\* It is of one of them to its end.
LEMMA OneComponent == Spec => [](part \in {"gmail", "mobile", "family", "packages"})
<1> DEFINE OneOf == part \in {"gmail", "mobile", "family", "packages"}
<1>1. Init => OneOf
  BY DEF Init
<1>2. OneOf /\ [Next]_vars => OneOf'
  BY Zenon DEF Next, vars, OfGmail, OfMobile, OfFamily, OfPackages
<1> QED
  BY <1>1, <1>2, PTL DEF Spec

\* The rows of every component satisfy the constraints of its tables.
THEOREM ExchangeTypesCorrect ==
  ASSUME ExchangeSetting
  PROVE  Spec => []ExchangeTypes
<1>1. GmailSetting /\ MobileSetting /\ PackageSetting
  BY DEF ExchangeSetting
<1>2. part \in {"gmail", "mobile", "family", "packages"} =>
        (GmailTypeOK /\ MobileTypeOK /\ SendTypeOK /\ PackageTypeOK => ExchangeTypes)
  BY DEF ExchangeTypes
<1>3. /\ GmailSpec => []GmailTypeOK
      /\ MobileSpec => []MobileTypeOK
      /\ SendSpec => []SendTypeOK
      /\ PackageSpec => []PackageTypeOK
  BY <1>1, GmailTypesCorrect, MobileTypesCorrect, SendTypesCorrect, PackageTypesCorrect
<1> QED
  BY <1>2, <1>3, EachExchange, OneComponent, PTL

\* Whatever the order in which the poller, the refresh of the screen and the user
\* claim, list, hydrate and screen messages, fail, crash and lose their lease, and
\* however the mailbox changes meanwhile: an account whose stored history id is
\* the newest has every message with the label in its inbox and offers none
\* without it (run_full_sync, run_incremental_sync), and a staged message has its
\* import run.
THEOREM GmailStaysMirrored ==
  ASSUME ExchangeSetting
  PROVE  Spec => []GmailMirrored
<1>1. GmailInv => GmailMirrored
  BY GmailInvTypes DEF GmailMirrored
<1>2. GmailSpec => []GmailInv
  BY GmailInvAlways DEF ExchangeSetting
<1> QED
  BY <1>1, <1>2, EachExchange, PTL
=============================================================================
