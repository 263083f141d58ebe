------------------------------- MODULE PostingCore -------------------------------
(***************************************************************************)
(* The journal validation shared by the desktop and the browser runtime    *)
(* (crates/kakeflow-core): validate_posting over 64-bit yen amounts added  *)
(* with checked_add, and the canonical form that is hashed.                *)
(*                                                                         *)
(* The state is a posting being drafted entry by entry; the operators say  *)
(* what the core answers for it.  Entry ids are numbers in the order of    *)
(* the strings; `identified` says that valid_id holds of every identifier  *)
(* of the posting and of its entries.                                      *)
(***************************************************************************)
EXTENDS Integers, Sequences, SequencesExt

CONSTANTS
  MaxAmount,    \* i64::MAX
  MinEntries,   \* MIN_ENTRIES
  MaxEntries,   \* MAX_ENTRIES
  DraftLimit,   \* bound on the entries of a draft
  Ids,          \* entry ids
  Amounts,      \* amount_jpy of entries and candidates
  Headers       \* [approved, identified, supported] of a posting

ASSUME AmountsAssumption ==
  MaxAmount \in Nat /\ Amounts \subseteq Int /\ \A a \in Amounts : a <= MaxAmount
ASSUME EntriesAssumption ==
  Ids \subseteq Nat /\ MinEntries \in Nat \ {0} /\ MaxEntries \in Nat /\ MinEntries <= MaxEntries
ASSUME HeadersAssumption ==
  Headers \subseteq [approved: BOOLEAN, identified: BOOLEAN, supported: BOOLEAN]

VARIABLES
  header,          \* approval, identifiers and transaction type of the posting
  candidateAmount, \* candidate_amount_jpy
  entries          \* the journal

postingVars == <<header, candidateAmount, entries>>

Sides == {"DEBIT", "CREDIT"}
Entry == [id: Ids, side: Sides, amount: Amounts]

PostingInit ==
  /\ header \in Headers
  /\ candidateAmount \in Amounts
  /\ entries = <<>>

AddEntry(e) ==
  /\ Len(entries) < DraftLimit
  /\ entries' = Append(entries, e)
  /\ UNCHANGED <<header, candidateAmount>>

PostingNext == \E e \in Entry : AddEntry(e)

PostingSpec == PostingInit /\ [][PostingNext]_postingVars

-----------------------------------------------------------------------------
(* validate_posting *)

\* Mutant: the sum saturates.
SaturatingAdd(acc, amount) ==
  [acc EXCEPT !.total = IF @ + amount <= MaxAmount THEN @ + amount ELSE MaxAmount]

\* i64::checked_add leaves the total and raises amount_overflow.
CheckedAdd(acc, amount) ==
  IF acc.total + amount <= MaxAmount
  THEN [acc EXCEPT !.total = @ + amount]
  ELSE [acc EXCEPT !.overflow = TRUE]

\* The running total of one side; an entry that is not positive is skipped.
SideTotal(drafted, side) ==
  FoldLeft(LAMBDA acc, e : IF e.side = side /\ e.amount > 0 THEN CheckedAdd(acc, e.amount) ELSE acc,
           [total |-> 0, overflow |-> FALSE], drafted)

HasDuplicateId(drafted) ==
  \E i, j \in DOMAIN drafted : i < j /\ drafted[i].id = drafted[j].id

Codes(hdr, cand, drafted) ==
  LET debit == SideTotal(drafted, "DEBIT")
      credit == SideTotal(drafted, "CREDIT")
      overflow == debit.overflow \/ credit.overflow
      raised(code, condition) == IF condition THEN {code} ELSE {}
  IN UNION {
       raised("APPROVAL_REQUIRED", ~hdr.approved),
       raised("INVALID_IDENTIFIER", ~hdr.identified),
       raised("UNSUPPORTED_TRANSACTION_TYPE", ~hdr.supported),
       raised("ENTRY_COUNT_OUT_OF_RANGE", Len(drafted) \notin MinEntries..MaxEntries),
       raised("DUPLICATE_ENTRY_ID", HasDuplicateId(drafted)),
       raised("NON_POSITIVE_AMOUNT", cand <= 0 \/ \E i \in DOMAIN drafted : drafted[i].amount <= 0),
       raised("AMOUNT_OVERFLOW", overflow),
       raised("UNBALANCED_JOURNAL", ~overflow /\ debit.total # credit.total),
       raised("CANDIDATE_AMOUNT_MISMATCH", ~overflow /\ {debit.total, credit.total} # {cand})}

\* Mutant: the entries keep the order of the request.
AsListed(drafted) == drafted

\* The place of an entry among the ids of a journal.
Position(drafted, i) == 1 + Cardinality({j \in DOMAIN drafted : drafted[j].id < drafted[i].id})

\* canonical_posting_json sorts the entries of a valid posting by id; their ids are
\* distinct, so sort_unstable_by has one result.
Canonical(drafted) ==
  [k \in DOMAIN drafted |-> drafted[CHOOSE i \in DOMAIN drafted : Position(drafted, i) = k]]

-----------------------------------------------------------------------------
\* The sum of a side over the integers, without a width.
ExactTotal(drafted, side) ==
  FoldLeft(LAMBDA total, e : IF e.side = side THEN total + e.amount ELSE total, 0, drafted)

\* validate_posting accepts exactly the balanced journals: the width of i64 and
\* the totals that an overflow leaves behind never let a wrong journal through,
\* and never refuse a right one.
AcceptsExactlyBalanced ==
  Codes(header, candidateAmount, entries) = {} <=>
    /\ header.approved /\ header.identified /\ header.supported
    /\ Len(entries) \in MinEntries..MaxEntries
    /\ \A i \in DOMAIN entries : entries[i].amount > 0
    /\ \A i, j \in DOMAIN entries : i # j => entries[i].id # entries[j].id
    /\ ExactTotal(entries, "DEBIT") = candidateAmount
    /\ ExactTotal(entries, "CREDIT") = candidateAmount

\* The browser and the desktop may list the entries in another order: the codes
\* are the same, and so is the hashed form of an accepted posting, although the
\* totals reported after an overflow depend on the order.
OrderIrrelevant ==
  \A i \in 1..(Len(entries) - 1) :
    LET swapped == [entries EXCEPT ![i] = entries[i + 1], ![i + 1] = entries[i]]
    IN /\ Codes(header, candidateAmount, swapped) = Codes(header, candidateAmount, entries)
       /\ Codes(header, candidateAmount, entries) = {} => Canonical(swapped) = Canonical(entries)
=================================================================================
