---------------------------- MODULE MCEvidenceLinks ----------------------------
(* An instance of EvidenceLinks for TLC. *)
EXTENDS EvidenceLinks

imported(k, c, a, d) == [kind |-> k, card |-> c, amount |-> a, day |-> d]

\* Two receipts and two purchases, a card with two statements of one amount, two
\* of its payments, one of that amount, a payment of another card, and a statement
\* of 0 yen.
mcItem ==
  [e |-> imported("purchase", "", 2, 100), r |-> imported("receipt", "", 2, 101),
   q |-> imported("receipt", "", 1, 103), b |-> imported("purchase", "x", 2, 100),
   s |-> imported("statement", "x", 2, 110), u |-> imported("statement", "x", 2, 130),
   z |-> imported("statement", "z", 0, 130),
   p |-> imported("payment", "x", 2, 140), o |-> imported("payment", "x", 1, 230),
   v |-> imported("payment", "y", 2, 140)]
mcRuns == {{"e"}, {"r", "q"}, {"b", "s"}, {"u", "z"}, {"p", "v"}, {"o"}}
mcEdited == {[amount |-> 1, day |-> 100], [amount |-> 2, day |-> 105]}
================================================================================
