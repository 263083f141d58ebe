----------------------------- MODULE MCImportReview -----------------------------
(* Instances of ImportReview for TLC.  Candidates are numbers:                *)
(*   1, 2, 3  one purchase found in three documents; 1 spells the shop        *)
(*            differently, so a decision on 2 is an exception for 3 as well   *)
(*   4, 5     one broker transaction with an external id, in two documents    *)
(*   7        the same external id with other facts, in the third document    *)
(* Run r4 is a second import of the document of r1.                           *)
EXTENDS ImportReview

CONSTANTS r1, r2, r3, r4, manual, a1, a2

mcRunOf == [c \in Candidates |->
  CASE c \in {1, 4} -> r1 [] c \in {2, 5} -> r2 [] c \in {3, 7} -> r3 [] OTHER -> r4]
mcContent == [r \in Runs |-> IF r \in {r1, r4} THEN "doc1" ELSE IF r = r2 THEN "doc2" ELSE "doc3"]
mcConnectionOf == [r \in Runs |-> manual]
mcParsedBy == [r \in Runs |-> 0]
mcParsedByProfile == [r \in Runs |-> 1]
mcAccount == [c \in Candidates |-> a1]
mcShape == [c \in Candidates |-> IF c \in {4, 5, 7} THEN "salary" ELSE "lunch"]
mcText == [c \in Candidates |-> IF c = 1 THEN "CAFE KAKE" ELSE "kake"]
mcKey == [c \in Candidates |-> IF c \in {4, 5, 7} THEN "mf-1" ELSE NoKey]
mcFact == [c \in Candidates |-> IF c = 7 THEN "edited" ELSE "fact"]
=================================================================================
