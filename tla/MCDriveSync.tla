------------------------------ MODULE MCDriveSync ------------------------------
(***************************************************************************)
(* Model checking DriveSync with two interchangeable folders, in two parts *)
(* of one run: everything that can happen while one of them takes no part, *)
(* and the folders inside each other while the background worker follows   *)
(* them with no fault and no new generation.                               *)
(***************************************************************************)
EXTENDS DriveSync, TLC

Alike == Permutations(Folders)

\* A folder outside the tree that never moves and never holds anything.
Apart(d) ==
  /\ place[d] = Outside /\ \A n \in Nodes : place[n] # d
  /\ \A i \in 1..Len(log) : d \notin {log[i].node, log[i].place}

Nested ==
  /\ faults = 0 /\ worker[SyncNow] = NoClaim /\ conn.status # "DISCONNECTED"
  /\ \A n \in Nodes : remoteGen[n] = 1

Bounded == Nested \/ \E d \in Folders : Apart(d)
================================================================================
