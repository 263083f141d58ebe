------------------------------- MODULE MCRestore -------------------------------
(* An instance of Restore for TLC: the data of this device, a backup of it      *)
(* (same master key) and a backup of another device.                            *)
EXTENDS Restore

mcKeyOf == [v \in Versions |-> IF v = "foreign" THEN "other_key" ELSE "device_key"]
=================================================================================
