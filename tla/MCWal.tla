---------------------------------- MODULE MCWal ----------------------------------
(* Instances of the log small enough for TLC. *)
EXTENDS Wal
================================================================================
