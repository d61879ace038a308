-------------------------------- MODULE MCMvcc --------------------------------
(* Instances of Mvcc for TLC. *)
EXTENDS Mvcc

MCRid == 1..2
MCPreloaded == {1}
================================================================================
