-------------------------------- MODULE MCRecovery --------------------------------
(* Instances of the recovering database small enough for TLC. *)
EXTENDS Recovery

CONSTANTS s1, s2, meta

MCSlot == {s1, s2}
MCPage == {s1, s2, meta}
MCOneSlot == {s1}
MCTwoPages == {s1, meta}
MCPreloaded == {s1}
MCThreeTxns == TXN_START_ID .. TXN_START_ID + 2
MCTxnId == TXN_START_ID .. TXN_START_ID + 1
================================================================================
