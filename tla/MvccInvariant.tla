----------------------------- MODULE MvccInvariant -----------------------------
(***************************************************************************)
(* The inductive invariant behind the theorems of MvccProofs: who owns which*)
(* slot, what every stamp means, what the running counts count, and that the*)
(* heap and the undo chains still reproduce every commit anybody reads as of.*)
(***************************************************************************)
EXTENDS Mvcc

Active(t) == state[t] \in {"Running", "Tainted"}

(* The slot already (or still) carries the timestamp of the commit in progress. *)
Restamped(t, r) ==
    \/ pc[t] = "stamp" /\ r \notin todo[t]
    \/ pc[t] = "unstamp" /\ r \in todo[t]

(* A handle: what its state and its place in commit or abort say. *)
HandleOK(t) ==
    /\ pc[t] # "idle" => commit_latch = {t}
    /\ t >= next_txn_id <=> state[t] = "unborn"
    /\ pc[t] \in {"stamp", "unstamp"} =>
         state[t] = "Running" /\ todo[t] \subseteq write_set[t] /\ last_commit_ts < MaxCommitTs
    /\ pc[t] = "published" => state[t] = "Committed"
    /\ pc[t] = "rollback" => state[t] = "Tainted"
    /\ state[t] = "Running" => DOMAIN buffer[t] = write_set[t]
    /\ state[t] = "unborn" => write_set[t] = {} /\ DOMAIN buffer[t] = {}

(* A written slot carries its writer's id or the commit in progress, and   *)
(* its chain starts with what the writer pushed.                           *)
OwnerOK(t, r) ==
    Active(t) /\ r \in write_set[t] =>
        /\ heap[r].ts = IF Restamped(t, r) THEN last_commit_ts + 1 ELSE t
        /\ r \in pushed_undo[t] <=> versions[r] # <<>>
        /\ state[t] = "Running" => Live(heap[r]) = buffer[t][r]

(* Every stamp is explained, by a writer, a commit in progress or a past commit. *)
StampOK(r) ==
    /\ heap[r].ts >= TXN_START_ID =>
         heap[r].ts \in TxnId /\ Active(heap[r].ts) /\ r \in write_set[heap[r].ts]
    /\ heap[r].ts < TXN_START_ID =>
         \/ heap[r].ts <= last_commit_ts
         \/ heap[r].ts = last_commit_ts + 1
            /\ \E t \in TxnId : pc[t] \in {"stamp", "unstamp"} /\ r \in write_set[t]
    /\ \A i \in DOMAIN versions[r] : versions[r][i].ts <= last_commit_ts
    /\ r \notin slots => heap[r].ts = 0 /\ heap[r].is_deleted /\ versions[r] = <<>>

HandlesInv == \A t \in TxnId : HandleOK(t)
OwnerInv == \A t \in TxnId, r \in Rid : OwnerOK(t, r)
StampInv == \A r \in Rid : StampOK(r)

(* The running map counts the registered transactions. *)
Readers(k) == {t \in TxnId : Registered(t) /\ read_ts[t] = k}

RunningInv ==
    /\ \A k \in Timestamp : running[k] = Cardinality(Readers(k))
    /\ \A t \in TxnId : Registered(t) => read_ts[t] <= last_commit_ts

GcInv ==
    /\ WatermarkBelowReaders
    /\ \A g \in Collector : gc[g].pc # "idle" => gc[g].watermark <= last_commit_ts

(* What a reader at timestamp k finds in row r. *)
Lookup(r, k) == IF heap[r].ts <= k THEN Live(heap[r]) ELSE ChainRead(versions[r], k)

Needed(k) == k = last_commit_ts \/ \E t \in TxnId : Registered(t) /\ read_ts[t] = k

(* The heap and the chains reproduce every commit somebody can read as of. *)
HistoryInv == \A r \in Rid : \A k \in Timestamp : Needed(k) => Lookup(r, k) = hist[k][r]

IInv ==
    /\ TypeOK
    /\ HandlesInv
    /\ OwnerInv
    /\ StampInv
    /\ RunningInv
    /\ GcInv
    /\ HistoryInv
================================================================================
