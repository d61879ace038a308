------------------------------- MODULE MvccSteps -------------------------------
(***************************************************************************)
(* Every step of Mvcc that does not change what a row holds preserves the  *)
(* invariant: beginning, tainting, stamping, latching, unregistering and   *)
(* garbage collection.                                                     *)
(***************************************************************************)
EXTENDS MvccLemmas

(* begin: the new transaction reads at the newest commit, below which no
   watermark has moved. *)
LEMMA BeginInv == ASSUME IInv, NEW t \in TxnId, begin(t) PROVE IInv'
<1> USE Ids, ConstantsAssumption DEF IInv, begin
<1>1. TypeOK'
  <2>1. next_txn_id' \in TXN_START_ID .. TXN_START_ID + MaxTxns
    BY DEF TypeOK, TxnId
  <2>2. running' \in [Timestamp -> Nat] /\ state' \in [TxnId -> TxnState] /\ read_ts' \in [TxnId -> Timestamp]
    BY DEF TypeOK, TxnState
  <2> QED
    BY <2>1, <2>2, Zenon DEF TypeOK, rows, history
<1>0. /\ HandleOK(t) /\ state[t] = "unborn" /\ state'[t] = "Running" /\ write_set[t] = {}
      /\ \A u \in TxnId \ {t} : state'[u] = state[u] /\ read_ts'[u] = read_ts[u]
      /\ next_txn_id \in Nat
  <2>1. HandleOK(t) /\ state[t] = "unborn" /\ write_set[t] = {}
    BY DEF HandlesInv, HandleOK
  <2> QED
    BY <2>1 DEF TypeOK
<1>00. pc[t] = "idle"
  <2>1. pc[t] \in OutcomePc
    BY DEF TypeOK
  <2> QED
    BY <1>0, <2>1 DEF HandleOK, OutcomePc
<1>2. HandlesInv'
  <2> SUFFICES ASSUME NEW u \in TxnId PROVE HandleOK(u)'
    BY Zenon DEF HandlesInv
  <2>1. HandleOK(u)
    BY Zenon DEF HandlesInv
  <2>2. u >= next_txn_id' <=> state'[u] = "unborn"
    BY <1>0, <2>1 DEF HandleOK
  <2>3. CASE u = t
    BY <1>0, <1>00, <2>1, <2>2, <2>3, Zenon DEF HandleOK, rows, history
  <2>4. CASE u # t
    BY <1>0, <2>1, <2>2, <2>4, Zenon DEF HandleOK, rows, history
  <2> QED
    BY <2>3, <2>4, Zenon
<1>3. OwnerInv'
  BY <1>0 DEF OwnerInv, OwnerOK, Active, Restamped, rows, history
<1>4. StampInv'
  BY <1>0 DEF StampInv, StampOK, Active, rows, history
<1>5. RunningInv'
  <2>1. ~Registered(t) /\ Registered(t)'
    BY <1>0, <1>00, Zenon DEF Registered
  <2>2. \A u \in TxnId \ {t} : (Registered(u)' <=> Registered(u)) /\ read_ts'[u] = read_ts[u]
    BY <1>0, Zenon DEF Registered
  <2>3. Readers(last_commit_ts)' = Readers(last_commit_ts) \cup {t} /\ t \notin Readers(last_commit_ts)
    BY <2>1, <2>2, Zenon DEF Readers, TypeOK
  <2>4. \A k \in Timestamp \ {last_commit_ts} : Readers(k)' = Readers(k)
    <3> SUFFICES ASSUME NEW k \in Timestamp \ {last_commit_ts}, NEW u \in TxnId
                 PROVE  u \in Readers(k)' <=> u \in Readers(k)
      BY Zenon DEF Readers
    <3> QED
      BY <2>1, <2>2, Zenon DEF Readers, TypeOK
  <2>5. Cardinality(Readers(last_commit_ts)') = Cardinality(Readers(last_commit_ts)) + 1
    BY <2>3, ReadersFinite, FS_AddElement, Zenon
  <2>6. \A k \in Timestamp : running'[k] = Cardinality(Readers(k)')
    BY <2>4, <2>5, Zenon DEF RunningInv, TypeOK
  <2>7. \A u \in TxnId : Registered(u)' => read_ts'[u] <= last_commit_ts'
    BY <2>2 DEF RunningInv, TypeOK
  <2> QED
    BY <2>6, <2>7, Zenon DEF RunningInv
<1>6. GcInv'
  BY <1>0, Zenon DEF GcInv, WatermarkBelowReaders, Registered, TypeOK
<1>7. HistoryInv'
  <2>1. \A k \in Timestamp : Needed(k)' => Needed(k)
    BY <1>0, Zenon DEF Needed, Registered, TypeOK
  <2> QED
    BY <2>1, FrameHistory, Zenon DEF rows, history
<1> QED
  BY <1>1, <1>2, <1>3, <1>4, <1>5, <1>6, <1>7, Zenon

(* Tainting a transaction changes nothing but what it may still do. *)
LEMMA TaintInv ==
    ASSUME IInv, NEW t \in TxnId, InStatement(t), set_tainted(t), failures' \in Nat,
           UNCHANGED <<clocks, commit_latch, running, rows, read_ts, write_set, pushed_undo, pc,
                       todo, gc, history>>
    PROVE  IInv'
<1> USE Ids, ConstantsAssumption DEF IInv
<1>0. /\ state[t] = "Running" /\ pc[t] = "idle" /\ state'[t] = "Tainted"
      /\ \A u \in TxnId \ {t} : state'[u] = state[u]
      /\ state' \in [TxnId -> TxnState]
  BY Zenon DEF InStatement, set_tainted, TypeOK, TxnState
<1>00. \A u \in TxnId : (Active(u)' <=> Active(u)) /\ (Registered(u)' <=> Registered(u))
  BY <1>0, Zenon DEF Active, Registered
<1>1. TypeOK'
  BY <1>0, Zenon DEF TypeOK, rows, clocks, history
<1>2. HandlesInv'
  <2> SUFFICES ASSUME NEW u \in TxnId PROVE HandleOK(u)'
    BY Zenon DEF HandlesInv
  <2>1. HandleOK(u)
    BY Zenon DEF HandlesInv
  <2> QED
    BY <1>0, <2>1, Zenon DEF HandleOK, clocks, history
<1>3. OwnerInv' /\ StampInv'
  BY <1>0, <1>00, FrameRows, Zenon DEF Restamped, clocks, history
<1>5. RunningInv' /\ GcInv'
  BY <1>00, FrameRunning, FrameGc, Zenon DEF clocks
<1>7. HistoryInv'
  BY <1>00, FrameHistory, Zenon DEF Needed, rows, clocks, history
<1> QED
  BY <1>1, <1>2, <1>3, <1>5, <1>7, Zenon

(* check_write refusing a row (mvcc.rs). *)
LEMMA WriteConflictInv == ASSUME IInv, NEW t \in TxnId, NEW r \in Rid, write_conflict(t, r) PROVE IInv'
  BY TaintInv, Zenon DEF write_conflict, IInv, TypeOK

(* taint_on_err (mvcc.rs). *)
LEMMA TaintOnErrInv == ASSUME IInv, NEW t \in TxnId, taint_on_err(t) PROVE IInv'
  BY TaintInv DEF taint_on_err, IInv, TypeOK, StorageError

(* commit without writes: it only unregisters. *)
LEMMA CommitReadOnlyInv == ASSUME IInv, NEW t \in TxnId, commit_read_only(t) PROVE IInv'
<1> USE Ids, ConstantsAssumption DEF IInv, commit_read_only
<1>0. /\ state[t] = "Running" /\ pc[t] = "idle" /\ state'[t] = "Committed" /\ write_set[t] = {}
      /\ \A u \in TxnId \ {t} : state'[u] = state[u]
      /\ state' \in [TxnId -> TxnState]
  BY Zenon DEF InStatement, TypeOK, TxnState
<1>00. /\ Registered(t) /\ ~Registered(t)' /\ Active(t) /\ ~Active(t)'
       /\ \A u \in TxnId \ {t} : (Active(u)' <=> Active(u)) /\ (Registered(u)' <=> Registered(u))
  BY <1>0, Zenon DEF Active, Registered
<1>5. RunningInv' /\ running' \in [Timestamp -> Nat]
  BY <1>00, UnregisterRunning, Zenon DEF clocks
<1>1. TypeOK'
  BY <1>0, <1>5, Zenon DEF TypeOK, rows, clocks, history
<1>2. HandlesInv'
  <2> SUFFICES ASSUME NEW u \in TxnId PROVE HandleOK(u)'
    BY Zenon DEF HandlesInv
  <2>1. HandleOK(u)
    BY Zenon DEF HandlesInv
  <2> QED
    BY <1>0, <2>1, Zenon DEF HandleOK, clocks, history
<1>3. OwnerInv'
  BY <1>0, <1>00 DEF OwnerInv, OwnerOK, Restamped, rows, clocks, history
<1>4. StampInv'
  BY <1>0, <1>00, Zenon DEF StampInv, StampOK, rows, clocks
<1>6. GcInv'
  BY <1>00, FrameGc, Zenon DEF clocks
<1>7. HistoryInv'
  BY <1>00, FrameHistory, Zenon DEF Needed, rows, clocks, history
<1> QED
  BY <1>1, <1>2, <1>3, <1>4, <1>5, <1>6, <1>7, Zenon

(* commit takes the latch; no slot is stamped yet. *)
LEMMA CommitStartInv == ASSUME IInv, NEW t \in TxnId, commit_start(t) PROVE IInv'
<1> USE Ids, ConstantsAssumption DEF IInv, commit_start
<1>0. /\ state[t] = "Running" /\ pc[t] = "idle" /\ pc'[t] = "stamp" /\ todo'[t] = write_set[t]
      /\ \A u \in TxnId \ {t} : pc'[u] = pc[u] /\ todo'[u] = todo[u]
      /\ pc' \in [TxnId -> OutcomePc]
      /\ todo' \in [TxnId -> SUBSET Rid]
  BY DEF OutcomePc, InStatement, TypeOK
<1>00. /\ \A u \in TxnId : (Active(u)' <=> Active(u)) /\ (Registered(u)' <=> Registered(u))
       /\ \A u \in TxnId : pc[u] = "idle"
  BY <1>0, Zenon DEF Active, Registered, HandlesInv, HandleOK
<1>1. TypeOK'
  BY <1>0, Zenon DEF TypeOK, rows, clocks, history
<1>2. HandlesInv'
  <2> SUFFICES ASSUME NEW u \in TxnId PROVE HandleOK(u)'
    BY Zenon DEF HandlesInv
  <2>1. HandleOK(u)
    BY Zenon DEF HandlesInv
  <2> QED
    BY <1>0, <1>00, <2>1, Zenon DEF HandleOK, clocks, history
<1>3. OwnerInv' /\ StampInv'
  BY <1>0, <1>00, FrameRows, Zenon DEF Restamped, clocks, history
<1>5. RunningInv' /\ GcInv'
  BY <1>00, FrameRunning, FrameGc, Zenon DEF clocks
<1>7. HistoryInv'
  BY <1>00, FrameHistory, Zenon DEF Needed, rows, clocks, history
<1> QED
  BY <1>1, <1>2, <1>3, <1>5, <1>7, Zenon

(* Stamping and unstamping swap a writer's id and the next timestamp, both *)
(* of which every reader looks past.                                       *)
LEMMA RestampInv ==
    ASSUME IInv, NEW t \in TxnId, NEW r \in Rid, NEW ts \in {t, commit_ts},
           pc[t] \in {"stamp", "unstamp"}, r \in todo[t],
           heap[r].ts \in {t, commit_ts},
           ts = IF pc[t] = "stamp" THEN commit_ts ELSE t,
           heap' = [heap EXCEPT ![r].ts = ts],
           todo' = [todo EXCEPT ![t] = @ \ {r}],
           UNCHANGED <<clocks, commit_latch, running, slots, versions, state, read_ts, write_set,
                       pushed_undo, pc, gc, failures, history>>
    PROVE  IInv'
<1> USE Ids, ConstantsAssumption DEF IInv
<1>0. HandleOK(t) /\ OwnerOK(t, r) /\ StampOK(r)
  BY Zenon DEF HandlesInv, OwnerInv, StampInv
<1>1. /\ state[t] = "Running" /\ Active(t) /\ r \in write_set[t] /\ last_commit_ts \in Timestamp
      /\ last_commit_ts < MaxCommitTs /\ last_commit_ts \in Nat
  BY <1>0, Zenon DEF HandleOK, Active, TypeOK, Timestamp
<1>2. /\ heap \in [Rid -> TupleMeta] /\ ts \in Nat /\ heap[r] \in TupleMeta
  BY <1>1 DEF TypeOK, commit_ts
<1>3. /\ heap' \in [Rid -> TupleMeta] /\ heap'[r].ts = ts
      /\ heap'[r].is_deleted = heap[r].is_deleted /\ heap'[r].data = heap[r].data
      /\ \A x \in Rid \ {r} : heap'[x] = heap[x]
  BY <1>2, Zenon DEF TupleMeta
<1>4. /\ todo'[t] = todo[t] \ {r} /\ \A u \in TxnId \ {t} : todo'[u] = todo[u]
      /\ todo' \in [TxnId -> SUBSET Rid]
  BY Zenon DEF TypeOK
<1>5. TypeOK'
  BY <1>3, <1>4, Zenon DEF TypeOK, clocks, history
<1>6. HandlesInv'
  <2> SUFFICES ASSUME NEW u \in TxnId PROVE HandleOK(u)'
    BY Zenon DEF HandlesInv
  <2>1. HandleOK(u)
    BY Zenon DEF HandlesInv
  <2> QED
    BY <1>4, <2>1, Zenon DEF HandleOK, clocks, history
<1>7. \A u \in TxnId : (Active(u)' <=> Active(u)) /\ (Registered(u)' <=> Registered(u))
  BY Zenon DEF Active, Registered
<1>8. Live(heap[r])' = Live(heap[r])
  BY <1>3, Zenon DEF Live
<1>9. OwnerInv'
  <2> SUFFICES ASSUME NEW u \in TxnId, NEW x \in Rid, Active(u), x \in write_set[u]
               PROVE  OwnerOK(u, x)'
    BY <1>7 DEF OwnerInv, OwnerOK
  <2>1. OwnerOK(u, x)
    BY Zenon DEF OwnerInv
  <2>2. CASE x # r
    BY <2>1, <2>2, <1>3, <1>4, <1>7 DEF OwnerOK, Restamped, clocks, history
  <2>3. CASE x = r
    <3>1. u = t
      BY <2>3, <1>1, OneWriter, Zenon
    <3>2. Restamped(t, r)' <=> pc[t] = "stamp"
      BY <1>4, Zenon DEF Restamped
    <3> QED
      BY <3>1, <3>2, <2>1, <2>3, <1>3, <1>8, Zenon DEF OwnerOK, clocks, history, commit_ts
  <2> QED
    BY <2>2, <2>3, Zenon
<1>10. StampInv'
  <2> SUFFICES ASSUME NEW x \in Rid PROVE StampOK(x)'
    BY Zenon DEF StampInv
  <2>1. StampOK(x)
    BY Zenon DEF StampInv
  <2>2. CASE x # r
    BY <2>1, <2>2, <1>3, <1>7, Zenon DEF StampOK, clocks
  <2>3. CASE x = r
    <3>1. r \in slots
      BY <1>0, <1>1, <1>2 DEF StampOK, commit_ts
    <3> QED
      BY <3>1, <2>1, <2>3, <1>1, <1>3, <1>7 DEF StampOK, clocks, commit_ts, Timestamp
  <2> QED
    BY <2>2, <2>3, Zenon
<1>11. RunningInv' /\ GcInv'
  BY <1>7, FrameRunning, FrameGc, Zenon DEF clocks
<1>12. HistoryInv'
  <2> SUFFICES ASSUME NEW x \in Rid, NEW k \in Timestamp, Needed(k)
               PROVE  Lookup(x, k)' = Lookup(x, k)
    BY <1>7, Zenon DEF HistoryInv, Needed, clocks, history
  <2>1. k <= last_commit_ts /\ k \in Nat
    BY <1>1 DEF Needed, RunningInv, Timestamp
  <2>2. CASE x # r
    BY <2>2, <1>3, Zenon DEF Lookup
  <2>3. CASE x = r
    <3>1. ~(heap[r].ts <= k) /\ ~(heap'[r].ts <= k)
      BY <2>1, <1>1, <1>3 DEF commit_ts, Timestamp
    <3> QED
      BY <3>1, <2>3, Zenon DEF Lookup
  <2> QED
    BY <2>2, <2>3, Zenon
<1> QED
  BY <1>5, <1>6, <1>9, <1>10, <1>11, <1>12, Zenon

(* stamp: from the id to the next timestamp. *)
LEMMA StampSlotInv == ASSUME IInv, NEW t \in TxnId, NEW r \in Rid, stamp(t, r) PROVE IInv'
  BY RestampInv, Zenon DEF stamp

(* The undoing of a failed commit: from the next timestamp back to the id. *)
LEMMA UnstampInv == ASSUME IInv, NEW t \in TxnId, NEW r \in Rid, unstamp(t, r) PROVE IInv'
  BY RestampInv, Zenon DEF unstamp

(* A slot could not be stamped: the stamped ones become the ones to undo. *)
LEMMA StampFailsInv == ASSUME IInv, NEW t \in TxnId, NEW r \in Rid, stamp_fails(t, r) PROVE IInv'
<1> USE Ids, ConstantsAssumption DEF IInv, stamp_fails
<1>0. /\ pc[t] = "stamp" /\ pc'[t] = "unstamp" /\ todo'[t] = write_set[t] \ todo[t]
      /\ \A u \in TxnId \ {t} : pc'[u] = pc[u] /\ todo'[u] = todo[u]
      /\ pc' \in [TxnId -> OutcomePc]
      /\ todo' \in [TxnId -> SUBSET Rid] /\ failures' \in Nat
  BY DEF OutcomePc, TypeOK, SlotFails, StorageError
<1>00. \A u \in TxnId : (Active(u)' <=> Active(u)) /\ (Registered(u)' <=> Registered(u))
  BY <1>0, Zenon DEF Active, Registered
<1>1. TypeOK'
  BY <1>0, Zenon DEF TypeOK, rows, clocks, history
<1>2. HandlesInv'
  <2> SUFFICES ASSUME NEW u \in TxnId PROVE HandleOK(u)'
    BY Zenon DEF HandlesInv
  <2>1. HandleOK(u)
    BY Zenon DEF HandlesInv
  <2> QED
    BY <1>0, <2>1, Zenon DEF HandleOK, clocks, history
<1>3. OwnerInv' /\ StampInv'
  BY <1>0, <1>00, FrameRows, Zenon DEF Restamped, clocks, history
<1>5. RunningInv' /\ GcInv'
  BY <1>00, FrameRunning, FrameGc, Zenon DEF clocks
<1>7. HistoryInv'
  BY <1>00, FrameHistory, Zenon DEF Needed, rows, clocks, history
<1> QED
  BY <1>1, <1>2, <1>3, <1>5, <1>7, Zenon

(* A failed commit returns only once no slot carries the next timestamp. *)
LEMMA CommitUndoneInv == ASSUME IInv, NEW t \in TxnId, commit_undone(t) PROVE IInv'
<1> USE Ids, ConstantsAssumption DEF IInv, commit_undone, ReturnTainted
<1>0. /\ pc[t] = "unstamp" /\ pc'[t] = "idle" /\ todo[t] = {} /\ todo'[t] = {}
      /\ \A u \in TxnId \ {t} : pc'[u] = pc[u] /\ todo'[u] = todo[u] /\ state'[u] = state[u]
      /\ pc' \in [TxnId -> OutcomePc]
      /\ todo' \in [TxnId -> SUBSET Rid] /\ state' \in [TxnId -> TxnState]
      /\ state[t] = "Running" /\ state'[t] = "Tainted"
  BY DEF OutcomePc, TypeOK, set_tainted, TxnState, HandlesInv, HandleOK
<1>00. /\ \A u \in TxnId : (Active(u)' <=> Active(u)) /\ (Registered(u)' <=> Registered(u))
       /\ \A u \in TxnId : pc'[u] = "idle"
  BY <1>0, OthersIdle, Zenon DEF Active, Registered
<1>1. TypeOK'
  BY <1>0, Zenon DEF TypeOK, rows, clocks, history
<1>2. HandlesInv'
  <2> SUFFICES ASSUME NEW u \in TxnId PROVE HandleOK(u)'
    BY Zenon DEF HandlesInv
  <2>1. HandleOK(u)
    BY Zenon DEF HandlesInv
  <2> QED
    BY <1>0, <1>00, <2>1, Zenon DEF HandleOK, clocks, history
<1>3. OwnerInv'
  BY <1>0, <1>00, FrameRows, Zenon DEF Restamped, clocks, history
<1>4. StampInv'
  <2> SUFFICES ASSUME NEW r \in Rid PROVE StampOK(r)'
    BY Zenon DEF StampInv
  <2>1. StampOK(r) /\ OwnerOK(t, r)
    BY Zenon DEF StampInv, OwnerInv
  <2>2. \A u \in TxnId : pc[u] \in {"stamp", "unstamp"} => u = t
    BY <1>0, OthersIdle, Zenon
  <2>3. r \in write_set[t] => heap[r].ts = t
    BY <1>0, <2>1, Zenon DEF OwnerOK, Restamped, Active
  <2>4. last_commit_ts \in Nat
    BY Zenon DEF TypeOK, Timestamp
  <2> QED
    BY <1>00, <2>1, <2>2, <2>3, <2>4 DEF StampOK, rows, clocks
<1>5. RunningInv' /\ GcInv'
  BY <1>00, FrameRunning, FrameGc, Zenon DEF clocks
<1>7. HistoryInv'
  BY <1>00, FrameHistory, Zenon DEF Needed, rows, clocks, history
<1> QED
  BY <1>1, <1>2, <1>3, <1>4, <1>5, <1>7, Zenon

(* A published commit unregisters and lets go of the latch. *)
LEMMA CommitEndInv == ASSUME IInv, NEW t \in TxnId, commit_end(t) PROVE IInv'
<1> USE Ids, ConstantsAssumption DEF IInv, commit_end
<1>0. /\ pc[t] = "published" /\ pc'[t] = "idle" /\ state[t] = "Committed"
      /\ \A u \in TxnId \ {t} : pc'[u] = pc[u]
      /\ pc' \in [TxnId -> OutcomePc]
  BY DEF OutcomePc, TypeOK, HandlesInv, HandleOK
<1>00. /\ Registered(t) /\ ~Registered(t)'
       /\ \A u \in TxnId : Active(u)' <=> Active(u)
       /\ \A u \in TxnId \ {t} : Registered(u)' <=> Registered(u)
       /\ \A u \in TxnId : pc'[u] = "idle" /\ pc[u] \notin {"stamp", "unstamp"}
  BY <1>0, OthersIdle, Zenon DEF Active, Registered
<1>5. RunningInv' /\ running' \in [Timestamp -> Nat]
  BY <1>00, UnregisterRunning, Zenon DEF clocks
<1>1. TypeOK'
  BY <1>0, <1>5, Zenon DEF TypeOK, rows, clocks, history
<1>2. HandlesInv'
  <2> SUFFICES ASSUME NEW u \in TxnId PROVE HandleOK(u)'
    BY Zenon DEF HandlesInv
  <2>1. HandleOK(u)
    BY Zenon DEF HandlesInv
  <2> QED
    BY <1>0, <1>00, <2>1, Zenon DEF HandleOK, clocks, history
<1>3. OwnerInv' /\ StampInv'
  BY <1>0, <1>00, FrameRows, Zenon DEF Restamped, clocks, history
<1>6. GcInv'
  BY <1>00, FrameGc, Zenon DEF clocks
<1>7. HistoryInv'
  BY <1>00, FrameHistory, Zenon DEF Needed, rows, clocks, history
<1> QED
  BY <1>1, <1>2, <1>3, <1>5, <1>6, <1>7, Zenon

(* abort takes the latch and taints its transaction. *)
LEMMA AbortStartInv == ASSUME IInv, NEW t \in TxnId, abort_start(t) PROVE IInv'
<1> USE Ids, ConstantsAssumption DEF IInv, abort_start
<1>0. /\ pc[t] = "idle" /\ pc'[t] = "rollback" /\ state[t] \in {"Running", "Tainted"}
      /\ \A u \in TxnId \ {t} : pc'[u] = pc[u] /\ state'[u] = state[u]
      /\ pc' \in [TxnId -> OutcomePc]
      /\ state' \in [TxnId -> TxnState] /\ state'[t] = "Tainted"
  BY DEF OutcomePc, TypeOK, set_tainted, TxnState
<1>00. /\ \A u \in TxnId : (Active(u)' <=> Active(u)) /\ (Registered(u)' <=> Registered(u))
       /\ \A u \in TxnId : pc[u] = "idle"
  BY <1>0, Zenon DEF Active, Registered, HandlesInv, HandleOK
<1>1. TypeOK'
  BY <1>0, Zenon DEF TypeOK, rows, clocks, history
<1>2. HandlesInv'
  <2> SUFFICES ASSUME NEW u \in TxnId PROVE HandleOK(u)'
    BY Zenon DEF HandlesInv
  <2>1. HandleOK(u)
    BY Zenon DEF HandlesInv
  <2> QED
    BY <1>0, <1>00, <2>1, Zenon DEF HandleOK, clocks, history
<1>3. OwnerInv' /\ StampInv'
  BY <1>0, <1>00, FrameRows, Zenon DEF Restamped, clocks, history
<1>5. RunningInv' /\ GcInv'
  BY <1>00, FrameRunning, FrameGc, Zenon DEF clocks
<1>7. HistoryInv'
  BY <1>00, FrameHistory, Zenon DEF Needed, rows, clocks, history
<1> QED
  BY <1>1, <1>2, <1>3, <1>5, <1>7, Zenon

(* A slot could not be restored: the rest of the write set stays. *)
LEMMA RollBackFailsInv ==
    ASSUME IInv, NEW t \in TxnId, NEW r \in Rid, roll_back_fails(t, r) PROVE IInv'
<1> USE Ids, ConstantsAssumption DEF IInv, roll_back_fails
<1>0. /\ pc[t] = "rollback" /\ pc'[t] = "idle" /\ failures' \in Nat
      /\ \A u \in TxnId \ {t} : pc'[u] = pc[u]
      /\ pc' \in [TxnId -> OutcomePc]
      /\ state[t] = "Tainted"
  BY DEF OutcomePc, TypeOK, StorageError, HandlesInv, HandleOK
<1>00. /\ \A u \in TxnId : (Active(u)' <=> Active(u)) /\ (Registered(u)' <=> Registered(u))
       /\ \A u \in TxnId : pc'[u] = "idle"
  BY <1>0, OthersIdle, Zenon DEF Active, Registered
<1>1. TypeOK'
  BY <1>0, Zenon DEF TypeOK, rows, clocks, history
<1>2. HandlesInv'
  <2> SUFFICES ASSUME NEW u \in TxnId PROVE HandleOK(u)'
    BY Zenon DEF HandlesInv
  <2>1. HandleOK(u)
    BY Zenon DEF HandlesInv
  <2> QED
    BY <1>0, <1>00, <2>1, Zenon DEF HandleOK, clocks, history
<1>3. OwnerInv' /\ StampInv'
  BY <1>0, <1>00, FrameRows, Zenon DEF Restamped, clocks, history
<1>5. RunningInv' /\ GcInv'
  BY <1>00, FrameRunning, FrameGc, Zenon DEF clocks
<1>7. HistoryInv'
  BY <1>00, FrameHistory, Zenon DEF Needed, rows, clocks, history
<1> QED
  BY <1>1, <1>2, <1>3, <1>5, <1>7, Zenon

(* abort is done: nothing is left to restore, and it unregisters. *)
LEMMA AbortEndInv == ASSUME IInv, NEW t \in TxnId, abort_end(t) PROVE IInv'
<1> USE Ids, ConstantsAssumption DEF IInv, abort_end
<1>0. /\ pc[t] = "rollback" /\ pc'[t] = "idle" /\ write_set[t] = {}
      /\ \A u \in TxnId \ {t} : pc'[u] = pc[u] /\ state'[u] = state[u]
      /\ pc' \in [TxnId -> OutcomePc]
      /\ state' \in [TxnId -> TxnState] /\ state[t] = "Tainted" /\ state'[t] = "Aborted"
  BY DEF OutcomePc, TypeOK, TxnState, HandlesInv, HandleOK
<1>00. /\ Registered(t) /\ ~Registered(t)' /\ Active(t) /\ ~Active(t)'
       /\ \A u \in TxnId \ {t} : (Active(u)' <=> Active(u)) /\ (Registered(u)' <=> Registered(u))
       /\ \A u \in TxnId : pc'[u] = "idle" /\ pc[u] \notin {"stamp", "unstamp"}
  BY <1>0, OthersIdle, Zenon DEF Active, Registered
<1>5. RunningInv' /\ running' \in [Timestamp -> Nat]
  BY <1>00, UnregisterRunning, Zenon DEF clocks
<1>1. TypeOK'
  BY <1>0, <1>5, Zenon DEF TypeOK, rows, clocks, history
<1>2. HandlesInv'
  <2> SUFFICES ASSUME NEW u \in TxnId PROVE HandleOK(u)'
    BY Zenon DEF HandlesInv
  <2>1. HandleOK(u)
    BY Zenon DEF HandlesInv
  <2> QED
    BY <1>0, <1>00, <2>1, Zenon DEF HandleOK, clocks, history
<1>3. OwnerInv'
  BY <1>0, <1>00 DEF OwnerInv, OwnerOK, Restamped, rows, clocks, history
<1>4. StampInv'
  BY <1>0, <1>00 DEF StampInv, StampOK, rows, clocks
<1>6. GcInv'
  BY <1>00, FrameGc, Zenon DEF clocks
<1>7. HistoryInv'
  BY <1>00, FrameHistory, Zenon DEF Needed, rows, clocks, history
<1> QED
  BY <1>1, <1>2, <1>3, <1>4, <1>5, <1>6, <1>7, Zenon

(* watermark: at or below every registered snapshot and the newest commit. *)
LEMMA GcWatermarkInv == ASSUME IInv, NEW g \in Collector, gc_watermark(g) PROVE IInv'
<1> USE Ids, ConstantsAssumption DEF IInv, gc_watermark
<1>1. PICK w \in Timestamp :
         IsWatermark(w) /\ gc' = [gc EXCEPT ![g] = [pc |-> "listing", watermark |-> w, rids |-> {}]]
  BY Zenon
<1>2. gc' \in [Collector -> GcState]
  <2>1. [pc |-> "listing", watermark |-> w, rids |-> {}] \in GcState
    BY DEF GcState
  <2> QED
    BY <1>1, <2>1 DEF TypeOK
<1>3. TypeOK'
  BY <1>2, Zenon DEF TypeOK, rows, clocks, handles, history
<1>4. HandlesInv' /\ OwnerInv' /\ StampInv'
  BY DEF HandlesInv, HandleOK, OwnerInv, OwnerOK, StampInv, StampOK, Active, Restamped,
         rows, clocks, handles, history
<1>5. \A u \in TxnId : Registered(u)' <=> Registered(u)
  BY Zenon DEF Registered, handles
<1>6. RunningInv'
  BY <1>5, FrameRunning, Zenon DEF clocks, handles
<1>7. \A k \in Timestamp : running[k] > 0 <=> \E u \in TxnId : Registered(u) /\ read_ts[u] = k
  <2> SUFFICES ASSUME NEW k \in Timestamp
               PROVE  running[k] > 0 <=> \E u \in TxnId : Registered(u) /\ read_ts[u] = k
    BY Zenon
  <2>1. IsFiniteSet(Readers(k)) /\ running[k] = Cardinality(Readers(k)) /\ running[k] \in Nat
    BY ReadersFinite, FS_CardinalityType, Zenon DEF RunningInv
  <2>2. running[k] = 0 <=> Readers(k) = {}
    BY <2>1, FS_EmptySet, Zenon
  <2> QED
    BY <2>1, <2>2 DEF Readers
<1>8. \A u \in TxnId : Registered(u) => w <= read_ts[u]
  <2> SUFFICES ASSUME NEW u \in TxnId, Registered(u) PROVE w <= read_ts[u]
    BY Zenon
  <2>1. read_ts[u] \in Timestamp
    BY Zenon DEF TypeOK
  <2>2. running[read_ts[u]] > 0
    BY <2>1, <1>7, Zenon
  <2>3. w \in Nat /\ read_ts[u] \in Nat
    BY <2>1, Zenon DEF Timestamp
  <2> QED
    BY <2>1, <2>2, <2>3, <1>1 DEF IsWatermark
<1>9. w <= last_commit_ts
  <2>1. w \in Nat /\ last_commit_ts \in Nat
    BY Zenon DEF TypeOK, Timestamp
  <2> QED
    BY <1>1, <1>7, <2>1 DEF IsWatermark, RunningInv
<1>10. GcInv'
  <2> SUFFICES ASSUME NEW h \in Collector, gc'[h].pc # "idle"
               PROVE  /\ \A u \in TxnId : Registered(u) => gc'[h].watermark <= read_ts[u]
                      /\ gc'[h].watermark <= last_commit_ts
    BY <1>5, Zenon DEF GcInv, WatermarkBelowReaders, handles, clocks
  <2>1. CASE h = g
    <3>1. gc'[h].watermark = w
      BY <2>1, <1>1, Zenon DEF TypeOK
    <3> QED
      BY <3>1, <1>8, <1>9, Zenon
  <2>2. CASE h # g
    <3>1. gc'[h] = gc[h]
      BY <2>2, <1>1, Zenon DEF TypeOK
    <3> QED
      BY <3>1, Zenon DEF GcInv, WatermarkBelowReaders
  <2> QED
    BY <2>1, <2>2, Zenon
<1>11. HistoryInv'
  BY <1>5, FrameHistory, Zenon DEF Needed, rows, clocks, handles, history
<1> QED
  BY <1>3, <1>4, <1>6, <1>10, <1>11, Zenon

(* A collector that only moves on, or stops, endangers nothing. *)
LEMMA GcMoveInv ==
    ASSUME IInv, failures' \in Nat,
           UNCHANGED <<clocks, commit_latch, running, rows, handles, history>>,
           gc' \in [Collector -> GcState],
           \A g \in Collector : gc'[g].pc # "idle" =>
               gc[g].pc # "idle" /\ gc'[g].watermark = gc[g].watermark
    PROVE  IInv'
<1> USE DEF IInv
<1>1. TypeOK'
  BY Zenon DEF TypeOK, rows, clocks, handles, history
<1>2. HandlesInv' /\ OwnerInv' /\ StampInv'
  BY DEF HandlesInv, HandleOK, OwnerInv, OwnerOK, StampInv, StampOK, Active, Restamped,
         rows, clocks, handles, history
<1>3. \A u \in TxnId : Registered(u)' <=> Registered(u)
  BY Zenon DEF Registered, handles
<1>4. RunningInv'
  BY <1>3, FrameRunning, Zenon DEF clocks, handles
<1>5. GcInv'
  BY <1>3, Zenon DEF GcInv, WatermarkBelowReaders, handles, clocks
<1>6. HistoryInv'
  BY <1>3, FrameHistory, Zenon DEF Needed, rows, clocks, handles, history
<1> QED
  BY <1>1, <1>2, <1>4, <1>5, <1>6, Zenon

(* garbage_collect lists the rids that have chains. *)
LEMMA GcListInv == ASSUME IInv, NEW g \in Collector, gc_list(g) PROVE IInv'
<1> USE DEF IInv, gc_list
<1>1. gc[g] \in GcState
  BY Zenon DEF TypeOK
<1>2. gc' = [gc EXCEPT ![g] = [pc |-> "collecting", watermark |-> gc[g].watermark,
                               rids |-> {r \in Rid : versions[r] # <<>>}]]
  BY <1>1, Zenon DEF TypeOK
<1>3. gc' \in [Collector -> GcState]
  <2> DEFINE new == [pc |-> "collecting", watermark |-> gc[g].watermark,
                     rids |-> {r \in Rid : versions[r] # <<>>}]
  <2>1. new \in GcState
    BY <1>1 DEF GcState
  <2>2. gc' = [gc EXCEPT ![g] = new]
    BY <1>2, Zenon
  <2> HIDE DEF new
  <2> QED
    BY <2>1, <2>2, Zenon DEF TypeOK
<1>4. \A h \in Collector : gc'[h].pc # "idle" =>
          gc[h].pc # "idle" /\ gc'[h].watermark = gc[h].watermark
  BY <1>2 DEF TypeOK
<1> QED
  BY <1>3, <1>4, GcMoveInv, Zenon DEF TypeOK

(* garbage_collect returns. *)
LEMMA GcEndInv == ASSUME IInv, NEW g \in Collector, gc_end(g) PROVE IInv'
<1> USE ConstantsAssumption DEF IInv, gc_end
<1>1. gc' \in [Collector -> GcState]
  <2>1. [pc |-> "idle", watermark |-> 0, rids |-> {}] \in GcState
    BY DEF GcState, Timestamp
  <2> QED
    BY <2>1 DEF TypeOK
<1>2. \A h \in Collector : gc'[h].pc # "idle" =>
          gc[h].pc # "idle" /\ gc'[h].watermark = gc[h].watermark
  BY Zenon DEF TypeOK
<1>3. failures' \in Nat
  BY DEF TypeOK, StorageError
<1> QED
  BY <1>1, <1>2, <1>3, GcMoveInv, Zenon

(* Collecting a slot drops only versions nobody can read. *)
LEMMA GcSlotInv == ASSUME IInv, NEW g \in Collector, NEW r \in Rid, gc_slot(g, r) PROVE IInv'
<1> USE Ids, ConstantsAssumption DEF IInv, gc_slot
<1> DEFINE w == gc[g].watermark
           settled == ~is_txn_id(heap[r].ts) /\ heap[r].ts <= w
<1>1. gc[g] \in GcState
  BY Zenon DEF TypeOK
<1>2. /\ w \in Timestamp /\ w \in Nat /\ last_commit_ts \in Nat /\ heap[r] \in TupleMeta
      /\ heap[r].ts \in Nat /\ versions[r] \in Seq(TupleMeta) /\ w <= last_commit_ts
      /\ \A u \in TxnId : Registered(u) => w <= read_ts[u]
  <2>1. w \in Timestamp /\ gc[g].pc # "idle"
    BY <1>1 DEF GcState
  <2>2. w <= last_commit_ts /\ \A u \in TxnId : Registered(u) => w <= read_ts[u]
    BY <2>1 DEF GcInv, WatermarkBelowReaders
  <2> HIDE DEF gc_slot, w
  <2> QED
    BY <2>1, <2>2, Typed
<1>3. /\ versions'[r] = IF settled THEN <<>> ELSE Cut(versions[r], w)
      /\ \A x \in Rid \ {r} : versions'[x] = versions[x]
      /\ heap' = heap
  BY Zenon DEF TypeOK
<1>4. gc' = [gc EXCEPT ![g] = [pc |-> "collecting", watermark |-> w, rids |-> gc[g].rids \ {r}]]
  BY <1>1, Zenon DEF TypeOK
<1>5. gc' \in [Collector -> GcState]
  <2> DEFINE new == [pc |-> "collecting", watermark |-> w, rids |-> gc[g].rids \ {r}]
  <2>1. new \in GcState
    BY <1>1 DEF GcState
  <2>2. gc' = [gc EXCEPT ![g] = new]
    BY <1>4, Zenon
  <2> HIDE DEF new
  <2> QED
    BY <2>1, <2>2 DEF TypeOK
<1>6. \A h \in Collector : gc'[h].pc # "idle" =>
          gc[h].pc # "idle" /\ gc'[h].watermark = gc[h].watermark
  BY <1>4 DEF TypeOK
<1>7. \A u \in TxnId : (Active(u)' <=> Active(u)) /\ (Registered(u)' <=> Registered(u))
  BY Zenon DEF Active, Registered, handles
<1> HIDE DEF w
<1>8. /\ versions'[r] \in Seq(TupleMeta)
      /\ \A i \in DOMAIN versions'[r] : i \in DOMAIN versions[r] /\ versions'[r][i] = versions[r][i]
      /\ ~settled => (versions'[r] = <<>> <=> versions[r] = <<>>)
      /\ \A k \in Nat : ~settled /\ w <= k => ChainRead(versions'[r], k) = ChainRead(versions[r], k)
  <2>1. CASE settled
    <3>1. versions'[r] = <<>>
      BY <1>3, <2>1, Zenon
    <3>2. <<>> \in Seq(TupleMeta) /\ DOMAIN <<>> = {}
      OBVIOUS
    <3> HIDE DEF settled
    <3> QED
      BY <3>1, <3>2, <2>1, Zenon
  <2>2. CASE ~settled
    <3>1. versions'[r] = Cut(versions[r], w)
      BY <1>3, <2>2, Zenon
    <3>2. \A k \in Nat : w <= k =>
             /\ Cut(versions[r], w) \in Seq(TupleMeta)
             /\ ChainRead(Cut(versions[r], w), k) = ChainRead(versions[r], k)
             /\ Cut(versions[r], w) = <<>> <=> versions[r] = <<>>
             /\ \A i \in DOMAIN Cut(versions[r], w) :
                   i \in DOMAIN versions[r] /\ Cut(versions[r], w)[i] = versions[r][i]
      BY <1>2, ChainReadCut, Zenon
    <3>3. w <= w
      BY <1>2
    <3> HIDE DEF settled
    <3> QED
      BY <1>2, <2>2, <3>1, <3>2, <3>3, Zenon
  <2> QED
    BY <2>1, <2>2, Zenon
<1>9. TypeOK'
  <2>1. versions' \in [Rid -> Seq(TupleMeta)]
    <3>1. /\ versions \in [Rid -> Seq(TupleMeta)]
          /\ versions' = [versions EXCEPT ![r] = versions'[r]]
      BY Zenon DEF TypeOK
    <3> QED
      BY <1>8, <3>1, Zenon
  <2>2. \A x \in Rid : \A i \in DOMAIN versions'[x] : versions'[x][i].ts \in Timestamp
    BY <1>3, <1>8 DEF TypeOK
  <2> QED
    BY <1>5, <2>1, <2>2, Zenon DEF TypeOK, clocks, handles, history
<1>10. HandlesInv'
  BY Zenon DEF HandlesInv, HandleOK, clocks, handles, history
<1>11. OwnerInv'
  <2> SUFFICES ASSUME NEW u \in TxnId, NEW x \in Rid, Active(u), x \in write_set[u]
               PROVE  OwnerOK(u, x)'
    BY <1>7, Zenon DEF OwnerInv, OwnerOK, handles
  <2>1. OwnerOK(u, x) /\ (Restamped(u, x)' <=> Restamped(u, x))
    BY Zenon DEF OwnerInv, Restamped, handles
  <2>2. x = r => ~settled
    BY <1>2, <2>1 DEF OwnerOK, is_txn_id
  <2>3. versions'[x] = <<>> <=> versions[x] = <<>>
    BY <1>3, <1>8, <2>2, Zenon
  <2> QED
    BY <2>1, <2>3, <1>3, Zenon DEF OwnerOK, clocks, handles, history
<1>12. StampInv'
  <2> SUFFICES ASSUME NEW x \in Rid PROVE StampOK(x)'
    BY Zenon DEF StampInv
  <2>1. StampOK(x)
    BY Zenon DEF StampInv
  <2>2. \A i \in DOMAIN versions'[x] : i \in DOMAIN versions[x] /\ versions'[x][i] = versions[x][i]
    BY <1>3, <1>8, Zenon
  <2>3. versions[x] = <<>> => versions'[x] = <<>>
    BY <1>3, <1>8, Zenon
  <2> QED
    BY <2>1, <2>2, <2>3, <1>3, <1>7 DEF StampOK, clocks, handles
<1>13. RunningInv'
  BY <1>7, FrameRunning, Zenon DEF clocks, handles
<1>14. GcInv'
  BY <1>6, <1>7, Zenon DEF GcInv, WatermarkBelowReaders, handles, clocks
<1>15. HistoryInv'
  <2> SUFFICES ASSUME NEW x \in Rid, NEW k \in Timestamp, Needed(k)
               PROVE  Lookup(x, k)' = Lookup(x, k)
    BY <1>7, Zenon DEF HistoryInv, Needed, clocks, handles, history
  <2>1. w <= k /\ k \in Nat
    BY <1>2, Zenon DEF Needed, Timestamp
  <2>2. CASE x # r
    BY <2>2, <1>3 DEF Lookup
  <2>3. CASE x = r
    BY <2>1, <2>3, <1>2, <1>3, <1>8 DEF Lookup
  <2> QED
    BY <2>2, <2>3, Zenon
<1> QED
  BY <1>9, <1>10, <1>11, <1>12, <1>13, <1>14, <1>15, Zenon
================================================================================
