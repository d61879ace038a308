------------------------------ MODULE MvccProofs -------------------------------
(***************************************************************************)
(* The theorems about Mvcc: for any number of transactions, rows, commits, *)
(* collectors and storage errors, as long as undoing a failed commit does not*)
(* fail itself, reads are snapshot reads and rollback is always ready.     *)
(***************************************************************************)
EXTENDS MvccSteps

(* Transaction t puts version new into slot r, and the chain of r afterwards *)
(* shows every reader what the row showed it before.                        *)
WritesSlot(t, r, new) ==
    /\ InStatement(t)
    /\ heap' = [heap EXCEPT ![r] = new]
    /\ slots' = slots \cup {r}
    /\ write_set' = [write_set EXCEPT ![t] = @ \cup {r}]
    /\ Wrote(t, r, Live(new))
    /\ versions' \in [Rid -> Seq(TupleMeta)]
    /\ pushed_undo' \in [TxnId -> SUBSET Rid]
    /\ \A x \in Rid \ {r} : versions'[x] = versions[x]
    /\ \A i \in DOMAIN versions'[r] :
         versions'[r][i].ts \in Timestamp /\ versions'[r][i].ts <= last_commit_ts
    /\ \A u \in TxnId : \A x \in Rid :
         u # t \/ x # r => (x \in pushed_undo'[u] <=> x \in pushed_undo[u])
    /\ r \in pushed_undo'[t] <=> versions'[r] # <<>>
    /\ \A u \in TxnId \ {t} : Active(u) => r \notin write_set[u]
    /\ \A k \in Timestamp : k <= last_commit_ts => ChainRead(versions'[r], k) = Lookup(r, k)
    /\ UNCHANGED <<clocks, commit_latch, running, state, read_ts, pc, todo, gc, failures,
                   hist, wrote>>

(* Publishing makes the stamped slots, and nothing else, the new commit. *)
LEMMA PublishInv == ASSUME IInv, NEW t \in TxnId, publish(t) PROVE IInv'
<1> USE Ids, ConstantsAssumption DEF IInv, publish
<1>0. /\ pc[t] = "stamp" /\ pc'[t] = "published" /\ todo[t] = {}
      /\ \A u \in TxnId \ {t} : pc'[u] = pc[u] /\ state'[u] = state[u]
      /\ pc' \in [TxnId -> OutcomePc]
      /\ state' \in [TxnId -> TxnState] /\ state'[t] = "Committed"
  BY DEF OutcomePc, TypeOK, TxnState
<1>1. /\ state[t] = "Running" /\ last_commit_ts \in Nat /\ last_commit_ts < MaxCommitTs
      /\ last_commit_ts' = last_commit_ts + 1 /\ last_commit_ts' \in Timestamp
      /\ last_commit_ts \in Timestamp
      /\ write_set[t] = DOMAIN buffer[t] /\ commit_latch = {t}
      /\ \A u \in TxnId \ {t} : pc[u] = "idle"
  <2>1. HandleOK(t) /\ last_commit_ts \in Timestamp
    BY Zenon DEF HandlesInv, TypeOK
  <2>2. state[t] = "Running" /\ last_commit_ts < MaxCommitTs /\ write_set[t] = DOMAIN buffer[t]
    BY <1>0, <2>1, Zenon DEF HandleOK
  <2>3. last_commit_ts' = last_commit_ts + 1 /\ last_commit_ts' \in Timestamp /\ last_commit_ts \in Nat
    BY <2>1, <2>2 DEF Timestamp, commit_ts
  <2>4. commit_latch = {t} /\ \A u \in TxnId \ {t} : pc[u] = "idle"
    BY <1>0, OthersIdle, Zenon
  <2> QED
    BY <2>1, <2>2, <2>3, <2>4, Zenon
<1>2. /\ \A u \in TxnId : Registered(u)' <=> Registered(u)
      /\ \A u \in TxnId \ {t} : Active(u)' <=> Active(u)
      /\ Active(t) /\ ~Active(t)'
  BY <1>0, <1>1, Zenon DEF Registered, Active
<1>3. /\ buffer[t] \in [write_set[t] -> SUBSET Data]
      /\ write_set[t] \in SUBSET Rid
  <2>1. PICK S \in SUBSET Rid : buffer[t] \in [S -> SUBSET Data]
    BY DEF TypeOK, WriteBuffer
  <2> QED
    BY <1>1, <2>1
<1>4. TypeOK'
  <2>1. hist' \in [Timestamp -> [Rid -> SUBSET Data]]
    <3> DEFINE row == [r \in Rid |-> IF r \in DOMAIN buffer[t] THEN buffer[t][r]
                                     ELSE hist[last_commit_ts][r]]
    <3>1. row \in [Rid -> SUBSET Data]
      BY <1>1, <1>3 DEF TypeOK
    <3>2. hist' = [hist EXCEPT ![commit_ts] = row] /\ hist \in [Timestamp -> [Rid -> SUBSET Data]]
      BY Zenon DEF TypeOK
    <3> HIDE DEF row
    <3> QED
      BY <3>1, <3>2, Zenon
  <2>2. wrote' \in [Timestamp -> SUBSET Rid]
    BY <1>1, <1>3, Zenon DEF TypeOK
  <2> QED
    BY <1>0, <1>1, <2>1, <2>2, Zenon DEF TypeOK, rows
<1>5. HandlesInv'
  <2> SUFFICES ASSUME NEW u \in TxnId PROVE HandleOK(u)'
    BY Zenon DEF HandlesInv
  <2>1. HandleOK(u)
    BY Zenon DEF HandlesInv
  <2> QED
    BY <1>0, <1>1, <2>1, Zenon DEF HandleOK
<1>6. OwnerInv'
  <2> SUFFICES ASSUME NEW u \in TxnId \ {t}, NEW r \in Rid PROVE OwnerOK(u, r)'
    BY <1>2 DEF OwnerInv, OwnerOK
  <2>1. OwnerOK(u, r) /\ ~Restamped(u, r) /\ ~Restamped(u, r)'
    BY <1>0, <1>1, Zenon DEF OwnerInv, Restamped
  <2> QED
    BY <1>0, <1>2, <2>1, Zenon DEF OwnerOK, rows
<1>7. \A r \in write_set[t] : heap[r].ts = last_commit_ts + 1 /\ Live(heap[r]) = buffer[t][r]
  BY <1>0, <1>1, <1>2, <1>3 DEF OwnerInv, OwnerOK, Restamped
<1>8. StampInv'
  <2> SUFFICES ASSUME NEW r \in Rid PROVE StampOK(r)'
    BY Zenon DEF StampInv
  <2>1. StampOK(r) /\ heap[r] \in TupleMeta /\ heap[r].ts \in Nat
    BY Zenon DEF StampInv, TypeOK, TupleMeta
  <2>2. r \in write_set[t] => heap[r].ts # t
    BY <1>1, <1>7 DEF Timestamp
  <2>3. \A i \in DOMAIN versions[r] : versions[r][i].ts \in Nat
    BY Zenon DEF TypeOK, Timestamp
  <2> QED
    BY <1>0, <1>1, <1>2, <2>1, <2>2, <2>3 DEF StampOK, rows
<1>9. RunningInv'
  <2>1. \A k : Readers(k)' = Readers(k)
    BY <1>2, Zenon DEF Readers
  <2>2. \A u \in TxnId : Registered(u)' => read_ts'[u] <= last_commit_ts'
    <3> HIDE DEF publish
    <3> SUFFICES ASSUME NEW u \in TxnId, Registered(u)
                 PROVE  read_ts[u] <= last_commit_ts + 1
      BY <1>1, <1>2 DEF publish
    <3>1. read_ts[u] <= last_commit_ts
      BY DEF RunningInv
    <3> QED
      BY <1>1, <3>1, Typed
  <2> QED
    BY <2>1, <2>2, Zenon DEF RunningInv
<1>10. GcInv'
  <2>1. \A h \in Collector : gc[h].watermark \in Nat
    BY DEF TypeOK, GcState, Timestamp
  <2>2. \A h \in Collector : gc[h].pc # "idle" => gc[h].watermark <= last_commit_ts + 1
    BY <1>1, <2>1 DEF GcInv
  <2> QED
    BY <1>1, <1>2, <2>2 DEF GcInv, WatermarkBelowReaders
<1>11. HistoryInv'
  <2> SUFFICES ASSUME NEW r \in Rid, NEW k \in Timestamp, Needed(k)'
               PROVE  Lookup(r, k)' = hist'[k][r]
    BY Zenon DEF HistoryInv
  <2>0. Lookup(r, k)' = Lookup(r, k) /\ heap[r] \in TupleMeta /\ heap[r].ts \in Nat
    BY Zenon DEF Lookup, rows, TypeOK, TupleMeta
  <2>1. CASE k # last_commit_ts + 1
    <3>1. Needed(k)
      BY <1>1, <1>2, <2>1, Zenon DEF Needed
    <3>2. hist'[k] = hist[k]
      BY <2>1, Zenon DEF TypeOK, commit_ts
    <3> QED
      BY <2>0, <3>1, <3>2, Zenon DEF HistoryInv
  <2>2. CASE k = last_commit_ts + 1
    <3>1. hist'[k][r] = IF r \in write_set[t] THEN buffer[t][r] ELSE hist[last_commit_ts][r]
      BY <1>1, <2>2, Zenon DEF TypeOK, commit_ts
    <3>2. CASE r \in write_set[t]
      <4>1. heap[r].ts <= k /\ Live(heap[r]) = buffer[t][r]
        BY <1>1, <1>7, <2>2, <3>2
      <4> QED
        BY <2>0, <3>1, <3>2, <4>1 DEF Lookup
    <3>3. CASE r \notin write_set[t]
      <4>1. Lookup(r, last_commit_ts) = hist[last_commit_ts][r]
        BY <1>1, Zenon DEF HistoryInv, Needed
      <4>2. heap[r].ts <= last_commit_ts \/ heap[r].ts >= TXN_START_ID
        <5>1. StampOK(r) /\ \A u \in TxnId : pc[u] \in {"stamp", "unstamp"} => u = t
          BY <1>1, Zenon DEF StampInv
        <5> QED
          BY <1>1, <2>0, <3>3, <5>1 DEF StampOK
      <4>3. ChainRead(versions[r], last_commit_ts) = ChainRead(versions[r], k)
        <5>1. /\ \A i \in DOMAIN versions[r] : versions[r][i].ts <= last_commit_ts
              /\ versions[r] \in Seq(TupleMeta)
          BY Zenon DEF StampInv, StampOK, TypeOK
        <5> QED
          <6>1. k \in Nat /\ last_commit_ts <= k
            BY <1>1, <2>2
          <6> HIDE DEF publish, IInv
          <6> QED
            BY <5>1, <1>1, <6>1, ChainReadSettled
      <4>4. heap[r].ts <= last_commit_ts <=> heap[r].ts <= k
        BY <1>1, <2>0, <2>2, <4>2
      <4>5. Lookup(r, k) = Lookup(r, last_commit_ts)
        BY <4>3, <4>4, Zenon DEF Lookup
      <4> QED
        BY <2>0, <3>1, <3>3, <4>1, <4>5, Zenon
    <3> QED
      BY <3>2, <3>3, Zenon
  <2> QED
    BY <2>1, <2>2, Zenon
<1> QED
  BY <1>4, <1>5, <1>6, <1>8, <1>9, <1>10, <1>11, Zenon

(* What a transaction that writes a row records about it. *)
LEMMA WroteBuffer ==
    ASSUME IInv, NEW t \in TxnId, NEW r \in Rid, NEW c \in SUBSET Data, Wrote(t, r, c)
    PROVE  /\ buffer' \in [TxnId -> WriteBuffer]
           /\ DOMAIN buffer'[t] = DOMAIN buffer[t] \cup {r}
           /\ buffer'[t][r] = c
           /\ \A x \in DOMAIN buffer[t] \ {r} : buffer'[t][x] = buffer[t][x]
           /\ \A u \in TxnId \ {t} : buffer'[u] = buffer[u]
<1> DEFINE b == [x \in DOMAIN buffer[t] \cup {r} |-> IF x = r THEN c ELSE buffer[t][x]]
<1>1. PICK S \in SUBSET Rid : buffer[t] \in [S -> SUBSET Data]
  BY DEF IInv, TypeOK, WriteBuffer
<1>2. DOMAIN b = S \cup {r} /\ b \in [S \cup {r} -> SUBSET Data] /\ S \cup {r} \in SUBSET Rid
  BY <1>1, Zenon
<1>3. b \in WriteBuffer
  BY <1>2 DEF WriteBuffer
<1>4. b[r] = c /\ \A x \in DOMAIN buffer[t] \ {r} : b[x] = buffer[t][x]
  BY Zenon
<1>5. DOMAIN b = DOMAIN buffer[t] \cup {r}
  BY Zenon
<1>6. buffer' = [buffer EXCEPT ![t] = b] /\ buffer \in [TxnId -> WriteBuffer]
  BY Zenon DEF Wrote, IInv, TypeOK
<1> HIDE DEF b
<1> QED
  BY <1>3, <1>4, <1>5, <1>6, Zenon

(* Writing a slot: the new version carries the writer's id, and what other *)
(* readers find in the row stays what it was.                              *)
LEMMA WriteInv ==
    ASSUME IInv, NEW t \in TxnId, NEW r \in Rid, NEW new \in TupleMeta, new.ts = t,
           WritesSlot(t, r, new)
    PROVE  IInv'
<1> USE Ids, ConstantsAssumption DEF IInv
<1>0. state[t] = "Running" /\ pc[t] = "idle" /\ Active(t)
  BY Zenon DEF WritesSlot, InStatement, Active
<1>01. /\ next_txn_id' = next_txn_id /\ last_commit_ts' = last_commit_ts
       /\ commit_latch' = commit_latch /\ running' = running /\ state' = state
       /\ read_ts' = read_ts /\ pc' = pc /\ todo' = todo /\ gc' = gc /\ failures' = failures
       /\ hist' = hist /\ wrote' = wrote /\ slots' = slots \cup {r}
  BY Zenon DEF WritesSlot, clocks
<1>02. /\ versions' \in [Rid -> Seq(TupleMeta)] /\ pushed_undo' \in [TxnId -> SUBSET Rid]
       /\ \A x \in Rid \ {r} : versions'[x] = versions[x]
       /\ \A i \in DOMAIN versions'[r] :
             versions'[r][i].ts \in Timestamp /\ versions'[r][i].ts <= last_commit_ts
       /\ \A u \in TxnId : \A x \in Rid :
             u # t \/ x # r => (x \in pushed_undo'[u] <=> x \in pushed_undo[u])
       /\ r \in pushed_undo'[t] <=> versions'[r] # <<>>
  BY Zenon DEF WritesSlot
<1>03. \A u \in TxnId \ {t} : Active(u) => r \notin write_set[u]
  BY Zenon DEF WritesSlot
<1>04. \A k \in Timestamp : k <= last_commit_ts => ChainRead(versions'[r], k) = Lookup(r, k)
  BY Zenon DEF WritesSlot
<1>1. /\ heap' \in [Rid -> TupleMeta] /\ heap'[r] = new /\ \A x \in Rid \ {r} : heap'[x] = heap[x]
  BY Zenon DEF TypeOK, WritesSlot
<1>2. /\ write_set' \in [TxnId -> SUBSET Rid] /\ write_set'[t] = write_set[t] \cup {r}
      /\ \A u \in TxnId \ {t} : write_set'[u] = write_set[u]
  <2>1. /\ write_set' = [write_set EXCEPT ![t] = @ \cup {r}]
        /\ write_set \in [TxnId -> SUBSET Rid]
    BY Zenon DEF WritesSlot, TypeOK
  <2> QED
    BY <2>1
<1>3. Live(new) \in SUBSET Data
  BY Zenon DEF Live, TupleMeta
<1>4. /\ buffer' \in [TxnId -> WriteBuffer]
      /\ DOMAIN buffer'[t] = DOMAIN buffer[t] \cup {r}
      /\ buffer'[t][r] = Live(new)
      /\ \A x \in DOMAIN buffer[t] \ {r} : buffer'[t][x] = buffer[t][x]
      /\ \A u \in TxnId \ {t} : buffer'[u] = buffer[u]
  <2>1. Wrote(t, r, Live(new))
    BY Zenon DEF WritesSlot
  <2> HIDE DEF IInv
  <2> QED
    BY <1>3, <2>1, WroteBuffer
<1>5. \A u \in TxnId : (Active(u)' <=> Active(u)) /\ (Registered(u)' <=> Registered(u))
  BY <1>01, Zenon DEF Active, Registered
<1>6. TypeOK'
  <2>1. \A x \in Rid : \A i \in DOMAIN versions'[x] : versions'[x][i].ts \in Timestamp
    BY <1>02, Zenon DEF TypeOK
  <2>2. \A u \in TxnId : pushed_undo'[u] \subseteq write_set'[u]
    <3> SUFFICES ASSUME NEW u \in TxnId, NEW x \in pushed_undo'[u] PROVE x \in write_set'[u]
      BY Zenon
    <3>1. x \in Rid
      BY <1>02, Zenon
    <3>2. CASE u = t /\ x = r
      BY <3>2, <1>2, Zenon
    <3>3. CASE ~(u = t /\ x = r)
      <4>1. x \in pushed_undo[u]
        BY <1>02, <3>1, <3>3, Zenon
      <4>2. x \in write_set[u]
        BY <4>1, Zenon DEF TypeOK
      <4> QED
        BY <4>2, <1>2, Zenon
    <3> QED
      BY <3>2, <3>3, Zenon
  <2>3. slots' \in SUBSET Rid
    BY <1>01, Zenon DEF TypeOK
  <2> QED
    BY <1>01, <1>02, <1>1, <1>2, <1>4, <2>1, <2>2, <2>3, Zenon DEF TypeOK
<1>7. HandlesInv'
  <2> SUFFICES ASSUME NEW u \in TxnId PROVE HandleOK(u)'
    BY Zenon DEF HandlesInv
  <2>1. HandleOK(u)
    BY Zenon DEF HandlesInv
  <2>2. CASE u = t
    BY <1>0, <1>01, <1>2, <1>4, <2>1, <2>2, Zenon DEF HandleOK
  <2>3. CASE u # t
    BY <1>01, <1>2, <1>4, <2>1, <2>3, Zenon DEF HandleOK
  <2> QED
    BY <2>2, <2>3, Zenon
<1>8. OwnerInv'
  <2> SUFFICES ASSUME NEW u \in TxnId, NEW x \in Rid, Active(u), x \in write_set'[u]
               PROVE  OwnerOK(u, x)'
    BY <1>5 DEF OwnerInv, OwnerOK
  <2>1. OwnerOK(u, x) /\ (Restamped(u, x)' <=> Restamped(u, x)) /\ HandleOK(u)
    BY <1>01, Zenon DEF OwnerInv, Restamped, HandlesInv
  <2>2. CASE x = r
    <3>1. u = t
      BY <1>03, <1>2, <2>2, Zenon
    <3>2. ~Restamped(t, r)
      BY <1>0, Zenon DEF Restamped
    <3> QED
      BY <1>02, <3>1, <3>2, <1>1, <1>4, <2>1, <2>2, Zenon DEF OwnerOK
  <2>3. CASE x # r
    <3>1. x \in write_set[u] /\ (x \in pushed_undo'[u] <=> x \in pushed_undo[u])
      BY <1>02, <1>2, <2>3, Zenon
    <3>2. state[u] = "Running" => buffer'[u][x] = buffer[u][x]
      <4>1. CASE u = t
        BY <1>0, <1>4, <2>1, <2>3, <3>1, <4>1, Zenon DEF HandleOK
      <4>2. CASE u # t
        BY <1>4, <4>2, Zenon
      <4> QED
        BY <4>1, <4>2, Zenon
    <3> QED
      BY <1>01, <1>02, <3>1, <3>2, <1>1, <2>1, <2>3, Zenon DEF OwnerOK
  <2> QED
    BY <2>2, <2>3, Zenon
<1>9. StampInv'
  <2> SUFFICES ASSUME NEW x \in Rid PROVE StampOK(x)'
    BY Zenon DEF StampInv
  <2>1. StampOK(x)
    BY Zenon DEF StampInv
  <2>2. CASE x = r
    <3>1. heap'[r].ts = t /\ Active(t)' /\ r \in write_set'[t] /\ r \in slots' /\ t >= TXN_START_ID
          /\ ~(t < TXN_START_ID)
      BY <1>0, <1>01, <1>1, <1>2, <1>5
    <3> QED
      BY <1>01, <1>02, <2>2, <3>1, Zenon DEF StampOK
  <2>3. CASE x # r
    <3>1. \A u \in TxnId : x \in write_set'[u] <=> x \in write_set[u]
      BY <1>2, <2>3, Zenon
    <3>2. heap'[x] = heap[x] /\ versions'[x] = versions[x] /\ (x \notin slots' => x \notin slots)
      BY <1>01, <1>02, <1>1, <2>3, Zenon
    <3> QED
      BY <1>01, <1>5, <2>1, <2>3, <3>1, <3>2 DEF StampOK
  <2> QED
    BY <2>2, <2>3, Zenon
<1>10. RunningInv' /\ GcInv'
  BY <1>01, <1>5, FrameRunning, FrameGc, Zenon
<1>11. HistoryInv'
  <2> SUFFICES ASSUME NEW x \in Rid, NEW k \in Timestamp, Needed(k)
               PROVE  Lookup(x, k)' = Lookup(x, k)
    BY <1>01, <1>5, Zenon DEF HistoryInv, Needed
  <2>1. CASE x # r
    BY <1>02, <1>1, <2>1, Zenon DEF Lookup
  <2>2. CASE x = r
    <3>1. k <= last_commit_ts /\ k < TXN_START_ID
      BY Typed DEF Needed, RunningInv
    <3>2. ~(heap'[r].ts <= k)
      BY <1>1, <3>1
    <3> QED
      BY <1>04, <2>2, <3>1, <3>2, Zenon DEF Lookup
  <2> QED
    BY <2>1, <2>2, Zenon
<1> QED
  BY <1>6, <1>7, <1>8, <1>9, <1>10, <1>11, Zenon

(* insert_tuple: the new slot showed no row, and shows none to others. *)
LEMMA InsertInv == ASSUME IInv, NEW t \in TxnId, NEW r \in Rid, insert_tuple(t, r) PROVE IInv'
<1> USE Ids, ConstantsAssumption DEF IInv, insert_tuple
<1> DEFINE new == [ts |-> t, is_deleted |-> FALSE, data |-> t]
<1>1. new \in TupleMeta /\ new.ts = t /\ Live(new) = {t} /\ heap' = [heap EXCEPT ![r] = new]
  BY Zenon DEF TupleMeta, Data, Live
<1>2. heap[r].ts = 0 /\ heap[r].is_deleted /\ versions[r] = <<>>
  BY Zenon DEF StampInv, StampOK
<1>3. \A u \in TxnId : Active(u) => r \notin write_set[u]
  <2>1. \A u \in TxnId : OwnerOK(u, r) /\ u > 0
    BY DEF OwnerInv
  <2>2. last_commit_ts + 1 # 0
    <3> HIDE DEF IInv, insert_tuple
    <3> QED
      BY Typed
  <2> QED
    BY <1>2, <2>1, <2>2 DEF OwnerOK
<1>4. r \notin pushed_undo[t]
  BY <1>3, Zenon DEF TypeOK, InStatement, Active
<1>5. \A k \in Timestamp : ChainRead(versions[r], k) = Lookup(r, k)
  BY <1>2, ChainReadEmpty, Zenon DEF Lookup, Live, Timestamp
<1>6. /\ versions \in [Rid -> Seq(TupleMeta)] /\ pushed_undo \in [TxnId -> SUBSET Rid]
      /\ DOMAIN versions[r] = {}
  BY <1>2 DEF TypeOK
<1>7. versions' = versions /\ pushed_undo' = pushed_undo /\ Wrote(t, r, Live(new))
  BY <1>1, Zenon
<1> HIDE DEF new
<1>8. \A i \in DOMAIN versions'[r] :
         versions'[r][i].ts \in Timestamp /\ versions'[r][i].ts <= last_commit_ts
  BY <1>6, <1>7, Zenon
<1>9. /\ InStatement(t) /\ slots' = slots \cup {r}
      /\ write_set' = [write_set EXCEPT ![t] = @ \cup {r}]
      /\ UNCHANGED <<clocks, commit_latch, running, state, read_ts, pc, todo, gc, failures,
                     hist, wrote>>
  BY Zenon
<1>10. /\ versions' \in [Rid -> Seq(TupleMeta)] /\ pushed_undo' \in [TxnId -> SUBSET Rid]
       /\ \A x \in Rid \ {r} : versions'[x] = versions[x]
       /\ \A u \in TxnId : \A x \in Rid :
             u # t \/ x # r => (x \in pushed_undo'[u] <=> x \in pushed_undo[u])
       /\ r \in pushed_undo'[t] <=> versions'[r] # <<>>
       /\ \A k \in Timestamp : k <= last_commit_ts => ChainRead(versions'[r], k) = Lookup(r, k)
  BY <1>2, <1>4, <1>5, <1>6, <1>7, Zenon
<1> HIDE DEF IInv, insert_tuple
<1>11. WritesSlot(t, r, new)
  BY <1>1, <1>3, <1>7, <1>8, <1>9, <1>10, Zenon DEF WritesSlot
<1> QED
  BY <1>1, <1>11, WriteInv

(* write_version: the pushed version takes the place of the slot for readers. *)
LEMMA WriteVersionInv ==
    ASSUME IInv, NEW t \in TxnId, NEW r \in Rid, NEW new \in TupleMeta, new.ts = t,
           write_version(t, r, new)
    PROVE  IInv'
<1> USE Ids, ConstantsAssumption DEF IInv, write_version
<1>1. /\ state[t] = "Running" /\ pc[t] = "idle" /\ Active(t) /\ Registered(t)
      /\ heap[r] \in TupleMeta /\ heap[r].ts \in Nat /\ versions[r] \in Seq(TupleMeta)
      /\ last_commit_ts \in Nat /\ read_ts[t] \in Nat /\ read_ts[t] <= last_commit_ts
      /\ StampOK(r)
  BY Zenon DEF InStatement, Active, Registered, TypeOK, TupleMeta, Timestamp, RunningInv, StampInv
<1>2. r \in slots /\ slots' = slots \cup {r}
  BY <1>1, Zenon DEF StampOK
<1>3. CASE heap[r].ts = t
  <2>1. r \in write_set[t] /\ OwnerOK(t, r) /\ ~Restamped(t, r)
    BY <1>1, <1>3, Zenon DEF StampOK, OwnerInv, Restamped
  <2>2. \A u \in TxnId \ {t} : Active(u) => r \notin write_set[u]
    BY <1>1, <2>1, OneWriter, Zenon
  <2>3. \A k \in Timestamp : ChainRead(versions[r], k) = Lookup(r, k)
    BY <1>3 DEF Lookup, Timestamp
  <2>4. /\ versions' = versions /\ pushed_undo' = pushed_undo
        /\ versions \in [Rid -> Seq(TupleMeta)] /\ pushed_undo \in [TxnId -> SUBSET Rid]
        /\ r \in pushed_undo[t] <=> versions[r] # <<>>
        /\ \A i \in DOMAIN versions[r] :
              versions[r][i].ts \in Timestamp /\ versions[r][i].ts <= last_commit_ts
    BY <1>1, <1>3, <2>1, Zenon DEF OwnerOK, TypeOK, StampOK
  <2>5. WritesSlot(t, r, new)
    BY <1>2, <2>2, <2>3, <2>4, Zenon DEF WritesSlot
  <2> QED
    BY <2>5, WriteInv
<1>4. CASE heap[r].ts # t
  <2>1. heap[r].ts < TXN_START_ID /\ heap[r].ts <= read_ts[t] /\ heap[r].ts <= last_commit_ts
    BY <1>1, <1>4 DEF WriteConflicts, is_txn_id
  <2>2. \A u \in TxnId : Active(u) => r \notin write_set[u]
    BY <1>1, <2>1 DEF OwnerInv, OwnerOK
  <2> DEFINE chain == <<heap[r]>> \o versions[r]
  <2>3. /\ chain \in Seq(TupleMeta) /\ chain # <<>>
        /\ \A k \in Nat : ChainRead(chain, k) = Lookup(r, k)
    BY <1>1, ChainReadPush, Zenon DEF Lookup
  <2>4. \A i \in DOMAIN chain : chain[i].ts \in Timestamp /\ chain[i].ts <= last_commit_ts
    <3>1. \A i \in DOMAIN chain : chain[i] = heap[r] \/ \E j \in DOMAIN versions[r] : chain[i] = versions[r][j]
      <4> SUFFICES ASSUME NEW i \in DOMAIN chain, i # 1
                   PROVE  \E j \in DOMAIN versions[r] : chain[i] = versions[r][j]
        BY <1>1
      <4>1. i - 1 \in DOMAIN versions[r] /\ chain[i] = versions[r][i - 1]
        BY <1>1
      <4> QED
        BY <4>1, Zenon
    <3>2. \A j \in DOMAIN versions[r] :
             versions[r][j].ts \in Timestamp /\ versions[r][j].ts <= last_commit_ts
      BY <1>1, Zenon DEF StampOK, TypeOK
    <3>3. heap[r].ts \in Timestamp
      BY <1>1, <2>1 DEF TypeOK, Timestamp
    <3> HIDE DEF chain
    <3> QED
      BY <2>1, <3>1, <3>2, <3>3, Zenon
  <2>5. /\ versions' = [versions EXCEPT ![r] = chain]
        /\ pushed_undo' = [pushed_undo EXCEPT ![t] = @ \cup {r}]
    BY <1>4, Zenon
  <2> HIDE DEF chain
  <2>6. /\ versions' \in [Rid -> Seq(TupleMeta)] /\ versions'[r] = chain
        /\ \A x \in Rid \ {r} : versions'[x] = versions[x]
    BY <2>3, <2>5, Zenon DEF TypeOK
  <2>7. /\ pushed_undo' \in [TxnId -> SUBSET Rid] /\ r \in pushed_undo'[t]
        /\ \A u \in TxnId : \A x \in Rid :
              u # t \/ x # r => (x \in pushed_undo'[u] <=> x \in pushed_undo[u])
    BY <2>5, Zenon DEF TypeOK
  <2>8. \A k \in Timestamp : ChainRead(chain, k) = Lookup(r, k)
    BY <2>3, Zenon DEF Timestamp
  <2>9. /\ \A i \in DOMAIN versions'[r] :
              versions'[r][i].ts \in Timestamp /\ versions'[r][i].ts <= last_commit_ts
        /\ \A k \in Timestamp : k <= last_commit_ts => ChainRead(versions'[r], k) = Lookup(r, k)
        /\ r \in pushed_undo'[t] <=> versions'[r] # <<>>
    BY <2>3, <2>4, <2>6, <2>7, <2>8, Zenon
  <2>10. /\ InStatement(t) /\ heap' = [heap EXCEPT ![r] = new] /\ Wrote(t, r, Live(new))
         /\ write_set' = [write_set EXCEPT ![t] = @ \cup {r}]
         /\ UNCHANGED <<clocks, commit_latch, running, state, read_ts, pc, todo, gc, failures,
                        hist, wrote>>
    BY Zenon
  <2> HIDE DEF IInv, write_version
  <2>11. WritesSlot(t, r, new)
    BY <1>2, <2>2, <2>6, <2>7, <2>9, <2>10, Zenon DEF WritesSlot
  <2> QED
    BY <2>11, WriteInv
<1> QED
  BY <1>3, <1>4, Zenon

(* update_tuple and delete_tuple write a version. *)
LEMMA UpdateDeleteInv ==
    ASSUME IInv, NEW t \in TxnId, NEW r \in Rid, update_tuple(t, r) \/ delete_tuple(t, r)
    PROVE  IInv'
<1>1. heap[r] \in TupleMeta
  BY Zenon DEF IInv, TypeOK
<1>2. /\ [ts |-> t, is_deleted |-> FALSE, data |-> t] \in TupleMeta
      /\ [ts |-> t, is_deleted |-> TRUE, data |-> heap[r].data] \in TupleMeta
  BY <1>1, Ids, Zenon DEF TupleMeta, Data
<1>3. CASE update_tuple(t, r)
  <2> DEFINE new == [ts |-> t, is_deleted |-> FALSE, data |-> t]
  <2>1. new \in TupleMeta /\ new.ts = t /\ write_version(t, r, new)
    BY <1>2, <1>3, Zenon DEF update_tuple
  <2> HIDE DEF new
  <2> QED
    BY <2>1, WriteVersionInv, Zenon
<1>4. CASE delete_tuple(t, r)
  <2> DEFINE new == [ts |-> t, is_deleted |-> TRUE, data |-> heap[r].data]
  <2>1. new \in TupleMeta /\ new.ts = t /\ write_version(t, r, new)
    BY <1>2, <1>4, Zenon DEF delete_tuple
  <2> HIDE DEF new
  <2> QED
    BY <2>1, WriteVersionInv, Zenon
<1> QED
  BY <1>3, <1>4, Zenon

(* Rolling a slot back gives readers the version they were reading. *)
LEMMA RollBackInv == ASSUME IInv, NEW t \in TxnId, NEW r \in Rid, roll_back(t, r) PROVE IInv'
<1> USE Ids, ConstantsAssumption DEF IInv, roll_back, restore, forget_write
<1>1. /\ state[t] = "Tainted" /\ pc[t] = "rollback" /\ Active(t) /\ heap[r].ts = t
      /\ r \in write_set[t] /\ OwnerOK(t, r) /\ StampOK(r)
      /\ heap[r] \in TupleMeta /\ versions[r] \in Seq(TupleMeta) /\ last_commit_ts \in Nat
      /\ r \in pushed_undo[t] <=> versions[r] # <<>>
  BY DEF HandlesInv, HandleOK, Active, OwnerInv, OwnerOK, StampInv, TypeOK, CanRollBack, Timestamp
<1>2. /\ heap'[r] \in TupleMeta /\ heap' = [heap EXCEPT ![r] = heap'[r]]
      /\ heap'[r].ts \in Timestamp /\ heap'[r].ts <= last_commit_ts
      /\ versions'[r] \in Seq(TupleMeta) /\ versions' = [versions EXCEPT ![r] = versions'[r]]
      /\ \A i \in DOMAIN versions'[r] :
            versions'[r][i].ts \in Timestamp /\ versions'[r][i].ts <= last_commit_ts
      /\ \A k \in Timestamp : Lookup(r, k)' = ChainRead(versions[r], k)
  <2>0. /\ heap \in [Rid -> TupleMeta] /\ versions \in [Rid -> Seq(TupleMeta)]
        /\ \A i \in DOMAIN versions[r] :
              versions[r][i].ts \in Timestamp /\ versions[r][i].ts <= last_commit_ts
    BY <1>1, Zenon DEF TypeOK, StampOK
  <2>1. CASE r \in pushed_undo[t]
    <3>1. /\ heap'[r] = Head(versions[r]) /\ versions'[r] = Tail(versions[r])
          /\ heap' = [heap EXCEPT ![r] = heap'[r]] /\ versions' = [versions EXCEPT ![r] = versions'[r]]
      BY <2>0, <2>1, Zenon
    <3>2. /\ Head(versions[r]) \in TupleMeta /\ Head(versions[r]) = versions[r][1]
          /\ 1 \in DOMAIN versions[r] /\ Tail(versions[r]) \in Seq(TupleMeta)
      BY <1>1, <2>1
    <3>3. \A i \in DOMAIN Tail(versions[r]) :
             i + 1 \in DOMAIN versions[r] /\ Tail(versions[r])[i] = versions[r][i + 1]
      BY <1>1, <2>1
    <3>4. \A k \in Timestamp : Lookup(r, k)' = ChainRead(versions[r], k)
      BY <1>1, <2>1, <3>1, ChainReadHead DEF Lookup, Timestamp
    <3> QED
      BY <2>0, <3>1, <3>2, <3>3, <3>4
  <2>2. CASE r \notin pushed_undo[t]
    <3> DEFINE old == [heap[r] EXCEPT !.ts = 0, !.is_deleted = TRUE]
    <3>1. /\ old \in TupleMeta /\ old.ts = 0 /\ old.is_deleted
      BY <1>1, Zenon DEF TupleMeta
    <3>2. heap' = [heap EXCEPT ![r] = old] /\ versions' = versions
      BY <2>2, Zenon
    <3> HIDE DEF old
    <3>3. /\ heap'[r] = old /\ heap' = [heap EXCEPT ![r] = heap'[r]]
          /\ versions[r] = <<>> /\ versions' = [versions EXCEPT ![r] = versions'[r]]
          /\ versions'[r] \in Seq(TupleMeta) /\ DOMAIN versions'[r] = {}
      BY <1>1, <2>0, <2>2, <3>2
    <3>4. \A k \in Timestamp : Lookup(r, k)' = ChainRead(versions[r], k)
      BY <3>1, <3>3, ChainReadEmpty DEF Lookup, Live, Timestamp
    <3>5. heap'[r].ts \in Timestamp /\ heap'[r].ts <= last_commit_ts
      BY <1>1, <3>1, <3>3 DEF Timestamp
    <3> QED
      BY <3>1, <3>3, <3>4, <3>5, Zenon
  <2> QED
    BY <2>1, <2>2, Zenon
<1>3. /\ heap' \in [Rid -> TupleMeta] /\ versions' \in [Rid -> Seq(TupleMeta)]
      /\ \A x \in Rid \ {r} : heap'[x] = heap[x] /\ versions'[x] = versions[x]
  <2> DEFINE h == heap'[r]
             c == versions'[r]
  <2>1. /\ heap' = [heap EXCEPT ![r] = h] /\ h \in TupleMeta /\ heap \in [Rid -> TupleMeta]
        /\ versions' = [versions EXCEPT ![r] = c] /\ c \in Seq(TupleMeta)
        /\ versions \in [Rid -> Seq(TupleMeta)]
    BY <1>2, Zenon DEF TypeOK
  <2> HIDE DEF h, c, roll_back, restore
  <2>2. heap' \in [Rid -> TupleMeta] /\ \A x \in Rid \ {r} : heap'[x] = heap[x]
    BY <2>1, Zenon
  <2>3. versions' \in [Rid -> Seq(TupleMeta)] /\ \A x \in Rid \ {r} : versions'[x] = versions[x]
    BY <2>1, Zenon
  <2> QED
    BY <2>2, <2>3, Zenon
<1>4. /\ write_set' \in [TxnId -> SUBSET Rid] /\ pushed_undo' \in [TxnId -> SUBSET Rid]
      /\ write_set'[t] = write_set[t] \ {r} /\ pushed_undo'[t] = pushed_undo[t] \ {r}
      /\ \A u \in TxnId \ {t} : write_set'[u] = write_set[u] /\ pushed_undo'[u] = pushed_undo[u]
  BY Zenon DEF TypeOK
<1>5. \A u \in TxnId : (Active(u)' <=> Active(u)) /\ (Registered(u)' <=> Registered(u))
  BY Zenon DEF Active, Registered
<1>6. TypeOK'
  <2>1. \A x \in Rid : \A i \in DOMAIN versions'[x] : versions'[x][i].ts \in Timestamp
    BY <1>2, <1>3, Zenon DEF TypeOK
  <2>2. \A u \in TxnId : pushed_undo'[u] \subseteq write_set'[u]
    BY <1>4, Zenon DEF TypeOK
  <2> QED
    BY <1>3, <1>4, <2>1, <2>2, Zenon DEF TypeOK, clocks, history
<1>7. HandlesInv'
  <2> SUFFICES ASSUME NEW u \in TxnId PROVE HandleOK(u)'
    BY Zenon DEF HandlesInv
  <2>1. HandleOK(u)
    BY Zenon DEF HandlesInv
  <2> QED
    BY <1>1, <1>4, <2>1, Zenon DEF HandleOK, clocks, history
<1>8. OwnerInv'
  <2> SUFFICES ASSUME NEW u \in TxnId, NEW x \in Rid, Active(u), x \in write_set'[u]
               PROVE  OwnerOK(u, x)'
    BY <1>5 DEF OwnerInv, OwnerOK
  <2>1. OwnerOK(u, x) /\ (Restamped(u, x)' <=> Restamped(u, x)) /\ x \in write_set[u]
    BY <1>4, Zenon DEF OwnerInv, Restamped
  <2>2. x # r
    BY <1>1, <1>4, <2>1, OneWriter
  <2>3. x \in pushed_undo'[u] <=> x \in pushed_undo[u]
    BY <1>4, <2>2, Zenon
  <2> QED
    BY <1>3, <2>1, <2>2, <2>3, Zenon DEF OwnerOK, clocks, history
<1>9. StampInv'
  <2> SUFFICES ASSUME NEW x \in Rid PROVE StampOK(x)'
    BY Zenon DEF StampInv
  <2>1. StampOK(x)
    BY Zenon DEF StampInv
  <2>2. CASE x = r
    <3>1. r \in slots
      BY <1>1 DEF StampOK
    <3>2. heap'[r].ts < TXN_START_ID /\ ~(heap'[r].ts >= TXN_START_ID)
      BY <1>2 DEF Timestamp
    <3> QED
      BY <1>2, <2>2, <3>1, <3>2, Zenon DEF StampOK, clocks
  <2>3. CASE x # r
    <3>1. heap'[x] = heap[x] /\ versions'[x] = versions[x]
      BY <1>3, <2>3, Zenon
    <3>2. \A u \in TxnId : x \in write_set'[u] <=> x \in write_set[u]
      BY <1>4, <2>3, Zenon
    <3> QED
      BY <1>5, <2>1, <3>1, <3>2, Zenon DEF StampOK, clocks
  <2> QED
    BY <2>2, <2>3, Zenon
<1>10. RunningInv' /\ GcInv'
  BY <1>5, FrameRunning, FrameGc, Zenon DEF clocks
<1>11. HistoryInv'
  <2> SUFFICES ASSUME NEW x \in Rid, NEW k \in Timestamp, Needed(k)
               PROVE  Lookup(x, k)' = Lookup(x, k)
    BY <1>5, Zenon DEF HistoryInv, Needed, clocks, history
  <2>1. CASE x # r
    BY <1>3, <2>1, Zenon DEF Lookup
  <2>2. CASE x = r
    <3>1. ~(heap[r].ts <= k)
      BY <1>1 DEF Timestamp
    <3> QED
      BY <1>2, <2>2, <3>1, Zenon DEF Lookup
  <2> QED
    BY <2>1, <2>2, Zenon
<1> QED
  BY <1>6, <1>7, <1>8, <1>9, <1>10, <1>11, Zenon

(* Every step preserves the invariant, one lemma above per action of Mvcc. *)
LEMMA NextInv == ASSUME ~UnstampMayFail, IInv, [Next]_vars PROVE IInv'
<1>1. CASE UNCHANGED vars
  <2> USE <1>1 DEF vars, clocks, rows, handles, history, IInv
  <2>1. TypeOK' /\ HandlesInv'
    BY Zenon DEF TypeOK, HandlesInv, HandleOK
  <2>2. OwnerInv' /\ StampInv'
    <3>1. \A u \in TxnId : (Active(u)' <=> Active(u)) /\ \A r : Restamped(u, r)' <=> Restamped(u, r)
      BY Zenon DEF Active, Restamped
    <3> QED
      BY <3>1, FrameRows
  <2>3. \A u \in TxnId : Registered(u)' <=> Registered(u)
    BY Zenon DEF Registered
  <2>4. RunningInv' /\ GcInv'
    BY <2>3, FrameRunning, FrameGc, Zenon
  <2>5. HistoryInv'
    BY <2>3, FrameHistory, Zenon DEF Needed
  <2> QED
    BY <2>1, <2>2, <2>4, <2>5, Zenon
<1>2. CASE \E t \in TxnId : TxnStep(t)
  <2>1. PICK t \in TxnId : TxnStep(t)
    BY <1>2, Zenon
  <2> QED
    BY <2>1, BeginInv, InsertInv, UpdateDeleteInv, WriteConflictInv, TaintOnErrInv,
       CommitReadOnlyInv, CommitStartInv, AbortStartInv, Zenon DEF TxnStep
<1>3. CASE \E t \in TxnId : OutcomeStep(t)
  <2>1. PICK t \in TxnId : OutcomeStep(t)
    BY <1>3, Zenon
  <2> QED
    BY <2>1, StampSlotInv, UnstampInv, RollBackInv, CommitUndoneInv, PublishInv, CommitEndInv,
       AbortEndInv, Zenon DEF OutcomeStep
<1>4. CASE \E t \in TxnId : OutcomeFails(t)
  <2>1. PICK t \in TxnId : OutcomeFails(t)
    BY <1>4, Zenon
  <2> QED
    BY <2>1, StampFailsInv, RollBackFailsInv, Zenon DEF OutcomeFails, commit_not_undone
<1>5. CASE \E g \in Collector : GcStep(g)
  <2>1. PICK g \in Collector : GcStep(g)
    BY <1>5, Zenon
  <2> QED
    BY <2>1, GcWatermarkInv, GcListInv, GcSlotInv, GcEndInv, Zenon DEF GcStep
<1>6. Next => \/ \E t \in TxnId : TxnStep(t)
              \/ \E t \in TxnId : OutcomeStep(t)
              \/ \E t \in TxnId : OutcomeFails(t)
              \/ \E g \in Collector : GcStep(g)
  BY Zenon DEF Next
<1> QED
  BY <1>1, <1>2, <1>3, <1>4, <1>5, <1>6, Zenon

(* The inductive invariant holds in every reachable state (all of         *)
(* transaction_manager.rs and mvcc.rs), as long as the undoing of a failed *)
(* commit does not fail.                                                   *)
THEOREM Invariant == ASSUME ~UnstampMayFail PROVE Spec => []IInv
<1>1. Init => IInv
  BY InitInv, Zenon
<1>2. IInv /\ [Next]_vars => IInv'
  BY NextInv, Zenon
<1> QED
  BY <1>1, <1>2, PTL DEF Spec

(* Type correctness: stamps, chains, write sets and counts keep their      *)
(* types; no running count goes below zero (transaction_manager.rs,        *)
(* unregister).                                                            *)
THEOREM TypeCorrect == ASSUME ~UnstampMayFail PROVE Spec => []TypeOK
<1>1. IInv => TypeOK
  BY Zenon DEF IInv
<1> QED
  BY <1>1, Invariant, PTL

(* Collectors stay below every snapshot in use (transaction_manager.rs,    *)
(* begin and watermark), for any number of them.                           *)
THEOREM Watermark == ASSUME ~UnstampMayFail PROVE Spec => []WatermarkBelowReaders
<1>1. IInv => WatermarkBelowReaders
  BY Zenon DEF IInv, GcInv
<1> QED
  BY <1>1, Invariant, PTL

(* Snapshot reads: what visible_version (mvcc.rs) returns is the           *)
(* transaction's own write or the row as of its snapshot.                  *)
THEOREM Isolation == ASSUME ~UnstampMayFail PROVE Spec => []SnapshotReads
<1>1. IInv => SnapshotReads
  <2> SUFFICES ASSUME IInv, NEW t \in TxnId, InStatement(t), NEW r \in Rid
               PROVE  visible_version(t, r) = IF r \in DOMAIN buffer[t] THEN buffer[t][r]
                                              ELSE hist[read_ts[t]][r]
    BY Zenon DEF SnapshotReads
  <2> USE Ids, ConstantsAssumption DEF IInv
  <2>1. /\ Active(t) /\ Registered(t) /\ DOMAIN buffer[t] = write_set[t] /\ ~Restamped(t, r)
        /\ OwnerOK(t, r) /\ StampOK(r) /\ read_ts[t] \in Timestamp /\ heap[r].ts \in Nat
        /\ state[t] = "Running"
    BY Zenon DEF InStatement, Active, Registered, HandlesInv, HandleOK, Restamped, OwnerInv, StampInv,
           TypeOK, TupleMeta
  <2>2. CASE r \in write_set[t]
    BY <2>1, <2>2, Zenon DEF OwnerOK, visible_version, sees
  <2>3. CASE r \notin write_set[t]
    <3>1. heap[r].ts # t
      BY <2>1, <2>3, Zenon DEF StampOK
    <3>2. visible_version(t, r) = Lookup(r, read_ts[t])
      BY <3>1, Zenon DEF visible_version, sees, Lookup
    <3>3. Lookup(r, read_ts[t]) = hist[read_ts[t]][r]
      BY <2>1, Zenon DEF HistoryInv, Needed
    <3> QED
      BY <2>1, <2>3, <3>2, <3>3, Zenon
  <2> QED
    BY <2>2, <2>3, Zenon
<1> QED
  BY <1>1, Invariant, PTL

(* Rollback is always ready: abort (transaction_manager.rs) finds its id   *)
(* and its undo entry in every slot, and restores the newest commit.       *)
THEOREM Rollback == ASSUME ~UnstampMayFail PROVE Spec => []RollbackReady
<1>1. IInv => RollbackReady
  <2> SUFFICES ASSUME IInv, NEW t \in TxnId, state[t] \in {"Running", "Tainted"},
                      pc[t] \in {"idle", "rollback"}, NEW r \in write_set[t]
               PROVE  /\ CanRollBack(t, r)
                      /\ hist[last_commit_ts][r] =
                           IF r \in pushed_undo[t] THEN Live(Head(versions[r])) ELSE {}
    BY Zenon DEF RollbackReady
  <2> USE Ids, ConstantsAssumption DEF IInv
  <2>0. r \in Rid /\ last_commit_ts \in Timestamp /\ last_commit_ts \in Nat
        /\ versions[r] \in Seq(TupleMeta)
    BY Zenon DEF TypeOK, Timestamp
  <2>1. heap[r].ts = t /\ (r \in pushed_undo[t] <=> versions[r] # <<>>)
    BY <2>0, Zenon DEF OwnerInv, OwnerOK, Active, Restamped
  <2>2. hist[last_commit_ts][r] = ChainRead(versions[r], last_commit_ts)
    <3>1. Lookup(r, last_commit_ts) = hist[last_commit_ts][r]
      BY <2>0, Zenon DEF HistoryInv, Needed
    <3>2. ~(heap[r].ts <= last_commit_ts)
      <4>1. last_commit_ts < TXN_START_ID /\ t >= TXN_START_ID /\ t \in Nat
        BY <2>0
      <4> QED
        BY <2>0, <2>1, <4>1
    <3> QED
      BY <3>1, <3>2, Zenon DEF Lookup
  <2>3. CASE r \in pushed_undo[t]
    <3>1. Head(versions[r]) = versions[r][1] /\ 1 \in DOMAIN versions[r]
      BY <2>0, <2>1, <2>3
    <3>2. Head(versions[r]).ts <= last_commit_ts
      BY <2>0, <3>1, Zenon DEF StampInv, StampOK
    <3> QED
      BY <2>0, <2>1, <2>2, <2>3, <3>2, ChainReadHead, Zenon DEF CanRollBack
  <2>4. CASE r \notin pushed_undo[t]
    BY <2>1, <2>2, <2>4, ChainReadEmpty, Zenon DEF CanRollBack
  <2> QED
    BY <2>3, <2>4, Zenon
<1> QED
  BY <1>1, Invariant, PTL

(* Any number of collectors leave every registered transaction its reads   *)
(* and its rollback (transaction_manager.rs, garbage_collect).             *)
THEOREM Collection == ASSUME ~UnstampMayFail PROVE Spec => CollectorsKeepWhatIsRead
<1> DEFINE keeps(t, r) ==
             /\ visible_version(t, r)' = visible_version(t, r)
             /\ r \in pushed_undo[t] /\ CanRollBack(t, r) =>
                   versions'[r] # <<>> /\ Head(versions'[r]) = Head(versions[r])
           step == \A g \in Collector, r \in Rid : gc_slot(g, r) =>
                      \A t \in TxnId : Registered(t) => keeps(t, r)
<1>1. IInv => step
  <2> SUFFICES ASSUME IInv, NEW g \in Collector, NEW r \in Rid, gc_slot(g, r),
                      NEW t \in TxnId, Registered(t)
               PROVE  keeps(t, r)
    BY Zenon
  <2> USE Ids, ConstantsAssumption DEF IInv
  <2> DEFINE w == gc[g].watermark
             settled == ~is_txn_id(heap[r].ts) /\ heap[r].ts <= w
  <2>1. /\ w \in Nat /\ heap[r].ts \in Nat /\ versions[r] \in Seq(TupleMeta)
        /\ read_ts[t] \in Nat /\ w <= read_ts[t]
    <3>1. gc[g] \in GcState /\ gc[g].pc # "idle" /\ read_ts[t] \in Timestamp
      BY DEF gc_slot, TypeOK
    <3>2. w \in Timestamp
      BY <3>1 DEF GcState
    <3>3. w <= read_ts[t]
      BY <3>1, Zenon DEF GcInv, WatermarkBelowReaders
    <3> QED
      BY <3>1, <3>2, <3>3, Typed, Zenon DEF Timestamp
  <2>2. /\ versions'[r] = IF settled THEN <<>> ELSE Cut(versions[r], w)
        /\ heap' = heap /\ read_ts' = read_ts
    BY Zenon DEF gc_slot, TypeOK, handles
  <2> HIDE DEF w
  <2>3. CASE settled
    <3>1. heap[r].ts # t /\ heap[r].ts <= read_ts[t]
      BY <2>1, <2>3 DEF is_txn_id
    <3>2. sees(t, heap[r].ts) /\ sees(t, heap[r].ts)'
      BY <2>2, <3>1, Zenon DEF sees
    <3> QED
      BY <2>2, <3>1, <3>2, Zenon DEF visible_version, CanRollBack
  <2>4. CASE ~settled
    <3>1. versions'[r] = Cut(versions[r], w)
      BY <2>2, <2>4, Zenon
    <3>2. /\ ChainRead(versions'[r], read_ts[t]) = ChainRead(versions[r], read_ts[t])
          /\ versions'[r] \in Seq(TupleMeta)
          /\ versions'[r] = <<>> <=> versions[r] = <<>>
          /\ \A i \in DOMAIN versions'[r] : versions'[r][i] = versions[r][i]
      <4>1. /\ Cut(versions[r], w) \in Seq(TupleMeta)
            /\ ChainRead(Cut(versions[r], w), read_ts[t]) = ChainRead(versions[r], read_ts[t])
            /\ Cut(versions[r], w) = <<>> <=> versions[r] = <<>>
            /\ \A i \in DOMAIN Cut(versions[r], w) :
                  i \in DOMAIN versions[r] /\ Cut(versions[r], w)[i] = versions[r][i]
        BY <2>1, ChainReadCut, Zenon
      <4> QED
        BY <3>1, <4>1, Zenon
    <3>3. visible_version(t, r)' = visible_version(t, r)
      BY <2>2, <3>2, Zenon DEF visible_version, sees
    <3>4. versions[r] # <<>> => versions'[r] # <<>> /\ Head(versions'[r]) = Head(versions[r])
      BY <2>1, <3>2
    <3> HIDE DEF settled
    <3> QED
      BY <3>3, <3>4, Zenon DEF CanRollBack
  <2> QED
    BY <2>3, <2>4, Zenon
<1> HIDE DEF step
<1>2. Spec => [][step]_vars
  BY <1>1, Invariant, PTL
<1> QED
  BY <1>2, Zenon DEF step, CollectorsKeepWhatIsRead
================================================================================
