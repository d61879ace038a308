------------------------------ MODULE MvccLemmas -------------------------------
(***************************************************************************)
(* Facts about undo chains and about the invariant of MvccInvariant: reading a*)
(* chain, who may hold a slot or the commit latch, and what a step that leaves*)
(* some of the state alone preserves.                                      *)
(***************************************************************************)
EXTENDS MvccInvariant, FiniteSetTheorems, TLAPS

(* The walk down a chain stops at its first entry or continues behind it. *)
LEMMA ChainReadHead ==
    ASSUME NEW chain \in Seq(TupleMeta), NEW k \in Nat, chain # <<>>
    PROVE  ChainRead(chain, k) = IF Head(chain).ts <= k THEN Live(Head(chain))
                                 ELSE ChainRead(Tail(chain), k)
<1> DEFINE tl == Tail(chain)
<1>1. /\ Len(chain) \in Nat /\ Len(chain) >= 1 /\ DOMAIN chain = 1 .. Len(chain)
      /\ Head(chain) = chain[1] /\ chain[1] \in TupleMeta
      /\ tl \in Seq(TupleMeta) /\ Len(tl) = Len(chain) - 1 /\ DOMAIN tl = 1 .. Len(chain) - 1
      /\ \A i \in 1 .. Len(chain) - 1 : tl[i] = chain[i + 1]
  OBVIOUS
<1>2. \A i \in DOMAIN chain : chain[i].ts \in Nat
  <2>1. \A i \in DOMAIN chain : chain[i] \in TupleMeta
    OBVIOUS
  <2> QED
    BY <2>1, Zenon DEF TupleMeta
<1>3. CASE Head(chain).ts <= k
  <2>1. \A i : Stops(chain, k, i) <=> i = 1
    BY <1>1, <1>2, <1>3 DEF Stops
  <2> QED
    BY <2>1, <1>1, <1>3 DEF ChainRead
<1>4. CASE ~(Head(chain).ts <= k)
  <2>1. \A i : Stops(tl, k, i) => Stops(chain, k, i + 1) /\ tl[i] = chain[i + 1]
    <3> SUFFICES ASSUME NEW i \in DOMAIN tl, tl[i].ts <= k,
                        \A j \in DOMAIN tl : j < i => tl[j].ts > k
                 PROVE  Stops(chain, k, i + 1) /\ tl[i] = chain[i + 1]
      BY Zenon DEF Stops
    <3>1. ASSUME NEW j \in DOMAIN chain, j < i + 1
          PROVE  chain[j].ts > k
      <4>1. CASE j = 1
        BY <4>1, <1>1, <1>2, <1>4
      <4>2. CASE j # 1
        <5>1. j - 1 \in DOMAIN tl /\ j - 1 < i /\ tl[j - 1] = chain[j]
          BY <4>2, <3>1, <1>1
        <5> QED
          BY <5>1, Zenon
      <4> QED
        BY <4>1, <4>2, Zenon
    <3> QED
      BY <1>1, <3>1 DEF Stops
  <2>2. \A i : Stops(chain, k, i) => i - 1 \in DOMAIN tl /\ Stops(tl, k, i - 1) /\ tl[i - 1] = chain[i]
    BY <1>1, <1>2, <1>4 DEF Stops
  <2>3. \A x : x \in ChainRead(chain, k) <=> \E i \in DOMAIN chain : Stops(chain, k, i) /\ x \in Live(chain[i])
    BY Zenon DEF ChainRead
  <2>4. \A x : x \in ChainRead(tl, k) <=> \E i \in DOMAIN tl : Stops(tl, k, i) /\ x \in Live(tl[i])
    BY Zenon DEF ChainRead
  <2>5. \A x : x \in ChainRead(chain, k) => x \in ChainRead(tl, k)
    BY <2>2, <2>3, <2>4, <1>1, Zenon
  <2>6. \A x : x \in ChainRead(tl, k) => x \in ChainRead(chain, k)
    <3> SUFFICES ASSUME NEW x \in ChainRead(tl, k)
                 PROVE  x \in ChainRead(chain, k)
      BY Zenon
    <3>1. PICK i \in DOMAIN tl : Stops(tl, k, i) /\ x \in Live(tl[i])
      BY <2>4, Zenon
    <3>2. Stops(chain, k, i + 1) /\ tl[i] = chain[i + 1]
      BY <3>1, <2>1, Zenon
    <3>3. i + 1 \in DOMAIN chain
      BY <1>1
    <3> QED
      BY <2>3, <3>1, <3>2, <3>3, Zenon
  <2>7. ChainRead(chain, k) = ChainRead(tl, k)
    BY <2>5, <2>6, Zenon
  <2> QED
    BY <2>7, <1>4, Zenon
<1> QED
  BY <1>3, <1>4

(* Pushing a version in front of a chain. *)
LEMMA ChainReadPush ==
    ASSUME NEW chain \in Seq(TupleMeta), NEW v \in TupleMeta, NEW k \in Nat
    PROVE  /\ <<v>> \o chain \in Seq(TupleMeta)
           /\ <<v>> \o chain # <<>>
           /\ Head(<<v>> \o chain) = v
           /\ Tail(<<v>> \o chain) = chain
           /\ ChainRead(<<v>> \o chain, k) = IF v.ts <= k THEN Live(v) ELSE ChainRead(chain, k)
<1>1. <<v>> \o chain \in Seq(TupleMeta) /\ <<v>> \o chain # <<>> /\ Head(<<v>> \o chain) = v
  OBVIOUS
<1>2. Tail(<<v>> \o chain) = chain
  OBVIOUS
<1> QED
  BY <1>1, <1>2, ChainReadHead, Zenon

(* An empty chain shows no row. *)
LEMMA ChainReadEmpty == \A k : ChainRead(<<>>, k) = {}
  BY DEF ChainRead

(* Cutting a chain at a watermark changes no read at or above it. *)
LEMMA ChainReadCut ==
    ASSUME NEW chain \in Seq(TupleMeta), NEW w \in Nat, NEW k \in Nat, w <= k
    PROVE  /\ Cut(chain, w) \in Seq(TupleMeta)
           /\ ChainRead(Cut(chain, w), k) = ChainRead(chain, k)
           /\ Cut(chain, w) = <<>> <=> chain = <<>>
           /\ \A i \in DOMAIN Cut(chain, w) : i \in DOMAIN chain /\ Cut(chain, w)[i] = chain[i]
<1>1. CASE ~ \E i \in DOMAIN chain : Stops(chain, w, i)
  BY <1>1, Zenon DEF Cut
<1>2. CASE \E i \in DOMAIN chain : Stops(chain, w, i)
  <2> DEFINE n == CHOOSE i \in DOMAIN chain : Stops(chain, w, i)
  <2> DEFINE c == SubSeq(chain, 1, n)
  <2>1. n \in DOMAIN chain /\ Stops(chain, w, n) /\ Cut(chain, w) = c
    BY <1>2, Zenon DEF Cut
  <2> HIDE DEF n
  <2>2. n \in 1 .. Len(chain) /\ Len(chain) \in Nat /\ DOMAIN chain = 1 .. Len(chain)
    BY <2>1
  <2>3. c \in Seq(TupleMeta) /\ Len(c) = n /\ DOMAIN c = 1 .. n /\ \A i \in 1 .. n : c[i] = chain[i]
    BY <2>2
  <2>4. \A i \in DOMAIN chain : chain[i].ts \in Nat
    <3>1. \A i \in DOMAIN chain : chain[i] \in TupleMeta
      OBVIOUS
    <3> QED
      BY <3>1, Zenon DEF TupleMeta
  <2>6. \A i : Stops(chain, k, i) => i \in 1 .. n
    BY <2>1, <2>2, <2>4 DEF Stops
  <2> HIDE DEF c
  <2>5. \A i : Stops(c, k, i) <=> Stops(chain, k, i)
    <3>1. \A i : Stops(chain, k, i) => Stops(c, k, i)
      BY <2>2, <2>3, <2>6 DEF Stops
    <3>2. \A i : Stops(c, k, i) => Stops(chain, k, i)
      BY <2>2, <2>3 DEF Stops
    <3> QED
      BY <3>1, <3>2, Zenon
  <2>7. \A x : x \in ChainRead(chain, k) <=> \E i \in DOMAIN chain : Stops(chain, k, i) /\ x \in Live(chain[i])
    BY Zenon DEF ChainRead
  <2>8. \A x : x \in ChainRead(c, k) <=> \E i \in DOMAIN c : Stops(c, k, i) /\ x \in Live(c[i])
    BY Zenon DEF ChainRead
  <2>9. ChainRead(c, k) = ChainRead(chain, k)
    <3>1. \A x : x \in ChainRead(chain, k) => x \in ChainRead(c, k)
      BY <2>2, <2>3, <2>5, <2>6, <2>7, <2>8, Zenon
    <3>2. \A x : x \in ChainRead(c, k) => x \in ChainRead(chain, k)
      BY <2>2, <2>3, <2>5, <2>6, <2>7, <2>8
    <3> QED
      BY <3>1, <3>2, Zenon
  <2>10. c # <<>> /\ chain # <<>>
    BY <2>2, <2>3
  <2> QED
    BY <2>1, <2>2, <2>3, <2>9, <2>10
<1> QED
  BY <1>1, <1>2, Zenon

--------------------------------------------------------------------------------
(* The invariant holds initially and every action preserves it. *)

(* A chain that is old enough reads the same at every later timestamp. *)
LEMMA ChainReadSettled ==
    ASSUME NEW chain \in Seq(TupleMeta), NEW j \in Nat, NEW k \in Nat, j <= k,
           \A i \in DOMAIN chain : chain[i].ts <= j
    PROVE  ChainRead(chain, j) = ChainRead(chain, k)
<1>1. CASE chain = <<>>
  BY <1>1, ChainReadEmpty, Zenon
<1>2. CASE chain # <<>>
  <2>1. Head(chain) = chain[1] /\ 1 \in DOMAIN chain /\ chain[1] \in TupleMeta
    BY <1>2
  <2>2. Head(chain).ts <= j /\ Head(chain).ts <= k
    BY <2>1 DEF TupleMeta
  <2> QED
    BY <1>2, <2>2, ChainReadHead, Zenon
<1> QED
  BY <1>1, <1>2, Zenon

(* Transaction ids lie above every timestamp (transaction.rs, TXN_START_ID). *)
LEMMA Ids ==
    /\ \A t \in TxnId : t \in Nat /\ t >= TXN_START_ID
    /\ \A k \in Timestamp : k \in Nat /\ k < TXN_START_ID
    /\ IsFiniteSet(TxnId)
<1>1. TXN_START_ID \in Int /\ TXN_START_ID + MaxTxns - 1 \in Int
  BY ConstantsAssumption
<1>2. IsFiniteSet(TxnId)
  BY <1>1, FS_Interval, Zenon DEF TxnId
<1> QED
  BY <1>2, ConstantsAssumption DEF TxnId, Timestamp

(* The types most steps need. *)
LEMMA Typed ==
    ASSUME IInv
    PROVE  /\ last_commit_ts \in Timestamp /\ last_commit_ts \in Nat
           /\ \A r \in Rid : heap[r] \in TupleMeta /\ heap[r].ts \in Nat /\ versions[r] \in Seq(TupleMeta)
           /\ \A u \in TxnId : read_ts[u] \in Timestamp /\ read_ts[u] \in Nat
           /\ \A u \in TxnId : write_set[u] \subseteq Rid
<1>1. /\ last_commit_ts \in Timestamp /\ read_ts \in [TxnId -> Timestamp]
      /\ heap \in [Rid -> TupleMeta] /\ versions \in [Rid -> Seq(TupleMeta)]
      /\ write_set \in [TxnId -> SUBSET Rid]
  BY Zenon DEF IInv, TypeOK
<1>2. \A v \in TupleMeta : v.ts \in Nat
  BY DEF TupleMeta
<1> QED
  BY <1>1, <1>2, Ids

(* The readers at a timestamp can be counted. *)
LEMMA ReadersFinite == ASSUME NEW k PROVE IsFiniteSet(Readers(k))
  BY Ids, FS_Subset, Zenon DEF Readers

(* A manager that just resumed satisfies the invariant. *)
LEMMA InitInv == Init => IInv
<1> SUFFICES ASSUME Init PROVE IInv
  BY Zenon
<1> USE ConstantsAssumption, Ids DEF Init
<1>1. TypeOK
  <2>1. buffer \in [TxnId -> WriteBuffer]
    <3>1. [r \in {} |-> {}] \in [{} -> SUBSET Data] /\ {} \in SUBSET Rid
      BY Zenon
    <3>2. [r \in {} |-> {}] \in WriteBuffer
      BY <3>1 DEF WriteBuffer
    <3> QED
      BY <3>2, Zenon
  <2>2. /\ last_commit_ts \in Timestamp /\ 0 \in Timestamp
        /\ hist \in [Timestamp -> [Rid -> SUBSET Data]]
        /\ heap \in [Rid -> TupleMeta]
    BY DEF Timestamp, TupleMeta, Data
  <2>3. /\ \A r \in Rid : versions[r] = <<>>
        /\ versions \in [Rid -> Seq(TupleMeta)]
        /\ next_txn_id \in TXN_START_ID .. TXN_START_ID + MaxTxns
    OBVIOUS
  <2>4. \A r \in Rid : \A i \in DOMAIN versions[r] : versions[r][i].ts \in Timestamp
    BY <2>3
  <2>5. gc \in [Collector -> GcState]
    BY <2>2 DEF GcState
  <2>6. /\ commit_latch \in SUBSET TxnId /\ running \in [Timestamp -> Nat] /\ slots \in SUBSET Rid
        /\ state \in [TxnId -> TxnState] /\ read_ts \in [TxnId -> Timestamp]
        /\ write_set \in [TxnId -> SUBSET Rid] /\ pushed_undo \in [TxnId -> SUBSET Rid]
        /\ \A t \in TxnId : pushed_undo[t] \subseteq write_set[t]
        /\ pc \in [TxnId -> OutcomePc]
        /\ todo \in [TxnId -> SUBSET Rid] /\ failures \in Nat /\ wrote \in [Timestamp -> SUBSET Rid]
    BY <2>2 DEF TxnState, OutcomePc
  <2> QED
    BY <2>1, <2>2, <2>3, <2>4, <2>5, <2>6, Zenon DEF TypeOK
<1>2. HandlesInv
  BY Zenon DEF HandlesInv, HandleOK, TxnId
<1>3. OwnerInv
  BY Zenon DEF OwnerInv, OwnerOK, Active
<1>4. StampInv
  <2>1. \A r \in Rid : DOMAIN versions[r] = {} /\ versions[r] = <<>>
    OBVIOUS
  <2>2. \A r \in Rid : heap[r].ts \in {0, 1} /\ (r \notin slots => heap[r].ts = 0 /\ heap[r].is_deleted)
    BY Zenon
  <2> QED
    BY <2>1, <2>2 DEF StampInv, StampOK
<1>5. RunningInv
  <2>1. \A k : Readers(k) = {}
    BY Zenon DEF Readers, Registered
  <2> QED
    BY <2>1, FS_EmptySet, Zenon DEF RunningInv, Registered
<1>6. GcInv
  BY Zenon DEF GcInv, WatermarkBelowReaders
<1>7. HistoryInv
  <2> SUFFICES ASSUME NEW r \in Rid, NEW k \in Timestamp, Needed(k)
               PROVE  Lookup(r, k) = hist[k][r]
    BY Zenon DEF HistoryInv
  <2>1. k = 1
    BY Zenon DEF Needed, Registered
  <2>2. heap[r] = [ts |-> IF r \in Preloaded THEN 1 ELSE 0, is_deleted |-> r \notin Preloaded, data |-> 0]
    BY Zenon
  <2>3. heap[r].ts <= k /\ heap[r].data = 0
    BY <2>1, <2>2
  <2>5. heap[r].is_deleted = (r \notin Preloaded)
    BY <2>2, Zenon
  <2>4. Lookup(r, k) = IF r \in Preloaded THEN {0} ELSE {}
    BY <2>3, <2>5, Zenon DEF Lookup, Live
  <2> QED
    BY <2>1, <2>4, Zenon
<1> QED
  BY <1>1, <1>2, <1>3, <1>4, <1>5, <1>6, <1>7, Zenon DEF IInv

(* While rows, history and readers stay, the rows still reproduce the history. *)
LEMMA FrameHistory ==
    ASSUME HistoryInv, UNCHANGED <<heap, versions, hist>>,
           \A k \in Timestamp : Needed(k)' => Needed(k)
    PROVE  HistoryInv'
  BY Zenon DEF HistoryInv, Lookup

(* While nobody registers or unregisters, the counts stay right. *)
LEMMA FrameRunning ==
    ASSUME RunningInv, UNCHANGED <<running, read_ts, last_commit_ts>>,
           \A u \in TxnId : Registered(u)' <=> Registered(u)
    PROVE  RunningInv'
<1>1. \A k : Readers(k)' = Readers(k)
  BY Zenon DEF Readers
<1> QED
  BY <1>1, Zenon DEF RunningInv

(* While no new snapshot is taken, the watermarks stay low enough. *)
LEMMA FrameGc ==
    ASSUME GcInv, UNCHANGED <<gc, read_ts, last_commit_ts>>,
           \A u \in TxnId : Registered(u)' => Registered(u)
    PROVE  GcInv'
  BY Zenon DEF GcInv, WatermarkBelowReaders

(* unregister takes one reader off the count of its snapshot. *)
LEMMA UnregisterRunning ==
    ASSUME IInv, NEW t \in TxnId, unregister(t), UNCHANGED <<read_ts, last_commit_ts>>,
           Registered(t), ~Registered(t)',
           \A u \in TxnId \ {t} : Registered(u)' <=> Registered(u)
    PROVE  RunningInv' /\ running' \in [Timestamp -> Nat]
<1> USE DEF IInv
<1> DEFINE k0 == read_ts[t]
<1>1. k0 \in Timestamp /\ t \in Readers(k0) /\ read_ts' = read_ts
  BY Zenon DEF TypeOK, Readers
<1>2. Readers(k0)' = Readers(k0) \ {t}
  BY <1>1, Zenon DEF Readers
<1>3. \A k \in Timestamp \ {k0} : Readers(k)' = Readers(k)
  <2> SUFFICES ASSUME NEW k \in Timestamp \ {k0}, NEW u \in TxnId
               PROVE  u \in Readers(k)' <=> u \in Readers(k)
    BY Zenon DEF Readers
  <2> QED
    BY <1>1, Zenon DEF Readers
<1>4. /\ Cardinality(Readers(k0)') = Cardinality(Readers(k0)) - 1
      /\ Cardinality(Readers(k0)) \in Nat /\ Cardinality(Readers(k0)') \in Nat
  BY <1>1, <1>2, ReadersFinite, FS_RemoveElement, FS_CardinalityType, Zenon
<1>5. running \in [Timestamp -> Nat] /\ running' = [running EXCEPT ![k0] = @ - 1]
  BY Zenon DEF unregister, TypeOK
<1>6. \A k \in Timestamp : running'[k] = Cardinality(Readers(k)')
  BY <1>1, <1>3, <1>4, <1>5, Zenon DEF RunningInv
<1>7. \A u \in TxnId : Registered(u)' => read_ts'[u] <= last_commit_ts'
  BY <1>1, Zenon DEF RunningInv
<1>8. running' \in [Timestamp -> Nat]
  <2>1. running'[k0] \in Nat
    BY <1>1, <1>4, <1>6, Zenon
  <2> QED
    BY <1>1, <1>5, <2>1, Zenon
<1> QED
  BY <1>6, <1>7, <1>8, Zenon DEF RunningInv

(* A step that leaves the rows alone and restamps nothing keeps their owners. *)
LEMMA FrameRows ==
    ASSUME IInv, UNCHANGED <<rows, last_commit_ts, buffer, write_set, pushed_undo>>,
           \A u \in TxnId : Active(u)' <=> Active(u),
           \A u \in TxnId : state'[u] = "Running" => state[u] = "Running",
           \A u \in TxnId : \A r \in write_set[u] :
               Active(u) => (Restamped(u, r)' <=> Restamped(u, r))
    PROVE  /\ OwnerInv'
           /\ (\A u \in TxnId : pc[u] \in {"stamp", "unstamp"} => pc'[u] \in {"stamp", "unstamp"})
              => StampInv'
<1> USE DEF IInv
<1>1. OwnerInv'
  <2> SUFFICES ASSUME NEW u \in TxnId, NEW r \in Rid PROVE OwnerOK(u, r)'
    BY Zenon DEF OwnerInv
  <2>1. OwnerOK(u, r)
    BY Zenon DEF OwnerInv
  <2> QED
    BY <2>1, Zenon DEF OwnerOK, rows
<1>2. ASSUME \A u \in TxnId : pc[u] \in {"stamp", "unstamp"} => pc'[u] \in {"stamp", "unstamp"}
      PROVE  StampInv'
  <2> SUFFICES ASSUME NEW r \in Rid PROVE StampOK(r)'
    BY Zenon DEF StampInv
  <2>1. StampOK(r)
    BY Zenon DEF StampInv
  <2> QED
    BY <1>2, <2>1, Zenon DEF StampOK, rows
<1> QED
  BY <1>1, <1>2, Zenon

(* Commit and abort hold the latch, so no other transaction is in either. *)
LEMMA OthersIdle ==
    ASSUME IInv, NEW t \in TxnId, pc[t] # "idle"
    PROVE  commit_latch = {t} /\ \A u \in TxnId \ {t} : pc[u] = "idle"
  BY Zenon DEF IInv, HandlesInv, HandleOK

(* A slot has one writer, whatever stamp it carries. *)
LEMMA OneWriter ==
    ASSUME IInv, NEW t \in TxnId, NEW u \in TxnId, NEW r \in Rid, Active(t), Active(u),
           r \in write_set[t], r \in write_set[u]
    PROVE  t = u
<1> USE Ids, ConstantsAssumption DEF IInv
<1>1. OwnerOK(t, r) /\ OwnerOK(u, r)
  BY Zenon DEF OwnerInv
<1>2. CASE Restamped(t, r) /\ Restamped(u, r)
  BY <1>2, OthersIdle, Zenon DEF Restamped
<1>3. CASE ~Restamped(t, r) /\ ~Restamped(u, r)
  BY <1>1, <1>3, Zenon DEF OwnerOK
<1>4. last_commit_ts \in Timestamp
  BY Zenon DEF TypeOK
<1>5. ASSUME NEW v \in TxnId, Restamped(v, r) PROVE last_commit_ts + 1 < TXN_START_ID
  <2>1. HandleOK(v) /\ pc[v] \in {"stamp", "unstamp"}
    BY <1>5, Zenon DEF HandlesInv, Restamped
  <2> QED
    BY <2>1, <1>4 DEF HandleOK, Timestamp
<1>6. CASE Restamped(t, r) /\ ~Restamped(u, r)
  <2>1. last_commit_ts + 1 = u
    BY <1>1, <1>6, Zenon DEF OwnerOK
  <2> QED
    BY <2>1, <1>4, <1>5, <1>6
<1>7. CASE ~Restamped(t, r) /\ Restamped(u, r)
  <2>1. last_commit_ts + 1 = t
    BY <1>1, <1>7, Zenon DEF OwnerOK
  <2> QED
    BY <2>1, <1>4, <1>5, <1>7
<1> QED
  BY <1>2, <1>3, <1>6, <1>7, Zenon
================================================================================
