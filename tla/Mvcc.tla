---------------------------------- MODULE Mvcc ----------------------------------
(***************************************************************************)
(* Multi-version concurrency control: the transaction handles of           *)
(* concurrency/transaction.rs, the TransactionManager of                   *)
(* concurrency/transaction_manager.rs and the visibility and write rules   *)
(* of concurrency/mvcc.rs.                                                 *)
(*                                                                         *)
(* A step is what happens under one page latch (a slot together with its   *)
(* undo chain), under the running lock, or on publishing a commit.  Many   *)
(* sessions interleave; commit and abort stamp or restore one slot at a    *)
(* time, holding the commit latch; a collector decides one slot at a time, *)
(* with a watermark it computed before.                                    *)
(*                                                                         *)
(* A row's bytes are abstracted to who wrote them, 0 for a row that was    *)
(* there at the start.  Contents are sets: {} is "no live row".            *)
(***************************************************************************)
EXTENDS Naturals, Sequences, FiniteSets

CONSTANTS
    TXN_START_ID,    \* transaction ids are allocated from here upwards
    MaxTxns,         \* bound: how many transactions begin
    MaxCommitTs,     \* bound: the largest commit timestamp
    Rid,             \* the record ids
    Preloaded,       \* the rows the heap holds when the manager resumes
    Collector,       \* threads that may be inside garbage_collect at once
    MaxFailures,     \* bound: how many storage errors happen
    UnstampMayFail   \* whether one of them may hit the undoing of a failed commit

ASSUME ConstantsAssumption ==
    /\ TXN_START_ID \in Nat /\ MaxTxns \in Nat /\ MaxCommitTs \in Nat /\ MaxFailures \in Nat
    /\ 1 <= MaxCommitTs /\ MaxCommitTs < TXN_START_ID
    /\ Preloaded \subseteq Rid
    /\ UnstampMayFail \in BOOLEAN

TxnId == TXN_START_ID .. TXN_START_ID + MaxTxns - 1
Timestamp == 0 .. MaxCommitTs
Data == {0} \cup TxnId
TupleMeta == [ts : Nat, is_deleted : BOOLEAN, data : Data]

VARIABLES
    next_txn_id, last_commit_ts,
    commit_latch,  \* the ids holding it: at most one
    running,       \* read_ts -> how many registered transactions read at it
    slots,         \* the record ids the heap has handed out
    heap,          \* the newest version of every record id, with its stamp
    versions,      \* the undo chain of every record id, newest first
    state, read_ts,
    write_set,     \* the record ids a transaction wrote and has not rolled back: the keys
                   \* of its one map from record id to whether it pushed an undo entry
    pushed_undo,   \* the keys that map marks true
    pc, todo,      \* where commit or abort is, and the slots it has yet to visit
    gc,            \* every collector's step, its watermark and the rids it has yet to visit
    failures,      \* storage errors so far
    hist, wrote,   \* history: what each commit left in every row, and the rows it wrote
    buffer         \* history: what each transaction wrote, by row

clocks == <<next_txn_id, last_commit_ts>>
rows == <<slots, heap, versions>>
handles == <<state, read_ts, write_set, pushed_undo, pc, todo>>
history == <<hist, wrote, buffer>>
vars == <<clocks, commit_latch, running, rows, handles, gc, failures, history>>

--------------------------------------------------------------------------------
(* Versions and visibility. *)

is_txn_id(ts) == ts >= TXN_START_ID

sees(t, ts) == ts = t \/ ts <= read_ts[t]

Live(v) == IF v.is_deleted THEN {} ELSE {v.data}

(* The first undo entry at or below timestamp k ends the walk. *)
Stops(chain, k, i) ==
    /\ i \in DOMAIN chain
    /\ chain[i].ts <= k
    /\ \A j \in DOMAIN chain : j < i => chain[j].ts > k

ChainRead(chain, k) == UNION {Live(chain[i]) : i \in {j \in DOMAIN chain : Stops(chain, k, j)}}

(* A reader walks the chain under the page's read latch, which keeps       *)
(* writers and aborts out but not a collector.  The walk is one step all   *)
(* the same: a cut takes only what follows the first entry at or below a   *)
(* watermark that no reader's snapshot is below, where the walk has        *)
(* stopped, and a chain dropped whole is kept by the walker's Arc.         *)
visible_version(t, r) ==
    IF sees(t, heap[r].ts) THEN Live(heap[r]) ELSE ChainRead(versions[r], read_ts[t])

(* Variant: commits after the snapshot are no conflict. *)
WriteConflictsOnIdsOnly(t, r) == heap[r].ts # t /\ is_txn_id(heap[r].ts)

WriteConflicts(t, r) == heap[r].ts # t /\ (is_txn_id(heap[r].ts) \/ heap[r].ts > read_ts[t])

--------------------------------------------------------------------------------
(* Transactions begin, write and fail to write. *)

begin(t) ==
    /\ t = next_txn_id
    /\ next_txn_id' = next_txn_id + 1
    /\ state' = [state EXCEPT ![t] = "Running"]
    /\ read_ts' = [read_ts EXCEPT ![t] = last_commit_ts]
    /\ running' = [running EXCEPT ![last_commit_ts] = @ + 1]
    /\ UNCHANGED <<last_commit_ts, commit_latch, rows, write_set, pushed_undo, pc, todo, gc,
                   failures, history>>

InStatement(t) == state[t] = "Running" /\ pc[t] = "idle"

Wrote(t, r, content) ==
    buffer' = [buffer EXCEPT ![t] =
                 [x \in DOMAIN buffer[t] \cup {r} |-> IF x = r THEN content ELSE buffer[t][x]]]

insert_tuple(t, r) ==
    /\ InStatement(t)
    /\ r \notin slots
    /\ slots' = slots \cup {r}
    /\ heap' = [heap EXCEPT ![r] = [ts |-> t, is_deleted |-> FALSE, data |-> t]]
    /\ write_set' = [write_set EXCEPT ![t] = @ \cup {r}]
    /\ Wrote(t, r, {t})
    /\ UNCHANGED <<clocks, commit_latch, running, versions, state, read_ts, pushed_undo, pc, todo,
                   gc, failures, hist, wrote>>

(* Variant: every write pushes what the slot held, the writer's own        *)
(* version included.                                                       *)
write_version_pushes_own(t, r, new) ==
    /\ InStatement(t)
    /\ visible_version(t, r) # {}
    /\ ~WriteConflicts(t, r)
    /\ ~heap[r].is_deleted
    /\ heap' = [heap EXCEPT ![r] = new]
    /\ versions' = [versions EXCEPT ![r] = <<heap[r]>> \o @]
    /\ pushed_undo' = [pushed_undo EXCEPT ![t] = IF r \in write_set[t] THEN @ ELSE @ \cup {r}]
    /\ write_set' = [write_set EXCEPT ![t] = @ \cup {r}]
    /\ Wrote(t, r, Live(new))
    /\ UNCHANGED <<clocks, commit_latch, running, slots, state, read_ts, pc, todo, gc, failures,
                   hist, wrote>>

(* Overwrites the slot and, the first time, pushes what it held.  The      *)
(* caller found the row by reading it, so it writes only rows it sees.     *)
write_version(t, r, new) ==
    /\ InStatement(t)
    /\ visible_version(t, r) # {}
    /\ ~WriteConflicts(t, r)
    /\ ~heap[r].is_deleted
    /\ heap' = [heap EXCEPT ![r] = new]
    /\ IF heap[r].ts # t
       THEN /\ versions' = [versions EXCEPT ![r] = <<heap[r]>> \o @]
            /\ pushed_undo' = [pushed_undo EXCEPT ![t] = @ \cup {r}]
       ELSE UNCHANGED <<versions, pushed_undo>>
    /\ write_set' = [write_set EXCEPT ![t] = @ \cup {r}]
    /\ Wrote(t, r, Live(new))
    /\ UNCHANGED <<clocks, commit_latch, running, slots, state, read_ts, pc, todo, gc, failures,
                   hist, wrote>>

update_tuple(t, r) == write_version(t, r, [ts |-> t, is_deleted |-> FALSE, data |-> t])

delete_tuple(t, r) == write_version(t, r, [ts |-> t, is_deleted |-> TRUE, data |-> heap[r].data])

set_tainted(t) ==
    state' = [state EXCEPT ![t] = IF @ = "Running" THEN "Tainted" ELSE @]

(* The second writer of a row is refused and can only abort. *)
write_conflict(t, r) ==
    /\ InStatement(t)
    /\ visible_version(t, r) # {}
    /\ WriteConflicts(t, r)
    /\ set_tainted(t)
    /\ UNCHANGED <<clocks, commit_latch, running, rows, read_ts, write_set, pushed_undo, pc, todo,
                   gc, failures, history>>

StorageError == failures < MaxFailures /\ failures' = failures + 1

(* A statement that fails for any other reason taints its transaction too. *)
taint_on_err(t) ==
    /\ InStatement(t)
    /\ StorageError
    /\ set_tainted(t)
    /\ UNCHANGED <<clocks, commit_latch, running, rows, read_ts, write_set, pushed_undo, pc, todo,
                   gc, history>>

--------------------------------------------------------------------------------
(* Commit: stamp every slot with the next timestamp, then publish it. *)

(* Variant: the snapshot is dropped with its first reader. *)
unregister_snapshot(t) == running' = [running EXCEPT ![read_ts[t]] = 0]

unregister(t) == running' = [running EXCEPT ![read_ts[t]] = @ - 1]

commit_read_only(t) ==
    /\ InStatement(t)
    /\ write_set[t] = {}
    /\ state' = [state EXCEPT ![t] = "Committed"]
    /\ unregister(t)
    /\ UNCHANGED <<clocks, commit_latch, rows, read_ts, write_set, pushed_undo, pc, todo, gc,
                   failures, history>>

commit_start(t) ==
    /\ InStatement(t)
    /\ write_set[t] # {}
    /\ commit_latch = {}
    /\ last_commit_ts < MaxCommitTs
    /\ commit_latch' = {t}
    /\ pc' = [pc EXCEPT ![t] = "stamp"]
    /\ todo' = [todo EXCEPT ![t] = write_set[t]]
    /\ UNCHANGED <<clocks, running, rows, state, read_ts, write_set, pushed_undo, gc, failures,
                   history>>

commit_ts == last_commit_ts + 1

stamp(t, r) ==
    /\ pc[t] = "stamp"
    /\ r \in todo[t]
    /\ heap[r].ts = t
    /\ heap' = [heap EXCEPT ![r].ts = commit_ts]
    /\ todo' = [todo EXCEPT ![t] = @ \ {r}]
    /\ UNCHANGED <<clocks, commit_latch, running, slots, versions, state, read_ts, write_set,
                   pushed_undo, pc, gc, failures, history>>

(* A storage error, or a slot that does not carry the expected stamp. *)
SlotFails(r, expected) ==
    IF heap[r].ts = expected THEN StorageError ELSE UNCHANGED failures

(* Variant: a failed stamp undoes nothing. *)
stamp_fails_for_good(t, r) ==
    /\ pc[t] = "stamp"
    /\ r \in todo[t]
    /\ SlotFails(r, t)
    /\ pc' = [pc EXCEPT ![t] = "unstamp"]
    /\ todo' = [todo EXCEPT ![t] = {}]
    /\ UNCHANGED <<clocks, commit_latch, running, rows, state, read_ts, write_set, pushed_undo, gc,
                   history>>

(* The slots already stamped are put back. *)
stamp_fails(t, r) ==
    /\ pc[t] = "stamp"
    /\ r \in todo[t]
    /\ SlotFails(r, t)
    /\ pc' = [pc EXCEPT ![t] = "unstamp"]
    /\ todo' = [todo EXCEPT ![t] = write_set[t] \ @]
    /\ UNCHANGED <<clocks, commit_latch, running, rows, state, read_ts, write_set, pushed_undo, gc,
                   history>>

unstamp(t, r) ==
    /\ pc[t] = "unstamp"
    /\ r \in todo[t]
    /\ heap[r].ts = commit_ts
    /\ heap' = [heap EXCEPT ![r].ts = t]
    /\ todo' = [todo EXCEPT ![t] = @ \ {r}]
    /\ UNCHANGED <<clocks, commit_latch, running, slots, versions, state, read_ts, write_set,
                   pushed_undo, pc, gc, failures, history>>

(* The failed commit returns; its transaction keeps its write set. *)
ReturnTainted(t) ==
    /\ set_tainted(t)
    /\ commit_latch' = {}
    /\ pc' = [pc EXCEPT ![t] = "idle"]
    /\ todo' = [todo EXCEPT ![t] = {}]
    /\ UNCHANGED <<clocks, running, rows, read_ts, write_set, pushed_undo, gc, history>>

commit_undone(t) ==
    /\ pc[t] = "unstamp"
    /\ todo[t] = {}
    /\ ReturnTainted(t)
    /\ UNCHANGED failures

commit_not_undone(t, r) ==
    /\ UnstampMayFail
    /\ pc[t] = "unstamp"
    /\ r \in todo[t]
    /\ SlotFails(r, commit_ts)
    /\ ReturnTainted(t)

publish(t) ==
    /\ pc[t] = "stamp"
    /\ todo[t] = {}
    /\ last_commit_ts' = commit_ts
    /\ state' = [state EXCEPT ![t] = "Committed"]
    /\ pc' = [pc EXCEPT ![t] = "published"]
    /\ hist' = [hist EXCEPT ![commit_ts] =
                  [r \in Rid |-> IF r \in DOMAIN buffer[t] THEN buffer[t][r]
                                 ELSE hist[last_commit_ts][r]]]
    /\ wrote' = [wrote EXCEPT ![commit_ts] = DOMAIN buffer[t]]
    /\ UNCHANGED <<next_txn_id, commit_latch, running, rows, read_ts, write_set, pushed_undo, todo,
                   gc, failures, buffer>>

commit_end(t) ==
    /\ pc[t] = "published"
    /\ unregister(t)
    /\ commit_latch' = {}
    /\ pc' = [pc EXCEPT ![t] = "idle"]
    /\ UNCHANGED <<clocks, rows, state, read_ts, write_set, pushed_undo, todo, gc, failures, history>>

--------------------------------------------------------------------------------
(* Abort: give every written slot its previous version back. *)

(* Variant: a tainted transaction cannot be aborted. *)
abort_running(t) ==
    /\ state[t] = "Running"
    /\ pc[t] = "idle"
    /\ commit_latch = {}
    /\ commit_latch' = {t}
    /\ set_tainted(t)
    /\ pc' = [pc EXCEPT ![t] = "rollback"]
    /\ UNCHANGED <<clocks, running, rows, read_ts, write_set, pushed_undo, todo, gc, failures,
                   history>>

abort_start(t) ==
    /\ state[t] \in {"Running", "Tainted"}
    /\ pc[t] = "idle"
    /\ commit_latch = {}
    /\ commit_latch' = {t}
    /\ set_tainted(t)
    /\ pc' = [pc EXCEPT ![t] = "rollback"]
    /\ UNCHANGED <<clocks, running, rows, read_ts, write_set, pushed_undo, todo, gc, failures,
                   history>>

CanRollBack(t, r) ==
    /\ heap[r].ts = t
    /\ r \in pushed_undo[t] => versions[r] # <<>>

(* Variant: abort takes every write for an insert. *)
restore_always_deletes(t, r) ==
    /\ heap' = [heap EXCEPT ![r] = [@ EXCEPT !.ts = 0, !.is_deleted = TRUE]]
    /\ versions' = [versions EXCEPT ![r] = IF r \in pushed_undo[t] THEN Tail(@) ELSE @]

(* The pushed version comes back; a row this transaction inserted goes. *)
restore(t, r) ==
    IF r \in pushed_undo[t]
    THEN /\ heap' = [heap EXCEPT ![r] = Head(versions[r])]
         /\ versions' = [versions EXCEPT ![r] = Tail(@)]
    ELSE /\ heap' = [heap EXCEPT ![r] = [@ EXCEPT !.ts = 0, !.is_deleted = TRUE]]
         /\ UNCHANGED versions

(* Removes the entry of r, key and mark, from the map. *)
forget_write(t, r) ==
    /\ write_set' = [write_set EXCEPT ![t] = @ \ {r}]
    /\ pushed_undo' = [pushed_undo EXCEPT ![t] = @ \ {r}]

roll_back(t, r) ==
    /\ pc[t] = "rollback"
    /\ r \in write_set[t]
    /\ CanRollBack(t, r)
    /\ restore(t, r)
    /\ forget_write(t, r)
    /\ UNCHANGED <<clocks, commit_latch, running, slots, state, read_ts, pc, todo, gc, failures,
                   history>>

(* The rest stays in the write set for the next abort. *)
roll_back_fails(t, r) ==
    /\ pc[t] = "rollback"
    /\ r \in write_set[t]
    /\ IF CanRollBack(t, r) THEN StorageError ELSE UNCHANGED failures
    /\ commit_latch' = {}
    /\ pc' = [pc EXCEPT ![t] = "idle"]
    /\ UNCHANGED <<clocks, running, rows, state, read_ts, write_set, pushed_undo, todo, gc, history>>

abort_end(t) ==
    /\ pc[t] = "rollback"
    /\ write_set[t] = {}
    /\ state' = [state EXCEPT ![t] = "Aborted"]
    /\ unregister(t)
    /\ commit_latch' = {}
    /\ pc' = [pc EXCEPT ![t] = "idle"]
    /\ UNCHANGED <<clocks, rows, read_ts, write_set, pushed_undo, todo, gc, failures, history>>

--------------------------------------------------------------------------------
(* Garbage collection: a watermark, then the rids with chains, then each of them. *)

(* Variant: the newest commit, whoever still reads below it. *)
IsNewestCommit(w) == w = last_commit_ts

(* The smallest registered snapshot, or the newest commit when there is none. *)
IsWatermark(w) ==
    \/ running[w] > 0 /\ \A k \in Timestamp : k < w => running[k] = 0
    \/ w = last_commit_ts /\ \A k \in Timestamp : running[k] = 0

gc_watermark(g) ==
    /\ gc[g].pc = "idle"
    /\ \E w \in Timestamp :
         /\ IsWatermark(w)
         /\ gc' = [gc EXCEPT ![g] = [pc |-> "listing", watermark |-> w, rids |-> {}]]
    /\ UNCHANGED <<clocks, commit_latch, running, rows, handles, failures, history>>

gc_list(g) ==
    /\ gc[g].pc = "listing"
    /\ gc' = [gc EXCEPT ![g] = [pc |-> "collecting", watermark |-> @.watermark,
                                rids |-> {r \in Rid : versions[r] # <<>>}]]
    /\ UNCHANGED <<clocks, commit_latch, running, rows, handles, failures, history>>

(* Variant: the entry that the oldest reader needs is cut too. *)
CutEntryToo(chain, w) ==
    IF \E i \in DOMAIN chain : Stops(chain, w, i)
    THEN SubSeq(chain, 1, (CHOOSE i \in DOMAIN chain : Stops(chain, w, i)) - 1)
    ELSE chain

(* Everything behind the first entry at or below the watermark goes. *)
Cut(chain, w) ==
    IF \E i \in DOMAIN chain : Stops(chain, w, i)
    THEN SubSeq(chain, 1, CHOOSE i \in DOMAIN chain : Stops(chain, w, i))
    ELSE chain

gc_slot(g, r) ==
    /\ gc[g].pc = "collecting"
    /\ r \in gc[g].rids
    /\ versions' = [versions EXCEPT ![r] =
                      IF ~is_txn_id(heap[r].ts) /\ heap[r].ts <= gc[g].watermark
                      THEN <<>> ELSE Cut(@, gc[g].watermark)]
    /\ gc' = [gc EXCEPT ![g] = [pc |-> "collecting", watermark |-> @.watermark,
                                rids |-> @.rids \ {r}]]
    /\ UNCHANGED <<clocks, commit_latch, running, slots, heap, handles, failures, history>>

(* The pass is over, or a page could not be read and the pass gives up. *)
gc_end(g) ==
    /\ gc[g].pc = "collecting"
    /\ IF gc[g].rids = {} THEN UNCHANGED failures ELSE StorageError
    /\ gc' = [gc EXCEPT ![g] = [pc |-> "idle", watermark |-> 0, rids |-> {}]]
    /\ UNCHANGED <<clocks, commit_latch, running, rows, handles, history>>

--------------------------------------------------------------------------------
(* A manager resumed over a heap whose preloaded rows were committed at 1. *)
Init ==
    /\ next_txn_id = TXN_START_ID
    /\ last_commit_ts = 1
    /\ commit_latch = {}
    /\ running = [k \in Timestamp |-> 0]
    /\ slots = Preloaded
    /\ heap = [r \in Rid |-> [ts |-> IF r \in Preloaded THEN 1 ELSE 0,
                              is_deleted |-> r \notin Preloaded, data |-> 0]]
    /\ versions = [r \in Rid |-> <<>>]
    /\ state = [t \in TxnId |-> "unborn"]
    /\ read_ts = [t \in TxnId |-> 0]
    /\ write_set = [t \in TxnId |-> {}]
    /\ pushed_undo = [t \in TxnId |-> {}]
    /\ pc = [t \in TxnId |-> "idle"]
    /\ todo = [t \in TxnId |-> {}]
    /\ gc = [g \in Collector |-> [pc |-> "idle", watermark |-> 0, rids |-> {}]]
    /\ failures = 0
    /\ hist = [k \in Timestamp |-> [r \in Rid |-> IF k = 1 /\ r \in Preloaded THEN {0} ELSE {}]]
    /\ wrote = [k \in Timestamp |-> {}]
    /\ buffer = [t \in TxnId |-> [r \in {} |-> {}]]

(* The steps of a commit or abort once it was called: the caller waits for *)
(* them, so they are not optional.                                         *)
OutcomeStep(t) ==
    \/ \E r \in Rid : stamp(t, r) \/ unstamp(t, r) \/ roll_back(t, r)
    \/ commit_undone(t) \/ publish(t) \/ commit_end(t) \/ abort_end(t)

OutcomeFails(t) ==
    \E r \in Rid : stamp_fails(t, r) \/ commit_not_undone(t, r) \/ roll_back_fails(t, r)

TxnStep(t) ==
    \/ begin(t)
    \/ \E r \in Rid : insert_tuple(t, r) \/ update_tuple(t, r) \/ delete_tuple(t, r)
    \/ \E r \in Rid : write_conflict(t, r)
    \/ taint_on_err(t)
    \/ commit_read_only(t) \/ commit_start(t) \/ abort_start(t)

GcStep(g) == gc_watermark(g) \/ gc_list(g) \/ (\E r \in Rid : gc_slot(g, r)) \/ gc_end(g)

Next ==
    \/ \E t \in TxnId : TxnStep(t) \/ OutcomeStep(t) \/ OutcomeFails(t)
    \/ \E g \in Collector : GcStep(g)

Spec == Init /\ [][Next]_vars

(* commit and abort return once called: their caller runs them to the end.  *)
(* A session whose transaction is tainted keeps calling abort, and the latch *)
(* is granted to a waiter again and again.                                   *)
Fairness ==
    \A t \in TxnId :
        /\ WF_vars(OutcomeStep(t) \/ OutcomeFails(t))
        /\ SF_vars(state[t] = "Tainted" /\ abort_start(t))

FairSpec == Spec /\ Fairness

--------------------------------------------------------------------------------
(* Properties. *)

TxnState == {"unborn", "Running", "Tainted", "Committed", "Aborted"}
OutcomePc == {"idle", "stamp", "unstamp", "published", "rollback"}
WriteBuffer == UNION {[S -> SUBSET Data] : S \in SUBSET Rid}
GcState == [pc : {"idle", "listing", "collecting"}, watermark : Timestamp, rids : SUBSET Rid]

(* The types of the manager's state: stamps stay on their side of            *)
(* TXN_START_ID, chains hold committed versions only, an undo entry belongs  *)
(* to a recorded write (transaction_manager.rs, push_version's assertion).   *)
TypeOK ==
    /\ next_txn_id \in TXN_START_ID .. TXN_START_ID + MaxTxns
    /\ last_commit_ts \in Timestamp
    /\ commit_latch \in SUBSET TxnId
    /\ running \in [Timestamp -> Nat]
    /\ slots \in SUBSET Rid
    /\ heap \in [Rid -> TupleMeta]
    /\ versions \in [Rid -> Seq(TupleMeta)]
    /\ \A r \in Rid : \A i \in DOMAIN versions[r] : versions[r][i].ts \in Timestamp
    /\ state \in [TxnId -> TxnState]
    /\ read_ts \in [TxnId -> Timestamp]
    /\ write_set \in [TxnId -> SUBSET Rid]
    /\ pushed_undo \in [TxnId -> SUBSET Rid]
    /\ \A t \in TxnId : pushed_undo[t] \subseteq write_set[t]
    /\ pc \in [TxnId -> OutcomePc]
    /\ todo \in [TxnId -> SUBSET Rid]
    /\ gc \in [Collector -> GcState]
    /\ failures \in Nat
    /\ hist \in [Timestamp -> [Rid -> SUBSET Data]]
    /\ wrote \in [Timestamp -> SUBSET Rid]
    /\ buffer \in [TxnId -> WriteBuffer]

(* Snapshot reads (mvcc.rs, visible_version): whatever other transactions,   *)
(* half-done commits, half-done aborts and the collector do, a transaction   *)
(* reads its own writes and, everywhere else, what the commits up to its     *)
(* snapshot left there.                                                      *)
SnapshotReads ==
    \A t \in TxnId : InStatement(t) =>
        \A r \in Rid :
            visible_version(t, r) = IF r \in DOMAIN buffer[t] THEN buffer[t][r]
                                    ELSE hist[read_ts[t]][r]

(* Rollback always can (transaction_manager.rs, abort): while a transaction  *)
(* may still abort, every slot it wrote carries its id, the undo entry it    *)
(* pushed is at the head of the chain, and what abort would restore is what  *)
(* the newest commit left in the row.  So abort fails on storage errors only.*)
RollbackReady ==
    \A t \in TxnId : state[t] \in {"Running", "Tainted"} /\ pc[t] \in {"idle", "rollback"} =>
        \A r \in write_set[t] :
            /\ CanRollBack(t, r)
            /\ hist[last_commit_ts][r] =
                 IF r \in pushed_undo[t] THEN Live(Head(versions[r])) ELSE {}

Registered(t) == state[t] \in {"Running", "Tainted"} \/ pc[t] = "published"

(* The watermark (transaction_manager.rs, watermark and begin): a collector   *)
(* never works with a watermark above a snapshot somebody still reads at,     *)
(* even though transactions begin and end after it was computed.              *)
WatermarkBelowReaders ==
    \A g \in Collector : gc[g].pc # "idle" =>
        \A t \in TxnId : Registered(t) => gc[g].watermark <= read_ts[t]

Status(t) ==
    CASE state[t] = "Running" -> "active"
      [] state[t] \in {"Tainted", "Aborted"} -> "aborted"
      [] state[t] = "Committed" -> "committed"
      [] OTHER -> "unborn"

SI == INSTANCE SnapshotIsolation WITH
        Txn <- TxnId, last <- last_commit_ts, db <- hist, snap <- read_ts,
        status <- [t \in TxnId |-> Status(t)]

(* The manager implements snapshot isolation: no commit buries one its        *)
(* transaction did not see (docs/mvcc.md, "Isolation level").  Rows enter     *)
(* through hist, which publish writes at once; that reads agree with hist     *)
(* while slots are stamped one by one is SnapshotReads.                       *)
ImplementsSnapshotIsolation == SI!Spec

Published(r) ==
    {v \in {heap[r]} \cup {versions[r][i] : i \in DOMAIN versions[r]} : v.ts <= last_commit_ts}

(* Only the collector drops a version somebody committed: writers push it,    *)
(* abort takes it back, and neither a failed commit nor a failed abort loses  *)
(* one (transaction_manager.rs, push_version, abort, garbage_collect).        *)
PublishedVersionsStay ==
    [][\A r \in slots : Published(r) \subseteq Published(r)' \/ \E g \in Collector : gc_slot(g, r)]_vars

(* However many collectors work at once, each with a watermark and a list of  *)
(* its own, deciding a slot changes no read of a registered transaction, and  *)
(* takes from none what its rollback needs: the stamp it expects and the undo *)
(* entry it pushed (transaction_manager.rs, garbage_collect).                 *)
CollectorsKeepWhatIsRead ==
    [][\A g \in Collector, r \in Rid : gc_slot(g, r) =>
         \A t \in TxnId : Registered(t) =>
           /\ visible_version(t, r)' = visible_version(t, r)
           /\ r \in pushed_undo[t] /\ CanRollBack(t, r) =>
                 versions'[r] # <<>> /\ Head(versions'[r]) = Head(versions[r])]_vars

(* A tainted transaction gets rolled back: every retry of abort picks up      *)
(* where the last one stopped (transaction_manager.rs, abort).                *)
TaintedIsRolledBack == \A t \in TxnId : state[t] = "Tainted" ~> state[t] = "Aborted"
================================================================================
