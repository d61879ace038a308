--------------------------------- MODULE Recovery ---------------------------------
(***************************************************************************)
(* A database opened with Database::open: transactions over a buffer pool  *)
(* over the log, the checkpoint that follows a commit, and what open does  *)
(* after a crash.                                                          *)
(*                                                                         *)
(* A page holds one tuple slot, or (page Meta) the transaction clocks of   *)
(* the metadata chain.  A clean frame holds what the log would return, so  *)
(* frame keeps dirty pages only and eviction of a clean one is no step.    *)
(* Version chains and failing commits are the subject of module Mvcc: here *)
(* a slot has at most the one version its uncommitted writer replaced.     *)
(***************************************************************************)
EXTENDS Wal

CONSTANTS
    Slot, Meta,            \* the pages: one tuple slot each, and the clocks
    Checkpoint,            \* the holder of the commit latch during a checkpoint
    TXN_START_ID,
    Preloaded,             \* the rows of the directory that ResumedInit starts from
    MaxCommitTs            \* bound: commit timestamps

ASSUME RecoveryAssumption ==
    /\ Page = Slot \cup {Meta} /\ Meta \notin Slot /\ Preloaded \subseteq Slot
    /\ MaxCommitTs \in Nat /\ TXN_START_ID \in Nat /\ MaxCommitTs < TXN_START_ID
    /\ TxnId \subseteq Nat /\ \A t \in TxnId : TXN_START_ID <= t /\ TXN_START_ID .. t \subseteq TxnId

VARIABLES
    stage,                       \* "down", "scan" and "rollback" (open finds and undoes
                                 \* unfinished work), "up", "closing" (shut_down, before its
                                 \* checkpoint), "closed"
    frame,                       \* a dirty page's content, or None
    next_txn_id, last_commit_ts,
    txn,                         \* each transaction's state, snapshot and writes
    undo,                        \* the version a slot's uncommitted writer replaced, or None
    holder, job,                 \* who holds the commit latch, and what for
    left,                        \* the pages the holder, or the rollback, has yet to visit
    rows_at, acked_ts            \* history: the rows as of each commit; the last durable commit

db == <<stage, frame, next_txn_id, last_commit_ts, txn, undo, holder, job, left, rows_at, acked_ts>>
allvars == <<vars, db>>

Idle == [state |-> "idle", read_ts |-> 0, logged |-> FALSE, writes |-> {}]

is_txn_id(ts) == ts >= TXN_START_ID

current(p) == IF frame[p] # None THEN frame[p] ELSE read_page(p)

StampOf(p) == IF current(p) \in {Blank, Torn} THEN 0 ELSE current(p).ts

(* An aborted insert leaves a deletion at timestamp 0. *)
Gone == [ts |-> 0, row |-> None]

--------------------------------------------------------------------------------
(* Transactions. *)

Up == stage = "up"

(* A transaction is used by one thread: it writes, or commits or aborts. *)
Running(t) == Up /\ txn[t].state = "running" /\ holder # t

begin(t) ==
    /\ Up
    /\ t = next_txn_id /\ t \in TxnId
    /\ next_txn_id' = t + 1
    /\ txn' = [txn EXCEPT ![t] = [Idle EXCEPT !.state = "running", !.read_ts = last_commit_ts]]
    /\ UNCHANGED <<vars, stage, frame, last_commit_ts, undo, holder, job, left, rows_at, acked_ts>>

log_first_write(t) ==
    /\ Running(t) /\ ~txn[t].logged
    /\ log_txn(Writes(t))
    /\ txn' = [txn EXCEPT ![t].logged = TRUE]
    /\ UNCHANGED <<stage, frame, next_txn_id, last_commit_ts, undo, holder, job, left, rows_at,
                   acked_ts>>

StampSlot(t, p) ==
    /\ frame' = [frame EXCEPT ![p] = [ts |-> t, row |-> t]]
    /\ txn' = [txn EXCEPT ![t].writes = @ \cup {p}]
    /\ UNCHANGED <<stage, next_txn_id, last_commit_ts, holder, job, left, rows_at, acked_ts>>

insert_tuple(t, p) ==
    /\ Running(t) /\ txn[t].logged
    /\ current(p) = Blank
    /\ StampSlot(t, p)
    /\ undo' = [undo EXCEPT ![p] = None]
    /\ UNCHANGED vars

Writable(t, p) ==
    /\ current(p) \notin {Blank, Torn} /\ current(p).row # None
    /\ StampOf(p) <= txn[t].read_ts

(* Variant: no undo record is logged. *)
write_version_unlogged(t, p) ==
    /\ Running(t) /\ txn[t].logged
    /\ Writable(t, p)
    /\ StampSlot(t, p)
    /\ undo' = [undo EXCEPT ![p] = current(p)]
    /\ UNCHANGED vars

(* The undo record is logged under the page latch, ahead of any image of   *)
(* the page with the new version.  Overwriting a row of one's own changes  *)
(* nothing here; a conflict only leads to abort.  A delete does the same   *)
(* with a deleted flag in place of a new row: recovery visits deleted      *)
(* slots like any other and restores the same undo image, so the updates   *)
(* stand for both.                                                         *)
write_version(t, p) ==
    /\ Running(t) /\ txn[t].logged
    /\ Writable(t, p)
    /\ log_txn(Undo(t, p, current(p)))
    /\ StampSlot(t, p)
    /\ undo' = [undo EXCEPT ![p] = current(p)]

commit_start(t) ==
    /\ Running(t) /\ holder = None
    /\ txn[t].writes # {}
    /\ last_commit_ts < MaxCommitTs
    /\ holder' = t /\ job' = "commit" /\ left' = txn[t].writes
    /\ UNCHANGED <<vars, stage, frame, next_txn_id, last_commit_ts, txn, undo, rows_at, acked_ts>>

stamp(t, p) ==
    /\ holder = t /\ job = "commit"
    /\ p \in left
    /\ frame' = [frame EXCEPT ![p] = [current(p) EXCEPT !.ts = last_commit_ts + 1]]
    /\ left' = left \ {p}
    /\ UNCHANGED <<vars, stage, next_txn_id, last_commit_ts, txn, undo, holder, job, rows_at,
                   acked_ts>>

(* A slot that is no longer written to needs no older version here. *)
Settle(t) ==
    /\ txn' = [txn EXCEPT ![t] = Idle]
    /\ undo' = [p \in Slot |-> IF p \in txn[t].writes THEN None ELSE undo[p]]

Release == holder' = None /\ job' = "none" /\ left' = {}

commit_end(t) ==
    /\ holder = t /\ job = "commit"
    /\ left = {}
    /\ last_commit_ts' = last_commit_ts + 1
    /\ log_txn(End(t))
    /\ rows_at' = [rows_at EXCEPT ![last_commit_ts + 1] =
                      [p \in Slot |-> IF p \in txn[t].writes THEN current(p).row
                                      ELSE rows_at[last_commit_ts][p]]]
    /\ Settle(t)
    /\ Release
    /\ UNCHANGED <<stage, frame, next_txn_id, acked_ts>>

abort_start(t) ==
    /\ Running(t) /\ holder = None
    /\ holder' = t /\ job' = "abort" /\ left' = txn[t].writes
    /\ UNCHANGED <<vars, stage, frame, next_txn_id, last_commit_ts, txn, undo, rows_at, acked_ts>>

(* Under the page latch the undo entry is popped; from then on the slot is *)
(* no longer this transaction's, and others may write it.                  *)
restore(t, p) ==
    /\ holder = t /\ job = "abort"
    /\ p \in left
    /\ frame' = [frame EXCEPT ![p] = IF undo[p] = None THEN Gone ELSE undo[p]]
    /\ left' = left \ {p}
    /\ undo' = [undo EXCEPT ![p] = None]
    /\ txn' = [txn EXCEPT ![t].writes = @ \ {p}]
    /\ UNCHANGED <<vars, stage, next_txn_id, last_commit_ts, holder, job, rows_at, acked_ts>>

abort_end(t) ==
    /\ holder = t /\ job = "abort"
    /\ left = {}
    /\ IF txn[t].logged THEN log_txn(End(t)) ELSE UNCHANGED vars
    /\ Settle(t)
    /\ Release
    /\ UNCHANGED <<stage, frame, next_txn_id, last_commit_ts, rows_at, acked_ts>>

--------------------------------------------------------------------------------
(* The buffer pool and the checkpoint. *)

(* A dirty page is written to the log: it is evicted, or flush_all comes   *)
(* to its frame.  flush_all must have written every page that is dirty     *)
(* from its start to its end; one that was clean in between may have been  *)
(* passed while clean.                                                     *)
write_to_disk(p) ==
    /\ stage \notin {"down", "closed"}
    /\ frame[p] # None
    /\ log_page(p, frame[p])
    /\ frame' = [frame EXCEPT ![p] = None]
    /\ left' = IF job = "flush" THEN left \ {p} ELSE left
    /\ UNCHANGED <<stage, next_txn_id, last_commit_ts, txn, undo, holder, job, rows_at, acked_ts>>

(* What the metadata says of transactions.  It also holds the page         *)
(* allocation, captured here before flush_all, and the catalog; without    *)
(* them opening is easier here than in the program, where a heap page that *)
(* was linked but is not in the allocation makes a table fail to open.     *)
Clocks == [last_commit_ts |-> last_commit_ts, next_txn_id |-> next_txn_id]

(* Variant: the clocks are not written. *)
write_chain_never == UNCHANGED frame

(* The metadata chain is rewritten only when its content changed. *)
write_chain ==
    frame' = IF Clocks = current(Meta) THEN frame ELSE [frame EXCEPT ![Meta] = Clocks]

(* Variant: only transactions that replaced a version count. *)
UnfinishedWithUndo ==
    {t \in TxnId : \E i \in DOMAIN open_txns[t] : open_txns[t][i].kind = "Undo"}

UnfinishedTxns == {t \in TxnId : open_txns[t] # <<>>}

(* Database::checkpoint holds off outcomes and writes the clocks first.  A *)
(* commit is followed by one, recovery ends with one once every unfinished *)
(* transaction has ended, and shut_down runs one.                          *)
checkpoint_start ==
    /\ Ready
    /\ holder = None
    /\ \/ stage \in {"up", "closing"}
       \/ stage = "rollback" /\ left = {} /\ UnfinishedTxns = {}
    /\ write_chain
    /\ holder' = Checkpoint /\ job' = "flush" /\ left' = {p \in Page : frame'[p] # None}
    /\ UNCHANGED <<vars, stage, next_txn_id, last_commit_ts, txn, undo, rows_at, acked_ts>>

(* A failed checkpoint fails open, which drops the database: shut_down.    *)
CheckpointReturns(ok) ==
    /\ acked_ts' = IF ok /\ last_commit_ts > acked_ts THEN last_commit_ts ELSE acked_ts
    /\ stage' = CASE stage = "up" -> "up"
                  [] stage = "rollback" -> IF ok THEN "up" ELSE "closing"
                  [] stage = "closing" -> "closed"
    /\ Release

make_durable ==
    /\ holder = Checkpoint /\ job = "flush"
    /\ left = {}
    /\ job' = "durable"
    /\ IF dirty THEN durable_point ELSE Ready /\ ~broken /\ UNCHANGED vars
    /\ UNCHANGED <<stage, frame, next_txn_id, last_commit_ts, txn, undo, holder, left, rows_at,
                   acked_ts>>

(* The durable point succeeded if it left the log clean. *)
checkpoint_end ==
    /\ holder = Checkpoint /\ job = "durable"
    /\ Ready
    /\ CheckpointReturns(~dirty)
    /\ UNCHANGED <<vars, frame, next_txn_id, last_commit_ts, txn, undo, rows_at>>

(* A page cannot be written: the log is broken, or an I/O error. *)
checkpoint_gives_up ==
    /\ holder = Checkpoint /\ job = "flush"
    /\ Ready
    /\ IF broken THEN UNCHANGED failures ELSE Fail
    /\ CheckpointReturns(FALSE)
    /\ UNCHANGED <<files, memory, pc, todo, opening, crashes, marks, frame, next_txn_id,
                   last_commit_ts, txn, undo, rows_at>>

--------------------------------------------------------------------------------
(* Opening. *)

(* A new database starts its clocks and writes itself; an existing one     *)
(* picks its clocks up from the metadata, ids past every unfinished one;   *)
(* it cannot be opened when the metadata is unreadable.                    *)
create_persisted ==
    /\ stage = "down" /\ Ready
    /\ current(Meta) = Blank
    /\ last_commit_ts' = 0 /\ next_txn_id' = TXN_START_ID
    /\ stage' = "rollback"
    /\ UNCHANGED <<vars, frame, txn, undo, holder, job, left, rows_at, acked_ts>>

(* Variant: what is unfinished is not rolled back. *)
load_persisted_ignores_unfinished ==
    /\ stage = "down" /\ Ready
    /\ current(Meta) \notin {Blank, Torn}
    /\ last_commit_ts' = current(Meta).last_commit_ts
    /\ next_txn_id' = current(Meta).next_txn_id
    /\ stage' = "up"
    /\ UNCHANGED <<vars, frame, txn, undo, holder, job, left, rows_at, acked_ts>>

(* Variant: an unfinished transaction younger than the clocks is refused. *)
load_persisted_checks_ids ==
    /\ stage = "down" /\ Ready
    /\ current(Meta) \notin {Blank, Torn}
    /\ \A t \in UnfinishedTxns : t < current(Meta).next_txn_id
    /\ last_commit_ts' = current(Meta).last_commit_ts
    /\ next_txn_id' = current(Meta).next_txn_id
    /\ stage' = IF UnfinishedTxns = {} THEN "up" ELSE "scan"
    /\ UNCHANGED <<vars, frame, txn, undo, holder, job, left, rows_at, acked_ts>>

load_persisted ==
    /\ stage = "down" /\ Ready
    /\ current(Meta) \notin {Blank, Torn}
    /\ last_commit_ts' = current(Meta).last_commit_ts
    /\ next_txn_id' = CHOOSE n \in {current(Meta).next_txn_id} \cup {t + 1 : t \in UnfinishedTxns} :
                         \A t \in UnfinishedTxns : t < n /\ current(Meta).next_txn_id <= n
    /\ stage' = IF UnfinishedTxns = {} THEN "up" ELSE "scan"
    /\ UNCHANGED <<vars, frame, txn, undo, holder, job, left, rows_at, acked_ts>>

(* The version the transaction replaced: that of its first undo record for *)
(* the slot.  None if it inserted the row.                                 *)
UndoImage(t, p) ==
    LET at == {i \in DOMAIN open_txns[t] : open_txns[t][i].kind = "Undo" /\ open_txns[t][i].rid = p}
    IN  IF at = {} THEN None
        ELSE open_txns[t][CHOOSE i \in at : \A j \in at : i <= j].image

(* One pass over the heaps collects the slots that carry an unfinished     *)
(* transaction's stamp, and with them the images open kept for it.  Nobody *)
(* else has the database yet, so the stamps are the same when the slots    *)
(* are written, and heap by heap or all at once makes no difference.       *)
scan_recovered ==
    /\ stage = "scan"
    /\ stage' = "rollback"
    /\ left' = {p \in Slot : StampOf(p) \in UnfinishedTxns}
    /\ undo' = [p \in Slot |-> IF p \in left' THEN UndoImage(StampOf(p), p) ELSE None]
    /\ UNCHANGED <<vars, frame, next_txn_id, last_commit_ts, txn, holder, job, rows_at, acked_ts>>

roll_back_recovered(p) ==
    /\ stage = "rollback" /\ holder = None
    /\ p \in left
    /\ frame' = [frame EXCEPT ![p] = IF undo[p] = None THEN Gone ELSE undo[p]]
    /\ left' = left \ {p}
    /\ undo' = [undo EXCEPT ![p] = None]
    /\ UNCHANGED <<vars, stage, next_txn_id, last_commit_ts, txn, holder, job, rows_at, acked_ts>>

(* Variant: the transaction is logged as ended before its slots are undone. *)
end_recovered_early(t) ==
    /\ stage = "rollback" /\ holder = None
    /\ t \in UnfinishedTxns
    /\ log_txn(End(t))
    /\ UNCHANGED db

(* Once every slot found was written, each unfinished transaction is       *)
(* logged as ended.                                                        *)
end_recovered(t) ==
    /\ stage = "rollback" /\ holder = None
    /\ left = {}
    /\ t \in UnfinishedTxns
    /\ log_txn(End(t))
    /\ UNCHANGED db

(* A page cannot be read or written and the rollback stops; dropping the   *)
(* database then writes it half rolled back, its transactions still        *)
(* unfinished.                                                             *)
roll_back_fails ==
    /\ holder = None
    /\ stage = "scan" \/ (stage = "rollback" /\ left # {})
    /\ Fail
    /\ stage' = "closing"
    /\ left' = {}
    /\ UNCHANGED <<files, memory, pc, todo, opening, crashes, marks, frame, next_txn_id,
                   last_commit_ts, txn, undo, holder, job, rows_at, acked_ts>>

(* The session's transaction was aborted first; others are abandoned. *)
close ==
    /\ Up /\ holder = None
    /\ stage' = "closing"
    /\ UNCHANGED <<vars, frame, next_txn_id, last_commit_ts, txn, undo, holder, job, left, rows_at,
                   acked_ts>>

--------------------------------------------------------------------------------
(* Crashes, and the log's own steps. *)

ForgetDb ==
    /\ stage' = "down"
    /\ frame' = [p \in Page |-> None] /\ undo' = [p \in Slot |-> None]
    /\ next_txn_id' = TXN_START_ID /\ last_commit_ts' = 0
    /\ txn' = [t \in TxnId |-> Idle]
    /\ Release
    /\ UNCHANGED <<rows_at, acked_ts>>

crash == (kill \/ power_loss) /\ ForgetDb

(* The database is closed, with or without success: the files stay. *)
let_go ==
    /\ stage = "closed"
    /\ Forget /\ Rewind(log)
    /\ ForgetDb
    /\ UNCHANGED <<files, failures, crashes>>

WalStep ==
    /\ \/ sync_log \/ sync_log_fails
       \/ \E p \in Page : checkpoint_copy(p)
       \/ checkpoint_sync_data \/ checkpoint_install \/ checkpoint_sync_dir \/ checkpoint_fails
       \/ open
    /\ UNCHANGED db

DbInit ==
    /\ stage = "down"
    /\ frame = [p \in Page |-> None] /\ undo = [p \in Slot |-> None]
    /\ next_txn_id = TXN_START_ID /\ last_commit_ts = 0
    /\ txn = [t \in TxnId |-> Idle]
    /\ holder = None /\ job = "none" /\ left = {}

(* A fresh directory. *)
RecoveryInit ==
    /\ Init
    /\ DbInit
    /\ rows_at = [ts \in 0 .. MaxCommitTs |-> [p \in Slot |-> None]] /\ acked_ts = 0

(* The directory that a first run left behind: its one transaction         *)
(* inserted the preloaded rows and committed, and the log was checkpointed *)
(* before it closed.                                                       *)
ResumedInit ==
    /\ data = [p \in Page |->
                  IF p = Meta THEN [last_commit_ts |-> 1, next_txn_id |-> TXN_START_ID + 1]
                  ELSE IF p \in Preloaded THEN [ts |-> 1, row |-> TXN_START_ID] ELSE Blank]
    /\ data_synced = data
    /\ log = <<DurableRecord(1)>> /\ log_synced = 1 /\ replaced = {}
    /\ MemoryInit
    /\ DbInit
    /\ rows_at = [ts \in 0 .. MaxCommitTs |->
                     [p \in Slot |-> IF ts = 1 /\ p \in Preloaded THEN TXN_START_ID ELSE None]]
    /\ acked_ts = 1

OpenStep ==
    \/ create_persisted \/ load_persisted \/ scan_recovered \/ let_go
    \/ \E p \in Slot : roll_back_recovered(p)
    \/ \E t \in TxnId : end_recovered(t)

CheckpointStep == checkpoint_start \/ make_durable \/ checkpoint_end \/ checkpoint_gives_up

RecoveryNext ==
    \/ \E t \in TxnId :
          \/ begin(t) \/ log_first_write(t)
          \/ commit_start(t) \/ commit_end(t) \/ abort_start(t) \/ abort_end(t)
          \/ \E p \in Slot : insert_tuple(t, p) \/ write_version(t, p) \/ stamp(t, p) \/ restore(t, p)
    \/ \E p \in Page : write_to_disk(p)
    \/ CheckpointStep \/ OpenStep \/ WalStep
    \/ close \/ roll_back_fails \/ crash

RecoverySpec == RecoveryInit /\ [][RecoveryNext]_allvars

ResumedSpec == ResumedInit /\ [][RecoveryNext]_allvars

(* open runs to its end once called, and is called again when it failed. *)
RecoveryFairness ==
    /\ WF_allvars(WalStep) /\ WF_allvars(OpenStep) /\ WF_allvars(CheckpointStep)
    /\ WF_allvars(\E p \in Page : write_to_disk(p))

FairResumedSpec == ResumedSpec /\ RecoveryFairness

--------------------------------------------------------------------------------
(* Properties. *)

RowOf(image) ==
    CASE image = Blank -> None
      [] image = Torn -> Torn
      [] OTHER -> image.row

(* The rows as of the last commit: a slot with an uncommitted writer counts *)
(* for the version that writer replaced.                                    *)
CommittedRow(p) ==
    IF \E t \in TxnId : p \in txn[t].writes
    THEN IF undo[p] = None THEN None ELSE undo[p].row
    ELSE RowOf(current(p))

(* After any crash and recovery the tables hold exactly the rows of the    *)
(* last commit the recovered clock names: every transaction is there whole *)
(* or not at all, and the unfinished ones are rolled back (database.rs     *)
(* open: "brings back every durable commit and rolls back the writes of    *)
(* every transaction that had not committed").                             *)
CommittedRows == Up => \A p \in Slot : CommittedRow(p) = rows_at[last_commit_ts][p]

(* A commit whose checkpoint returned is never lost: the recovered clock   *)
(* is at least as new.                                                     *)
DurableCommitsStay == Up => last_commit_ts >= acked_ts

(* Once the database is open, an uncommitted stamp belongs to a running    *)
(* transaction that knows of the write: recovery leaves none behind, and   *)
(* no new transaction gets the id of an old stamp.                         *)
NoOrphanStamps ==
    Up => \A p \in Slot :
            is_txn_id(StampOf(p)) =>
                \E t \in TxnId : t = StampOf(p) /\ txn[t].state = "running" /\ p \in txn[t].writes

(* Rolling back what a crash left unfinished comes to an end: however      *)
(* often open was killed or failed half way, calling it again finds the    *)
(* slots, images and records it needs, logs the ends and reaches its       *)
(* durable point (transaction_manager.rs and database.rs,                  *)
(* roll_back_recovered).  This is about the rollback and the log under it. *)
(* Whether the tables open before it, which needs the page allocation that *)
(* Clocks leaves out, is not part of it.                                   *)
RecoveryCompletes == (stage # "up") ~> Up
================================================================================
