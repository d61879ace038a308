# cmudb in TLA+

A verification project for cmudb, a relational database in Rust: TLA+ models of its
transactional core, model-checked with TLC, and theorems about them checked by TLAPS. Source
paths are relative to the crate (`src/wal.rs`); `PROJECT.json` maps every definition to its
lines.

## The system

| Part | State | Operations | What is hard about it |
| --- | --- | --- | --- |
| Transactions, MVCC (`src/concurrency/`) | clocks, commit latch, running snapshots, undo chains, write sets | begin, read, insert, update, delete, commit, abort, garbage collection | many sessions; commit and abort go slot by slot and can fail half way; collectors work with a watermark computed earlier |
| Write-ahead log (`src/wal.rs`) | log file, buffered records, newest images, open transactions' records | log page, log transaction record, durable point, checkpoint, open | crashes between any two writes or fsyncs, failed fsyncs, torn pages, a rename that is not yet durable |
| Durability and recovery (`src/database.rs`, `src/database_file.rs`) | metadata chain, stage of open/close | checkpoint, open, rollback of unfinished transactions, close, drop | pages carry uncommitted versions to disk; recovery itself crashes or fails |
| Session (`src/database.rs`) | no block, open, failed, abort pending | BEGIN, COMMIT, ROLLBACK, autocommit, retry of an abort | one session shared by threads; an abort that failed |
| Buffer pool (`src/buffer_pool.rs`), ARC replacer (`src/replacer.rs`), disk scheduler (`src/disk.rs`) | frames, pins, page table, free lists, four lists with ghosts | new, read, write, delete, flush, evict | lookup and latch are two steps; failed write-back; a pool with every frame pinned |
| Table heap and page (`src/table_heap.rs`, `src/table_page.rs`) | slots and their regions, page links, tail | insert, update in place, compaction, iteration, free | regions must never overlap; iteration beside inserts |
| B+ tree (`src/index/`) | header, inner pages, leaves, tombstones | insert, remove, search, scan | crabbing, splits and merges beside scans that hold no latch |
| Catalog (`src/catalog/`) | tables, indexes, schemas | create, drop, restore | CREATE INDEX beside writers |
| Executors (`src/processor/`) | per-operator buffers, spilled runs and partitions | open, next_batch, close | spilling; freeing scratch pages on every path |
| Binder, planner (`src/parser.rs`, `src/planner.rs`) | none | translation | pure functions |

How the parts meet: the session runs statements in transactions; writes go to heap pages in the
buffer pool under a page latch, and their undo records to the log before the page can get there.
A commit stamps its slots, publishes its timestamp and logs its end; the session then runs
`Database::checkpoint`, which holds the commit latch while it writes the clocks, flushes the pool
and records a durable point. `Database::open` replays the log to its last durable point and rolls
back every transaction without an `End` there.

## Modules

| Module | Models |
| --- | --- |
| `SnapshotIsolation` | abstract: what transactions are promised |
| `Mvcc` | `transaction.rs`, `transaction_manager.rs`, `mvcc.rs` |
| `MvccInvariant`, `MvccLemmas`, `MvccSteps`, `MvccProofs` | the inductive invariant of `Mvcc`, lemmas, one lemma per action, the theorems |
| `DurablePoints` | abstract: what a log with durable points promises |
| `Wal` | `wal.rs`, and the logged half of `disk.rs` |
| `Recovery` | extends `Wal` with transactions, a write-back pool, `Database::checkpoint`, `open`, `close` and crashes |
| `MCMvcc`, `MCWal`, `MCRecovery` | small instances for TLC |

Definitions carry the names of the functions they model. A definition whose comment starts with
"Variant" is a plausible wrong version of the one that follows; it is used by no specification,
only to see that a property notices it.

### Mvcc

A step is what the code does under one page latch (a slot together with its undo chain), under
the lock of the running map, or on publishing a commit. `commit` is `commit_start`, a `stamp` for
each slot, `publish` and `commit_end`; a stamp that fails leads through `unstamp` to
`commit_undone`, or, when undoing fails as well, to `commit_not_undone`. `abort` is `abort_start`,
a `roll_back` for each slot and `abort_end`; `roll_back_fails` returns early and keeps the rest of
the write set. `garbage_collect` is `gc_watermark`, `gc_list`, a `gc_slot` for each chain and
`gc_end`. A read (`visible_version`) changes nothing and is an operator that properties evaluate in
every state. In the code a reader takes the head of a chain under the page latch and walks it
afterwards, perhaps while a collector cuts it. Entries are reference-counted and, as
`CollectorsKeepWhatIsRead` says, a cut changes no registered transaction's read, so walking in one
step loses no behaviour. A row's bytes are abstracted to who wrote them. `hist`, `wrote` and
`buffer` are history: what each commit left, what it wrote, and what each transaction wrote. A
transaction writes only rows it sees, since executors find rows by reading them.

### Wal

Files have two contents, what the operating system shows and what is on the device. `kill` loses
the process's memory. `power_loss` also loses any suffix of the log's unsynced records, keeps,
loses or tears each unsynced page of the data file, and may undo a rename whose directory was not
synced. The store lock makes each operation one step; `durable_point` and `open` are cut at every
fsync, so a crash or an error can hit them there. A record's bytes and checksum become the rule they
implement: the first damaged record ends the log. `points` and `acked` are history. `DurablePoints`
lets clients change the store only between durable points, so the refinement also says that no step
of `durable_point` and of the checkpoint in it changes what is read.

### Recovery

A page holds one tuple slot, or the clocks of the metadata chain. A clean frame holds what the log
would return, so only dirty frames are state; `write_to_disk` is a page reaching the log by eviction
or by `flush_all`. `flush_all` visits frames one by one without stopping writers, so it guarantees
only that a page dirty from its start to its end is written: `left` tracks that. Opening passes
through the log's own `open`, `create_persisted` or `load_persisted`, `scan_recovered`, which
collects the slots an unfinished transaction stamped, `roll_back_recovered` for each of them,
`end_recovered` for each transaction, and a checkpoint. When any of this fails, the database
value is dropped, which runs `shut_down` and its checkpoint on whatever was rolled back so far
(stage "closing"). Updates stand for deletes, which log the same undo record and are found and
restored the same way. Version chains and failing commits are left to `Mvcc`. The metadata
is reduced to the clocks: the page allocation it also holds can make a table fail to open, which
this model, and `RecoveryCompletes` with it, does not cover.

## What is checked

| Run | Properties | Shows |
| --- | --- | --- |
| `mvcc` | `TypeOK`, `SnapshotReads`, `RollbackReady`, `WatermarkBelowReaders`, `ImplementsSnapshotIsolation` | three transactions, two rows (one preloaded), one storage error, one collector, 1.1M states |
| `mvcc_failures` | `PublishedVersionsStay`, `CollectorsKeepWhatIsRead` | two collectors, two storage errors, undoing a commit may fail, 0.4M states: published versions are never rewritten, and no collector takes a version that a registered transaction reads or needs to roll back |
| `mvcc_liveness` | `TaintedIsRolledBack` | retried aborts come to an end, as long as a failed commit can be undone (`UnstampMayFail` is false) |
| `mvcc_unstamp` | `SnapshotReads` is violated | see Findings |
| `wal_kill` | `TypeOK`, `ImplementsDurablePoints` | two pages, one transaction, two kills, one failed I/O: `Wal` implements `DurablePoints` |
| `wal_power` | `ImplementsDurablePoints` | the same with two power losses |
| `wal_kill_then_power` | `ImplementsDurablePoints` is violated | see Findings |
| `recovery_kill` | `CommittedRows`, `DurableCommitsStay`, `NoOrphanStamps` | resumed; two overlapping transactions on a committed row, two kills, 2.8M states |
| `recovery_power` | `CommittedRows` | resumed; a transaction updates one row and inserts another, two power losses, a log checkpoint at every durable point, 1.2M states |
| `recovery_power_log` | `CommittedRows`, `DurableCommitsStay`, `NoOrphanStamps` | fresh directory; two transactions, one row, one power loss, over a log that keeps whole transactions between checkpoints, 1.4M states |
| `recovery_failures` | `CommittedRows`, `NoOrphanStamps` | resumed; an update and an insert, an I/O error and a kill, 4.5M states |
| `recovery_liveness` | `RecoveryCompletes` | resumed; after two kills and a failure the rollback that open runs still reaches its durable point |

"Resumed" runs start from `ResumedInit`, a directory with committed rows, so that every write of
`s1` is an update with an undo record; `recovery_power_log` starts from an empty directory and
covers its creation. A power loss that happens to lose nothing is a kill, so the kills of a
database being created are covered there too.

### Bounds

- `Mvcc`: three transactions are a reader, a writer and a later committer, what every anomaly of
  snapshot isolation takes; two rows let a commit or an abort be half done. `MaxCommitTs` exceeds
  what the transactions can reach. One error at a time is what a failed commit or abort takes; two
  are needed for a retry to fail or for undoing to fail.
- `Wal`: `CHECKPOINT_LOG_BYTES` counts records. A log of four records holds a transaction record,
  both pages and a durable point, and outgrows the limit, so checkpoints happen in the middle. The
  bound on durable points lets a run take a second one after a recovery.
- `Recovery`: `MaxLog` and `MaxPoints` are large enough for an uncommitted update that reaches the
  log, a crash, a rollback interrupted by a second crash, and another rollback. In `recovery_power`
  and `recovery_failures` that holds for a transaction with two rows, one updated and one inserted:
  this is where half a transaction could come back. In `recovery_kill` a row passes from one
  running transaction to another when the first aborts. In the liveness run no bound stops a step
  that fairness asks for.
- `recovery_power` uses a checkpoint limit of two records, so every durable point is followed by a
  checkpoint and power is lost inside one; that checkpoint also syncs the log, so
  `recovery_power_log` raises the limit to six, where an acknowledged commit rests on `fsync_log`
  alone.
- Deadlock is not checked in `Wal` and `Recovery`, where the bounds stop a run.

### Fairness

`commit` and `abort` run to their end once called (weak fairness of their steps), and a session
whose transaction is tainted calls abort again before anything else (`retry_pending_abort`); the
latch it needs is free again and again, hence strong fairness. In `Recovery`, `open` and a
checkpoint are straight-line code, so each has weak fairness, and whoever wants the database opens
it again after a failure.

## What is proved

`MvccProofs` proves, for any number of transactions, rows, collectors and errors,
`Spec => []TypeOK`, `[]WatermarkBelowReaders`, `[]SnapshotReads` and `[]RollbackReady`, and the
action property `CollectorsKeepWhatIsRead`. They assume `ConstantsAssumption` (timestamps stay below
`TXN_START_ID`) and `~UnstampMayFail`: without the latter `SnapshotReads` is false (see Findings),
and with it the invariant they all follow from.

None of the four invariants is inductive. The invariant `IInv` of `MvccInvariant` adds:

- `HandlesInv`: what a handle's state says about its place in commit or abort, the latch and its
  write set;
- `OwnerInv`: a written slot carries its writer's id, or the timestamp of the commit in progress,
  and its chain starts with what the writer pushed;
- `StampInv`: conversely, every stamp is explained by an unfinished writer, the commit in progress
  or a past commit;
- `RunningInv`: the running map counts registered transactions, so its smallest key is the oldest
  snapshot;
- `GcInv`: a watermark in use is at most every registered snapshot and the newest commit, which
  `begin` preserves because snapshots are never older than the newest commit;
- `HistoryInv`: slot and chain together reproduce every commit that is the newest or that somebody
  reads as of. It is what pushing, restoring, stamping and cutting must preserve; the lemmas
  `ChainReadPush`, `ChainReadCut` and `ChainReadSettled` say that they do.

`MvccSteps` and `MvccProofs` have one lemma per action; `NextInv` joins them.

Only model-checked: the refinements (`ImplementsSnapshotIsolation`, `ImplementsDurablePoints`),
everything about `Wal` and `Recovery`, and all liveness, which is out of this prover's reach.

## Findings

1. `commit` that cannot undo itself (`src/concurrency/transaction_manager.rs:233`). A slot keeps
   the timestamp `last_commit_ts + 1`; abort refuses it, and the next commit publishes it. The model
   check shows a dirty read; `docs/mvcc.md` says they are prevented.
2. `Wal::open` acts on an unsynced log (`src/wal.rs:187`). After a kill the log's last durable point
   may be in the cache only. open copies its pages into the data file; a power loss before the new
   log is in place brings back an older log over newer or torn pages. Kills alone and power losses
   alone are safe, which the passing runs show.

## Not modelled, and the plan

The data of a row beyond its identity, SQL text, binding and planning, and the shell are left out:
they are pure functions or I/O. The rest is planned in this order.

1. `Checkpoint`: the page allocation in the metadata chain, heap page links and two-page index
   updates across `flush_all` and a crash.
2. `UniqueIndex`: `check_unique`, index entries, `move_tuple`, CREATE INDEX beside writers; composed
   with the rules of `Mvcc`.
3. `Session`: blocks, autocommit, failed and pending aborts, collection and checkpoint after a
   commit; liveness of a pending abort.
4. `Replacer` (capacity invariants, undone evictions) and `BufferPool` (pins, latches, page table,
   failed reads and write-backs), the pool implementing a plain page store.
5. `TablePage` (disjoint regions, counters) and `TableHeap` (tail, links, iteration).
6. `BPlusTree`: crabbing, splits, merges, scans, against a map from keys to values.
7. Executors that spill, window peer groups, timestamps and order-preserving keys, as algorithms
   checked against reference definitions.
8. Proofs: an inductive invariant for `Wal`, the refinement of `SnapshotIsolation`, invariants of
   `Replacer` and `TablePage`.
