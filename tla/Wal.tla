----------------------------------- MODULE Wal -----------------------------------
(***************************************************************************)
(* The write-ahead log of wal.rs over the data file of disk.rs.            *)
(*                                                                         *)
(* A record is one log entry; its bytes, length and checksum are           *)
(* abstracted to the rule they implement: after a crash the log is a       *)
(* prefix of the records written, since the first damaged one ends it.     *)
(* Page images and undo images are opaque.                                 *)
(*                                                                         *)
(* Files have two contents: what the operating system shows, and what is   *)
(* on the device.  A killed process loses its memory only; a power loss    *)
(* also loses any part of what was not synced, and may tear pages of the   *)
(* data file.  The DiskManager's store lock serializes the operations, so  *)
(* each is one step; durable_point and open are cut at every fsync, where  *)
(* a crash or an error can hit them.                                       *)
(***************************************************************************)
EXTENDS Naturals, Sequences, FiniteSets

CONSTANTS
    Page, Image, TxnId,
    Blank,                 \* the image of a page nobody wrote
    Torn,                  \* what a half-written page holds
    None,                  \* no image
    CHECKPOINT_LOG_BYTES,  \* in records: a longer log is checkpointed
    MaxLog,                \* bound: records in the log and the buffer
    MaxPoints,             \* bound: durable points
    MaxFailures,           \* bound: I/O errors
    MaxKills, MaxPowerLosses  \* bounds: crashes of each kind

ASSUME WalAssumption ==
    /\ Image \cap {Blank, Torn, None} = {} /\ Cardinality({Blank, Torn, None}) = 3
    /\ {CHECKPOINT_LOG_BYTES, MaxLog, MaxPoints, MaxFailures, MaxKills, MaxPowerLosses} \subseteq Nat

PageRecord(p, i) == [kind |-> "Page", page |-> p, image |-> i]
Writes(t) == [kind |-> "Writes", txn |-> t]
Undo(t, r, i) == [kind |-> "Undo", txn |-> t, rid |-> r, image |-> i]
End(t) == [kind |-> "End", txn |-> t]
(* A durable record holds nothing; n only counts them for the properties. *)
DurableRecord(n) == [kind |-> "Durable", n |-> n]

VARIABLES
    log, log_synced,     \* the log file's records, and how many are on the device
    replaced,            \* logs that a rename replaced while the directory is unsynced
    data, data_synced,   \* the data file's pages, and those on the device
    buffered,            \* transaction records not yet written to the file
    pages,               \* the newest logged image of a page, or None
    dirty,               \* something was logged since the last durable point
    open_txns,           \* the records of transactions that have not ended
    broken,              \* an fsync failed
    pc, todo,            \* where durable_point or open is; the pages it has yet to copy
    opening,             \* whether open is what is in progress
    failures, kills, power_losses,
    points, acked        \* history: the acknowledged durable state and those marked since;
                         \* how many durable points precede them

files == <<log, log_synced, replaced, data, data_synced>>
memory == <<buffered, pages, dirty, open_txns, broken>>
crashes == <<kills, power_losses>>
marks == <<points, acked>>
vars == <<files, memory, pc, todo, opening, failures, crashes, marks>>

--------------------------------------------------------------------------------
(* Logging and reading. *)

Ready == pc = "idle"

(* The newest image: from the log, else from the data file. *)
read_page(p) == IF pages[p] # None THEN pages[p] ELSE data[p]

View == [pages |-> [p \in Page |-> read_page(p)], open |-> open_txns]

Room(n) == Len(log) + Len(buffered) + n <= MaxLog

write_out_with(record) ==
    /\ log' = log \o buffered \o <<record>>
    /\ buffered' = <<>>

log_page(p, i) ==
    /\ Ready /\ ~broken
    /\ Room(1)
    /\ write_out_with(PageRecord(p, i))
    /\ pages' = [pages EXCEPT ![p] = i]
    /\ dirty' = TRUE
    /\ UNCHANGED <<log_synced, replaced, data, data_synced, open_txns, broken, pc, todo, opening,
                   failures, crashes, marks>>

track_open_txn(record) ==
    open_txns' = [open_txns EXCEPT ![record.txn] =
                    IF record.kind = "End" THEN <<>> ELSE Append(@, record)]

log_txn(record) ==
    /\ Ready
    /\ Room(1)
    /\ track_open_txn(record)
    /\ buffered' = Append(buffered, record)
    /\ dirty' = TRUE
    /\ UNCHANGED <<files, pages, broken, pc, todo, opening, failures, crashes, marks>>

--------------------------------------------------------------------------------
(* Durable points and checkpoints. *)

NextPoint == acked + Len(points) + 1

(* Only the last marked state can be returned to from here on. *)
Acknowledge ==
    /\ points' = <<points[Len(points)]>>
    /\ acked' = NextPoint - 2

(* The record that marks the state; it counts once it is on the device. *)
durable_point ==
    /\ Ready /\ ~broken
    /\ dirty
    /\ Room(1) /\ NextPoint <= MaxPoints
    /\ write_out_with(DurableRecord(NextPoint))
    /\ points' = Append(points, View)
    /\ pc' = "sync"
    /\ UNCHANGED <<log_synced, replaced, data, data_synced, pages, dirty, open_txns, broken, todo,
                   opening, failures, crashes, acked>>

LoggedPages == {p \in Page : pages[p] # None}

(* Variant: the durable point is acknowledged without an fsync. *)
fsync_log_skipped == UNCHANGED log_synced

(* After a failed fsync a later one vouches for nothing. *)
fsync_log == log_synced' = IF broken THEN log_synced ELSE Len(log)

sync_log ==
    /\ pc = "sync"
    /\ fsync_log
    /\ dirty' = FALSE
    /\ Acknowledge
    /\ IF Len(log) > CHECKPOINT_LOG_BYTES
       THEN pc' = "copy" /\ todo' = LoggedPages
       ELSE pc' = "idle" /\ UNCHANGED todo
    /\ UNCHANGED <<log, replaced, data, data_synced, buffered, pages, open_txns, broken, opening,
                   failures, crashes>>

(* Copies one logged page into the data file. *)
checkpoint_copy(p) ==
    /\ pc = "copy"
    /\ p \in todo
    /\ data' = [data EXCEPT ![p] = pages[p]]
    /\ todo' = todo \ {p}
    /\ UNCHANGED <<log, log_synced, replaced, data_synced, memory, pc, opening, failures, crashes,
                   marks>>

(* Variant: the log is replaced before the data file is synced. *)
checkpoint_sync_data_skipped ==
    /\ pc = "copy"
    /\ todo = {}
    /\ pc' = "install"
    /\ UNCHANGED <<log, log_synced, replaced, data, data_synced, memory, todo, opening, failures,
                   crashes, marks>>

checkpoint_sync_data ==
    /\ pc = "copy"
    /\ todo = {}
    /\ data_synced' = data
    /\ pc' = "install"
    /\ UNCHANGED <<log, log_synced, replaced, data, memory, todo, opening, failures, crashes, marks>>

(* Variant: running transactions are not carried into the fresh log. *)
FreshWithoutOpenTxns(n) == <<DurableRecord(n)>>

(* Variant: the fresh log does not end in a durable point. *)
FreshWithoutDurable(n) == open_txns[CHOOSE t \in TxnId : TRUE]

(* The log that replaces the old one: the open transactions' records, a    *)
(* transaction's together, and a durable point.                            *)
Fresh(n) ==
    LET records[ts \in SUBSET TxnId] ==
            IF ts = {} THEN <<>>
            ELSE LET t == CHOOSE t \in ts : TRUE IN open_txns[t] \o records[ts \ {t}]
    IN  records[TxnId] \o <<DurableRecord(n)>>

(* Writes the fresh log aside, syncs it and renames it over the old one.   *)
(* Until the directory is synced, a power loss may bring the old one back. *)
checkpoint_install ==
    /\ pc = "install"
    /\ log' = Fresh(NextPoint - 1)
    /\ log_synced' = Len(log')
    /\ replaced' = replaced \cup {[log |-> log, log_synced |-> log_synced]}
    /\ buffered' = <<>>
    /\ pages' = [p \in Page |-> None]
    /\ dirty' = FALSE
    /\ pc' = "dirsync"
    /\ UNCHANGED <<data, data_synced, open_txns, broken, todo, opening, failures, crashes, marks>>

(* The last step: it ends durable_point, or open, whose caller then uses   *)
(* the store, so what it recovered counts as acknowledged.                 *)
checkpoint_sync_dir ==
    /\ pc = "dirsync"
    /\ replaced' = {}
    /\ pc' = "idle"
    /\ opening' = FALSE
    /\ Acknowledge
    /\ UNCHANGED <<log, log_synced, data, data_synced, memory, todo, failures, crashes>>

--------------------------------------------------------------------------------
(* I/O errors. *)

Fail == failures < MaxFailures /\ failures' = failures + 1

sync_log_fails ==
    /\ pc = "sync"
    /\ Fail
    /\ broken' = TRUE
    /\ pc' = "idle"
    /\ UNCHANGED <<files, buffered, pages, dirty, open_txns, todo, opening, crashes, marks>>

Forget ==
    /\ buffered' = <<>>
    /\ pages' = [p \in Page |-> None]
    /\ open_txns' = [t \in TxnId |-> <<>>]
    /\ dirty' = FALSE /\ broken' = FALSE /\ opening' = FALSE
    /\ pc' = "closed" /\ todo' = {}

(* A checkpoint gives up: on a read or write error, or on a failed fsync,  *)
(* which breaks the log.  A durable point only warns of it; open fails.    *)
checkpoint_fails ==
    /\ pc \in {"copy", "install", "dirsync"}
    /\ Fail
    /\ IF opening
       THEN Forget
       ELSE /\ broken' \in (IF pc = "install" THEN BOOLEAN
                             ELSE {pc = "dirsync" \/ todo = {}})
            /\ pc' = "idle" /\ todo' = {}
            /\ UNCHANGED <<buffered, pages, dirty, open_txns, opening>>
    /\ UNCHANGED <<files, crashes, marks>>

--------------------------------------------------------------------------------
(* Replay. *)

LastDurable(l) ==
    LET at == {i \in DOMAIN l : l[i].kind = "Durable"}
    IN  IF at = {} THEN 0 ELSE CHOOSE i \in at : \A j \in at : j <= i

(* Only records up to the last durable point count. *)
replay(l) == SubSeq(l, 1, LastDurable(l))

(* The newest image of each page among records. *)
NewestImages(l) ==
    [p \in Page |->
        LET at == {i \in DOMAIN l : l[i].kind = "Page" /\ l[i].page = p}
        IN  IF at = {} THEN None ELSE l[CHOOSE i \in at : \A j \in at : j <= i].image]

(* What is left of each transaction's records once ended ones are removed. *)
Unfinished(l) ==
    [t \in TxnId |->
        LET Of(record) == record.kind \in {"Writes", "Undo", "End"} /\ record.txn = t
            mine == SelectSeq(l, Of)
            ends == {i \in DOMAIN mine : mine[i].kind = "End"}
        IN  SubSeq(mine, 1 + (IF ends = {} THEN 0 ELSE CHOOSE i \in ends : \A j \in ends : j <= i),
                   Len(mine))]

open ==
    /\ pc = "closed"
    /\ pages' = NewestImages(replay(log))
    /\ open_txns' = Unfinished(replay(log))
    /\ buffered' = <<>> /\ dirty' = FALSE /\ broken' = FALSE
    /\ opening' = TRUE
    /\ pc' = "copy" /\ todo' = {p \in Page : pages'[p] # None}
    /\ UNCHANGED <<files, failures, crashes, marks>>

--------------------------------------------------------------------------------
(* Crashes. *)

(* The durable point the log at hand leads back to. *)
PointOf(l) == IF LastDurable(l) = 0 THEN 1 ELSE l[LastDurable(l)].n

(* The marks from there on are gone; the acknowledged one never may be. *)
Rewind(l) ==
    /\ points' = SubSeq(points, 1, IF PointOf(l) > acked THEN PointOf(l) - acked ELSE 1)
    /\ UNCHANGED acked

(* The process dies; what it wrote stays in the operating system's cache. *)
kill ==
    /\ kills < MaxKills /\ kills' = kills + 1
    /\ pc # "closed"
    /\ Forget
    /\ Rewind(log)
    /\ UNCHANGED <<files, failures, power_losses>>

(* The machine stops: any part of what was not synced is gone, and a page  *)
(* being written may be torn.                                              *)
power_loss ==
    /\ power_losses < MaxPowerLosses /\ power_losses' = power_losses + 1
    /\ Forget
    /\ \E found \in replaced \cup {[log |-> log, log_synced |-> log_synced]} :
          \E n \in found.log_synced .. Len(found.log) : log' = SubSeq(found.log, 1, n)
    /\ log_synced' = Len(log')
    /\ replaced' = {}
    /\ LET unsynced == {p \in Page : data[p] # data_synced[p]}
       IN  \E kept \in SUBSET unsynced : \E torn \in SUBSET unsynced :
             data' = [p \in Page |-> IF p \in torn THEN Torn
                                     ELSE IF p \in kept THEN data[p] ELSE data_synced[p]]
    /\ data_synced' = data'
    /\ Rewind(log')
    /\ UNCHANGED <<failures, kills>>

--------------------------------------------------------------------------------
(* Before open; what the files lead to counts as acknowledged. *)
MemoryInit ==
    /\ buffered = <<>> /\ pages = [p \in Page |-> None]
    /\ open_txns = [t \in TxnId |-> <<>>]
    /\ dirty = FALSE /\ broken = FALSE /\ opening = FALSE
    /\ pc = "closed" /\ todo = {}
    /\ failures = 0 /\ kills = 0 /\ power_losses = 0
    /\ points = <<View>> /\ acked = 0

(* A fresh directory: no log yet, no page written. *)
Init ==
    /\ log = <<>> /\ log_synced = 0 /\ replaced = {}
    /\ data = [p \in Page |-> Blank] /\ data_synced = data
    /\ MemoryInit

TxnRecord ==
    {Writes(t) : t \in TxnId} \cup {End(t) : t \in TxnId}
        \cup {Undo(t, r, i) : t \in TxnId, r \in Page, i \in Image}

(* The log's own steps, whoever drives it. *)
Step ==
    \/ durable_point \/ sync_log \/ sync_log_fails
    \/ \E p \in Page : checkpoint_copy(p)
    \/ checkpoint_sync_data \/ checkpoint_install \/ checkpoint_sync_dir \/ checkpoint_fails
    \/ open

Next ==
    \/ \E p \in Page, i \in Image : log_page(p, i)
    \/ \E record \in TxnRecord : log_txn(record)
    \/ Step
    \/ kill \/ power_loss

Spec == Init /\ [][Next]_vars

--------------------------------------------------------------------------------
(* Properties. *)

(* The state that opening the files at hand recovers. *)
RecoveredView ==
    LET durable == replay(log)
    IN  [pages |-> [p \in Page |-> IF NewestImages(durable)[p] # None
                                    THEN NewestImages(durable)[p] ELSE data[p]],
         open |-> Unfinished(durable)]

Closed == pc = "closed" \/ opening

Abstract == INSTANCE DurablePoints WITH
    mode <- IF Closed THEN "down" ELSE IF Ready THEN "open" ELSE "marking",
    now <- IF Closed THEN RecoveredView ELSE View

(* The log keeps what wal.rs promises of durable points: whatever crash or *)
(* failed fsync comes when, opening the files leads to exactly the pages   *)
(* and open transactions of one durable point, no older than the last      *)
(* acknowledged one.  No step of a durable point or of the checkpoint in   *)
(* it, failed ones included, changes what is read, and none of open        *)
(* changes what it recovers.                                               *)
ImplementsDurablePoints == Abstract!Spec

(* The shape of the files and of the Wal's memory; once the log is clean,  *)
(* nothing is buffered and its file ends in a durable point.               *)
TypeOK ==
    /\ log_synced \in 0 .. Len(log)
    /\ data \in [Page -> Image \cup {Blank, Torn}]
    /\ data_synced \in [Page -> Image \cup {Blank, Torn}]
    /\ pages \in [Page -> Image \cup {None}]
    /\ DOMAIN open_txns = TxnId
    /\ pc \in {"closed", "idle", "sync", "copy", "install", "dirsync"}
    /\ todo \subseteq LoggedPages
    /\ pc = "idle" /\ ~dirty => buffered = <<>> /\ LastDurable(log) = Len(log)
================================================================================
