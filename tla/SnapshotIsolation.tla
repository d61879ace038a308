--------------------------- MODULE SnapshotIsolation ---------------------------
(***************************************************************************)
(* What cmudb promises its transactions (docs/mvcc.md, "Isolation level"): *)
(* a transaction reads the database as the commits before it left it, plus *)
(* its own writes; a commit takes effect at one instant; and of two        *)
(* concurrent writers of a row at most one commits.                        *)
(*                                                                         *)
(* Row contents are sets of at most one datum: {} is "no live row".        *)
(* Module Mvcc implements this specification with undo chains, stamps,     *)
(* a commit latch and garbage collection.                                  *)
(***************************************************************************)
EXTENDS Naturals

CONSTANTS
    Txn,        \* the transactions
    Rid,        \* the record ids
    Data,       \* what a row can hold
    Timestamp   \* the commit timestamps, an interval of naturals

VARIABLES
    last,       \* the newest commit
    db,         \* db[k]: what the commits up to k left in every row
    wrote,      \* wrote[k]: the rows commit k wrote
    status,     \* what became of each transaction
    snap,       \* the commit each transaction reads as of
    buffer      \* each transaction's own writes, by row

vars == <<last, db, wrote, status, snap, buffer>>

Content == {{}} \cup {{d} : d \in Data}

(* No commit since the snapshot of t wrote r. *)
UnwrittenSince(t, r) == \A k \in snap[t] + 1 .. last : r \notin wrote[k]

(* What t reads in row r. *)
View(t, r) == IF r \in DOMAIN buffer[t] THEN buffer[t][r] ELSE db[snap[t]][r]

Begin(t) ==
    /\ status[t] = "unborn"
    /\ status' = [status EXCEPT ![t] = "active"]
    /\ snap' = [snap EXCEPT ![t] = last]
    /\ UNCHANGED <<last, db, wrote, buffer>>

(* The first writer of a row wins; a later one must not start writing it. *)
Write(t, r, c) ==
    /\ status[t] = "active"
    /\ \A u \in Txn \ {t} : status[u] = "active" => r \notin DOMAIN buffer[u]
    /\ UnwrittenSince(t, r)
    /\ buffer' = [buffer EXCEPT ![t] =
                    [x \in DOMAIN buffer[t] \cup {r} |-> IF x = r THEN c ELSE buffer[t][x]]]
    /\ UNCHANGED <<last, db, wrote, status, snap>>

CommitReadOnly(t) ==
    /\ status[t] = "active"
    /\ DOMAIN buffer[t] = {}
    /\ status' = [status EXCEPT ![t] = "committed"]
    /\ UNCHANGED <<last, db, wrote, snap, buffer>>

(* All writes of t appear at once, and none of them buries a commit that t *)
(* did not see.                                                            *)
Commit(t) ==
    /\ status[t] = "active"
    /\ DOMAIN buffer[t] # {}
    /\ \A r \in DOMAIN buffer[t] : UnwrittenSince(t, r)
    /\ last + 1 \in Timestamp
    /\ last' = last + 1
    /\ db' = [db EXCEPT ![last + 1] =
                [r \in Rid |-> IF r \in DOMAIN buffer[t] THEN buffer[t][r] ELSE db[last][r]]]
    /\ wrote' = [wrote EXCEPT ![last + 1] = DOMAIN buffer[t]]
    /\ status' = [status EXCEPT ![t] = "committed"]
    /\ UNCHANGED <<snap, buffer>>

(* A transaction that will not commit leaves the database as it was. *)
Abort(t) ==
    /\ status[t] = "active"
    /\ status' = [status EXCEPT ![t] = "aborted"]
    /\ UNCHANGED <<last, db, wrote, snap, buffer>>

Init ==
    /\ last \in Timestamp
    /\ db \in [Timestamp -> [Rid -> Content]]
    /\ wrote = [k \in Timestamp |-> {}]
    /\ status = [t \in Txn |-> "unborn"]
    /\ snap = [t \in Txn |-> 0]
    /\ buffer = [t \in Txn |-> [r \in {} |-> {}]]

Next ==
    \E t \in Txn :
        \/ Begin(t)
        \/ \E r \in Rid, c \in Content : Write(t, r, c)
        \/ CommitReadOnly(t)
        \/ Commit(t)
        \/ Abort(t)

Spec == Init /\ [][Next]_vars
================================================================================
