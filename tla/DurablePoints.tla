------------------------------ MODULE DurablePoints ------------------------------
(***************************************************************************)
(* What a log with durable points promises, free of files and fsyncs.      *)
(* Clients of an open store change it; a durable point marks a state of    *)
(* it, and clients see that state until the call returns, whatever is      *)
(* moved between files meanwhile.  Once a durable point is acknowledged,   *)
(* no crash takes the store back before it; a crash always leads to one of *)
(* the marked states, never to a mixture, and opening the store changes    *)
(* nothing more.                                                           *)
(***************************************************************************)
EXTENDS Naturals, Sequences

VARIABLES
    mode,   \* "down", "open" to clients, or "marking" a durable point
    now,    \* the state clients see, or that opening the store would show them
    points  \* the acknowledged state, then the states marked since, oldest first

vars == <<mode, now, points>>

Init == mode = "down" /\ points = <<now>>

Change == mode = "open" /\ now' # now /\ UNCHANGED <<mode, points>>

Mark == mode = "open" /\ mode' = "marking" /\ points' = Append(points, now) /\ UNCHANGED now

(* The last marked state is safe; the call returns, or has more to do. *)
Acknowledge ==
    /\ mode = "marking" /\ mode' \in {"marking", "open"}
    /\ points' = <<points[Len(points)]>>
    /\ UNCHANGED now

Return == mode = "marking" /\ mode' = "open" /\ UNCHANGED <<now, points>>

(* A crash takes the store back to a marked state no older than the        *)
(* acknowledged one.                                                       *)
Crash ==
    \E k \in 1 .. Len(points) : now' = points[k] /\ points' = SubSeq(points, 1, k) /\ mode' = "down"

(* Clients see what was recovered, so from here on it is acknowledged. *)
Open ==
    mode = "down" /\ mode' = "open" /\ points' = <<points[Len(points)]>> /\ UNCHANGED now

Next == Change \/ Mark \/ Acknowledge \/ Return \/ Crash \/ Open

Spec == Init /\ [][Next]_vars
================================================================================
