---------------------------- MODULE MetricsPipe -----------------------------
(***************************************************************************)
(* What the metrics processor promises to its callers, without channel,    *)
(* goroutine, batch, breaker or retry: a first-in first-out pipe.  Metrics *)
(* are accepted until the pipe is closed, and leave it from the front, a   *)
(* whole run of them at a time.  Those that leave have been delivered, or, *)
(* if the pipe may lose metrics, have been given up.  Nothing moves once   *)
(* the closing call has returned.                                          *)
(***************************************************************************)
EXTENDS Naturals, Sequences

CONSTANT MayLose    \* a batch that fails is given up and not kept

VARIABLES
  phase,      \* "open", "closed" to new metrics, or "returned"
  accepted,   \* number of metrics accepted; they are named 1, 2, ...
  held,       \* the metrics in the pipe
  out,        \* the metrics that have left, in order
  delivered   \* the metrics known to be delivered

vars == <<phase, accepted, held, out, delivered>>

Init ==
  /\ phase = "open" /\ accepted = 0
  /\ held = <<>> /\ out = <<>> /\ delivered = {}

Accept ==
  /\ phase = "open"
  /\ accepted' = accepted + 1
  /\ held' = Append(held, accepted + 1)
  /\ UNCHANGED <<phase, out, delivered>>

Settle ==
  /\ phase # "returned"
  /\ \E k \in 1 .. Len(held) :
       LET front == SubSeq(held, 1, k)
       IN  /\ out' = out \o front
           /\ held' = SubSeq(held, k + 1, Len(held))
           /\ \/ delivered' = delivered \cup {front[i] : i \in 1 .. k}
              \/ MayLose /\ UNCHANGED delivered
  /\ UNCHANGED <<phase, accepted>>

Close ==
  /\ phase = "open" /\ phase' = "closed"
  /\ UNCHANGED <<accepted, held, out, delivered>>

Return ==
  /\ phase = "closed" /\ phase' = "returned"
  /\ UNCHANGED <<accepted, held, out, delivered>>

Next == Accept \/ Settle \/ Close \/ Return

Spec == Init /\ [][Next]_vars

=============================================================================
