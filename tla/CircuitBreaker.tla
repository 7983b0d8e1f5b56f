--------------------------- MODULE CircuitBreaker ---------------------------
(***************************************************************************)
(* The circuit breaker that guards every flush of the metrics processor:   *)
(* github.com/sony/gobreaker v0.5.0 with the settings that                 *)
(* MakeCircuitBreaker (internal/metrics/processor.go) gives it.  The       *)
(* library is not part of the repository; what is modelled is its          *)
(* documented state machine, as far as the processor can see it:           *)
(*                                                                         *)
(*   closed     requests run; failures of the current interval are counted *)
(*   open       requests are refused with ErrOpenState                     *)
(*   half-open  one request (MaxRequests = 1) is let through as a probe     *)
(*                                                                         *)
(* Only TotalFailures is kept of gobreaker's Counts, because ReadyToTrip   *)
(* reads nothing else.  Time is abstracted: whether the interval (closed)  *)
(* or the timeout (open) has expired when the breaker looks at the clock   *)
(* is the argument "expired" of CurrentState.                              *)
(***************************************************************************)
EXTENDS Naturals

CONSTANT TotalFailures    \* circuitBreakerTotalFailures

ASSUME TotalFailuresAssumption == TotalFailures \in Nat

Closed   == "closed"
Open     == "open"
HalfOpen == "half-open"

Breakers == [state : {Closed, Open, HalfOpen}, failures : Nat, probing : BOOLEAN]

(* A new generation in the given state: the counts are cleared. *)
NewGeneration(state) == [state |-> state, failures |-> 0, probing |-> FALSE]

(* MakeCircuitBreaker: a fresh breaker is closed. *)
MakeCircuitBreaker == NewGeneration(Closed)

(* The state gobreaker derives from the clock before it looks at a request *)
(* and before it records a result.                                         *)
CurrentState(b, expired) ==
  IF expired /\ b.state = Closed THEN NewGeneration(Closed)
  ELSE IF expired /\ b.state = Open THEN NewGeneration(HalfOpen)
  ELSE b

(* A request is admitted unless the breaker is open, or half-open with its *)
(* probe still out (ErrOpenState, ErrTooManyRequests).                     *)
Admits(b) == b.state = Closed \/ (b.state = HalfOpen /\ ~b.probing)

OnRequest(b) == [b EXCEPT !.probing = (b.state = HalfOpen)]

(* The processor's trip condition, which reads "more than"; the variant    *)
(* counts one failure too many.                                            *)
TripsLate(failures) == failures > TotalFailures + 1
ReadyToTrip(failures) == failures > TotalFailures

OnSuccess(b) == IF b.state = HalfOpen THEN NewGeneration(Closed) ELSE b

OnFailure(b) ==
  IF b.state = HalfOpen \/ ReadyToTrip(b.failures + 1)
    THEN NewGeneration(Open)
    ELSE [b EXCEPT !.failures = @ + 1]

(* The result of a request admitted by b.  When the interval expired in    *)
(* the meantime the request belongs to an old generation, and its result   *)
(* is not counted.                                                         *)
AfterRequest(b, success, expired) ==
  LET now == CurrentState(b, expired)
  IN  IF expired /\ b.state = Closed THEN now
      ELSE IF success THEN OnSuccess(now) ELSE OnFailure(now)

=============================================================================
