----------------------------- MODULE Processor ------------------------------
(***************************************************************************)
(* The metrics processor of internal/metrics/processor.go: goroutines that *)
(* call AddMetric put metrics on a buffered channel; one background        *)
(* goroutine (processMetrics) collects them into a batch and sends the     *)
(* batch through the API client on every tick and when the channel is      *)
(* closed; FinishProcessing closes the channel and waits for the last      *)
(* flush; the invocation's context may be cancelled at any moment.         *)
(*                                                                         *)
(* A metric is named by the position at which the channel accepted it, so  *)
(* that order, loss and duplication can be stated.  How the batcher groups *)
(* the metrics of a batch by key is the subject of module Batcher; here a  *)
(* batch is the sequence of the metrics in it.                             *)
(***************************************************************************)
EXTENDS CircuitBreaker, Sequences, FiniteSets

CONSTANTS
  Senders,            \* goroutines of the instrumented function that send metrics
  ChanCap,            \* capacity of metricsChan (2000 in the code)
  MaxMetrics,         \* bound of the model: how many metrics are sent
  ShouldRetryOnFail,  \* the configuration flag shouldRetryOnFail
  JoinsSenders        \* the handler returns only when its senders are done

ASSUME ProcessorAssumption ==
  /\ IsFiniteSet(Senders)
  /\ ChanCap \in Nat \ {0}
  /\ MaxMetrics \in Nat
  /\ ShouldRetryOnFail \in BOOLEAN
  /\ JoinsSenders \in BOOLEAN

VARIABLES
  ctxDone,          \* the invocation's context is done
  metricsChan,      \* contents of the channel
  chanClosed,       \* close(metricsChan) has run
  added,            \* number of metrics the channel has accepted
  sender,           \* state of each sending goroutine
  panicked,         \* a send on the closed channel brought the process down
  owner,            \* progress of the goroutine that starts and finishes
  isProcessing,     \* the processor's flag of that name
  waitGroup,        \* the counter of the processor's sync.WaitGroup
  pc,               \* where each processMetrics goroutine stands
  shouldExit,       \* local variable of processMetrics
  shouldSendBatch,  \* local variable of processMetrics
  ticker,           \* a tick waits in the goroutine's ticker channel
  attempt,          \* calls of sendMetricsBatch in the current flush
  mts,              \* local variable of sendMetricsBatch: the batch being sent
  batcher,          \* the processor's current batch
  breaker,          \* the processor's circuit breaker
  settled,          \* history: metrics that left the processor, in order
  acked,            \* history: metrics whose SendMetrics returned nil
  arrived,          \* history: metrics the API has received
  duplicated,       \* history: metrics the API has received more than once
  lastFlush,        \* history: how the last breaker.Execute ended
  lateFlushes       \* history: Execute calls made when the context was done

callerVars  == <<sender, panicked, owner>>
workerVars  == <<pc, shouldExit, shouldSendBatch, ticker, attempt, mts>>
sharedVars  == <<isProcessing, waitGroup>>
historyVars == <<settled, acked, arrived, duplicated, lastFlush, lateFlushes>>
vars == <<ctxDone, metricsChan, chanClosed, added, callerVars, sharedVars,
          workerVars, batcher, breaker, historyVars>>

(* FinishProcessing runs once, so at most two goroutines ever exist: the   *)
(* one StartProcessing starts, and a second one that FinishProcessing      *)
(* starts when the first has already stopped.                              *)
Workers == {1, 2}

(* backoff.WithMaxRetries(..., 2): the first try and two retries. *)
MaxAttempts == 3

(* Inside the processMetrics loop, up to the point where isProcessing is   *)
(* reset.                                                                  *)
InLoop == {"select", "check", "execute", "batch", "sending", "lateSend", "exiting"}
Live   == InLoop \cup {"leaving"}

Elements(seq) == {seq[i] : i \in DOMAIN seq}

-----------------------------------------------------------------------------
(* MakeProcessor *)
Init ==
  /\ ctxDone = FALSE
  /\ metricsChan = <<>> /\ chanClosed = FALSE /\ added = 0
  /\ sender = [s \in Senders |-> "idle"] /\ panicked = FALSE
  /\ owner = "made"
  /\ isProcessing = FALSE /\ waitGroup = 0
  /\ pc = [w \in Workers |-> "none"]
  /\ shouldExit = [w \in Workers |-> FALSE]
  /\ shouldSendBatch = [w \in Workers |-> FALSE]
  /\ ticker = [w \in Workers |-> FALSE]
  /\ attempt = [w \in Workers |-> 0]
  /\ mts = [w \in Workers |-> <<>>]
  /\ batcher = <<>> /\ breaker = MakeCircuitBreaker
  /\ settled = <<>> /\ acked = {} /\ arrived = {} /\ duplicated = {}
  /\ lastFlush = "none" /\ lateFlushes = 0

-----------------------------------------------------------------------------
(* The environment: the Lambda deadline or the end of the invocation       *)
(* cancels the context, and the ticker of a live goroutine fires; a tick   *)
(* that finds one waiting is dropped, as time.Ticker does.                 *)
Cancel ==
  /\ ~ctxDone
  /\ ctxDone' = TRUE
  /\ UNCHANGED <<metricsChan, chanClosed, added, callerVars, sharedVars,
                 workerVars, batcher, breaker, historyVars>>

Tick(w) ==
  /\ pc[w] \in InLoop /\ ~ticker[w]
  /\ ticker' = [ticker EXCEPT ![w] = TRUE]
  /\ UNCHANGED <<ctxDone, metricsChan, chanClosed, added, callerVars,
                 sharedVars, pc, shouldExit, shouldSendBatch, attempt, mts,
                 batcher, breaker, historyVars>>

-----------------------------------------------------------------------------
(* AddMetric: the listener calls it, and it completes when the channel has *)
(* room.  A send on a closed channel panics.                               *)
Sending == {s \in Senders : sender[s] = "adding"}

CallAddMetric(s) ==
  /\ sender[s] = "idle"
  /\ added + Cardinality(Sending) < MaxMetrics
  /\ JoinsSenders => owner \in {"made", "started"}
  /\ sender' = [sender EXCEPT ![s] = "adding"]
  /\ UNCHANGED <<ctxDone, metricsChan, chanClosed, added, panicked, owner,
                 sharedVars, workerVars, batcher, breaker, historyVars>>

AddMetric(s) ==
  /\ sender[s] = "adding" /\ ~chanClosed /\ Len(metricsChan) < ChanCap
  /\ added' = added + 1
  /\ metricsChan' = Append(metricsChan, added + 1)
  /\ sender' = [sender EXCEPT ![s] = "idle"]
  /\ UNCHANGED <<ctxDone, chanClosed, panicked, owner, sharedVars, workerVars,
                 batcher, breaker, historyVars>>

AddMetricPanics(s) ==
  /\ sender[s] = "adding" /\ chanClosed
  /\ panicked' = TRUE
  /\ UNCHANGED <<ctxDone, metricsChan, chanClosed, added, sender, owner,
                 sharedVars, workerVars, batcher, breaker, historyVars>>

-----------------------------------------------------------------------------
(* StartProcessing starts a goroutine unless it sees one running.  seen is *)
(* the value of isProcessing that the caller reads.                        *)
StartsAnyway(seen) == TRUE
StartsWorker(seen) == ~seen

Started(seen) ==
  IF StartsWorker(seen)
    THEN LET w == IF pc[1] = "none" THEN 1 ELSE 2
         IN  /\ isProcessing' = TRUE
             /\ waitGroup' = waitGroup + 1
             /\ pc' = [pc EXCEPT ![w] = "select"]
    ELSE UNCHANGED <<sharedVars, pc>>

StartProcessing ==
  /\ owner = "made"
  /\ Started(isProcessing)
  /\ owner' = "started"
  /\ UNCHANGED <<ctxDone, metricsChan, chanClosed, added, sender, panicked,
                 shouldExit, shouldSendBatch, ticker, attempt, mts, batcher,
                 breaker, historyVars>>

(* FinishProcessing up to the close.  The goroutine resets isProcessing    *)
(* without synchronisation, so the value read here may also be the one the *)
(* owner itself wrote when it started the processor.                       *)
FinishProcessing ==
  /\ owner \in {"made", "started"}
  /\ JoinsSenders => Sending = {}
  /\ \E seen \in {isProcessing, owner = "started"} : Started(seen)
  /\ owner' = "closing"
  /\ UNCHANGED <<ctxDone, metricsChan, chanClosed, added, sender, panicked,
                 shouldExit, shouldSendBatch, ticker, attempt, mts, batcher,
                 breaker, historyVars>>

CloseChan ==
  /\ owner = "closing"
  /\ chanClosed' = TRUE
  /\ owner' = "waiting"
  /\ UNCHANGED <<ctxDone, metricsChan, added, sender, panicked, sharedVars,
                 workerVars, batcher, breaker, historyVars>>

(* waitGroup.Wait(), which a missing Wait would not do. *)
ReturnsAtOnce == TRUE
WaitIsOver == waitGroup = 0

FinishReturns ==
  /\ owner = "waiting" /\ WaitIsOver
  /\ owner' = "returned"
  /\ UNCHANGED <<ctxDone, metricsChan, chanClosed, added, sender, panicked,
                 sharedVars, workerVars, batcher, breaker, historyVars>>

-----------------------------------------------------------------------------
(* processMetrics: one iteration of the loop is a select, a second look at *)
(* the done channel, and a flush when one is due.  EndOfLoop is the test   *)
(* of the loop's condition; a variant would end the loop with any flush.   *)
Unread(w) == [w2 \in Workers |-> IF w2 = w THEN FALSE ELSE ticker[w2]]

EndsWithFlush(w) == "exiting"
EndOfLoop(w) == IF shouldExit[w] THEN "exiting" ELSE "select"

LeavesSelect(w, exit, send) ==
  /\ pc[w] = "select"
  /\ pc' = [pc EXCEPT ![w] = "check"]
  /\ shouldExit' = [shouldExit EXCEPT ![w] = exit]
  /\ shouldSendBatch' = [shouldSendBatch EXCEPT ![w] = send]
  /\ UNCHANGED <<ctxDone, chanClosed, added, callerVars, sharedVars, attempt,
                 mts, breaker, historyVars>>

SelectDone(w) ==
  /\ ctxDone
  /\ LeavesSelect(w, TRUE, FALSE)
  /\ UNCHANGED <<metricsChan, ticker, batcher>>

(* What the batch looks like after batcher.AddMetric, and a variant that   *)
(* would batch the newest metric first.                                    *)
BatchedInFront(batch, m) == <<m>> \o batch
Batched(batch, m) == Append(batch, m)

SelectMetric(w) ==
  /\ metricsChan # <<>>
  /\ LeavesSelect(w, FALSE, FALSE)
  /\ batcher' = Batched(batcher, Head(metricsChan))
  /\ metricsChan' = Tail(metricsChan)
  /\ UNCHANGED ticker

(* The channel is closed and drained: the last flush is due.               *)
ForgetsLastFlush(w) == LeavesSelect(w, TRUE, FALSE)
AsksForLastFlush(w) == LeavesSelect(w, TRUE, TRUE)

SelectClosed(w) ==
  /\ chanClosed /\ metricsChan = <<>>
  /\ AsksForLastFlush(w)
  /\ UNCHANGED <<metricsChan, ticker, batcher>>

SelectTick(w) ==
  /\ ticker[w]
  /\ LeavesSelect(w, FALSE, TRUE)
  /\ ticker' = Unread(w)
  /\ UNCHANGED <<metricsChan, batcher>>

(* The second, non-blocking select on the done channel; NoSecondLook is a  *)
(* loop without it.                                                        *)
NoSecondLook == FALSE
SeesDone == ctxDone

Check(w) ==
  /\ pc[w] = "check"
  /\ LET exit == shouldExit[w] \/ SeesDone
         send == shouldSendBatch[w] /\ ~SeesDone
     IN  /\ shouldExit' = [shouldExit EXCEPT ![w] = exit]
         /\ shouldSendBatch' = [shouldSendBatch EXCEPT ![w] = send]
         /\ pc' = [pc EXCEPT ![w] = IF send THEN "execute"
                                    ELSE IF exit THEN "exiting" ELSE "select"]
  /\ UNCHANGED <<ctxDone, metricsChan, chanClosed, added, callerVars,
                 sharedVars, ticker, attempt, mts, batcher, breaker,
                 historyVars>>

(* breaker.Execute before it runs its function: a refused flush leaves the *)
(* batch where it is.                                                      *)
Admit(w, b) ==
  /\ breaker' = OnRequest(b)
  /\ pc' = [pc EXCEPT ![w] = "batch"]
  /\ attempt' = [attempt EXCEPT ![w] = 1]
  /\ UNCHANGED lastFlush

Refuse(w, b) ==
  /\ breaker' = b
  /\ pc' = [pc EXCEPT ![w] = EndOfLoop(w)]
  /\ lastFlush' = "refused"
  /\ UNCHANGED attempt

Execute(w) ==
  /\ pc[w] = "execute"
  /\ lateFlushes' = IF ctxDone THEN lateFlushes + 1 ELSE lateFlushes
  /\ \E expired \in BOOLEAN :
       LET b == CurrentState(breaker, expired)
       IN  IF Admits(b) THEN Admit(w, b) ELSE Refuse(w, b)
  /\ UNCHANGED <<ctxDone, metricsChan, chanClosed, added, callerVars,
                 sharedVars, shouldExit, shouldSendBatch, ticker, mts, batcher,
                 settled, acked, arrived, duplicated>>

(* breaker.Execute after its function: the result is counted.              *)
Executed(w, success) ==
  /\ \E expired \in BOOLEAN : breaker' = AfterRequest(breaker, success, expired)
  /\ lastFlush' = IF success THEN "ok" ELSE "failed"
  /\ pc' = [pc EXCEPT ![w] = EndOfLoop(w)]
  /\ UNCHANGED attempt

(* sendMetricsBatch up to client.SendMetrics.  The client uses the         *)
(* invocation's context, so a request made when it is done fails before it *)
(* leaves ("lateSend").                                                    *)
TakeBatch(w) ==
  /\ mts' = [mts EXCEPT ![w] = batcher]
  /\ batcher' = <<>>
  /\ pc' = [pc EXCEPT ![w] = IF ctxDone THEN "lateSend" ELSE "sending"]
  /\ UNCHANGED <<attempt, breaker, lastFlush>>

SendMetricsBatch(w) ==
  /\ pc[w] = "batch"
  /\ IF batcher = <<>>
       THEN Executed(w, TRUE) /\ UNCHANGED <<mts, batcher>>
       ELSE TakeBatch(w)
  /\ UNCHANGED <<ctxDone, metricsChan, chanClosed, added, callerVars,
                 sharedVars, shouldExit, shouldSendBatch, ticker, settled,
                 acked, arrived, duplicated, lateFlushes>>

(* The API may have received the request that SendMetrics now returns from.*)
Receives(w, received) ==
  /\ arrived' = IF received THEN arrived \cup Elements(mts[w]) ELSE arrived
  /\ duplicated' = IF received THEN duplicated \cup (Elements(mts[w]) \cap arrived)
                   ELSE duplicated

SendSucceeds(w) ==
  /\ pc[w] = "sending"
  /\ Receives(w, TRUE)
  /\ acked' = acked \cup Elements(mts[w])
  /\ settled' = settled \o mts[w]
  /\ mts' = [mts EXCEPT ![w] = <<>>]
  /\ Executed(w, TRUE)
  /\ UNCHANGED <<ctxDone, metricsChan, chanClosed, added, callerVars,
                 sharedVars, shouldExit, shouldSendBatch, ticker, batcher,
                 lateFlushes>>

(* On an error the batch goes back to the processor when failed batches    *)
(* are retried and is dropped when they are not; the last flush runs under *)
(* backoff.Retry then.                                                     *)
AlwaysKeeps == TRUE
NeverKeeps  == FALSE
KeepsFailedBatch == ShouldRetryOnFail

TriesAgain(w) == shouldExit[w] /\ ShouldRetryOnFail /\ attempt[w] < MaxAttempts

TryAgain(w) ==
  /\ pc' = [pc EXCEPT ![w] = "batch"]
  /\ attempt' = [attempt EXCEPT ![w] = @ + 1]
  /\ UNCHANGED <<breaker, lastFlush>>

SendFails(w) ==
  /\ pc[w] \in {"sending", "lateSend"}
  /\ \E received \in {FALSE, pc[w] = "sending"} : Receives(w, received)
  /\ batcher' = IF KeepsFailedBatch THEN mts[w] ELSE batcher
  /\ settled' = IF KeepsFailedBatch THEN settled ELSE settled \o mts[w]
  /\ mts' = [mts EXCEPT ![w] = <<>>]
  /\ IF TriesAgain(w) THEN TryAgain(w) ELSE Executed(w, FALSE)
  /\ UNCHANGED <<ctxDone, metricsChan, chanClosed, added, callerVars,
                 sharedVars, shouldExit, shouldSendBatch, ticker, acked,
                 lateFlushes>>

(* ticker.Stop(); p.isProcessing = false *)
ExitLoop(w) ==
  /\ pc[w] = "exiting"
  /\ ticker' = Unread(w)
  /\ isProcessing' = FALSE
  /\ pc' = [pc EXCEPT ![w] = "leaving"]
  /\ UNCHANGED <<ctxDone, metricsChan, chanClosed, added, callerVars,
                 waitGroup, shouldExit, shouldSendBatch, attempt, mts, batcher,
                 breaker, historyVars>>

(* p.waitGroup.Done(), which a goroutine could forget or do twice.         *)
NotDone(counter) == counter
DoneTwice(counter) == counter - 2
Done(counter) == counter - 1

Leave(w) ==
  /\ pc[w] = "leaving"
  /\ waitGroup' = Done(waitGroup)
  /\ pc' = [pc EXCEPT ![w] = "gone"]
  /\ UNCHANGED <<ctxDone, metricsChan, chanClosed, added, callerVars,
                 isProcessing, shouldExit, shouldSendBatch, ticker, attempt,
                 mts, batcher, breaker, historyVars>>

-----------------------------------------------------------------------------
Send(s) == CallAddMetric(s) \/ AddMetric(s) \/ AddMetricPanics(s)

Own == StartProcessing \/ FinishProcessing \/ CloseChan \/ FinishReturns

Select(w) == SelectDone(w) \/ SelectMetric(w) \/ SelectClosed(w) \/ SelectTick(w)

Reply(w) == SendSucceeds(w) \/ SendFails(w)

Proceed(w) ==
  Check(w) \/ Execute(w) \/ SendMetricsBatch(w) \/ ExitLoop(w) \/ Leave(w)

(* FinishProcessing has returned, or the process is down. *)
Terminated == (owner = "returned" \/ panicked) /\ UNCHANGED vars

Next ==
  \/ /\ ~panicked
     /\ \/ Cancel
        \/ Own
        \/ \E s \in Senders : Send(s)
        \/ \E w \in Workers : Tick(w) \/ Select(w) \/ Proceed(w) \/ Reply(w)
  \/ Terminated

Spec == Init /\ [][Next]_vars

(* What the Go scheduler gives: a goroutine that can run does run, and a   *)
(* select, which picks among the ready channels at random, does not ignore *)
(* one that is ready again and again.  HandlerStarted starts a processor   *)
(* right after making it.  Nothing is assumed of tick times, of            *)
(* cancellation, or of when a metric is sent or FinishProcessing called.   *)
GoFairness ==
  /\ WF_vars(~panicked /\ StartProcessing)
  /\ WF_vars(~panicked /\ CloseChan)
  /\ WF_vars(~panicked /\ FinishReturns)
  /\ \A s \in Senders : SF_vars(~panicked /\ AddMetric(s))
  /\ \A w \in Workers :
       /\ WF_vars(~panicked /\ Proceed(w))
       /\ SF_vars(~panicked /\ SelectDone(w))
       /\ SF_vars(~panicked /\ SelectMetric(w))
       /\ SF_vars(~panicked /\ SelectClosed(w))

(* Every request is answered, at the latest by the HTTP client's timeout.  *)
SpecTimeout ==
  /\ Spec /\ GoFairness
  /\ \A w \in Workers : WF_vars(~panicked /\ Reply(w))

(* A request carries the invocation's context and ends with it; one        *)
(* without a context could hang for ever.                                  *)
MayHang(w) == FALSE
EndsWithContext(w) == ctxDone /\ Reply(w)

(* No timeout is set, so a request may hang until the invocation's context *)
(* is done, which the Lambda deadline guarantees.                          *)
SpecDeadline ==
  /\ Spec /\ GoFairness
  /\ WF_vars(~panicked /\ Cancel)
  /\ \A w \in Workers : WF_vars(~panicked /\ EndsWithContext(w))

-----------------------------------------------------------------------------
(* Every variable has its type. *)
TypeOK ==
  /\ ctxDone \in BOOLEAN /\ chanClosed \in BOOLEAN /\ panicked \in BOOLEAN
  /\ metricsChan \in Seq(Nat) /\ batcher \in Seq(Nat) /\ settled \in Seq(Nat)
  /\ added \in Nat
  /\ sender \in [Senders -> {"idle", "adding"}]
  /\ owner \in {"made", "started", "closing", "waiting", "returned"}
  /\ isProcessing \in BOOLEAN /\ waitGroup \in 0 .. 2
  /\ pc \in [Workers -> Live \cup {"none", "gone"}]
  /\ shouldExit \in [Workers -> BOOLEAN] /\ shouldSendBatch \in [Workers -> BOOLEAN]
  /\ ticker \in [Workers -> BOOLEAN]
  /\ attempt \in [Workers -> 0 .. MaxAttempts]
  /\ mts \in [Workers -> Seq(Nat)]
  /\ breaker \in Breakers
  /\ acked \subseteq Nat /\ arrived \subseteq Nat /\ duplicated \subseteq Nat
  /\ lastFlush \in {"none", "ok", "failed", "refused"} /\ lateFlushes \in Nat

(* How the goroutines follow one another: the owner's progress says which  *)
(* of them exist, and the second starts only when the first has left its   *)
(* loop.                                                                   *)
Succession ==
  /\ owner = "made" <=> pc[1] = "none"
  /\ pc[2] # "none" => pc[1] \in {"leaving", "gone"} /\ owner # "started"
  /\ owner = "returned" => \A w \in Workers : pc[w] \notin Live
  /\ chanClosed <=> owner \in {"waiting", "returned"}

(* A goroutine holds a batch exactly while it is sending it, and nothing   *)
(* is added to the batcher meanwhile.                                      *)
BatchInFlight ==
  \A w \in Workers :
    IF pc[w] \in {"sending", "lateSend"}
      THEN mts[w] # <<>> /\ batcher = <<>>
      ELSE mts[w] = <<>>

(* At most one goroutine is in the processing loop, so that the batcher    *)
(* and the breaker, which no lock protects, have one user at a time; the   *)
(* flag isProcessing and the wait group tell the truth about it.           *)
BatcherExclusive ==
  /\ \A v, w \in Workers : pc[v] \in InLoop /\ pc[w] \in InLoop => v = w
  /\ isProcessing <=> \E w \in Workers : pc[w] \in InLoop
  /\ waitGroup = Cardinality({w \in Workers : pc[w] \in Live})

Held == mts[1] \o mts[2] \o batcher \o metricsChan

(* No metric that AddMetric accepted is lost inside the processor, counted *)
(* twice or overtaken: what was settled, what is being sent, what is       *)
(* batched and what is in the channel are, in this order, all of them.     *)
FirstInFirstOut ==
  settled \o Held = [i \in 1 .. added |-> i]

(* Without retries the API never receives a metric twice, whatever becomes *)
(* of the answers.                                                         *)
AtMostOnce == ~ShouldRetryOnFail => duplicated = {}

(* Without retries what the API received has been settled.                 *)
ArrivedIsSettled == ~ShouldRetryOnFail => arrived \subseteq Elements(settled)

(* With retries a metric leaves the processor only when a SendMetrics that *)
(* carried it has succeeded.                                               *)
RetryKeeps == ShouldRetryOnFail => Elements(settled) = acked

(* The inductive invariant behind the safety properties above. *)
IInv ==
  /\ TypeOK /\ Succession /\ BatcherExclusive
  /\ BatchInFlight /\ FirstInFirstOut
  /\ ArrivedIsSettled /\ AtMostOnce /\ RetryKeeps

(* When FinishProcessing returns and the context was not cancelled, the    *)
(* goroutine is gone, the channel is drained, and a batch is left behind   *)
(* only if the breaker refused the last flush, or if all the tries of the  *)
(* last flush failed.                                                      *)
FlushedOnFinish ==
  owner = "returned" =>
    /\ \A w \in Workers : pc[w] \in {"none", "gone"}
    /\ ~ctxDone =>
         /\ metricsChan = <<>>
         /\ batcher # <<>> =>
              \/ lastFlush = "refused"
              \/ /\ ShouldRetryOnFail /\ lastFlush = "failed"
                 /\ \E w \in Workers : attempt[w] = MaxAttempts

(* Once the context is done at most one more flush is begun: the one that  *)
(* passed the second look at the done channel just before.                 *)
AtMostOneLateFlush == lateFlushes <= 1

(* The breaker is in step with the flushes.  It bears at most its limit of *)
(* failures.  It is half-open only while the flush that it let through as  *)
(* a probe is under way, so that a probe never stays out and leaves it     *)
(* refusing for ever.  It does not close again after it has refused a      *)
(* flush before another flush has ended.                                   *)
InFlush == {"batch", "sending", "lateSend"}

BreakerInStep ==
  /\ breaker.failures <= TotalFailures
  /\ breaker.state = HalfOpen => breaker.probing /\ \E w \in Workers : pc[w] \in InFlush
  /\ lastFlush = "refused" => breaker.state # Closed

(* When FinishProcessing has returned, no goroutine of this processor runs *)
(* and nothing more is batched or sent.                                    *)
NothingAfterReturn ==
  [][owner = "returned" =>
       UNCHANGED <<sharedVars, pc, batcher, mts, breaker, settled, arrived>>]_vars

(* Seen from outside, the processor is the pipe of module MetricsPipe: the *)
(* batch being sent, the batcher and the channel are one queue, and every  *)
(* step of a goroutine either settles the front of it or changes nothing.  *)
Phase == IF owner = "returned" THEN "returned"
         ELSE IF chanClosed THEN "closed" ELSE "open"

Pipe == INSTANCE MetricsPipe WITH
  MayLose   <- ~ShouldRetryOnFail,
  phase     <- Phase,
  accepted  <- added,
  held      <- Held,
  out       <- settled,
  delivered <- acked

ImplementsPipe == Pipe!Spec

(* FinishProcessing comes back. *)
FinishTerminates == owner = "closing" ~> owner = "returned"

(* A goroutine that is blocked in AddMetric gets its metric in, unless the *)
(* context ends.                                                           *)
AddCompletes ==
  \A s \in Senders : sender[s] = "adding" ~> (sender[s] = "idle" \/ ctxDone)

(* When the context is done the background goroutine stops, whether or not *)
(* FinishProcessing is ever called.                                        *)
CancelStopsWorker ==
  \A w \in Workers : ctxDone /\ pc[w] \in Live ~> pc[w] = "gone"

(* The documentation of CircuitBreakerTotalFailures: after this amount of  *)
(* times of a request failing in the closed state, the state becomes open, *)
(* so that no further request is made.  It does not hold: the breaker      *)
(* counts flushes, and the tries of a flush are hidden from it.            *)
BreakerStopsRequests ==
  \A w \in Workers : pc[w] = "batch" => attempt[w] <= TotalFailures + 1

=============================================================================
