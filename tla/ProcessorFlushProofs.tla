------------------------ MODULE ProcessorFlushProofs -------------------------
(***************************************************************************)
(* Proofs about the last flush of the metrics processor and about what may *)
(* still happen after the context or the processor has ended, on top of    *)
(* the invariant of module ProcessorProofs.                                *)
(***************************************************************************)
EXTENDS ProcessorProofs

(* Once the processor has returned, a step is one of the surroundings.     *)
LEMMA StepAfterReturn ==
  ASSUME Threads, owner = "returned", Next, ~UNCHANGED vars
  PROVE  Cancel \/ \E s \in Senders : CallAddMetric(s) \/ AddMetric(s) \/ AddMetricPanics(s)
<1>1. \A w \in Workers : pc[w] \notin Live
  BY DEF Threads, Succession
<1>2. ASSUME NEW w \in Workers,
             \/ Tick(w) \/ SelectDone(w) \/ SelectMetric(w) \/ SelectClosed(w)
             \/ SelectTick(w) \/ Check(w) \/ Execute(w) \/ SendMetricsBatch(w)
             \/ SendSucceeds(w) \/ SendFails(w) \/ ExitLoop(w) \/ Leave(w)
      PROVE  pc[w] \in Live
  BY <1>2 DEF Tick, SelectDone, SelectMetric, SelectClosed, SelectTick, AsksForLastFlush,
     LeavesSelect, Check, Execute, SendMetricsBatch, SendSucceeds, SendFails, ExitLoop,
     Leave, Live, InLoop
<1>3. ~(StartProcessing \/ FinishProcessing \/ CloseChan \/ FinishReturns)
  BY DEF StartProcessing, FinishProcessing, CloseChan, FinishReturns
<1> QED BY <1>1, <1>2, <1>3, NextCases

(* When FinishProcessing has returned, no goroutine of the processor runs: *)
(* nothing is batched or sent any more.                                    *)
THEOREM QuietAfterReturn == Spec => NothingAfterReturn
<1> DEFINE Still == UNCHANGED <<sharedVars, pc, batcher, mts, breaker, settled, arrived>>
<1>1. Threads /\ [Next]_vars => [owner = "returned" => Still]_vars
  <2> SUFFICES ASSUME Threads, Next, ~UNCHANGED vars, owner = "returned" PROVE Still
    BY DEF vars
  <2>1. Cancel \/ \E s \in Senders : CallAddMetric(s) \/ AddMetric(s) \/ AddMetricPanics(s)
    BY StepAfterReturn
  <2> QED BY <2>1 DEF Cancel, CallAddMetric, AddMetric, AddMetricPanics, workerVars,
          sharedVars, historyVars
<1>2. Spec => []Threads
  BY ThreadsCorrect
<1> QED BY <1>1, <1>2, PTL DEF Spec, NothingAfterReturn

-----------------------------------------------------------------------------
(* A flush that begins after the context is done was admitted by the       *)
(* second look just before; when there has been one, no worker is about to *)
(* begin another.                                                          *)
LateFlush ==
  /\ lateFlushes \in {0, 1}
  /\ ~ctxDone => lateFlushes = 0
  /\ lateFlushes = 1 => \A w \in Workers : pc[w] # "execute"

(* A step that brings no worker to a flush begins no late one.             *)
LEMMA NoFlushBegins ==
  ASSUME LateFlush, UNCHANGED lateFlushes, ctxDone => ctxDone',
         \A w \in Workers : pc'[w] = "execute" => pc[w] = "execute"
  PROVE  LateFlush'
BY DEF LateFlush

(* Every step keeps LateFlush: only the second look leads to a flush, and  *)
(* only while the context is not done; and one worker at a time is in the  *)
(* loop.                                                                   *)
LEMMA LateFlushStep == Threads /\ LateFlush /\ [Next]_vars => LateFlush'
<1> SUFFICES ASSUME Threads, LateFlush, [Next]_vars PROVE LateFlush'
  OBVIOUS
<1> USE DEF callerVars, workerVars, sharedVars, historyVars
<1>p. pc \in [Workers -> Live \cup {"none", "gone"}]
  BY DEF Threads, TypeOK
<1>1. CASE UNCHANGED vars
  BY <1>1, NoFlushBegins DEF vars
<1>2. CASE Cancel \/ CloseChan \/ FinishReturns
  BY <1>2, NoFlushBegins DEF Cancel, CloseChan, FinishReturns
<1>3. CASE StartProcessing \/ FinishProcessing
  <2>1. UNCHANGED <<lateFlushes, ctxDone>> /\ \E seen : Started(seen)
    BY <1>3 DEF StartProcessing, FinishProcessing
  <2>2. \A w \in Workers : pc'[w] = "execute" => pc[w] = "execute"
    BY <1>p, <2>1 DEF Started
  <2> QED BY <2>1, <2>2, NoFlushBegins
<1>4. ASSUME NEW s \in Senders, CallAddMetric(s) \/ AddMetric(s) \/ AddMetricPanics(s)
      PROVE  LateFlush'
  BY <1>4, NoFlushBegins DEF CallAddMetric, AddMetric, AddMetricPanics
<1>5. ASSUME NEW w \in Workers,
             \/ Tick(w) \/ SelectDone(w) \/ SelectMetric(w) \/ SelectClosed(w)
             \/ SelectTick(w) \/ SendMetricsBatch(w) \/ SendSucceeds(w) \/ SendFails(w)
             \/ ExitLoop(w) \/ Leave(w)
      PROVE  LateFlush'
  <2>1. UNCHANGED <<lateFlushes, ctxDone>>
    BY <1>5 DEF Tick, SelectDone, SelectMetric, SelectClosed, SelectTick, AsksForLastFlush,
       LeavesSelect, SendMetricsBatch, SendSucceeds, SendFails, ExitLoop, Leave
  <2>2. \/ UNCHANGED pc
        \/ \E place \in {"check", "batch", "sending", "lateSend", "exiting", "select",
                         "leaving", "gone"} : pc' = [pc EXCEPT ![w] = place]
    <3>1. CASE SendMetricsBatch(w) \/ SendSucceeds(w) \/ SendFails(w)
      BY <3>1 DEF SendMetricsBatch, SendSucceeds, SendFails, TakeBatch, TryAgain, Executed,
         EndOfLoop
    <3> QED BY <1>5, <3>1 DEF Tick, SelectDone, SelectMetric, SelectClosed, SelectTick,
            AsksForLastFlush, LeavesSelect, ExitLoop, Leave
  <2>3. \A v \in Workers : pc'[v] = "execute" => pc[v] = "execute"
    BY <1>p, <2>2
  <2> QED BY <2>1, <2>3, NoFlushBegins
<1>6. ASSUME NEW w \in Workers, Check(w)
      PROVE  LateFlush'
  <2>1. /\ UNCHANGED <<lateFlushes, ctxDone>>
        /\ \A v \in Workers : pc'[v] = "execute" => pc[v] = "execute" \/ ~ctxDone
    BY <1>p, <1>6 DEF Check, SeesDone
  <2> QED BY <2>1 DEF LateFlush
<1>7. ASSUME NEW w \in Workers, Execute(w)
      PROVE  LateFlush'
  <2>1. /\ pc[w] = "execute" /\ UNCHANGED ctxDone
        /\ lateFlushes' = IF ctxDone THEN lateFlushes + 1 ELSE lateFlushes
    BY <1>7 DEF Execute
  <2>2. lateFlushes = 0
    BY <2>1 DEF LateFlush
  <2>3. \E place \in {"batch", "exiting", "select"} : pc' = [pc EXCEPT ![w] = place]
    BY <1>7 DEF Execute, Admit, Refuse, EndOfLoop
  <2>4. \A v \in Workers : pc[v] = "execute" => v = w
    BY <2>1 DEF Threads, BatcherExclusive, InLoop
  <2>5. \A v \in Workers : pc'[v] # "execute"
    BY <1>p, <2>3, <2>4
  <2> QED BY <2>1, <2>2, <2>5 DEF LateFlush
<1> QED BY <1>1, <1>2, <1>3, <1>4, <1>5, <1>6, <1>7, NextCases

(* At most one flush is begun when the context is already done.            *)
THEOREM LateFlushBounded == Spec => []AtMostOneLateFlush
<1>1. Init => LateFlush
  BY DEF Init, LateFlush
<1>2. Threads /\ LateFlush /\ [Next]_vars => LateFlush'
  BY LateFlushStep
<1>3. LateFlush => AtMostOneLateFlush
  BY DEF LateFlush, AtMostOneLateFlush
<1>4. Spec => []Threads
  BY ThreadsCorrect
<1> QED BY <1>1, <1>2, <1>3, <1>4, PTL DEF Spec

-----------------------------------------------------------------------------
(* Why a batch may be left behind by the last flush: the breaker refused   *)
(* it, or all its tries failed.                                            *)
Excuse ==
  \/ lastFlush = "refused"
  \/ ShouldRetryOnFail /\ lastFlush = "failed" /\ attempt[1] = MaxAttempts

(* As long as the context is not done there is one goroutine, it leaves    *)
(* its loop only for a closed and drained channel, and then only through a *)
(* flush.                                                                  *)
LastFlush ==
  ~ctxDone =>
    /\ pc[2] = "none"
    /\ pc[1] \in {"none", "select"} => ~shouldExit[1]
    /\ shouldExit[1] => chanClosed /\ metricsChan = <<>>
    /\ shouldExit[1] /\ pc[1] = "check" => shouldSendBatch[1]
    /\ pc[1] \in {"exiting", "leaving", "gone"} =>
         shouldExit[1] /\ (batcher = <<>> \/ Excuse)

(* A step that touches nothing of the last flush.                          *)
LEMMA LastFlushUntouched ==
  ASSUME LastFlush, ctxDone => ctxDone',
         UNCHANGED <<pc, shouldExit, shouldSendBatch, chanClosed, metricsChan, batcher,
                     lastFlush, attempt>>
  PROVE  LastFlush'
BY DEF LastFlush, Excuse

(* The flush actions keep LastFlush: when the goroutine leaves the loop,   *)
(* the batch was empty, was sent, was dropped, or there is an excuse.      *)
LEMMA FlushKeepsLastFlush ==
  ASSUME IInv, LastFlush, ~ctxDone, UNCHANGED ctxDone,
         SendMetricsBatch(1) \/ SendSucceeds(1) \/ SendFails(1)
  PROVE  LastFlush'
<1>t. /\ pc \in [Workers -> Live \cup {"none", "gone"}]
      /\ attempt \in [Workers -> 0 .. MaxAttempts]
      /\ 1 \in Workers /\ 2 \in Workers
  BY DEF IInv, TypeOK, Workers
<1>1. UNCHANGED <<shouldExit, shouldSendBatch, chanClosed, metricsChan>>
  BY DEF SendMetricsBatch, SendSucceeds, SendFails
<1>2. ASSUME pc' = [pc EXCEPT ![1] = EndOfLoop(1)], batcher' = <<>> \/ Excuse'
      PROVE  LastFlush'
  BY <1>t, <1>1, <1>2 DEF LastFlush, EndOfLoop
<1>3. ASSUME pc' = [pc EXCEPT ![1] = "batch"] \/ pc' = [pc EXCEPT ![1] = "sending"]
      PROVE  LastFlush'
  BY <1>t, <1>1, <1>3 DEF LastFlush
<1>4. CASE SendMetricsBatch(1)
  BY <1>2, <1>3, <1>4 DEF SendMetricsBatch, Executed, TakeBatch
<1>5. CASE SendSucceeds(1)
  <2>1. batcher' = <<>>
    BY <1>5 DEF SendSucceeds, IInv, BatchInFlight, Workers
  <2> QED BY <1>2, <1>5, <2>1 DEF SendSucceeds, Executed
<1>6. CASE SendFails(1)
  <2>1. CASE TriesAgain(1)
    BY <1>3, <1>6, <2>1 DEF SendFails, TryAgain
  <2>2. CASE ~TriesAgain(1) /\ ~ShouldRetryOnFail
    <3>1. batcher' = <<>>
      BY <1>6, <2>2 DEF SendFails, KeepsFailedBatch, IInv, BatchInFlight, Workers
    <3> QED BY <1>2, <1>6, <2>2, <3>1 DEF SendFails, Executed
  <2>3. CASE ~TriesAgain(1) /\ ShouldRetryOnFail
    <3>1. /\ pc' = [pc EXCEPT ![1] = EndOfLoop(1)] /\ UNCHANGED attempt
          /\ lastFlush' = "failed"
      BY <1>6, <2>3 DEF SendFails, Executed
    <3>2. CASE shouldExit[1]
      <4>1. attempt[1] = MaxAttempts
        BY <1>t, <2>3, <3>2 DEF TriesAgain, MaxAttempts
      <4> QED BY <1>2, <2>3, <3>1, <4>1 DEF Excuse
    <3>3. CASE ~shouldExit[1]
      BY <1>t, <1>1, <3>1, <3>3 DEF EndOfLoop, LastFlush
    <3> QED BY <3>2, <3>3
  <2> QED BY <2>1, <2>2, <2>3
<1> QED BY <1>4, <1>5, <1>6

(* Every step keeps LastFlush.                                             *)
LEMMA LastFlushStep == IInv /\ LastFlush /\ [Next]_vars => LastFlush'
<1> SUFFICES ASSUME IInv, LastFlush, [Next]_vars, ~ctxDone' PROVE LastFlush'
  BY DEF LastFlush
<1> USE DEF callerVars, workerVars, sharedVars, historyVars
<1>t. /\ pc \in [Workers -> Live \cup {"none", "gone"}]
      /\ shouldExit \in [Workers -> BOOLEAN] /\ shouldSendBatch \in [Workers -> BOOLEAN]
      /\ ticker \in [Workers -> BOOLEAN]
      /\ Workers = {1, 2} /\ Threads
  BY DEF IInv, TypeOK, Workers, Threads
<1>1. CASE UNCHANGED vars
  BY <1>1, LastFlushUntouched DEF vars
<1>2. CASE Cancel
  BY <1>2 DEF Cancel
<1>3. CASE FinishReturns
  BY <1>3, LastFlushUntouched DEF FinishReturns
<1>4. CASE CloseChan
  BY <1>4 DEF CloseChan, LastFlush, Excuse
<1>5. CASE StartProcessing \/ FinishProcessing
  <2>1. /\ UNCHANGED <<ctxDone, shouldExit, shouldSendBatch, chanClosed, metricsChan, batcher,
                       lastFlush, attempt>>
        /\ owner \in {"made", "started"} /\ \E seen \in {isProcessing, owner = "started"} : Started(seen)
    BY <1>5 DEF StartProcessing, FinishProcessing, Threads, Succession, BatcherExclusive, Live,
       InLoop
  <2>2. ~chanClosed
    BY <1>t, <2>1 DEF Threads, Succession
  <2>3. pc[1] \notin {"exiting", "leaving", "gone"} /\ pc[2] = "none"
    BY <1>t, <2>1, <2>2 DEF LastFlush
  <2>4. CASE pc[1] = "none"
    <3>1. UNCHANGED pc \/ pc' = [pc EXCEPT ![1] = "select"]
      BY <2>1, <2>4 DEF Started
    <3> QED BY <1>t, <2>1, <2>3, <2>4, <3>1 DEF LastFlush
  <2>5. CASE pc[1] # "none"
    <3>1. isProcessing /\ owner = "started"
      BY <1>t, <2>1, <2>3, <2>5 DEF Threads, BatcherExclusive, Succession, Live, InLoop
    <3>2. UNCHANGED pc
      BY <2>1, <3>1 DEF Started, StartsWorker
    <3> QED BY <2>1, <3>2, LastFlushUntouched
  <2> QED BY <2>4, <2>5
<1>6. ASSUME NEW s \in Senders, CallAddMetric(s) \/ AddMetricPanics(s)
      PROVE  LastFlush'
  BY <1>6, LastFlushUntouched DEF CallAddMetric, AddMetricPanics
<1>7. ASSUME NEW s \in Senders, AddMetric(s)
      PROVE  LastFlush'
  BY <1>7 DEF AddMetric, LastFlush, Excuse
<1>8. ASSUME NEW w \in Workers, Tick(w)
      PROVE  LastFlush'
  BY <1>8, LastFlushUntouched DEF Tick
<1>9. ASSUME NEW w \in Workers,
             \/ SelectDone(w) \/ SelectMetric(w) \/ SelectClosed(w) \/ SelectTick(w)
             \/ Check(w) \/ Execute(w) \/ SendMetricsBatch(w) \/ SendSucceeds(w)
             \/ SendFails(w) \/ ExitLoop(w) \/ Leave(w)
      PROVE  LastFlush'
  <2>1. ~ctxDone /\ UNCHANGED ctxDone /\ pc[w] # "none"
    <3>1. CASE SelectDone(w) \/ SelectMetric(w) \/ SelectClosed(w) \/ SelectTick(w)
      BY <3>1 DEF SelectDone, SelectMetric, SelectClosed, SelectTick, AsksForLastFlush,
         LeavesSelect
    <3>2. CASE Check(w) \/ Execute(w)
      BY <3>2 DEF Check, Execute
    <3>3. CASE SendMetricsBatch(w)
      BY <3>3 DEF SendMetricsBatch
    <3>4. CASE SendSucceeds(w)
      BY <3>4 DEF SendSucceeds
    <3>5. CASE SendFails(w)
      BY <3>5 DEF SendFails
    <3>6. CASE ExitLoop(w) \/ Leave(w)
      BY <3>6 DEF ExitLoop, Leave
    <3> QED BY <1>9, <3>1, <3>2, <3>3, <3>4, <3>5, <3>6
  <2>2. w = 1
    BY <1>t, <2>1 DEF LastFlush
  <2>3. CASE SelectMetric(1) \/ SelectTick(1)
    BY <1>t, <2>1, <2>3 DEF SelectMetric, SelectTick, LeavesSelect, LastFlush
  <2>4. CASE SelectDone(1)
    BY <2>1, <2>4 DEF SelectDone
  <2>5. CASE SelectClosed(1)
    BY <1>t, <2>1, <2>5 DEF SelectClosed, AsksForLastFlush, LeavesSelect, LastFlush
  <2>6. CASE Check(1)
    BY <1>t, <2>1, <2>6 DEF Check, SeesDone, LastFlush
  <2>7. CASE Execute(1)
    <3>1. PICK b : Admit(1, b) \/ Refuse(1, b)
      BY <2>7 DEF Execute
    <3>2. pc[1] = "execute" /\ UNCHANGED <<shouldExit, shouldSendBatch, chanClosed, metricsChan>>
      BY <2>7 DEF Execute
    <3>3. CASE Admit(1, b)
      BY <1>t, <2>1, <3>2, <3>3 DEF Admit, LastFlush
    <3>4. CASE Refuse(1, b)
      BY <1>t, <2>1, <3>2, <3>4 DEF Refuse, EndOfLoop, LastFlush, Excuse
    <3> QED BY <3>1, <3>3, <3>4
  <2>8. CASE SendMetricsBatch(1) \/ SendSucceeds(1) \/ SendFails(1)
    BY <2>1, <2>8, FlushKeepsLastFlush
  <2>9. CASE ExitLoop(1) \/ Leave(1)
    BY <1>t, <2>1, <2>9 DEF ExitLoop, Leave, LastFlush, Excuse
  <2> QED BY <1>9, <2>2, <2>3, <2>4, <2>5, <2>6, <2>7, <2>8, <2>9
<1> QED BY <1>1, <1>2, <1>3, <1>4, <1>5, <1>6, <1>7, <1>8, <1>9, NextCases

(* What LastFlush says when FinishProcessing has returned: the goroutine   *)
(* is gone, the channel is drained, and only a refused or thrice failed    *)
(* flush leaves a batch behind.                                            *)
LEMMA LastFlushSuffices == Threads /\ LastFlush => FlushedOnFinish
<1> SUFFICES ASSUME Threads, LastFlush, owner = "returned"
             PROVE  /\ \A w \in Workers : pc[w] \in {"none", "gone"}
                    /\ ~ctxDone =>
                         /\ metricsChan = <<>>
                         /\ batcher # <<>> =>
                              \/ lastFlush = "refused"
                              \/ /\ ShouldRetryOnFail /\ lastFlush = "failed"
                                 /\ \E w \in Workers : attempt[w] = MaxAttempts
  BY DEF FlushedOnFinish
<1>1. \A w \in Workers : pc[w] \in {"none", "gone"}
  BY DEF Threads, Succession, TypeOK
<1>2. 1 \in Workers /\ pc[1] = "gone"
  BY <1>1 DEF Threads, Succession, Workers
<1> QED BY <1>1, <1>2 DEF LastFlush, Excuse

(* When FinishProcessing returns and the context was not cancelled, every  *)
(* metric has been flushed, unless the breaker refused the last flush or   *)
(* all its tries failed.                                                   *)
THEOREM FinishFlushes == Spec => []FlushedOnFinish
<1>1. Init => LastFlush
  BY DEF Init, LastFlush, Workers
<1>2. IInv /\ LastFlush /\ [Next]_vars => LastFlush'
  BY LastFlushStep
<1>3. Threads /\ LastFlush => FlushedOnFinish
  BY LastFlushSuffices
<1>4. Spec => []IInv /\ []Threads
  BY InvariantHolds, ThreadsCorrect, PTL
<1> QED BY <1>1, <1>2, <1>3, <1>4, PTL DEF Spec

-----------------------------------------------------------------------------
(* A step that touches neither the breaker nor a flush under way.          *)
LEMMA BreakerUntouched ==
  ASSUME BreakerInStep, UNCHANGED <<breaker, lastFlush>>,
         \A w \in Workers : pc[w] \in InFlush => pc'[w] \in InFlush
  PROVE  BreakerInStep'
BY DEF BreakerInStep

(* What the clock makes of a breaker that is not half-open. *)
LEMMA ClockOf ==
  ASSUME NEW b \in Breakers, b.failures <= TotalFailures, NEW expired \in BOOLEAN
  PROVE  LET c == CurrentState(b, expired)
         IN  /\ c \in Breakers /\ c.failures <= TotalFailures
             /\ b.state # HalfOpen /\ c.state = HalfOpen => ~c.probing
             /\ b.state = Open => c.state # Closed
<1>1. NewGeneration(Closed).failures = 0 /\ NewGeneration(HalfOpen).failures = 0
  BY DEF NewGeneration
<1>2. 0 <= TotalFailures
  BY TotalFailuresAssumption
<1>3. CurrentState(b, expired) \in {NewGeneration(Closed), NewGeneration(HalfOpen), b}
  BY DEF CurrentState
<1>4. CurrentState(b, expired).failures <= TotalFailures
  BY <1>1, <1>2, <1>3
<1>5. ~NewGeneration(HalfOpen).probing /\ NewGeneration(Closed).state = Closed
      /\ NewGeneration(HalfOpen).state = HalfOpen
  BY DEF NewGeneration
<1>6. Closed # HalfOpen /\ Open # Closed
  BY DEF Closed, HalfOpen, Open
<1> QED
  BY <1>4, <1>5, <1>6, BreakerType DEF CurrentState

(* A result closes a half-open breaker or opens it. *)
LEMMA ResultOf ==
  ASSUME NEW b \in Breakers, b.failures <= TotalFailures, NEW success \in BOOLEAN,
         NEW expired \in BOOLEAN
  PROVE  LET c == AfterRequest(b, success, expired)
         IN  c.failures <= TotalFailures /\ c.state # HalfOpen
<1> DEFINE now == CurrentState(b, expired)
<1>1. now \in Breakers /\ now.failures <= TotalFailures
  BY ClockOf
<1>2. \A s \in {Closed, Open} : NewGeneration(s).failures = 0 /\ NewGeneration(s).state # HalfOpen
  BY DEF NewGeneration, Closed, Open, HalfOpen
<1>3. 0 <= TotalFailures
  BY TotalFailuresAssumption
<1> HIDE DEF now
<1>4. CASE expired /\ b.state = Closed
  <2>1. AfterRequest(b, success, expired) = NewGeneration(Closed)
    BY <1>4 DEF AfterRequest, CurrentState
  <2> QED
    BY <1>2, <1>3, <2>1
<1>5. OnSuccess(now).failures <= TotalFailures /\ OnSuccess(now).state # HalfOpen
  BY <1>1, <1>2, <1>3 DEF OnSuccess
<1>6. OnFailure(now).failures <= TotalFailures /\ OnFailure(now).state # HalfOpen
  <2>1. CASE now.state = HalfOpen \/ ReadyToTrip(now.failures + 1)
    BY <1>2, <1>3, <2>1 DEF OnFailure
  <2>2. CASE ~(now.state = HalfOpen \/ ReadyToTrip(now.failures + 1))
    <3>1. OnFailure(now) = [now EXCEPT !.failures = @ + 1]
      BY <2>2 DEF OnFailure
    <3>2. now.failures + 1 <= TotalFailures
      BY <1>1, <2>2, TotalFailuresAssumption DEF ReadyToTrip, Breakers
    <3>3. OnFailure(now).failures = now.failures + 1 /\ OnFailure(now).state = now.state
      BY <1>1, <3>1 DEF Breakers
    <3> QED
      BY <2>2, <3>2, <3>3
  <2> QED
    BY <2>1, <2>2
<1> QED
  BY <1>4, <1>5, <1>6 DEF AfterRequest, now

(* When a flush ends, its result is counted. *)
LEMMA ExecutedInStep ==
  ASSUME TypeOK, BreakerInStep, NEW w \in Workers, NEW success \in BOOLEAN, Executed(w, success)
  PROVE  BreakerInStep'
<1>1. PICK expired \in BOOLEAN : breaker' = AfterRequest(breaker, success, expired)
  BY DEF Executed
<1>2. breaker'.failures <= TotalFailures /\ breaker'.state # HalfOpen
  BY <1>1, ResultOf DEF TypeOK, BreakerInStep
<1>3. lastFlush' # "refused"
  BY ExecutedType
<1> QED
  BY <1>2, <1>3 DEF BreakerInStep

(* A flush is let through or refused; no other is under way. *)
LEMMA ExecuteInStep ==
  ASSUME Threads, BreakerInStep, NEW w \in Workers, Execute(w) PROVE BreakerInStep'
<1>1. PICK expired \in BOOLEAN :
        LET b == CurrentState(breaker, expired)
        IN  IF Admits(b) THEN Admit(w, b) ELSE Refuse(w, b)
  BY DEF Execute
<1> DEFINE b == CurrentState(breaker, expired)
<1>2. pc[w] = "execute" /\ pc \in [Workers -> Live \cup {"none", "gone"}]
      /\ breaker \in Breakers
  BY DEF Execute, Threads, TypeOK
<1>3. breaker.state # HalfOpen
  <2>1. \A v \in Workers : pc[v] \notin InFlush
    BY <1>2 DEF Threads, BatcherExclusive, InLoop, InFlush
  <2> QED
    BY <2>1 DEF BreakerInStep
<1>4. /\ b \in Breakers /\ b.failures <= TotalFailures
      /\ b.state = HalfOpen => ~b.probing
      /\ breaker.state = Open => b.state # Closed
  BY <1>2, <1>3, ClockOf DEF BreakerInStep
<1>5. b.state \in {Closed, Open, HalfOpen} /\ breaker.state \in {Closed, Open, HalfOpen}
  BY <1>2, <1>4 DEF Breakers
<1>6. IF Admits(b) THEN Admit(w, b) ELSE Refuse(w, b)
  BY <1>1
<1> HIDE DEF b
<1>7. CASE Admits(b)
  <2>1. breaker' = OnRequest(b) /\ pc' = [pc EXCEPT ![w] = "batch"] /\ UNCHANGED lastFlush
    BY <1>6, <1>7 DEF Admit
  <2>2. /\ breaker'.failures = b.failures /\ breaker'.state = b.state
        /\ breaker'.probing = (b.state = HalfOpen)
    BY <1>4, <2>1 DEF OnRequest, Breakers
  <2>3. pc'[w] \in InFlush
    BY <1>2, <2>1 DEF InFlush
  <2>4. lastFlush = "refused" => b.state # Closed
    BY <1>3, <1>4, <1>5 DEF BreakerInStep
  <2>5. breaker'.failures <= TotalFailures /\ (breaker'.state = HalfOpen => breaker'.probing)
    BY <1>4, <2>2
  <2> QED
    BY <2>1, <2>2, <2>3, <2>4, <2>5 DEF BreakerInStep
<1>8. CASE ~Admits(b)
  <2>1. breaker' = b
    BY <1>6, <1>8 DEF Refuse
  <2>2. b.state = Open
    BY <1>4, <1>5, <1>8 DEF Admits
  <2>3. Open # Closed /\ Open # HalfOpen
    BY DEF Open, Closed, HalfOpen
  <2> QED
    BY <1>4, <2>1, <2>2, <2>3 DEF BreakerInStep
<1> QED
  BY <1>7, <1>8

(* Every step keeps breaker and flushes in step. *)
LEMMA BreakerStep == Threads /\ BreakerInStep /\ [Next]_vars => BreakerInStep'
<1> SUFFICES ASSUME Threads, BreakerInStep, [Next]_vars PROVE BreakerInStep'
  OBVIOUS
<1> USE DEF callerVars, workerVars, sharedVars, historyVars
<1>p. pc \in [Workers -> Live \cup {"none", "gone"}] /\ TypeOK
  BY DEF Threads, TypeOK
<1>1. CASE UNCHANGED vars
  BY <1>1, BreakerUntouched DEF vars
<1>2. CASE Cancel \/ CloseChan \/ FinishReturns
  BY <1>2, BreakerUntouched DEF Cancel, CloseChan, FinishReturns
<1>3. CASE StartProcessing \/ FinishProcessing
  <2>1. UNCHANGED <<breaker, lastFlush>> /\ owner \in {"made", "started"}
        /\ \E seen \in {isProcessing, owner = "started"} : Started(seen)
    <3>1. Started(isProcessing) => \E seen \in {isProcessing, owner = "started"} : Started(seen)
      OBVIOUS
    <3> QED
      BY <1>3, <3>1 DEF StartProcessing, FinishProcessing
  <2>2. PICK seen \in {isProcessing, owner = "started"} : Started(seen)
    BY <2>1
  <2>3. CASE ~seen
    <3>1. pc' = [pc EXCEPT ![IF pc[1] = "none" THEN 1 ELSE 2] = "select"]
      BY <2>2, <2>3 DEF Started, StartsWorker
    <3>2. \A v \in Workers : pc[v] \notin InFlush
      <4>1. ~isProcessing \/ owner # "started"
        BY <2>3
      <4>2. CASE ~isProcessing
        BY <4>2 DEF Threads, BatcherExclusive, InLoop, InFlush
      <4>3. CASE owner # "started"
        <5>1. owner = "made"
          BY <2>1, <4>3
        <5>2. pc[1] = "none" /\ pc[2] = "none"
          BY <5>1 DEF Threads, Succession
        <5> QED
          BY <5>2 DEF InFlush, Workers
      <4> QED
        BY <4>1, <4>2, <4>3
    <3> QED
      BY <2>1, <3>2, BreakerUntouched
  <2>4. CASE seen
    BY <2>1, <2>2, <2>4, BreakerUntouched DEF Started, StartsWorker
  <2> QED
    BY <2>3, <2>4
<1>4. ASSUME NEW s \in Senders, CallAddMetric(s) \/ AddMetric(s) \/ AddMetricPanics(s)
      PROVE  BreakerInStep'
  BY <1>4, BreakerUntouched DEF CallAddMetric, AddMetric, AddMetricPanics
<1>5. ASSUME NEW w \in Workers,
             \/ Tick(w) \/ SelectDone(w) \/ SelectMetric(w) \/ SelectClosed(w)
             \/ SelectTick(w) \/ Check(w) \/ ExitLoop(w) \/ Leave(w)
      PROVE  BreakerInStep'
  <2>1. /\ UNCHANGED <<breaker, lastFlush>>
        /\ UNCHANGED pc \/ (pc[w] \notin InFlush /\ \E place : pc' = [pc EXCEPT ![w] = place])
    <3>1. CASE Tick(w)
      BY <3>1 DEF Tick
    <3>2. CASE SelectDone(w) \/ SelectMetric(w) \/ SelectClosed(w) \/ SelectTick(w)
      BY <3>2 DEF SelectDone, SelectMetric, SelectClosed, SelectTick, AsksForLastFlush,
         LeavesSelect, InFlush
    <3>3. CASE Check(w)
      BY <3>3 DEF Check, InFlush
    <3>4. CASE ExitLoop(w) \/ Leave(w)
      BY <3>4 DEF ExitLoop, Leave, InFlush
    <3> QED
      BY <1>5, <3>1, <3>2, <3>3, <3>4
  <2>2. \A v \in Workers : pc[v] \in InFlush => pc'[v] \in InFlush
    BY <1>p, <2>1
  <2> QED
    BY <2>1, <2>2, BreakerUntouched
<1>6. ASSUME NEW w \in Workers, SendMetricsBatch(w) \/ SendSucceeds(w) \/ SendFails(w)
      PROVE  BreakerInStep'
  <2>1. TakeBatch(w) \/ TryAgain(w) \/ \E success \in BOOLEAN : Executed(w, success)
    BY <1>6 DEF SendMetricsBatch, SendSucceeds, SendFails
  <2>2. CASE TakeBatch(w) \/ TryAgain(w)
    <3>1. /\ UNCHANGED <<breaker, lastFlush>>
          /\ \E place \in InFlush : pc' = [pc EXCEPT ![w] = place]
      BY <2>2 DEF TakeBatch, TryAgain, InFlush
    <3>2. \A v \in Workers : pc[v] \in InFlush => pc'[v] \in InFlush
      BY <1>p, <3>1
    <3> QED
      BY <3>1, <3>2, BreakerUntouched
  <2> QED
    BY <1>p, <2>1, <2>2, ExecutedInStep
<1> QED
  BY <1>1, <1>2, <1>3, <1>4, <1>5, <1>6, ExecuteInStep, NextCases

(* The breaker of MakeCircuitBreaker keeps its limit, and no probe of it   *)
(* stays out, whatever becomes of the flushes.                             *)
THEOREM BreakerAlwaysInStep == Spec => []BreakerInStep
<1>1. Init => BreakerInStep
  <2>1. MakeCircuitBreaker.failures = 0 /\ MakeCircuitBreaker.state # HalfOpen
    BY DEF MakeCircuitBreaker, NewGeneration, Closed, HalfOpen
  <2> QED
    BY <2>1, TotalFailuresAssumption DEF Init, BreakerInStep
<1>2. Threads /\ BreakerInStep /\ [Next]_vars => BreakerInStep'
  BY BreakerStep
<1> QED
  BY <1>1, <1>2, ThreadsCorrect, PTL DEF Spec

=============================================================================
