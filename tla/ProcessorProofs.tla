--------------------------- MODULE ProcessorProofs ---------------------------
(***************************************************************************)
(* Proofs about the metrics processor, for every set of senders, every     *)
(* channel capacity, every number of metrics and every trip threshold.     *)
(***************************************************************************)
EXTENDS Processor, FiniteSetTheorems, SequenceTheorems, TLAPS

(* The steps of Next, one disjunct for every action. *)
LEMMA NextCases ==
  ASSUME Next, ~UNCHANGED vars
  PROVE  \/ Cancel \/ StartProcessing \/ FinishProcessing \/ CloseChan \/ FinishReturns
         \/ \E s \in Senders : CallAddMetric(s) \/ AddMetric(s) \/ AddMetricPanics(s)
         \/ \E w \in Workers :
              \/ Tick(w) \/ SelectDone(w) \/ SelectMetric(w) \/ SelectClosed(w)
              \/ SelectTick(w) \/ Check(w) \/ Execute(w) \/ SendMetricsBatch(w)
              \/ SendSucceeds(w) \/ SendFails(w) \/ ExitLoop(w) \/ Leave(w)
BY Zenon DEF Next, Own, Send, Select, Proceed, Reply, Terminated

-----------------------------------------------------------------------------
(* MakeCircuitBreaker gives a breaker.                                     *)
LEMMA FreshBreaker == MakeCircuitBreaker \in Breakers
BY DEF MakeCircuitBreaker, NewGeneration, Breakers, Closed, Open, HalfOpen

(* The operations of the breaker give breakers.                            *)
LEMMA BreakerType ==
  ASSUME NEW b \in Breakers, NEW expired \in BOOLEAN, NEW success \in BOOLEAN
  PROVE  /\ CurrentState(b, expired) \in Breakers
         /\ OnRequest(b) \in Breakers
         /\ AfterRequest(b, success, expired) \in Breakers
<1> USE DEF Breakers, NewGeneration, Closed, Open, HalfOpen
<1>1. \A s \in {Closed, Open, HalfOpen} : NewGeneration(s) \in Breakers
  OBVIOUS
<1>2. \A x \in Breakers, e \in BOOLEAN : CurrentState(x, e) \in Breakers
  BY <1>1 DEF CurrentState
<1>3. \A x \in Breakers : OnSuccess(x) \in Breakers
  BY <1>1 DEF OnSuccess
<1>4. \A x \in Breakers : OnFailure(x) \in Breakers
  <2> TAKE x \in Breakers
  <2>1. [x EXCEPT !.failures = @ + 1] \in Breakers
    OBVIOUS
  <2> QED BY <1>1, <2>1 DEF OnFailure
<1>5. OnRequest(b) \in Breakers
  BY DEF OnRequest
<1> QED BY <1>1, <1>2, <1>3, <1>4, <1>5 DEF AfterRequest

(* The elements of a batch are metrics.                                    *)
LEMMA ElementsType == \A seq \in Seq(Nat) : Elements(seq) \subseteq Nat
BY DEF Elements

(* Counting the result of a flush keeps the types.                         *)
LEMMA ExecutedType ==
  ASSUME TypeOK, NEW w \in Workers, NEW success \in BOOLEAN, Executed(w, success)
  PROVE  /\ breaker' \in Breakers
         /\ lastFlush' \in {"ok", "failed"}
         /\ pc' = [pc EXCEPT ![w] = EndOfLoop(w)]
         /\ EndOfLoop(w) \in {"exiting", "select"}
         /\ attempt' = attempt
<1>1. breaker' \in Breakers
  BY BreakerType DEF Executed, TypeOK
<1> QED BY <1>1 DEF Executed, EndOfLoop, TypeOK

(* What the API receives are metrics.                                      *)
LEMMA ReceivesType ==
  ASSUME TypeOK, NEW w \in Workers, NEW received \in BOOLEAN, Receives(w, received)
  PROVE  arrived' \subseteq Nat /\ duplicated' \subseteq Nat
BY DEF Receives, Elements, TypeOK, Workers

(* A worker that tries again has a try left. *)
LEMMA TryAgainType ==
  ASSUME TypeOK, NEW w \in Workers, TriesAgain(w)
  PROVE  attempt[w] + 1 \in 0 .. 3
<1>1. attempt[w] \in 0 .. 3
  BY DEF TypeOK, MaxAttempts
<1>2. attempt[w] < 3
  BY Zenon DEF TriesAgain, MaxAttempts
<1> QED BY <1>1, <1>2

-----------------------------------------------------------------------------
(* Steps that move worker w from place to place without entering or        *)
(* leaving the loop.                                                       *)
WithinLoop(w) ==
  \/ SelectDone(w) \/ SelectMetric(w) \/ SelectClosed(w) \/ SelectTick(w)
  \/ Check(w) \/ Execute(w) \/ SendMetricsBatch(w) \/ SendSucceeds(w) \/ SendFails(w)

(* A step within the loop ends in the loop, and leaves the shared flag and *)
(* the wait group alone.                                                   *)
LEMMA WithinLoopMoves ==
  ASSUME TypeOK, NEW w \in Workers, WithinLoop(w)
  PROVE  /\ pc[w] \in InLoop
         /\ \E place \in InLoop : pc' = [pc EXCEPT ![w] = place]
         /\ UNCHANGED <<owner, chanClosed, isProcessing, waitGroup>>
<1> USE DEF InLoop, callerVars, sharedVars
<1>1. CASE SelectDone(w) \/ SelectMetric(w) \/ SelectClosed(w) \/ SelectTick(w)
  BY <1>1 DEF SelectDone, SelectMetric, SelectClosed, SelectTick, AsksForLastFlush,
     LeavesSelect
<1>2. CASE Check(w)
  BY <1>2 DEF Check
<1>3. CASE Execute(w)
  <2>1. PICK b : Admit(w, b) \/ Refuse(w, b)
    BY <1>3 DEF Execute
  <2>2. \E place \in InLoop : pc' = [pc EXCEPT ![w] = place]
    BY <2>1 DEF Admit, Refuse, EndOfLoop
  <2> QED BY <1>3, <2>2 DEF Execute
<1>4. CASE SendMetricsBatch(w)
  <2>1. Executed(w, TRUE) \/ TakeBatch(w)
    BY <1>4 DEF SendMetricsBatch
  <2>2. \E place \in InLoop : pc' = [pc EXCEPT ![w] = place]
    BY <2>1, ExecutedType DEF TakeBatch
  <2> QED BY <1>4, <2>2 DEF SendMetricsBatch
<1>5. CASE SendSucceeds(w)
  BY <1>5, ExecutedType DEF SendSucceeds
<1>6. CASE SendFails(w)
  <2>1. TryAgain(w) \/ Executed(w, FALSE)
    BY <1>6 DEF SendFails
  <2>2. \E place \in InLoop : pc' = [pc EXCEPT ![w] = place]
    BY <2>1, ExecutedType DEF TryAgain
  <2> QED BY <1>6, <2>2 DEF SendFails
<1> QED BY <1>1, <1>2, <1>3, <1>4, <1>5, <1>6 DEF WithinLoop

(* The flush actions keep the types. *)
LEMMA WithinLoopType ==
  ASSUME TypeOK, NEW w \in Workers, WithinLoop(w)
  PROVE  TypeOK'
<1> USE DEF TypeOK, callerVars, workerVars, sharedVars, historyVars, Live, InLoop
<1>1. CASE SelectDone(w)
  BY <1>1 DEF SelectDone, LeavesSelect
<1>2. CASE SelectMetric(w)
  BY <1>2 DEF SelectMetric, LeavesSelect, Batched
<1>3. CASE SelectClosed(w)
  BY <1>3 DEF SelectClosed, AsksForLastFlush, LeavesSelect
<1>4. CASE SelectTick(w)
  BY <1>4 DEF SelectTick, LeavesSelect, Unread
<1>5. CASE Check(w)
  BY <1>5 DEF Check, SeesDone
<1>6. CASE Execute(w)
  <2>1. PICK expired \in BOOLEAN :
          LET b == CurrentState(breaker, expired)
          IN  IF Admits(b) THEN Admit(w, b) ELSE Refuse(w, b)
    BY <1>6 DEF Execute
  <2> DEFINE b == CurrentState(breaker, expired)
  <2>2. b \in Breakers /\ OnRequest(b) \in Breakers
    BY BreakerType
  <2>3. CASE Admit(w, b)
    BY <1>6, <2>2, <2>3 DEF Execute, Admit, MaxAttempts
  <2>4. CASE Refuse(w, b)
    BY <1>6, <2>2, <2>4 DEF Execute, Refuse, EndOfLoop
  <2> QED BY <2>1, <2>3, <2>4
<1>7. CASE SendMetricsBatch(w)
  <2>1. CASE batcher = <<>>
    BY <1>7, <2>1, ExecutedType DEF SendMetricsBatch
  <2>2. CASE TakeBatch(w)
    BY <1>7, <2>2 DEF SendMetricsBatch, TakeBatch
  <2> QED BY <1>7, <2>1, <2>2 DEF SendMetricsBatch
<1>8. CASE SendSucceeds(w)
  <2>1. settled' \in Seq(Nat)
    BY <1>8 DEF SendSucceeds
  <2>2. acked' \subseteq Nat
    BY <1>8, ElementsType DEF SendSucceeds
  <2>3. mts' \in [Workers -> Seq(Nat)]
    BY <1>8 DEF SendSucceeds
  <2> QED BY <1>8, <2>1, <2>2, <2>3, ExecutedType, ReceivesType DEF SendSucceeds
<1>9. CASE SendFails(w)
  <2>1. settled' \in Seq(Nat) /\ batcher' \in Seq(Nat) /\ mts' \in [Workers -> Seq(Nat)]
    BY <1>9 DEF SendFails
  <2>2. arrived' \subseteq Nat /\ duplicated' \subseteq Nat
    BY <1>9, ReceivesType DEF SendFails
  <2>3. /\ pc' \in [Workers -> Live \cup {"none", "gone"}]
        /\ attempt' \in [Workers -> 0 .. MaxAttempts]
        /\ lastFlush' \in {"none", "ok", "failed", "refused"}
        /\ breaker' \in Breakers
    <3>1. CASE TriesAgain(w)
      BY <1>9, <3>1, TryAgainType DEF SendFails, TryAgain, MaxAttempts
    <3>2. CASE ~TriesAgain(w)
      BY <1>9, <3>2, ExecutedType DEF SendFails
    <3> QED BY <3>1, <3>2
  <2> QED BY <1>9, <2>1, <2>2, <2>3 DEF SendFails
<1> QED
  BY <1>1, <1>2, <1>3, <1>4, <1>5, <1>6, <1>7, <1>8, <1>9 DEF WithinLoop

-----------------------------------------------------------------------------
(* The part of the inductive invariant that is about goroutines.           *)
Threads == TypeOK /\ Succession /\ BatcherExclusive

(* The counter of the wait group, without counting a set.                  *)
LEMMA LiveCount ==
  ASSUME NEW P, P \subseteq {1, 2}
  PROVE  Cardinality(P) = (IF 1 \in P THEN 1 ELSE 0) + (IF 2 \in P THEN 1 ELSE 0)
<1>1. CASE P = {}
  BY <1>1, FS_EmptySet
<1>2. CASE P = {1}
  BY <1>2, FS_Singleton
<1>3. CASE P = {2}
  BY <1>3, FS_Singleton
<1>4. CASE P = {1, 2}
  <2>1. Cardinality({1}) = 1 /\ IsFiniteSet({1})
    BY FS_Singleton
  <2>2. Cardinality({1} \cup {2}) = 2
    BY <2>1, FS_AddElement
  <2>3. {1} \cup {2} = P
    BY <1>4
  <2> QED BY <1>4, <2>2, <2>3
<1> QED BY <1>1, <1>2, <1>3, <1>4

(* The set that BatcherExclusive counts, before and after a step.          *)
LEMMA LiveWorkersCount ==
  ASSUME NEW p
  PROVE  Cardinality({w \in Workers : p[w] \in Live}) =
           (IF p[1] \in Live THEN 1 ELSE 0) + (IF p[2] \in Live THEN 1 ELSE 0)
<1> DEFINE P == {w \in Workers : p[w] \in Live}
<1>1. P \subseteq {1, 2}
  BY DEF Workers
<1>2. 1 \in P <=> p[1] \in Live
  BY DEF Workers
<1>3. 2 \in P <=> p[2] \in Live
  BY DEF Workers
<1> HIDE DEF P
<1>4. Cardinality(P) = (IF p[1] \in Live THEN 1 ELSE 0) + (IF p[2] \in Live THEN 1 ELSE 0)
  BY <1>1, <1>2, <1>3, LiveCount
<1> QED BY <1>4 DEF P

(* A worker that stays in the loop disturbs nothing of it.                 *)
LEMMA StaysInLoop ==
  ASSUME Threads, TypeOK', NEW w \in Workers, NEW place \in InLoop, pc[w] \in InLoop,
         pc' = [pc EXCEPT ![w] = place], UNCHANGED <<owner, chanClosed, isProcessing, waitGroup>>
  PROVE  Threads'
<1>1. \A v \in Workers : pc'[v] = IF v = w THEN place ELSE pc[v]
  BY DEF Threads, TypeOK
<1>2. Succession'
  BY <1>1 DEF Threads, Succession, InLoop, Live, Workers
<1>3. {v \in Workers : pc'[v] \in Live} = {v \in Workers : pc[v] \in Live}
  BY <1>1 DEF Live
<1>4. BatcherExclusive'
  BY <1>1, <1>3 DEF Threads, BatcherExclusive
<1> QED BY <1>2, <1>4 DEF Threads

(* Threads holds of a fresh processor.                                     *)
LEMMA ThreadsInit == Init => Threads
<1> SUFFICES ASSUME Init PROVE Threads
  OBVIOUS
<1>1. TypeOK
  <2>1. <<>> \in Seq(Nat)
    OBVIOUS
  <2>2. breaker \in Breakers
    BY FreshBreaker DEF Init
  <2>3. isProcessing \in BOOLEAN
    BY DEF Init
  <2>6. waitGroup \in 0 .. 2
    BY DEF Init
  <2>4. attempt \in [Workers -> 0 .. MaxAttempts]
    BY DEF Init, MaxAttempts
  <2>5. pc \in [Workers -> Live \cup {"none", "gone"}]
    BY DEF Init
  <2> QED BY <2>1, <2>2, <2>3, <2>4, <2>5, <2>6 DEF Init, TypeOK
<1>2. \A w \in Workers : pc[w] = "none"
  BY DEF Init
<1>3. Cardinality({w \in Workers : pc[w] \in Live}) = 0
  BY <1>2, LiveWorkersCount DEF Workers, Live, InLoop
<1>4. Succession /\ BatcherExclusive
  BY <1>2, <1>3 DEF Init, Succession, BatcherExclusive, Workers, Live, InLoop
<1> QED BY <1>1, <1>4 DEF Threads

(* StartProcessing and FinishProcessing: the worker they start is alone in *)
(* the loop.                                                               *)
LEMMA StartedKeepsThreads ==
  ASSUME Threads, NEW seen \in {isProcessing, owner = "started"}, Started(seen),
         owner \in {"made", "started"},
         owner' = "started" \/ owner' = "closing", UNCHANGED chanClosed,
         owner' = "started" => owner = "made" /\ ~seen
  PROVE  /\ Succession' /\ BatcherExclusive'
         /\ isProcessing' \in BOOLEAN /\ waitGroup' \in 0 .. 2
         /\ pc' \in [Workers -> Live \cup {"none", "gone"}]
<1> USE DEF Threads, TypeOK, Workers, Live, InLoop
<1>1. CASE seen
  <2>1. owner = "started" /\ owner' = "closing"
    BY <1>1 DEF BatcherExclusive, Succession
  <2>2. UNCHANGED <<pc, isProcessing, waitGroup>>
    BY <1>1 DEF Started, StartsWorker, sharedVars
  <2> QED BY <2>1, <2>2 DEF Succession, BatcherExclusive
<1>2. CASE ~seen
  <2>1. ~isProcessing
    BY <1>2 DEF BatcherExclusive, Succession
  <2> DEFINE w == IF pc[1] = "none" THEN 1 ELSE 2
  <2>2. isProcessing' = TRUE /\ waitGroup' = waitGroup + 1 /\ pc' = [pc EXCEPT ![w] = "select"]
    BY <1>2 DEF Started, StartsWorker
  <2>3. pc[2] \in {"none", "gone", "leaving"}
    BY <2>1 DEF BatcherExclusive
  <2>4. pc[2] = "none"
    BY DEF Succession
  <2>5. pc[1] \in {"none", "gone", "leaving"}
    BY <2>1 DEF BatcherExclusive
  <2>6. waitGroup = IF pc[1] = "leaving" THEN 1 ELSE 0
    <3>1. waitGroup = (IF pc[1] \in Live THEN 1 ELSE 0) + (IF pc[2] \in Live THEN 1 ELSE 0)
      BY LiveWorkersCount, Zenon DEF BatcherExclusive
    <3> QED BY <2>4, <2>5, <3>1
  <2>7. /\ pc'[1] = IF pc[1] = "none" THEN "select" ELSE pc[1]
        /\ pc'[2] = IF pc[1] = "none" THEN "none" ELSE "select"
    BY <2>2, <2>4
  <2>8. waitGroup' = IF pc[1] = "leaving" THEN 2 ELSE 1
    BY <2>2, <2>6
  <2>9. Cardinality({v \in Workers : pc'[v] \in Live}) = IF pc[1] = "leaving" THEN 2 ELSE 1
    <3> DEFINE q == pc'
    <3>1. Cardinality({v \in Workers : q[v] \in Live}) =
            (IF q[1] \in Live THEN 1 ELSE 0) + (IF q[2] \in Live THEN 1 ELSE 0)
      BY LiveWorkersCount, Zenon
    <3>2. CASE pc[1] = "leaving"
      BY <2>7, <3>1, <3>2
    <3>3. CASE pc[1] # "leaving"
      BY <2>5, <2>7, <3>1, <3>3
    <3> QED BY <3>2, <3>3
  <2>10. BatcherExclusive'
    BY <2>2, <2>5, <2>7, <2>8, <2>9 DEF BatcherExclusive
  <2>11. Succession'
    BY <2>5, <2>7 DEF Succession
  <2>12. waitGroup' \in 0 .. 2
    BY <2>8
  <2> QED BY <2>2, <2>10, <2>11, <2>12
<1> QED BY <1>1, <1>2

(* Steps that change no part of Threads but the types. *)
LEMMA ThreadsUntouched ==
  ASSUME Threads, TypeOK', UNCHANGED <<owner, chanClosed, isProcessing, waitGroup, pc>>
  PROVE  Threads'
BY DEF Threads, Succession, BatcherExclusive

(* Every step keeps Threads.                                               *)
LEMMA ThreadsStep == Threads /\ [Next]_vars => Threads'
<1> SUFFICES ASSUME Threads, [Next]_vars PROVE Threads'
  OBVIOUS
<1> USE DEF callerVars, workerVars, sharedVars, historyVars
<1>t. TypeOK
  BY DEF Threads
<1>1. CASE UNCHANGED vars
  BY <1>1 DEF vars, Threads, TypeOK, Succession, BatcherExclusive
<1>2. CASE Cancel
  <2>1. TypeOK'
    BY <1>t, <1>2 DEF Cancel, TypeOK
  <2> QED BY <1>2, <2>1, ThreadsUntouched DEF Cancel
<1>3. ASSUME NEW s \in Senders, CallAddMetric(s) \/ AddMetric(s) \/ AddMetricPanics(s)
      PROVE  Threads'
  <2>1. CASE CallAddMetric(s)
    <3>1. TypeOK'
      BY <1>t, <2>1 DEF CallAddMetric, TypeOK
    <3> QED BY <2>1, <3>1, ThreadsUntouched DEF CallAddMetric
  <2>2. CASE AddMetric(s)
    <3>1. TypeOK'
      BY <1>t, <2>2 DEF AddMetric, TypeOK
    <3> QED BY <2>2, <3>1, ThreadsUntouched DEF AddMetric
  <2>3. CASE AddMetricPanics(s)
    <3>1. TypeOK'
      BY <1>t, <2>3 DEF AddMetricPanics, TypeOK
    <3> QED BY <2>3, <3>1, ThreadsUntouched DEF AddMetricPanics
  <2> QED BY <1>3, <2>1, <2>2, <2>3
<1>4. CASE StartProcessing
  <2>1. /\ Succession' /\ BatcherExclusive'
        /\ isProcessing' \in BOOLEAN /\ waitGroup' \in 0 .. 2
        /\ pc' \in [Workers -> Live \cup {"none", "gone"}]
    <3>1. ~isProcessing
      BY <1>4 DEF StartProcessing, Threads, Succession, BatcherExclusive, Workers, InLoop
    <3> QED BY <1>4, <3>1, StartedKeepsThreads DEF StartProcessing
  <2>2. TypeOK'
    BY <1>t, <1>4, <2>1 DEF StartProcessing, TypeOK
  <2> QED BY <2>1, <2>2 DEF Threads
<1>5. CASE FinishProcessing
  <2>1. /\ Succession' /\ BatcherExclusive'
        /\ isProcessing' \in BOOLEAN /\ waitGroup' \in 0 .. 2
        /\ pc' \in [Workers -> Live \cup {"none", "gone"}]
    BY <1>5, StartedKeepsThreads DEF FinishProcessing
  <2>2. TypeOK'
    BY <1>t, <1>5, <2>1 DEF FinishProcessing, TypeOK
  <2> QED BY <2>1, <2>2 DEF Threads
<1>6. CASE CloseChan
  <2>1. TypeOK'
    BY <1>t, <1>6 DEF CloseChan, TypeOK
  <2>2. Succession' /\ BatcherExclusive'
    BY <1>6 DEF CloseChan, Threads, Succession, BatcherExclusive
  <2> QED BY <2>1, <2>2 DEF Threads
<1>7. CASE FinishReturns
  <2>1. TypeOK'
    BY <1>t, <1>7 DEF FinishReturns, TypeOK
  <2>2. \A w \in Workers : pc[w] \notin Live
    BY <1>7, LiveWorkersCount DEF FinishReturns, WaitIsOver, Threads, BatcherExclusive, Workers
  <2>3. Succession' /\ BatcherExclusive'
    BY <1>7, <2>2 DEF FinishReturns, Threads, Succession, BatcherExclusive
  <2> QED BY <2>1, <2>3 DEF Threads
<1>8. ASSUME NEW w \in Workers, Tick(w)
      PROVE  Threads'
  <2>1. TypeOK'
    BY <1>t, <1>8 DEF Tick, TypeOK
  <2> QED BY <1>8, <2>1, ThreadsUntouched DEF Tick
<1>9. ASSUME NEW w \in Workers, WithinLoop(w)
      PROVE  Threads'
  <2>1. TypeOK'
    BY <1>t, <1>9, WithinLoopType
  <2> QED BY <1>t, <1>9, <2>1, WithinLoopMoves, StaysInLoop
<1>10. ASSUME NEW w \in Workers, ExitLoop(w)
       PROVE  Threads'
  <2>1. TypeOK'
    BY <1>t, <1>10 DEF ExitLoop, TypeOK, Unread, Live
  <2>2. \A v \in Workers : pc'[v] = IF v = w THEN "leaving" ELSE pc[v]
    BY <1>t, <1>10 DEF ExitLoop, TypeOK
  <2>3. pc[w] \in InLoop /\ "leaving" \notin InLoop /\ pc[w] = "exiting"
    BY <1>10 DEF ExitLoop, InLoop
  <2>4. \A v \in Workers : pc'[v] \notin InLoop
    BY <2>2, <2>3 DEF Threads, BatcherExclusive
  <2>5. {v \in Workers : pc'[v] \in Live} = {v \in Workers : pc[v] \in Live}
    BY <2>2, <2>3 DEF Live
  <2>6. BatcherExclusive'
    BY <1>10, <2>4, <2>5 DEF ExitLoop, Threads, BatcherExclusive
  <2>7. Succession'
    BY <1>10, <2>2, <2>3 DEF ExitLoop, Threads, Succession, Live, Workers
  <2> QED BY <2>1, <2>6, <2>7 DEF Threads
<1>11. ASSUME NEW w \in Workers, Leave(w)
       PROVE  Threads'
  <2>1. \A v \in Workers : pc'[v] = IF v = w THEN "gone" ELSE pc[v]
    BY <1>t, <1>11 DEF Leave, TypeOK
  <2>2. pc[w] = "leaving" /\ "gone" \notin Live /\ "leaving" \in Live /\ InLoop \subseteq Live
    BY <1>11 DEF Leave, Live, InLoop
  <2>3. /\ waitGroup = (IF pc[1] \in Live THEN 1 ELSE 0) + (IF pc[2] \in Live THEN 1 ELSE 0)
        /\ waitGroup' = waitGroup - 1
    BY <1>11, LiveWorkersCount DEF Leave, Done, Threads, BatcherExclusive
  <2>4. waitGroup' = (IF pc'[1] \in Live THEN 1 ELSE 0) + (IF pc'[2] \in Live THEN 1 ELSE 0)
    BY <2>1, <2>2, <2>3 DEF Workers
  <2>5. waitGroup' \in 0 .. 2
    BY <2>4
  <2>6. TypeOK'
    BY <1>t, <1>11, <2>5 DEF Leave, TypeOK
  <2>7. waitGroup' = Cardinality({v \in Workers : pc'[v] \in Live})
    <3> DEFINE q == pc'
    <3>1. Cardinality({v \in Workers : q[v] \in Live}) =
            (IF q[1] \in Live THEN 1 ELSE 0) + (IF q[2] \in Live THEN 1 ELSE 0)
      BY LiveWorkersCount, Zenon
    <3> QED BY <2>4, <3>1
  <2>8. \A v \in Workers : pc'[v] \in InLoop <=> pc[v] \in InLoop
    BY <2>1, <2>2 DEF InLoop
  <2>9. BatcherExclusive'
    BY <1>11, <2>7, <2>8 DEF Leave, Threads, BatcherExclusive
  <2>10. Succession'
    BY <1>11, <2>1, <2>2 DEF Leave, Threads, Succession, Workers
  <2> QED BY <2>6, <2>9, <2>10 DEF Threads
<1> QED
  BY <1>1, <1>2, <1>3, <1>4, <1>5, <1>6, <1>7, <1>8, <1>9, <1>10, <1>11, NextCases
     DEF WithinLoop

(* The types are right, and BatcherExclusive and Succession hold, in every *)
(* reachable state.                                                        *)
THEOREM ThreadsCorrect == Spec => []Threads
<1>1. Init => Threads
  BY ThreadsInit
<1>2. Threads /\ [Next]_vars => Threads'
  BY ThreadsStep
<1> QED BY <1>1, <1>2, PTL DEF Spec

(* Every variable of the processor keeps its type.                         *)
THEOREM TypeCorrect == Spec => []TypeOK
<1>1. Threads => TypeOK
  BY DEF Threads
<1> QED BY <1>1, ThreadsCorrect, PTL

(* At most one goroutine is in the processing loop. *)
THEOREM Exclusion == Spec => []BatcherExclusive
<1>1. Threads => BatcherExclusive
  BY DEF Threads
<1> QED BY <1>1, ThreadsCorrect, PTL

-----------------------------------------------------------------------------
(* Appending to a concatenation appends to its second part.                *)
LEMMA ConcatAppend ==
  ASSUME NEW s \in Seq(Nat), NEW t \in Seq(Nat), NEW x \in Nat
  PROVE  s \o Append(t, x) = Append(s \o t, x)
<1>1. Append(t, x) \in Seq(Nat) /\ s \o t \in Seq(Nat)
  OBVIOUS
<1>2. Append(s \o t, x) \in Seq(Nat) /\ s \o Append(t, x) \in Seq(Nat)
  BY <1>1
<1> QED BY <1>1, <1>2, SeqEqual

(* Moving the head of the channel to the end of the batch keeps their      *)
(* order.                                                                  *)
LEMMA MoveHead ==
  ASSUME NEW s \in Seq(Nat), NEW t \in Seq(Nat), t # <<>>
  PROVE  Append(s, Head(t)) \o Tail(t) = s \o t
<1>1. Append(s, Head(t)) \in Seq(Nat) /\ Tail(t) \in Seq(Nat) 
  BY HeadTailProperties
<1>2. Append(s, Head(t)) \o Tail(t) \in Seq(Nat) /\ s \o t \in Seq(Nat) 
  BY <1>1
<1>3. Len(Append(s, Head(t)) \o Tail(t)) = Len(s \o t)
  BY <1>1, HeadTailProperties
<1>4. \A i \in 1 .. Len(s \o t) : (Append(s, Head(t)) \o Tail(t))[i] = (s \o t)[i]
  BY <1>1, HeadTailProperties
<1> QED BY <1>2, <1>3, <1>4, SeqEqual

(* One more metric at the end of the sequence of all metrics.              *)
LEMMA AllMetrics ==
  ASSUME NEW n \in Nat
  PROVE  /\ [i \in 1 .. n |-> i] \in Seq(Nat)
         /\ Append([i \in 1 .. n |-> i], n + 1) = [i \in 1 .. n + 1 |-> i]
<1>1. \A m \in Nat : [i \in 1 .. m |-> i] \in Seq(Nat) /\ Len([i \in 1 .. m |-> i]) = m
  OBVIOUS
<1> DEFINE s == [i \in 1 .. n |-> i]
           t == [i \in 1 .. n + 1 |-> i]
<1>2. s \in Seq(Nat) /\ Len(s) = n
  BY <1>1
<1>3. t \in Seq(Nat) /\ Len(t) = n + 1
  BY <1>1
<1>4. Append(s, n + 1) \in Seq(Nat) /\ Len(Append(s, n + 1)) = n + 1
  BY <1>2
<1>5. \A i \in 1 .. n + 1 : Append(s, n + 1)[i] = t[i]
  BY <1>2
<1>6. Append(s, n + 1) = t
  BY <1>3, <1>4, <1>5, SeqEqual
<1> QED BY <1>1, <1>6

(* Concatenation of sequences of metrics: type, empty parts and            *)
(* associativity.                                                          *)
LEMMA Concat ==
  /\ \A s \in Seq(Nat) : <<>> \o s = s /\ s \o <<>> = s
  /\ \A s, t \in Seq(Nat) : s \o t \in Seq(Nat)
  /\ \A s, t, u \in Seq(Nat) : (s \o t) \o u = s \o (t \o u)
<1>1. \A s \in Seq(Nat) : <<>> \o s = s /\ s \o <<>> = s
  BY ConcatEmptySeq
<1>2. \A s, t \in Seq(Nat) : s \o t \in Seq(Nat)
  OBVIOUS
<1>3. \A s, t, u \in Seq(Nat) : (s \o t) \o u = s \o (t \o u)
  BY ConcatAssociative
<1> QED BY <1>1, <1>2, <1>3

-----------------------------------------------------------------------------
Order == BatchInFlight /\ FirstInFirstOut

InFlight == {"sending", "lateSend"}

(* The queue inside the processor when only worker w may hold a batch. *)
LEMMA HeldBy ==
  ASSUME NEW m \in [Workers -> Seq(Nat)], NEW b \in Seq(Nat), NEW c \in Seq(Nat),
         NEW w \in Workers, \A v \in Workers \ {w} : m[v] = <<>>
  PROVE  m[1] \o m[2] \o b \o c = m[w] \o (b \o c)
<1>1. m[1] \in Seq(Nat) /\ m[2] \in Seq(Nat)
  BY DEF Workers
<1>4. (m[w] \o b) \o c = m[w] \o (b \o c)
  <2>1. m[w] \in Seq(Nat)
    OBVIOUS
  <2> QED BY <2>1, ConcatAssociative
<1>2. CASE w = 1
  <2>1. m[2] = <<>>
    BY <1>2 DEF Workers
  <2>2. m[1] \o m[2] = m[w]
    BY <1>1, <1>2, <2>1, Concat
  <2> QED BY <1>4, <2>2
<1>3. CASE w = 2
  <2>1. m[1] = <<>>
    BY <1>3 DEF Workers
  <2>2. m[1] \o m[2] = m[w]
    BY <1>1, <1>3, <2>1, Concat
  <2> QED BY <1>4, <2>2
<1> QED BY <1>2, <1>3 DEF Workers

(* While worker w is in the loop, no other worker holds a batch.           *)
LEMMA AloneInLoop ==
  ASSUME Threads, BatchInFlight, NEW w \in Workers, pc[w] \in InLoop
  PROVE  /\ Held = mts[w] \o (batcher \o metricsChan)
         /\ \A v \in Workers \ {w} : mts[v] = <<>> /\ pc[v] \notin InFlight
<1>1. \A v \in Workers \ {w} : mts[v] = <<>> /\ pc[v] \notin InFlight
  BY DEF Threads, BatcherExclusive, BatchInFlight, InLoop, InFlight
<1>2. /\ mts \in [Workers -> Seq(Nat)]
      /\ batcher \in Seq(Nat) /\ metricsChan \in Seq(Nat)
  BY DEF Threads, TypeOK
<1>3. Held = mts[w] \o (batcher \o metricsChan)
  BY <1>1, <1>2, HeldBy DEF Held
<1> QED BY <1>1, <1>3

(* A step of worker w that keeps the order. *)
LEMMA WorkerKeepsOrder ==
  ASSUME Threads, Threads', Order, NEW w \in Workers, pc[w] \in InLoop,
         UNCHANGED added,
         \A v \in Workers \ {w} : mts'[v] = mts[v] /\ pc'[v] = pc[v],
         IF pc'[w] \in InFlight THEN mts'[w] # <<>> /\ batcher' = <<>> ELSE mts'[w] = <<>>,
         settled' \o (mts'[w] \o (batcher' \o metricsChan'))
           = settled \o (mts[w] \o (batcher \o metricsChan))
  PROVE  Order'
<1>1. /\ Held = mts[w] \o (batcher \o metricsChan)
      /\ \A v \in Workers \ {w} : mts[v] = <<>> /\ pc[v] \notin InFlight
  BY AloneInLoop DEF Order
<1>2. BatchInFlight'
  BY <1>1 DEF BatchInFlight, InFlight
<1>3. /\ mts' \in [Workers -> Seq(Nat)]
      /\ batcher' \in Seq(Nat) /\ metricsChan' \in Seq(Nat)
  BY DEF Threads, TypeOK
<1>4. \A v \in Workers \ {w} : mts'[v] = <<>>
  BY <1>1
<1>5. Held' = mts'[w] \o (batcher' \o metricsChan')
  BY <1>3, <1>4, HeldBy DEF Held
<1>6. FirstInFirstOut'
  BY <1>1, <1>5 DEF Order, FirstInFirstOut
<1> QED BY <1>2, <1>6 DEF Order

(* Steps that move no metric. *)
LEMMA OrderUnchanged ==
  ASSUME Order, UNCHANGED <<mts, batcher, metricsChan, settled, added>>,
         \A w \in Workers : pc'[w] \in InFlight <=> pc[w] \in InFlight
  PROVE  Order'
BY DEF Order, BatchInFlight, FirstInFirstOut, Held, InFlight

(* Order holds of a fresh processor.                                       *)
LEMMA OrderInit == Init => Order
<1> SUFFICES ASSUME Init PROVE Order
  OBVIOUS
<1>1. mts[1] = <<>> /\ mts[2] = <<>> /\ batcher = <<>> /\ metricsChan = <<>> /\ settled = <<>>
  BY DEF Init, Workers
<1>2. settled \o Held = <<>>
  BY <1>1 DEF Held
<1>3. [i \in 1 .. 0 |-> i] = <<>>
  OBVIOUS
<1>4. BatchInFlight
  BY DEF Init, BatchInFlight
<1> QED BY <1>2, <1>3, <1>4 DEF Init, Order, FirstInFirstOut

(* Every step keeps the order of the metrics and the batch in flight.      *)
LEMMA OrderStep == Threads /\ Threads' /\ Order /\ [Next]_vars => Order'
<1> SUFFICES ASSUME Threads, Threads', Order, [Next]_vars PROVE Order'
  OBVIOUS
<1> USE DEF callerVars, workerVars, sharedVars, historyVars, InFlight
<1>t. /\ mts[1] \in Seq(Nat) /\ mts[2] \in Seq(Nat) /\ Held \in Seq(Nat)
      /\ batcher \in Seq(Nat) /\ metricsChan \in Seq(Nat) /\ settled \in Seq(Nat)
      /\ added \in Nat /\ pc \in [Workers -> Live \cup {"none", "gone"}]
      /\ mts \in [Workers -> Seq(Nat)]
  BY DEF Threads, TypeOK, Workers, Held
<1>1. CASE UNCHANGED vars
  BY <1>1, OrderUnchanged DEF vars
<1>2. CASE Cancel
  BY <1>2, OrderUnchanged DEF Cancel
<1>3. ASSUME NEW s \in Senders, CallAddMetric(s) \/ AddMetric(s) \/ AddMetricPanics(s)
      PROVE  Order'
  <2>1. CASE CallAddMetric(s)
    BY <2>1, OrderUnchanged DEF CallAddMetric
  <2>2. CASE AddMetric(s)
    <3>1. UNCHANGED <<mts, batcher, settled, pc>>
      BY <2>2 DEF AddMetric
    <3>2. metricsChan' = Append(metricsChan, added + 1) /\ added' = added + 1
      BY <2>2 DEF AddMetric
    <3>3. (mts[1] \o mts[2] \o batcher) \in Seq(Nat)
      BY <1>t
    <3> DEFINE front == mts[1] \o mts[2] \o batcher
    <3>4. Held' = Append(Held, added + 1)
      <4>1. Held = front \o metricsChan /\ Held' = front \o metricsChan'
        BY <3>1 DEF Held
      <4>3. front \in Seq(Nat)
        BY <3>3
      <4> HIDE DEF front
      <4>2. front \o Append(metricsChan, added + 1) = Append(front \o metricsChan, added + 1)
        BY <1>t, <4>3, ConcatAppend
      <4> QED BY <3>2, <4>1, <4>2
    <3>5. settled \o Append(Held, added + 1) = Append(settled \o Held, added + 1)
      BY <1>t, ConcatAppend
    <3>6. (settled \o Held)' = Append(settled \o Held, added + 1)
      BY <3>1, <3>4, <3>5
    <3>7. FirstInFirstOut'
      BY <1>t, <3>2, <3>6, AllMetrics DEF Order, FirstInFirstOut
    <3>8. BatchInFlight'
      BY <3>1 DEF Order, BatchInFlight
    <3> QED BY <3>7, <3>8 DEF Order
  <2>3. CASE AddMetricPanics(s)
    BY <2>3, OrderUnchanged DEF AddMetricPanics
  <2> QED BY <1>3, <2>1, <2>2, <2>3
<1>4. ASSUME StartProcessing \/ FinishProcessing
      PROVE  Order'
  <2>1. PICK seen \in {isProcessing, owner = "started"} :
          Started(seen) /\ UNCHANGED <<mts, batcher, metricsChan, settled, added>>
    BY <1>4 DEF StartProcessing, FinishProcessing
  <2>2. CASE seen
    <3>1. UNCHANGED pc
      BY <2>1, <2>2 DEF Started, StartsWorker
    <3> QED BY <2>1, <3>1, OrderUnchanged
  <2>3. CASE ~seen
    <3> DEFINE w == IF pc[1] = "none" THEN 1 ELSE 2
    <3>1. pc' = [pc EXCEPT ![w] = "select"]
      BY <2>1, <2>3 DEF Started, StartsWorker
    <3>2. pc[w] \notin InFlight
      BY <1>4 DEF Threads, Succession, StartProcessing, FinishProcessing
    <3>3. \A v \in Workers : pc'[v] \in InFlight <=> pc[v] \in InFlight
      BY <1>t, <3>1, <3>2 DEF Workers
    <3> QED BY <2>1, <3>3, OrderUnchanged
  <2> QED BY <2>2, <2>3
<1>5. CASE CloseChan
  BY <1>5, OrderUnchanged DEF CloseChan
<1>6. CASE FinishReturns
  BY <1>6, OrderUnchanged DEF FinishReturns
<1>7. ASSUME NEW w \in Workers,
             Tick(w) \/ ExitLoop(w) \/ Leave(w) \/ SelectDone(w) \/ SelectClosed(w)
               \/ SelectTick(w) \/ Check(w)
      PROVE  Order'
  <2> USE <1>7 DEF Tick, ExitLoop, Leave, SelectDone, SelectClosed, SelectTick, Check,
                   AsksForLastFlush, LeavesSelect
  <2>1. UNCHANGED <<mts, batcher, metricsChan, settled, added>>
    OBVIOUS
  <2>2. \A v \in Workers : pc'[v] \in InFlight <=> pc[v] \in InFlight
    BY <1>t
  <2> QED BY <2>1, <2>2, OrderUnchanged
<1>8. ASSUME NEW w \in Workers, SelectMetric(w)
      PROVE  Order'
  <2>1. /\ pc[w] = "select" /\ pc' = [pc EXCEPT ![w] = "check"] /\ metricsChan # <<>>
        /\ UNCHANGED <<mts, settled, added>>
        /\ batcher' = Append(batcher, Head(metricsChan)) /\ metricsChan' = Tail(metricsChan)
    BY <1>8 DEF SelectMetric, LeavesSelect, Batched
  <2>2. pc'[w] = "check" /\ \A v \in Workers \ {w} : pc'[v] = pc[v]
    BY <1>t, <2>1
  <2>3. batcher' \o metricsChan' = batcher \o metricsChan
    BY <1>t, <2>1, MoveHead
  <2>4. mts[w] = <<>>
    BY <2>1 DEF Order, BatchInFlight
  <2> QED BY <2>1, <2>2, <2>3, <2>4, WorkerKeepsOrder DEF InLoop
<1>9. ASSUME NEW w \in Workers, Execute(w)
      PROVE  Order'
  <2>1. PICK place \in InLoop \ InFlight : pc' = [pc EXCEPT ![w] = place]
    BY <1>9 DEF Execute, Admit, Refuse, EndOfLoop, InLoop
  <2>2. pc[w] = "execute" /\ UNCHANGED <<mts, batcher, metricsChan, settled, added>>
    BY <1>9 DEF Execute
  <2>3. \A v \in Workers : pc'[v] \in InFlight <=> pc[v] \in InFlight
    BY <1>t, <2>1, <2>2
  <2> QED BY <2>2, <2>3, OrderUnchanged
<1>10. ASSUME NEW w \in Workers, SendMetricsBatch(w)
       PROVE  Order'
  <2>1. pc[w] = "batch" /\ UNCHANGED <<metricsChan, settled, added>>
    BY <1>10 DEF SendMetricsBatch
  <2>2. CASE Executed(w, TRUE) /\ UNCHANGED <<mts, batcher>>
    <3>1. pc' = [pc EXCEPT ![w] = EndOfLoop(w)] /\ EndOfLoop(w) \notin InFlight
      BY <2>2 DEF Executed, EndOfLoop
    <3>2. \A v \in Workers : pc'[v] \in InFlight <=> pc[v] \in InFlight
      BY <1>t, <2>1, <3>1
    <3> QED BY <2>1, <2>2, <3>2, OrderUnchanged
  <2>3. CASE batcher # <<>> /\ TakeBatch(w)
    <3>1. /\ pc'[w] \in InFlight /\ mts'[w] = batcher /\ batcher' = <<>>
          /\ \A v \in Workers \ {w} : mts'[v] = mts[v] /\ pc'[v] = pc[v]
      BY <1>t, <2>3 DEF TakeBatch
    <3>2. mts[w] = <<>>
      BY <2>1 DEF Order, BatchInFlight
    <3>3. mts'[w] \o (batcher' \o metricsChan') = mts[w] \o (batcher \o metricsChan)
      BY <1>t, <2>1, <3>1, <3>2, Concat
    <3> QED BY <2>1, <2>3, <3>1, <3>3, WorkerKeepsOrder DEF InLoop
  <2> QED BY <1>10, <2>2, <2>3 DEF SendMetricsBatch
<1>11. ASSUME NEW w \in Workers, SendSucceeds(w)
       PROVE  Order'
  <2>1. /\ pc[w] = "sending" /\ UNCHANGED <<metricsChan, batcher, added>>
        /\ settled' = settled \o mts[w] /\ mts' = [mts EXCEPT ![w] = <<>>]
        /\ pc' = [pc EXCEPT ![w] = EndOfLoop(w)] /\ EndOfLoop(w) \notin InFlight
    BY <1>11 DEF SendSucceeds, Executed, EndOfLoop
  <2>2. /\ pc'[w] \notin InFlight /\ mts'[w] = <<>>
        /\ \A v \in Workers \ {w} : mts'[v] = mts[v] /\ pc'[v] = pc[v]
    BY <1>t, <2>1
  <2>3. mts[w] \in Seq(Nat) /\ batcher \o metricsChan \in Seq(Nat)
    BY <1>t
  <2> DEFINE rest == batcher \o metricsChan
  <2>4. settled' \o (mts'[w] \o (batcher' \o metricsChan'))
          = settled \o (mts[w] \o (batcher \o metricsChan))
    <3>1. mts[w] \in Seq(Nat) /\ rest \in Seq(Nat)
      BY <2>3
    <3>2. mts'[w] \o (batcher' \o metricsChan') = rest
      BY <2>1, <2>2, <3>1, Concat
    <3> HIDE DEF rest
    <3>3. (settled \o mts[w]) \o rest = settled \o (mts[w] \o rest)
      BY <1>t, <3>1, Concat
    <3> QED BY <2>1, <3>2, <3>3 DEF rest
  <2> QED BY <2>1, <2>2, <2>4, WorkerKeepsOrder DEF InLoop
<1>12. ASSUME NEW w \in Workers, SendFails(w)
       PROVE  Order'
  <2>1. /\ pc[w] \in InFlight /\ UNCHANGED <<metricsChan, added>>
        /\ mts' = [mts EXCEPT ![w] = <<>>]
    BY <1>12 DEF SendFails
  <2>2. PICK place \in InLoop \ InFlight : pc' = [pc EXCEPT ![w] = place]
    BY <1>12 DEF SendFails, TryAgain, Executed, EndOfLoop, InLoop
  <2>3. /\ pc'[w] \notin InFlight /\ mts'[w] = <<>>
        /\ \A v \in Workers \ {w} : mts'[v] = mts[v] /\ pc'[v] = pc[v]
    BY <1>t, <2>1, <2>2
  <2>4. batcher = <<>>
    BY <2>1 DEF Order, BatchInFlight
  <2>5. mts[w] \in Seq(Nat)
    BY <1>t
  <2>6. CASE KeepsFailedBatch
    <3>1. batcher' = mts[w] /\ settled' = settled
      BY <1>12, <2>6 DEF SendFails
    <3>2. mts'[w] \o (batcher' \o metricsChan') = mts[w] \o (batcher \o metricsChan)
      <4>1. batcher \o metricsChan = metricsChan
        BY <1>t, <2>4, Concat
      <4>2. batcher' \o metricsChan' \in Seq(Nat) /\ batcher' \o metricsChan' = mts[w] \o metricsChan
        BY <1>t, <2>1, <2>5, <3>1
      <4>3. mts'[w] \o (batcher' \o metricsChan') = batcher' \o metricsChan'
        BY <2>3, <4>2, Concat
      <4> QED BY <4>1, <4>2, <4>3
    <3> QED BY <2>1, <2>3, <3>1, <3>2, WorkerKeepsOrder DEF InLoop
  <2>7. CASE ~KeepsFailedBatch
    <3>1. batcher' = batcher /\ settled' = settled \o mts[w]
      BY <1>12, <2>7 DEF SendFails
    <3>2. settled' \o (mts'[w] \o (batcher' \o metricsChan'))
            = settled \o (mts[w] \o (batcher \o metricsChan))
      <4> DEFINE rest == batcher \o metricsChan
      <4>1. settled \in Seq(Nat) /\ mts[w] \in Seq(Nat) /\ rest \in Seq(Nat)
        BY <1>t, <2>5
      <4>2. mts'[w] \o (batcher' \o metricsChan') = rest
        BY <2>1, <2>3, <3>1, <4>1, Concat
      <4> HIDE DEF rest
      <4>3. (settled \o mts[w]) \o rest = settled \o (mts[w] \o rest)
        BY <4>1, Concat
      <4> QED BY <3>1, <4>2, <4>3 DEF rest
    <3> QED BY <2>1, <2>3, <3>2, WorkerKeepsOrder DEF InLoop
  <2> QED BY <2>6, <2>7
<1> QED
  BY <1>1, <1>2, <1>3, <1>4, <1>5, <1>6, <1>7, <1>8, <1>9, <1>10, <1>11, <1>12, NextCases

-----------------------------------------------------------------------------
Delivery == ArrivedIsSettled /\ AtMostOnce /\ RetryKeeps

(* The elements of a concatenation are those of its parts.                 *)
LEMMA ElementsConcat ==
  ASSUME NEW s \in Seq(Nat), NEW t \in Seq(Nat)
  PROVE  Elements(s \o t) = Elements(s) \cup Elements(t)
<1>1. /\ DOMAIN (s \o t) = 1 .. Len(s) + Len(t)
      /\ DOMAIN s = 1 .. Len(s) /\ DOMAIN t = 1 .. Len(t)
      /\ Len(s) \in Nat /\ Len(t) \in Nat
      /\ \A i \in 1 .. Len(s) + Len(t) :
           (s \o t)[i] = IF i <= Len(s) THEN s[i] ELSE t[i - Len(s)]
  OBVIOUS
<1>2. ASSUME NEW x \in Elements(s \o t) PROVE x \in Elements(s) \cup Elements(t)
  <2>1. PICK i \in 1 .. Len(s) + Len(t) : x = (s \o t)[i]
    BY <1>1 DEF Elements
  <2>2. CASE i <= Len(s)
    BY <1>1, <2>1, <2>2 DEF Elements
  <2>3. CASE i > Len(s)
    <3>1. i - Len(s) \in 1 .. Len(t) /\ x = t[i - Len(s)]
      BY <1>1, <2>1, <2>3
    <3> QED BY <1>1, <3>1 DEF Elements
  <2> QED BY <1>1, <2>2, <2>3
<1>3. ASSUME NEW x \in Elements(s) PROVE x \in Elements(s \o t)
  <2>1. PICK i \in 1 .. Len(s) : x = s[i]
    BY <1>1 DEF Elements
  <2>2. i \in 1 .. Len(s) + Len(t) /\ x = (s \o t)[i]
    BY <1>1, <2>1
  <2> QED BY <1>1, <2>2 DEF Elements
<1>4. ASSUME NEW x \in Elements(t) PROVE x \in Elements(s \o t)
  <2>1. PICK i \in 1 .. Len(t) : x = t[i]
    BY <1>1 DEF Elements
  <2>2. Len(s) + i \in 1 .. Len(s) + Len(t) /\ x = (s \o t)[Len(s) + i]
    BY <1>1, <2>1
  <2> QED BY <1>1, <2>2 DEF Elements
<1> QED BY <1>2, <1>3, <1>4

(* What stands where in a concatenation.                                   *)
LEMMA ConcatAt ==
  ASSUME NEW s \in Seq(Nat), NEW t \in Seq(Nat)
  PROVE  /\ \A i \in 1 .. Len(s) : (s \o t)[i] = s[i]
         /\ \A j \in 1 .. Len(t) : (s \o t)[Len(s) + j] = t[j]
         /\ Len(s \o t) = Len(s) + Len(t) /\ Len(s) \in Nat /\ Len(t) \in Nat
         /\ DOMAIN s = 1 .. Len(s) /\ DOMAIN t = 1 .. Len(t)
OBVIOUS

(* In a queue in which every metric appears once, what has left and what   *)
(* is leaving have nothing in common.                                      *)
LEMMA NothingInCommon ==
  ASSUME NEW s \in Seq(Nat), NEW t \in Seq(Nat), NEW u \in Seq(Nat), NEW n \in Nat,
         s \o (t \o u) = [i \in 1 .. n |-> i]
  PROVE  Elements(s) \cap Elements(t) = {}
<1> DEFINE q == [i \in 1 .. n |-> i]
           v == t \o u
<1>1. v \in Seq(Nat)
  OBVIOUS
<1>2. s \o v = q
  OBVIOUS
<1>3. /\ \A j \in 1 .. Len(t) : v[j] = t[j]
      /\ Len(v) = Len(t) + Len(u) /\ Len(t) \in Nat /\ Len(u) \in Nat
      /\ DOMAIN t = 1 .. Len(t)
  BY ConcatAt
<1>4. Len(q) = n /\ \A i \in 1 .. n : q[i] = i
  OBVIOUS
<1> HIDE DEF q, v
<1>5. /\ \A i \in 1 .. Len(s) : (s \o v)[i] = s[i]
      /\ \A j \in 1 .. Len(v) : (s \o v)[Len(s) + j] = v[j]
      /\ Len(s \o v) = Len(s) + Len(v) /\ Len(s) \in Nat
      /\ DOMAIN s = 1 .. Len(s)
  BY <1>1, ConcatAt
<1>6. n = Len(s) + Len(v)
  BY <1>2, <1>4, <1>5
<1>7. \A i \in 1 .. Len(s) : s[i] = i
  BY <1>2, <1>3, <1>4, <1>5, <1>6
<1>8. ASSUME NEW j \in 1 .. Len(t) PROVE t[j] = Len(s) + j
  <2>1. j \in 1 .. Len(v) /\ t[j] = v[j]
    BY <1>3
  <2>2. v[j] = q[Len(s) + j]
    BY <1>2, <1>5, <2>1
  <2>3. Len(s) + j \in 1 .. n
    BY <1>3, <1>5, <1>6, <2>1
  <2> QED BY <1>4, <2>1, <2>2, <2>3
<1> QED BY <1>3, <1>5, <1>7, <1>8 DEF Elements

(* Delivery holds of a fresh processor.                                    *)
LEMMA DeliveryInit == Init => Delivery
BY DEF Init, Delivery, ArrivedIsSettled, AtMostOnce, RetryKeeps, Elements

(* Every step keeps Delivery.                                              *)
LEMMA DeliveryStep ==
  Threads /\ Order /\ Delivery /\ [Next]_vars => Delivery'
<1> SUFFICES ASSUME Threads, Order, Delivery, [Next]_vars PROVE Delivery'
  OBVIOUS
<1>1. CASE UNCHANGED <<settled, acked, arrived, duplicated>>
  BY <1>1 DEF Delivery, ArrivedIsSettled, AtMostOnce, RetryKeeps
<1>2. ASSUME NEW w \in Workers, pc[w] \in InFlight
      PROVE  /\ Elements(settled \o mts[w]) = Elements(settled) \cup Elements(mts[w])
             /\ ~ShouldRetryOnFail => Elements(mts[w]) \cap arrived = {}
  <2>1. /\ settled \in Seq(Nat) /\ mts[w] \in Seq(Nat) /\ added \in Nat
        /\ batcher \o metricsChan \in Seq(Nat)
    BY DEF Threads, TypeOK
  <2>2. settled \o (mts[w] \o (batcher \o metricsChan)) = [i \in 1 .. added |-> i]
    BY <1>2, AloneInLoop DEF Order, FirstInFirstOut, InFlight, InLoop
  <2>3. Elements(settled) \cap Elements(mts[w]) = {}
    BY <2>1, <2>2, NothingInCommon
  <2>4. Elements(settled \o mts[w]) = Elements(settled) \cup Elements(mts[w])
    BY <2>1, ElementsConcat
  <2> QED BY <2>3, <2>4 DEF Delivery, ArrivedIsSettled
<1>3. ASSUME NEW w \in Workers, SendSucceeds(w)
      PROVE  Delivery'
  <2>1. /\ pc[w] \in InFlight
        /\ arrived' = arrived \cup Elements(mts[w])
        /\ duplicated' = duplicated \cup (Elements(mts[w]) \cap arrived)
        /\ acked' = acked \cup Elements(mts[w])
        /\ settled' = settled \o mts[w]
    BY <1>3 DEF SendSucceeds, Receives, InFlight
  <2>2. Elements(settled') = Elements(settled) \cup Elements(mts[w])
    BY <1>2, <2>1
  <2>3. ~ShouldRetryOnFail => Elements(mts[w]) \cap arrived = {}
    BY <1>2, <2>1
  <2> QED BY <2>1, <2>2, <2>3 DEF Delivery, ArrivedIsSettled, AtMostOnce, RetryKeeps
<1>4. ASSUME NEW w \in Workers, SendFails(w)
      PROVE  Delivery'
  <2>1. /\ pc[w] \in InFlight
        /\ UNCHANGED acked
        /\ settled' = IF ShouldRetryOnFail THEN settled ELSE settled \o mts[w]
    BY <1>4 DEF SendFails, InFlight, KeepsFailedBatch
  <2>2. PICK received \in BOOLEAN : Receives(w, received)
    BY <1>4 DEF SendFails
  <2>3. /\ arrived' = arrived \/ arrived' = arrived \cup Elements(mts[w])
        /\ duplicated' = duplicated
             \/ duplicated' = duplicated \cup (Elements(mts[w]) \cap arrived)
    BY <2>2 DEF Receives
  <2>4. CASE ShouldRetryOnFail
    BY <2>1, <2>4 DEF Delivery, ArrivedIsSettled, AtMostOnce, RetryKeeps
  <2>5. CASE ~ShouldRetryOnFail
    <3>1. Elements(settled') = Elements(settled) \cup Elements(mts[w])
      BY <1>2, <2>1, <2>5
    <3>2. Elements(mts[w]) \cap arrived = {}
      BY <1>2, <2>1, <2>5
    <3> QED BY <2>3, <2>5, <3>1, <3>2
            DEF Delivery, ArrivedIsSettled, AtMostOnce, RetryKeeps
  <2> QED BY <2>4, <2>5
<1>5. ASSUME NEW w \in Workers,
             Tick(w) \/ ExitLoop(w) \/ Leave(w) \/ SelectDone(w) \/ SelectMetric(w)
               \/ SelectClosed(w) \/ SelectTick(w) \/ Check(w) \/ Execute(w)
               \/ SendMetricsBatch(w)
      PROVE  UNCHANGED <<settled, acked, arrived, duplicated>>
  BY <1>5 DEF historyVars, Tick, ExitLoop, Leave, SelectDone, SelectMetric, SelectClosed,
     SelectTick, Check, Execute, SendMetricsBatch, AsksForLastFlush, LeavesSelect
<1>6. ASSUME NEW s \in Senders, CallAddMetric(s) \/ AddMetric(s) \/ AddMetricPanics(s)
      PROVE  UNCHANGED <<settled, acked, arrived, duplicated>>
  BY <1>6 DEF historyVars, CallAddMetric, AddMetric, AddMetricPanics
<1>7. ASSUME Cancel \/ StartProcessing \/ FinishProcessing \/ CloseChan \/ FinishReturns
      PROVE  UNCHANGED <<settled, acked, arrived, duplicated>>
  BY <1>7 DEF historyVars, Cancel, StartProcessing, FinishProcessing, CloseChan, FinishReturns
<1>8. CASE UNCHANGED vars
  BY <1>1, <1>8 DEF vars, historyVars
<1> QED BY <1>1, <1>3, <1>4, <1>5, <1>6, <1>7, <1>8, NextCases

-----------------------------------------------------------------------------
(* The inductive invariant consists of the three parts above.              *)
LEMMA IInvIsParts == IInv <=> Threads /\ Order /\ Delivery
BY DEF IInv, Threads, Order, Delivery

(* The inductive invariant is inductive.                                   *)
LEMMA Inductive == IInv /\ [Next]_vars => IInv'
BY ThreadsStep, OrderStep, DeliveryStep DEF IInv, Threads, Order, Delivery

(* The inductive invariant holds in every reachable state. *)
THEOREM InvariantHolds == Spec => []IInv
<1>1. Init => IInv
  BY ThreadsInit, OrderInit, DeliveryInit DEF IInv, Threads, Order, Delivery
<1>2. IInv /\ [Next]_vars => IInv'
  BY Inductive
<1> QED BY <1>1, <1>2, PTL DEF Spec

(* No accepted metric is lost inside the processor, counted twice or       *)
(* overtaken.                                                              *)
THEOREM Fifo == Spec => []FirstInFirstOut
<1>1. IInv => FirstInFirstOut
  BY DEF IInv
<1> QED BY <1>1, InvariantHolds, PTL

(* Without retries the API receives a metric at most once. *)
THEOREM DeliveredAtMostOnce == Spec => []AtMostOnce
<1>1. IInv => AtMostOnce
  BY DEF IInv
<1> QED BY <1>1, InvariantHolds, PTL

(* With retries only acknowledged metrics leave the processor. *)
THEOREM KeptUntilAcknowledged == Spec => []RetryKeeps
<1>1. IInv => RetryKeeps
  BY DEF IInv
<1> QED BY <1>1, InvariantHolds, PTL

-----------------------------------------------------------------------------
(* A front of the queue and the rest of it, as the pipe cuts it.           *)
LEMMA FrontAndRest ==
  ASSUME NEW s \in Seq(Nat), NEW t \in Seq(Nat), s # <<>>
  PROVE  /\ Len(s) \in 1 .. Len(s \o t)
         /\ SubSeq(s \o t, 1, Len(s)) = s
         /\ SubSeq(s \o t, Len(s) + 1, Len(s \o t)) = t
<1> DEFINE q == s \o t
<1>1. q \in Seq(Nat)
  OBVIOUS
<1>2. /\ Len(s) \in Nat \ {0} /\ Len(t) \in Nat /\ Len(q) = Len(s) + Len(t)
      /\ \A i \in 1 .. Len(s) : q[i] = s[i]
      /\ \A j \in 1 .. Len(t) : q[Len(s) + j] = t[j]
  BY ConcatAt, EmptySeq
<1> HIDE DEF q
<1>3. SubSeq(q, 1, Len(s)) = s
  <2>1. /\ SubSeq(q, 1, Len(s)) \in Seq(Nat)
        /\ Len(SubSeq(q, 1, Len(s))) = Len(s)
        /\ \A i \in 1 .. Len(s) : SubSeq(q, 1, Len(s))[i] = q[i]
    BY <1>1, <1>2
  <2> QED BY <1>2, <2>1, SeqEqual
<1>4. SubSeq(q, Len(s) + 1, Len(q)) = t
  <2>1. /\ SubSeq(q, Len(s) + 1, Len(q)) \in Seq(Nat)
        /\ Len(SubSeq(q, Len(s) + 1, Len(q))) = Len(t)
        /\ \A j \in 1 .. Len(t) : SubSeq(q, Len(s) + 1, Len(q))[j] = q[Len(s) + j]
    <3> DEFINE m == Len(s) + 1
               n == Len(q)
    <3>1. m \in Int /\ n \in Int /\ n - m + 1 = Len(t) /\ (m <= n <=> Len(t) # 0)
      BY <1>2
    <3>2. \A i \in m .. n : q[i] \in Nat
      BY <1>1, <1>2
    <3>3. \A j \in 1 .. Len(t) : m + j - 1 = Len(s) + j
      BY <1>2
    <3> HIDE DEF m, n
    <3>4. /\ SubSeq(q, m, n) \in Seq(Nat)
          /\ Len(SubSeq(q, m, n)) = IF m <= n THEN n - m + 1 ELSE 0
          /\ \A i \in 1 .. n - m + 1 : SubSeq(q, m, n)[i] = q[m + i - 1]
      BY <3>1, <3>2, SubSeqProperties
    <3> QED BY <1>2, <3>1, <3>3, <3>4 DEF m, n
  <2> QED BY <1>2, <2>1, SeqEqual
<1> QED BY <1>2, <1>3, <1>4 DEF q

(* The initial state of the processor is that of the pipe.                 *)
LEMMA PipeInit == Init => Pipe!Init
<1> SUFFICES ASSUME Init PROVE Pipe!Init
  OBVIOUS
<1>1. Held = <<>>
  BY DEF Init, Held, Workers
<1> QED BY <1>1 DEF Init, Pipe!Init, Phase

(* A worker step that moves the batch in flight out of the queue settles   *)
(* the front of the pipe.                                                  *)
LEMMA PipeSettle ==
  ASSUME IInv, IInv', NEW w \in Workers, pc[w] \in InFlight, pc'[w] \notin InFlight,
         \A v \in Workers \ {w} : pc'[v] = pc[v],
         settled' = settled \o mts[w],
         UNCHANGED <<owner, chanClosed, added, metricsChan, batcher>>,
         acked' = acked \cup Elements(mts[w]) \/ (~ShouldRetryOnFail /\ acked' = acked)
  PROVE  Pipe!Settle
<1>t. /\ mts[w] \in Seq(Nat) /\ metricsChan \in Seq(Nat) /\ batcher = <<>> /\ mts[w] # <<>>
      /\ Threads /\ BatchInFlight /\ Threads' /\ BatchInFlight'
      /\ mts' \in [Workers -> Seq(Nat)] /\ \A v \in Workers : mts[v] \in Seq(Nat)
  BY DEF IInv, TypeOK, BatchInFlight, InFlight, Threads
<1>1. Held = mts[w] \o metricsChan /\ \A v \in Workers \ {w} : pc[v] \notin InFlight
  BY <1>t, AloneInLoop, Concat DEF InFlight, InLoop
<1>2. \A v \in Workers : mts'[v] = <<>>
  BY <1>t, <1>1 DEF BatchInFlight, InFlight
<1>3. Held' = metricsChan
  BY <1>t, <1>2, Concat DEF Held, Workers
<1> DEFINE k == Len(mts[w])
<1>4. k \in 1 .. Len(Held) /\ SubSeq(Held, 1, k) = mts[w] /\ SubSeq(Held, k + 1, Len(Held)) = metricsChan
  BY <1>t, <1>1, FrontAndRest
<1>5. Elements(mts[w]) = {mts[w][i] : i \in 1 .. k}
  BY <1>t DEF Elements
<1>6. owner # "returned"
  BY <1>t DEF Threads, Succession, InFlight, Live, InLoop
<1> HIDE DEF k
<1> QED BY <1>3, <1>4, <1>5, <1>6 DEF Pipe!Settle, Phase

(* Every step of the processor is a step of the pipe or leaves it alone.   *)
LEMMA PipeStep == IInv /\ IInv' /\ [Next]_vars => [Pipe!Next]_(Pipe!vars)
<1> SUFFICES ASSUME IInv, IInv', [Next]_vars PROVE [Pipe!Next]_(Pipe!vars)
  OBVIOUS
<1> USE DEF callerVars, workerVars, sharedVars, historyVars
<1>t. Threads /\ BatchInFlight /\ FirstInFirstOut
  BY DEF IInv, Threads
<1>1. ASSUME UNCHANGED <<Phase, added, settled, acked>>
      PROVE  UNCHANGED Pipe!vars
  <2>1. settled \in Seq(Nat) /\ Held \in Seq(Nat) /\ Held' \in Seq(Nat)
    BY DEF IInv, TypeOK, Held, Workers
  <2>2. settled \o Held = settled \o Held'
    BY <1>1 DEF IInv, FirstInFirstOut
  <2>3. Held' = Held
    BY <2>1, <2>2, ConcatSimplifications
  <2> QED BY <1>1, <2>3 DEF Pipe!vars
<1>2. CASE UNCHANGED vars
  BY <1>1, <1>2 DEF vars, Phase
<1>3. CASE Cancel
  BY <1>1, <1>3 DEF Cancel, Phase
<1>4. ASSUME NEW s \in Senders, CallAddMetric(s) \/ AddMetricPanics(s)
      PROVE  UNCHANGED Pipe!vars
  BY <1>1, <1>4 DEF CallAddMetric, AddMetricPanics, Phase
<1>5. ASSUME NEW s \in Senders, AddMetric(s)
      PROVE  Pipe!Accept
  <2>1. /\ ~chanClosed /\ added' = added + 1 /\ metricsChan' = Append(metricsChan, added + 1)
        /\ UNCHANGED <<mts, batcher, settled, acked, owner, chanClosed>>
    BY <1>5 DEF AddMetric
  <2>2. owner # "returned"
    BY <1>t, <2>1 DEF Threads, Succession
  <2> DEFINE front == mts[1] \o mts[2] \o batcher
  <2>3. Held = front \o metricsChan /\ Held' = front \o Append(metricsChan, added + 1)
    BY <2>1 DEF Held
  <2>4. front \in Seq(Nat) /\ metricsChan \in Seq(Nat) /\ added + 1 \in Nat
    BY DEF IInv, TypeOK, Workers
  <2> HIDE DEF front
  <2>5. Held' = Append(Held, added + 1)
    BY <2>3, <2>4, ConcatAppend
  <2> QED BY <2>1, <2>2, <2>5 DEF Pipe!Accept, Phase
<1>6. CASE StartProcessing \/ FinishProcessing
  <2>1. UNCHANGED <<Phase, added, settled, acked>>
    BY <1>6 DEF StartProcessing, FinishProcessing, Phase
  <2> QED BY <1>1, <2>1
<1>7. CASE CloseChan
  <2>1. UNCHANGED <<added, settled, acked, mts, batcher, metricsChan>>
    BY <1>7 DEF CloseChan
  <2>2. Phase = "open" /\ Phase' = "closed"
    BY <1>t, <1>7 DEF CloseChan, Phase, Threads, Succession
  <2> QED BY <2>1, <2>2 DEF Pipe!Next, Pipe!Close, Held
<1>8. CASE FinishReturns
  <2>1. UNCHANGED <<added, settled, acked, mts, batcher, metricsChan>>
    BY <1>8 DEF FinishReturns
  <2>2. Phase = "closed" /\ Phase' = "returned"
    BY <1>t, <1>8 DEF FinishReturns, Phase, Threads, Succession
  <2> QED BY <2>1, <2>2 DEF Pipe!Next, Pipe!Return, Held
<1>9. ASSUME NEW w \in Workers,
             Tick(w) \/ ExitLoop(w) \/ Leave(w) \/ SelectDone(w) \/ SelectMetric(w)
               \/ SelectClosed(w) \/ SelectTick(w) \/ Check(w) \/ Execute(w)
               \/ SendMetricsBatch(w)
      PROVE  UNCHANGED Pipe!vars
  <2>1. UNCHANGED <<owner, chanClosed, added, settled, acked>>
    BY <1>9 DEF Tick, ExitLoop, Leave, SelectDone, SelectMetric, SelectClosed, SelectTick,
       Check, Execute, SendMetricsBatch, AsksForLastFlush, LeavesSelect
  <2> QED BY <1>1, <2>1 DEF Phase
<1>10. ASSUME NEW w \in Workers, SendSucceeds(w)
       PROVE  Pipe!Settle
  <2>1. /\ pc[w] \in InFlight /\ pc' = [pc EXCEPT ![w] = EndOfLoop(w)]
        /\ EndOfLoop(w) \notin InFlight
        /\ settled' = settled \o mts[w] /\ acked' = acked \cup Elements(mts[w])
        /\ UNCHANGED <<owner, chanClosed, added, metricsChan, batcher>>
    BY <1>10 DEF SendSucceeds, Executed, EndOfLoop, InFlight
  <2>2. pc'[w] \notin InFlight /\ \A v \in Workers \ {w} : pc'[v] = pc[v]
    BY <2>1 DEF IInv, TypeOK
  <2> QED BY <2>1, <2>2, PipeSettle
<1>11. ASSUME NEW w \in Workers, SendFails(w)
       PROVE  Pipe!Settle \/ UNCHANGED Pipe!vars
  <2>1. CASE ShouldRetryOnFail
    <3>1. UNCHANGED <<owner, chanClosed, added, settled, acked>>
      BY <1>11, <2>1 DEF SendFails, KeepsFailedBatch
    <3> QED BY <1>1, <3>1 DEF Phase
  <2>2. CASE ~ShouldRetryOnFail
    <3>1. /\ pc[w] \in InFlight /\ settled' = settled \o mts[w]
          /\ UNCHANGED <<owner, chanClosed, added, metricsChan, batcher, acked>>
      BY <1>11, <2>2 DEF SendFails, KeepsFailedBatch, InFlight
    <3>2. PICK place \in InLoop \ InFlight : pc' = [pc EXCEPT ![w] = place]
      BY <1>11 DEF SendFails, TryAgain, Executed, EndOfLoop, InLoop, InFlight
    <3>3. pc'[w] \notin InFlight /\ \A v \in Workers \ {w} : pc'[v] = pc[v]
      BY <3>2 DEF IInv, TypeOK
    <3> QED BY <2>2, <3>1, <3>3, PipeSettle
  <2> QED BY <2>1, <2>2
<1> QED
  BY <1>2, <1>3, <1>4, <1>5, <1>6, <1>7, <1>8, <1>9, <1>10, <1>11, <1>1, NextCases
     DEF Pipe!Next

(* The processor implements the pipe of module MetricsPipe. *)
THEOREM Refinement == Spec => ImplementsPipe
<1>1. Init => Pipe!Init
  BY PipeInit
<1>2. IInv /\ IInv' /\ [Next]_vars => [Pipe!Next]_(Pipe!vars)
  BY PipeStep
<1> QED BY <1>1, <1>2, InvariantHolds, PTL DEF Spec, ImplementsPipe, Pipe!Spec

=============================================================================
