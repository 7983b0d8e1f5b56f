------------------------ MODULE InvocationPipeProofs -------------------------
(***************************************************************************)
(* In a warm process every invocation's processor, as the wrapper, the     *)
(* listener and the handler's goroutines use it, behaves as the pipe of    *)
(* module MetricsPipe, which module ProcessorProofs shows the metrics      *)
(* processor itself to implement.                                          *)
(***************************************************************************)
EXTENDS InvocationProofs, SequenceTheorems

(* The metrics after the a-th up to the b-th, in order.                    *)
Run(a, b) == [i \in 1 .. b - a |-> a + i]

Phase(n) ==
  IF ~chanClosed[n] THEN "open"
  ELSE IF n = invocation /\ at = "finishing" THEN "closed" ELSE "returned"

(* A run is a sequence of metrics. *)
LEMMA RunType ==
  \A a, b \in Nat : a <= b => Run(a, b) \in Seq(Nat) /\ Len(Run(a, b)) = b - a
BY DEF Run

(* One more metric makes the run longer by one.                            *)
LEMMA RunAppend ==
  ASSUME NEW a \in Nat, NEW b \in Nat, a <= b
  PROVE  Append(Run(a, b), b + 1) = Run(a, b + 1)
BY RunType DEF Run

(* A run is cut into a front and a rest, and a front is put behind what    *)
(* has left before.                                                        *)
LEMMA RunCut ==
  ASSUME NEW a \in Nat, NEW b \in Nat, NEW k \in Nat, a <= k, k <= b
  PROVE  /\ SubSeq(Run(a, b), 1, k - a) = Run(a, k)
         /\ SubSeq(Run(a, b), k - a + 1, b - a) = Run(k, b)
         /\ Run(0, a) \o Run(a, k) = Run(0, k)
         /\ {Run(a, k)[i] : i \in 1 .. k - a} = a + 1 .. k
<1>1. /\ SubSeq(Run(a, b), 1, k - a) = Run(a, k)
      /\ SubSeq(Run(a, b), k - a + 1, b - a) = Run(k, b)
      /\ Run(0, a) \o Run(a, k) = Run(0, k)
  BY RunType DEF Run
<1>2. ASSUME NEW m \in a + 1 .. k
      PROVE  \E i \in 1 .. k - a : Run(a, k)[i] = m
  <2>1. m - a \in 1 .. k - a /\ a + (m - a) = m
    OBVIOUS
  <2> QED BY <2>1 DEF Run
<1>3. \A i \in 1 .. k - a : Run(a, k)[i] \in a + 1 .. k
  BY DEF Run
<1> QED BY <1>1, <1>2, <1>3

(* The pipe's variables in terms of runs.                                  *)
LEMMA PipeVars ==
  ASSUME NEW n \in Invocations
  PROVE  UNCHANGED <<Phase(n), accepted[n], left[n], delivered[n]>> => UNCHANGED Pipe(n)!vars
BY DEF Pipe!vars, Phase

(* A metric that the channel accepts is accepted by the pipe.              *)
LEMMA PipeAccepts ==
  ASSUME NEW n \in Invocations, left[n] \in Nat, accepted[n] \in Nat, left[n] <= accepted[n],
         Phase(n) = "open", accepted'[n] = accepted[n] + 1,
         UNCHANGED <<Phase(n), left[n], delivered[n]>>
  PROVE  Pipe(n)!Accept
<1>1. Append(Run(left[n], accepted[n]), accepted[n] + 1) = Run(left[n], accepted[n] + 1)
  BY RunAppend
<1> QED BY <1>1 DEF Pipe!Accept, Phase, Run

(* What has left, as the pipe has it. *)
LEMMA RunFromStart == \A a \in Nat : Run(0, a) = [i \in 1 .. a |-> i]
BY DEF Run

(* The first j metrics from a to b are those up to k.                      *)
Front(a, b, k, j) ==
  /\ j \in 1 .. Len(Run(a, b))
  /\ Run(0, k) = Run(0, a) \o SubSeq(Run(a, b), 1, j)
  /\ Run(k, b) = SubSeq(Run(a, b), j + 1, Len(Run(a, b)))
  /\ {SubSeq(Run(a, b), 1, j)[i] : i \in 1 .. j} = a + 1 .. k

(* A front leaves a pipe that holds the metrics from a to b. *)
LEMMA RunSettles ==
  ASSUME NEW a \in Nat, NEW b \in Nat, NEW k \in a + 1 .. b
  PROVE  Front(a, b, k, k - a)
<1>1. k \in Nat /\ a <= k /\ k <= b /\ a <= b /\ k - a \in 1 .. b - a
  OBVIOUS
<1>2. Len(Run(a, b)) = b - a
  BY <1>1, RunType
<1>3. /\ SubSeq(Run(a, b), 1, k - a) = Run(a, k)
      /\ SubSeq(Run(a, b), k - a + 1, b - a) = Run(k, b)
      /\ Run(0, a) \o Run(a, k) = Run(0, k)
      /\ {Run(a, k)[i] : i \in 1 .. k - a} = a + 1 .. k
  BY <1>1, RunCut
<1> QED BY <1>1, <1>2, <1>3 DEF Front

(* A batch that leaves the processor is a front of the pipe.               *)
LEMMA PipeSettles ==
  ASSUME NEW n \in Invocations, left[n] \in Nat, accepted[n] \in Nat,
         NEW k \in left[n] + 1 .. accepted[n], left'[n] = k, Phase(n) # "returned",
         delivered'[n] = delivered[n] \/ delivered'[n] = delivered[n] \cup (left[n] + 1 .. k),
         UNCHANGED <<Phase(n), accepted[n]>>
  PROVE  Pipe(n)!Settle
<1> DEFINE held == Run(left[n], accepted[n])
           j == k - left[n]
<1>1. /\ j \in 1 .. Len(held)
      /\ Run(0, k) = Run(0, left[n]) \o SubSeq(held, 1, j)
      /\ Run(k, accepted[n]) = SubSeq(held, j + 1, Len(held))
      /\ {SubSeq(held, 1, j)[i] : i \in 1 .. j} = left[n] + 1 .. k
  <2>1. Front(left[n], accepted[n], k, j)
    BY RunSettles
  <2> QED BY <2>1, Zenon DEF Front
<1>2. /\ held = [i \in 1 .. accepted[n] - left[n] |-> left[n] + i]
      /\ Run(k, accepted[n]) = [i \in 1 .. accepted[n] - left[n] |-> left[n] + i]'
      /\ Run(0, left[n]) = [i \in 1 .. left[n] |-> i]
      /\ Run(0, k) = [i \in 1 .. left[n] |-> i]'
  <2>1. k \in Nat
    OBVIOUS
  <2> QED BY <2>1, RunFromStart DEF Run
<1>3. \/ delivered'[n] = delivered[n] \cup {SubSeq(held, 1, j)[i] : i \in 1 .. j}
      \/ delivered'[n] = delivered[n]
  BY <1>1
<1> DEFINE HeldNow == [i \in 1 .. accepted[n] - left[n] |-> left[n] + i]
           HeldThen == [i \in 1 .. accepted[n] - left[n] |-> left[n] + i]'
           OutNow == [i \in 1 .. left[n] |-> i]
           OutThen == [i \in 1 .. left[n] |-> i]'
<1>4. /\ j \in 1 .. Len(HeldNow)
      /\ OutThen = OutNow \o SubSeq(HeldNow, 1, j)
      /\ HeldThen = SubSeq(HeldNow, j + 1, Len(HeldNow))
      /\ \/ delivered'[n] = delivered[n] \cup {SubSeq(HeldNow, 1, j)[i] : i \in 1 .. j}
         \/ delivered'[n] = delivered[n]
  <2> HIDE DEF held, j, HeldNow, HeldThen, OutNow, OutThen
  <2>1. /\ held = HeldNow /\ Run(k, accepted[n]) = HeldThen
        /\ Run(0, left[n]) = OutNow /\ Run(0, k) = OutThen
    BY <1>2 DEF HeldNow, HeldThen, OutNow, OutThen
  <2> QED BY <1>1, <1>3, <2>1
<1> HIDE DEF j
<1> QED BY <1>4, Zenon DEF Pipe!Settle, Phase

(* A step of the process is a step of the pipe of each of its processors,  *)
(* or leaves it alone.                                                     *)
LEMMA PipeStep ==
  ASSUME IInv, Next, ~UNCHANGED vars, NEW n \in Invocations
  PROVE  [Pipe(n)!Next]_(Pipe(n)!vars)
<1> USE DEF settings, wrapperVars, pipeVars, clientVars, callVars
<1>t. /\ TypeWrapper /\ TypePipes /\ ProcessorInv /\ WorkerInv
      /\ accepted[n] \in Nat /\ left[n] \in Nat /\ left[n] <= accepted[n]
      /\ invocation \in 0 .. MaxInvocations /\ MaxInvocations \in Nat
  BY TypeParts, InvocationAssumption DEF IInv, TypePipes, TypeWrapper, ProcessorInv
<1>1. ASSUME UNCHANGED <<chanClosed, accepted, left, delivered>>,
             UNCHANGED <<invocation, at>> \/ ~chanClosed[n] \/ Phase(n) = Phase(n)'
      PROVE  UNCHANGED Pipe(n)!vars
  BY <1>1, PipeVars DEF Phase
<1>2. CASE Invoke
  <2>1. /\ UNCHANGED <<chanClosed, accepted, left, delivered>>
        /\ at = "idle" /\ at' = "starting"
    BY <1>2 DEF Invoke
  <2> QED BY <1>1, <2>1 DEF Phase
<1>3. CASE HandlerStarted \/ CallHandler \/ HandlerReturns \/ HandlerPanics \/ FlushStatsd
           \/ NothingToFinish \/ WrapperReturns \/ EndContext
  <2>1. /\ UNCHANGED <<chanClosed, accepted, left, delivered, invocation>>
        /\ at' = at \/ (at # "finishing" /\ at' # "finishing")
    BY <1>3 DEF HandlerStarted, CallHandler, HandlerReturns, HandlerPanics, FlushStatsd,
       NothingToFinish, WrapperReturns, EndContext
  <2> QED BY <1>1, <2>1 DEF Phase
<1>4. CASE CloseProcessor
  <2>p. at = "returned" /\ processor = invocation
    BY <1>t, <1>4 DEF CloseProcessor, ProcessorInv, StartedOnes
  <2>1. /\ at = "returned" /\ at' = "finishing"
        /\ chanClosed' = [chanClosed EXCEPT ![invocation] = TRUE]
        /\ UNCHANGED <<accepted, left, delivered, invocation>>
    BY <1>4, <2>p DEF CloseProcessor
  <2>2. CASE n = invocation
    <3>1. Phase(n) = "open" /\ Phase(n)' = "closed"
      BY <1>t, <2>1, <2>2 DEF Phase, ProcessorInv, TypePipes
    <3> QED BY <2>1, <3>1 DEF Pipe!Next, Pipe!Close, Phase
  <2>3. CASE n # invocation
    <3>1. chanClosed'[n] = chanClosed[n]
      BY <1>t, <2>1, <2>3 DEF TypePipes
    <3> QED BY <2>1, <2>3, <3>1, PipeVars DEF Phase
  <2> QED BY <2>2, <2>3
<1>5. CASE FinishReturns
  <2>1. /\ at = "finishing" /\ at' = "finished"
        /\ UNCHANGED <<chanClosed, accepted, left, delivered, invocation>>
    BY <1>5 DEF FinishReturns
  <2>2. CASE n = invocation /\ chanClosed[n]
    <3>1. Phase(n) = "closed" /\ Phase(n)' = "returned"
      BY <2>1, <2>2 DEF Phase
    <3> QED BY <2>1, <3>1 DEF Pipe!Next, Pipe!Return, Phase
  <2>3. CASE ~(n = invocation /\ chanClosed[n])
    BY <1>1, <2>1, <2>3 DEF Phase
  <2> QED BY <2>2, <2>3
<1>6. ASSUME NEW g \in Goroutines, Metric(g)
      PROVE  UNCHANGED Pipe(n)!vars
  BY <1>1, <1>6 DEF Metric
<1>7. ASSUME NEW g \in Goroutines, AddDistributionMetric(g)
      PROVE  Pipe(n)!Accept \/ UNCHANGED Pipe(n)!vars
  <2>1. UNCHANGED <<chanClosed, left, delivered, invocation, at>>
    BY <1>7 DEF AddDistributionMetric
  <2>2. CASE UNCHANGED accepted
    BY <1>1, <2>1, <2>2
  <2>3. CASE accepted' # accepted
    <3>1. PICK p \in ProcessorsSeen(g) :
            ~chanClosed[p] /\ accepted' = [accepted EXCEPT ![p] = @ + 1]
      BY <1>7, <2>3 DEF AddDistributionMetric, AddToStatsd, LogOrSkip, AddToProcessor
    <3>2. accepted'[n] = IF n = p THEN accepted[n] + 1 ELSE accepted[n]
      BY <1>t, <3>1 DEF TypePipes
    <3>3. CASE n = p
      BY <1>t, <2>1, <3>1, <3>2, <3>3, PipeAccepts DEF Phase
    <3>4. CASE n # p
      BY <2>1, <3>2, <3>4, PipeVars DEF Phase
    <3> QED BY <3>3, <3>4
  <2> QED BY <2>2, <2>3
<1>8. ASSUME NEW m \in Invocations, SendBatch(m)
      PROVE  Pipe(n)!Settle \/ UNCHANGED Pipe(n)!vars
  <2>1. /\ worker[m] = "live" /\ UNCHANGED <<chanClosed, accepted, invocation, at>>
    BY <1>8 DEF SendBatch
  <2>2. PICK k \in left[m] + 1 .. accepted[m] :
          /\ left' = [left EXCEPT ![m] = k]
          /\ \/ delivered' = delivered
             \/ delivered' = [delivered EXCEPT ![m] = @ \cup (left[m] + 1 .. k)]
    BY <1>8 DEF SendBatch
  <2>3. CASE n = m
    <3>1. /\ left'[n] = k
          /\ \/ delivered'[n] = delivered[n]
             \/ delivered'[n] = delivered[n] \cup (left[n] + 1 .. k)
      BY <1>t, <2>2, <2>3 DEF TypePipes
    <3>2. Phase(n) # "returned"
      BY <1>t, <2>1, <2>3 DEF Phase, WorkerInv
    <3> QED BY <1>t, <2>1, <2>2, <2>3, <3>1, <3>2, PipeSettles DEF Phase
  <2>4. CASE n # m
    <3>1. UNCHANGED <<left[n], delivered[n]>>
      BY <1>t, <2>2, <2>4 DEF TypePipes
    <3> QED BY <2>1, <3>1, PipeVars DEF Phase
  <2> QED BY <2>3, <2>4
<1>9. ASSUME NEW m \in Invocations, GiveUp(m) \/ StopWorker(m)
      PROVE  UNCHANGED Pipe(n)!vars
  BY <1>1, <1>9 DEF GiveUp, StopWorker
<1> QED
  BY <1>2, <1>3, <1>4, <1>5, <1>6, <1>7, <1>8, <1>9, <1>1 DEF Next, Wrapper, Work, Terminated,
     Pipe!Next

(* Each processor begins as an empty, open pipe, and every step of the     *)
(* process is allowed by it: nothing is added to a closed processor, and   *)
(* what leaves it leaves in order, and before it has returned.             *)
THEOREM ProcessorsArePipes == Spec => EachProcessorIsAPipe
<1>1. ASSUME Init, NEW n \in Invocations PROVE Pipe(n)!Init
  BY <1>1 DEF Init, Pipe!Init
<1>2. ASSUME IInv, [Next]_vars
      PROVE  [\A n \in Invocations : [Pipe(n)!Next]_(Pipe(n)!vars)]_vars
  BY <1>2, PipeStep
<1>3. Init => \A n \in Invocations : Pipe(n)!Init
  BY <1>1
<1>4. IInv /\ [Next]_vars => [\A n \in Invocations : [Pipe(n)!Next]_(Pipe(n)!vars)]_vars
  BY <1>2
<1> QED BY <1>3, <1>4, InvocationInvariant, PTL DEF Spec, EachProcessorIsAPipe

=============================================================================
