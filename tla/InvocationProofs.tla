-------------------------- MODULE InvocationProofs ---------------------------
(***************************************************************************)
(* Theorems about the life of a warm process, for every number of          *)
(* goroutines, invocations and calls of ddlambda.Metric: which processor   *)
(* and which context serve an invocation, and what is left of it when the  *)
(* wrapper returns.                                                        *)
(***************************************************************************)
EXTENDS Invocation, FiniteSetTheorems, TLAPS

DirectCalls == ~config.agent /\ ~config.FIPSMode

(* The last invocation that HandlerStarted has seen. *)
StartedOnes == IF at = "starting" THEN invocation - 1 ELSE invocation

(* The wrapper's global context, and the contexts of the invocations. *)
ContextInv ==
  /\ at # "idle" => invocation > 0
  /\ CurrentContext =
       IF at \in {"running", "returned", "finishing", "finished"} THEN invocation ELSE 0
  /\ \A n \in Invocations : n > invocation => context[n] = "live"
  /\ at # "idle" => context[invocation] # "cancelled"

(* One processor for each invocation, and none in FIPS mode; only without  *)
(* an agent does it get metrics, and only without one is it ever closed.   *)
ProcessorInv ==
  /\ processor = clientContext
  /\ processor = IF config.FIPSMode THEN 0 ELSE StartedOnes
  /\ \A n \in Invocations : worker[n] # "none" => n <= processor
  /\ \A n \in Invocations : left[n] <= accepted[n]
  /\ \A n \in Invocations : accepted[n] > 0 => DirectCalls
  /\ requests # {} => DirectCalls
  /\ \A n \in Invocations : chanClosed[n] =>
       /\ n <= invocation
       /\ n = invocation => at \in {"finishing", "finished", "idle"}

(* Without an agent no worker survives FinishProcessing. *)
WorkerInv ==
  /\ ~config.agent => \A n \in Invocations : worker[n] = "live" =>
       n = invocation /\ at \in {"started", "running", "returned", "finishing"}
  /\ at = "finishing" => ~config.agent /\ ~config.FIPSMode /\ worker[invocation] # "none"
  /\ \A n \in Invocations : worker[n] # "live" \/ ~chanClosed[n] \/ at = "finishing"

(* The goroutines of a handler that waits for them. *)
JoinsInv ==
  joins => \A g \in Goroutines : caller[g] # 0 => at = "running" /\ caller[g] = invocation

(* What is left of an invocation whose processor has been waited for. *)
FlushInv ==
  /\ ~config.agent => buffered = {}
  /\ joins /\ at \in {"finished", "idle"} => buffered = {}
  /\ joins /\ DirectCalls /\ invocation > 0 =>
       /\ at = "finishing" /\ worker[invocation] # "live" =>
            \/ context[invocation] = "deadline"
            \/ ~Waiting(invocation) \/ worker[invocation] = "gaveUp"
       /\ at \in {"finished", "idle"} =>
            \/ context[invocation] = "deadline"
            \/ ~Waiting(invocation) \/ worker[invocation] = "gaveUp"

IInv ==
  /\ TypeOK /\ ContextInv /\ ProcessorInv /\ WorkerInv /\ JoinsInv /\ FlushInv
  /\ RequestsUseOwnContext

(* The type invariant in three parts: the wrapper, the processors, and the *)
(* metrics on their way to them.                                           *)
TypeWrapper ==
  /\ config \in Configs /\ joins \in BOOLEAN
  /\ invocation \in 0 .. MaxInvocations
  /\ at \in {"idle", "starting", "started", "running", "returned", "finishing", "finished"}
  /\ coldStart \in BOOLEAN
  /\ isCold \in [Invocations -> BOOLEAN] /\ failed \in [Invocations -> BOOLEAN]
  /\ {CurrentContext, processor, clientContext} \subseteq 0 .. invocation
  /\ context \in [Invocations -> {"live", "deadline", "cancelled"}]

TypePipes ==
  /\ worker \in [Invocations -> {"none", "live", "gone", "gaveUp"}]
  /\ chanClosed \in [Invocations -> BOOLEAN]
  /\ accepted \in [Invocations -> Nat]
  /\ left \in [Invocations -> Nat] /\ delivered \in [Invocations -> SUBSET Nat]
  /\ requests \subseteq Invocations \X Invocations

TypeMetrics ==
  /\ buffered \subseteq Invocations
  /\ enhanced \in Seq([metric : {"invocations", "errors"}, in : Invocations,
                       cold_start : BOOLEAN])
  /\ caller \in [Goroutines -> 0 .. invocation]
  /\ calls \in 0 .. MaxCalls /\ panicked \in BOOLEAN

(* The three parts are the type invariant. *)
LEMMA TypeParts ==
  /\ TypeOK <=> TypeWrapper /\ TypePipes /\ TypeMetrics
  /\ TypeOK' <=> TypeWrapper' /\ TypePipes' /\ TypeMetrics'
BY DEF TypeOK, TypeWrapper, TypePipes, TypeMetrics

(* What submitEnhancedMetrics leaves has the type of what it finds. *)
LEMMA SubmitType ==
  ASSUME NEW m \in {"invocations", "errors"}, SubmitEnhancedMetrics(m),
         invocation \in Invocations, isCold \in [Invocations -> BOOLEAN],
         buffered \subseteq Invocations,
         enhanced \in Seq([metric : {"invocations", "errors"}, in : Invocations,
                           cold_start : BOOLEAN])
  PROVE  /\ buffered' \subseteq Invocations
         /\ enhanced' \in Seq([metric : {"invocations", "errors"}, in : Invocations,
                               cold_start : BOOLEAN])
<1> DEFINE Metrics == [metric : {"invocations", "errors"}, in : Invocations,
                       cold_start : BOOLEAN]
           new == [metric |-> m, in |-> invocation, cold_start |-> isCold[invocation]]
<1>1. new \in Metrics
  OBVIOUS
<1>2. enhanced' = Append(enhanced, new) \/ enhanced' = enhanced
  BY DEF SubmitEnhancedMetrics
<1>3. buffered' \subseteq Invocations
  BY DEF SubmitEnhancedMetrics
<1> HIDE DEF Metrics, new
<1>4. enhanced \in Seq(Metrics)
  BY DEF Metrics
<1>5. enhanced' \in Seq(Metrics)
  BY <1>1, <1>2, <1>4
<1> QED
  BY <1>3, <1>5 DEF Metrics

(* The wrapper is called for the next event. *)
LEMMA InvokeStep == IInv /\ Invoke => IInv'
<1> SUFFICES ASSUME IInv, Invoke PROVE IInv'
    OBVIOUS
<1>1. /\ UNCHANGED <<config, joins, coldStart, failed, CurrentContext, context, processor,
                     clientContext, worker, chanClosed, accepted, left, delivered, requests,
                     buffered, enhanced, caller, calls, panicked>>
      /\ at = "idle" /\ at' = "starting" /\ invocation < MaxInvocations
      /\ invocation' = invocation + 1
      /\ isCold' = [isCold EXCEPT ![invocation + 1] = coldStart]
  BY DEF Invoke, settings, wrapperVars, pipeVars, clientVars, callVars
<1>2. TypeWrapper /\ TypePipes /\ TypeMetrics /\ ContextInv /\ ProcessorInv /\ WorkerInv
      /\ JoinsInv /\ FlushInv /\ RequestsUseOwnContext
  BY TypeParts DEF IInv
<1>3. TypeWrapper'
  BY <1>1, <1>2, InvocationAssumption DEF TypeWrapper, Invocations
<1>4. TypePipes'
  BY <1>1, <1>2 DEF TypePipes
<1>5. TypeMetrics'
  BY <1>1, <1>2, InvocationAssumption DEF TypeWrapper, TypeMetrics
<1>6. ContextInv'
  BY <1>1, <1>2, InvocationAssumption DEF TypeWrapper, ContextInv, Invocations
<1>7. ProcessorInv'
  BY <1>1, <1>2, InvocationAssumption DEF TypeWrapper, ProcessorInv, StartedOnes,
     DirectCalls, Invocations
<1>8. WorkerInv'
  BY <1>1, <1>2, InvocationAssumption DEF WorkerInv
<1>9. JoinsInv'
  BY <1>1, <1>2, InvocationAssumption DEF JoinsInv
<1>10. FlushInv'
  BY <1>1, <1>2, InvocationAssumption DEF FlushInv, RequestsUseOwnContext, StartedOnes,
     DirectCalls, Waiting, Invocations
<1>11. RequestsUseOwnContext'
  BY <1>1, <1>2 DEF RequestsUseOwnContext
<1> QED
  BY <1>3, <1>4, <1>5, <1>6, <1>7, <1>8, <1>9, <1>10, <1>11, TypeParts DEF IInv

(* The context of the invocation ends. *)
LEMMA EndContextStep == IInv /\ EndContext => IInv'
<1> SUFFICES ASSUME IInv, EndContext PROVE IInv'
    OBVIOUS
<1>1. /\ UNCHANGED <<config, joins, invocation, at, coldStart, isCold, failed,
                     CurrentContext, processor, clientContext, worker, chanClosed, accepted,
                     left, delivered, requests, buffered, enhanced, caller, calls,
                     panicked>>
      /\ invocation > 0 /\ context[invocation] = "live"
      /\ context' = [context EXCEPT ![invocation] =
                       IF at = "idle" THEN "cancelled" ELSE "deadline"]
  BY DEF EndContext, settings, wrapperVars, pipeVars, clientVars, callVars
<1>2. TypeWrapper /\ TypePipes /\ TypeMetrics /\ ContextInv /\ ProcessorInv /\ WorkerInv
      /\ JoinsInv /\ FlushInv /\ RequestsUseOwnContext
  BY TypeParts DEF IInv
<1>3. TypeWrapper'
  BY <1>1, <1>2, InvocationAssumption DEF TypeWrapper
<1>4. TypePipes'
  BY <1>1, <1>2 DEF TypePipes
<1>5. TypeMetrics'
  BY <1>1, <1>2 DEF TypeMetrics
<1>6. ContextInv'
  BY <1>1, <1>2, InvocationAssumption DEF ContextInv, Invocations
<1>7. ProcessorInv'
  BY <1>1, <1>2 DEF ProcessorInv, StartedOnes, DirectCalls
<1>8. WorkerInv'
  BY <1>1, <1>2 DEF WorkerInv
<1>9. JoinsInv'
  BY <1>1, <1>2 DEF JoinsInv
<1>10. FlushInv'
  BY <1>1, <1>2, InvocationAssumption DEF FlushInv, RequestsUseOwnContext, StartedOnes,
     DirectCalls, Waiting, Invocations
<1>11. RequestsUseOwnContext'
  BY <1>1, <1>2 DEF RequestsUseOwnContext
<1> QED
  BY <1>3, <1>4, <1>5, <1>6, <1>7, <1>8, <1>9, <1>10, <1>11, TypeParts DEF IInv

(* The handler is called. *)
LEMMA CallHandlerStep == IInv /\ CallHandler => IInv'
<1> SUFFICES ASSUME IInv, CallHandler PROVE IInv'
    OBVIOUS
<1>1. /\ UNCHANGED <<config, joins, invocation, coldStart, isCold, failed, context,
                     processor, clientContext, worker, chanClosed, accepted, left,
                     delivered, requests, buffered, enhanced, caller, calls, panicked>>
      /\ at = "started" /\ at' = "running" /\ CurrentContext' = invocation
  BY DEF CallHandler, settings, wrapperVars, pipeVars, clientVars, callVars
<1>2. TypeWrapper /\ TypePipes /\ TypeMetrics /\ ContextInv /\ ProcessorInv /\ WorkerInv
      /\ JoinsInv /\ FlushInv /\ RequestsUseOwnContext
  BY TypeParts DEF IInv
<1>3. TypeWrapper'
  BY <1>1, <1>2, InvocationAssumption DEF TypeWrapper
<1>4. TypePipes'
  BY <1>1, <1>2 DEF TypePipes
<1>5. TypeMetrics'
  BY <1>1, <1>2 DEF TypeMetrics
<1>6. ContextInv'
  BY <1>1, <1>2, InvocationAssumption DEF ContextInv
<1>7. ProcessorInv'
  BY <1>1, <1>2, InvocationAssumption DEF ProcessorInv, StartedOnes, DirectCalls
<1>8. WorkerInv'
  BY <1>1, <1>2, InvocationAssumption DEF WorkerInv
<1>9. JoinsInv'
  BY <1>1, <1>2, InvocationAssumption DEF JoinsInv
<1>10. FlushInv'
  BY <1>1, <1>2, InvocationAssumption DEF FlushInv, RequestsUseOwnContext, StartedOnes,
     DirectCalls, Waiting, Invocations
<1>11. RequestsUseOwnContext'
  BY <1>1, <1>2 DEF RequestsUseOwnContext
<1> QED
  BY <1>3, <1>4, <1>5, <1>6, <1>7, <1>8, <1>9, <1>10, <1>11, TypeParts DEF IInv

(* The handler returns. *)
LEMMA HandlerReturnsStep == IInv /\ HandlerReturns => IInv'
<1> SUFFICES ASSUME IInv, HandlerReturns PROVE IInv'
    OBVIOUS
<1>1. /\ UNCHANGED <<config, joins, invocation, coldStart, isCold, CurrentContext, context,
                     processor, clientContext, worker, chanClosed, accepted, left,
                     delivered, requests, buffered, enhanced, caller, calls, panicked>>
      /\ at = "running" /\ at' = "returned"
      /\ joins => \A g \in Goroutines : caller[g] = 0
      /\ \E err \in BOOLEAN : failed' = [failed EXCEPT ![invocation] = err]
  BY DEF HandlerReturns, settings, wrapperVars, pipeVars, clientVars, callVars
<1>2. TypeWrapper /\ TypePipes /\ TypeMetrics /\ ContextInv /\ ProcessorInv /\ WorkerInv
      /\ JoinsInv /\ FlushInv /\ RequestsUseOwnContext
  BY TypeParts DEF IInv
<1>3. TypeWrapper'
  BY <1>1, <1>2, InvocationAssumption DEF TypeWrapper
<1>4. TypePipes'
  BY <1>1, <1>2 DEF TypePipes
<1>5. TypeMetrics'
  BY <1>1, <1>2 DEF TypeMetrics
<1>6. ContextInv'
  BY <1>1, <1>2, InvocationAssumption DEF ContextInv
<1>7. ProcessorInv'
  BY <1>1, <1>2, InvocationAssumption DEF ProcessorInv, StartedOnes, DirectCalls
<1>8. WorkerInv'
  BY <1>1, <1>2, InvocationAssumption DEF WorkerInv
<1>9. JoinsInv'
  BY <1>1, <1>2, InvocationAssumption DEF JoinsInv
<1>10. FlushInv'
  BY <1>1, <1>2, InvocationAssumption DEF FlushInv, RequestsUseOwnContext, StartedOnes,
     DirectCalls, Waiting, Invocations
<1>11. RequestsUseOwnContext'
  BY <1>1, <1>2 DEF RequestsUseOwnContext
<1> QED
  BY <1>3, <1>4, <1>5, <1>6, <1>7, <1>8, <1>9, <1>10, <1>11, TypeParts DEF IInv

(* The handler panics. *)
LEMMA HandlerPanicsStep == IInv /\ HandlerPanics => IInv'
<1> SUFFICES ASSUME IInv, HandlerPanics PROVE IInv'
    OBVIOUS
<1>1. /\ UNCHANGED <<config, joins, invocation, at, coldStart, isCold, failed,
                     CurrentContext, context, processor, clientContext, worker, chanClosed,
                     accepted, left, delivered, requests, buffered, enhanced, caller,
                     calls>>
      /\ at = "running" /\ panicked' = TRUE
  BY DEF HandlerPanics, settings, wrapperVars, pipeVars, clientVars, callVars
<1>2. TypeWrapper /\ TypePipes /\ TypeMetrics /\ ContextInv /\ ProcessorInv /\ WorkerInv
      /\ JoinsInv /\ FlushInv /\ RequestsUseOwnContext
  BY TypeParts DEF IInv
<1>3. TypeWrapper'
  BY <1>1, <1>2 DEF TypeWrapper
<1>4. TypePipes'
  BY <1>1, <1>2 DEF TypePipes
<1>5. TypeMetrics'
  BY <1>1, <1>2, InvocationAssumption DEF TypeMetrics
<1>6. ContextInv'
  BY <1>1, <1>2 DEF ContextInv
<1>7. ProcessorInv'
  BY <1>1, <1>2 DEF ProcessorInv, StartedOnes, DirectCalls
<1>8. WorkerInv'
  BY <1>1, <1>2 DEF WorkerInv
<1>9. JoinsInv'
  BY <1>1, <1>2 DEF JoinsInv
<1>10. FlushInv'
  BY <1>1, <1>2 DEF FlushInv, DirectCalls, Waiting
<1>11. RequestsUseOwnContext'
  BY <1>1, <1>2 DEF RequestsUseOwnContext
<1> QED
  BY <1>3, <1>4, <1>5, <1>6, <1>7, <1>8, <1>9, <1>10, <1>11, TypeParts DEF IInv

(* The DogStatsD client is flushed. *)
LEMMA FlushStatsdStep == IInv /\ FlushStatsd => IInv'
<1> SUFFICES ASSUME IInv, FlushStatsd PROVE IInv'
    OBVIOUS
<1>1. /\ UNCHANGED <<config, joins, invocation, coldStart, isCold, failed, CurrentContext,
                     context, processor, clientContext, worker, chanClosed, accepted, left,
                     delivered, requests, enhanced, caller, calls, panicked>>
      /\ at = "returned" /\ at' = "finished" /\ config.agent /\ buffered' = {}
  BY DEF FlushStatsd, settings, wrapperVars, pipeVars, clientVars, callVars
<1>2. TypeWrapper /\ TypePipes /\ TypeMetrics /\ ContextInv /\ ProcessorInv /\ WorkerInv
      /\ JoinsInv /\ FlushInv /\ RequestsUseOwnContext
  BY TypeParts DEF IInv
<1>3. TypeWrapper'
  BY <1>1, <1>2, InvocationAssumption DEF TypeWrapper
<1>4. TypePipes'
  BY <1>1, <1>2 DEF TypePipes
<1>5. TypeMetrics'
  BY <1>1, <1>2, InvocationAssumption DEF TypeMetrics
<1>6. ContextInv'
  BY <1>1, <1>2, InvocationAssumption DEF ContextInv
<1>7. ProcessorInv'
  BY <1>1, <1>2, InvocationAssumption DEF ProcessorInv, StartedOnes, DirectCalls
<1>8. WorkerInv'
  BY <1>1, <1>2, InvocationAssumption DEF WorkerInv
<1>9. JoinsInv'
  BY <1>1, <1>2, InvocationAssumption DEF JoinsInv
<1>10. FlushInv'
  BY <1>1, <1>2, InvocationAssumption DEF FlushInv, RequestsUseOwnContext, StartedOnes,
     DirectCalls, Waiting, Invocations
<1>11. RequestsUseOwnContext'
  BY <1>1, <1>2 DEF RequestsUseOwnContext
<1> QED
  BY <1>3, <1>4, <1>5, <1>6, <1>7, <1>8, <1>9, <1>10, <1>11, TypeParts DEF IInv

(* There is no processor to finish. *)
LEMMA NothingToFinishStep == IInv /\ NothingToFinish => IInv'
<1> SUFFICES ASSUME IInv, NothingToFinish PROVE IInv'
    OBVIOUS
<1>1. /\ UNCHANGED <<config, joins, invocation, coldStart, isCold, failed, CurrentContext,
                     context, processor, clientContext, worker, chanClosed, accepted, left,
                     delivered, requests, buffered, enhanced, caller, calls, panicked>>
      /\ at = "returned" /\ at' = "finished" /\ ~config.agent /\ processor = 0
  BY DEF NothingToFinish, settings, wrapperVars, pipeVars, clientVars, callVars
<1>2. TypeWrapper /\ TypePipes /\ TypeMetrics /\ ContextInv /\ ProcessorInv /\ WorkerInv
      /\ JoinsInv /\ FlushInv /\ RequestsUseOwnContext
  BY TypeParts DEF IInv
<1>3. TypeWrapper'
  BY <1>1, <1>2, InvocationAssumption DEF TypeWrapper
<1>4. TypePipes'
  BY <1>1, <1>2 DEF TypePipes
<1>5. TypeMetrics'
  BY <1>1, <1>2 DEF TypeMetrics
<1>6. ContextInv'
  BY <1>1, <1>2, InvocationAssumption DEF ContextInv
<1>7. ProcessorInv'
  BY <1>1, <1>2, InvocationAssumption DEF ProcessorInv, StartedOnes, DirectCalls
<1>8. WorkerInv'
  BY <1>1, <1>2, InvocationAssumption DEF ProcessorInv, WorkerInv, Invocations
<1>9. JoinsInv'
  BY <1>1, <1>2, InvocationAssumption DEF JoinsInv
<1>10. FlushInv'
  BY <1>1, <1>2, InvocationAssumption DEF FlushInv, ProcessorInv, RequestsUseOwnContext,
     StartedOnes, DirectCalls, Waiting, Invocations
<1>11. RequestsUseOwnContext'
  BY <1>1, <1>2 DEF RequestsUseOwnContext
<1> QED
  BY <1>3, <1>4, <1>5, <1>6, <1>7, <1>8, <1>9, <1>10, <1>11, TypeParts DEF IInv

(* FinishProcessing returns. *)
LEMMA FinishReturnsStep == IInv /\ FinishReturns => IInv'
<1> SUFFICES ASSUME IInv, FinishReturns PROVE IInv'
    OBVIOUS
<1>1. /\ UNCHANGED <<config, joins, invocation, coldStart, isCold, failed, CurrentContext,
                     context, processor, clientContext, worker, chanClosed, accepted, left,
                     delivered, requests, buffered, enhanced, caller, calls, panicked>>
      /\ at = "finishing" /\ at' = "finished" /\ worker[processor] # "live"
  BY DEF FinishReturns, WaitIsOver, settings, wrapperVars, pipeVars, clientVars, callVars
<1>2. TypeWrapper /\ TypePipes /\ TypeMetrics /\ ContextInv /\ ProcessorInv /\ WorkerInv
      /\ JoinsInv /\ FlushInv /\ RequestsUseOwnContext
  BY TypeParts DEF IInv
<1>3. TypeWrapper'
  BY <1>1, <1>2, InvocationAssumption DEF TypeWrapper
<1>4. TypePipes'
  BY <1>1, <1>2 DEF TypePipes
<1>5. TypeMetrics'
  BY <1>1, <1>2 DEF TypeMetrics
<1>6. ContextInv'
  BY <1>1, <1>2, InvocationAssumption DEF ContextInv
<1>7. ProcessorInv'
  BY <1>1, <1>2, InvocationAssumption DEF ProcessorInv, StartedOnes, DirectCalls
<1>8. WorkerInv'
  BY <1>1, <1>2, InvocationAssumption DEF ProcessorInv, WorkerInv, StartedOnes
<1>9. JoinsInv'
  BY <1>1, <1>2, InvocationAssumption DEF JoinsInv
<1>10. FlushInv'
  BY <1>1, <1>2, InvocationAssumption DEF FlushInv, ProcessorInv, WorkerInv,
     RequestsUseOwnContext, StartedOnes, DirectCalls, Waiting, Invocations
<1>11. RequestsUseOwnContext'
  BY <1>1, <1>2 DEF RequestsUseOwnContext
<1> QED
  BY <1>3, <1>4, <1>5, <1>6, <1>7, <1>8, <1>9, <1>10, <1>11, TypeParts DEF IInv

(* The wrapper returns. *)
LEMMA WrapperReturnsStep == IInv /\ WrapperReturns => IInv'
<1> SUFFICES ASSUME IInv, WrapperReturns PROVE IInv'
    OBVIOUS
<1>1. /\ UNCHANGED <<config, joins, invocation, isCold, failed, context, processor,
                     clientContext, worker, chanClosed, accepted, left, delivered, requests,
                     buffered, enhanced, caller, calls, panicked>>
      /\ at = "finished" /\ at' = "idle" /\ coldStart' = FALSE /\ CurrentContext' = 0
  BY DEF WrapperReturns, NoLongerCold, settings, wrapperVars, pipeVars, clientVars, callVars
<1>2. TypeWrapper /\ TypePipes /\ TypeMetrics /\ ContextInv /\ ProcessorInv /\ WorkerInv
      /\ JoinsInv /\ FlushInv /\ RequestsUseOwnContext
  BY TypeParts DEF IInv
<1>3. TypeWrapper'
  <2>1. coldStart' \in BOOLEAN
    BY <1>1
  <2>2. {CurrentContext', processor', clientContext'} \subseteq 0 .. invocation'
    BY <1>1, <1>2 DEF TypeWrapper
  <2> QED
    BY <1>1, <1>2, <2>1, <2>2 DEF TypeWrapper
<1>4. TypePipes'
  BY <1>1, <1>2 DEF TypePipes
<1>5. TypeMetrics'
  BY <1>1, <1>2 DEF TypeMetrics
<1>6. ContextInv'
  BY <1>1, <1>2, InvocationAssumption DEF ContextInv
<1>7. ProcessorInv'
  BY <1>1, <1>2, InvocationAssumption DEF ProcessorInv, StartedOnes, DirectCalls
<1>8. WorkerInv'
  BY <1>1, <1>2, InvocationAssumption DEF WorkerInv
<1>9. JoinsInv'
  BY <1>1, <1>2, InvocationAssumption DEF JoinsInv
<1>10. FlushInv'
  BY <1>1, <1>2, InvocationAssumption DEF FlushInv, RequestsUseOwnContext, StartedOnes,
     DirectCalls, Waiting, Invocations
<1>11. RequestsUseOwnContext'
  BY <1>1, <1>2 DEF RequestsUseOwnContext
<1> QED
  BY <1>3, <1>4, <1>5, <1>6, <1>7, <1>8, <1>9, <1>10, <1>11, TypeParts DEF IInv

(* The processor of the invocation is made. *)
LEMMA HandlerStartedStep == IInv /\ HandlerStarted => IInv'
<1> SUFFICES ASSUME IInv, HandlerStarted PROVE IInv'
    OBVIOUS
<1>1. /\ UNCHANGED <<config, joins, invocation, coldStart, isCold, failed, CurrentContext,
                     context, chanClosed, accepted, left, delivered, requests, caller,
                     calls, panicked>>
      /\ at = "starting" /\ at' = "started"
      /\ IF ~config.FIPSMode
           THEN processor' = invocation /\ clientContext' = invocation
                /\ worker' = [worker EXCEPT ![invocation] = "live"]
           ELSE UNCHANGED <<processor, clientContext, worker>>
      /\ SubmitEnhancedMetrics("invocations")
  BY DEF HandlerStarted, MakesProcessor, NewClientContext, settings, wrapperVars, pipeVars,
     clientVars, callVars
<1>2. TypeWrapper /\ TypePipes /\ TypeMetrics /\ ContextInv /\ ProcessorInv /\ WorkerInv
      /\ JoinsInv /\ FlushInv /\ RequestsUseOwnContext
  BY TypeParts DEF IInv
<1>3. TypeWrapper'
  BY <1>1, <1>2, InvocationAssumption DEF TypeWrapper
<1>4. TypePipes'
  BY <1>1, <1>2, InvocationAssumption DEF TypePipes
<1>5. TypeMetrics'
  <2>1. invocation \in Invocations
    BY <1>1, <1>2 DEF ContextInv, TypeWrapper, Invocations
  <2>2. isCold \in [Invocations -> BOOLEAN]
    BY <1>2 DEF TypeWrapper
  <2> QED
    BY <1>1, <1>2, <2>1, <2>2, SubmitType DEF TypeMetrics
<1>6. ContextInv'
  BY <1>1, <1>2, InvocationAssumption DEF ContextInv
<1>7. ProcessorInv'
  BY <1>1, <1>2, InvocationAssumption DEF TypeWrapper, TypePipes, ProcessorInv, StartedOnes,
     DirectCalls, Invocations
<1>8. WorkerInv'
  BY <1>1, <1>2, InvocationAssumption DEF TypePipes, ProcessorInv, WorkerInv
<1>9. JoinsInv'
  BY <1>1, <1>2, InvocationAssumption DEF JoinsInv
<1>10. FlushInv'
  <2>1. config.agent \/ buffered' = buffered
    BY <1>1 DEF SubmitEnhancedMetrics
  <2> QED
    BY <1>1, <1>2, <2>1, InvocationAssumption DEF FlushInv
<1>11. RequestsUseOwnContext'
  BY <1>1, <1>2 DEF RequestsUseOwnContext
<1> QED
  BY <1>3, <1>4, <1>5, <1>6, <1>7, <1>8, <1>9, <1>10, <1>11, TypeParts DEF IInv

(* FinishProcessing closes the processor's channel. *)
LEMMA CloseProcessorStep == IInv /\ CloseProcessor => IInv'
<1> SUFFICES ASSUME IInv, CloseProcessor PROVE IInv'
    OBVIOUS
<1>1. /\ UNCHANGED <<config, joins, invocation, coldStart, isCold, failed, CurrentContext,
                     context, processor, clientContext, accepted, left, delivered, requests,
                     caller, calls, panicked>>
      /\ at = "returned" /\ at' = "finishing" /\ ~config.agent /\ processor # 0
      /\ SubmitEnhancedMetrics("errors") \/ UNCHANGED <<enhanced, buffered>>
      /\ worker' = [worker EXCEPT ![processor] = "live"]
      /\ chanClosed' = [chanClosed EXCEPT ![processor] = TRUE]
  BY DEF CloseProcessor, settings, wrapperVars, pipeVars, clientVars, callVars
<1>2. TypeWrapper /\ TypePipes /\ TypeMetrics /\ ContextInv /\ ProcessorInv /\ WorkerInv
      /\ JoinsInv /\ FlushInv /\ RequestsUseOwnContext
  BY TypeParts DEF IInv
<1>3. TypeWrapper'
  BY <1>1, <1>2, InvocationAssumption DEF TypeWrapper
<1>4. TypePipes'
  BY <1>1, <1>2, InvocationAssumption DEF TypePipes
<1>5. TypeMetrics'
  <2>1. CASE SubmitEnhancedMetrics("errors")
    <3>1. invocation \in Invocations
      BY <1>1, <1>2 DEF ContextInv, TypeWrapper, Invocations
    <3>2. isCold \in [Invocations -> BOOLEAN]
      BY <1>2 DEF TypeWrapper
    <3> QED
      BY <1>1, <1>2, <2>1, <3>1, <3>2, SubmitType DEF TypeMetrics
  <2>2. CASE UNCHANGED <<enhanced, buffered>>
    BY <1>1, <1>2, <2>2 DEF TypeMetrics
  <2> QED
    BY <1>1, <2>1, <2>2
<1>6. ContextInv'
  BY <1>1, <1>2, InvocationAssumption DEF ContextInv
<1>7. ProcessorInv'
  BY <1>1, <1>2, InvocationAssumption DEF ProcessorInv, StartedOnes, DirectCalls
<1>8. WorkerInv'
  BY <1>1, <1>2, InvocationAssumption DEF TypeWrapper, TypePipes, ProcessorInv, WorkerInv,
     StartedOnes, Invocations
<1>9. JoinsInv'
  BY <1>1, <1>2, InvocationAssumption DEF JoinsInv
<1>10. FlushInv'
  <2>1. buffered' = buffered
    BY <1>1 DEF SubmitEnhancedMetrics
  <2> QED
    BY <1>1, <1>2, <2>1, InvocationAssumption DEF TypeWrapper, TypePipes, ProcessorInv,
       FlushInv, StartedOnes, Invocations
<1>11. RequestsUseOwnContext'
  BY <1>1, <1>2 DEF RequestsUseOwnContext
<1> QED
  BY <1>3, <1>4, <1>5, <1>6, <1>7, <1>8, <1>9, <1>10, <1>11, TypeParts DEF IInv

(* A goroutine calls ddlambda.Metric. *)
LEMMA MetricStep == ASSUME IInv, NEW g \in Goroutines, Metric(g) PROVE IInv'
<1>1. /\ UNCHANGED <<config, joins, invocation, at, coldStart, isCold, failed,
                     CurrentContext, context, processor, clientContext, worker, chanClosed,
                     accepted, left, delivered, requests, buffered, enhanced, panicked>>
      /\ caller[g] = 0 /\ CurrentContext # 0 /\ calls < MaxCalls
      /\ joins => at = "running"
      /\ caller' = [caller EXCEPT ![g] = CurrentContext]
      /\ calls' = calls + 1
  BY DEF Metric, settings, wrapperVars, pipeVars, clientVars, callVars
<1>2. TypeWrapper /\ TypePipes /\ TypeMetrics /\ ContextInv /\ ProcessorInv /\ WorkerInv
      /\ JoinsInv /\ FlushInv /\ RequestsUseOwnContext
  BY TypeParts DEF IInv
<1>3. TypeWrapper'
  BY <1>1, <1>2 DEF TypeWrapper
<1>4. TypePipes'
  BY <1>1, <1>2 DEF TypePipes
<1>5. TypeMetrics'
  BY <1>1, <1>2, InvocationAssumption DEF TypeWrapper, TypeMetrics
<1>6. ContextInv'
  BY <1>1, <1>2 DEF ContextInv
<1>7. ProcessorInv'
  BY <1>1, <1>2 DEF ProcessorInv, StartedOnes, DirectCalls
<1>8. WorkerInv'
  BY <1>1, <1>2 DEF WorkerInv
<1>9. JoinsInv'
  BY <1>1, <1>2, InvocationAssumption DEF ContextInv, JoinsInv
<1>10. FlushInv'
  BY <1>1, <1>2 DEF FlushInv, DirectCalls, Waiting
<1>11. RequestsUseOwnContext'
  BY <1>1, <1>2 DEF RequestsUseOwnContext
<1> QED
  BY <1>3, <1>4, <1>5, <1>6, <1>7, <1>8, <1>9, <1>10, <1>11, TypeParts DEF IInv

(* The metric goes to the agent, the log or a processor. *)
LEMMA AddDistributionMetricStep ==
  ASSUME IInv, NEW g \in Goroutines, AddDistributionMetric(g)
  PROVE  IInv'
<1>1. /\ UNCHANGED <<config, joins, invocation, at, coldStart, isCold, failed,
                     CurrentContext, context, processor, clientContext, worker, chanClosed,
                     left, delivered, requests, enhanced, calls>>
      /\ caller[g] # 0
      /\ IF config.agent
           THEN buffered' = buffered \cup {caller[g]} /\ UNCHANGED <<accepted, panicked>>
           ELSE buffered' = buffered
      /\ \/ UNCHANGED accepted
         \/ /\ DirectCalls
            /\ \E p \in ProcessorsSeen(g) :
                 ~chanClosed[p] /\ accepted' = [accepted EXCEPT ![p] = @ + 1]
      /\ panicked' = panicked \/ panicked' = TRUE
      /\ caller' = [caller EXCEPT ![g] = 0]
  BY DEF AddDistributionMetric, AddToStatsd, LogOrSkip, AddToProcessor, ContextOf,
     SkipsProcessor, DirectCalls, settings, wrapperVars, pipeVars, clientVars, callVars
<1>2. TypeWrapper /\ TypePipes /\ TypeMetrics /\ ContextInv /\ ProcessorInv /\ WorkerInv
      /\ JoinsInv /\ FlushInv /\ RequestsUseOwnContext
  BY TypeParts DEF IInv
<1>3. TypeWrapper'
  BY <1>1, <1>2 DEF TypeWrapper
<1>4. TypePipes'
  <2>1. accepted' \in [Invocations -> Nat]
    BY <1>1, <1>2 DEF TypePipes
  <2> QED
    BY <1>1, <1>2, <2>1 DEF TypePipes
<1>5. TypeMetrics'
  <2>1. buffered' \subseteq Invocations
    <3>1. caller[g] \in 0 .. invocation /\ caller[g] # 0 /\ invocation \in 0 .. MaxInvocations
      BY <1>1, <1>2 DEF TypeMetrics, TypeWrapper
    <3>2. caller[g] \in Invocations
      BY <3>1, InvocationAssumption DEF Invocations
    <3>3. buffered' = buffered \/ buffered' = buffered \cup {caller[g]}
      BY <1>1
    <3> QED
      BY <1>2, <3>2, <3>3 DEF TypeMetrics
  <2>2. caller' \in [Goroutines -> 0 .. invocation']
    BY <1>1, <1>2 DEF TypeMetrics, TypeWrapper
  <2>3. panicked' \in BOOLEAN
    BY <1>1, <1>2 DEF TypeMetrics
  <2> QED
    BY <1>1, <1>2, <2>1, <2>2, <2>3 DEF TypeMetrics
<1>6. ContextInv'
  BY <1>1, <1>2 DEF ContextInv
<1>7. ProcessorInv'
  <2>1. \A n \in Invocations : left[n] <= accepted'[n]
    BY <1>1, <1>2 DEF ProcessorInv, TypePipes
  <2>2. \A n \in Invocations : accepted'[n] > 0 => DirectCalls
    BY <1>1, <1>2 DEF ProcessorInv, TypePipes
  <2> QED
    BY <1>1, <1>2, <2>1, <2>2 DEF ProcessorInv, StartedOnes, DirectCalls
<1>8. WorkerInv'
  BY <1>1, <1>2 DEF WorkerInv
<1>9. JoinsInv'
  BY <1>1, <1>2, InvocationAssumption DEF JoinsInv
<1>10. FlushInv'
  <2>1. joins => at = "running"
    BY <1>1, <1>2 DEF JoinsInv
  <2>2. ~config.agent => buffered' = {}
    BY <1>1, <1>2 DEF FlushInv
  <2> QED
    BY <1>1, <1>2, <2>1, <2>2 DEF FlushInv
<1>11. RequestsUseOwnContext'
  BY <1>1, <1>2 DEF RequestsUseOwnContext
<1> QED
  BY <1>3, <1>4, <1>5, <1>6, <1>7, <1>8, <1>9, <1>10, <1>11, TypeParts DEF IInv

(* A worker sends a batch. *)
LEMMA SendBatchStep == ASSUME IInv, NEW n \in Invocations, SendBatch(n) PROVE IInv'
<1>1. /\ UNCHANGED <<config, joins, invocation, at, coldStart, isCold, failed,
                     CurrentContext, context, processor, clientContext, worker, chanClosed,
                     accepted, buffered, enhanced, caller, calls, panicked>>
      /\ worker[n] = "live" /\ left[n] < accepted[n]
      /\ \E k \in left[n] + 1 .. accepted[n], ok \in BOOLEAN :
           /\ left' = [left EXCEPT ![n] = k]
           /\ delivered' = IF ok THEN [delivered EXCEPT ![n] = @ \cup (left[n] + 1 .. k)]
                           ELSE delivered
      /\ requests' = requests \cup {<<n, clientContext>>}
  BY DEF SendBatch, Waiting, settings, wrapperVars, pipeVars, clientVars, callVars
<1>2. TypeWrapper /\ TypePipes /\ TypeMetrics /\ ContextInv /\ ProcessorInv /\ WorkerInv
      /\ JoinsInv /\ FlushInv /\ RequestsUseOwnContext
  BY TypeParts DEF IInv
<1>3. TypeWrapper'
  BY <1>1, <1>2 DEF TypeWrapper
<1>4. TypePipes'
  BY <1>1, <1>2, InvocationAssumption DEF TypeWrapper, TypePipes, ContextInv, ProcessorInv,
     WorkerInv, DirectCalls
<1>5. TypeMetrics'
  BY <1>1, <1>2 DEF TypeMetrics
<1>6. ContextInv'
  BY <1>1, <1>2 DEF ContextInv
<1>7. ProcessorInv'
  <2>1. \A m \in Invocations : left'[m] <= accepted[m]
    BY <1>1, <1>2 DEF ProcessorInv, TypePipes
  <2>2. accepted[n] > 0
    BY <1>1, <1>2 DEF TypePipes
  <2>3. DirectCalls
    BY <1>2, <2>2 DEF ProcessorInv
  <2> QED
    BY <1>1, <1>2, <2>1, <2>3 DEF ProcessorInv, StartedOnes, DirectCalls
<1>8. WorkerInv'
  BY <1>1, <1>2 DEF WorkerInv
<1>9. JoinsInv'
  BY <1>1, <1>2 DEF JoinsInv
<1>10. FlushInv'
  BY <1>1, <1>2, InvocationAssumption DEF FlushInv, RequestsUseOwnContext, StartedOnes,
     DirectCalls, Waiting, Invocations
<1>11. RequestsUseOwnContext'
  BY <1>1, <1>2, InvocationAssumption DEF TypePipes, ProcessorInv, WorkerInv,
     RequestsUseOwnContext, StartedOnes, DirectCalls
<1> QED
  BY <1>3, <1>4, <1>5, <1>6, <1>7, <1>8, <1>9, <1>10, <1>11, TypeParts DEF IInv

(* A worker gives up its last flush. *)
LEMMA GiveUpStep == ASSUME IInv, NEW n \in Invocations, GiveUp(n) PROVE IInv'
<1>1. /\ UNCHANGED <<config, joins, invocation, at, coldStart, isCold, failed,
                     CurrentContext, context, processor, clientContext, chanClosed,
                     accepted, left, delivered, requests, buffered, enhanced, caller, calls,
                     panicked>>
      /\ worker[n] = "live" /\ chanClosed[n]
      /\ worker' = [worker EXCEPT ![n] = "gaveUp"]
  BY DEF GiveUp, settings, wrapperVars, pipeVars, clientVars, callVars
<1>2. TypeWrapper /\ TypePipes /\ TypeMetrics /\ ContextInv /\ ProcessorInv /\ WorkerInv
      /\ JoinsInv /\ FlushInv /\ RequestsUseOwnContext
  BY TypeParts DEF IInv
<1>3. TypeWrapper'
  BY <1>1, <1>2 DEF TypeWrapper
<1>4. TypePipes'
  BY <1>1, <1>2, InvocationAssumption DEF TypePipes
<1>5. TypeMetrics'
  BY <1>1, <1>2 DEF TypeMetrics
<1>6. ContextInv'
  BY <1>1, <1>2 DEF ContextInv
<1>7. ProcessorInv'
  BY <1>1, <1>2, InvocationAssumption DEF ProcessorInv, StartedOnes, DirectCalls
<1>8. WorkerInv'
  BY <1>1, <1>2, InvocationAssumption DEF WorkerInv
<1>9. JoinsInv'
  BY <1>1, <1>2 DEF JoinsInv
<1>10. FlushInv'
  BY <1>1, <1>2, InvocationAssumption DEF FlushInv, RequestsUseOwnContext, StartedOnes,
     DirectCalls, Waiting, Invocations
<1>11. RequestsUseOwnContext'
  BY <1>1, <1>2 DEF RequestsUseOwnContext
<1> QED
  BY <1>3, <1>4, <1>5, <1>6, <1>7, <1>8, <1>9, <1>10, <1>11, TypeParts DEF IInv

(* A worker stops. *)
LEMMA StopWorkerStep == ASSUME IInv, NEW n \in Invocations, StopWorker(n) PROVE IInv'
<1>1. /\ UNCHANGED <<config, joins, invocation, at, coldStart, isCold, failed,
                     CurrentContext, context, processor, clientContext, chanClosed,
                     accepted, left, delivered, requests, buffered, enhanced, caller, calls,
                     panicked>>
      /\ worker[n] = "live"
      /\ context[n] # "live" \/ (chanClosed[n] /\ ~Waiting(n))
      /\ worker' = [worker EXCEPT ![n] = "gone"]
  BY DEF StopWorker, SeesDone, settings, wrapperVars, pipeVars, clientVars, callVars
<1>2. TypeWrapper /\ TypePipes /\ TypeMetrics /\ ContextInv /\ ProcessorInv /\ WorkerInv
      /\ JoinsInv /\ FlushInv /\ RequestsUseOwnContext
  BY TypeParts DEF IInv
<1>3. TypeWrapper'
  BY <1>1, <1>2 DEF TypeWrapper
<1>4. TypePipes'
  BY <1>1, <1>2, InvocationAssumption DEF TypePipes
<1>5. TypeMetrics'
  BY <1>1, <1>2 DEF TypeMetrics
<1>6. ContextInv'
  BY <1>1, <1>2 DEF ContextInv
<1>7. ProcessorInv'
  BY <1>1, <1>2, InvocationAssumption DEF ProcessorInv, StartedOnes, DirectCalls
<1>8. WorkerInv'
  BY <1>1, <1>2, InvocationAssumption DEF WorkerInv
<1>9. JoinsInv'
  BY <1>1, <1>2 DEF JoinsInv
<1>10. FlushInv'
  BY <1>1, <1>2, InvocationAssumption DEF FlushInv, TypeWrapper, ContextInv,
     RequestsUseOwnContext, StartedOnes, DirectCalls, Waiting, Invocations
<1>11. RequestsUseOwnContext'
  BY <1>1, <1>2 DEF RequestsUseOwnContext
<1> QED
  BY <1>3, <1>4, <1>5, <1>6, <1>7, <1>8, <1>9, <1>10, <1>11, TypeParts DEF IInv

(* A new process has neither invocations nor goroutines. *)
LEMMA InvocationInit == Init => IInv
<1> SUFFICES ASSUME Init PROVE IInv
    OBVIOUS
<1>1. /\ invocation = 0 /\ at = "idle" /\ CurrentContext = 0 /\ processor = 0 /\ clientContext = 0
      /\ config \in Configs /\ joins \in BOOLEAN /\ coldStart \in BOOLEAN
      /\ panicked \in BOOLEAN /\ calls = 0
  BY DEF Init
<1>2. /\ isCold = [n \in Invocations |-> FALSE] /\ failed = [n \in Invocations |-> FALSE]
      /\ context = [n \in Invocations |-> "live"] /\ worker = [n \in Invocations |-> "none"]
      /\ chanClosed = [n \in Invocations |-> FALSE]
      /\ accepted = [n \in Invocations |-> 0] /\ left = [n \in Invocations |-> 0]
      /\ delivered = [n \in Invocations |-> {}]
      /\ caller = [g \in Goroutines |-> 0]
  BY DEF Init
<1>3. requests = {} /\ buffered = {} /\ enhanced = <<>>
  BY DEF Init
<1>4. TypeWrapper
  BY <1>1, <1>2, InvocationAssumption DEF TypeWrapper
<1>5. TypePipes
  BY <1>2, <1>3 DEF TypePipes
<1>6. TypeMetrics
  <2>1. \A S : enhanced \in Seq(S)
    BY <1>3
  <2>2. calls \in 0 .. MaxCalls
    BY <1>1, InvocationAssumption
  <2> QED
    BY <1>1, <1>2, <1>3, <2>1, <2>2 DEF TypeMetrics
<1>7. ContextInv /\ WorkerInv /\ JoinsInv
  BY <1>1, <1>2 DEF ContextInv, WorkerInv, JoinsInv, Invocations
<1>8. ProcessorInv
  BY <1>1, <1>2, <1>3 DEF ProcessorInv, StartedOnes
<1>9. FlushInv /\ RequestsUseOwnContext
  BY <1>1, <1>3 DEF FlushInv, RequestsUseOwnContext
<1> QED
  BY <1>4, <1>5, <1>6, <1>7, <1>8, <1>9, TypeParts DEF IInv

(* A step that changes nothing keeps the invariant. *)
LEMMA InvocationStutter == IInv /\ UNCHANGED vars => IInv'
<1> SUFFICES ASSUME IInv, UNCHANGED vars PROVE IInv'
    OBVIOUS
<1>1. UNCHANGED <<config, joins, invocation, at, coldStart, isCold, failed, CurrentContext,
                  context, processor, clientContext, worker, chanClosed, accepted, left,
                  delivered, requests, buffered, enhanced, caller, calls, panicked>>
  BY DEF vars, settings, wrapperVars, pipeVars, clientVars, callVars
<1>2. TypeOK'
  BY <1>1 DEF IInv, TypeOK
<1>3. ContextInv' /\ JoinsInv' /\ RequestsUseOwnContext'
  BY <1>1 DEF IInv, ContextInv, JoinsInv, RequestsUseOwnContext
<1>4. ProcessorInv' /\ WorkerInv'
  BY <1>1 DEF IInv, ProcessorInv, WorkerInv, StartedOnes, DirectCalls
<1>5. FlushInv'
  BY <1>1 DEF IInv, FlushInv, DirectCalls, Waiting
<1> QED
  BY <1>2, <1>3, <1>4, <1>5 DEF IInv

(* The invariant is inductive. *)
LEMMA InvocationInvariant == Spec => []IInv
<1>1. IInv /\ [Next]_vars => IInv'
  <2> SUFFICES ASSUME IInv, [Next]_vars PROVE IInv'
      OBVIOUS
  <2>1. CASE Wrapper
    BY <2>1, InvokeStep, HandlerStartedStep, CallHandlerStep, HandlerReturnsStep,
       HandlerPanicsStep, FlushStatsdStep, CloseProcessorStep, NothingToFinishStep,
       FinishReturnsStep, WrapperReturnsStep DEF Wrapper
  <2>2. CASE EndContext
    BY <2>2, EndContextStep
  <2>3. CASE \E g \in Goroutines : Metric(g) \/ AddDistributionMetric(g)
    BY <2>3, MetricStep, AddDistributionMetricStep
  <2>4. CASE \E n \in Invocations : Work(n)
    BY <2>4, SendBatchStep, GiveUpStep, StopWorkerStep DEF Work
  <2>5. CASE Terminated \/ UNCHANGED vars
    BY <2>5, InvocationStutter DEF Terminated
  <2> QED
    BY <2>1, <2>2, <2>3, <2>4, <2>5 DEF Next
<1> QED
  BY InvocationInit, <1>1, PTL DEF Spec

-----------------------------------------------------------------------------
(* The variables of the process keep their types. *)
THEOREM InvocationTypeOK == Spec => []TypeOK
<1>1. IInv => TypeOK
  BY DEF IInv
<1> QED
  BY InvocationInvariant, <1>1, PTL

(* The one API client makes no request of an invocation's metrics with the *)
(* context of another (listener.go, HandlerStarted).                       *)
THEOREM RequestsKeepContext == Spec => []RequestsUseOwnContext
<1>1. IInv => RequestsUseOwnContext
  BY DEF IInv
<1> QED
  BY InvocationInvariant, <1>1, PTL

(* FIPS mode keeps the process from calling the API, for every             *)
(* interleaving of its goroutines.                                         *)
THEOREM FIPSKeepsAway == Spec => []FIPSNeverCallsAPI
<1>1. IInv => FIPSNeverCallsAPI
  <2> SUFFICES ASSUME IInv, config.FIPSMode
               PROVE  /\ processor = 0 /\ requests = {}
                      /\ \A n \in Invocations : worker[n] = "none" /\ accepted[n] = 0
      BY DEF FIPSNeverCallsAPI
  <2>1. ProcessorInv /\ TypeOK
    BY DEF IInv
  <2> QED
    BY <2>1 DEF ProcessorInv, TypeOK, DirectCalls, Invocations
<1> QED
  BY InvocationInvariant, <1>1, PTL

(* Lambda may freeze the process between invocations: no request is then   *)
(* under way.                                                              *)
THEOREM QuiescentBetweenInvocations == Spec => []QuiescentWhenIdle
<1>1. IInv => QuiescentWhenIdle
  <2> SUFFICES ASSUME IInv PROVE QuiescentWhenIdle
      OBVIOUS
  <2>1. ProcessorInv /\ WorkerInv
    BY DEF IInv
  <2> QED
    BY <2>1 DEF ProcessorInv, WorkerInv, DirectCalls, QuiescentWhenIdle
<1> QED
  BY InvocationInvariant, <1>1, PTL

(* FinishProcessing has emptied the processor, or given up on its last     *)
(* flush, when the wrapper returns before the deadline.                    *)
THEOREM NothingLeftOnReturn == Spec => []FlushedOnReturn
<1>1. IInv => FlushedOnReturn
  <2> SUFFICES ASSUME IInv, joins, at = "idle", invocation > 0,
                      context[invocation] # "deadline"
               PROVE  /\ buffered = {}
                      /\ ~Waiting(invocation) \/ worker[invocation] = "gaveUp"
      BY DEF FlushedOnReturn
  <2>1. buffered = {}
    BY DEF IInv, FlushInv
  <2>2. CASE DirectCalls
    BY <2>1, <2>2 DEF IInv, FlushInv
  <2>3. CASE ~DirectCalls
    <3>1. invocation \in Invocations
      BY DEF IInv, TypeOK, Invocations
    <3>2. accepted[invocation] \in Nat /\ left[invocation] \in Nat
      BY <3>1 DEF IInv, TypeOK
    <3>3. accepted[invocation] = 0
      BY <2>3, <3>1, <3>2 DEF IInv, ProcessorInv
    <3> QED
      BY <2>1, <3>2, <3>3 DEF Waiting
  <2> QED
    BY <2>2, <2>3
<1> QED
  BY InvocationInvariant, <1>1, PTL

(* A send on the closed channel of a processor never happens to a handler  *)
(* that waits for its goroutines: the only panic is the handler's own.     *)
THEOREM JoinedHandlersNeverPanic == Spec => JoinedNeverPanics
<1>1. ASSUME IInv, Next, joins, panicked' # panicked
      PROVE  at = "running" /\ UNCHANGED caller
  <2>1. CASE HandlerPanics
    BY <2>1 DEF HandlerPanics
  <2>2. ASSUME NEW g \in Goroutines, AddDistributionMetric(g) PROVE FALSE
    <3>1. AddToProcessor(g) /\ caller[g] # 0
      BY <1>1, <2>2 DEF AddDistributionMetric, AddToStatsd, LogOrSkip
    <3>2. at = "running" /\ caller[g] = invocation
      BY <1>1, <3>1 DEF IInv, JoinsInv
    <3>3. processor = invocation
      BY <1>1, <3>1, <3>2 DEF IInv, ProcessorInv, StartedOnes, AddToProcessor,
         SkipsProcessor
    <3>4. invocation \in Invocations
      BY <1>1, <3>2 DEF IInv, TypeOK, ContextInv, Invocations
    <3>5. ~chanClosed[invocation]
      BY <1>1, <3>2, <3>4 DEF IInv, ProcessorInv
    <3>6. \A p \in ProcessorsSeen(g) : p = invocation
      BY <3>2, <3>3, <3>4 DEF ProcessorsSeen, Invocations
    <3> QED
      BY <1>1, <3>1, <3>5, <3>6 DEF AddToProcessor
  <2>3. panicked' = panicked \/ HandlerPanics \/ \E g \in Goroutines : AddDistributionMetric(g)
    BY <1>1 DEF Next, Wrapper, Invoke, HandlerStarted, CallHandler, HandlerReturns,
       FlushStatsd,
                CloseProcessor, NothingToFinish, FinishReturns, WrapperReturns, EndContext,
                Metric, Work, SendBatch, GiveUp, StopWorker, Terminated, vars, callVars
  <2> QED
    BY <1>1, <2>1, <2>2, <2>3
<1>2. IInv /\ [Next]_vars =>
        [joins /\ panicked' # panicked => at = "running" /\ UNCHANGED caller]_vars
  BY <1>1
<1> QED
  BY InvocationInvariant, <1>2, PTL DEF Spec, JoinedNeverPanics

-----------------------------------------------------------------------------
(* What the history of enhanced metrics says of the invocations: who has   *)
(* been counted, by at most one entry of each kind, and that coldStart and *)
(* the contexts know the first invocation from the others.                 *)
Uncounted == {"starting"}
NotFinished == {"starting", "started", "running", "returned"}

ColdInv ==
  /\ coldStart = (invocation = 0 \/ (invocation = 1 /\ at # "idle"))
  /\ \A n \in 1 .. invocation : isCold[n] = (n = 1)

EntryInv ==
  \A i \in DOMAIN enhanced :
    LET e == enhanced[i]
    IN  /\ e.in \in 1 .. invocation
        /\ e.cold_start = (e.in = 1)
        /\ e.metric = "invocations" =>
             config.enhancedMetrics /\ ~(e.in = invocation /\ at \in Uncounted)
        /\ e.metric = "errors" => failed[e.in] /\ ~(e.in = invocation /\ at \in NotFinished)

EveryoneCounted ==
  config.enhancedMetrics => \A n \in 1 .. invocation :
    ~(n = invocation /\ at \in Uncounted) =>
      \E i \in DOMAIN enhanced : enhanced[i].metric = "invocations" /\ enhanced[i].in = n

CountedOnce ==
  \A i, j \in DOMAIN enhanced :
    enhanced[i].metric = enhanced[j].metric /\ enhanced[i].in = enhanced[j].in => i = j

EnhancedInv == ColdInv /\ EntryInv /\ EveryoneCounted /\ CountedOnce

(* A step that leaves the wrapper and the history alone. *)
LEMMA EnhancedUntouched ==
  ASSUME EnhancedInv, UNCHANGED <<config, wrapperVars, enhanced>>
  PROVE  EnhancedInv'
<1>1. UNCHANGED <<config, invocation, at, coldStart, isCold, failed, enhanced>>
  BY DEF wrapperVars
<1> QED
  BY <1>1 DEF EnhancedInv, ColdInv, EntryInv, EveryoneCounted, CountedOnce

(* An entry that submitEnhancedMetrics appends for the current invocation, *)
(* which has none of its kind yet.                                         *)
LEMMA EntryAdded ==
  ASSUME TypeOK, EnhancedInv, NEW m \in {"invocations", "errors"}, invocation > 0,
         SubmitEnhancedMetrics(m), UNCHANGED <<config, invocation, isCold, failed>>,
         \A i \in DOMAIN enhanced : ~(enhanced[i].metric = m /\ enhanced[i].in = invocation),
         m = "invocations" \/ at \notin Uncounted, at' \notin Uncounted,
         m = "errors" => failed[invocation] /\ at' \notin NotFinished,
         at' \in NotFinished => at \in NotFinished
  PROVE  EntryInv' /\ EveryoneCounted' /\ CountedOnce'
<1> DEFINE new == [metric |-> m, in |-> invocation, cold_start |-> isCold[invocation]]
<1>1. enhanced \in Seq([metric : {"invocations", "errors"}, in : Invocations,
                        cold_start : BOOLEAN])
  BY DEF TypeOK
<1>2. invocation \in 1 .. invocation /\ invocation \in Nat
  BY DEF TypeOK
<1>3. isCold[invocation] = (invocation = 1)
  BY <1>2 DEF EnhancedInv, ColdInv
<1>4. CASE ~config.enhancedMetrics
  <2>1. enhanced' = enhanced
    BY <1>4 DEF SubmitEnhancedMetrics
  <2> QED
    BY <1>4, <2>1 DEF EnhancedInv, EntryInv, EveryoneCounted, CountedOnce, Uncounted, NotFinished
<1>5. CASE config.enhancedMetrics
  <2>1. enhanced' = Append(enhanced, new)
    BY <1>5 DEF SubmitEnhancedMetrics
  <2> DEFINE k == Len(enhanced) + 1
  <2>2. /\ DOMAIN enhanced' = DOMAIN enhanced \cup {k} /\ k \notin DOMAIN enhanced
        /\ enhanced'[k] = new
        /\ \A i \in DOMAIN enhanced : enhanced'[i] = enhanced[i]
    BY <1>1, <2>1
  <2>3. /\ new.metric = m /\ new.in = invocation /\ new.cold_start = isCold[invocation]
    OBVIOUS
  <2> HIDE DEF new, k
  <2>4. EntryInv'
    BY <1>2, <1>3, <1>5, <2>2, <2>3 DEF EnhancedInv, EntryInv, Uncounted, NotFinished
  <2>5. EveryoneCounted'
    BY <1>2, <2>2, <2>3 DEF EnhancedInv, EveryoneCounted, Uncounted
  <2>6. CountedOnce'
    BY <2>2, <2>3 DEF EnhancedInv, CountedOnce
  <2> QED
    BY <2>4, <2>5, <2>6
<1> QED
  BY <1>4, <1>5

(* HandlerStarted counts the invocation. *)
LEMMA EnhancedStarted == IInv /\ EnhancedInv /\ HandlerStarted => EnhancedInv'
<1> SUFFICES ASSUME IInv, EnhancedInv, HandlerStarted PROVE EnhancedInv'
    OBVIOUS
<1>1. /\ UNCHANGED <<config, invocation, coldStart, isCold, failed>>
      /\ at = "starting" /\ at' = "started" /\ SubmitEnhancedMetrics("invocations")
  BY DEF HandlerStarted, settings
<1>2. TypeOK /\ invocation > 0
  BY <1>1 DEF IInv, ContextInv
<1>3. ColdInv'
  BY <1>1 DEF EnhancedInv, ColdInv
<1>4. \A i \in DOMAIN enhanced :
        ~(enhanced[i].metric = "invocations" /\ enhanced[i].in = invocation)
  BY <1>1 DEF EnhancedInv, EntryInv, Uncounted
<1>5. EntryInv' /\ EveryoneCounted' /\ CountedOnce'
  BY <1>1, <1>2, <1>4, EntryAdded DEF Uncounted, NotFinished
<1> QED
  BY <1>3, <1>5 DEF EnhancedInv

(* HandlerFinished counts the error of a handler that failed. *)
LEMMA EnhancedClosed == IInv /\ EnhancedInv /\ CloseProcessor => EnhancedInv'
<1> SUFFICES ASSUME IInv, EnhancedInv, CloseProcessor PROVE EnhancedInv'
    OBVIOUS
<1>1. /\ UNCHANGED <<config, invocation, coldStart, isCold, failed>>
      /\ at = "returned" /\ at' = "finishing"
      /\ IF failed[invocation] THEN SubmitEnhancedMetrics("errors")
                               ELSE UNCHANGED enhanced
  BY DEF CloseProcessor, settings
<1>2. TypeOK /\ invocation > 0
  BY <1>1 DEF IInv, ContextInv
<1>3. ColdInv'
  BY <1>1 DEF EnhancedInv, ColdInv
<1>4. \A i \in DOMAIN enhanced :
        ~(enhanced[i].metric = "errors" /\ enhanced[i].in = invocation)
  BY <1>1 DEF EnhancedInv, EntryInv, NotFinished
<1>5. CASE failed[invocation]
  BY <1>1, <1>2, <1>3, <1>4, <1>5, EntryAdded DEF EnhancedInv, Uncounted, NotFinished
<1>6. CASE ~failed[invocation]
  BY <1>1, <1>3, <1>6 DEF EnhancedInv, EntryInv, EveryoneCounted, CountedOnce, Uncounted,
     NotFinished
<1> QED
  BY <1>5, <1>6

(* The other steps of the wrapper: a new invocation has no entry yet, and  *)
(* the end of one makes it neither uncounted nor unfinished.               *)
LEMMA EnhancedWrapper == IInv /\ EnhancedInv /\ Wrapper => EnhancedInv'
<1> SUFFICES ASSUME IInv, EnhancedInv, Wrapper PROVE EnhancedInv'
    OBVIOUS
<1>1. TypeOK /\ ContextInv
  BY DEF IInv
<1>2. invocation \in Nat /\ DOMAIN failed = Invocations /\ DOMAIN isCold = Invocations
  BY <1>1 DEF TypeOK
<1> USE DEF Uncounted, NotFinished
<1>3. CASE Invoke
  <2>1. /\ UNCHANGED <<config, coldStart, failed, enhanced>>
        /\ at = "idle" /\ at' = "starting" /\ invocation' = invocation + 1
        /\ invocation + 1 \in Invocations
        /\ isCold' = [isCold EXCEPT ![invocation + 1] = coldStart]
    BY <1>2, <1>3, InvocationAssumption DEF Invoke, settings, Invocations
  <2>2. ColdInv'
    BY <1>1, <1>2, <2>1 DEF EnhancedInv, ColdInv, TypeOK
  <2>3. EntryInv' /\ EveryoneCounted' /\ CountedOnce'
    BY <1>2, <2>1 DEF EnhancedInv, EntryInv, EveryoneCounted, CountedOnce
  <2> QED
    BY <2>2, <2>3 DEF EnhancedInv
<1>4. CASE HandlerReturns
  <2>1. /\ UNCHANGED <<config, invocation, coldStart, isCold, enhanced>>
        /\ at = "running" /\ at' = "returned"
        /\ \A n \in 1 .. invocation : n # invocation => failed'[n] = failed[n]
    BY <1>1, <1>4 DEF HandlerReturns, settings, TypeOK, Invocations
  <2> QED
    BY <1>2, <2>1 DEF EnhancedInv, ColdInv, EntryInv, EveryoneCounted, CountedOnce
<1>5. CASE HandlerPanics
  BY <1>5, EnhancedUntouched DEF HandlerPanics, settings
<1>6. CASE WrapperReturns
  <2>1. /\ UNCHANGED <<config, invocation, isCold, failed, enhanced>>
        /\ at = "finished" /\ at' = "idle" /\ coldStart' = FALSE /\ invocation > 0
    BY <1>1, <1>6 DEF WrapperReturns, NoLongerCold, settings, ContextInv
  <2>2. ColdInv'
    <3>1. (invocation' = 0 \/ (invocation' = 1 /\ at' # "idle")) = FALSE
      BY <1>2, <2>1
    <3>2. \A n \in 1 .. invocation' : isCold'[n] = (n = 1)
      BY <2>1 DEF EnhancedInv, ColdInv
    <3> QED
      BY <2>1, <3>1, <3>2 DEF ColdInv
  <2>3. EntryInv' /\ EveryoneCounted' /\ CountedOnce'
    BY <2>1 DEF EnhancedInv, EntryInv, EveryoneCounted, CountedOnce
  <2> QED
    BY <2>2, <2>3 DEF EnhancedInv
<1>7. CASE CallHandler \/ FlushStatsd \/ NothingToFinish \/ FinishReturns
  <2>1. /\ UNCHANGED <<config, invocation, coldStart, isCold, failed, enhanced>>
        /\ at \notin {"idle", "starting"} /\ at' \notin {"idle", "starting"}
        /\ at' \in NotFinished => at \in NotFinished
    BY <1>7 DEF CallHandler, FlushStatsd, NothingToFinish, FinishReturns, settings
  <2>2. ColdInv'
    BY <2>1 DEF EnhancedInv, ColdInv
  <2>3. EntryInv' /\ EveryoneCounted' /\ CountedOnce'
    BY <2>1 DEF EnhancedInv, EntryInv, EveryoneCounted, CountedOnce
  <2> QED
    BY <2>2, <2>3 DEF EnhancedInv
<1> QED
  BY <1>3, <1>4, <1>5, <1>6, <1>7, EnhancedStarted, EnhancedClosed DEF Wrapper

LEMMA EnhancedInvariant == Spec => []EnhancedInv
<1>1. Init => EnhancedInv
  <2> SUFFICES ASSUME Init PROVE EnhancedInv
      OBVIOUS
  <2>1. /\ coldStart = TRUE /\ invocation = 0 /\ DOMAIN enhanced = {}
        /\ 1 .. invocation = {}
    BY DEF Init
  <2>2. ColdInv
    BY <2>1 DEF ColdInv
  <2> QED
    BY <2>1, <2>2 DEF EnhancedInv, EntryInv, EveryoneCounted, CountedOnce
<1>2. IInv /\ EnhancedInv /\ [Next]_vars => EnhancedInv'
  <2> SUFFICES ASSUME IInv, EnhancedInv, [Next]_vars PROVE EnhancedInv'
      OBVIOUS
  <2>1. CASE Wrapper
    BY <2>1, EnhancedWrapper
  <2>2. CASE EndContext
    BY <2>2, EnhancedUntouched DEF EndContext, settings
  <2>3. CASE \E g \in Goroutines : Metric(g) \/ AddDistributionMetric(g)
    BY <2>3, EnhancedUntouched DEF Metric, AddDistributionMetric, settings
  <2>4. CASE \E n \in Invocations : Work(n)
    BY <2>4, EnhancedUntouched DEF Work, SendBatch, GiveUp, StopWorker, settings
  <2>5. CASE Terminated \/ UNCHANGED vars
    BY <2>5, EnhancedUntouched DEF Terminated, vars, settings
  <2> QED
    BY <2>1, <2>2, <2>3, <2>4, <2>5 DEF Next
<1> QED
  BY <1>1, <1>2, InvocationInvariant, PTL DEF Spec

(* Each invocation is counted once when HandlerStarted has returned, an    *)
(* error at most once and only for a handler that failed, and cold_start   *)
(* is true for the first invocation only (listener.go,                     *)
(* submitEnhancedMetrics; wrap_handler.go, coldStart).                     *)
THEOREM EnhancedMetricsAlwaysAgree == Spec => []EnhancedMetricsAgree
<1>1. IInv /\ EnhancedInv => EnhancedMetricsAgree
  <2> SUFFICES ASSUME IInv, EnhancedInv, NEW n \in 1 .. invocation
               PROVE  /\ Cardinality(Counted("invocations", n)) =
                           IF config.enhancedMetrics /\ ~(n = invocation /\ at = "starting")
                             THEN 1 ELSE 0
                      /\ Cardinality(Counted("errors", n)) <= IF failed[n] THEN 1 ELSE 0
                      /\ \A m \in {"invocations", "errors"} : \A i \in Counted(m, n) :
                           enhanced[i].cold_start = (n = 1)
      BY DEF EnhancedMetricsAgree
  <2>1. ASSUME NEW m, NEW i \in Counted(m, n) PROVE Counted(m, n) = {i}
    BY <2>1 DEF Counted, EnhancedInv, CountedOnce
  <2>2. \A i : Cardinality({i}) = 1
    BY FS_Singleton
  <2>3. Cardinality({}) = 0
    BY FS_EmptySet
  <2>4. ASSUME NEW m, NEW i \in Counted(m, n) PROVE Cardinality(Counted(m, n)) = 1
    BY <2>1, <2>2, <2>4
  <2>5. Cardinality(Counted("invocations", n)) =
          IF config.enhancedMetrics /\ ~(n = invocation /\ at = "starting") THEN 1 ELSE 0
    <3>1. CASE config.enhancedMetrics /\ ~(n = invocation /\ at = "starting")
      <4>1. \E i : i \in Counted("invocations", n)
        BY <3>1 DEF EnhancedInv, EveryoneCounted, Uncounted, Counted
      <4> QED
        BY <2>4, <3>1, <4>1
    <3>2. CASE ~(config.enhancedMetrics /\ ~(n = invocation /\ at = "starting"))
      <4>1. Counted("invocations", n) = {}
        BY <3>2 DEF EnhancedInv, EntryInv, Uncounted, Counted
      <4> QED
        BY <2>3, <3>2, <4>1
    <3> QED
      BY <3>1, <3>2
  <2>6. Cardinality(Counted("errors", n)) <= IF failed[n] THEN 1 ELSE 0
    <3>1. CASE Counted("errors", n) = {}
      BY <2>3, <3>1
    <3>2. CASE Counted("errors", n) # {}
      <4>1. failed[n]
        BY <3>2 DEF EnhancedInv, EntryInv, Counted
      <4>2. Cardinality(Counted("errors", n)) = 1
        BY <2>4, <3>2
      <4> QED
        BY <4>1, <4>2
    <3> QED
      BY <3>1, <3>2
  <2>7. \A m \in {"invocations", "errors"} : \A i \in Counted(m, n) :
          enhanced[i].cold_start = (n = 1)
    BY DEF EnhancedInv, EntryInv, Counted
  <2> QED
    BY <2>5, <2>6, <2>7
<1> QED
  BY <1>1, InvocationInvariant, EnhancedInvariant, PTL

=============================================================================
