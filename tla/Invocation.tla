----------------------------- MODULE Invocation -----------------------------
(***************************************************************************)
(* The life of a warm process: the wrapper of                              *)
(* internal/wrapper/wrap_handler.go calls the instrumented handler once    *)
(* per invocation, between HandlerStarted and HandlerFinished of the       *)
(* metrics listener (internal/metrics/listener.go), and goroutines of the  *)
(* handler call ddlambda.Metric, possibly still when the handler has       *)
(* returned.  One listener, one API client and the global CurrentContext   *)
(* serve all invocations; the context and the metrics processor are made   *)
(* anew for each.  An invocation, its context and its processor have the   *)
(* same number.                                                            *)
(*                                                                         *)
(* A processor is seen here as the pipe it implements (MetricsPipe): its   *)
(* goroutine, breaker and retries are the subject of module Processor, the *)
(* trace listener and the extension's routes that of module Tracing.       *)
(***************************************************************************)
EXTENDS Naturals, Sequences, FiniteSets

CONSTANTS
  Goroutines,       \* goroutines of the handler that call ddlambda.Metric
  MaxInvocations,   \* bound of the model: invocations of the process
  MaxCalls          \* bound of the model: calls of ddlambda.Metric

ASSUME InvocationAssumption ==
  /\ IsFiniteSet(Goroutines)
  /\ MaxInvocations \in Nat \ {0}
  /\ MaxCalls \in Nat

Invocations == 1 .. MaxInvocations

(* What decides where a metric goes: isAgentRunning of the listener, and   *)
(* three fields of its Config.                                             *)
Configs == [agent : BOOLEAN, logForwarder : BOOLEAN, FIPSMode : BOOLEAN,
            enhancedMetrics : BOOLEAN]

VARIABLES
  config,          \* the listener's configuration, fixed when it is made
  joins,           \* whether the handler waits for its goroutines
  invocation,      \* number of the current or last invocation
  at,              \* how far the wrapper has come
  coldStart,       \* the wrapper's variable of that name
  isCold,          \* value of cold_start in each context
  failed,          \* whether the handler of each invocation returned an error
  CurrentContext,  \* the wrapper's global; 0 is nil
  context,         \* state of each invocation's context
  processor,       \* the listener's current processor; 0 is nil
  clientContext,   \* the context of the listener's API client
  worker,          \* the background goroutine of each processor
  chanClosed,      \* whether each processor's channel is closed
  accepted,        \* how many metrics each processor has accepted
  left,            \* how many metrics have left each processor
  delivered,       \* the metrics of each processor that the API acknowledged
  requests,        \* history: processor and context of every API request
  buffered,        \* contexts of the metrics in the DogStatsD client's buffer
  enhanced,        \* history: the enhanced metrics submitted
  caller,          \* the context each goroutine is calling with, 0 if none
  calls,           \* number of calls of Metric so far
  panicked         \* a goroutine panicked, which ends the process

settings   == <<config, joins>>
wrapperVars == <<invocation, at, coldStart, isCold, failed, CurrentContext>>
pipeVars   == <<chanClosed, accepted, left, delivered>>
clientVars == <<clientContext, requests>>
callVars   == <<caller, calls, panicked>>
vars == <<settings, wrapperVars, context, processor, worker, pipeVars,
          clientVars, buffered, enhanced, callVars>>

-----------------------------------------------------------------------------
Init ==
  /\ config \in Configs /\ joins \in BOOLEAN
  /\ invocation = 0 /\ at = "idle" /\ coldStart = TRUE
  /\ isCold = [n \in Invocations |-> FALSE]
  /\ failed = [n \in Invocations |-> FALSE]
  /\ CurrentContext = 0
  /\ context = [n \in Invocations |-> "live"]
  /\ processor = 0 /\ clientContext = 0
  /\ worker = [n \in Invocations |-> "none"]
  /\ chanClosed = [n \in Invocations |-> FALSE]
  /\ accepted = [n \in Invocations |-> 0]
  /\ left = [n \in Invocations |-> 0]
  /\ delivered = [n \in Invocations |-> {}]
  /\ requests = {} /\ buffered = {} /\ enhanced = <<>>
  /\ caller = [g \in Goroutines |-> 0] /\ calls = 0 /\ panicked = FALSE

-----------------------------------------------------------------------------
(* The Lambda runtime calls the wrapper for the next event when the call   *)
(* for the last one has returned and its context has been cancelled.  The  *)
(* wrapper puts cold_start in the new context.                             *)
Invoke ==
  /\ at = "idle" /\ invocation < MaxInvocations
  /\ invocation > 0 => context[invocation] # "live"
  /\ invocation' = invocation + 1
  /\ isCold' = [isCold EXCEPT ![invocation + 1] = coldStart]
  /\ at' = "starting"
  /\ UNCHANGED <<settings, coldStart, failed, CurrentContext, context,
                 processor, worker, pipeVars, clientVars, buffered, enhanced,
                 callVars>>

(* A context ends with the Lambda deadline, or when the runtime cancels it *)
(* after the wrapper has returned.                                         *)
EndContext ==
  /\ invocation > 0 /\ context[invocation] = "live"
  /\ context' = [context EXCEPT ![invocation] =
                   IF at = "idle" THEN "cancelled" ELSE "deadline"]
  /\ UNCHANGED <<settings, wrapperVars, processor, worker, pipeVars,
                 clientVars, buffered, enhanced, callVars>>

-----------------------------------------------------------------------------
(* submitEnhancedMetrics, for the current invocation: the metric goes to   *)
(* the agent, or else to the log, whatever the configuration says of other *)
(* metrics.                                                                *)
SubmitEnhancedMetrics(metric) ==
  IF config.enhancedMetrics
    THEN /\ enhanced' = Append(enhanced, [metric |-> metric, in |-> invocation,
                                          cold_start |-> isCold[invocation]])
         /\ buffered' = IF config.agent THEN buffered \cup {invocation} ELSE buffered
    ELSE UNCHANGED <<enhanced, buffered>>

(* HandlerStarted makes and starts a processor unless FIPS mode forbids    *)
(* direct calls of the API; variants would ignore FIPS mode, or keep the   *)
(* first invocation's processor for ever.                                  *)
AlwaysMakesProcessor == TRUE
MakesProcessorOnce == ~config.FIPSMode /\ processor = 0
MakesProcessor == ~config.FIPSMode

(* The context the API client gets; the variant is a client that would be  *)
(* given a context only once.                                              *)
FirstContext == IF clientContext = 0 THEN invocation ELSE clientContext
NewClientContext == invocation

HandlerStarted ==
  /\ at = "starting"
  /\ IF MakesProcessor
       THEN /\ processor' = invocation
            /\ clientContext' = NewClientContext
            /\ worker' = [worker EXCEPT ![invocation] = "live"]
       ELSE UNCHANGED <<processor, clientContext, worker>>
  /\ SubmitEnhancedMetrics("invocations")
  /\ at' = "started"
  /\ UNCHANGED <<settings, invocation, coldStart, isCold, failed,
                 CurrentContext, context, pipeVars, requests, callVars>>

CallHandler ==
  /\ at = "started"
  /\ CurrentContext' = invocation
  /\ at' = "running"
  /\ UNCHANGED <<settings, invocation, coldStart, isCold, failed, context,
                 processor, worker, pipeVars, clientVars, buffered, enhanced,
                 callVars>>

(* callHandler returns, with an error or without; an event that cannot be  *)
(* unmarshalled is an error and the handler does not run.                  *)
HandlerReturns ==
  /\ at = "running"
  /\ joins => \A g \in Goroutines : caller[g] = 0
  /\ \E err \in BOOLEAN : failed' = [failed EXCEPT ![invocation] = err]
  /\ at' = "returned"
  /\ UNCHANGED <<settings, invocation, coldStart, isCold, CurrentContext,
                 context, processor, worker, pipeVars, clientVars, buffered,
                 enhanced, callVars>>

(* A panic of the handler is not recovered by the wrapper: the process ends*)
HandlerPanics ==
  /\ at = "running"
  /\ panicked' = TRUE
  /\ UNCHANGED <<settings, wrapperVars, context, processor, worker, pipeVars,
                 clientVars, buffered, enhanced, caller, calls>>

-----------------------------------------------------------------------------
(* HandlerFinished of the metrics listener: with an agent, flush the       *)
(* DogStatsD client (which may have flushed itself before, and whose       *)
(* errors are only logged); without one, count the error and finish the    *)
(* processor, if there is one.                                             *)
FlushStatsd ==
  /\ at = "returned" /\ config.agent
  /\ buffered' = {}
  /\ at' = "finished"
  /\ UNCHANGED <<settings, invocation, coldStart, isCold, failed,
                 CurrentContext, context, processor, worker, pipeVars,
                 clientVars, enhanced, callVars>>

(* FinishProcessing up to the wait; a goroutine that has already stopped   *)
(* is started again.                                                       *)
CloseProcessor ==
  /\ at = "returned" /\ ~config.agent /\ processor # 0
  /\ IF failed[invocation] THEN SubmitEnhancedMetrics("errors")
                           ELSE UNCHANGED <<enhanced, buffered>>
  /\ worker' = [worker EXCEPT ![processor] = "live"]
  /\ chanClosed' = [chanClosed EXCEPT ![processor] = TRUE]
  /\ at' = "finishing"
  /\ UNCHANGED <<settings, invocation, coldStart, isCold, failed,
                 CurrentContext, context, processor, accepted, left,
                 delivered, clientVars, callVars>>

NothingToFinish ==
  /\ at = "returned" /\ ~config.agent /\ processor = 0
  /\ at' = "finished"
  /\ UNCHANGED <<settings, invocation, coldStart, isCold, failed,
                 CurrentContext, context, processor, worker, pipeVars,
                 clientVars, buffered, enhanced, callVars>>

DoesNotWait == TRUE
WaitIsOver == worker[processor] # "live"

FinishReturns ==
  /\ at = "finishing" /\ WaitIsOver
  /\ at' = "finished"
  /\ UNCHANGED <<settings, invocation, coldStart, isCold, failed,
                 CurrentContext, context, processor, worker, pipeVars,
                 clientVars, buffered, enhanced, callVars>>

(* The wrapper returns: coldStart = false; CurrentContext = nil.           *)
StaysCold == coldStart
NoLongerCold == FALSE

WrapperReturns ==
  /\ at = "finished"
  /\ coldStart' = NoLongerCold
  /\ CurrentContext' = 0
  /\ at' = "idle"
  /\ UNCHANGED <<settings, invocation, isCold, failed, context, processor,
                 worker, pipeVars, clientVars, buffered, enhanced, callVars>>

-----------------------------------------------------------------------------
(* ddlambda.Metric reads CurrentContext; without a context it returns.     *)
Metric(g) ==
  /\ caller[g] = 0 /\ CurrentContext # 0 /\ calls < MaxCalls
  /\ joins => at = "running"
  /\ caller' = [caller EXCEPT ![g] = CurrentContext]
  /\ calls' = calls + 1
  /\ UNCHANGED <<settings, wrapperVars, context, processor, worker, pipeVars,
                 clientVars, buffered, enhanced, panicked>>

(* AddDistributionMetric: by the agent, by the log, nowhere, or by the     *)
(* processor.  MetricWithTimestamp keeps the context it has read; a second *)
(* look at CurrentContext might find none.                                 *)
ContextReadAgain(g) == CurrentContext
ContextOf(g) == caller[g]

AddToStatsd(g) ==
  /\ config.agent
  /\ buffered' = buffered \cup {ContextOf(g)}
  /\ UNCHANGED <<accepted, panicked>>

SkipsProcessor == config.logForwarder \/ config.FIPSMode

LogOrSkip ==
  /\ ~config.agent /\ SkipsProcessor
  /\ UNCHANGED <<buffered, accepted, panicked>>

(* The listener is the same for all contexts, so a goroutine that lingers  *)
(* may meet a later processor than its context's; since no lock orders its *)
(* read of l.processor, it may also still meet an older one than the last. *)
ProcessorsSeen(g) == {processor} \cup (caller[g] .. processor)

AddToProcessor(g) ==
  /\ ~config.agent /\ ~SkipsProcessor
  /\ \E p \in ProcessorsSeen(g) :
       IF chanClosed[p]
         THEN panicked' = TRUE /\ UNCHANGED accepted
         ELSE /\ accepted' = [accepted EXCEPT ![p] = @ + 1]
              /\ UNCHANGED panicked
  /\ UNCHANGED buffered

AddDistributionMetric(g) ==
  /\ caller[g] # 0
  /\ AddToStatsd(g) \/ LogOrSkip \/ AddToProcessor(g)
  /\ caller' = [caller EXCEPT ![g] = 0]
  /\ UNCHANGED <<settings, wrapperVars, context, processor, worker,
                 chanClosed, left, delivered, clientVars, enhanced, calls>>

-----------------------------------------------------------------------------
(* The background goroutine of processor n: it sends a run of metrics from *)
(* the front with the context the API client has now, and stops when its   *)
(* context is done or when its channel is closed and the last flush made.  *)
(* A flush that began before the context ended may still be under way.     *)
Waiting(n) == left[n] < accepted[n]

SendBatch(n) ==
  /\ worker[n] = "live" /\ Waiting(n)
  /\ \E k \in left[n] + 1 .. accepted[n], ok \in BOOLEAN :
       /\ left' = [left EXCEPT ![n] = k]
       /\ ok => context[clientContext] = "live"
       /\ delivered' = IF ok THEN [delivered EXCEPT ![n] = @ \cup (left[n] + 1 .. k)]
                             ELSE delivered
  /\ requests' = requests \cup {<<n, clientContext>>}
  /\ UNCHANGED <<settings, wrapperVars, context, processor, worker,
                 chanClosed, accepted, clientContext, buffered, enhanced, callVars>>

(* The last flush may also be refused by the breaker, or keep failing.     *)
GiveUp(n) ==
  /\ worker[n] = "live" /\ Waiting(n) /\ chanClosed[n]
  /\ worker' = [worker EXCEPT ![n] = "gaveUp"]
  /\ UNCHANGED <<settings, wrapperVars, context, processor, pipeVars,
                 clientVars, buffered, enhanced, callVars>>

IgnoresContext(n) == FALSE
SeesDone(n) == context[n] # "live"

StopWorker(n) ==
  /\ worker[n] = "live"
  /\ SeesDone(n) \/ (chanClosed[n] /\ ~Waiting(n))
  /\ worker' = [worker EXCEPT ![n] = "gone"]
  /\ UNCHANGED <<settings, wrapperVars, context, processor, pipeVars,
                 clientVars, buffered, enhanced, callVars>>

-----------------------------------------------------------------------------
Wrapper ==
  \/ Invoke \/ HandlerStarted \/ CallHandler \/ HandlerReturns \/ HandlerPanics
  \/ FlushStatsd \/ CloseProcessor \/ NothingToFinish \/ FinishReturns
  \/ WrapperReturns

Work(n) == SendBatch(n) \/ GiveUp(n) \/ StopWorker(n)

(* The process is down, or the model's last invocation is over. *)
Terminated ==
  /\ panicked \/ (at = "idle" /\ invocation = MaxInvocations)
  /\ UNCHANGED vars

Next ==
  \/ /\ ~panicked
     /\ \/ Wrapper \/ EndContext
        \/ \E g \in Goroutines : Metric(g) \/ AddDistributionMetric(g)
        \/ \E n \in Invocations : Work(n)
  \/ Terminated

(* Every context ends: by the Lambda deadline, which Lambda enforces, or   *)
(* by the runtime's deferred cancel.  The Go scheduler runs a goroutine    *)
(* that can run.                                                           *)
Spec ==
  /\ Init /\ [][Next]_vars
  /\ WF_vars(~panicked /\ EndContext)
  /\ \A n \in Invocations : WF_vars(~panicked /\ StopWorker(n))

-----------------------------------------------------------------------------
(* Every variable has its type. *)
TypeOK ==
  /\ config \in Configs /\ joins \in BOOLEAN
  /\ invocation \in 0 .. MaxInvocations
  /\ at \in {"idle", "starting", "started", "running", "returned", "finishing",
             "finished"}
  /\ coldStart \in BOOLEAN
  /\ isCold \in [Invocations -> BOOLEAN] /\ failed \in [Invocations -> BOOLEAN]
  /\ {CurrentContext, processor, clientContext} \subseteq 0 .. invocation
  /\ context \in [Invocations -> {"live", "deadline", "cancelled"}]
  /\ worker \in [Invocations -> {"none", "live", "gone", "gaveUp"}]
  /\ chanClosed \in [Invocations -> BOOLEAN]
  /\ accepted \in [Invocations -> Nat]
  /\ left \in [Invocations -> Nat] /\ delivered \in [Invocations -> SUBSET Nat]
  /\ requests \subseteq Invocations \X Invocations
  /\ buffered \subseteq Invocations
  /\ enhanced \in Seq([metric : {"invocations", "errors"}, in : Invocations,
                       cold_start : BOOLEAN])
  /\ caller \in [Goroutines -> 0 .. invocation]
  /\ calls \in 0 .. MaxCalls /\ panicked \in BOOLEAN

(* A handler that waits for its goroutines never runs into the panic of a  *)
(* send on a closed channel, whatever the deadline does.                   *)
JoinedNeverPanics ==
  [][joins /\ panicked' # panicked => at = "running" /\ UNCHANGED caller]_vars

(* A request is made with the context of the invocation whose metrics it   *)
(* carries, although the API client has one context for all.               *)
RequestsUseOwnContext == \A r \in requests : r[1] = r[2]

(* When the wrapper has returned and the deadline did not interfere, no    *)
(* metric of the handler is left in the process: the agent's client is     *)
(* flushed, the processor is empty or gave up on its last flush.           *)
FlushedOnReturn ==
  (joins /\ at = "idle" /\ invocation > 0 /\ context[invocation] # "deadline") =>
    /\ buffered = {}
    /\ \/ ~Waiting(invocation)
       \/ worker[invocation] = "gaveUp"

(* In FIPS mode there is no processor and no request of the API.           *)
FIPSNeverCallsAPI ==
  config.FIPSMode =>
    /\ processor = 0 /\ requests = {}
    /\ \A n \in Invocations : worker[n] = "none" /\ accepted[n] = 0

(* Each invocation is counted once, before anything of it is sent, and     *)
(* only the first is a cold start; an errors metric follows it at most     *)
(* once, only for a handler that failed, and agrees on cold_start.         *)
Counted(metric, n) ==
  {i \in DOMAIN enhanced : enhanced[i].metric = metric /\ enhanced[i].in = n}

EnhancedMetricsAgree ==
  \A n \in 1 .. invocation :
    /\ Cardinality(Counted("invocations", n)) =
         IF config.enhancedMetrics /\ ~(n = invocation /\ at = "starting") THEN 1 ELSE 0
    /\ Cardinality(Counted("errors", n)) <= IF failed[n] THEN 1 ELSE 0
    /\ \A m \in {"invocations", "errors"} : \A i \in Counted(m, n) :
         enhanced[i].cold_start = (n = 1)

(* When the wrapper has returned, and Lambda may freeze the process, no    *)
(* background goroutine is left in the middle of a request: without an     *)
(* agent none is alive, with an agent none ever has anything to send.      *)
QuiescentWhenIdle ==
  /\ config.agent => requests = {}
  /\ ~config.agent /\ at = "idle" => \A n \in Invocations : worker[n] # "live"

(* Seen by the wrapper and by the goroutines, each processor is a pipe.    *)
Pipe(n) == INSTANCE MetricsPipe WITH
  MayLose   <- TRUE,
  phase     <- IF ~chanClosed[n] THEN "open"
               ELSE IF n = invocation /\ at = "finishing" THEN "closed"
               ELSE "returned",
  accepted  <- accepted[n],
  held      <- [i \in 1 .. accepted[n] - left[n] |-> left[n] + i],
  out       <- [i \in 1 .. left[n] |-> i],
  delivered <- delivered[n]

EachProcessorIsAPipe ==
  /\ \A n \in Invocations : Pipe(n)!Init
  /\ [][\A n \in Invocations : [Pipe(n)!Next]_(Pipe(n)!vars)]_vars

(* No background goroutine outlives its invocation's context for good,     *)
(* also when an agent runs and FinishProcessing is never called.           *)
NoGoroutineLeak ==
  \A n \in Invocations : worker[n] = "live" ~> (worker[n] # "live" \/ panicked)

=============================================================================
