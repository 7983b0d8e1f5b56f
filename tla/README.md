# A verification of datadog-lambda-go in TLA+

datadog-lambda-go is a library that a Go function on AWS Lambda links with.  It
wraps the function's handler so that, around every invocation, custom metrics
are collected and sent to Datadog and a trace span is made for the execution.
This directory models the library's own logic in TLA+, checks it with TLC on
small instances, and proves the safety properties that hold with TLAPS for
every value of the constants; for some of them the proof needs a hypothesis,
which section 5 explains.

## 1. The system

| Part | Code | State it keeps | Operations |
|---|---|---|---|
| metrics processor | `internal/metrics/processor.go` | channel, batcher, wait group, `isProcessing`, breaker, invocation's context | AddMetric, StartProcessing, FinishProcessing, the goroutine processMetrics |
| circuit breaker | `processor.go` (gobreaker library) | state, failure count | Execute |
| batcher, metric model | `batcher.go`, `model.go` | map from series to metric object | AddMetric, Join, ToAPIMetrics |
| API client, KMS | `api.go`, `kms_decrypter.go` | API key, decryption channel, context | SendMetrics, the goroutine of decryptAPIKey |
| metrics listener | `listener.go`, `context.go` | current processor, API client, DogStatsD client | HandlerStarted, HandlerFinished, AddDistributionMetric |
| handler wrapper | `internal/wrapper/wrap_handler.go` | `coldStart`, global `CurrentContext` | one call per invocation |
| trace listener | `internal/trace/*.go` | package variables `functionExecutionSpan`, `tracerInitialized` | MakeListener, HandlerStarted, HandlerFinished |
| trace headers | `ddlambda.go`, `internal/trace/context.go` | values in the context | GetTraceHeaders, AddTraceHeaders |
| extension manager | `internal/extension/extension.go` | whether the extension runs | discovery, start and end of an invocation |
| configuration | `ddlambda.go` | environment of the process | WrapFunction, WrapLambdaHandlerInterface, InvokeDryRun |

**How they interact.**  `WrapFunction` resolves the configuration and makes one
trace listener and one metrics listener for the process.  For each invocation
the wrapper calls `HandlerStarted` of both, then the handler, then
`HandlerFinished` of both.  The metrics listener makes a new processor for each
invocation and hands the invocation's context to its one API client.
`ddlambda.Metric`, which any goroutine of the handler may call, finds the
listener through `CurrentContext` and sends the metric to the agent, to the log,
or to the processor's channel.  The processor's goroutine collects the channel
into the batcher and sends it through the breaker and the API client.  The trace
listener asks the extension for a trace context at the start, reports the span
to it at the end, and keeps the span in between in a variable of the package.
It starts the package's tracer when the first listener that traces is made.  The
handler may ask for headers that carry the trace on to what it calls.

**What is hard about it.**

* Concurrency without locks: the flag `isProcessing` is read by one goroutine
  and reset by another; batcher and breaker rely on having one user.
* A Go `select` picks at random; the invocation's context may end at any step.
* Failures: an answer may be lost, a batch is put back or dropped, the last
  flush is retried inside one `Execute` of the breaker.
* Warm starts: the listeners, the API client and three global variables live
  on, while contexts and processors are of one invocation.
* Several sources of one value, of which any may be missing or unreadable: a
  trace comes from the event, the extension or X-Ray, a setting from the user's Config, the
  environment or the region, the API key from any of four places.
* Four ways a metric may go (agent, log, nowhere, API), decided in three places.

`PROJECT.json` lists these as hazards, each at its line, with the properties
that watch over it.

Properties that make each part correct, which the runs of section 3 check: the
processor keeps every accepted metric in order until it is sent, once, and comes
to an end; the breaker opens when documented; a batch is grouped by series; each
request carries the user's key and the context of its own invocation; nothing of
an invocation is left when the next one starts; spans, extension and X-Ray agree
on one trace; the configuration means what its documentation says.

## 2. The modules

| Module | Models | Stands on |
|---|---|---|
| `Processor` | the metrics processor with its goroutine, senders and owner | `CircuitBreaker` |
| `CircuitBreaker` | gobreaker with the settings of MakeCircuitBreaker | |
| `MetricsPipe` | abstract: what the processor promises to its callers | |
| `Invocation` | wrapper, metrics listener and client context over a warm process | `MetricsPipe` |
| `Tracing` | trace listeners, tracer, trace headers and extension routes over the invocations of a process | |
| `Batcher` | batcher and metric model | |
| `Setup` | WrapFunction: configuration, AppSec, FIPS mode, check and call of the handler | |
| `ApiClient` | API client and decryption of its key | |
| `Startup` | the API key from the user to the requests | `Setup`, `ApiClient` |
| `MCProcessor`, `MCTracing`, `MCBatcher`, `MCSetup` | instances for TLC | |
| `ProcessorProofs`, `ProcessorFlushProofs`, `InvocationProofs`, `InvocationPipeProofs`, `TracingProofs`, `BatcherProofs`, `StartupProofs` | theorems, see section 5 | |

**Composition.**  `Processor` is shown to implement `MetricsPipe`
(`ImplementsPipe`: model-checked, and proved as theorem `Refinement`).
`Invocation` sees each invocation's processor only as that pipe, and what it does
to a processor is allowed by `MetricsPipe` (`EachProcessorIsAPipe`: model-checked,
and proved as `ProcessorsArePipes`).  `Startup` composes `Setup` and `ApiClient`: `initializeListeners`
makes the client, whose decryption goroutine then runs beside the rest of the
start and the first invocations.  It takes from `Invocation` that SendMetrics is
called by one processor at a time (`QuiescentWhenIdle`).

### Processor and the code

A metric is the number under which the channel accepted it, so that loss, order
and duplication can be stated.

| Code | Model |
|---|---|
| `metricsChan`, `batcher`, `breaker`, `isProcessing`, `waitGroup` | variables of these names |
| locals `shouldExit`, `shouldSendBatch`, `mts`, `ticker` | functions on `Workers` |
| program counter of `processMetrics` | `pc`: `select`, `check`, `execute`, `batch`, `sending`/`lateSend`, `exiting`, `leaving`, `gone` |
| the `select` | `SelectDone`, `SelectMetric`, `SelectClosed`, `SelectTick` |
| the second `select` | `Check` |
| `breaker.Execute` | `Execute` (admit or refuse), then `Executed` when the function returns |
| `sendMetricsBatch` | `SendMetricsBatch`, then `SendSucceeds` or `SendFails` |
| `StartProcessing`, `FinishProcessing` | `StartProcessing`; `FinishProcessing`, `CloseChan`, `FinishReturns` |

There are two `Workers` because `FinishProcessing` may start a second goroutine
when the first has stopped.  The race on `isProcessing` is a choice: the owner
reads the current value or the one it wrote itself.  A request fails before it
leaves if the context is already done (`lateSend`); one that fails later may or
may not have arrived.  The history variables `settled`, `acked`, `arrived`,
`duplicated`, `lastFlush` and `lateFlushes` are read by no guard.

### The other modules

* `Invocation`: an invocation, its context and its processor have the same
  number.  `at` is the wrapper's progress; `Metric` and `AddDistributionMetric`
  are two steps, because the listener is read from `CurrentContext` before the
  metric is added.  `joins` says whether the handler waits for its goroutines.
  `AddToProcessor` may meet any processor from the one of the goroutine's
  invocation to the newest, since nothing orders its read of `l.processor`.
* `Tracing`: identifiers are pairs of an origin (`event`, `extension`, `xray`,
  `segment`, `span`, `unusable`) and an invocation.  Any header may be missing
  from an event or an answer, and an event may carry the headers that the handler
  sent on before.  A header that is there may be no number, or zero: its
  identifier is `unusable`, and a context with one does not become the span's
  parent (`Convertible`).  The extension may answer the event's trace or another
  one.  The X-Ray conversion is seen as a change of origin from hexadecimal to
  Datadog's format, which succeeds or not, rather than as arithmetic; it is assumed
  that no X-Ray identifier is zero, and that event and extension do not send the
  identifiers of this invocation's own X-Ray header.
  `HandlerStarted` is three actions, because the extension is asked in between:
  `NotTraced`, `SendStartInvocationRequest`, `StartFunctionExecutionSpan` (or
  `PanicWithoutLambdaContext`).  `InvokeDryRun` makes a listener and calls the
  wrapper with an empty context.  `MixedTracing` says whether listeners that
  trace and listeners that do not may share the process.
* `Batcher`: a string is a sequence of atoms separated by colons, so that
  `getTagKey` is a concatenation, as in the code, which may forget where a tag
  ends.  `getStringKey` is the tuple of its parts: no name, tag or host is taken
  to hold the `)-(` that stands between them.  What `sort.Strings` returns is
  the arrangement of the tags that is in order, which is unique.  `values` are the
  objects that the map points to; they outlive their batch.
* `ApiClient`: the options, the decryption goroutine and a caller; KMS accepts a
  key encrypted with the CLI only without an encryption context, one from the
  console only with it, and may fail.  A key is known by where it was configured,
  also when it is decrypted, so that each of the four sources can be told from
  the others; `refused` is the history of a decryption that failed.
* `Setup`: parsed values of the environment (`""` for unset or unparsable).  The
  extension's file is `absent`, `present` or `unreadable`: `setupAppSec` gives up
  only if it is absent, the extension manager unless it is present.  A
  handler is its list of argument and result types, as far as reflection is asked
  about them: `context` is `context.Context`, `contextLike` another type that
  implements it, and a variadic handler is one whose last argument may or may not
  be assignable to the type of its elements (`Panics`).
* `Startup`: the steps of `Setup` and `ApiClient`, interleaved; only a user whose
  metrics go to the API (`UsesAPI`) ever calls SendMetrics.

## 3. The runs

Liveness runs and their fairness are explained in section 4.

| Run | Instance | Shows |
|---|---|---|
| `processor_safety` | 2 senders, channel of 1, 3 metrics, no retry, limit 1; senders are joined | types; one goroutine in the loop; order without loss; at most one delivery; last flush; at most one late flush; nothing after the return; refinement of `MetricsPipe` |
| `processor_retry` | 2 senders, channel of 3, 3 metrics, retry, limit 1; senders may outlive the handler | the inductive invariant; metrics leave only when acknowledged; last flush; breaker in step with the flushes |
| `processor_timeout` | requests are answered or time out | `FinishProcessing` returns; a blocked `AddMetric` completes |
| `processor_deadline` | requests may hang, the deadline comes | `FinishProcessing` returns; the goroutine stops |
| `processor_breaker` | retry, limit 1 | **violation**, see section 6 |
| `invocation` | 2 invocations, 2 goroutines, 2 calls, all configurations | own context in each request; flushed on return; FIPS mode makes no request; enhanced metrics agree; quiescent between invocations; no panic for joined goroutines; processors behave as pipes; no goroutine leak |
| `tracing` | 2 interchangeable listeners that both trace or both do not, 2 invocations, all settings, headers and answers, one header of an invocation unreadable | start and end requests pair up; the end agrees with the span but in the named cases; the one tracer suits all listeners but in the named case; precedence of trace sources; X-Ray's and Datadog's traces are joined; each span finished once |
| `tracing_stale_span` | 2 listeners, mixed | **violation**, see section 6 |
| `dry_run` | 1 listener | **violation**, see section 6 |
| `batcher` | 3 metrics, 2 names, 1 host or none, 7 lists of tags, two of which collide | batch equals the reference grouping exactly as long as nothing in it collides |
| `startup` | 24,099 inputs, 3 calls of SendMetrics | key decided before the first request, and the first of the user's own four; calls return; FIPS default in GovCloud; whom the AppSec redirection serves; which calls by reflection fit |
| `setup_settings` | one user's settings | **violation**, see section 6 |

**Bounds.**  `MaxMetrics`, `MaxInvocations`, `MaxCalls` and `MaxSends` bound the
models and occur only in the guards of the actions that add, invoke or call;
`MaxUnreadable` bounds how many headers of one invocation cannot be read, and one
is enough to lose its context, which none can lose twice.
Three metrics and a channel of one or three reach: a full channel with a blocked
sender, a batch in flight while the channel is filled again, a batch put back, a
second flush behind it, and a breaker that trips and recovers (two failures trip
a limit of one).  Two senders are enough for two blocked sends; more are
symmetric.  Two invocations are a cold and a warm one, and one goroutine that
lingers from the first into the second.  Three `SendMetrics` calls are a first
that waits, a second that must not, and a third after a change of context.  Two
listeners are one that starts the tracer and one that finds it started; which of
them is which makes no difference to an invariant, hence the symmetry.  The
inputs of `startup` vary one group of settings at a time (those of tracing, of
metrics, the keys, the handler's type), because the groups do not depend on one
another.  What depends on these bounds is removed by the proofs, which hold for
every value of the constants, and for every set of inputs.

Deadlock is checked in every run but `processor_safety` and `processor_timeout`:
there a goroutine that is joined may wait for ever in `AddMetric` when the
context is done and the channel is full, which the code really does (the handler
then does not return, and Lambda ends the process).  The other models always
have a next step, an explicit one where the modelled life is over.

## 4. Fairness

* `GoFairness` of `Processor`: a goroutine that can run does run (weak fairness
  of each step), and `select`, which picks among ready cases at random, does not
  ignore a case that is ready again and again (strong fairness of `SelectDone`,
  `SelectMetric`, `SelectClosed` and of a blocked send).  Ticks, cancellation,
  sending and the call of `FinishProcessing` are never assumed to happen.
* `SpecTimeout` adds that each request is answered, which a time limit of the
  HTTP client gives.  A user who sets none has none (section 6); for that case
  `SpecDeadline` assumes only that the invocation's context ends, by the Lambda
  deadline, and that a request, which carries the context, ends with it.
* `Invocation` assumes that every context ends (deadline, or the runtime's
  deferred cancel after the call) and that a goroutine that may stop does.
* `Startup` assumes that KMS answers (the AWS client has time limits), that
  requests end, and that the decryption goroutine and a caller of SendMetrics run
  when they can.  Nothing is assumed of WrapFunction or of when SendMetrics is
  called.

## 5. The proofs

All theorems hold for every value of the constants that the named assumptions of
the modules allow: any finite set of senders, goroutines and listeners, any
channel capacity, any limit of the breaker, any bound on metrics, invocations and
calls, and any set of inputs of WrapFunction.

| Module | Theorem | States |
|---|---|---|
| `ProcessorProofs` | `TypeCorrect` | `Spec => []TypeOK` |
| | `Exclusion` | `Spec => []BatcherExclusive` |
| | `InvariantHolds` | `Spec => []IInv` |
| | `Fifo` | `Spec => []FirstInFirstOut` |
| | `DeliveredAtMostOnce` | `Spec => []AtMostOnce` |
| | `KeptUntilAcknowledged` | `Spec => []RetryKeeps` |
| | `Refinement` | `Spec => ImplementsPipe` |
| `ProcessorFlushProofs` | `FinishFlushes` | `Spec => []FlushedOnFinish` |
| | `LateFlushBounded` | `Spec => []AtMostOneLateFlush` |
| | `QuietAfterReturn` | `Spec => NothingAfterReturn` |
| | `BreakerAlwaysInStep` | `Spec => []BreakerInStep` |
| `InvocationProofs` | `InvocationTypeOK` | `Spec => []TypeOK` |
| | `RequestsKeepContext` | `Spec => []RequestsUseOwnContext` |
| | `FIPSKeepsAway` | `Spec => []FIPSNeverCallsAPI` |
| | `QuiescentBetweenInvocations` | `Spec => []QuiescentWhenIdle` |
| | `NothingLeftOnReturn` | `Spec => []FlushedOnReturn` |
| | `JoinedHandlersNeverPanic` | `Spec => JoinedNeverPanics` |
| | `EnhancedMetricsAlwaysAgree` | `Spec => []EnhancedMetricsAgree` |
| `InvocationPipeProofs` | `ProcessorsArePipes` | `Spec => EachProcessorIsAPipe` |
| `TracingProofs` | `TracingTypeOK` | `Spec => []TypeOK` |
| | `TracerAlwaysAgrees` | `Spec => []TracerAgrees` |
| | `TracePrecedenceHolds` | `Spec => []TracePrecedence` |
| | `TracesStayConnected` | `Spec => []TracesConnected` |
| | `EverySpanFinishedOnce` | `~MixedTracing => (Spec => []SpanFinishedOnce)` |
| | `StartAlwaysThenEnd` | `~MixedTracing => (Spec => []StartThenEnd)` |
| | `EndAlwaysReportsSpan` | `~MixedTracing => (Spec => []EndReportsSpan)` |
| | `TracedReportsOwnSpan` | `Spec => []` the last two, of invocations that are traced |
| | `SpanFinishedWithInvocation` | `Spec => []FinishedWithInvocation` |
| `BatcherProofs` | `KeyValueTagsDiffer` | `TagLists \subseteq Seq(KeyValue) => TagKeysDiffer` |
| | `BatchAlwaysGrouped` | `Spec => []GroupedUnlessCollision` |
| | `KeyValueBatchGrouped` | `TagLists \subseteq Seq(KeyValue) => (Spec => []BatchIsGrouped)` |
| | `PointsAlwaysKept` | `Spec => []PointsKept` |
| `StartupProofs` | `ClientTypeOK` | `StartupSpec => []TypeOK` |
| | `EveryRequestCarriesKey` | `StartupSpec => []RequestsCarryKey` |
| | `EveryRequestUsersKey` | `StartupSpec => []UsersKey` |
| | `GovCloudAlwaysFIPS` | `StartupSpec => []GovCloudIsFIPS` |
| | `RedirectionAlwaysServed` | `StartupSpec => []RedirectionIsServed` |
| | `CallAlwaysFits` | `StartupSpec => []CallFitsHandler` |

**The processor.**  None of the safety properties is inductive as it stands.  The
invariant `IInv` has three layers, each proved with the ones before it:

1. `Threads` = `TypeOK` + `Succession` + `BatcherExclusive`.  The wait group's
   type needs that it counts the living goroutines, and exclusiveness needs to
   know which goroutine the owner can have started: `Succession` ties the owner's
   progress to the goroutines' (a second one exists only if the first has left
   the loop).  That `FinishProcessing` may read a stale `isProcessing` is
   harmless because of this.
2. `Order` = `BatchInFlight` + `FirstInFirstOut`.  A failed batch that is put
   back replaces the batcher; no metric is lost only because the batcher is empty
   while a batch is in flight, which is `BatchInFlight`, and which in turn needs
   that no other goroutine is in the loop.
3. `Delivery` = `ArrivedIsSettled` + `AtMostOnce` + `RetryKeeps`.  No duplicate
   arrives because what has arrived has been settled, and what is settled and
   what is in flight are disjoint parts of one sequence without repetitions
   (`NothingInCommon`).

The refinement uses `IInv`: the batch in flight is the front of the pipe, so
that success or giving up settles a prefix (`PipeSettle`), and all other steps of
the goroutine leave the pipe alone.

Three more invariants stand on `IInv`.  `LateFlush` says that after a late flush no
goroutine is about to begin another; it is kept because only the second look at
the done channel leads to a flush, and because one goroutine at a time is in the
loop.  `LastFlush` says that as long as the context is not done there is one
goroutine only, that it decides to exit only when the channel is closed and
drained, and that it then leaves through a flush; what the flush can leave behind
is `Excuse`.  `BreakerInStep` needs `IInv` alone: a probe that a half-open breaker
has let through is a flush of the one goroutine in the loop, and however that
flush ends (sent, given up, cut off, nothing to send) its result reaches the
breaker before the goroutine leaves or looks again.

**The warm process.**  `IInv` of `InvocationProofs` has six parts beside the
property about requests.  `ProcessorInv` says that the listener's processor and
the API client's context are always of the same invocation, the last that
`HandlerStarted` has seen; `WorkerInv` that without an agent no worker survives
`FinishProcessing`.  Neither suffices alone for `RequestsUseOwnContext`: a request
takes its context from the client and its metrics from a worker, and they agree
because the only living worker is that of the current processor.  The same two
parts give `ProcessorsArePipes`: nothing is added to a closed processor, and what
leaves one leaves before it has returned.  `JoinsInv` and
`FlushInv` serve handlers that wait for their goroutines.

`EnhancedMetricsAgree` counts entries of a history, and a count is nothing that an
induction over steps can follow.  `EnhancedInv` says the same without counting:
each entry is of an invocation that has come far enough to have made it, each
invocation that has come that far has its entry, and no two entries are of the
same kind and invocation.

**Tracing.**  `IInv` of `TracingProofs` describes the span as a function of what
the listener was given (`SpanInv`), the requests as a function of how far the
invocation has come (`SentInv`), and says of the context that it has a parent
whenever it has a trace (`ContextInv`).  The end request and the span look in
different places, so that `EndReportsSpan` follows the span's definition: what the
two may differ in is what the extension answered, or that the span began a trace of
its own (`SpanJoinsAnswer`).  `TracesConnected` needs
that no identifier of X-Ray's for this invocation can come with its event or
answer (`Foreign`).  `TracerInv` remembers that some listener that traces started
the tracer with its own mode; what its extension manager found is the same for all
if universal instrumentation is on, or the extension is not installed, which leaves
the one exception of `TracerAgrees`.

The invariant describes every process, with `MixedTracing` or without, and so do
six of the theorems.  Three assume `~MixedTracing`, because the code does not do
what they state in a process where one listener traces and another does not
(section 6).  What is left of them there is `TracedReportsOwnSpan` and
`SpanFinishedWithInvocation`: the invocations that are traced are reported and
their spans finished as they should be, and it is only a later invocation of a
listener that does not trace that reports and finishes the span again
(`Misreported` in the invariant).

**The batcher.**  `MapInv` says that the map has an entry for exactly the keys of
the metrics that wait, and that it points to the first metric with the key;
`PointsInv` that this object holds the waiting points with the key, ascending.
That is so for all tags, and gives `PointsAlwaysKept`.  It gives `BatchIsGrouped` as
long as no two waiting metrics share a key without being of one series, because the
entry's points are then those of one series; otherwise some record of the batch has
points of two.  Sharing a key without being of one series is to have other tags that
read the same when joined (`CollidingKeys`), which is `Collision`.  Four facts about
data are needed: a list of any length has an arrangement in order, there is only one,
a set of metrics has an ascending enumeration, and it is unique.  They, and what
joining does to a list, would be proved by induction, whose scheme the provers cannot
instantiate.  The proofs take the least length for which the fact fails instead
(`LeastNumber`, from the well-foundedness of the numbers) and refute it.

The code does nothing against collisions: the key of a series joins its tags with
colons (section 6).  That metrics whose tags are of the form key:value, with one
colon, never collide is `KeyValueTagsDiffer`, from which `KeyValueBatchGrouped`
follows.  When keys do collide, points are attributed to the wrong tags, but none
is lost (`PointsAlwaysKept`).

**The start.**  `KeyInv` ties the decryption goroutine's progress to the channel,
the key and the caller's, and says that a decryption which is over has given the
plaintext of its own key or been refused; `SetupInv` and `HandlerInv` say that what
has been resolved is still a function of the input, `ClientInv` that the client was
made from it.  `CallFitsHandler` needs that a validated handler has at most two
arguments, for which `ArgumentsFit` says when reflection accepts what
`callHandler` passes.

TLC checks the invariants too: `IInv` of `Processor` is an invariant of
`processor_retry`; those of the other modules were checked on the same instances
as their runs while the proofs were written, that of `Tracing` also with
`MixedTracing = TRUE`.

**Only model-checked**: all liveness (`FinishTerminates`, `AddCompletes`,
`CancelStopsWorker`, `NoGoroutineLeak`, `SendReturns`), which is outside the reach
of the prover.

## 6. Findings

Four runs show a disagreement of the code with what it documents.

* `processor_breaker`: *"CircuitBreakerTotalFailures after this amount of times
  of a request failing in the closed state, the state will become open"*
  (`ddlambda.go:68`).  The breaker counts flushes: the up to three requests of
  the last flush run inside one `Execute` and count as one failure, and the limit
  must be exceeded.
* `tracing_stale_span`: `functionExecutionSpan` is documented as the span of the
  current execution (`trace/listener.go:51`).  It is never reset, and
  `HandlerFinished` looks at nothing else: in a process with a listener that
  traces and one that does not, the second finishes the first one's span again
  and reports it as its own.
* `dry_run`: *"InvokeDryRun is a utility to easily run your lambda for testing"*
  (`ddlambda.go:203`).  With tracing on, which is the default, the trace listener
  reads the function's ARN from a Lambda context that is not there, and panics
  before the callback runs (`trace/listener.go:147`).
* `setup_settings`: *"HTTPClientTimeout ... defaults to 5s"* (`ddlambda.go:58`).
  The API client is built before the default is filled in, so that it has no
  time limit.  And *"CircuitBreakerTotalFailures ..."* (`ddlambda.go:68`):
  `toMetricsConfig` does not copy the settings of the circuit breaker, so that
  what the user sets has no effect.

Observed while modelling; a property of a passing run states what the code does
where it is named:

* `setupAppSec` *"redirects AWS_LAMBDA_RUNTIME_API to the agent extension, and turns
  on universal instrumentation [...] so that the HTTP context [...] is available on
  AppSec traces"* (`ddlambda.go:363`).  It gives up only if the extension's file does
  not exist (`ddlambda.go:380`), the extension manager on any error
  (`extension.go:95`): if the file cannot be looked at, the API is redirected and
  neither listener works with the extension (`RedirectionIsServed`).
* `validateHandler` is to *"detect the handler follows the right format"*
  (`wrap_handler.go:104`), and others are passed *"back to AWS SDK"* (line 47).  A
  first argument that implements `context.Context` without being it, and a variadic
  last argument, are accepted, and `Call` then panics (line 161).  `CallFitsHandler`
  says that these are the only two.
* *"Batcher aggregates metrics with common properties, (metric name, tags, type
  etc)"* (`batcher.go:19`).  Tag lists such as `["a", "b"]` and `["a:b"]` have the same
  key (`batcher.go:77`), and their metrics are sent as one series with the tags of
  the first (`GroupedUnlessCollision`).
* When X-Ray traces are merged but the context has no X-Ray header, the merged
  context has an empty parent (`trace/context.go:76-81`), cannot be converted,
  and the span loses the event's trace.  `TracePrecedence` states this case as
  the code has it, and `EndReportsSpan` names it as an exception.
* A single identifier in the event that is no number or zero, or a priority that is
  no number, loses the whole context, also when the extension's answer could be
  read (`trace/context.go:302`).
* With a trace in the event and another in the extension's answer, which a custom
  `TraceContextExtractor` makes possible, the span is in the event's and the end
  request names the extension's (`extension.go:185`).  With a trace in the event
  and no parent, the span has the parent of the extension's trace.
* With universal instrumentation off each listener's manager asks `/hello` for
  itself (`extension.go:103`).  If the extension answers the second and not the
  first, the second works with the extension through a tracer that writes to the
  log (`TracerAgrees`).
* The `EnhancedMetrics` field of `ddlambda.Config` is never copied either.  With
  the defaults (15 s between flushes, 30 s per interval, a limit of 4) the breaker
  can hardly ever open.
* `canSendMetrics` is true whenever FIPS mode is off, with or without a key.
* In FIPS mode without an agent the enhanced metric `errors` is never submitted,
  because `HandlerFinished` asks for a processor first; `EnhancedMetricsAgree`
  therefore says "at most one".
* A decryption that fails is never tried again; all later requests carry an empty
  key.

## 7. Not modelled

* Output (`logger`) and constants (`version`, build flags): no behaviour.
* The bit arithmetic and hexadecimal digits of X-Ray identifiers: a conversion
  succeeds or not.
* The handlers `nil` and of a function value that is nil, and results that are nil
  pointers of an error type.
* The text of error headers and stack traces, the JSON layout of requests, time
  stamps of points: no property is about their wording.
* Sites and URLs, extractors, tracer options and log level of the configuration:
  passed on as they are.
* `Flush` of the extension manager, a request of local tests that changes no
  state of the library.
* Real time: intervals and timeouts expire at any moment.
* Integration tests, sample functions and scripts.

## 8. Plan

Written in this order, the most important first: `Processor` with
`CircuitBreaker` and `MetricsPipe`, their proofs, `Invocation`, `Tracing`,
`ApiClient`, `Batcher`, `Setup`, `Startup`, then the proofs of `Startup`,
`Invocation`, `Tracing`, of the last flush, the breaker and `Batcher`.  What is
left is a breaker with a clock that refines `CircuitBreaker`, to say when the
default settings can open it.
