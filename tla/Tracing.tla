------------------------------ MODULE Tracing -------------------------------
(***************************************************************************)
(* The trace listener (internal/trace/listener.go, context.go) and the     *)
(* extension's invocation routes (internal/extension/extension.go) over    *)
(* the invocations of one process.  For each invocation the listener asks  *)
(* the extension for a trace context, combines it with the event's headers *)
(* and the X-Ray context into a root trace context, starts the function    *)
(* execution span under it, and afterwards finishes the span and reports   *)
(* the invocation to the extension.  The handler may ask for headers that  *)
(* carry the trace on to the function it calls (GetTraceHeaders of         *)
(* ddlambda.go), which may be this function again.                         *)
(*                                                                         *)
(* The span and the tracer belong to the package, so that the listeners of *)
(* one process (one for each wrapped handler, and one for each call of     *)
(* InvokeDryRun) share them.                                               *)
(*                                                                         *)
(* An identifier is a pair of its origin and the invocation it is made for;*)
(* invocation, context, event and span have the same number.  X-Ray's      *)
(* identifiers appear as Datadog's that they are converted to, or not at   *)
(* all if they cannot be converted; that none is zero and that nobody else *)
(* sends those of this invocation is assumed.  Headers are text: one that  *)
(* cannot be read as an identifier (no number, or zero) has the origin     *)
(* "unusable", and a priority that is no number is "unusable".  The origin *)
(* header, the tags of spans that are copied from the Lambda context and   *)
(* the text of error headers are left out.                                 *)
(***************************************************************************)
EXTENDS Naturals, Sequences, FiniteSets

CONSTANTS
  Listeners,        \* the trace listeners of the process
  MixedTracing,     \* listeners that trace and listeners that do not may share it
  MaxInvocations,   \* bound of the model
  MaxUnreadable     \* bound of the model: headers of an invocation that cannot be read

ASSUME TracingAssumption ==
  /\ Listeners # {} /\ IsFiniteSet(Listeners)
  /\ MixedTracing \in BOOLEAN
  /\ MaxInvocations \in Nat \ {0}
  /\ MaxUnreadable \in Nat

VARIABLES
  process,                \* what the process finds around it
  settings,               \* what each listener was made with
  tracer,                 \* the package's tracer: how it has been started
  invocation,             \* number of the current or last invocation
  listener,               \* the listener of that invocation
  at,                     \* how far the invocation has come
  event,                  \* trace headers of the event
  lambda,                 \* whether the context has a LambdaContext, and its X-Ray header
  ctx,                    \* the values the listener has put in the context
  failed,                 \* whether the handler returned an error
  functionExecutionSpan,  \* the package variable
  subsegment,             \* metadata of this invocation's dummy X-Ray subsegment
  outgoing,               \* trace headers the handler has sent on
  finishes,               \* history: how often each span has been finished
  sent                    \* requests sent to the extension for this invocation

listenerVars == <<process, settings, tracer>>
inputVars    == <<invocation, listener, event, lambda>>
spanVars     == <<functionExecutionSpan, subsegment, finishes>>
vars == <<listenerVars, inputVars, at, ctx, failed, spanVars, outgoing, sent>>

Invocations == 1 .. MaxInvocations

(* An absent header or context value.                                      *)
None == <<>>

NoContext == [trace |-> None, parent |-> None, priority |-> ""]

FreshCtx == [trace |-> None, parent |-> None, priority |-> "", span |-> None,
             response |-> None]

NoSpan == [of |-> 0, trace |-> None, parent |-> None, priority |-> "",
           resource |-> "", source |-> ""]

This == settings[listener]

-----------------------------------------------------------------------------
(* checkAgentRunning, when the listener's extension manager is built: the  *)
(* extension's file is looked for, and only without universal              *)
(* instrumentation must the extension also answer.                         *)
IsExtensionRunning(answers) == process.installed /\ (process.universal \/ answers)

(* MakeListener of a configuration; universal instrumentation comes from   *)
(* the environment alone.                                                  *)
NotMade == [made |-> FALSE]

MakeListener(traced, merge, answers) ==
  [made |-> TRUE, ddTraceEnabled |-> traced, mergeXrayTraces |-> merge,
   universalInstrumentation |-> process.universal,
   extensionRunning |-> IsExtensionRunning(answers)]

Made(l) == settings[l].made

TalksToExtension(l) == l.universalInstrumentation /\ l.extensionRunning

(* initTracer: without an extension the tracer writes its spans to the log.*)
(* A variant would decide by the answer of the extension alone.            *)
ModeByAnswer(running, answers) == IF answers THEN "extension" ELSE "log"
ModeByExtension(running, answers) == IF running THEN "extension" ELSE "log"

(* A listener that traces starts the package's tracer if none has.         *)
NewListener(l) ==
  /\ ~Made(l)
  /\ \E traced, merge, answers \in BOOLEAN :
       /\ MixedTracing \/ \A m \in Listeners : Made(m) => settings[m].ddTraceEnabled = traced
       /\ settings' = [settings EXCEPT ![l] = MakeListener(traced, merge, answers)]
       /\ tracer' = IF traced /\ tracer = "none"
                      THEN ModeByExtension(IsExtensionRunning(answers), answers)
                      ELSE tracer
  /\ UNCHANGED process

-----------------------------------------------------------------------------
(* getTraceContext: each field from the event's headers, or else from what *)
(* the extension answered; trace and parent must be there, a missing       *)
(* priority is sampler-keep.  ContextFirst would look the other way round. *)
ContextFirst(header, value, absent) == IF value # absent THEN value ELSE header
HeaderFirst(header, value, absent) == IF header # absent THEN header ELSE value

getTraceContext(headers, c) ==
  LET trace    == HeaderFirst(headers.trace, c.trace, None)
      parent   == HeaderFirst(headers.parent, c.parent, None)
      priority == HeaderFirst(headers.priority, c.priority, "")
  IN  IF trace = None \/ parent = None
        THEN NoContext
        ELSE [trace |-> trace, parent |-> parent,
              priority |-> IF priority = "" THEN "1" ELSE priority]

(* convertXrayTraceContextFromLambdaContext: nothing if there is no X-Ray  *)
(* header, or if one of its identifiers has the wrong form or length or is *)
(* no hexadecimal number.  The variant mistakes the sampling decision.     *)
Undecided(decision) == "0"
convertXRaySamplingDecision(decision) == IF decision = "sampled" THEN "2" ELSE "-1"

xrayTraceContext(n) ==
  IF lambda.xray = "unusable"
    THEN NoContext
    ELSE [trace |-> <<"xray", n>>, parent |-> <<"xray", n>>,
          priority |-> convertXRaySamplingDecision(lambda.xray)]

(* contextWithRootTraceContext.  A merged context has the X-Ray parent,    *)
(* also when there is none.                                                *)
RootTraceContext(l, datadog, x) ==
  IF ~l.mergeXrayTraces THEN datadog
  ELSE IF datadog = NoContext THEN x
  ELSE [datadog EXCEPT !.parent = x.parent]

(* createDummySubsegmentForXrayConverter: where both contexts are known,   *)
(* X-Ray's trace is told of Datadog's; the variant tells it of the root's. *)
TellsRoot(datadog, root) == root
TellsDatadog(datadog, root) == datadog

DummySubsegment(datadog, x, root) ==
  IF datadog # NoContext /\ x # NoContext THEN TellsDatadog(datadog, root) ELSE NoContext

(* ConvertCurrentXrayTraceContext: an X-Ray segment that the handler has   *)
(* opened is the parent for what it calls.                                 *)
ConvertCurrentXrayTraceContext(n, inSegment) ==
  LET x == xrayTraceContext(n)
  IN  IF x # NoContext /\ inSegment THEN [x EXCEPT !.parent = <<"segment", n>>] ELSE x

(* startFunctionExecutionSpan: the span has the root trace context as its  *)
(* parent if ConvertTraceContextToSpanContext can read it, that is, if its *)
(* trace, its parent and its priority are there and are numbers, and the   *)
(* identifiers not zero; otherwise it is the root of a trace of its own.   *)
(* The extension drops a span named as serverless in favour of its own,    *)
(* and the Forwarder drops one whose parent's source is X-Ray.             *)
Usable(id) == id # None /\ id[1] # "unusable"

Convertible(root) ==
  Usable(root.trace) /\ Usable(root.parent) /\ root.priority # "unusable"

NamedByInstrumentation(l) == l.universalInstrumentation
IsDdServerlessSpan(l) == TalksToExtension(l)

StartedSpan(l, root, n) ==
  [of       |-> n,
   trace    |-> IF Convertible(root) THEN root.trace ELSE <<"span", n>>,
   parent   |-> IF Convertible(root) THEN root.parent ELSE None,
   priority |-> IF Convertible(root) THEN root.priority ELSE "1",
   resource |-> IF IsDdServerlessSpan(l) THEN "serverless" ELSE "function",
   source   |-> IF Convertible(root) /\ l.mergeXrayTraces THEN "xray" ELSE ""]

-----------------------------------------------------------------------------
Init ==
  /\ process \in [universal : BOOLEAN, installed : BOOLEAN, priorityReadable : BOOLEAN]
  /\ settings = [l \in Listeners |-> NotMade] /\ tracer = "none"
  /\ invocation = 0 /\ at = "idle"
  /\ listener \in Listeners
  /\ event = NoContext /\ lambda = [context |-> FALSE, xray |-> "unusable"]
  /\ ctx = FreshCtx /\ failed = FALSE
  /\ functionExecutionSpan = NoSpan /\ subsegment = NoContext
  /\ outgoing = NoContext
  /\ finishes = [n \in Invocations |-> 0]
  /\ sent = <<>>

(* WrapFunction or WrapLambdaHandlerInterface.                             *)
Wrap(l) ==
  /\ at = "idle" /\ NewListener(l)
  /\ UNCHANGED <<inputVars, at, ctx, failed, spanVars, outgoing, sent>>

(* The wrapper is called with a context.                                   *)
Begin(l) ==
  /\ at = "idle" /\ invocation < MaxInvocations
  /\ invocation' = invocation + 1
  /\ listener' = l
  /\ ctx' = FreshCtx
  /\ sent' = <<>>
  /\ at' = "starting"
  /\ failed' = FALSE
  /\ subsegment' = NoContext
  /\ UNCHANGED <<functionExecutionSpan, finishes, outgoing>>

(* The trace headers of an event or an answer that cannot be read.         *)
UnreadableHeaders(c) ==
  {field \in {"trace", "parent"} : c[field] # None /\ ~Usable(c[field])}
    \cup {field \in {"priority"} : c[field] = "unusable"}

(* An invocation arrives. The extractor of trace headers, which may be the *)
(* user's, finds each of them, readable or not, or finds none; or the      *)
(* event has the headers that the handler last sent on.                    *)
Events(n) ==
  {outgoing} \cup
    {found \in [trace    : {None, <<"event", n>>, <<"unusable", n>>},
                parent   : {None, <<"event", n>>, <<"unusable", n>>},
                priority : {"", "2", "unusable"}] :
       Cardinality(UnreadableHeaders(found)) <= MaxUnreadable}

Invoke(l) ==
  /\ Made(l) /\ Begin(l)
  /\ event' \in Events(invocation')
  /\ lambda' \in [context : {TRUE}, xray : {"unusable", "sampled", "unsampled"}]
  /\ UNCHANGED listenerVars

(* InvokeDryRun wraps the callback and calls the wrapper with an empty     *)
(* event and an empty context.                                             *)
InvokeDryRun(l) ==
  /\ NewListener(l) /\ Begin(l)
  /\ event' = NoContext
  /\ lambda' = [context |-> FALSE, xray |-> "unusable"]

(* HandlerStarted without tracing changes nothing.                         *)
NotTraced ==
  /\ at = "starting" /\ ~This.ddTraceEnabled
  /\ at' = "running"
  /\ UNCHANGED <<listenerVars, inputVars, ctx, failed, spanVars, outgoing, sent>>

(* What the extension answers: its trace may be the event's or any other,  *)
(* any of the headers may be missing or unreadable, and all are missing if *)
(* the request failed.                                                     *)
Answers(n) ==
  {answer \in [trace    : {None, event.trace, <<"extension", n>>, <<"unusable", n>>},
               parent   : {None, <<"extension", n>>, <<"unusable", n>>},
               priority : {"", "1", "unusable"}] :
     Cardinality(UnreadableHeaders(event)) + Cardinality(UnreadableHeaders(answer)) <= MaxUnreadable}

(* The parent the listener takes from an answer: the trace's id where none *)
(* is given.                                                               *)
ParentAsGiven(answer) == answer.parent
ParentOf(answer) == IF answer.parent # None THEN answer.parent ELSE answer.trace

(* SendStartInvocationRequest; a request that fails adds nothing to ctx.   *)
SendStartInvocationRequest ==
  /\ at = "starting" /\ This.ddTraceEnabled /\ TalksToExtension(This)
  /\ \E answer \in Answers(invocation) :
       ctx' = [ctx EXCEPT !.trace = answer.trace, !.parent = ParentOf(answer),
                          !.priority = answer.priority]
  /\ sent' = Append(sent, [route |-> "start", of |-> invocation])
  /\ at' = "told"
  /\ UNCHANGED <<listenerVars, inputVars, failed, spanVars, outgoing>>

(* The rest of HandlerStarted: the root trace context, then the span.      *)
Starting ==
  \/ at = "told"
  \/ at = "starting" /\ This.ddTraceEnabled /\ ~TalksToExtension(This)

StartFunctionExecutionSpan ==
  /\ Starting /\ lambda.context
  /\ LET datadog == getTraceContext(event, ctx)
         x       == xrayTraceContext(invocation)
         root    == RootTraceContext(This, datadog, x)
     IN  /\ functionExecutionSpan' = StartedSpan(This, root, invocation)
         /\ subsegment' = DummySubsegment(datadog, x, root)
  /\ ctx' = [ctx EXCEPT !.span = <<"span", invocation>>]
  /\ at' = "running"
  /\ UNCHANGED <<listenerVars, inputVars, failed, finishes, outgoing, sent>>

(* startFunctionExecutionSpan reads the function's ARN from the Lambda     *)
(* context without asking whether there is one.                            *)
PanicWithoutLambdaContext ==
  /\ Starting /\ ~lambda.context
  /\ at' = "panicked"
  /\ UNCHANGED <<listenerVars, inputVars, ctx, failed, spanVars, outgoing, sent>>

-----------------------------------------------------------------------------
(* The handler runs.  GetTraceHeaders or AddTraceHeaders.                  *)
GetTraceHeaders ==
  /\ at = "running"
  /\ \E inSegment \in BOOLEAN :
       outgoing' = ConvertCurrentXrayTraceContext(invocation, inSegment)
  /\ UNCHANGED <<listenerVars, inputVars, at, ctx, failed, spanVars, sent>>

Return(response, err) ==
  /\ at = "running"
  /\ ctx' = [ctx EXCEPT !.response = response]
  /\ failed' = err
  /\ at' = "returned"
  /\ UNCHANGED <<listenerVars, inputVars, spanVars, outgoing, sent>>

(* callHandler of WrapFunction returns, and its result goes to the context;*)
(* DatadogHandler.Invoke leaves none there.                                *)
HandlerReturns ==
  \E response \in {None, <<"response", invocation>>}, err \in BOOLEAN : Return(response, err)

DatadogHandlerReturns == \E err \in BOOLEAN : Return(None, err)

(* What the headers say of the sampling priority of a span: nothing if its *)
(* context has no method to tell it, neither its own nor one that can be   *)
(* found by reflection.                                                    *)
getSamplingPriority(span) == IF process.priorityReadable THEN span.priority ELSE ""

(* The headers and the body of the end-invocation request: what the        *)
(* extension gave at the start, or else what the span says.                *)
EndRequest(c, span) ==
  LET given == c.trace # None
  IN  [route |-> "end", of |-> invocation, response |-> c.response, error |-> failed,
       span     |-> IF given THEN c.span ELSE <<"span", span.of>>,
       trace    |-> IF given THEN c.trace ELSE span.trace,
       parent   |-> IF given THEN c.parent ELSE None,
       priority |-> IF given THEN c.priority ELSE getSamplingPriority(span)]

(* HandlerFinished looks only at the package variable to tell whether      *)
(* there is a span to finish, and flushes the tracer.  The variants do not *)
(* look at all, or finish only the spans they report to the extension.     *)
AlwaysFinishes == TRUE
FinishesReported == functionExecutionSpan # NoSpan /\ TalksToExtension(This)
FinishesSpan == functionExecutionSpan # NoSpan

HandlerFinished ==
  /\ at = "returned"
  /\ IF FinishesSpan
       THEN /\ finishes' = [n \in Invocations |->
                 IF n = functionExecutionSpan.of THEN finishes[n] + 1 ELSE finishes[n]]
            /\ sent' = IF TalksToExtension(This)
                         THEN Append(sent, EndRequest(ctx, functionExecutionSpan))
                         ELSE sent
       ELSE UNCHANGED <<finishes, sent>>
  /\ at' = "idle"
  /\ UNCHANGED <<listenerVars, inputVars, ctx, failed, functionExecutionSpan,
                 subsegment, outgoing>>

Over == (at = "idle" /\ invocation = MaxInvocations) \/ at = "panicked"

Done == Over /\ UNCHANGED vars

Next ==
  \/ \E l \in Listeners : Wrap(l) \/ Invoke(l) \/ InvokeDryRun(l)
  \/ NotTraced \/ SendStartInvocationRequest \/ StartFunctionExecutionSpan
  \/ PanicWithoutLambdaContext \/ GetTraceHeaders \/ HandlerReturns
  \/ DatadogHandlerReturns \/ HandlerFinished \/ Done

Spec == Init /\ [][Next]_vars

-----------------------------------------------------------------------------
Ids == {None} \cup ({"event", "extension", "xray", "segment", "span", "unusable"} \X Invocations)
Contexts == [trace : Ids, parent : Ids, priority : {"", "-1", "1", "2", "unusable"}]

(* Every variable has its type. *)
TypeOK ==
  /\ \A l \in Listeners : Made(l) =>
       settings[l].universalInstrumentation \in BOOLEAN /\ settings[l].ddTraceEnabled \in BOOLEAN
  /\ tracer \in {"none", "log", "extension"}
  /\ invocation \in 0 .. MaxInvocations /\ (invocation > 0 => Made(listener))
  /\ at \in {"idle", "starting", "told", "running", "returned", "panicked"}
  /\ {event, subsegment, outgoing} \subseteq Contexts
  /\ [trace |-> ctx.trace, parent |-> ctx.parent, priority |-> ctx.priority] \in Contexts
  /\ ctx.span \in Ids /\ ctx.response \in {None} \cup ({"response"} \X Invocations)
  /\ functionExecutionSpan.of \in 0 .. MaxInvocations
  /\ functionExecutionSpan.trace \in Ids /\ functionExecutionSpan.parent \in Ids
  /\ finishes \in [Invocations -> Nat]
  /\ Len(sent) <= 2 /\ \A i \in DOMAIN sent : sent[i].of \in Invocations

Traced == at \in {"running", "returned"} /\ This.ddTraceEnabled

(* Every request of an end follows the start of the same invocation, a     *)
(* start is followed by its end when the invocation is over, and the span  *)
(* is left to the extension to replace only if the extension has been told *)
(* of the invocation.                                                      *)
StartThenEnd ==
  /\ \A i \in DOMAIN sent :
       /\ sent[i].of = invocation
       /\ sent[i].route = IF i = 1 THEN "start" ELSE "end"
  /\ at = "idle" => Len(sent) \in {0, 2}
  /\ Traced => (functionExecutionSpan.resource = "serverless") = (sent # <<>>)

(* The package's tracer is started once, by whichever listener comes       *)
(* first, from what that one knows of the extension                        *)
(* (trace/listener.go:68,80). A listener that traces finds the tracer      *)
(* writing to the extension exactly if it works with the extension itself. *)
(* There is one way to fail: universal instrumentation is off, so that     *)
(* each listener's manager asks /hello for itself (extension.go:103-116),  *)
(* and the extension answered one and not the other.                       *)
Traces(l) == Made(l) /\ settings[l].ddTraceEnabled

TracerAgrees ==
  \A l \in Listeners : Traces(l) =>
    /\ tracer # "none"
    /\ \/ settings[l].extensionRunning <=> tracer = "extension"
       \/ /\ process.installed /\ ~process.universal
          /\ \E m \in Listeners :
               Traces(m) /\ (settings[m].extensionRunning <=> tracer = "extension")

(* Some trace header of the event or of the answer cannot be read, or      *)
(* traces are to be merged and there is no X-Ray header to merge with.     *)
Unreadable ==
  \/ UnreadableHeaders(event) \cup UnreadableHeaders(ctx) # {}
  \/ This.mergeXrayTraces /\ lambda.xray = "unusable"

(* The invocation that is reported to the extension is the one the span    *)
(* describes (extension.go:185-203, listener.go:107-113): the span in the  *)
(* end-invocation request is this invocation's, and the trace is the       *)
(* span's, although one is taken from the extension's answer and the other *)
(* may come from the event or from X-Ray. They part only if the extension  *)
(* answered another trace than the event's, or if something made the span  *)
(* begin a trace of its own.                                               *)
EndReportsSpan ==
  \A i \in DOMAIN sent : sent[i].route = "end" =>
    /\ sent[i].span = <<"span", invocation>>
    /\ sent[i].trace # functionExecutionSpan.trace =>
         ctx.trace # None /\ (event.trace \notin {None, ctx.trace} \/ Unreadable)

(* What the span of the invocation has joined, if anything. *)
SpanJoins(trace, parent, priority) ==
  /\ functionExecutionSpan.trace = trace
  /\ functionExecutionSpan.parent = parent
  /\ functionExecutionSpan.priority = priority

SpanJoinsNothing == SpanJoins(<<"span", invocation>>, None, "1")

SpanJoinsXRay ==
  IF This.mergeXrayTraces /\ lambda.xray # "unusable"
    THEN SpanJoins(<<"xray", invocation>>, <<"xray", invocation>>,
                   IF lambda.xray = "sampled" THEN "2" ELSE "-1")
    ELSE SpanJoinsNothing

SpanJoinsComplete(trace, parent) ==
  LET merged   == This.mergeXrayTraces
      priority == IF event.priority # "" THEN event.priority ELSE ctx.priority
  IN  IF /\ Usable(trace) /\ priority # "unusable"
         /\ IF merged THEN lambda.xray # "unusable" ELSE Usable(parent)
        THEN SpanJoins(trace, IF merged THEN <<"xray", invocation>> ELSE parent,
                       IF priority = "" THEN "1" ELSE priority)
        ELSE SpanJoinsNothing

SpanFollows(trace, parent) ==
  IF trace = None \/ parent = None THEN SpanJoinsXRay ELSE SpanJoinsComplete(trace, parent)

(* The precedence of the sources of a trace (context.go:51-82,131-176). A  *)
(* trace and a parent in the event are the span's, whatever the extension  *)
(* answered; if the event has neither, those that the extension answered   *)
(* are; if the event has one of the two, the extension completes it, so    *)
(* that the span's trace and parent are of two sources. If that is not a   *)
(* trace and a parent, X-Ray's are used where it is merged; where it is    *)
(* merged with both, the parent is X-Ray's. What cannot be read is lost    *)
(* with the whole context, and nothing else takes its place.               *)
TracePrecedence ==
  Traced =>
    /\ event.trace # None /\ event.parent # None => SpanJoinsComplete(event.trace, event.parent)
    /\ event.trace = None /\ event.parent = None => SpanFollows(ctx.trace, ctx.parent)
    /\ event.trace # None /\ event.parent = None => SpanFollows(event.trace, ctx.parent)
    /\ event.trace = None /\ event.parent # None => SpanFollows(ctx.trace, event.parent)

(* If X-Ray's segment is the span's parent in a trace that came from       *)
(* elsewhere, then the dummy subsegment has placed X-Ray's trace under the *)
(* same trace, and not under itself.  Only a span with that parent is      *)
(* marked for the Forwarder to drop.                                       *)
TracesConnected ==
  Traced =>
    LET span == functionExecutionSpan
        xray == <<"xray", invocation>>
    IN  /\ span.parent = xray /\ span.trace # xray =>
             subsegment.trace = span.trace /\ subsegment.parent \notin {None, xray}
        /\ span.source = "xray" => span.parent = xray

(* A span is finished exactly once, when its invocation is over.           *)
SpanFinishedOnce ==
  \A n \in 1 .. invocation :
    finishes[n] = IF This.ddTraceEnabled /\ (n < invocation \/ at = "idle") THEN 1 ELSE 0

(* The documentation of functionExecutionSpan: it is the span of the       *)
(* current invocation.  It does not hold when listeners that trace and     *)
(* listeners that do not serve the same process.                           *)
SpanIsCurrent ==
  at \in {"running", "returned"} => functionExecutionSpan.of \in {0, invocation}

(* InvokeDryRun runs the callback it is given, as its documentation says.  *)
(* It does not if the configuration traces, which is the default.          *)
DryRunCompletes == at # "panicked"

=============================================================================
