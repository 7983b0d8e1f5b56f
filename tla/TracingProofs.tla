---------------------------- MODULE TracingProofs ----------------------------
(***************************************************************************)
(* Theorems about the trace listeners of a process, for every number of    *)
(* listeners and invocations: the span of an invocation, the trace it      *)
(* belongs to, and the requests to the extension.  The invariant describes *)
(* every process.  Three theorems, which say so, are about processes whose *)
(* listeners either all trace or all do not; the others hold for all.      *)
(***************************************************************************)
EXTENDS Tracing, TLAPS

Settings ==
  {NotMade} \cup
    [made : {TRUE}, ddTraceEnabled : BOOLEAN, mergeXrayTraces : BOOLEAN,
     universalInstrumentation : {process.universal}, extensionRunning : BOOLEAN]

(* No listener talks to an extension that is not there, with universal     *)
(* instrumentation they agree on whether it is there, and unless they may  *)
(* be mixed, they agree on tracing.                                        *)
SettingsInv ==
  /\ process \in [universal : BOOLEAN, installed : BOOLEAN, priorityReadable : BOOLEAN]
  /\ settings \in [Listeners -> Settings]
  /\ \A l \in Listeners : Made(l) =>
       /\ settings[l].extensionRunning => process.installed
       /\ process.universal => settings[l].extensionRunning = process.installed
  /\ ~MixedTracing => \A l, m \in Listeners : Made(l) /\ Made(m) =>
       settings[l].ddTraceEnabled = settings[m].ddTraceEnabled

(* The tracer of the package suits the listener that has started it.       *)
TracerInv ==
  /\ tracer \in {"none", "log", "extension"}
  /\ \A l \in Listeners : Traces(l) => tracer # "none"
  /\ tracer # "none" =>
       \E m \in Listeners : Traces(m) /\ (settings[m].extensionRunning <=> tracer = "extension")

Talks == This.ddTraceEnabled /\ TalksToExtension(This)

FlowInv ==
  /\ invocation \in 0 .. MaxInvocations /\ listener \in Listeners
  /\ at \in {"idle", "starting", "told", "running", "returned", "panicked"}
  /\ at # "idle" => invocation > 0
  /\ invocation > 0 => Made(listener)
  /\ at = "told" => Talks
  /\ at = "panicked" => This.ddTraceEnabled

(* What the extension has been told of the invocation. *)
StartRequest == [route |-> "start", of |-> invocation]
Told == invocation > 0 /\ at # "starting" /\ Talks

Requests0 == <<>>
Requests1(first) == <<first>>
Requests2(first, second) == <<first, second>>

(* A listener that does not trace reports a span that is not its own.      *)
Misreported ==
  /\ invocation > 0 /\ at = "idle" /\ ~This.ddTraceEnabled
  /\ TalksToExtension(This) /\ functionExecutionSpan # NoSpan

Reported == EndRequest(ctx, functionExecutionSpan)

SentInv ==
  sent = IF Misreported THEN Requests1(Reported)
         ELSE IF ~Told THEN Requests0
         ELSE IF at = "idle" THEN Requests2(StartRequest, Reported)
         ELSE Requests1(StartRequest)

(* No header of an event and no answer of the extension is of the X-Ray    *)
(* context of its own invocation.                                          *)
Foreign(c, n) == c.trace # <<"xray", n>> /\ c.parent # <<"xray", n>>

ContextInv ==
  /\ ctx = [trace |-> ctx.trace, parent |-> ctx.parent, priority |-> ctx.priority,
            span |-> ctx.span, response |-> ctx.response]
  /\ Foreign(event, invocation) /\ Foreign(ctx, invocation)
  /\ \A n \in Nat : n > invocation => Foreign(outgoing, n)
  /\ ctx.trace # None => ctx.parent # None

(* The span is the one that was started for this invocation. *)
Executed == invocation > 0 /\ This.ddTraceEnabled /\ at \in {"running", "returned", "idle"}

Datadog == getTraceContext(event, ctx)
XRay == xrayTraceContext(invocation)
Root == RootTraceContext(This, Datadog, XRay)

SpanInv ==
  /\ Executed =>
       /\ functionExecutionSpan = StartedSpan(This, Root, invocation)
       /\ subsegment = DummySubsegment(Datadog, XRay, Root)
       /\ ctx.span = <<"span", invocation>>
  /\ ~MixedTracing /\ (invocation = 0 \/ ~This.ddTraceEnabled) => functionExecutionSpan = NoSpan

FinishInv ==
  /\ finishes \in [Invocations -> Nat]
  /\ ~MixedTracing => finishes = [n \in Invocations |->
       IF invocation > 0 /\ This.ddTraceEnabled /\ (n < invocation \/ (n = invocation /\ at = "idle"))
         THEN 1 ELSE 0]

IInv == SettingsInv /\ TracerInv /\ FlowInv /\ SentInv /\ ContextInv /\ SpanInv /\ FinishInv

(* Requests are appended one by one. *)
LEMMA AppendFirst == \A first : Append(Requests0, first) = Requests1(first)
BY DEF Requests0, Requests1

(* The same for the second request. *)
LEMMA AppendSecond ==
  \A first, second : Append(Requests1(first), second) = Requests2(first, second)
<1> SUFFICES ASSUME NEW first, NEW second
             PROVE  Append(<<first>>, second) = <<first, second>>
    BY DEF Requests1, Requests2
<1> DEFINE S == {first, second}
<1> DEFINE both == Append(<<first>>, second)
<1>1. <<first>> \in Seq(S) /\ second \in S /\ Len(<<first>>) = 1 /\ <<first>>[1] = first
  OBVIOUS
<1>2. both \in Seq(S) /\ Len(both) = 2 /\ both[1] = first /\ both[2] = second
  BY <1>1
<1> HIDE DEF both
<1>3. both = <<both[1], both[2]>>
  BY <1>2
<1> QED
  BY <1>2, <1>3 DEF both

(* An absent identifier differs from every identifier. *)
LEMMA NoneIsNoId == \A origin, n : None # <<origin, n>>
BY DEF None

(* What the span says stays true as long as its inputs do. *)
LEMMA SpanStays ==
  ASSUME SpanInv, UNCHANGED <<invocation, listener, settings, event, lambda>>,
         UNCHANGED <<functionExecutionSpan, subsegment>>,
         ctx'.trace = ctx.trace, ctx'.parent = ctx.parent, ctx'.priority = ctx.priority,
         ctx'.span = ctx.span, Executed' => Executed
  PROVE  SpanInv'
<1>1. Datadog' = Datadog
  BY DEF Datadog, getTraceContext, HeaderFirst
<1>2. XRay' = XRay
  BY DEF XRay, xrayTraceContext
<1>3. This' = This
  BY DEF This
<1>4. Root' = Root
  BY <1>1, <1>2, <1>3 DEF Root, RootTraceContext
<1>5. StartedSpan(This, Root, invocation)' = StartedSpan(This, Root, invocation)
  BY <1>3, <1>4 DEF StartedSpan, Convertible, IsDdServerlessSpan, TalksToExtension
<1>6. DummySubsegment(Datadog, XRay, Root)' = DummySubsegment(Datadog, XRay, Root)
  BY <1>1, <1>2, <1>4 DEF DummySubsegment, TellsDatadog
<1> QED
  BY <1>3, <1>5, <1>6 DEF SpanInv

(* The span is finished and the invocation reported. *)
LEMMA HandlerFinishedStep ==
  ASSUME IInv, HandlerFinished PROVE IInv'
<1>1. /\ UNCHANGED <<process, settings, tracer, invocation, listener, event, lambda, ctx,
                    failed, functionExecutionSpan, subsegment, outgoing>>
      /\ at = "returned" /\ at' = "idle"
      /\ IF functionExecutionSpan # NoSpan
           THEN /\ finishes' = [n \in Invocations |->
                     IF n = functionExecutionSpan.of THEN finishes[n] + 1 ELSE finishes[n]]
                /\ sent' = IF TalksToExtension(This)
                             THEN Append(sent, EndRequest(ctx, functionExecutionSpan)) ELSE sent
           ELSE UNCHANGED <<finishes, sent>>
  BY DEF HandlerFinished, FinishesSpan, listenerVars, inputVars, spanVars
<1>2. SettingsInv /\ TracerInv /\ FlowInv /\ SentInv /\ ContextInv /\ SpanInv /\ FinishInv
  BY DEF IInv
<1>3. invocation > 0 /\ invocation \in 0 .. MaxInvocations
  BY <1>1, <1>2 DEF FlowInv
<1>4. This.ddTraceEnabled => functionExecutionSpan.of = invocation /\ functionExecutionSpan # NoSpan
  <2>1. StartedSpan(This, Root, invocation).of = invocation
    BY DEF StartedSpan
  <2>2. NoSpan.of = 0
    BY DEF NoSpan
  <2> QED
    BY <1>1, <1>2, <1>3, <2>1, <2>2 DEF SpanInv, Executed
<1>5. ~MixedTracing /\ ~This.ddTraceEnabled => functionExecutionSpan = NoSpan
  BY <1>2 DEF SpanInv
<1>6. SettingsInv'
  BY <1>1, <1>2 DEF SettingsInv, Settings, Made
<1>7. TracerInv'
  BY <1>1, <1>2 DEF TracerInv, Traces, Made
<1>8. FlowInv'
  BY <1>1, <1>2 DEF FlowInv, Made
<1>9. SentInv'
  <2>1. Reported' = Reported
    BY <1>1 DEF Reported, EndRequest, getSamplingPriority
  <2>2. /\ StartRequest' = StartRequest /\ Told' = Talks /\ Told = Talks /\ ~Misreported
        /\ Misreported' <=> ~This.ddTraceEnabled /\ TalksToExtension(This)
                             /\ functionExecutionSpan # NoSpan
    BY <1>1, <1>3 DEF StartRequest, Told, Talks, This, Misreported, TalksToExtension
  <2>3. CASE Talks
    <3>1. sent = Requests1(StartRequest)
      BY <1>1, <1>2, <2>2, <2>3 DEF SentInv
    <3>2. sent' = Append(sent, Reported)
      BY <1>1, <1>4, <2>3 DEF Talks, Reported
    <3>3. ~Misreported'
      BY <2>2, <2>3 DEF Talks
    <3> QED
      BY <1>1, <2>1, <2>2, <2>3, <3>1, <3>2, <3>3, AppendSecond DEF SentInv
  <2>4. CASE ~Talks
    <3>1. sent = Requests0
      BY <1>2, <2>2, <2>4 DEF SentInv
    <3>2. CASE Misreported'
      <4>1. sent' = Append(sent, Reported)
        BY <1>1, <2>2, <3>2 DEF Reported
      <4> QED
        BY <2>1, <3>1, <3>2, <4>1, AppendFirst DEF SentInv
    <3>3. CASE ~Misreported'
      <4>1. sent' = sent
        BY <1>1, <1>4, <2>2, <2>4, <3>3 DEF Talks
      <4> QED
        BY <2>2, <2>4, <3>1, <3>3, <4>1 DEF SentInv
    <3> QED
      BY <3>2, <3>3
  <2> QED
    BY <2>3, <2>4
<1>10. ContextInv'
  BY <1>1, <1>2 DEF ContextInv, Foreign
<1>11. SpanInv'
  <2>1. /\ ctx'.trace = ctx.trace /\ ctx'.parent = ctx.parent /\ ctx'.priority = ctx.priority
        /\ ctx'.span = ctx.span
    BY <1>1, <1>2 DEF ContextInv
  <2>2. Executed' => Executed
    BY <1>1, <1>2 DEF Executed, FlowInv, This
  <2> QED
    BY <1>1, <1>2, <2>1, <2>2, SpanStays
<1>12. FinishInv'
  <2>1. This' = This
    BY <1>1 DEF This
  <2>2. finishes' \in [Invocations -> Nat]
    BY <1>1, <1>2 DEF FinishInv
  <2>3. ASSUME ~MixedTracing, This.ddTraceEnabled
        PROVE  finishes' = [n \in Invocations |->
                 IF invocation > 0 /\ This.ddTraceEnabled /\ (n < invocation \/ n = invocation)
                   THEN 1 ELSE 0]
    <3>1. finishes' = [n \in Invocations |->
                        IF n = invocation THEN finishes[n] + 1 ELSE finishes[n]]
      BY <1>1, <1>4, <2>3
    <3>2. finishes = [n \in Invocations |-> IF n < invocation THEN 1 ELSE 0]
      BY <1>1, <1>2, <1>3, <2>3 DEF FinishInv
    <3> QED
      BY <1>1, <1>3, <2>3, <3>1, <3>2, TracingAssumption DEF Invocations
  <2>4. ASSUME ~MixedTracing, ~This.ddTraceEnabled
        PROVE  finishes' = [n \in Invocations |-> 0]
    BY <1>1, <1>2, <1>5, <2>4 DEF FinishInv
  <2> QED
    BY <1>1, <2>1, <2>2, <2>3, <2>4 DEF FinishInv
<1> QED
  BY <1>6, <1>7, <1>8, <1>9, <1>10, <1>11, <1>12 DEF IInv

(* HandlerStarted without tracing. *)
LEMMA NotTracedStep ==
  ASSUME IInv, NotTraced PROVE IInv'
<1>1. /\ UNCHANGED <<process, settings, tracer, invocation, listener, event, lambda, ctx,
                    failed, functionExecutionSpan, subsegment, outgoing, finishes, sent>>
      /\ at = "starting" /\ at' = "running" /\ ~This.ddTraceEnabled
  BY DEF NotTraced, listenerVars, inputVars, spanVars
<1>2. SettingsInv /\ TracerInv /\ FlowInv /\ SentInv /\ ContextInv /\ SpanInv /\ FinishInv
  BY DEF IInv
<1>3. SettingsInv'
  BY <1>1, <1>2 DEF SettingsInv, Settings, Made
<1>4. TracerInv'
  BY <1>1, <1>2 DEF TracerInv, Traces, Made
<1>5. FlowInv'
  BY <1>1, <1>2 DEF FlowInv, Made
<1>6. SentInv'
  BY <1>1, <1>2 DEF SentInv, Misreported, Told, Talks, This
<1>7. ContextInv'
  BY <1>1, <1>2 DEF ContextInv, Foreign
<1>8. SpanInv'
  BY <1>1, <1>2 DEF SpanInv, Executed, This
<1>9. FinishInv'
  BY <1>1, <1>2 DEF FinishInv, This, FlowInv
<1> QED
  BY <1>3, <1>4, <1>5, <1>6, <1>7, <1>8, <1>9 DEF IInv

(* The panic for want of a Lambda context. *)
LEMMA PanicWithoutLambdaContextStep ==
  ASSUME IInv, PanicWithoutLambdaContext PROVE IInv'
<1>1. /\ UNCHANGED <<process, settings, tracer, invocation, listener, event, lambda, ctx,
                    failed, functionExecutionSpan, subsegment, outgoing, finishes, sent>>
      /\ (at = "starting" /\ This.ddTraceEnabled /\ ~TalksToExtension(This)) \/ at = "told"
      /\ at' = "panicked"
  BY DEF PanicWithoutLambdaContext, Starting, listenerVars, inputVars, spanVars
<1>2. SettingsInv /\ TracerInv /\ FlowInv /\ SentInv /\ ContextInv /\ SpanInv /\ FinishInv
  BY DEF IInv
<1>3. SettingsInv'
  BY <1>1, <1>2 DEF SettingsInv, Settings, Made
<1>4. TracerInv'
  BY <1>1, <1>2 DEF TracerInv, Traces, Made
<1>5. FlowInv'
  BY <1>1, <1>2 DEF FlowInv, Talks, This, Made
<1>6. SentInv'
  BY <1>1, <1>2 DEF SentInv, Misreported, Told, Talks, This, StartRequest
<1>7. ContextInv'
  BY <1>1, <1>2 DEF ContextInv, Foreign
<1>8. SpanInv'
  BY <1>1, <1>2 DEF SpanInv, Executed, This
<1>9. FinishInv'
  BY <1>1, <1>2 DEF FinishInv, This, FlowInv
<1> QED
  BY <1>3, <1>4, <1>5, <1>6, <1>7, <1>8, <1>9 DEF IInv

(* The handler sends headers on. *)
LEMMA GetTraceHeadersStep ==
  ASSUME IInv, GetTraceHeaders PROVE IInv'
<1>1. /\ UNCHANGED <<process, settings, tracer, invocation, listener, at, event, lambda,
                     ctx,
                    failed, functionExecutionSpan, subsegment, finishes, sent>>
      /\ at = "running"
      /\ \E inSegment \in BOOLEAN :
           outgoing' = ConvertCurrentXrayTraceContext(invocation, inSegment)
  BY DEF GetTraceHeaders, listenerVars, inputVars, spanVars
<1>2. SettingsInv /\ TracerInv /\ FlowInv /\ SentInv /\ ContextInv /\ SpanInv /\ FinishInv
  BY DEF IInv
<1>3. SettingsInv'
  BY <1>1, <1>2 DEF SettingsInv, Settings, Made
<1>4. TracerInv'
  BY <1>1, <1>2 DEF TracerInv, Traces, Made
<1>5. FlowInv'
  BY <1>1, <1>2 DEF FlowInv, Made
<1>6. SentInv'
  BY <1>1, <1>2 DEF SentInv, Misreported, Told, Talks, This, StartRequest
<1>7. ContextInv'
  <2>1. /\ outgoing'.trace \in {None, <<"xray", invocation>>}
        /\ outgoing'.parent \in {None, <<"xray", invocation>>, <<"segment", invocation>>}
    <3>1. PICK inSegment \in BOOLEAN :
            outgoing' = ConvertCurrentXrayTraceContext(invocation, inSegment)
      BY <1>1
    <3>2. \/ outgoing' = XRay
          \/ XRay # NoContext /\ outgoing' = [XRay EXCEPT !.parent = <<"segment", invocation>>]
      BY <3>1 DEF ConvertCurrentXrayTraceContext, XRay
    <3>3. XRay = NoContext
          \/ XRay = [trace |-> <<"xray", invocation>>, parent |-> <<"xray", invocation>>,
                      priority |-> convertXRaySamplingDecision(lambda.xray)]
      BY DEF XRay, xrayTraceContext
    <3>4. CASE XRay = NoContext
      <4>1. outgoing' = NoContext
        BY <3>2, <3>4, Zenon
      <4> QED
        BY <4>1 DEF NoContext
    <3>5. CASE XRay = [trace |-> <<"xray", invocation>>, parent |-> <<"xray", invocation>>,
                       priority |-> convertXRaySamplingDecision(lambda.xray)]
      BY <3>2, <3>5
    <3> QED
      BY <3>3, <3>4, <3>5
  <2>2. ASSUME NEW n \in Nat, n > invocation PROVE Foreign(outgoing', n)
    BY <2>1, <2>2, <1>2, NoneIsNoId DEF Foreign, FlowInv
  <2> QED
    BY <1>1, <1>2, <2>2 DEF ContextInv, Foreign
<1>8. SpanInv'
  <2>1. /\ ctx'.trace = ctx.trace /\ ctx'.parent = ctx.parent /\ ctx'.priority = ctx.priority
        /\ ctx'.span = ctx.span
    BY <1>1, <1>2 DEF ContextInv
  <2>2. Executed' => Executed
    BY <1>1, <1>2 DEF Executed, FlowInv, This
  <2> QED
    BY <1>1, <1>2, <2>1, <2>2, SpanStays
<1>9. FinishInv'
  BY <1>1, <1>2 DEF FinishInv, This
<1> QED
  BY <1>3, <1>4, <1>5, <1>6, <1>7, <1>8, <1>9 DEF IInv

(* The handler returns. *)
LEMMA ReturnStep ==
  ASSUME IInv, NEW response, NEW err, Return(response, err) PROVE IInv'
<1>1. /\ UNCHANGED <<process, settings, tracer, invocation, listener, event, lambda,
                    functionExecutionSpan, subsegment, outgoing, finishes, sent>>
      /\ at = "running" /\ at' = "returned"
      /\ ctx' = [ctx EXCEPT !.response = response]
  BY DEF Return, listenerVars, inputVars, spanVars
<1>2. SettingsInv /\ TracerInv /\ FlowInv /\ SentInv /\ ContextInv /\ SpanInv /\ FinishInv
  BY DEF IInv
<1>3. SettingsInv'
  BY <1>1, <1>2 DEF SettingsInv, Settings, Made
<1>4. TracerInv'
  BY <1>1, <1>2 DEF TracerInv, Traces, Made
<1>5. FlowInv'
  BY <1>1, <1>2 DEF FlowInv, Made
<1>6. SentInv'
  BY <1>1, <1>2 DEF SentInv, Misreported, Told, Talks, This, StartRequest
<1>7. ContextInv'
  BY <1>1, <1>2 DEF ContextInv, Foreign, FlowInv
<1>8. SpanInv'
  <2>1. /\ ctx'.trace = ctx.trace /\ ctx'.parent = ctx.parent /\ ctx'.priority = ctx.priority
        /\ ctx'.span = ctx.span
    BY <1>1, <1>2 DEF ContextInv
  <2>2. Executed' => Executed
    BY <1>1, <1>2 DEF Executed, FlowInv, This
  <2> QED
    BY <1>1, <1>2, <2>1, <2>2, SpanStays
<1>9. FinishInv'
  BY <1>1, <1>2 DEF FinishInv, This, FlowInv
<1> QED
  BY <1>3, <1>4, <1>5, <1>6, <1>7, <1>8, <1>9 DEF IInv

(* The extension is told of the start, and answers. *)
LEMMA SendStartInvocationRequestStep ==
  ASSUME IInv, SendStartInvocationRequest PROVE IInv'
<1>1. /\ UNCHANGED <<process, settings, tracer, invocation, listener, event, lambda, failed,
                    functionExecutionSpan, subsegment, outgoing, finishes>>
      /\ at = "starting" /\ at' = "told" /\ Talks
      /\ \E answer \in Answers(invocation) :
           ctx' = [ctx EXCEPT !.trace = answer.trace, !.parent = ParentOf(answer),
                              !.priority = answer.priority]
      /\ sent' = Append(sent, StartRequest)
  BY DEF SendStartInvocationRequest, Talks, StartRequest, listenerVars, inputVars, spanVars
<1>2. SettingsInv /\ TracerInv /\ FlowInv /\ SentInv /\ ContextInv /\ SpanInv /\ FinishInv
  BY DEF IInv
<1>3. SettingsInv'
  BY <1>1, <1>2, AppendFirst DEF SettingsInv, Settings, Made
<1>4. TracerInv'
  BY <1>1, <1>2, AppendFirst DEF TracerInv, Traces, Made
<1>5. FlowInv'
  BY <1>1, <1>2, AppendFirst DEF FlowInv, Talks, This, Made
<1>6. SentInv'
  BY <1>1, <1>2, AppendFirst DEF SentInv, Misreported, Told, Talks, This, StartRequest, FlowInv
<1>7. ContextInv'
  <2>1. PICK answer \in Answers(invocation) :
          ctx' = [ctx EXCEPT !.trace = answer.trace, !.parent = ParentOf(answer),
                             !.priority = answer.priority]
    BY <1>1
  <2>2. ctx'.trace = answer.trace /\ ctx'.parent = ParentOf(answer)
    BY <1>2, <2>1 DEF ContextInv
  <2>3. /\ answer.trace \in {None, event.trace, <<"extension", invocation>>,
                              <<"unusable", invocation>>}
        /\ answer.parent \in {None, <<"extension", invocation>>, <<"unusable", invocation>>}
    BY DEF Answers
  <2>4. /\ <<"extension", invocation>> # <<"xray", invocation>>
        /\ <<"unusable", invocation>> # <<"xray", invocation>>
    OBVIOUS
  <2>5. Foreign(ctx', invocation)
    BY <1>2, <2>2, <2>3, <2>4, NoneIsNoId DEF ContextInv, Foreign, ParentOf
  <2>6. ctx' = [trace |-> ctx'.trace, parent |-> ctx'.parent, priority |-> ctx'.priority,
                span |-> ctx'.span, response |-> ctx'.response]
    BY <1>2, <2>1 DEF ContextInv
  <2>7. ctx'.trace # None => ctx'.parent # None
    BY <2>2 DEF ParentOf
  <2> QED
    BY <1>1, <1>2, <2>5, <2>6, <2>7 DEF ContextInv, Foreign
<1>8. SpanInv'
  BY <1>1, <1>2, AppendFirst DEF SpanInv, Executed, This
<1>9. FinishInv'
  BY <1>1, <1>2, AppendFirst DEF FinishInv, This, FlowInv
<1> QED
  BY <1>3, <1>4, <1>5, <1>6, <1>7, <1>8, <1>9 DEF IInv

(* The span is started. *)
LEMMA StartFunctionExecutionSpanStep ==
  ASSUME IInv, StartFunctionExecutionSpan PROVE IInv'
<1>1. /\ UNCHANGED <<process, settings, tracer, invocation, listener, event, lambda, failed,
                    outgoing, finishes, sent>>
      /\ (at = "starting" /\ This.ddTraceEnabled /\ ~TalksToExtension(This)) \/ at = "told"
      /\ at' = "running"
      /\ functionExecutionSpan' = StartedSpan(This, Root, invocation)
      /\ subsegment' = DummySubsegment(Datadog, XRay, Root)
      /\ ctx' = [ctx EXCEPT !.span = <<"span", invocation>>]
  BY DEF StartFunctionExecutionSpan, Starting, Root, Datadog, XRay, listenerVars, inputVars,
     spanVars
<1>2. SettingsInv /\ TracerInv /\ FlowInv /\ SentInv /\ ContextInv /\ SpanInv /\ FinishInv
  BY DEF IInv
<1>3. SettingsInv'
  BY <1>1, <1>2 DEF SettingsInv, Settings, Made
<1>4. TracerInv'
  BY <1>1, <1>2 DEF TracerInv, Traces, Made
<1>5. FlowInv'
  BY <1>1, <1>2 DEF FlowInv, Made
<1>6. SentInv'
  BY <1>1, <1>2 DEF SentInv, Misreported, Told, Talks, This, StartRequest
<1>7. ContextInv'
  BY <1>1, <1>2 DEF ContextInv, Foreign, FlowInv
<1>8. SpanInv'
  <2>1. /\ ctx'.trace = ctx.trace /\ ctx'.parent = ctx.parent /\ ctx'.priority = ctx.priority
        /\ ctx'.span = <<"span", invocation>>
    BY <1>1, <1>2 DEF ContextInv
  <2>2. Datadog' = Datadog
    BY <1>1, <2>1 DEF Datadog, getTraceContext, HeaderFirst
  <2>3. XRay' = XRay
    BY <1>1 DEF XRay, xrayTraceContext
  <2>4. This' = This
    BY <1>1 DEF This
  <2>5. Root' = Root
    BY <2>2, <2>3, <2>4 DEF Root, RootTraceContext
  <2>6. StartedSpan(This, Root, invocation)' = StartedSpan(This, Root, invocation)
    BY <1>1, <2>4, <2>5 DEF StartedSpan, Convertible, IsDdServerlessSpan, TalksToExtension
  <2>7. DummySubsegment(Datadog, XRay, Root)' = DummySubsegment(Datadog, XRay, Root)
    BY <2>2, <2>3, <2>5 DEF DummySubsegment, TellsDatadog
  <2>8. invocation > 0 /\ This.ddTraceEnabled
    BY <1>1, <1>2 DEF FlowInv, Talks
  <2> QED
    BY <1>1, <2>1, <2>4, <2>6, <2>7, <2>8 DEF SpanInv
<1>9. FinishInv'
  BY <1>1, <1>2 DEF FinishInv, This, FlowInv
<1> QED
  BY <1>3, <1>4, <1>5, <1>6, <1>7, <1>8, <1>9 DEF IInv

(* A new listener agrees with the others, and the tracer serves it. *)
LEMMA NewListenerStep ==
  ASSUME SettingsInv, TracerInv, NEW l \in Listeners, NewListener(l)
  PROVE  /\ SettingsInv' /\ TracerInv'
         /\ settings'[l].made
         /\ \A m \in Listeners : Made(m) => m # l /\ settings'[m] = settings[m]
         /\ ~MixedTracing => \A m \in Listeners : Made(m) =>
              settings'[l].ddTraceEnabled = settings[m].ddTraceEnabled
<1>1. PICK traced \in BOOLEAN, merge \in BOOLEAN, answers \in BOOLEAN :
        /\ MixedTracing \/ \A m \in Listeners : Made(m) => settings[m].ddTraceEnabled = traced
        /\ settings' = [settings EXCEPT ![l] = MakeListener(traced, merge, answers)]
        /\ tracer' = IF traced /\ tracer = "none"
                       THEN ModeByExtension(IsExtensionRunning(answers), answers)
                       ELSE tracer
  BY DEF NewListener
<1>2. UNCHANGED process /\ ~Made(l)
  BY DEF NewListener
<1> DEFINE new == MakeListener(traced, merge, answers)
<1>3. /\ new \in Settings /\ new.made /\ new.ddTraceEnabled = traced
      /\ new.extensionRunning = IsExtensionRunning(answers)
      /\ new.universalInstrumentation = process.universal
      /\ IsExtensionRunning(answers) \in BOOLEAN
      /\ IsExtensionRunning(answers) => process.installed
      /\ process.universal => IsExtensionRunning(answers) = process.installed
  BY <1>2 DEF MakeListener, Settings, IsExtensionRunning, SettingsInv
<1> HIDE DEF new
<1>4. /\ settings' \in [Listeners -> Settings] /\ settings'[l] = new
      /\ \A m \in Listeners : m # l => settings'[m] = settings[m]
  BY <1>1, <1>3 DEF SettingsInv, new
<1>5. \A m \in Listeners : Made(m) => m # l /\ settings'[m] = settings[m]
  BY <1>2, <1>4
<1>6. SettingsInv'
  <2>1. settings' \in [Listeners -> Settings']
    BY <1>2, <1>4 DEF Settings
  <2>2. \A m \in Listeners : settings'[m].made =>
          /\ settings'[m].extensionRunning => process.installed
          /\ process.universal => settings'[m].extensionRunning = process.installed
    BY <1>3, <1>4 DEF SettingsInv, Made
  <2>3. ~MixedTracing => \A m \in Listeners :
          settings'[m].made => settings'[m].ddTraceEnabled = traced \/ m = l
    BY <1>1, <1>4 DEF Made
  <2>4. ~MixedTracing => \A m, k \in Listeners : settings'[m].made /\ settings'[k].made =>
          settings'[m].ddTraceEnabled = settings'[k].ddTraceEnabled
    BY <1>3, <1>4, <2>3
  <2> QED
    BY <1>2, <2>1, <2>2, <2>4 DEF SettingsInv, Made
<1>7. TracerInv'
  <2>1. tracer' \in {"none", "log", "extension"} /\ (tracer # "none" => tracer' = tracer)
    BY <1>1 DEF TracerInv, ModeByExtension
  <2>2. traced => tracer' # "none"
    BY <1>1 DEF ModeByExtension
  <2>3. \A m \in Listeners : Traces(m)' => tracer' # "none"
    BY <1>3, <1>4, <2>1, <2>2 DEF TracerInv, Traces, Made
  <2>4. ASSUME tracer' # "none"
        PROVE  \E m \in Listeners :
                 Traces(m)' /\ (settings'[m].extensionRunning <=> tracer' = "extension")
    <3>1. CASE tracer # "none"
      <4>1. PICK m \in Listeners :
              Traces(m) /\ (settings[m].extensionRunning <=> tracer = "extension")
        BY <3>1 DEF TracerInv
      <4>2. settings'[m] = settings[m]
        BY <1>5, <4>1 DEF Traces
      <4> QED
        BY <2>1, <3>1, <4>1, <4>2 DEF Traces, Made
    <3>2. CASE tracer = "none"
      <4>1. traced /\ (tracer' = "extension" <=> IsExtensionRunning(answers))
        BY <1>1, <2>4, <3>2 DEF ModeByExtension
      <4>2. Traces(l)'
        BY <1>3, <1>4, <4>1 DEF Traces, Made
      <4> QED
        BY <1>3, <1>4, <4>1, <4>2
    <3> QED
      BY <3>1, <3>2
  <2> QED
    BY <2>1, <2>3, <2>4 DEF TracerInv
<1>8. ~MixedTracing => \A m \in Listeners : Made(m) =>
        settings'[l].ddTraceEnabled = settings[m].ddTraceEnabled
  BY <1>1, <1>3, <1>4
<1> QED
  BY <1>3, <1>4, <1>5, <1>6, <1>7, <1>8

(* A new invocation, of a listener that exists or has just been made. *)
LEMMA BeginStep ==
  ASSUME IInv, NEW l \in Listeners, Begin(l), UNCHANGED process, SettingsInv', TracerInv',
         settings'[l].made,
         ~MixedTracing /\ invocation > 0 => settings'[l].ddTraceEnabled = This.ddTraceEnabled,
         Foreign(event', invocation + 1)
  PROVE  IInv'
<1>1. /\ UNCHANGED <<functionExecutionSpan, finishes, outgoing>>
      /\ at = "idle" /\ at' = "starting" /\ invocation < MaxInvocations
      /\ invocation' = invocation + 1 /\ listener' = l /\ ctx' = FreshCtx /\ sent' = Requests0
  BY DEF Begin, Requests0
<1>2. FlowInv /\ ContextInv /\ SpanInv /\ FinishInv
  BY DEF IInv
<1>3. invocation \in Nat /\ invocation + 1 \in 0 .. MaxInvocations /\ invocation + 1 > 0
  BY <1>1, <1>2, TracingAssumption DEF FlowInv
<1>4. This' = settings'[l]
  BY <1>1 DEF This
<1>5. FlowInv'
  BY <1>1, <1>3 DEF FlowInv, Made
<1>6. SentInv'
  BY <1>1 DEF SentInv, Misreported, Told
<1>7. ContextInv'
  <2>1. Foreign(ctx', invocation + 1) /\ ctx'.trace = None
    BY <1>1, NoneIsNoId DEF Foreign, FreshCtx
  <2>2. ctx' = [trace |-> ctx'.trace, parent |-> ctx'.parent, priority |-> ctx'.priority,
                span |-> ctx'.span, response |-> ctx'.response]
    BY <1>1 DEF FreshCtx
  <2>3. \A n \in Nat : n > invocation + 1 => Foreign(outgoing, n)
    BY <1>2, <1>3 DEF ContextInv
  <2> QED
    BY <1>1, <2>1, <2>2, <2>3 DEF ContextInv, Foreign
<1>8. SpanInv'
  <2>1. invocation > 0 \/ invocation = 0
    BY <1>3
  <2>2. ~MixedTracing /\ ~This'.ddTraceEnabled => functionExecutionSpan = NoSpan
    BY <1>2, <1>4, <2>1 DEF SpanInv
  <2> QED
    BY <1>1, <1>3, <2>2 DEF SpanInv, Executed
<1>9. FinishInv'
  <2>1. CASE invocation = 0
    BY <1>1, <1>2, <2>1 DEF FinishInv, Invocations
  <2>2. CASE invocation > 0
    BY <1>1, <1>2, <1>3, <1>4, <2>2 DEF FinishInv, Invocations
  <2> QED
    BY <1>3, <2>1, <2>2
<1> QED
  BY <1>5, <1>6, <1>7, <1>8, <1>9 DEF IInv

(* An event arrives, or the headers that the handler last sent on. *)
LEMMA InvokeStep ==
  ASSUME IInv, NEW l \in Listeners, Invoke(l) PROVE IInv'
<1>1. Made(l) /\ Begin(l) /\ UNCHANGED <<process, settings, tracer>> /\ event' \in
                                         Events(invocation + 1)
  BY DEF Invoke, Begin, listenerVars
<1>2. SettingsInv' /\ TracerInv'
  BY <1>1 DEF IInv, SettingsInv, TracerInv, Settings, Made, Traces
<1>3. ~MixedTracing /\ invocation > 0 => settings'[l].ddTraceEnabled = This.ddTraceEnabled
  BY <1>1 DEF IInv, SettingsInv, FlowInv, This
<1>4. Foreign(event', invocation + 1)
  <2>1. event' = outgoing
        \/ /\ event'.trace \in {None, <<"event", invocation + 1>>, <<"unusable", invocation + 1>>}
           /\ event'.parent \in {None, <<"event", invocation + 1>>, <<"unusable", invocation + 1>>}
    BY <1>1 DEF Events
  <2>2. Foreign(outgoing, invocation + 1)
    BY DEF IInv, ContextInv, FlowInv
  <2>3. /\ <<"event", invocation + 1>> # <<"xray", invocation + 1>>
        /\ <<"unusable", invocation + 1>> # <<"xray", invocation + 1>>
    OBVIOUS
  <2> QED
    BY <2>1, <2>2, <2>3, NoneIsNoId DEF Foreign
<1> QED
  BY <1>1, <1>2, <1>3, <1>4, BeginStep DEF Made

(* InvokeDryRun makes a listener and begins an invocation. *)
LEMMA InvokeDryRunStep ==
  ASSUME IInv, NEW l \in Listeners, InvokeDryRun(l) PROVE IInv'
<1>1. NewListener(l) /\ Begin(l) /\ event' = NoContext /\ UNCHANGED process
  BY DEF InvokeDryRun, NewListener
<1>2. /\ SettingsInv' /\ TracerInv' /\ settings'[l].made
      /\ ~MixedTracing => \A m \in Listeners : Made(m) =>
           settings'[l].ddTraceEnabled = settings[m].ddTraceEnabled
  BY <1>1, NewListenerStep DEF IInv
<1>3. ~MixedTracing /\ invocation > 0 => settings'[l].ddTraceEnabled = This.ddTraceEnabled
  BY <1>2 DEF IInv, FlowInv, This
<1>4. Foreign(event', invocation + 1)
  BY <1>1, NoneIsNoId DEF Foreign, NoContext
<1> QED
  BY <1>1, <1>2, <1>3, <1>4, BeginStep

(* A listener is made between two invocations; the last one stays as it is. *)
LEMMA WrapStep ==
  ASSUME IInv, NEW l \in Listeners, Wrap(l) PROVE IInv'
<1>1. /\ NewListener(l) /\ at = "idle"
      /\ UNCHANGED <<process, invocation, listener, at, event, lambda, ctx, failed,
                     functionExecutionSpan, subsegment, outgoing, finishes, sent>>
  BY DEF Wrap, NewListener, inputVars, spanVars
<1>2. SettingsInv /\ TracerInv /\ FlowInv /\ SentInv /\ ContextInv /\ SpanInv /\ FinishInv
  BY DEF IInv
<1>3. /\ SettingsInv' /\ TracerInv'
      /\ \A m \in Listeners : Made(m) => settings'[m] = settings[m]
  BY <1>1, <1>2, NewListenerStep
<1>4. invocation > 0 => This' = This
  BY <1>1, <1>2, <1>3 DEF FlowInv, This
<1>5. FlowInv'
  BY <1>1, <1>2, <1>3 DEF FlowInv, Made
<1>6. ContextInv'
  BY <1>1, <1>2 DEF ContextInv, Foreign
<1>7. FinishInv'
  BY <1>1, <1>2, <1>4 DEF FinishInv
<1>8. SentInv'
  <2>1. Told' = Told /\ StartRequest' = StartRequest /\ Misreported' = Misreported
    BY <1>1, <1>4 DEF Told, Talks, StartRequest, Misreported
  <2>2. Reported' = Reported
    BY <1>1 DEF Reported, EndRequest, getSamplingPriority
  <2> QED
    BY <1>1, <1>2, <2>1, <2>2 DEF SentInv
<1>9. SpanInv'
  <2>1. CASE invocation > 0
    <3>1. Datadog' = Datadog /\ XRay' = XRay
      BY <1>1 DEF Datadog, XRay, xrayTraceContext
    <3>2. Root' = Root
      BY <1>4, <2>1, <3>1 DEF Root, RootTraceContext
    <3>3. StartedSpan(This, Root, invocation)' = StartedSpan(This, Root, invocation)
      BY <1>1, <1>4, <2>1, <3>2 DEF StartedSpan, Convertible, IsDdServerlessSpan,
         TalksToExtension
    <3>4. DummySubsegment(Datadog, XRay, Root)' = DummySubsegment(Datadog, XRay, Root)
      BY <3>1, <3>2 DEF DummySubsegment, TellsDatadog
    <3> QED
      BY <1>1, <1>2, <1>4, <2>1, <3>3, <3>4 DEF SpanInv, Executed
  <2>2. CASE ~(invocation > 0)
    <3>1. invocation = 0
      BY <1>2, <2>2, TracingAssumption DEF FlowInv
    <3> QED
      BY <1>1, <1>2, <3>1 DEF SpanInv, Executed
  <2> QED
    BY <2>1, <2>2
<1> QED
  BY <1>3, <1>5, <1>6, <1>7, <1>8, <1>9 DEF IInv

(* A step that changes nothing. *)
LEMMA TracingStutter == ASSUME IInv, UNCHANGED vars PROVE IInv'
<1>1. UNCHANGED <<process, settings, tracer, invocation, listener, at, event, lambda, ctx,
                  failed,
                  functionExecutionSpan, subsegment, outgoing, finishes, sent>>
  BY DEF vars, listenerVars, inputVars, spanVars
<1>2. SettingsInv /\ TracerInv /\ FlowInv /\ SentInv /\ ContextInv /\ SpanInv /\ FinishInv
  BY DEF IInv
<1>3. SettingsInv' /\ TracerInv' /\ FlowInv'
  BY <1>1, <1>2 DEF SettingsInv, TracerInv, FlowInv, Settings, Made, Traces, This,
     Talks, TalksToExtension
<1>4. SentInv'
  <2>1. Told' = Told /\ StartRequest' = StartRequest /\ Misreported' = Misreported
    BY <1>1 DEF Told, Talks, StartRequest, This, Misreported
  <2>2. Reported' = Reported
    BY <1>1 DEF Reported, EndRequest, getSamplingPriority
  <2> QED
    BY <1>1, <1>2, <2>1, <2>2 DEF SentInv
<1>5. ContextInv' /\ FinishInv'
  BY <1>1, <1>2 DEF ContextInv, FinishInv, Foreign, This
<1>6. SpanInv'
  <2>1. Executed' => Executed
    BY <1>1 DEF Executed, This
  <2> QED
    BY <1>1, <1>2, <2>1, SpanStays
<1> QED
  BY <1>3, <1>4, <1>5, <1>6 DEF IInv

(* A new process. *)
LEMMA TracingInit == Init => IInv
<1> SUFFICES ASSUME Init PROVE IInv
    OBVIOUS
<1>1. /\ process \in [universal : BOOLEAN, installed : BOOLEAN, priorityReadable : BOOLEAN]
      /\ settings = [l \in Listeners |-> NotMade] /\ tracer = "none"
      /\ invocation = 0 /\ at = "idle" /\ listener \in Listeners
  BY DEF Init
<1>2. /\ event = NoContext /\ ctx = FreshCtx /\ functionExecutionSpan = NoSpan
      /\ outgoing = NoContext /\ finishes = [n \in Invocations |-> 0] /\ sent = Requests0
  BY DEF Init, Requests0
<1>3. SettingsInv /\ TracerInv
  <2>1. \A l \in Listeners : ~Made(l)
    BY <1>1 DEF Made, NotMade
  <2>2. settings \in [Listeners -> Settings]
    BY <1>1 DEF Settings
  <2> QED
    BY <1>1, <2>1, <2>2 DEF SettingsInv, TracerInv, Traces
<1>4. FlowInv
  BY <1>1, TracingAssumption DEF FlowInv
<1>5. SentInv
  BY <1>1, <1>2 DEF SentInv, Misreported, Told
<1>6. ContextInv
  BY <1>2, NoneIsNoId DEF ContextInv, Foreign, NoContext, FreshCtx
<1>7. SpanInv
  BY <1>1, <1>2 DEF SpanInv, Executed
<1>8. FinishInv
  BY <1>1, <1>2 DEF FinishInv
<1> QED
  BY <1>3, <1>4, <1>5, <1>6, <1>7, <1>8 DEF IInv

(* The invariant is inductive. *)
LEMMA TracingInvariant == Spec => []IInv
<1>1. IInv /\ [Next]_vars => IInv'
  <2> SUFFICES ASSUME IInv, [Next]_vars PROVE IInv'
      OBVIOUS
  <2>1. CASE \E l \in Listeners : Wrap(l) \/ Invoke(l) \/ InvokeDryRun(l)
    BY <2>1, WrapStep, InvokeStep, InvokeDryRunStep
  <2>2. CASE NotTraced \/ SendStartInvocationRequest \/ StartFunctionExecutionSpan
    BY <2>2, NotTracedStep, SendStartInvocationRequestStep, StartFunctionExecutionSpanStep
  <2>3. CASE PanicWithoutLambdaContext \/ GetTraceHeaders \/ HandlerFinished
    BY <2>3, PanicWithoutLambdaContextStep, GetTraceHeadersStep, HandlerFinishedStep
  <2>4. CASE HandlerReturns \/ DatadogHandlerReturns
    BY <2>4, ReturnStep DEF HandlerReturns, DatadogHandlerReturns
  <2>5. CASE Done \/ UNCHANGED vars
    BY <2>5, TracingStutter DEF Done
  <2> QED
    BY <2>1, <2>2, <2>3, <2>4, <2>5 DEF Next
<1> QED
  BY TracingInit, <1>1, PTL DEF Spec

(* A listener that traces, and one in a process where all agree, reports   *)
(* only its own span.                                                      *)
LEMMA OwnSpan ==
  /\ This.ddTraceEnabled => ~Misreported
  /\ IInv /\ ~MixedTracing => ~Misreported
BY DEF IInv, SpanInv, Misreported

(* The requests of an invocation, if the span was its own. *)
LEMMA OwnRequests ==
  ASSUME IInv, ~Misreported
  PROVE  sent = IF ~Told THEN Requests0
                ELSE IF at = "idle" THEN Requests2(StartRequest, Reported)
                ELSE Requests1(StartRequest)
BY DEF IInv, SentInv

-----------------------------------------------------------------------------
(* initTracer is called once, by whichever listener comes first, and its   *)
(* choice suits every listener that traces, unless the extension answered  *)
(* one and not another.                                                    *)
THEOREM TracerAlwaysAgrees == Spec => []TracerAgrees
<1>1. IInv => TracerAgrees
  <2> SUFFICES ASSUME IInv, NEW l \in Listeners, Traces(l),
                      ~(settings[l].extensionRunning <=> tracer = "extension")
               PROVE  /\ process.installed /\ ~process.universal
                      /\ \E m \in Listeners :
                           Traces(m) /\ (settings[m].extensionRunning <=> tracer = "extension")
      BY DEF IInv, TracerInv, TracerAgrees
  <2>1. PICK m \in Listeners :
          Traces(m) /\ (settings[m].extensionRunning <=> tracer = "extension")
    BY DEF IInv, TracerInv
  <2>2. Made(l) /\ Made(m) /\ ~(settings[l].extensionRunning <=> settings[m].extensionRunning)
    BY <2>1 DEF Traces
  <2> QED
    BY <2>1, <2>2 DEF IInv, SettingsInv
<1> QED
  BY TracingInvariant, <1>1, PTL

(* HandlerFinished finishes every span once, however often the handler is   *)
(* called and whichever listener is asked, if the listeners agree.          *)
THEOREM EverySpanFinishedOnce == ~MixedTracing => (Spec => []SpanFinishedOnce)
<1> SUFFICES ASSUME ~MixedTracing PROVE Spec => []SpanFinishedOnce
    OBVIOUS
<1>1. IInv => SpanFinishedOnce
  <2> SUFFICES ASSUME IInv, NEW n \in 1 .. invocation
               PROVE  finishes[n] =
                        IF This.ddTraceEnabled /\ (n < invocation \/ at = "idle") THEN 1 ELSE 0
      BY DEF SpanFinishedOnce
  <2>1. n \in Invocations /\ invocation > 0 /\ (n < invocation \/ n = invocation)
    BY TracingAssumption DEF IInv, FlowInv, Invocations
  <2> QED
    BY <2>1 DEF IInv, FinishInv
<1> QED
  BY TracingInvariant, <1>1, PTL

(* The positions of the requests. *)
LEMMA RequestsOf ==
  ASSUME NEW a, NEW b
  PROVE  /\ DOMAIN Requests0 = {} /\ Len(Requests0) = 0
         /\ DOMAIN Requests1(a) = {1} /\ Requests1(a)[1] = a /\ Requests1(a) # Requests0
         /\ DOMAIN Requests2(a, b) = {1, 2} /\ Len(Requests2(a, b)) = 2
         /\ Requests2(a, b)[1] = a /\ Requests2(a, b)[2] = b
<1>1. DOMAIN Requests0 = {} /\ Len(Requests0) = 0
  BY DEF Requests0
<1>2. DOMAIN Requests1(a) = {1} /\ Requests1(a)[1] = a
  BY DEF Requests1
<1>3. DOMAIN Requests2(a, b) = {1, 2} /\ Len(Requests2(a, b)) = 2
  BY DEF Requests2
<1>4. Requests2(a, b)[1] = a /\ Requests2(a, b)[2] = b
  BY DEF Requests2
<1> HIDE DEF Requests0, Requests1, Requests2
<1> QED
  BY <1>1, <1>2, <1>3, <1>4

(* The requests and the span together. *)
LEMMA RequestsPairUp == ASSUME IInv, ~Misreported PROVE StartThenEnd
<1> DEFINE start == StartRequest
           end == EndRequest(ctx, functionExecutionSpan)
<1>1. start.route = "start" /\ start.of = invocation /\ end.route = "end" /\ end.of = invocation
  BY DEF StartRequest, EndRequest
<1> HIDE DEF start, end
<1>2. sent = IF ~Told THEN Requests0
             ELSE IF at = "idle" THEN Requests2(start, end) ELSE Requests1(start)
  BY OwnRequests DEF start, end, Reported
<1>3. \A i \in DOMAIN sent :
        /\ sent[i].of = invocation
        /\ sent[i].route = IF i = 1 THEN "start" ELSE "end"
  BY <1>1, <1>2, RequestsOf
<1>4. at = "idle" => Len(sent) \in {0, 2}
  BY <1>2, RequestsOf
<1>5. Traced => (functionExecutionSpan.resource = "serverless") = (sent # <<>>)
  <2> SUFFICES ASSUME Traced
               PROVE  (functionExecutionSpan.resource = "serverless") = (sent # Requests0)
      BY DEF Requests0
  <2>1. Executed /\ at # "idle" /\ at # "starting" /\ invocation > 0
    BY DEF Traced, Executed, IInv, FlowInv
  <2>2. functionExecutionSpan.resource =
          IF TalksToExtension(This) THEN "serverless" ELSE "function"
    <3>1. functionExecutionSpan = StartedSpan(This, Root, invocation)
      BY <2>1 DEF IInv, SpanInv
    <3>2. StartedSpan(This, Root, invocation).resource =
            IF TalksToExtension(This) THEN "serverless" ELSE "function"
      BY DEF StartedSpan, IsDdServerlessSpan
    <3> QED
      BY <3>1, <3>2
  <2>3. Told <=> TalksToExtension(This)
    BY <2>1 DEF Told, Talks, Traced
  <2> QED
    BY <1>2, <2>1, <2>2, <2>3, RequestsOf
<1> QED
  BY <1>3, <1>4, <1>5 DEF StartThenEnd

(* The extension hears of every invocation that it is told of twice, first *)
(* of its start and then of its end, and of no other, if the listeners     *)
(* agree on tracing.                                                       *)
THEOREM StartAlwaysThenEnd == ~MixedTracing => (Spec => []StartThenEnd)
<1> SUFFICES ASSUME ~MixedTracing PROVE Spec => []StartThenEnd
    OBVIOUS
<1>1. IInv => StartThenEnd
  BY OwnSpan, RequestsPairUp
<1> QED
  BY TracingInvariant, <1>1, PTL

(* The span while the handler runs, field by field. *)
LEMMA SpanOf ==
  ASSUME IInv, Executed
  PROVE  LET span == functionExecutionSpan
         IN  /\ span.of = invocation
             /\ span.trace = IF Convertible(Root) THEN Root.trace ELSE <<"span", invocation>>
             /\ span.parent = IF Convertible(Root) THEN Root.parent ELSE None
             /\ span.priority = IF Convertible(Root) THEN Root.priority ELSE "1"
             /\ span.source = IF Convertible(Root) /\ This.mergeXrayTraces THEN "xray" ELSE ""
<1>1. functionExecutionSpan = StartedSpan(This, Root, invocation)
  BY DEF IInv, SpanInv
<1>2. /\ StartedSpan(This, Root, invocation).of = invocation
      /\ StartedSpan(This, Root, invocation).trace =
           IF Convertible(Root) THEN Root.trace ELSE <<"span", invocation>>
      /\ StartedSpan(This, Root, invocation).parent = IF Convertible(Root) THEN Root.parent ELSE None
  BY DEF StartedSpan
<1>3. /\ StartedSpan(This, Root, invocation).priority = IF Convertible(Root) THEN Root.priority ELSE "1"
      /\ StartedSpan(This, Root, invocation).source =
           IF Convertible(Root) /\ This.mergeXrayTraces THEN "xray" ELSE ""
  BY DEF StartedSpan
<1> QED
  BY <1>1, <1>2, <1>3

(* The empty context has neither a trace nor a parent. *)
LEMMA NoContextIsNone == NoContext.trace = None /\ NoContext.parent = None
BY DEF NoContext

(* getTraceContext, field by field: whatever comes from outside has a trace *)
(* and a parent, or is nothing.                                             *)
LEMMA DatadogOf ==
  LET trace  == IF event.trace # None THEN event.trace ELSE ctx.trace
      parent == IF event.parent # None THEN event.parent ELSE ctx.parent
  IN  IF trace = None \/ parent = None THEN Datadog = NoContext
      ELSE /\ Datadog.trace = trace /\ Datadog.parent = parent /\ Datadog # NoContext
           /\ Datadog.priority = LET priority == IF event.priority # "" THEN event.priority
                                                ELSE ctx.priority
                                 IN  IF priority = "" THEN "1" ELSE priority
<1> DEFINE trace == IF event.trace # None THEN event.trace ELSE ctx.trace
           parent == IF event.parent # None THEN event.parent ELSE ctx.parent
           priority == HeaderFirst(event.priority, ctx.priority, "")
<1>1. CASE trace = None \/ parent = None
  BY <1>1 DEF Datadog, getTraceContext, HeaderFirst
<1>2. CASE ~(trace = None \/ parent = None)
  <2>1. Datadog = [trace |-> trace, parent |-> parent,
                   priority |-> IF priority = "" THEN "1" ELSE priority]
    BY <1>2 DEF Datadog, getTraceContext, HeaderFirst
  <2> HIDE DEF trace, parent
  <2>2. Datadog.trace = trace /\ Datadog.parent = parent
    BY <2>1
  <2>3. Datadog # NoContext
    <3>1. trace # None
      BY <1>2 DEF trace, parent
    <3> QED
      BY <2>2, <3>1, NoContextIsNone
  <2>4. Datadog.priority = IF priority = "" THEN "1" ELSE priority
    BY <2>1
  <2> QED
    BY <1>2, <2>2, <2>3, <2>4 DEF trace, parent, HeaderFirst
<1> QED
  BY <1>1, <1>2

(* The X-Ray context, field by field. *)
LEMMA XRayOf ==
  IF lambda.xray = "unusable" THEN XRay = NoContext
  ELSE /\ XRay # NoContext
       /\ XRay.trace = <<"xray", invocation>> /\ XRay.parent = <<"xray", invocation>>
       /\ XRay.priority = IF lambda.xray = "sampled" THEN "2" ELSE "-1"
<1>1. CASE lambda.xray = "unusable"
  BY <1>1 DEF XRay, xrayTraceContext
<1>2. CASE lambda.xray # "unusable"
  <2>1. /\ XRay.trace = <<"xray", invocation>> /\ XRay.parent = <<"xray", invocation>>
        /\ XRay.priority = IF lambda.xray = "sampled" THEN "2" ELSE "-1"
    BY <1>2 DEF XRay, xrayTraceContext, convertXRaySamplingDecision
  <2>2. XRay # NoContext
    BY <2>1, NoneIsNoId, NoContextIsNone
  <2> QED
    BY <1>2, <2>1, <2>2
<1> QED
  BY <1>1, <1>2

(* The root trace context, field by field. *)
LEMMA RootOf ==
  /\ ~This.mergeXrayTraces => Root = Datadog
  /\ This.mergeXrayTraces /\ Datadog = NoContext => Root = XRay
  /\ This.mergeXrayTraces /\ Datadog # NoContext =>
       Root.trace = Datadog.trace /\ Root.parent = XRay.parent /\ Root.priority = Datadog.priority
<1>1. Datadog # NoContext => \E t, p, q : Datadog = [trace |-> t, parent |-> p, priority |-> q]
  BY DEF Datadog, getTraceContext
<1>2. This.mergeXrayTraces /\ Datadog # NoContext =>
        Root.trace = Datadog.trace /\ Root.parent = XRay.parent /\ Root.priority = Datadog.priority
  BY <1>1 DEF Root, RootTraceContext
<1> QED
  BY <1>2 DEF Root, RootTraceContext

(* The identifiers of X-Ray can always be read, and absent ones never.     *)
LEMMA UsableIds == Usable(<<"xray", invocation>>) /\ ~Usable(None)
<1>1. <<"xray", invocation>>[1] = "xray"
  OBVIOUS
<1> QED
  BY <1>1, NoneIsNoId DEF Usable

(* The span when the Datadog context is not complete. *)
LEMMA WithoutDatadog ==
  ASSUME IInv, Executed, Datadog = NoContext PROVE SpanJoinsXRay
<1>1. CASE This.mergeXrayTraces /\ lambda.xray # "unusable"
  <2>1. Root = XRay /\ Convertible(Root)
    <3>1. Root = XRay
      BY <1>1, RootOf
    <3>2. XRay.priority # "unusable"
      BY <1>1, XRayOf
    <3> QED
      BY <1>1, <3>1, <3>2, XRayOf, UsableIds DEF Convertible
  <2> QED
    BY <1>1, <2>1, XRayOf, SpanOf DEF SpanJoinsXRay, SpanJoins
<1>2. CASE ~(This.mergeXrayTraces /\ lambda.xray # "unusable")
  <2>1. Root = NoContext
    BY <1>2, RootOf, XRayOf
  <2>2. ~Convertible(Root)
    BY <2>1, NoContextIsNone, UsableIds DEF Convertible
  <2> QED
    BY <1>2, <2>2, SpanOf DEF SpanJoinsXRay, SpanJoinsNothing, SpanJoins
<1> QED
  BY <1>1, <1>2

(* The span when it is. *)
LEMMA WithDatadog ==
  ASSUME IInv, Executed, Datadog # NoContext
  PROVE  SpanJoinsComplete(Datadog.trace, Datadog.parent)
<1> DEFINE priority == IF event.priority # "" THEN event.priority ELSE ctx.priority
           readable == /\ Usable(Datadog.trace) /\ priority # "unusable"
                       /\ IF This.mergeXrayTraces THEN lambda.xray # "unusable"
                          ELSE Usable(Datadog.parent)
<1>1. /\ Datadog.priority = IF priority = "" THEN "1" ELSE priority
      /\ Root.trace = Datadog.trace /\ Root.priority = Datadog.priority
      /\ Root.parent = IF This.mergeXrayTraces THEN XRay.parent ELSE Datadog.parent
  BY DatadogOf, RootOf
<1>2. Datadog.priority # "unusable" <=> priority # "unusable"
  BY <1>1
<1>3. Usable(XRay.parent) <=> lambda.xray # "unusable"
  BY XRayOf, UsableIds, NoContextIsNone
<1>4. Convertible(Root) <=> readable
  BY <1>1, <1>2, <1>3 DEF Convertible
<1>5. CASE readable
  <2>1. /\ functionExecutionSpan.trace = Datadog.trace
        /\ functionExecutionSpan.parent = Root.parent
        /\ functionExecutionSpan.priority = Datadog.priority
    BY <1>1, <1>4, <1>5, SpanOf
  <2>2. This.mergeXrayTraces => XRay.parent = <<"xray", invocation>>
    BY <1>5, XRayOf
  <2> QED
    BY <1>1, <1>5, <2>1, <2>2 DEF SpanJoinsComplete, SpanJoins
<1>6. CASE ~readable
  <2>1. SpanJoinsNothing
    BY <1>4, <1>6, SpanOf DEF SpanJoinsNothing, SpanJoins
  <2> QED
    BY <1>6, <2>1 DEF SpanJoinsComplete
<1> QED
  BY <1>5, <1>6

(* The precedence of the sources of a trace, with every listener, every    *)
(* event and every answer of the extension.                                *)
THEOREM TracePrecedenceHolds == Spec => []TracePrecedence
<1>1. IInv => TracePrecedence
  <2> SUFFICES ASSUME IInv, Traced PROVE TracePrecedence
      BY DEF TracePrecedence
  <2> DEFINE trace == IF event.trace # None THEN event.trace ELSE ctx.trace
             parent == IF event.parent # None THEN event.parent ELSE ctx.parent
  <2>1. Executed
    BY DEF Traced, Executed, IInv, FlowInv
  <2>2. SpanFollows(trace, parent)
    <3>1. CASE trace = None \/ parent = None
      <4>1. Datadog = NoContext
        BY <3>1, DatadogOf
      <4> QED
        BY <2>1, <3>1, <4>1, WithoutDatadog DEF SpanFollows
    <3>2. CASE ~(trace = None \/ parent = None)
      <4>1. Datadog # NoContext /\ Datadog.trace = trace /\ Datadog.parent = parent
        BY <3>2, DatadogOf
      <4>2. SpanJoinsComplete(Datadog.trace, Datadog.parent)
        BY <2>1, <4>1, WithDatadog
      <4> HIDE DEF trace, parent
      <4> QED
        BY <3>2, <4>1, <4>2 DEF SpanFollows
    <3> QED
      BY <3>1, <3>2
  <2>3. event.trace # None /\ event.parent # None => SpanJoinsComplete(event.trace, event.parent)
    BY <2>2 DEF SpanFollows
  <2> QED
    BY <2>2, <2>3 DEF TracePrecedence
<1> QED
  BY TracingInvariant, <1>1, PTL

(* What X-Ray is told of the trace it has become part of. *)
THEOREM TracesStayConnected == Spec => []TracesConnected
<1>1. IInv => TracesConnected
  <2> SUFFICES ASSUME IInv, Traced PROVE TracesConnected
      BY DEF TracesConnected
  <2> DEFINE xray == <<"xray", invocation>>
  <2>1. Executed
    BY DEF Traced, Executed, IInv, FlowInv
  <2>2. event.parent # xray /\ ctx.parent # xray
    BY DEF IInv, ContextInv, Foreign
  <2>3. subsegment = IF Datadog # NoContext /\ XRay # NoContext THEN Datadog ELSE NoContext
    BY <2>1 DEF IInv, SpanInv, DummySubsegment, TellsDatadog
  <2> HIDE DEF xray
  <2>4. /\ xray # None
        /\ XRay # NoContext => XRay.trace = xray /\ XRay.parent = xray
    BY XRayOf, NoneIsNoId DEF xray
  <2>5. ASSUME functionExecutionSpan.parent = xray, functionExecutionSpan.trace # xray
        PROVE  subsegment.trace = functionExecutionSpan.trace /\ subsegment.parent \notin {None, xray}
    <3>1. /\ Convertible(Root) /\ Root.parent = xray /\ Root.trace # xray
          /\ functionExecutionSpan.trace = Root.trace
      BY <2>1, <2>4, <2>5, SpanOf
    <3>2. Datadog # NoContext => Datadog.parent # xray /\ Datadog.parent # None
      BY <2>2, DatadogOf
    <3>3. Datadog # NoContext
      BY <2>4, <3>1, RootOf, NoContextIsNone
    <3>4. This.mergeXrayTraces
      BY <3>1, <3>2, <3>3, RootOf
    <3>5. XRay # NoContext
      BY <2>4, <3>1, <3>3, <3>4, RootOf, NoContextIsNone
    <3> QED
      BY <2>3, <3>1, <3>2, <3>3, <3>4, <3>5, RootOf
  <2>6. functionExecutionSpan.source = "xray" => functionExecutionSpan.parent = xray
    <3>1. SUFFICES ASSUME functionExecutionSpan.source = "xray"
                   PROVE  functionExecutionSpan.parent = xray
      OBVIOUS
    <3>2. Convertible(Root) /\ This.mergeXrayTraces /\ functionExecutionSpan.parent = Root.parent
      BY <2>1, <3>1, SpanOf
    <3>3. Root.parent = XRay.parent
      BY <3>2, RootOf
    <3>4. XRay # NoContext
      BY <3>2, <3>3, NoContextIsNone, UsableIds DEF Convertible
    <3> QED
      BY <2>4, <3>2, <3>3, <3>4
  <2> QED
    BY <2>5, <2>6 DEF TracesConnected, xray
<1> QED
  BY TracingInvariant, <1>1, PTL

(* A span joins the trace that the extension answered, unless the event    *)
(* has another or something cannot be read.                                *)
LEMMA SpanJoinsAnswer ==
  ASSUME IInv, Executed, ctx.trace # None, event.trace \in {None, ctx.trace}, ~Unreadable
  PROVE  functionExecutionSpan.trace = ctx.trace
<1>1. ctx.parent # None
  BY DEF IInv, ContextInv
<1>2. /\ Datadog # NoContext /\ Datadog.trace = ctx.trace
      /\ Datadog.parent = IF event.parent # None THEN event.parent ELSE ctx.parent
  BY <1>1, DatadogOf
<1>3. /\ UnreadableHeaders(event) = {} /\ UnreadableHeaders(ctx) = {}
      /\ This.mergeXrayTraces => lambda.xray # "unusable"
  BY DEF Unreadable
<1>4. /\ ctx["trace"] # None => Usable(ctx["trace"])
      /\ ctx["parent"] # None => Usable(ctx["parent"])
      /\ event["parent"] # None => Usable(event["parent"])
      /\ ctx["priority"] # "unusable" /\ event["priority"] # "unusable"
  BY <1>3 DEF UnreadableHeaders
<1>5. /\ Usable(Datadog.trace) /\ Usable(Datadog.parent)
      /\ ctx.priority # "unusable" /\ event.priority # "unusable"
  BY <1>1, <1>2, <1>4
<1>6. functionExecutionSpan.trace = Datadog.trace
  BY <1>2, <1>3, <1>5, WithDatadog DEF SpanJoinsComplete, SpanJoins
<1> QED
  BY <1>2, <1>6

(* What the end-invocation request names. *)
LEMMA EndNamesSpan == ASSUME IInv, ~Misreported PROVE EndReportsSpan
<1> SUFFICES ASSUME NEW i \in DOMAIN sent, sent[i].route = "end"
             PROVE  /\ sent[i].span = <<"span", invocation>>
                    /\ sent[i].trace # functionExecutionSpan.trace =>
                         ctx.trace # None /\ (event.trace \notin {None, ctx.trace} \/ Unreadable)
    BY DEF EndReportsSpan
<1> DEFINE start == StartRequest
           end == EndRequest(ctx, functionExecutionSpan)
<1>1. /\ start.route = "start"
      /\ end.trace = IF ctx.trace # None THEN ctx.trace ELSE functionExecutionSpan.trace
      /\ end.span = IF ctx.trace # None THEN ctx.span ELSE <<"span", functionExecutionSpan.of>>
  BY DEF StartRequest, EndRequest
<1> HIDE DEF start, end
<1>2. sent = IF ~Told THEN Requests0
             ELSE IF at = "idle" THEN Requests2(start, end) ELSE Requests1(start)
  BY OwnRequests DEF start, end, Reported
<1>3. Told /\ at = "idle" /\ sent[i] = end
  BY <1>1, <1>2, RequestsOf
<1>4. Executed
  BY <1>3 DEF Told, Talks, Executed
<1>5. /\ functionExecutionSpan.of = invocation
      /\ ctx.span = <<"span", invocation>>
  BY <1>4, SpanOf DEF IInv, SpanInv
<1>6. ctx.trace # None /\ event.trace \in {None, ctx.trace} /\ ~Unreadable =>
        functionExecutionSpan.trace = ctx.trace
  BY <1>4, SpanJoinsAnswer
<1> QED
  BY <1>1, <1>3, <1>5, <1>6

(* The end-invocation request names the span that was started, and its     *)
(* trace unless the extension answered another than the event's or         *)
(* something could not be read, if the listeners agree on tracing.         *)
THEOREM EndAlwaysReportsSpan == ~MixedTracing => (Spec => []EndReportsSpan)
<1> SUFFICES ASSUME ~MixedTracing PROVE Spec => []EndReportsSpan
    OBVIOUS
<1>1. IInv => EndReportsSpan
  BY OwnSpan, EndNamesSpan
<1> QED
  BY TracingInvariant, <1>1, PTL

(* In a process of mixed listeners too, the invocations of a listener that *)
(* traces are reported as they should be: only one that does not trace can *)
(* report a span that is not its own.                                      *)
THEOREM TracedReportsOwnSpan ==
  Spec => [](invocation > 0 /\ This.ddTraceEnabled => StartThenEnd /\ EndReportsSpan)
<1>1. IInv => (invocation > 0 /\ This.ddTraceEnabled => StartThenEnd /\ EndReportsSpan)
  BY OwnSpan, RequestsPairUp, EndNamesSpan
<1> QED
  BY TracingInvariant, <1>1, PTL

-----------------------------------------------------------------------------
(* The values of headers, contexts and spans. *)
Priorities == {"", "-1", "1", "2", "unusable"}

DataInv ==
  /\ event \in Contexts /\ subsegment \in Contexts /\ outgoing \in Contexts
  /\ ctx.trace \in Ids /\ ctx.parent \in Ids /\ ctx.priority \in Priorities
  /\ ctx.span \in Ids /\ ctx.response \in {None} \cup ({"response"} \X Invocations)
  /\ functionExecutionSpan.of \in 0 .. MaxInvocations
  /\ functionExecutionSpan.trace \in Ids /\ functionExecutionSpan.parent \in Ids

(* Every origin has an identifier for every invocation. *)
LEMMA IdsHave ==
  /\ None \in Ids
  /\ \A n \in Invocations :
       \A origin \in {"event", "extension", "xray", "segment", "span", "unusable"} :
         <<origin, n>> \in Ids
BY DEF Ids

(* Contexts are records of identifiers and a priority. *)
LEMMA ContextsAre ==
  /\ NoContext \in Contexts
  /\ \A t, p \in Ids : \A q \in Priorities : [trace |-> t, parent |-> p, priority |-> q] \in Contexts
  /\ \A c \in Contexts : c.trace \in Ids /\ c.parent \in Ids /\ c.priority \in Priorities
  /\ \A c \in Contexts : \A p \in Ids : [c EXCEPT !.parent = p] \in Contexts
<1>1. NoContext \in Contexts
  BY IdsHave DEF Contexts, NoContext
<1> QED
  BY <1>1 DEF Contexts, Priorities

(* The contexts that an invocation is traced with. *)
LEMMA RootIsContext ==
  ASSUME DataInv, invocation \in Invocations
  PROVE  Datadog \in Contexts /\ XRay \in Contexts /\ Root \in Contexts
<1>1. Datadog \in Contexts
  <2>1. /\ HeaderFirst(event.trace, ctx.trace, None) \in Ids
        /\ HeaderFirst(event.parent, ctx.parent, None) \in Ids
        /\ HeaderFirst(event.priority, ctx.priority, "") \in Priorities
    BY ContextsAre DEF DataInv, HeaderFirst
  <2>2. \A q \in Priorities : (IF q = "" THEN "1" ELSE q) \in Priorities
    BY DEF Priorities
  <2> QED
    BY <2>1, <2>2, ContextsAre DEF Datadog, getTraceContext
<1>2. XRay \in Contexts
  <2>1. \A decision : convertXRaySamplingDecision(decision) \in Priorities
    BY DEF convertXRaySamplingDecision, Priorities
  <2> QED
    BY <2>1, ContextsAre, IdsHave DEF XRay, xrayTraceContext
<1>3. Root \in Contexts
  BY <1>1, <1>2, ContextsAre DEF Root, RootTraceContext
<1> QED
  BY <1>1, <1>2, <1>3

(* Every step keeps the types of the data. *)
LEMMA DataStep == ASSUME IInv, DataInv, [Next]_vars PROVE DataInv'
<1>1. at # "idle" => invocation \in Invocations
  BY TracingAssumption DEF IInv, FlowInv, Invocations
<1>2. at = "idle" /\ invocation < MaxInvocations => invocation + 1 \in Invocations
  BY TracingAssumption DEF IInv, FlowInv, Invocations
<1>3. CASE UNCHANGED <<event, ctx, outgoing, functionExecutionSpan, subsegment>>
  BY <1>3 DEF DataInv
<1>4. ASSUME NEW l \in Listeners, Begin(l), event' \in Contexts PROVE DataInv'
  <2>1. /\ UNCHANGED <<outgoing, functionExecutionSpan>> /\ subsegment' = NoContext
        /\ ctx' = FreshCtx
    BY <1>4 DEF Begin
  <2>2. /\ ctx'.trace = None /\ ctx'.parent = None /\ ctx'.priority = "" /\ ctx'.span = None
        /\ ctx'.response = None
    BY <2>1 DEF FreshCtx
  <2> QED
    BY <1>4, <2>1, <2>2, IdsHave, ContextsAre DEF DataInv, Priorities
<1>5. ASSUME NEW l \in Listeners, Invoke(l) PROVE DataInv'
  <2>1. /\ event' \in Events(invocation') /\ invocation' = invocation + 1 /\ Begin(l)
        /\ at = "idle" /\ invocation < MaxInvocations
    BY <1>5 DEF Invoke, Begin
  <2>2. event' \in Contexts
    <3>1. /\ <<"event", invocation + 1>> \in Ids /\ <<"unusable", invocation + 1>> \in Ids
          /\ None \in Ids
      BY <1>2, <2>1, IdsHave
    <3>2. event' = outgoing
          \/ event' \in
               [trace    : {None, <<"event", invocation + 1>>, <<"unusable", invocation + 1>>},
                parent   : {None, <<"event", invocation + 1>>, <<"unusable", invocation + 1>>},
                priority : {"", "2", "unusable"}]
      BY <2>1 DEF Events
    <3> QED
      BY <3>1, <3>2 DEF DataInv, Contexts
  <2> QED
    BY <1>4, <2>1, <2>2
<1>6. ASSUME NEW l \in Listeners, InvokeDryRun(l) PROVE DataInv'
  BY <1>4, <1>6, ContextsAre DEF InvokeDryRun
<1>7. CASE SendStartInvocationRequest
  <2>1. PICK answer \in Answers(invocation) :
          ctx' = [ctx EXCEPT !.trace = answer.trace, !.parent = ParentOf(answer),
                             !.priority = answer.priority]
    BY <1>7 DEF SendStartInvocationRequest
  <2>2. /\ UNCHANGED <<event, outgoing, functionExecutionSpan, subsegment>>
        /\ invocation \in Invocations
    BY <1>1, <1>7 DEF SendStartInvocationRequest, inputVars, spanVars
  <2>3. /\ answer.trace \in {None, event.trace, <<"extension", invocation>>,
                              <<"unusable", invocation>>}
        /\ answer.parent \in {None, <<"extension", invocation>>, <<"unusable", invocation>>}
        /\ answer.priority \in {"", "1", "unusable"}
    BY DEF Answers
  <2>4. answer.trace \in Ids /\ answer.parent \in Ids /\ answer.priority \in Priorities
    BY <2>2, <2>3, IdsHave, ContextsAre DEF DataInv, Priorities
  <2>5. /\ ctx'.trace = answer.trace /\ ctx'.parent = ParentOf(answer)
        /\ ctx'.priority = answer.priority /\ ctx'.span = ctx.span /\ ctx'.response = ctx.response
    BY <2>1 DEF IInv, ContextInv
  <2> QED
    BY <2>2, <2>4, <2>5 DEF DataInv, ParentOf
<1>8. CASE StartFunctionExecutionSpan
  <2>1. /\ functionExecutionSpan' = StartedSpan(This, Root, invocation)
        /\ subsegment' = DummySubsegment(Datadog, XRay, Root)
        /\ ctx' = [ctx EXCEPT !.span = <<"span", invocation>>]
        /\ UNCHANGED <<event, outgoing>> /\ at # "idle"
    BY <1>8 DEF StartFunctionExecutionSpan, Starting, Datadog, XRay, Root, inputVars
  <2>2. /\ invocation \in Invocations /\ <<"span", invocation>> \in Ids /\ None \in Ids
        /\ Datadog \in Contexts /\ Root \in Contexts
    BY <1>1, <2>1, IdsHave, RootIsContext
  <2>3. /\ StartedSpan(This, Root, invocation).of = invocation
        /\ StartedSpan(This, Root, invocation).trace \in {Root.trace, <<"span", invocation>>}
        /\ StartedSpan(This, Root, invocation).parent \in {Root.parent, None}
    BY DEF StartedSpan
  <2>4. subsegment' \in Contexts
    BY <2>1, <2>2, ContextsAre DEF DummySubsegment, TellsDatadog
  <2>5. /\ ctx'.trace = ctx.trace /\ ctx'.parent = ctx.parent /\ ctx'.priority = ctx.priority
        /\ ctx'.span = <<"span", invocation>> /\ ctx'.response = ctx.response
    BY <2>1 DEF IInv, ContextInv
  <2>6. functionExecutionSpan'.of \in 0 .. MaxInvocations
    <3>1. functionExecutionSpan'.of = invocation
      BY <2>1, <2>3
    <3> QED
      BY <3>1 DEF IInv, FlowInv
  <2>7. functionExecutionSpan'.trace \in Ids /\ functionExecutionSpan'.parent \in Ids
    BY <2>1, <2>2, <2>3, ContextsAre
  <2> QED
    BY <2>1, <2>2, <2>4, <2>5, <2>6, <2>7 DEF DataInv
<1>9. CASE GetTraceHeaders
  <2>1. PICK inSegment \in BOOLEAN :
          outgoing' = ConvertCurrentXrayTraceContext(invocation, inSegment)
    BY <1>9 DEF GetTraceHeaders
  <2>2. UNCHANGED <<event, ctx, functionExecutionSpan, subsegment>> /\ invocation \in
                    Invocations
    BY <1>1, <1>9 DEF GetTraceHeaders, inputVars, spanVars
  <2>3. outgoing' = XRay \/ outgoing' = [XRay EXCEPT !.parent = <<"segment", invocation>>]
    BY <2>1 DEF ConvertCurrentXrayTraceContext, XRay
  <2>4. XRay \in Contexts /\ <<"segment", invocation>> \in Ids
    BY <2>2, RootIsContext, IdsHave
  <2>5. outgoing' \in Contexts
    BY <2>3, <2>4, ContextsAre
  <2> QED
    BY <2>2, <2>5 DEF DataInv
<1>10. ASSUME NEW response \in {None, <<"response", invocation>>}, NEW err, Return(response, err)
       PROVE  DataInv'
  <2>1. /\ UNCHANGED <<event, outgoing, functionExecutionSpan, subsegment>>
        /\ invocation \in Invocations /\ ctx' = [ctx EXCEPT !.response = response]
    BY <1>1, <1>10 DEF Return, inputVars, spanVars
  <2>2. /\ ctx'.trace = ctx.trace /\ ctx'.parent = ctx.parent /\ ctx'.priority = ctx.priority
        /\ ctx'.span = ctx.span /\ ctx'.response = response
    BY <2>1 DEF IInv, ContextInv
  <2>3. response \in {None} \cup ({"response"} \X Invocations)
    BY <2>1
  <2> QED
    BY <2>1, <2>2, <2>3 DEF DataInv
<1>11. UNCHANGED <<event, ctx, outgoing, functionExecutionSpan, subsegment>>
       \/ (\E l \in Listeners : Invoke(l) \/ InvokeDryRun(l))
       \/ SendStartInvocationRequest \/ StartFunctionExecutionSpan \/ GetTraceHeaders
       \/ HandlerReturns \/ DatadogHandlerReturns
  BY DEF Next, vars, inputVars, spanVars, Wrap, NotTraced, PanicWithoutLambdaContext,
         HandlerFinished, Done
<1> QED
  BY <1>3, <1>5, <1>6, <1>7, <1>8, <1>9, <1>10, <1>11 DEF HandlerReturns,
     DatadogHandlerReturns

(* The variables of the trace listeners keep their types. *)
THEOREM TracingTypeOK == Spec => []TypeOK
<1>1. Init => DataInv
  <2> SUFFICES ASSUME Init PROVE DataInv
      OBVIOUS
  <2>1. event = NoContext /\ subsegment = NoContext /\ outgoing = NoContext /\ ctx = FreshCtx
        /\ functionExecutionSpan = NoSpan
    BY DEF Init
  <2>2. /\ ctx.trace = None /\ ctx.parent = None /\ ctx.priority = "" /\ ctx.span = None
        /\ ctx.response = None
    BY <2>1 DEF FreshCtx
  <2>3. /\ functionExecutionSpan.of = 0 /\ functionExecutionSpan.trace = None
        /\ functionExecutionSpan.parent = None
    BY <2>1 DEF NoSpan
  <2>4. 0 \in 0 .. MaxInvocations
    BY TracingAssumption
  <2> QED
    BY <2>1, <2>2, <2>3, <2>4, ContextsAre, IdsHave DEF DataInv, Priorities
<1>2. DataInv /\ IInv /\ [Next]_vars => DataInv'
  BY DataStep
<1>3. IInv /\ DataInv => TypeOK
  <2> SUFFICES ASSUME IInv, DataInv PROVE TypeOK
      OBVIOUS
  <2>1. \A l \in Listeners : Made(l) =>
          settings[l].universalInstrumentation \in BOOLEAN /\ settings[l].ddTraceEnabled \in BOOLEAN
    <3> SUFFICES ASSUME NEW l \in Listeners, Made(l)
                 PROVE  /\ settings[l].universalInstrumentation \in BOOLEAN
                        /\ settings[l].ddTraceEnabled \in BOOLEAN
        OBVIOUS
    <3>1. settings[l] \in Settings /\ settings[l] # NotMade
      BY DEF IInv, SettingsInv, Made, NotMade
    <3>2. process.universal \in BOOLEAN
      BY DEF IInv, SettingsInv
    <3> QED
      BY <3>1, <3>2 DEF Settings
  <2>2. tracer \in {"none", "log", "extension"}
    BY DEF IInv, TracerInv
  <2>3. /\ invocation \in 0 .. MaxInvocations /\ (invocation > 0 => Made(listener))
        /\ at \in {"idle", "starting", "told", "running", "returned", "panicked"}
    BY DEF IInv, FlowInv
  <2>4. [trace |-> ctx.trace, parent |-> ctx.parent, priority |-> ctx.priority] \in Contexts
    BY ContextsAre DEF DataInv
  <2>5. finishes \in [Invocations -> Nat]
    BY DEF IInv, FinishInv
  <2>6. Len(sent) <= 2 /\ \A i \in DOMAIN sent : sent[i].of \in Invocations
    <3> DEFINE start == StartRequest
               end == EndRequest(ctx, functionExecutionSpan)
    <3>1. start.of = invocation /\ end.of = invocation
      BY DEF StartRequest, EndRequest
    <3> HIDE DEF start, end
    <3>2. sent = IF Misreported THEN Requests1(end)
                 ELSE IF ~Told THEN Requests0
                 ELSE IF at = "idle" THEN Requests2(start, end) ELSE Requests1(start)
      BY DEF IInv, SentInv, start, end, Reported
    <3>3. Told \/ Misreported => invocation \in Invocations
      BY <2>3 DEF Told, Invocations, Misreported
    <3>4. Len(sent) \in {0, 1, 2}
      <4>1. Len(Requests1(start)) = 1 /\ Len(Requests1(end)) = 1
        BY DEF Requests1
      <4> QED
        BY <3>2, <4>1, RequestsOf
    <3>5. \A i \in DOMAIN sent : sent[i].of = invocation /\ (Told \/ Misreported)
      BY <3>1, <3>2, RequestsOf
    <3>6. Len(sent) <= 2
      <4>1. \A n \in {0, 1, 2} : n <= 2
        OBVIOUS
      <4> QED
        BY <3>4, <4>1, Zenon
    <3>7. \A i \in DOMAIN sent : sent[i].of \in Invocations
      BY <3>3, <3>5
    <3> QED
      BY <3>6, <3>7
  <2> QED
    BY <2>1, <2>2, <2>3, <2>4, <2>5, <2>6 DEF TypeOK, DataInv
<1> QED
  BY TracingInvariant, <1>1, <1>2, <1>3, PTL DEF Spec

-----------------------------------------------------------------------------
(* In every process, the span of an invocation is finished with it: the    *)
(* package variable may hold the span of an earlier invocation, but never  *)
(* one of a later, and one of this only after it was started.              *)
FinishedWithInvocation ==
  invocation > 0 =>
    finishes[invocation] = IF This.ddTraceEnabled /\ at = "idle" THEN 1 ELSE 0

OwnFinish ==
  /\ functionExecutionSpan.of \in 0 .. invocation
  /\ invocation > 0 /\ functionExecutionSpan.of = invocation =>
       This.ddTraceEnabled /\ at \in {"running", "returned", "idle"}
  /\ \A n \in Invocations : n > invocation => finishes[n] = 0
  /\ FinishedWithInvocation

(* Steps between the first and the last of an invocation that start no     *)
(* span.                                                                   *)
LEMMA OwnFinishUntouched ==
  ASSUME OwnFinish, UNCHANGED <<functionExecutionSpan, finishes, invocation>>,
         invocation > 0 => This' = This,
         at' = at \/ (at # "idle" /\ at' # "idle"),
         at \in {"running", "returned", "idle"} => at' \in {"running", "returned", "idle"}
  PROVE  OwnFinish'
BY DEF OwnFinish, FinishedWithInvocation

(* A new invocation has no span yet. *)
LEMMA OwnFinishBegin ==
  ASSUME IInv, OwnFinish, NEW l \in Listeners, Begin(l) PROVE OwnFinish'
<1>1. /\ UNCHANGED <<functionExecutionSpan, finishes>> /\ invocation' = invocation + 1
      /\ at' = "starting" /\ invocation < MaxInvocations
  BY DEF Begin, spanVars
<1>2. invocation \in Nat /\ invocation + 1 \in Invocations
  BY <1>1, TracingAssumption DEF IInv, FlowInv, Invocations
<1>3. functionExecutionSpan'.of \in 0 .. invocation' /\ functionExecutionSpan'.of # invocation'
  BY <1>1, <1>2 DEF OwnFinish
<1>4. \A n \in Invocations : n > invocation => finishes'[n] = 0
  BY <1>1 DEF OwnFinish
<1>5. \A n \in Invocations : n > invocation' => finishes'[n] = 0
  BY <1>1, <1>2, <1>4 DEF Invocations
<1>6. finishes'[invocation'] = 0
  BY <1>1, <1>2, <1>4
<1> QED
  BY <1>1, <1>3, <1>5, <1>6 DEF OwnFinish, FinishedWithInvocation

(* The span is finished; if it was started for this invocation, then only  *)
(* now.                                                                    *)
LEMMA OwnFinishFinished ==
  ASSUME IInv, OwnFinish, HandlerFinished PROVE OwnFinish'
<1>1. /\ UNCHANGED <<settings, listener, invocation, functionExecutionSpan>>
      /\ at = "returned" /\ at' = "idle"
      /\ IF functionExecutionSpan # NoSpan
           THEN finishes' = [n \in Invocations |->
                  IF n = functionExecutionSpan.of THEN finishes[n] + 1 ELSE finishes[n]]
           ELSE UNCHANGED finishes
  BY DEF HandlerFinished, FinishesSpan, listenerVars, inputVars, spanVars
<1>2. invocation \in Invocations /\ invocation > 0 /\ invocation \in Nat
  BY <1>1, TracingAssumption DEF IInv, FlowInv, Invocations
<1>3. finishes[invocation] = 0
  BY <1>1, <1>2 DEF OwnFinish, FinishedWithInvocation
<1>4. This' = This
  BY <1>1 DEF This
<1>5. \A n \in Invocations : n > invocation => finishes'[n] = 0
  <2> SUFFICES ASSUME NEW n \in Invocations, n > invocation PROVE finishes'[n] = 0
      OBVIOUS
  <2>1. finishes[n] = 0 /\ functionExecutionSpan.of # n
    BY <1>2 DEF OwnFinish, Invocations
  <2> QED
    BY <1>1, <2>1
<1>6. CASE This.ddTraceEnabled
  <2>1. functionExecutionSpan.of = invocation
    BY <1>1, <1>2, <1>6, SpanOf DEF Executed
  <2>2. functionExecutionSpan # NoSpan
    <3>1. NoSpan.of = 0
      BY DEF NoSpan
    <3> QED
      BY <1>2, <2>1, <3>1
  <2>3. finishes'[invocation] = 1
    BY <1>1, <1>2, <1>3, <2>1, <2>2
  <2> QED
    BY <1>1, <1>4, <1>5, <1>6, <2>3 DEF OwnFinish, FinishedWithInvocation
<1>7. CASE ~This.ddTraceEnabled
  <2>1. functionExecutionSpan.of # invocation
    BY <1>2, <1>7 DEF OwnFinish
  <2>2. finishes'[invocation] = 0
    BY <1>1, <1>2, <1>3, <2>1
  <2> QED
    BY <1>1, <1>4, <1>5, <1>7, <2>1, <2>2 DEF OwnFinish, FinishedWithInvocation
<1> QED
  BY <1>6, <1>7

(* Every step keeps OwnFinish. *)
LEMMA OwnFinishStep == IInv /\ OwnFinish /\ [Next]_vars => OwnFinish'
<1> SUFFICES ASSUME IInv, OwnFinish, [Next]_vars PROVE OwnFinish'
    OBVIOUS
<1>1. CASE UNCHANGED vars
  <2>1. This' = This
    BY <1>1 DEF vars, listenerVars, inputVars, This
  <2> QED
    BY <1>1, <2>1, OwnFinishUntouched DEF vars, inputVars, spanVars
<1>2. CASE NotTraced \/ SendStartInvocationRequest \/ PanicWithoutLambdaContext
           \/ GetTraceHeaders \/ HandlerReturns \/ DatadogHandlerReturns
  <2>1. /\ UNCHANGED <<functionExecutionSpan, finishes, invocation, settings, listener>>
        /\ at' = at \/ (at # "idle" /\ at' # "idle")
        /\ at \in {"running", "returned", "idle"} => at' \in {"running", "returned", "idle"}
    BY <1>2 DEF NotTraced, SendStartInvocationRequest, PanicWithoutLambdaContext, Starting,
       GetTraceHeaders, HandlerReturns, DatadogHandlerReturns, Return, listenerVars, inputVars,
       spanVars
  <2>2. This' = This
    BY <2>1 DEF This
  <2> QED
    BY <2>1, <2>2, OwnFinishUntouched
<1>3. ASSUME NEW l \in Listeners, Wrap(l) PROVE OwnFinish'
  <2>1. /\ NewListener(l) /\ SettingsInv /\ TracerInv
        /\ UNCHANGED <<functionExecutionSpan, finishes, invocation, listener, at>>
    BY <1>3 DEF Wrap, inputVars, spanVars, IInv
  <2>2. invocation > 0 => This' = This
    BY <2>1, NewListenerStep DEF IInv, FlowInv, This
  <2> QED
    BY <2>1, <2>2, OwnFinishUntouched
<1>4. ASSUME NEW l \in Listeners, Invoke(l) \/ InvokeDryRun(l) PROVE OwnFinish'
  BY <1>4, OwnFinishBegin DEF Invoke, InvokeDryRun
<1>5. CASE StartFunctionExecutionSpan
  <2>1. /\ UNCHANGED <<finishes, invocation, settings, listener>> /\ at' = "running"
        /\ at # "idle" /\ functionExecutionSpan' = StartedSpan(This, Root, invocation)
        /\ (at = "starting" /\ This.ddTraceEnabled) \/ at = "told"
    BY <1>5 DEF StartFunctionExecutionSpan, Starting, Root, Datadog, XRay, listenerVars,
       inputVars
  <2>2. This' = This
    BY <2>1 DEF This
  <2>3. This.ddTraceEnabled /\ invocation \in Nat
    BY <2>1, TracingAssumption DEF IInv, FlowInv, Talks
  <2>4. functionExecutionSpan'.of = invocation
    BY <2>1 DEF StartedSpan
  <2> QED
    BY <2>1, <2>2, <2>3, <2>4 DEF OwnFinish, FinishedWithInvocation
<1> QED
  BY <1>1, <1>2, <1>3, <1>4, <1>5, OwnFinishFinished DEF Next, Done

(* Whichever listeners share the process, an invocation that is traced has *)
(* its span finished once when it ends, and one that is not has none       *)
(* (trace/listener.go, HandlerFinished).  What SpanFinishedOnce says more, *)
(* that it is not finished again later, needs listeners that agree.        *)
THEOREM SpanFinishedWithInvocation == Spec => []FinishedWithInvocation
<1>1. Init => OwnFinish
  <2> SUFFICES ASSUME Init PROVE OwnFinish
      OBVIOUS
  <2>1. invocation = 0 /\ functionExecutionSpan.of = 0 /\ finishes = [n \in Invocations |-> 0]
    BY DEF Init, NoSpan
  <2> QED
    BY <2>1 DEF OwnFinish, FinishedWithInvocation
<1>2. IInv /\ OwnFinish /\ [Next]_vars => OwnFinish'
  BY OwnFinishStep
<1>3. OwnFinish => FinishedWithInvocation
  BY DEF OwnFinish
<1> QED
  BY TracingInvariant, <1>1, <1>2, <1>3, PTL DEF Spec

=============================================================================
