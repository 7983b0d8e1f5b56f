------------------------------ MODULE MCSetup -------------------------------
(* Inputs of WrapFunction for TLC.  The options of tracing, those of       *)
(* metrics, the keys and the handler's type do not depend on one another,  *)
(* so one group varies while the others keep a default.  By default        *)
(* metrics go to the log, so that only the inputs with keys make requests. *)
EXTENDS Startup

DefaultEnvironment ==
  [appSec |-> FALSE, file |-> "absent", answers |-> FALSE, redirected |-> FALSE,
   universal |-> "", universalJunk |-> FALSE, traceEnabled |-> "", merge |-> "",
   otel |-> "", fips |-> "", govCloud |-> FALSE, logForwarder |-> TRUE,
   enhanced |-> "", statsdWorks |-> TRUE, apiKey |-> "",
   kmsAPIKey |-> NotEncrypted]

Files == {"absent", "present", "unreadable"}

TracingEnvironments ==
  {[DefaultEnvironment EXCEPT !.appSec = a, !.file = i, !.answers = h,
                              !.universal = u, !.universalJunk = (u = "" /\ j),
                              !.traceEnabled = t, !.otel = o, !.statsdWorks = s] :
     a, h, j, s \in BOOLEAN, u, t, o \in OptionalBool, i \in Files}

MetricsEnvironments ==
  {[DefaultEnvironment EXCEPT !.fips = f, !.govCloud = g, !.enhanced = e, !.file = i] :
     g \in BOOLEAN, i \in {"absent", "present"}, f \in OptionalBool, e \in {"", "true", "other"}}

KeyEnvironments ==
  {[DefaultEnvironment EXCEPT !.logForwarder = l, !.file = i, !.fips = f,
                              !.apiKey = k, !.kmsAPIKey = m] :
     l \in BOOLEAN, i \in {"absent", "present"}, f \in {"", "true"},
     k \in {"", "environment"}, m \in EncryptedKeys("environment")}

UsualUserConfig ==
  [given |-> FALSE, DDTraceEnabled |-> FALSE, MergeXrayTraces |-> FALSE,
   FIPSMode |-> "", ShouldUseLogForwarder |-> FALSE, HTTPClientTimeout |-> 0,
   CircuitBreakerTotalFailures |-> 0, APIKey |-> "", KMSAPIKey |-> NotEncrypted]

SomeUserConfigs ==
  {[UsualUserConfig EXCEPT !.given = g, !.DDTraceEnabled = t, !.FIPSMode = f,
                           !.HTTPClientTimeout = h] :
     g, t \in BOOLEAN, f \in OptionalBool, h \in {0, 9}}

KeyUserConfigs ==
  {[UsualUserConfig EXCEPT !.given = TRUE, !.APIKey = k, !.KMSAPIKey = m] :
     k \in {"", "config"}, m \in EncryptedKeys("config")} \cup {UsualUserConfig}

UpTo(n, S) == UNION {[1 .. k -> S] : k \in 0 .. n}

SomeHandlers ==
  {h \in [isFunc : BOOLEAN, in : UpTo(3, {"context", "contextLike", "payload"}),
          out : UpTo(3, {"value", "error"}), variadic : {"no", "any", "typed"}] :
     h.variadic # "no" => Len(h.in) > 0 /\ h.in[Len(h.in)] = "payload"}

UsualHandler ==
  [isFunc |-> TRUE, in |-> <<"context", "payload">>, out |-> <<"value", "error">>,
   variadic |-> "no"]

MCInputs ==
  [env : TracingEnvironments \cup MetricsEnvironments, cfg : SomeUserConfigs,
   handler : {UsualHandler}]
    \cup [env : KeyEnvironments, cfg : KeyUserConfigs, handler : {UsualHandler}]
    \cup [env : {DefaultEnvironment}, cfg : {UsualUserConfig}, handler : SomeHandlers]

(* A user who sets the limit of the circuit breaker and no timeout.        *)
MCSettings ==
  {[env |-> DefaultEnvironment, handler |-> UsualHandler,
    cfg |-> [UsualUserConfig EXCEPT !.given = TRUE, !.CircuitBreakerTotalFailures = 9]]}

=============================================================================
