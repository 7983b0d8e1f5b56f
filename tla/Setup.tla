------------------------------- MODULE Setup --------------------------------
(***************************************************************************)
(* WrapFunction of ddlambda.go at a cold start: setupAppSec changes the    *)
(* environment, initializeListeners resolves the user's Config and the     *)
(* environment into the configurations of the two listeners, and           *)
(* WrapHandlerWithListeners (internal/wrapper/wrap_handler.go) looks at    *)
(* the type of the handler, which callHandler then calls by reflection.    *)
(*                                                                         *)
(* Of the environment the parsed values are kept: "" is a variable that is *)
(* unset or does not parse, except for UniversalInstrumentation, of which  *)
(* setupAppSec also asks whether it is set at all.  Sites, log levels and  *)
(* tracer options, which are only passed on, are left out.                 *)
(***************************************************************************)
EXTENDS Naturals, Sequences

CONSTANT
  Inputs   \* inputs of WrapFunction: the environment of the process, the user's
           \* Config or the absence of one (given = FALSE), the handler's type

OptionalBool == {"", "true", "false"}

(* A key to be decrypted, as in module ApiClient.                          *)
NotEncrypted == [form |-> "none", from |-> ""]
EncryptedKeys(from) ==
  {NotEncrypted} \cup [form : {"cli", "console", "bad"}, from : {from}]

(* The extension's file is there, or not there, or the system does not say *)
(* because it may not be looked at.                                        *)
Environments ==
  [appSec : BOOLEAN, file : {"absent", "present", "unreadable"}, answers : BOOLEAN,
   redirected : {FALSE}, universal : OptionalBool, universalJunk : BOOLEAN,
   traceEnabled : OptionalBool, merge : OptionalBool, otel : OptionalBool,
   fips : OptionalBool, govCloud : BOOLEAN, logForwarder : BOOLEAN,
   enhanced : {"", "true", "other"}, statsdWorks : BOOLEAN,
   apiKey : {"", "environment"}, kmsAPIKey : EncryptedKeys("environment")]

UserConfigs ==
  [given : BOOLEAN, DDTraceEnabled : BOOLEAN, MergeXrayTraces : BOOLEAN,
   FIPSMode : OptionalBool, ShouldUseLogForwarder : BOOLEAN, HTTPClientTimeout : Nat,
   CircuitBreakerTotalFailures : Nat, APIKey : {"", "config"},
   KMSAPIKey : EncryptedKeys("config")]

(* A handler as reflection sees it: whether it is a function, and the      *)
(* types of its arguments and results. "context" is context.Context,       *)
(* "contextLike" any other type that implements it, which the context of   *)
(* an invocation is not assignable to; "error" is any type that implements *)
(* error. The last argument of a variadic handler is a slice, which is     *)
(* assignable to the type of its own elements only if that is "any".       *)
Handlers ==
  {h \in [isFunc : BOOLEAN, in : Seq({"context", "contextLike", "payload"}),
          out : Seq({"value", "error"}), variadic : {"no", "any", "typed"}] :
     h.variadic # "no" => Len(h.in) > 0 /\ h.in[Len(h.in)] = "payload"}

ASSUME SetupAssumption ==
  Inputs \subseteq [env : Environments, cfg : UserConfigs, handler : Handlers]

VARIABLES
  env, cfg, handler,  \* the input
  at,                 \* how far it has come
  traceConfig,        \* trace.Config
  metricsConfig,      \* metrics.Config, after the defaults of MakeListener
  listener,           \* what the listeners know of the extension, and what that of
                      \* metrics is made of
  call                \* the last call of the handler by the wrapper

setupVars == <<env, cfg, handler, at, traceConfig, metricsConfig, listener, call>>

Pending == [pending |-> TRUE]

SetupInit ==
  /\ \E input \in Inputs :
       env = input.env /\ cfg = input.cfg /\ handler = input.handler
  /\ at = "start"
  /\ traceConfig = Pending /\ metricsConfig = Pending /\ listener = Pending
  /\ call = Pending

(* strconv.ParseBool, with the value to keep when it fails.                *)
Parsed(value, otherwise) == IF value = "" THEN otherwise ELSE value = "true"

-----------------------------------------------------------------------------
(* setupAppSec: unless it is certain that there is no extension, the       *)
(* runtime API is redirected to it, and universal instrumentation is       *)
(* turned on unless the customer has set it.                               *)
UniversalUnset == env.universal = "" /\ ~env.universalJunk

SetupAppSec ==
  /\ at = "start"
  /\ env' = IF env.appSec /\ env.file # "absent"
              THEN [env EXCEPT !.redirected = TRUE,
                               !.universal = IF UniversalUnset THEN "true" ELSE @]
              ELSE env
  /\ at' = "appSec"
  /\ UNCHANGED <<cfg, handler, traceConfig, metricsConfig, listener, call>>

-----------------------------------------------------------------------------
(* toTraceConfig. *)
toTraceConfig ==
  [DDTraceEnabled |-> Parsed(env.traceEnabled, IF cfg.given THEN cfg.DDTraceEnabled ELSE TRUE),
   MergeXrayTraces |-> (cfg.given /\ cfg.MergeXrayTraces) \/ Parsed(env.merge, FALSE),
   UniversalInstrumentation |-> Parsed(env.universal, TRUE),
   OtelTracerEnabled |-> env.traceEnabled = "true" /\ Parsed(env.otel, FALSE)]

(* calculateFipsMode: the user's Config, or the environment, or the region.*)
RegionLast == env.fips = "true"
FipsDefault == Parsed(env.fips, env.govCloud)

calculateFipsMode ==
  IF cfg.given /\ cfg.FIPSMode # "" THEN cfg.FIPSMode = "true" ELSE FipsDefault

(* toMetricsConfig; a key that the Config does not give is looked up in the*)
(* environment, which a variant would ask first.  The settings of the      *)
(* circuit breaker are not taken over from the Config.                     *)
Setting(field, unset) == IF cfg.given THEN field ELSE unset

EnvironmentFirst(setting, variable, unset) ==
  IF variable # unset THEN variable ELSE setting
ConfigFirst(setting, variable, unset) ==
  IF setting # unset THEN setting ELSE variable

toMetricsConfig ==
  [FIPSMode |-> calculateFipsMode,
   ShouldUseLogForwarder |-> Setting(cfg.ShouldUseLogForwarder, FALSE) \/ env.logForwarder,
   HTTPClientTimeout |-> Setting(cfg.HTTPClientTimeout, 0),
   CircuitBreakerTotalFailures |-> 0,
   APIKey |-> ConfigFirst(Setting(cfg.APIKey, ""), env.apiKey, ""),
   KMSAPIKey |-> ConfigFirst(Setting(cfg.KMSAPIKey, NotEncrypted), env.kmsAPIKey, NotEncrypted),
   EnhancedMetrics |-> env.enhanced # "other"]

(* BuildExtensionManager: the extension runs only if its file can be       *)
(* looked at, and without universal instrumentation only if it answers;    *)
(* the variant asks it always.                                             *)
AsksAlways == env.file = "present" /\ env.answers

IsExtensionRunning ==
  env.file = "present" /\ (toTraceConfig.UniversalInstrumentation \/ env.answers)

(* metrics.MakeListener: the API client is made before the default timeout *)
(* is filled in.                                                           *)
defaultHttpClientTimeout == 5
defaultCircuitBreakerTotalFailures == 4

OrDefault(setting, default) == IF setting = 0 THEN default ELSE setting

MakeListener(mc) ==
  [apiClient |-> IF mc.FIPSMode THEN "nil" ELSE "made",
   clientTimeout |-> mc.HTTPClientTimeout,
   isExtensionRunning |-> IsExtensionRunning,
   isAgentRunning |-> IsExtensionRunning /\ env.statsdWorks]

InitializeListeners ==
  /\ at = "appSec"
  /\ traceConfig' = toTraceConfig
  /\ metricsConfig' =
       [toMetricsConfig EXCEPT
          !.HTTPClientTimeout = OrDefault(@, defaultHttpClientTimeout),
          !.CircuitBreakerTotalFailures = OrDefault(@, defaultCircuitBreakerTotalFailures)]
  /\ listener' = MakeListener(toMetricsConfig)
  /\ at' = "listening"
  /\ UNCHANGED <<env, cfg, handler, call>>

-----------------------------------------------------------------------------
(* validateHandler: what it takes the AWS SDK to allow. The first of two   *)
(* arguments must implement context.Context, whatever else it is; a        *)
(* variant forgets that.                                                   *)
CountsArguments ==
  /\ handler.isFunc
  /\ Len(handler.in) <= 2 /\ Len(handler.out) <= 2
  /\ Len(handler.out) > 0 => handler.out[Len(handler.out)] = "error"

Implements(type) == type \in {"context", "contextLike"}

validateHandler ==
  /\ handler.isFunc
  /\ Len(handler.in) = 2 => Implements(handler.in[1])
  /\ Len(handler.in) <= 2 /\ Len(handler.out) <= 2
  /\ Len(handler.out) > 0 => handler.out[Len(handler.out)] = "error"

(* WrapHandlerWithListeners: a handler it does not recognise is handed     *)
(* back as it is, for the AWS SDK to deal with.                            *)
WrapHandlerWithListeners ==
  /\ at = "listening"
  /\ at' = IF validateHandler THEN "wrapped" ELSE "handedBack"
  /\ UNCHANGED <<env, cfg, handler, traceConfig, metricsConfig, listener, call>>

(* unmarshalEventForHandler: the event is unmarshalled into a value of the *)
(* handler's last type, unless the handler has no arguments or only one    *)
(* that implements context.Context.  JSON does not decode into a           *)
(* context.Context, but null decodes into everything.                      *)
Events == {"null", "fitting", "unfitting"}

NeedsEvent ==
  Len(handler.in) > 0 /\ ~(Len(handler.in) = 1 /\ Implements(handler.in[1]))

messageType == handler.in[Len(handler.in)]

Decodes(event) == event = "null" \/ (event = "fitting" /\ messageType # "context")

(* callHandler: the types of the arguments it passes, which are the        *)
(* context and the unmarshalled event, and what it makes of the results.   *)
Arguments ==
  CASE Len(handler.in) = 0 -> <<>>
    [] Len(handler.in) = 1 -> IF NeedsEvent THEN <<messageType>> ELSE <<"context">>
    [] Len(handler.in) = 2 -> <<"context", messageType>>

Results ==
  [response |-> IF Len(handler.out) > 1 THEN 1 ELSE 0,
   error    |-> Len(handler.out)]

(* Call of package reflect panics if an argument is not assignable to the  *)
(* type it is for.                                                         *)
Assignable(i) ==
  IF handler.variadic # "no" /\ i = Len(handler.in)
    THEN handler.variadic = "any"
    ELSE Arguments[i] = handler.in[i]

Panics == \E i \in DOMAIN Arguments : ~Assignable(i)

(* An event that does not decode is an error of the wrapper's own.         *)
NotCalled == [called |-> FALSE]

CallHandler ==
  /\ at = "wrapped"
  /\ \E event \in Events :
       call' = IF NeedsEvent /\ ~Decodes(event)
                 THEN NotCalled
                 ELSE [called |-> TRUE, panics |-> Panics, arguments |-> Arguments, results |-> Results]
  /\ UNCHANGED <<env, cfg, handler, at, traceConfig, metricsConfig, listener>>

Done == at = "handedBack" /\ UNCHANGED setupVars

-----------------------------------------------------------------------------
Ready == at \in {"listening", "wrapped", "handedBack"}

(* In a GovCloud region nothing but an explicit "false", of the user's     *)
(* Config or of a variable that parses, turns FIPS mode off, and a         *)
(* listener in FIPS mode has no API client.                                *)
GovCloudIsFIPS ==
  Ready /\ env.govCloud =>
    \/ cfg.given /\ cfg.FIPSMode = "false"
    \/ (cfg.given => cfg.FIPSMode = "") /\ env.fips = "false"
    \/ metricsConfig.FIPSMode /\ listener.apiClient = "nil"

(* setupAppSec redirects the runtime API before it is known whether the    *)
(* listeners will work with the extension (ddlambda.go:380-391,            *)
(* extension.go:95-116). If its file can be looked at, they do, with       *)
(* metrics if statsd can be reached and with tracing if it is on, for      *)
(* every customer who did not turn universal instrumentation off; tracing  *)
(* never does for one who did, and metrics if the extension answers. If    *)
(* the file cannot be looked at, neither does, although the API is         *)
(* redirected.                                                             *)
TracesToExtension ==
  /\ traceConfig.DDTraceEnabled /\ traceConfig.UniversalInstrumentation
  /\ listener.isExtensionRunning

RedirectionIsServed ==
  Ready /\ env.redirected =>
    /\ env.file = "present" /\ env.universal # "false" =>
         /\ env.statsdWorks => listener.isAgentRunning
         /\ traceConfig.DDTraceEnabled => TracesToExtension
    /\ env.file = "present" /\ env.universal = "false" =>
         /\ ~TracesToExtension
         /\ env.statsdWorks => (listener.isAgentRunning <=> env.answers)
    /\ env.file # "present" => ~TracesToExtension /\ ~listener.isAgentRunning

(* A handler that was accepted is called with arguments that it can take,  *)
(* so that the call by reflection does not panic (wrap_handler.go:161),    *)
(* but for two kinds of handlers: those whose first argument implements    *)
(* context.Context without being it, and variadic ones. Otherwise it gets  *)
(* a value of each of its own types, its error is its last result and its  *)
(* response the first of two.                                              *)
CallFitsHandler ==
  call # Pending /\ call # NotCalled =>
    /\ call.panics <=> \/ handler.variadic = "typed"
                       \/ Len(handler.in) > 0 /\ handler.in[1] = "contextLike"
    /\ ~call.panics =>
         /\ call.arguments = handler.in
         /\ call.results.error > 0 => handler.out[call.results.error] = "error"
         /\ call.results.response # call.results.error \/ handler.out = <<>>

(* The documentation of Config: HTTPClientTimeout is a time limit for      *)
(* requests to the API, which defaults to 5s, and after                    *)
(* CircuitBreakerTotalFailures, by default 4, the breaker opens.  Neither  *)
(* holds: the client of a user who sets no timeout has no limit, and what  *)
(* the user sets for the breaker has no effect.                            *)
SettingsHonoured ==
  Ready /\ cfg.given =>
    /\ listener.apiClient = "made" =>
         listener.clientTimeout = OrDefault(cfg.HTTPClientTimeout, defaultHttpClientTimeout)
    /\ metricsConfig.CircuitBreakerTotalFailures =
         OrDefault(cfg.CircuitBreakerTotalFailures, defaultCircuitBreakerTotalFailures)

=============================================================================
