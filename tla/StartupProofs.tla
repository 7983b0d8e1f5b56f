---------------------------- MODULE StartupProofs ----------------------------
(***************************************************************************)
(* Theorems about the start of the process, for every set of inputs and    *)
(* every number of SendMetrics calls: the API key on its way from the user *)
(* to the requests, FIPS mode, and the call of the handler by reflection.  *)
(***************************************************************************)
EXTENDS Startup, TLAPS

(* How far the decryption is decides what the client and SendMetrics know. *)
KeyInv ==
  /\ TypeOK
  /\ given # "" => decrypter = "none" /\ apiKeyDecryptChan = "nil" /\ apiKey = given
  /\ given = "" /\ kmsAPIKey # NoKMSKey => decrypter # "none"
  /\ kmsAPIKey = NoKMSKey => decrypter = "none"
  /\ decrypter = "none" => apiKeyDecryptChan = "nil" /\ apiKey = given
  /\ decrypter \in {"none", "plain", "withContext"} => result = "" /\ refused = NoKMSKey
  /\ decrypter \in {"sending", "closing", "gone"} =>
       \/ result = Plaintext /\ refused = NoKMSKey
       \/ result = "" /\ refused = kmsAPIKey
  /\ decrypter \in {"plain", "withContext", "sending"} =>
       apiKeyDecryptChan = "open" /\ DOMAIN requests = {} /\ sender \in {"idle", "waiting"}
  /\ decrypter \in {"closing", "gone"} => apiKeyDecryptChan = "nil" /\ apiKey = result
  /\ sender = "waiting" => apiKeyDecryptChan = "open"

(* Appending a request to the history adds one key at its end. *)
LEMMA AppendKey ==
  ASSUME NEW s \in Seq(Keys), NEW k \in Keys
  PROVE  /\ Append(s, k) \in Seq(Keys)
         /\ \A i \in DOMAIN Append(s, k) :
              (i \in DOMAIN s /\ Append(s, k)[i] = s[i]) \/ Append(s, k)[i] = k
OBVIOUS

(* The empty history of requests, which is of every type.                  *)
LEMMA NoRequests ==
  ASSUME NEW r, r = <<>>
  PROVE  (\A S : r \in Seq(S)) /\ DOMAIN r = {}
OBVIOUS

(* The client is made with nothing decrypted and nothing requested. *)
LEMMA ClientInit == Init => KeyInv /\ RequestsCarryKey
<1> SUFFICES ASSUME Init PROVE KeyInv /\ RequestsCarryKey
    OBVIOUS
<1> USE DEF Init, GivenKeys, DecryptedKeys, KMSKeys, Keys
<1>1. /\ given \in GivenKeys /\ kmsAPIKey \in KMSKeys /\ apiKey = given
      /\ result = "" /\ refused = NoKMSKey /\ refused \in KMSKeys /\ ctxDone \in BOOLEAN /\ sender = "idle" /\ sends = 0
  OBVIOUS
<1>2. IF given = "" /\ kmsAPIKey # NoKMSKey
        THEN apiKeyDecryptChan = "open" /\ decrypter = "plain"
        ELSE apiKeyDecryptChan = "nil" /\ decrypter = "none"
  BY DEF DecryptChan, DecryptGoroutine, NeedsDecryption
<1>3. /\ requests \in Seq(Keys)
      /\ DOMAIN requests = {}
  <2> HIDE DEF Keys
  <2>1. requests = <<>>
    OBVIOUS
  <2> HIDE DEF Init
  <2> QED
    BY <2>1, NoRequests, Zenon
<1>4. sends \in 0 .. MaxSends
  <2>1. sends = 0
    BY <1>1
  <2> HIDE DEF Init
  <2> QED
    BY <2>1, ApiClientAssumption
<1> HIDE DEF Init, Keys
<1>5. apiKey \in Keys
  BY <1>1 DEF Keys
<1>6. TypeOK
  BY <1>1, <1>2, <1>3, <1>4, <1>5 DEF TypeOK, DecryptedKeys
<1>7. RequestsCarryKey
  BY <1>3, Zenon DEF RequestsCarryKey
<1> QED
  BY <1>1, <1>2, <1>6, <1>7, <1>3 DEF KeyInv

(* Every step of the client and of its decryption keeps the invariant. *)
LEMMA ClientStep ==
  KeyInv /\ RequestsCarryKey /\ [Next]_vars => KeyInv' /\ RequestsCarryKey'
<1> SUFFICES ASSUME KeyInv, RequestsCarryKey, [Next]_vars
             PROVE  KeyInv' /\ RequestsCarryKey'
    OBVIOUS
<1> USE DEF KeyInv, TypeOK, RequestsCarryKey, GivenKeys, DecryptedKeys, Keys
<1>0. Plaintext \in DecryptedKeys /\ NoKMSKey \in KMSKeys
  BY DEF Plaintext, KMSKeys
<1>1. CASE DecryptPlain
  BY <1>0, <1>1 DEF DecryptPlain, Succeed, GiveUp, options, Plaintext, AfterFailure
<1>2. CASE DecryptWithContext
  BY <1>0, <1>2 DEF DecryptWithContext, Succeed, GiveUp, options, Plaintext, AfterFailure
<1>3. CASE CloseChannel
  BY <1>3 DEF CloseChannel, options, Plaintext
<1>4. CASE SendMetrics
  <2>1. sends' \in 0 .. MaxSends
    <3>1. sends < MaxSends /\ sends' = sends + 1
      BY <1>4 DEF SendMetrics
    <3>2. sends \in 0 .. MaxSends
      OBVIOUS
    <3> HIDE <1>4
    <3> HIDE DEF KeyInv, RequestsCarryKey, TypeOK
    <3> QED
      BY <3>1, <3>2, ApiClientAssumption
  <2>2. /\ UNCHANGED <<given, kmsAPIKey, apiKey, apiKeyDecryptChan, decrypter, result,
                       refused, ctxDone, requests>>
        /\ sender = "idle"
        /\ sender' = IF apiKeyDecryptChan # "nil" THEN "waiting" ELSE "ready"
    BY <1>4 DEF SendMetrics, options
  <2> HIDE <1>4
  <2> HIDE DEF RequestsCarryKey
  <2>3. RequestsCarryKey'
    BY <2>2, Zenon DEF RequestsCarryKey
  <2>4. TypeOK'
    BY <2>1, <2>2
  <2>5. KeyInv'
    BY <2>2, <2>4 DEF Plaintext
  <2> QED
    BY <2>3, <2>5
<1>5. CASE ReceiveKey
  BY <1>5 DEF ReceiveKey, options, ForgetsChannel, Plaintext
<1>6. CASE DoRequest
  <2>1. CASE ctxDone
    BY <1>6, <2>1 DEF DoRequest, options, Plaintext
  <2>2. CASE ~ctxDone
    <3>1. requests' = Append(requests, apiKey)
      BY <1>6, <2>2 DEF DoRequest
    <3>2. /\ requests' \in Seq(Keys)
          /\ \A i \in DOMAIN requests' :
               (i \in DOMAIN requests /\ requests'[i] = requests[i]) \/ requests'[i] = apiKey
      BY <3>1, AppendKey
    <3>3. sender = "ready" /\ sender' = "sent" /\ UNCHANGED <<given, kmsAPIKey, apiKey,
            apiKeyDecryptChan, decrypter, result, refused, ctxDone, sends>>
      BY <1>6 DEF DoRequest, options
    <3> HIDE DEF Keys
    <3>4. KeyInv'
      BY <3>2, <3>3 DEF Plaintext
    <3>5. IF given # "" THEN apiKey = given
          ELSE apiKey = result /\ (kmsAPIKey # NoKMSKey => decrypter \in {"closing", "gone"})
      BY <3>3 DEF KeyInv
    <3>6. RequestsCarryKey'
      BY <3>2, <3>3, <3>5
    <3> QED
      BY <3>4, <3>6
  <2> QED
    BY <2>1, <2>2
<1>7. CASE SendMetricsReturns
  BY <1>7 DEF SendMetricsReturns, options, Plaintext
<1>8. CASE ContextEnds \/ NewContext
  BY <1>8 DEF ContextEnds, NewContext, options, Plaintext
<1>9. CASE UNCHANGED vars
  BY <1>9 DEF vars, options, Plaintext
<1> QED
  BY <1>1, <1>2, <1>3, <1>4, <1>5, <1>6, <1>7, <1>8, <1>9 DEF Next, Decrypter, Sender

-----------------------------------------------------------------------------
(* What WrapFunction has resolved, and that nobody uses the client early.  *)
FieldsOK ==
  /\ env.apiKey \in {"", "environment"} /\ env.kmsAPIKey \in EncryptedKeys("environment")
  /\ env.fips \in OptionalBool /\ env.universal \in OptionalBool
  /\ env.redirected => env.file # "absent"
  /\ cfg \in UserConfigs

KeysResolved ==
  IF listener.apiClient = "made"
    THEN /\ given = ConfigFirst(Setting(cfg.APIKey, ""), env.apiKey, "")
         /\ kmsAPIKey = ConfigFirst(Setting(cfg.KMSAPIKey, NotEncrypted), env.kmsAPIKey, NotEncrypted)
    ELSE given = "" /\ kmsAPIKey = NoKMSKey

ListenersResolved ==
  /\ metricsConfig.FIPSMode = calculateFipsMode
  /\ listener.apiClient = IF metricsConfig.FIPSMode THEN "nil" ELSE "made"
  /\ traceConfig.UniversalInstrumentation = Parsed(env.universal, TRUE)
  /\ listener.isExtensionRunning = IsExtensionRunning
  /\ listener.isAgentRunning = (IsExtensionRunning /\ env.statsdWorks)

SetupInv ==
  /\ at \in {"start", "appSec", "listening", "wrapped", "handedBack"}
  /\ at = "start" => env \in Environments
  /\ FieldsOK
  /\ Ready => ListenersResolved

ClientInv ==
  /\ ~Ready => given = "" /\ kmsAPIKey = NoKMSKey
  /\ Ready => KeysResolved
  /\ sender # "idle" \/ DOMAIN requests # {} => at = "wrapped" /\ UsesAPI

HandlerInv ==
  /\ handler \in Handlers
  /\ at = "wrapped" => validateHandler
  /\ CallFitsHandler

(* Before the listeners are made the options are the initial ones. *)
LEMMA StartupInitInv ==
  StartupInit => KeyInv /\ RequestsCarryKey /\ SetupInv /\ ClientInv /\ HandlerInv
<1> SUFFICES ASSUME StartupInit
             PROVE  KeyInv /\ RequestsCarryKey /\ SetupInv /\ ClientInv /\ HandlerInv
    OBVIOUS
<1>1. KeyInv /\ RequestsCarryKey
  BY ClientInit DEF StartupInit
<1>2. env \in Environments /\ cfg \in UserConfigs /\ handler \in Handlers /\ at = "start"
      /\ call = Pending
  BY SetupAssumption DEF StartupInit, SetupInit
<1>3. FieldsOK
  BY <1>2 DEF FieldsOK, Environments
<1>4. SetupInv
  BY <1>2, <1>3 DEF SetupInv, Ready
<1>5. sender = "idle" /\ given = "" /\ kmsAPIKey = NoKMSKey
  BY DEF StartupInit, Init
<1>6. DOMAIN requests = {}
  <2>1. requests = <<>>
    BY DEF StartupInit, Init
  <2> QED
    BY <2>1, NoRequests, Zenon
<1>7. ClientInv
  BY <1>2, <1>5, <1>6 DEF ClientInv, Ready
<1>8. HandlerInv
  BY <1>2 DEF HandlerInv, CallFitsHandler
<1> QED
  BY <1>1, <1>4, <1>7, <1>8

StartupInv == KeyInv /\ RequestsCarryKey /\ SetupInv /\ ClientInv /\ HandlerInv

(* Nothing that the invariant says of the client's variables changes when  *)
(* they do not.                                                            *)
LEMMA ClientUnchanged ==
  KeyInv /\ RequestsCarryKey /\ UNCHANGED vars => KeyInv' /\ RequestsCarryKey'
BY ClientStep DEF Next

(* setupAppSec changes the environment, but no key and no FIPS setting. *)
LEMMA SetupAppSecStep == StartupInv /\ SetupAppSec /\ UNCHANGED vars => StartupInv'
<1> SUFFICES ASSUME StartupInv, SetupAppSec, UNCHANGED vars PROVE StartupInv'
    OBVIOUS
<1>1. KeyInv' /\ RequestsCarryKey'
  BY ClientUnchanged DEF StartupInv
<1>2. /\ at = "start" /\ at' = "appSec" /\ env \in Environments
      /\ UNCHANGED <<cfg, handler, call, traceConfig, metricsConfig, listener>>
      /\ FieldsOK
  BY DEF SetupAppSec, StartupInv, SetupInv
<1>3. /\ env'.apiKey = env.apiKey /\ env'.kmsAPIKey = env.kmsAPIKey /\ env'.fips = env.fips
      /\ env'.file = env.file /\ (env'.redirected => env.redirected \/ env.file # "absent")
      /\ (env'.universal = env.universal \/ env'.universal = "true")
  BY <1>2 DEF SetupAppSec, Environments
<1>4. FieldsOK'
  BY <1>2, <1>3 DEF FieldsOK, OptionalBool
<1>5. SetupInv'
  BY <1>2, <1>4 DEF SetupInv, Ready
<1>6. UNCHANGED <<given, kmsAPIKey, sender, requests>>
  BY DEF vars, options
<1>7. ClientInv'
  BY <1>2, <1>6 DEF StartupInv, ClientInv, Ready
<1>8. HandlerInv'
  BY <1>2 DEF StartupInv, HandlerInv, CallFitsHandler
<1> QED
  BY <1>1, <1>5, <1>7, <1>8 DEF StartupInv

(* The listeners are made once, and the client with the resolved keys. *)
LEMMA MakeListenersStep == StartupInv /\ MakeListeners => StartupInv'
<1> SUFFICES ASSUME StartupInv, MakeListeners PROVE StartupInv'
    OBVIOUS
<1>1. at = "appSec" /\ at' = "listening" /\ UNCHANGED <<env, cfg, handler, call>>
  BY DEF MakeListeners, InitializeListeners
<1>2. /\ given = "" /\ kmsAPIKey = NoKMSKey /\ sender = "idle" /\ DOMAIN requests = {}
      /\ FieldsOK
  BY <1>1 DEF StartupInv, ClientInv, SetupInv, Ready
<1>3. /\ metricsConfig'.FIPSMode = calculateFipsMode
      /\ metricsConfig'.APIKey = ConfigFirst(Setting(cfg.APIKey, ""), env.apiKey, "")
      /\ metricsConfig'.KMSAPIKey =
           ConfigFirst(Setting(cfg.KMSAPIKey, NotEncrypted), env.kmsAPIKey, NotEncrypted)
      /\ traceConfig'.UniversalInstrumentation = Parsed(env.universal, TRUE)
      /\ listener'.apiClient = IF calculateFipsMode THEN "nil" ELSE "made"
      /\ listener'.isExtensionRunning = IsExtensionRunning
      /\ listener'.isAgentRunning = (IsExtensionRunning /\ env.statsdWorks)
  <2>1. metricsConfig' =
          [toMetricsConfig EXCEPT
            !.HTTPClientTimeout = OrDefault(@, defaultHttpClientTimeout),
            !.CircuitBreakerTotalFailures = OrDefault(@, defaultCircuitBreakerTotalFailures)]
    BY DEF MakeListeners, InitializeListeners
  <2>2. /\ metricsConfig'.FIPSMode = toMetricsConfig.FIPSMode
        /\ metricsConfig'.APIKey = toMetricsConfig.APIKey
        /\ metricsConfig'.KMSAPIKey = toMetricsConfig.KMSAPIKey
    BY <2>1 DEF toMetricsConfig
  <2>3. /\ toMetricsConfig.FIPSMode = calculateFipsMode
        /\ toMetricsConfig.APIKey = ConfigFirst(Setting(cfg.APIKey, ""), env.apiKey, "")
        /\ toMetricsConfig.KMSAPIKey =
             ConfigFirst(Setting(cfg.KMSAPIKey, NotEncrypted), env.kmsAPIKey, NotEncrypted)
    BY DEF toMetricsConfig
  <2>4. traceConfig'.UniversalInstrumentation = Parsed(env.universal, TRUE)
    BY DEF MakeListeners, InitializeListeners, toTraceConfig
  <2>5. /\ listener'.apiClient = IF toMetricsConfig.FIPSMode THEN "nil" ELSE "made"
        /\ listener'.isExtensionRunning = IsExtensionRunning
        /\ listener'.isAgentRunning = (IsExtensionRunning /\ env.statsdWorks)
    BY DEF MakeListeners, InitializeListeners, MakeListener
  <2> QED
    BY <2>2, <2>3, <2>4, <2>5
<1>4. ListenersResolved'
  BY <1>1, <1>3 DEF ListenersResolved, calculateFipsMode, FipsDefault, Parsed,
                    IsExtensionRunning, toTraceConfig
<1>5. SetupInv'
  <2>1. FieldsOK'
    BY <1>1, <1>2 DEF FieldsOK
  <2> QED
    BY <1>1, <1>4, <2>1 DEF SetupInv
<1>6. KeysResolved'
  <2>1. CASE listener'.apiClient = "made"
    <3>1. given' = metricsConfig'.APIKey /\ kmsAPIKey' = metricsConfig'.KMSAPIKey
      BY <2>1 DEF MakeListeners
    <3> QED
      BY <1>1, <1>3, <2>1, <3>1 DEF KeysResolved, ConfigFirst, Setting
  <2>2. CASE listener'.apiClient # "made"
    <3>1. given' = given /\ kmsAPIKey' = kmsAPIKey
      BY <2>2 DEF MakeListeners, options
    <3> QED
      BY <1>2, <2>2, <3>1 DEF KeysResolved
  <2> QED
    BY <2>1, <2>2
<1>7. UNCHANGED <<result, refused, ctxDone, sender, sends, requests>> /\ apiKey' = given'
  BY DEF MakeListeners
<1>8. ClientInv'
  BY <1>1, <1>2, <1>6, <1>7 DEF ClientInv, Ready
<1>9. given' \in GivenKeys /\ kmsAPIKey' \in KMSKeys
  <2>1. /\ cfg.given \in BOOLEAN /\ cfg.APIKey \in {"", "config"}
        /\ cfg.KMSAPIKey \in EncryptedKeys("config")
    BY <1>2 DEF FieldsOK, UserConfigs
  <2>2. env.apiKey \in {"", "environment"} /\ env.kmsAPIKey \in EncryptedKeys("environment")
    BY <1>2 DEF FieldsOK
  <2>3. /\ ConfigFirst(Setting(cfg.APIKey, ""), env.apiKey, "") \in GivenKeys
        /\ ConfigFirst(Setting(cfg.KMSAPIKey, NotEncrypted), env.kmsAPIKey, NotEncrypted) \in KMSKeys
    BY <2>1, <2>2 DEF ConfigFirst, Setting, GivenKeys, KMSKeys, EncryptedKeys, NotEncrypted, NoKMSKey
  <2> QED
    BY <1>1, <1>6, <2>3 DEF KeysResolved, GivenKeys, KMSKeys, ConfigFirst, Setting
<1>10. KeyInv' /\ RequestsCarryKey'
  <2>1. IF given' = "" /\ kmsAPIKey' # NoKMSKey
          THEN apiKeyDecryptChan' = "open" /\ decrypter' = "plain"
          ELSE apiKeyDecryptChan' = "nil" /\ decrypter' = "none"
    BY DEF MakeListeners, DecryptChan, DecryptGoroutine, NeedsDecryption
  <2>2. TypeOK /\ result = "" /\ refused = NoKMSKey
    BY <1>2 DEF StartupInv, KeyInv
  <2>3. apiKey' \in Keys
    BY <1>7, <1>9 DEF Keys
  <2>4. TypeOK'
    BY <1>7, <1>9, <2>1, <2>2, <2>3 DEF TypeOK
  <2>5. KeyInv'
    BY <1>2, <1>7, <2>1, <2>2, <2>4 DEF KeyInv
  <2>6. RequestsCarryKey'
    BY <1>2, <1>7 DEF RequestsCarryKey
  <2> QED
    BY <2>5, <2>6
<1>11. HandlerInv'
  BY <1>1 DEF StartupInv, HandlerInv, CallFitsHandler
<1> QED
  BY <1>5, <1>8, <1>10, <1>11 DEF StartupInv

(* validateHandler decides whether the handler is ever called. *)
LEMMA WrapStep ==
  StartupInv /\ (WrapHandlerWithListeners \/ Done) /\ UNCHANGED vars => StartupInv'
<1> SUFFICES ASSUME StartupInv, WrapHandlerWithListeners \/ Done, UNCHANGED vars
             PROVE  StartupInv'
    OBVIOUS
<1>1. KeyInv' /\ RequestsCarryKey'
  BY ClientUnchanged DEF StartupInv
<1>2. /\ UNCHANGED <<env, cfg, handler, traceConfig, metricsConfig, listener, call>>
      /\ Ready /\ Ready' /\ at' \in {"wrapped", "handedBack"} /\ at # "wrapped"
      /\ at' = "wrapped" => validateHandler
  BY DEF WrapHandlerWithListeners, Done, setupVars, Ready
<1>3. SetupInv'
  BY <1>2 DEF StartupInv, SetupInv, FieldsOK, ListenersResolved, calculateFipsMode, FipsDefault,
              Parsed, IsExtensionRunning, toTraceConfig
<1>4. UNCHANGED <<given, kmsAPIKey, sender, requests>>
  BY DEF vars, options
<1>5. ClientInv'
  BY <1>2, <1>4 DEF StartupInv, ClientInv, KeysResolved, Setting, ConfigFirst, UsesAPI
<1>6. HandlerInv'
  BY <1>2 DEF StartupInv, HandlerInv, CallFitsHandler, validateHandler
<1> QED
  BY <1>1, <1>3, <1>5, <1>6 DEF StartupInv

(* The sequences callHandler builds of the types of one or two arguments. *)
LEMMA Arguments0 == ASSUME NEW S, NEW s \in Seq(S), Len(s) = 0 PROVE <<>> = s
OBVIOUS

(* The same for one argument. *)
LEMMA Arguments1 == ASSUME NEW S, NEW s \in Seq(S), Len(s) = 1 PROVE <<s[1]>> = s
OBVIOUS

(* The same for two arguments. *)
LEMMA Arguments2 == ASSUME NEW S, NEW s \in Seq(S), Len(s) = 2 PROVE <<s[1], s[2]>> = s
OBVIOUS

(* A sequence of at most two elements has one of three lengths.            *)
LEMMA UpToTwo ==
  ASSUME NEW S, NEW s \in Seq(S), Len(s) <= 2 PROVE Len(s) \in {0, 1, 2}
<1> DEFINE n == Len(s)
<1>1. n \in Nat
  OBVIOUS
<1> HIDE DEF n
<1>2. n <= 2 => n \in {0, 1, 2}
  BY <1>1
<1> QED
  BY <1>2, Zenon DEF n

(* A validated handler is called with arguments of its types, unless it is *)
(* variadic or its first argument only implements context.Context.         *)
MayPanic ==
  handler.variadic = "typed" \/ (Len(handler.in) > 0 /\ handler.in[1] = "contextLike")

LEMMA ArgumentsFit ==
  ASSUME handler \in Handlers, validateHandler
  PROVE  (Panics <=> MayPanic) /\ (~Panics => Arguments = handler.in)
<1> DEFINE Types == {"context", "contextLike", "payload"}
<1>1. handler.in \in Seq(Types) /\ Len(handler.in) \in {0, 1, 2}
  <2>1. handler.in \in Seq(Types) /\ Len(handler.in) <= 2
    BY DEF Handlers, validateHandler
  <2> HIDE DEF Types
  <2> QED
    BY <2>1, UpToTwo, Zenon
<1>2. /\ handler.variadic \in {"no", "any", "typed"}
      /\ handler.variadic # "no" => Len(handler.in) > 0 /\ messageType = "payload"
  BY DEF Handlers, messageType
<1>3. CASE Len(handler.in) = 0
  <2>1. Arguments = <<>> /\ DOMAIN Arguments = {}
    BY <1>3 DEF Arguments
  <2>2. handler.variadic = "no"
    BY <1>2, <1>3
  <2>3. ~Panics /\ ~MayPanic
    BY <1>3, <2>1, <2>2 DEF Panics, MayPanic
  <2>4. Arguments = handler.in
    BY <1>1, <1>3, <2>1, Arguments0, Zenon
  <2> QED
    BY <2>3, <2>4
<1>4. CASE Len(handler.in) = 1
  <2>1. messageType = handler.in[1] /\ handler.in[1] \in Types
    BY <1>1, <1>4 DEF messageType
  <2>2. Arguments = IF Implements(handler.in[1]) THEN <<"context">> ELSE <<handler.in[1]>>
    BY <1>4, <2>1 DEF Arguments, NeedsEvent
  <2>3. /\ DOMAIN Arguments = {1}
        /\ Arguments[1] = handler.in[1] <=> handler.in[1] # "contextLike"
    BY <2>1, <2>2 DEF Implements
  <2>4. Panics <=> ~Assignable(1)
    BY <2>3 DEF Panics
  <2>5. Panics <=> MayPanic
    BY <1>2, <1>4, <2>1, <2>3, <2>4 DEF Assignable, MayPanic
  <2>6. handler.in[1] # "contextLike" => Arguments = <<handler.in[1]>>
    BY <2>1, <2>2 DEF Implements
  <2>7. handler.in[1] # "contextLike" => Arguments = handler.in
    BY <1>1, <1>4, <2>6, Arguments1, Zenon
  <2> QED
    BY <1>4, <2>5, <2>7 DEF MayPanic
<1>5. CASE Len(handler.in) = 2
  <2>1. /\ messageType = handler.in[2] /\ handler.in[1] \in {"context", "contextLike"}
    BY <1>5 DEF messageType, validateHandler, Implements
  <2>2. Arguments = <<"context", handler.in[2]>>
    BY <1>5, <2>1 DEF Arguments
  <2>3. DOMAIN Arguments = {1, 2} /\ Arguments[1] = "context" /\ Arguments[2] = handler.in[2]
    BY <2>2
  <2>4. Assignable(1) <=> handler.in[1] = "context"
    BY <1>5, <2>3 DEF Assignable
  <2>5. Assignable(2) <=> handler.variadic # "typed"
    BY <1>2, <1>5, <2>3 DEF Assignable
  <2>6. Panics <=> ~Assignable(1) \/ ~Assignable(2)
    BY <2>3 DEF Panics
  <2>7. Panics <=> MayPanic
    BY <1>5, <2>1, <2>4, <2>5, <2>6 DEF MayPanic
  <2>8. handler.in[1] = "context" => Arguments = <<handler.in[1], handler.in[2]>>
    BY <2>2
  <2>9. handler.in[1] = "context" => Arguments = handler.in
    BY <1>1, <1>5, <2>8, Arguments2, Zenon
  <2> QED
    BY <2>4, <2>6, <2>7, <2>9
<1> QED
  BY <1>1, <1>3, <1>4, <1>5

(* The call of the handler by reflection. *)
LEMMA CallStep == StartupInv /\ CallHandler /\ UNCHANGED vars => StartupInv'
<1> SUFFICES ASSUME StartupInv, CallHandler, UNCHANGED vars PROVE StartupInv'
    OBVIOUS
<1>1. KeyInv' /\ RequestsCarryKey'
  BY ClientUnchanged DEF StartupInv
<1>2. /\ UNCHANGED <<env, cfg, handler, at, traceConfig, metricsConfig, listener>>
      /\ at = "wrapped"
      /\ call' = NotCalled
         \/ call' = [called |-> TRUE, panics |-> Panics, arguments |-> Arguments,
                     results |-> Results]
  BY DEF CallHandler
<1>3. SetupInv'
  BY <1>2 DEF StartupInv, SetupInv, FieldsOK, ListenersResolved, calculateFipsMode, FipsDefault,
              Parsed, IsExtensionRunning, toTraceConfig, Ready
<1>4. UNCHANGED <<given, kmsAPIKey, sender, requests>>
  BY DEF vars, options
<1>5. ClientInv'
  BY <1>2, <1>4 DEF StartupInv, ClientInv, KeysResolved, Setting, ConfigFirst, UsesAPI, Ready
<1>6. handler \in Handlers /\ validateHandler
  BY <1>2 DEF StartupInv, HandlerInv
<1>7. CallFitsHandler'
  <2>1. CASE call' = NotCalled
    BY <2>1 DEF CallFitsHandler, NotCalled
  <2>2. CASE call' = [called |-> TRUE, panics |-> Panics, arguments |-> Arguments,
                      results |-> Results]
    <3>1. (call'.panics <=> MayPanic) /\ (~call'.panics => call'.arguments = handler'.in)
      BY <1>2, <1>6, <2>2, ArgumentsFit
    <3>2. /\ call'.results.error = Len(handler.out)
          /\ call'.results.response = IF Len(handler.out) > 1 THEN 1 ELSE 0
      BY <2>2 DEF Results
    <3>3. /\ handler.out \in Seq({"value", "error"}) /\ Len(handler.out) <= 2
          /\ Len(handler.out) > 0 => handler.out[Len(handler.out)] = "error"
      BY <1>6 DEF Handlers, validateHandler
    <3>4. call'.results.response # call'.results.error \/ handler.out = <<>>
      <4>1. CASE Len(handler.out) = 0
        <5>1. handler.out \in Seq({"value", "error"})
          BY <3>3
        <5>2. <<>> = handler.out
          BY <4>1, <5>1, Arguments0, Zenon
        <5> QED
          BY <5>2, Zenon
      <4>2. CASE Len(handler.out) # 0
        <5>1. Len(handler.out) \in {0, 1, 2}
          BY <3>3, UpToTwo, Zenon
        <5> QED
          BY <3>2, <4>2, <5>1
      <4> QED
        BY <4>1, <4>2
    <3> QED
      BY <1>2, <3>1, <3>2, <3>3, <3>4 DEF CallFitsHandler, MayPanic
  <2> QED
    BY <1>2, <2>1, <2>2
<1>8. HandlerInv'
  BY <1>2, <1>6, <1>7 DEF HandlerInv, validateHandler
<1> QED
  BY <1>1, <1>3, <1>5, <1>8 DEF StartupInv

(* A step of the client, which the processor uses only when it may, beside *)
(* a WrapFunction that does nothing meanwhile.                             *)
LEMMA ClientBesideSetup ==
  ASSUME StartupInv, Next, UNCHANGED setupVars,
         UNCHANGED <<sender, requests>> \/ sender # "idle" \/ (at = "wrapped" /\ UsesAPI)
  PROVE  StartupInv'
<1>1. KeyInv' /\ RequestsCarryKey'
  BY ClientStep DEF StartupInv
<1>2. UNCHANGED <<env, cfg, handler, at, traceConfig, metricsConfig, listener, call>>
  BY DEF setupVars
<1>3. UNCHANGED <<given, kmsAPIKey>>
  BY DEF Next, Decrypter, Sender, DecryptPlain, DecryptWithContext, CloseChannel, SendMetrics,
         ReceiveKey, DoRequest, SendMetricsReturns, ContextEnds, NewContext, options
<1>4. SetupInv'
  BY <1>2 DEF StartupInv, SetupInv, FieldsOK, ListenersResolved, calculateFipsMode, FipsDefault,
              Parsed, IsExtensionRunning, toTraceConfig, Ready
<1>5. UsesAPI' = UsesAPI
  BY <1>2 DEF UsesAPI
<1>6. (sender # "idle" \/ DOMAIN requests # {} => at = "wrapped" /\ UsesAPI)'
  BY <1>2, <1>5 DEF StartupInv, ClientInv
<1>7. ClientInv'
  BY <1>2, <1>3, <1>6 DEF StartupInv, ClientInv, KeysResolved, Setting, ConfigFirst, Ready
<1>8. HandlerInv'
  BY <1>2 DEF StartupInv, HandlerInv, CallFitsHandler, validateHandler
<1> QED
  BY <1>1, <1>4, <1>7, <1>8 DEF StartupInv

(* The invariant is inductive. *)
LEMMA StartupInvariant == StartupSpec => []StartupInv
<1>1. StartupInit => StartupInv
  BY StartupInitInv DEF StartupInv
<1>2. StartupInv /\ [StartupNext]_<<setupVars, vars>> => StartupInv'
  <2> SUFFICES ASSUME StartupInv, [StartupNext]_<<setupVars, vars>> PROVE StartupInv'
      OBVIOUS
  <2>1. CASE MakeListeners
    BY <2>1, MakeListenersStep
  <2>2. CASE Wrapping
    BY <2>2, SetupAppSecStep, WrapStep, CallStep DEF Wrapping
  <2>3. CASE Invocations
    BY <2>3, ClientBesideSetup DEF Invocations, Next
  <2>4. CASE DecrypterRuns
    <3>1. UNCHANGED <<sender, requests>>
      BY <2>4 DEF DecrypterRuns, Decrypter, DecryptPlain, DecryptWithContext, CloseChannel
    <3> QED
      BY <2>4, <3>1, ClientBesideSetup DEF DecrypterRuns, Next
  <2>5. CASE SenderRuns
    <3>1. sender # "idle"
      BY <2>5 DEF SenderRuns, Sender, ReceiveKey, DoRequest, SendMetricsReturns
    <3> QED
      BY <2>5, <3>1, ClientBesideSetup DEF SenderRuns, Next
  <2>6. CASE UNCHANGED <<setupVars, vars>>
    <3>1. UNCHANGED <<env, cfg, handler, at, traceConfig, metricsConfig, listener, call>>
          /\ UNCHANGED <<given, kmsAPIKey, sender, requests>> /\ UNCHANGED vars
      BY <2>6 DEF setupVars, vars, options
    <3>2. KeyInv' /\ RequestsCarryKey'
      BY <3>1, ClientUnchanged DEF StartupInv
    <3>3. SetupInv'
      BY <3>1 DEF StartupInv, SetupInv, FieldsOK, ListenersResolved, calculateFipsMode,
                  FipsDefault, Parsed, IsExtensionRunning, toTraceConfig, Ready
    <3>4. ClientInv'
      BY <3>1 DEF StartupInv, ClientInv, KeysResolved, Setting, ConfigFirst, UsesAPI, Ready
    <3>5. HandlerInv'
      BY <3>1 DEF StartupInv, HandlerInv, CallFitsHandler, validateHandler
    <3> QED
      BY <3>2, <3>3, <3>4, <3>5 DEF StartupInv
  <2> QED
    BY <2>1, <2>2, <2>3, <2>4, <2>5, <2>6 DEF StartupNext
<1> QED
  BY <1>1, <1>2, PTL DEF StartupSpec

-----------------------------------------------------------------------------
(* The client's variables keep their types, whatever the inputs. *)
THEOREM ClientTypeOK == StartupSpec => []TypeOK
<1>1. StartupInv => TypeOK
  BY DEF StartupInv, KeyInv
<1> QED
  BY StartupInvariant, <1>1, PTL

(* No request of api.go is made before the key is decided. *)
THEOREM EveryRequestCarriesKey == StartupSpec => []RequestsCarryKey
<1>1. StartupInv => RequestsCarryKey
  BY DEF StartupInv
<1> QED
  BY StartupInvariant, <1>1, PTL

(* The key of every request is the one the user has configured. *)
THEOREM EveryRequestUsersKey == StartupSpec => []UsersKey
<1>1. ASSUME StartupInv PROVE UsersKey
  <2> DEFINE Carried ==
        IF cfg.given /\ cfg.APIKey # "" THEN "config"
        ELSE IF env.apiKey # "" THEN "environment"
        ELSE IF UsersKMSKey.form = "none" \/ refused = UsersKMSKey THEN ""
        ELSE IF UsersKMSKey.from = "config" THEN "decryptedConfig"
        ELSE "decryptedEnvironment"
  <2> SUFFICES ASSUME NEW i \in DOMAIN requests
               PROVE  UsesAPI /\ ~metricsConfig.FIPSMode /\ requests[i] = Carried
      BY DEF UsersKey
  <2>1. /\ at = "wrapped" /\ UsesAPI /\ FieldsOK /\ KeysResolved
        /\ listener.apiClient = IF metricsConfig.FIPSMode THEN "nil" ELSE "made"
    BY <1>1 DEF StartupInv, ClientInv, SetupInv, ListenersResolved, Ready
  <2>2. listener.apiClient = "made" /\ ~metricsConfig.FIPSMode
    BY <2>1 DEF UsesAPI
  <2>3. /\ cfg.given \in BOOLEAN /\ cfg.APIKey \in {"", "config"}
        /\ cfg.KMSAPIKey \in EncryptedKeys("config") /\ env.apiKey \in {"", "environment"}
        /\ env.kmsAPIKey \in EncryptedKeys("environment")
    BY <2>1 DEF FieldsOK, UserConfigs
  <2>4. /\ given = IF cfg.given /\ cfg.APIKey # "" THEN "config"
                   ELSE IF env.apiKey # "" THEN "environment" ELSE ""
        /\ kmsAPIKey = UsersKMSKey
    <3>1. /\ given = ConfigFirst(Setting(cfg.APIKey, ""), env.apiKey, "")
          /\ kmsAPIKey = ConfigFirst(Setting(cfg.KMSAPIKey, NotEncrypted), env.kmsAPIKey,
                                     NotEncrypted)
      BY <2>1, <2>2 DEF KeysResolved
    <3>2. cfg.KMSAPIKey.form = "none" <=> cfg.KMSAPIKey = NotEncrypted
      <4>1. \/ cfg.KMSAPIKey = NotEncrypted
            \/ cfg.KMSAPIKey \in [form : {"cli", "console", "bad"}, from : {"config"}]
        BY <2>3 DEF EncryptedKeys
      <4>2. NotEncrypted.form = "none"
        BY DEF NotEncrypted
      <4>3. ASSUME cfg.KMSAPIKey \in [form : {"cli", "console", "bad"}, from : {"config"}]
            PROVE  cfg.KMSAPIKey.form # "none"
        BY <4>3
      <4> QED
        BY <4>1, <4>2, <4>3
    <3> QED
      BY <2>3, <3>1, <3>2 DEF ConfigFirst, Setting, UsersKMSKey
  <2>5. /\ given # "" => requests[i] = given
        /\ given = "" => requests[i] = result
        /\ given = "" /\ kmsAPIKey # NoKMSKey => decrypter \in {"closing", "gone"}
    BY <1>1 DEF StartupInv, RequestsCarryKey
  <2>6. CASE given # ""
    BY <2>1, <2>2, <2>4, <2>5, <2>6
  <2>7. CASE given = "" /\ kmsAPIKey = NoKMSKey
    <3>1. result = "" /\ kmsAPIKey.form = "none"
      BY <1>1, <2>7 DEF StartupInv, KeyInv, NoKMSKey
    <3> QED
      BY <2>1, <2>2, <2>4, <2>5, <2>7, <3>1
  <2>8. CASE given = "" /\ kmsAPIKey # NoKMSKey
    <3>1. /\ kmsAPIKey.form # "none"
          /\ \/ result = Plaintext /\ refused = NoKMSKey
             \/ result = "" /\ refused = kmsAPIKey
      BY <1>1, <2>5, <2>8 DEF StartupInv, KeyInv, TypeOK, KMSKeys, NoKMSKey
    <3>2. Carried = IF refused = kmsAPIKey THEN "" ELSE Plaintext
      BY <2>4, <2>8, <3>1 DEF Plaintext
    <3> QED
      BY <2>1, <2>2, <2>5, <2>8, <3>1, <3>2
  <2> QED
    BY <2>6, <2>7, <2>8
<1> QED
  BY StartupInvariant, <1>1, PTL

(* A GovCloud region means FIPS mode and no API client, unless it is turned *)
(* off by name: calculateFipsMode and MakeListener.                         *)
THEOREM GovCloudAlwaysFIPS == StartupSpec => []GovCloudIsFIPS
<1>1. ASSUME StartupInv, Ready, env.govCloud
      PROVE  \/ cfg.given /\ cfg.FIPSMode = "false"
             \/ (cfg.given => cfg.FIPSMode = "") /\ env.fips = "false"
             \/ metricsConfig.FIPSMode /\ listener.apiClient = "nil"
  <2>1. /\ metricsConfig.FIPSMode = calculateFipsMode
        /\ listener.apiClient = IF metricsConfig.FIPSMode THEN "nil" ELSE "made"
        /\ env.fips \in OptionalBool
        /\ cfg.FIPSMode \in OptionalBool
    BY <1>1 DEF StartupInv, SetupInv, ListenersResolved, FieldsOK, UserConfigs
  <2> QED
    BY <1>1, <2>1 DEF calculateFipsMode, FipsDefault, Parsed, OptionalBool
<1>2. StartupInv => GovCloudIsFIPS
  BY <1>1 DEF GovCloudIsFIPS
<1> QED
  BY StartupInvariant, <1>2, PTL

(* To whom the redirection of setupAppSec is of use: whether the listeners *)
(* work with the extension, for every environment and every Config.        *)
THEOREM RedirectionAlwaysServed == StartupSpec => []RedirectionIsServed
<1>1. ASSUME StartupInv, Ready, env.redirected
      PROVE  /\ env.file = "present" /\ env.universal # "false" =>
                  /\ env.statsdWorks => listener.isAgentRunning
                  /\ traceConfig.DDTraceEnabled => TracesToExtension
             /\ env.file = "present" /\ env.universal = "false" =>
                  /\ ~TracesToExtension
                  /\ env.statsdWorks => (listener.isAgentRunning <=> env.answers)
             /\ env.file # "present" => ~TracesToExtension /\ ~listener.isAgentRunning
  <2>1. /\ traceConfig.UniversalInstrumentation = Parsed(env.universal, TRUE)
        /\ listener.isExtensionRunning = IsExtensionRunning
        /\ listener.isAgentRunning = (IsExtensionRunning /\ env.statsdWorks)
        /\ env.universal \in OptionalBool
    BY <1>1 DEF StartupInv, SetupInv, ListenersResolved, FieldsOK
  <2>2. Parsed(env.universal, TRUE) <=> env.universal # "false"
    BY <2>1 DEF Parsed, OptionalBool
  <2>3. IsExtensionRunning <=> env.file = "present" /\ (env.universal # "false" \/ env.answers)
    BY <2>2 DEF IsExtensionRunning, toTraceConfig
  <2> QED
    BY <2>1, <2>2, <2>3 DEF TracesToExtension
<1>2. StartupInv => RedirectionIsServed
  BY <1>1 DEF RedirectionIsServed
<1> QED
  BY StartupInvariant, <1>2, PTL

(* The call by reflection in callHandler, for accepted handlers of every    *)
(* type: it panics for the two kinds of handlers that CallFitsHandler names *)
(* and no other, and all others get arguments of their own types, and their *)
(* last result is taken for the error.                                      *)
THEOREM CallAlwaysFits == StartupSpec => []CallFitsHandler
<1>1. StartupInv => CallFitsHandler
  BY DEF StartupInv, HandlerInv
<1> QED
  BY StartupInvariant, <1>1, PTL

=============================================================================
