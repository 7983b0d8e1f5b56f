------------------------------ MODULE Startup -------------------------------
(***************************************************************************)
(* The way of the API key from the user to the requests: WrapFunction      *)
(* (module Setup) resolves the key and makes the API client (module        *)
(* ApiClient), whose decryption goroutine runs from then on beside the     *)
(* rest of the start and the first invocations.                            *)
(***************************************************************************)
EXTENDS Setup, ApiClient

StartupInit == SetupInit /\ Init /\ given = "" /\ kmsAPIKey = NoKMSKey

(* initializeListeners: the client is made with the keys of the metrics    *)
(* configuration, unless in FIPS mode.                                     *)
MakeListeners ==
  /\ InitializeListeners
  /\ IF listener'.apiClient = "made"
       THEN given' = metricsConfig'.APIKey /\ kmsAPIKey' = metricsConfig'.KMSAPIKey
       ELSE UNCHANGED options
  /\ apiKey' = given'
  /\ apiKeyDecryptChan' = DecryptChan(given', kmsAPIKey')
  /\ decrypter' = DecryptGoroutine(given', kmsAPIKey')
  /\ UNCHANGED <<result, refused, ctxDone, sender, sends, requests>>

Wrapping ==
  /\ SetupAppSec \/ WrapHandlerWithListeners \/ CallHandler \/ Done
  /\ UNCHANGED vars

(* AddDistributionMetric gives the processor, which calls SendMetrics, only*)
(* what goes neither to the extension nor to the log, and nothing in FIPS  *)
(* mode, where there is no client.                                         *)
UsesAPI ==
  /\ listener.apiClient = "made" /\ ~listener.isAgentRunning
  /\ ~metricsConfig.ShouldUseLogForwarder

Invocations ==
  /\ at = "wrapped" /\ UsesAPI
  /\ SendMetrics \/ ContextEnds \/ NewContext
  /\ UNCHANGED setupVars

DecrypterRuns == Decrypter /\ UNCHANGED setupVars
SenderRuns == Sender /\ UNCHANGED setupVars

StartupNext == MakeListeners \/ Wrapping \/ Invocations \/ DecrypterRuns \/ SenderRuns

(* As in module ApiClient: KMS answers, a request is answered or ends with *)
(* its context, and the Go scheduler is fair.                              *)
StartupSpec ==
  /\ StartupInit /\ [][StartupNext]_<<setupVars, vars>>
  /\ WF_<<setupVars, vars>>(DecrypterRuns) /\ WF_<<setupVars, vars>>(SenderRuns)

-----------------------------------------------------------------------------
(* Every request carries the key the user has configured                   *)
(* (ddlambda.go:306-315, metrics/api.go:55-77): a key as it is, from the   *)
(* Config or else from the environment, before one that is to be           *)
(* decrypted, from the Config or else from the environment; and no key     *)
(* only if none of the four is configured, or if the encrypted one that    *)
(* counts could not be decrypted. A user who asks for FIPS mode, the log   *)
(* or the extension makes no request at all.                               *)
UsersKMSKey ==
  IF cfg.given /\ cfg.KMSAPIKey.form # "none" THEN cfg.KMSAPIKey ELSE env.kmsAPIKey

UsersKey ==
  \A i \in DOMAIN requests :
    /\ UsesAPI /\ ~metricsConfig.FIPSMode
    /\ requests[i] =
         IF cfg.given /\ cfg.APIKey # "" THEN "config"
         ELSE IF env.apiKey # "" THEN "environment"
         ELSE IF UsersKMSKey.form = "none" \/ refused = UsersKMSKey THEN ""
         ELSE IF UsersKMSKey.from = "config" THEN "decryptedConfig"
         ELSE "decryptedEnvironment"

=============================================================================
