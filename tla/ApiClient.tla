----------------------------- MODULE ApiClient ------------------------------
(***************************************************************************)
(* The API client of internal/metrics/api.go and its API key.  A key that  *)
(* is given encrypted is decrypted by KMS (kms_decrypter.go) in a goroutine*)
(* started with the client; the first SendMetrics waits for it on an       *)
(* unbuffered channel.  The calls of SendMetrics come from one metrics     *)
(* processor after the other, one at a time (QuiescentWhenIdle of module   *)
(* Invocation).                                                            *)
(***************************************************************************)
EXTENDS Naturals, Sequences

CONSTANT MaxSends   \* bound of the model: calls of SendMetrics

ASSUME ApiClientAssumption == MaxSends \in Nat

(* The values of a key: none, the one given by the user's Config or by the *)
(* environment, the one KMS gave for the encrypted key of either.          *)
GivenKeys == {"", "config", "environment"}
DecryptedKeys == {"", "decryptedConfig", "decryptedEnvironment"}
Keys == GivenKeys \cup DecryptedKeys

(* A key to be decrypted: where it comes from, and whether it is encrypted *)
(* with the CLI or in the console, or is no base64.                        *)
NoKMSKey == [form |-> "none", from |-> ""]
KMSKeys ==
  {NoKMSKey} \cup [form : {"cli", "console", "bad"}, from : {"config", "environment"}]

VARIABLES
  given,              \* the option apiKey, "" if there is none
  kmsAPIKey,          \* the option kmsAPIKey
  apiKey,             \* the client's field apiKey
  apiKeyDecryptChan,  \* the client's field of that name: "nil", "open", "closed"
  decrypter,          \* the goroutine of decryptAPIKey
  result,             \* what Decrypt has returned
  refused,            \* history: the key that could not be decrypted
  ctxDone,            \* the context of the current invocation is done
  sender,             \* where the current SendMetrics stands
  sends,              \* number of calls of SendMetrics so far
  requests            \* history: the keys of the requests made, in order

options == <<given, kmsAPIKey>>
vars == <<options, apiKey, apiKeyDecryptChan, decrypter, result, refused, ctxDone,
          sender, sends, requests>>

-----------------------------------------------------------------------------
(* MakeAPIClient starts a decryption unless a key is given as it is.       *)
NeedsDecryption(key, kmsKey) == key = "" /\ kmsKey # NoKMSKey

DecryptChan(key, kmsKey) == IF NeedsDecryption(key, kmsKey) THEN "open" ELSE "nil"
DecryptGoroutine(key, kmsKey) == IF NeedsDecryption(key, kmsKey) THEN "plain" ELSE "none"

Init ==
  /\ given \in GivenKeys /\ kmsAPIKey \in KMSKeys
  /\ apiKey = given
  /\ apiKeyDecryptChan = DecryptChan(given, kmsAPIKey)
  /\ decrypter = DecryptGoroutine(given, kmsAPIKey)
  /\ result = "" /\ refused = NoKMSKey /\ ctxDone = FALSE
  /\ sender = "idle" /\ sends = 0 /\ requests = <<>>

-----------------------------------------------------------------------------
(* decryptKMS: a key that is no base64 fails at once; a key encrypted with *)
(* the CLI is decrypted without encryption context, one encrypted in the   *)
(* console only with it, and either call of KMS may fail.  What KMS gives  *)
(* is the plaintext, not what it was sent.                                 *)
Ciphertext == "ciphertext"
Plaintext == IF kmsAPIKey.from = "config" THEN "decryptedConfig" ELSE "decryptedEnvironment"

(* The goroutine sends an empty key when the decryption has failed; one    *)
(* that stopped there instead would never be heard of.                     *)
StopsAfterFailure == "gone"
AfterFailure == "sending"

Succeed ==
  result' = Plaintext /\ decrypter' = "sending" /\ UNCHANGED refused

GiveUp ==
  UNCHANGED result /\ decrypter' = AfterFailure /\ refused' = kmsAPIKey

DecryptPlain ==
  /\ decrypter = "plain"
  /\ \/ kmsAPIKey.form = "cli" /\ Succeed
     \/ kmsAPIKey.form # "bad" /\ decrypter' = "withContext" /\ UNCHANGED <<result, refused>>
     \/ kmsAPIKey.form = "bad" /\ GiveUp
  /\ UNCHANGED <<options, apiKey, apiKeyDecryptChan, ctxDone, sender, sends,
                 requests>>

DecryptWithContext ==
  /\ decrypter = "withContext"
  /\ (kmsAPIKey.form = "console" /\ Succeed) \/ GiveUp
  /\ UNCHANGED <<options, apiKey, apiKeyDecryptChan, ctxDone, sender, sends,
                 requests>>

(* The goroutine's close of the channel, after SendMetrics has received.   *)
CloseChannel ==
  /\ decrypter = "closing"
  /\ decrypter' = "gone"
  /\ apiKeyDecryptChan' = IF apiKeyDecryptChan = "open" THEN "closed"
                          ELSE apiKeyDecryptChan
  /\ UNCHANGED <<options, apiKey, result, refused, ctxDone, sender, sends, requests>>

-----------------------------------------------------------------------------
(* SendMetrics starts, and waits for the key if it is being decrypted.     *)
SendMetrics ==
  /\ sender = "idle" /\ sends < MaxSends
  /\ sends' = sends + 1
  /\ sender' = IF apiKeyDecryptChan # "nil" THEN "waiting" ELSE "ready"
  /\ UNCHANGED <<options, apiKey, apiKeyDecryptChan, decrypter, result, refused,
                 ctxDone, requests>>

(* The key is received, and the client forgets the channel, so that it     *)
(* does not receive again: from a closed channel that is the empty key.    *)
KeepsChannel == apiKeyDecryptChan
ForgetsChannel == "nil"

ReceiveKey ==
  /\ sender = "waiting"
  /\ \/ /\ apiKeyDecryptChan = "open" /\ decrypter = "sending"
        /\ apiKey' = result /\ decrypter' = "closing"
     \/ /\ apiKeyDecryptChan = "closed"
        /\ apiKey' = "" /\ UNCHANGED decrypter
  /\ apiKeyDecryptChan' = ForgetsChannel
  /\ sender' = "ready"
  /\ UNCHANGED <<options, result, refused, ctxDone, sends, requests>>

(* The request is made with the key and the context of this moment.        *)
DoRequest ==
  /\ sender = "ready"
  /\ sender' = "sent"
  /\ requests' = IF ctxDone THEN requests ELSE Append(requests, apiKey)
  /\ UNCHANGED <<options, apiKey, apiKeyDecryptChan, decrypter, result, refused,
                 ctxDone, sends>>

(* The request is answered, fails, or ends with its context.               *)
SendMetricsReturns ==
  /\ sender = "sent"
  /\ sender' = "idle"
  /\ UNCHANGED <<options, apiKey, apiKeyDecryptChan, decrypter, result, refused,
                 ctxDone, sends, requests>>

(* The invocation's context ends, and the next HandlerStarted gives the    *)
(* client a new one when the last processor is done with it.               *)
ContextEnds ==
  /\ ~ctxDone /\ ctxDone' = TRUE
  /\ UNCHANGED <<options, apiKey, apiKeyDecryptChan, decrypter, result, refused,
                 sender, sends, requests>>

NewContext ==
  /\ ctxDone /\ sender = "idle" /\ ctxDone' = FALSE
  /\ UNCHANGED <<options, apiKey, apiKeyDecryptChan, decrypter, result, refused,
                 sender, sends, requests>>

Decrypter == DecryptPlain \/ DecryptWithContext \/ CloseChannel
Sender == ReceiveKey \/ DoRequest \/ SendMetricsReturns

Next == Decrypter \/ SendMetrics \/ Sender \/ ContextEnds \/ NewContext

(* KMS answers (the AWS client has its own timeouts), a request is         *)
(* answered or ends with its context, and the Go scheduler is fair.        *)
Spec == Init /\ [][Next]_vars /\ WF_vars(Decrypter) /\ WF_vars(Sender)

-----------------------------------------------------------------------------
(* Every variable has its type, and the channel is nil when nothing can be *)
(* received from it any more.                                              *)
TypeOK ==
  /\ given \in GivenKeys /\ kmsAPIKey \in KMSKeys
  /\ apiKey \in Keys /\ result \in DecryptedKeys /\ refused \in KMSKeys
  /\ apiKeyDecryptChan \in {"nil", "open", "closed"}
  /\ decrypter \in {"none", "plain", "withContext", "sending", "closing", "gone"}
  /\ ctxDone \in BOOLEAN /\ sender \in {"idle", "waiting", "ready", "sent"}
  /\ sends \in 0 .. MaxSends /\ requests \in Seq(Keys)

(* No request is made before the key is decided: it carries the key that   *)
(* was given, or else the one KMS decrypted, and an empty one only if none *)
(* was configured or the decryption has failed for good.  In particular    *)
(* all requests of a process carry the same key: a decrypted key is not    *)
(* lost to the empty one that a closed channel gives.                      *)
RequestsCarryKey ==
  \A i \in DOMAIN requests :
    IF given # "" THEN requests[i] = given
    ELSE /\ requests[i] = result
         /\ kmsAPIKey # NoKMSKey => decrypter \in {"closing", "gone"}

(* SendMetrics comes back, although it waits for KMS without looking at    *)
(* its context.                                                            *)
SendReturns == sender # "idle" ~> sender = "idle"

=============================================================================
