------------------------------ MODULE Diagnostics ------------------------------
(***************************************************************************)
(* "Comprobar equipo": the checks of diagnostics/checks.py in the order in *)
(* which DiagnosticsRunner.run (diagnostics/runner.py) asks them, each     *)
(* skipped when its premise failed, and the report that the window lets a  *)
(* class start on (api/app.py).                                            *)
(*                                                                         *)
(* What may be wrong with the classroom is a set of troubles, one for      *)
(* every way a check's question can be answered.  Every await of run is a  *)
(* step, and a trouble may come or go between two of them.                 *)
(***************************************************************************)
EXTENDS FiniteSets, Naturals

CONSTANTS
  MaxTroubles,  \* bound: troubles at a time
  MaxChanges    \* bound: troubles that come or go in a behaviour

ASSUME DiagnosticsAssumption == MaxTroubles \in Nat /\ MaxChanges \in Nat

VARIABLES
  provider,   \* ai_provider of the settings
  troubles,   \* what is wrong
  awaiting,   \* the await that run is in
  results,    \* the results of the run under way
  last,       \* context.last_report
  unsteady,   \* history: something changed since the run under way began
  outdated,   \* history: something changed since the run of last began
  changes

diagnosticsVars ==
  <<provider, troubles, awaiting, results, last, unsteady, outdated, changes>>

SoundTroubles == {"no PortAudio", "no devices answer", "no input", "no output",
                  "input gone", "output gone"}
ModelTroubles == {"no phrase model", "no base models"}
ServerTroubles == {"server unavailable", "server unexpected"}
NetworkTroubles == {"dns silent", "dns unknown", "certificate untrusted",
                    "port closed", "traffic inspected", "certificate expired",
                    "certificate expiring", "certificate undated"}
KeyTroubles == {"no key", "key sealed", "api silent", "api unreachable",
                "key rejected", "usage limit", "api incident"}
\* The upgrade refused with a status, the first event, or neither.
SessionTroubles == {"no import", "socket silent", "socket refused",
                    "HTTP 401", "HTTP 404", "HTTP 407", "HTTP 429", "HTTP 5xx",
                    "HTTP other", "not JSON", "unknown model", "account error",
                    "other event", "session silent", "slow network",
                    "slow session"}

Troubles == SoundTroubles \cup ModelTroubles \cup ServerTroubles \cup
            NetworkTroubles \cup KeyTroubles \cup SessionTroubles

Status == {"OK", "WARNING", "FAILED", "SKIPPED"}

\* The checks that every report has, and those of each provider.
LocalChecks == {"microphone", "speakers", "wakeword_model"}
NetworkChecks == {"dns", "tls", "api_key", "realtime"}
ChecksOf(p) ==
  LocalChecks \cup IF p = "local" THEN {"local_server"} ELSE NetworkChecks

Reports == UNION {[C -> Status] : C \in {ChecksOf("local"), ChecksOf("openai")}}
NoReport == [c \in {} |-> "OK"]

DiagnosticsType ==
  /\ provider \in {"openai", "local"}
  /\ troubles \subseteq Troubles /\ Cardinality(troubles) <= MaxTroubles
  /\ awaiting \in {"nobody", "local_server", "dns", "tls", "api_key", "realtime"}
  /\ DOMAIN results \subseteq LocalChecks \cup NetworkChecks
  /\ \A c \in DOMAIN results : results[c] \in Status
  /\ last = NoReport \/ last \in Reports
  /\ unsteady \in BOOLEAN /\ outdated \in BOOLEAN
  /\ changes \in 0..MaxChanges

FewTroubles ==
  {{}} \cup {{t[i] : i \in 1..MaxTroubles} : t \in [1..MaxTroubles -> Troubles]}

\* Whether anything may be wrong at all.
DiagnosticsInit(some) ==
  /\ provider \in IF some THEN {"openai", "local"} ELSE {"openai"}
  /\ troubles \in IF some THEN FewTroubles ELSE {{}}
  /\ awaiting = "nobody" /\ results = NoReport /\ last = NoReport
  /\ unsteady = FALSE /\ outdated = FALSE /\ changes = 0

-----------------------------------------------------------------------------
(* The checks *)

Any(T, some) == T \cap some # {}

\* The first outcome whose trouble is there; nothing is wrong otherwise.
Failing(T, failed, warned) ==
  IF Any(T, failed) THEN "FAILED" ELSE IF Any(T, warned) THEN "WARNING" ELSE "OK"

\* probe_devices: no list of devices at all
NoInventory == {"no PortAudio", "no devices answer"}

CheckMicrophone(T) == Failing(T, NoInventory \cup {"no input"}, {"input gone"})
CheckSpeakers(T) == Failing(T, NoInventory \cup {"no output"}, {"output gone"})
CheckWakewordModel(T) == Failing(T, ModelTroubles, {})
CheckLocalServer(T) == Failing(T, ServerTroubles, {})
CheckDns(T) == Failing(T, {"dns silent", "dns unknown"}, {})

\* The issuer is looked at before the date, and a certificate without a date
\* is accepted.
CheckTls(T) ==
  IF Any(T, {"certificate untrusted", "port closed"}) THEN "FAILED"
  ELSE IF "traffic inspected" \in T THEN "WARNING"
  ELSE IF "certificate undated" \in T THEN "OK"
  ELSE Failing(T, {"certificate expired"}, {"certificate expiring"})

\* get_api_key: what is known of the key without awaiting the network
KeyUnusable(T) == Any(T, {"no key", "key sealed"})

CheckApiKey(T) ==
  IF Any(T, {"api silent", "api unreachable"}) THEN "FAILED"
  ELSE Failing(T, {"key rejected", "api incident"}, {"usage limit"})

\* check_connection: the statuses of the upgrade, then the first event.
Handshake(T) ==
  IF "socket silent" \in T THEN "TIMEOUT"
  ELSE IF "socket refused" \in T THEN "UNREACHABLE"
  ELSE IF "HTTP 401" \in T THEN "INVALID_KEY"
  ELSE IF "HTTP 404" \in T THEN "MODEL_NOT_AUTHORISED"
  ELSE IF Any(T, {"HTTP 429", "HTTP 407", "HTTP 5xx"}) THEN "BLOCKED"
  ELSE IF "HTTP other" \in T THEN "UNREACHABLE"
  ELSE IF "session silent" \in T THEN "TIMEOUT"
  ELSE IF "not JSON" \in T THEN "UNREACHABLE"
  ELSE IF "unknown model" \in T THEN "MODEL_NOT_AUTHORISED"
  ELSE IF "account error" \in T THEN "BLOCKED"
  ELSE IF "other event" \in T THEN "UNREACHABLE" ELSE "OK"

\* Fault: every refused handshake is only a warning.
CheckRealtimeKindly(T) ==
  IF "no import" \in T THEN "FAILED"
  ELSE IF Handshake(T) = "OK" THEN Failing(T, {}, {"slow network", "slow session"})
  ELSE "WARNING"

CheckRealtime(T) ==
  IF "no import" \in T THEN "FAILED"
  ELSE IF Handshake(T) = "OK" THEN Failing(T, {}, {"slow network", "slow session"})
  ELSE IF Handshake(T) = "BLOCKED" THEN "WARNING" ELSE "FAILED"

Blocking(status) == status = "FAILED"

-----------------------------------------------------------------------------
(* The run *)

\* A run that has asked these, with these answers, goes on to the next await,
\* or ends and skips what it did not ask.
Answered(answers) ==
  [c \in DOMAIN results \cup DOMAIN answers |->
     IF c \in DOMAIN answers THEN answers[c] ELSE results[c]]

GoesOn(answers, next) ==
  /\ results' = Answered(answers)
  /\ awaiting' = next
  /\ UNCHANGED <<last, unsteady, outdated>>

Ends(answers) ==
  /\ last' = [c \in ChecksOf(IF awaiting = "local_server" THEN "local" ELSE "openai") |->
                IF c \in DOMAIN Answered(answers) THEN Answered(answers)[c]
                ELSE "SKIPPED"]
  /\ outdated' = unsteady
  /\ awaiting' = "nobody" /\ results' = NoReport /\ unsteady' = FALSE

One(check, status) == [c \in {check} |-> status]

\* The devices and the model are looked at before the first await.
RunDiagnostics ==
  /\ awaiting = "nobody"
  /\ awaiting' = IF provider = "local" THEN "local_server" ELSE "dns"
  /\ results' = [microphone |-> CheckMicrophone(troubles),
                 speakers |-> CheckSpeakers(troubles),
                 wakeword_model |-> CheckWakewordModel(troubles)]
  /\ unsteady' = FALSE
  /\ UNCHANGED <<last, outdated>>

LocalServerAnswers ==
  /\ awaiting = "local_server"
  /\ Ends(One("local_server", CheckLocalServer(troubles)))

DnsAnswers ==
  /\ awaiting = "dns"
  /\ LET dns == CheckDns(troubles) IN
       IF Blocking(dns) THEN Ends(One("dns", dns)) ELSE GoesOn(One("dns", dns), "tls")

\* The key is read before the next await: one that is sealed or missing needs
\* no request.
TlsAnswers ==
  /\ awaiting = "tls"
  /\ LET tls == CheckTls(troubles) IN
       IF Blocking(tls) THEN Ends(One("tls", tls))
       ELSE IF KeyUnusable(troubles) THEN Ends([tls |-> tls, api_key |-> "FAILED"])
       ELSE GoesOn(One("tls", tls), "api_key")

ApiAnswers ==
  /\ awaiting = "api_key"
  /\ LET key == CheckApiKey(troubles) IN
       IF Blocking(key) THEN Ends(One("api_key", key))
       ELSE GoesOn(One("api_key", key), "realtime")

RealtimeAnswers ==
  /\ awaiting = "realtime"
  /\ Ends(One("realtime", CheckRealtime(troubles)))

DiagnosticsRequests ==
  /\ RunDiagnostics \/ LocalServerAnswers \/ DnsAnswers \/ TlsAnswers
       \/ ApiAnswers \/ RealtimeAnswers
  /\ UNCHANGED <<provider, troubles, changes>>

\* The classroom or its settings change.
Changes ==
  /\ changes < MaxChanges
  /\ changes' = changes + 1
  /\ \/ /\ \E t \in Troubles \ troubles : troubles' = troubles \cup {t}
        /\ Cardinality(troubles') <= MaxTroubles
        /\ UNCHANGED provider
     \/ /\ \E t \in troubles : troubles' = troubles \ {t}
        /\ UNCHANGED provider
     \/ /\ provider' \in {"openai", "local"} \ {provider}
        /\ UNCHANGED troubles
  /\ unsteady' = (awaiting # "nobody")
  /\ outdated' = (last # NoReport)
  /\ UNCHANGED <<awaiting, results, last>>

DiagnosticsStep == DiagnosticsRequests \/ Changes

\* The last report is kept in memory only.
DiagnosticsRestart ==
  /\ awaiting' = "nobody" /\ results' = NoReport /\ last' = NoReport
  /\ unsteady' = FALSE /\ outdated' = FALSE
  /\ UNCHANGED <<provider, troubles, changes>>

ReadyToStart(report) == \A c \in DOMAIN report : ~Blocking(report[c])

-----------------------------------------------------------------------------
(* Properties *)

\* What a class cannot do without, whoever answers it.
NeedsSound == NoInventory \cup {"no input", "no output"}

\* What an answer by OpenAI needs.  An account or a proxy that refuses for now
\* is not in it (checks.py:430): the check says so and the class may start.
NeedsOpenAi ==
  (NetworkTroubles \cup KeyTroubles \cup SessionTroubles)
    \ {"traffic inspected", "certificate expiring", "certificate undated",
       "usage limit", "HTTP 407", "HTTP 429", "HTTP 5xx", "account error",
       "slow network", "slow session"}

Needs == NeedsSound \cup ModelTroubles
           \cup IF provider = "local" THEN ServerTroubles ELSE NeedsOpenAi

\* "The class may only start once the checks pass" (runner.py:42), and they pass
\* when the class could be given: of the classroom as it was from the first
\* question to the last, the report says ready exactly when nothing that a class
\* needs was wrong, whatever was skipped.  Two troubles are hidden by others: the
\* date of a certificate by an issuer that is not public, and a handshake that
\* would fail behind one that is only refused for now.
Hidden ==
  (IF "traffic inspected" \in troubles \/ "certificate undated" \in troubles
     THEN {"certificate expired"} ELSE {})
  \cup
  (IF Handshake(troubles) = "BLOCKED" THEN SessionTroubles \ {"no import"} ELSE {})

ReportIsTrue ==
  last # NoReport /\ ~outdated =>
    (ReadyToStart(last) <=> troubles \cap Needs \subseteq Hidden)
==============================================================================
