--------------------------- MODULE ServiceConfig ---------------------------
(***************************************************************************)
(* The configuration: environment variables, defaults, validation, the     *)
(* profile resolved from it (config/config.ts, config.validators.ts), and  *)
(* the logger, which configures itself from the environment when it is     *)
(* imported and once more from the validated configuration.  The values of *)
(* a variable are the classes that the code tells apart.                   *)
(***************************************************************************)
EXTENDS Naturals

\* A numeric variable: unset, no number, zero, outside the valid range or in it.
Numbers == {"unset", "nan", "zero", "outside", "valid"}

VARIABLES
  env,       \* the environment of the process
  config,    \* what loadConfig returned, or NoConfig
  logging,   \* the logger's activeConfig
  phase      \* "imported", "loaded", "logging" (initialised from config), "exited"

vars == <<env, config, logging, phase>>

Envs ==
  [provider : {"unset", "local", "browserless", "other"}, endpoint : {"unset", "url", "garbage"},
   cdpPort : Numbers, port : Numbers, maxBytes : Numbers, viewport : {"unset", "unreadable", "outside", "valid"},
   level : {"unset", "empty", "debug", "warn", "INFO"}, nodeEnv : {"unset", "production", "staging"}]

NoConfig == [provider |-> "none"]

\* At most one numeric variable is set to anything but a valid value.
FewOddities(e) ==
  LET odd == {f \in {"cdpPort", "port", "maxBytes"} : e[f] # "valid"}
  IN  \A f, g \in odd : f = g

\* The logger's own reading of the environment.
ParseLevel(raw) == CASE raw \in {"debug", "warn"} -> raw [] OTHER -> "info"
Weight == [debug |-> 10, info |-> 20, warn |-> 30, error |-> 40]
Effective(level, nodeEnv) ==
  IF nodeEnv \in {"production", "staging"} /\ Weight[level] < Weight.warn THEN "warn" ELSE level

ImportedLogging(e) ==
  [level |-> Effective(ParseLevel(e.level), e.nodeEnv),
   maxBytes |-> IF e.maxBytes = "unset" THEN "valid" ELSE e.maxBytes]

Init ==
  /\ env \in {e \in Envs : FewOddities(e)}
  /\ config = NoConfig /\ phase = "imported"
  /\ logging = ImportedLogging(env)

\* Number(x) || default: zero and what is no number give the default.
OrDefault(n) == IF n \in {"unset", "nan", "zero"} THEN "valid" ELSE n

NumberOf(n) == OrDefault(n)

Provider == IF env.provider = "unset" THEN "local" ELSE env.provider

\* loadConfig before validation.
Raw ==
  [provider |-> Provider,
   endpoint |-> IF Provider = "browserless" THEN env.endpoint ELSE "unset",
   cdpPort |-> IF Provider = "browserless" THEN "unset" ELSE NumberOf(env.cdpPort),
   port |-> NumberOf(env.port),
   maxBytes |-> NumberOf(env.maxBytes),
   viewport |-> IF env.viewport \in {"unset", "unreadable"} THEN "valid" ELSE env.viewport,
   level |-> IF env.level = "unset" THEN "info" ELSE env.level,
   nodeEnv |-> IF env.nodeEnv = "unset" THEN "development" ELSE env.nodeEnv]

\* Mutant: the schema without its refinement: fields that are there have the right form.
ProfileValidByField(r) ==
  /\ r.provider \in {"local", "browserless"}
  /\ r.cdpPort \in {"unset", "valid"} /\ r.endpoint \in {"unset", "url"}

\* BrowserProfileSchema: each provider has its own address and no other.
ProfileValid(r) ==
  /\ r.provider \in {"local", "browserless"}
  /\ r.provider = "local" => r.cdpPort = "valid" /\ r.endpoint = "unset"
  /\ r.provider = "browserless" => r.endpoint = "url" /\ r.cdpPort = "unset"

Valid(r) ==
  /\ ProfileValid(r)
  /\ r.port = "valid" /\ r.maxBytes = "valid" /\ r.viewport = "valid"
  /\ r.level \in {"debug", "info", "warn", "error"}
  /\ r.nodeEnv \in {"development", "production", "test"}

\* A configuration that is not valid is thrown as an error: main rejects and
\* the process exits.
LoadConfig ==
  /\ phase = "imported"
  /\ IF Valid(Raw) THEN config' = Raw /\ phase' = "loaded" ELSE config' = NoConfig /\ phase' = "exited"
  /\ UNCHANGED <<env, logging>>

\* main: initializeLogging with every value of the configuration.
FromConfig == [level |-> Effective(config.level, config.nodeEnv), maxBytes |-> config.maxBytes]
InitializeLogging ==
  /\ phase = "loaded"
  /\ logging' = FromConfig
  /\ phase' = "logging"
  /\ UNCHANGED <<env, config>>

\* resolveProfile of the default profile.
BrowserEndpoint == IF config.provider = "local" THEN config.cdpPort ELSE config.endpoint

Next == LoadConfig \/ InitializeLogging

Spec == Init /\ [][Next]_vars

-----------------------------------------------------------------------------
TypeOK ==
  /\ phase \in {"imported", "loaded", "logging", "exited"}
  /\ (config = NoConfig) = (phase \in {"imported", "exited"})
  /\ logging.level \in DOMAIN Weight

\* Whatever the environment says, a service that goes on has an address for
\* its browser: resolveProfile never hands on an undefined endpoint.
EndpointResolved == config # NoConfig => BrowserEndpoint \in {"valid", "url"}

\* However the logger read the environment when it was imported, it writes
\* with the limits of the validated configuration once the service starts: the
\* file's size limit is a number, and production logs nothing below warn.
LoggerFollowsConfig ==
  phase = "logging" =>
    /\ logging.maxBytes = "valid"
    /\ env.nodeEnv = "production" => Weight[logging.level] >= Weight.warn
============================================================================
