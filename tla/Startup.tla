------------------------------- MODULE Startup -------------------------------
(***************************************************************************)
(* How replicas come up: main.run reads the environment, opens the store,  *)
(* which migrates the database, and then builds the audit sink, the rails, *)
(* the clients, the webhook keys, the idempotency store and the token      *)
(* check, each of them real, a stand-in, or a reason to refuse to start.   *)
(* The environment is that of the deployment; replicas start, stop and     *)
(* start again, and an operator may run the Down migrations meanwhile.     *)
(***************************************************************************)
EXTENDS Migrations, FiniteSets

CONSTANTS
  Rails,      \* rails of the deployment
  MaxMissing  \* how many settings of one environment are unset or blank

ASSUME StartupAssumption == "card" \in Rails /\ MaxMissing \in Nat

VARIABLES
  env,        \* the environment of every replica
  service     \* per replica, the service it is listening with

vars == <<schema, runner, faults, env, service>>

Var == {"DB_URL", "KAFKA_BROKERS", "REDIS_URL", "THREE_DS_MPI_URL", "FRAUD_URL",
        "SERVICE_TOKEN_SECRET", "WEBHOOK_SECRET"}

\* A blank value is not empty: for these two the code looks at what is in it.
Trimmed == {"KAFKA_BROKERS", "REDIS_URL"}

Environment == [dev    : BOOLEAN,
                var    : [Var -> {"set", "blank", "unset"}],
                urls   : SUBSET Rails,     \* rails with a RAIL_*_URL
                secrets : SUBSET Rails]    \* rails with a WEBHOOK_SECRET_*

None == [up |-> FALSE]

Set(x) == env.var[x] = "set"

\* The real thing, its stand-in under DEV_MODE=1, or log.Fatal.
Choose(isSet, real, standIn) ==
  IF isSet THEN real ELSE IF env.dev THEN standIn ELSE "fatal"

-----------------------------------------------------------------------------
(* The pieces of a service.                                                *)

NewStore == Choose(Set("DB_URL"), "postgres", "mem")

\* splitCSV of a blank list yields no broker, which NewKafkaSink refuses.
HasBrokers == Set("KAFKA_BROKERS")

NewAuditSink == Choose(HasBrokers, "kafka", "recorder")

NewMPIClient == Choose(Set("THREE_DS_MPI_URL"), "http", "dummy")

NewFraudClient == Choose(Set("FRAUD_URL"), "http", "dummy")

\* idempotency.Open trims the URL; when nothing is left of it, memory it is.
OpenIdempotency == IF env.var["REDIS_URL"] = "blank" THEN "mem" ELSE "redis"

NewIdempotencyStore == Choose(env.var["REDIS_URL"] # "unset", OpenIdempotency, "mem")

SecretFromEnv == Choose(Set("SERVICE_TOKEN_SECRET"), "token", "bypass")

MutantAlwaysFallsBack(x) == IF x \in env.urls THEN "http" ELSE "dummy"

\* Registry.For: nil ("none") for a rail without a URL, outside DEV_MODE.
RailFor(x) == IF x \in env.urls THEN "http" ELSE IF env.dev THEN "dummy" ELSE "none"

NewRailRegistry == [x \in Rails |-> RailFor(x)]

WebhookSecret(x) ==
  IF x \in env.secrets THEN x ELSE IF Set("WEBHOOK_SECRET") THEN "generic" ELSE "none"

MutantMergesKeys(keys) == [x \in Rails |-> IF x \in env.secrets THEN x ELSE keys[x]]

\* The secrets of the rails replace the keys NewService was given, all of them.
ApplyConfig(keys) ==
  IF env.secrets = {} THEN keys
  ELSE [x \in Rails |-> IF x \in env.secrets THEN x ELSE "none"]

\* NewService is given the secret of the card rail for every rail.
DefaultKeys == [x \in Rails |-> WebhookSecret("card")]

Service ==
  [up |-> TRUE, store |-> NewStore, audit |-> NewAuditSink, rails |-> NewRailRegistry,
   mpi |-> NewMPIClient, fraud |-> NewFraudClient, keys |-> ApplyConfig(DefaultKeys),
   idem |-> NewIdempotencyStore, auth |-> SecretFromEnv]

\* At least one rail must have a URL in production.
Fatal ==
  \/ env.urls = {} /\ ~env.dev
  \/ "fatal" \in {NewStore, NewAuditSink, NewMPIClient, NewFraudClient,
                  NewIdempotencyStore, SecretFromEnv}

-----------------------------------------------------------------------------
Init ==
  /\ InitSchema
  /\ env \in Environment
  /\ \A x \in Var \ Trimmed : env.var[x] # "blank"
  /\ Cardinality({x \in Var : ~Set(x)}) + Cardinality(Rails \ env.urls)
       + Cardinality(Rails \ env.secrets) <= MaxMissing
  /\ service = [r \in Runners |-> None]

\* newStore: postgres.Open migrates the database before anything else of the
\* environment is looked at.
Boot(r) ==
  /\ At(r, "idle")
  /\ \/ NewStore = "postgres" /\ BeginUp(r)
     \/ NewStore = "mem" /\ Goes(r, "ready", 1) /\ UNCHANGED <<schema, faults>>
  /\ UNCHANGED <<env, service>>

\* The rest of newService, NewMux and ListenAndServe; nothing others can see
\* happens in between.
Wire(r) ==
  /\ At(r, "ready")
  /\ service[r] = None
  /\ IF Fatal
     THEN Goes(r, "idle", 1) /\ UNCHANGED service
     ELSE service' = [service EXCEPT ![r] = Service] /\ UNCHANGED runner
  /\ UNCHANGED <<schema, faults, env>>

RunDown(r) ==
  /\ Set("DB_URL")
  /\ BeginDown(r)
  /\ UNCHANGED <<env, service>>

Migrate(r) == (MigrateUp(r) \/ MigrateDown(r)) /\ UNCHANGED <<env, service>>

\* A replica that serves is stopped, to be replaced or moved.
Stop(r) ==
  /\ service[r] # None
  /\ Goes(r, "idle", 1)
  /\ service' = [service EXCEPT ![r] = None]
  /\ UNCHANGED <<schema, faults, env>>

\* A statement, or the Ping of Redis, fails, or the process dies.
StartFails(r) ==
  /\ service[r] = None
  /\ Interrupt(r)
  /\ UNCHANGED <<env, service>>

Next ==
  \E r \in Runners :
    \/ Boot(r)
    \/ Migrate(r)
    \/ Wire(r)
    \/ RunDown(r)
    \/ Stop(r)
    \/ StartFails(r)

Spec == Init /\ [][Next]_vars

\* A process that has started runs; whether anyone starts it is open.
FairSpec == Spec /\ \A r \in Runners : WF_vars(Migrate(r) \/ Wire(r))

-----------------------------------------------------------------------------
(* Properties.                                                             *)

TypeOK ==
  /\ SchemaTypeOK
  /\ env \in Environment
  /\ \A r \in Runners : service[r] # None =>
       /\ service[r].store \in {"postgres", "mem"}
       /\ service[r].audit \in {"kafka", "recorder"}
       /\ service[r].rails \in [Rails -> {"http", "dummy", "none"}]
       /\ service[r].keys \in [Rails -> Rails \cup {"generic", "none"}]

\* Outside DEV_MODE no replica serves on a stand-in: newService refuses to
\* start rather than keep payments, audit events or idempotency keys in memory,
\* call a dummy or let requests in without a token.  The one exception is a
\* REDIS_URL of blanks, for which idempotency.Open returns the in-memory store.
NoStandInsInProduction ==
  \A r \in Runners : service[r] # None /\ ~env.dev =>
    /\ service[r].store = "postgres"
    /\ service[r].audit = "kafka"
    /\ service[r].mpi = "http" /\ service[r].fraud = "http"
    /\ service[r].auth = "token"
    /\ \A x \in Rails : service[r].rails[x] # "dummy"
    /\ \E x \in Rails : service[r].rails[x] = "http"
    /\ service[r].idem = "redis" \/ env.var["REDIS_URL"] = "blank"

\* The webhooks of a rail are never verified with the secret of another rail,
\* although NewService gives all of them the card rail's secret: ApplyConfig
\* replaces the keys as soon as one rail has a secret of its own.
NoForeignSecret ==
  \A r \in Runners, x \in Rails :
    service[r] # None => service[r].keys[x] \in {x, "generic", "none"}

\* A replica that serves on Postgres has the tables of every version, unless a
\* Down has dropped them: Up has seen each recorded by whoever ran its script,
\* or has run it itself.
ServesOnSchema ==
  \A r \in Runners :
    service[r] # None /\ service[r].store = "postgres" =>
      Versions \subseteq applied \cup reverted

\* If the environment names all it must, a replica that is started again and
\* again serves in the end, wherever earlier starts were interrupted and
\* whatever the other replicas' migrations left.
StartedServes ==
  (env.dev \/ (env.urls # {} /\ \A x \in Var \ {"WEBHOOK_SECRET"} : Set(x))) =>
    \A r \in Runners :
      []<>(runner[r].pc \in {"query_up", "ready"}) => <>(service[r] # None)

-----------------------------------------------------------------------------
(* The inductive invariant behind the safety properties.                   *)

\* Versions whose script has run, whatever Down did afterwards.
Ran == applied \cup reverted

\* Up has dealt with the versions before the one it is at, and records a
\* version only after its script.
RunnerSound(r) ==
  LET v == runner[r].version
  IN /\ runner[r].pc \in {"query_up", "apply", "record"} => v > 0 /\ 1 .. (v - 1) \subseteq Ran
     /\ runner[r].pc \in {"apply", "record", "revert", "unrecord"} => v \in Versions
     /\ At(r, "query_down") => v <= Latest
     /\ At(r, "record") => v \in Ran
     /\ At(r, "ready") /\ NewStore = "postgres" => Versions \subseteq Ran

\* What a replica serves with is what the environment makes of it.
ServicesSound ==
  /\ service = [r \in Runners |-> service[r]]
  /\ \A r \in Runners :
       service[r] # None => At(r, "ready") /\ service[r] = Service /\ ~Fatal

StartupInv ==
  /\ SchemaTypeOK
  /\ env \in Environment
  /\ RecordedIsApplied
  /\ \A r \in Runners : RunnerSound(r)
  /\ ServicesSound
=============================================================================
