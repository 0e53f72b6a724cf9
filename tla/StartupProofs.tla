---------------------------- MODULE StartupProofs ----------------------------
(***************************************************************************)
(* What replicas can rely on once they serve, for any number of replicas,  *)
(* versions and faults and every environment.                              *)
(***************************************************************************)
EXTENDS Startup, TLAPS

USE MigrationsAssumption, StartupAssumption

\* What a service is made of depends on the environment alone.
LEMMA ServiceFromEnv ==
  ASSUME env' = env PROVE Service' = Service /\ Fatal' = Fatal /\ NewStore' = NewStore
BY DEF Service, Fatal, NewStore, NewAuditSink, HasBrokers, NewRailRegistry, RailFor,
       NewMPIClient, NewFraudClient, ApplyConfig, DefaultKeys, WebhookSecret,
       NewIdempotencyStore, OpenIdempotency, SecretFromEnv, Choose, Set

\* A runner that does not move stays sound while scripts are only added to
\* those that have run.
LEMMA OthersSound ==
  ASSUME NEW r \in Runners, NEW s \in Runners, RunnerSound(s), runner'[s] = runner[s],
         env' = env, Ran \subseteq Ran'
  PROVE  RunnerSound(s)'
<1>1. NewStore' = NewStore
  BY ServiceFromEnv
<1> QED
  BY <1>1 DEF RunnerSound, At, Versions

\* A step of Up or Down keeps the types, moves one runner and forgets no script
\* that has run.
LEMMA MigrateShape ==
  ASSUME SchemaTypeOK, NEW r \in Runners, RunnerSound(r), MigrateUp(r) \/ MigrateDown(r)
  PROVE  /\ SchemaTypeOK'
         /\ Ran \subseteq Ran'
         /\ ~At(r, "ready")
         /\ \A s \in Runners : s # r => runner'[s] = runner[s]
<1> USE DEF SchemaTypeOK, Step, Versions, Ran, At, Goes, schema, RunnerSound
<1> DEFINE v == runner[r].version
<1>1. CASE QueryUp(r)
  BY <1>1 DEF QueryUp
<1>2. CASE Apply(r)
  BY <1>2 DEF Apply
<1>3. CASE Record(r)
  <2>1. v \in Versions /\ v + 1 \in 0 .. (Latest + 1) /\ ~At(r, "ready")
    BY <1>3 DEF Record
  <2>2. /\ runner' = [runner EXCEPT ![r] = [pc |-> "query_up", version |-> v + 1]]
        /\ recorded' = recorded \cup {v}
        /\ UNCHANGED <<ledger, applied, reverted, faults>>
    BY <1>3 DEF Record
  <2> QED
    BY <2>1, <2>2
<1>4. CASE QueryDown(r)
  BY <1>4 DEF QueryDown
<1>5. CASE Revert(r)
  BY <1>5 DEF Revert
<1>6. CASE Unrecord(r)
  <2>1. v \in Versions /\ v - 1 \in 0 .. (Latest + 1) /\ ~At(r, "ready")
    BY <1>6 DEF Unrecord
  <2>2. /\ runner' = [runner EXCEPT ![r] = [pc |-> "query_down", version |-> v - 1]]
        /\ recorded' = recorded \ {v}
        /\ UNCHANGED <<ledger, applied, reverted, faults>>
    BY <1>6 DEF Unrecord
  <2> QED
    BY <2>1, <2>2
<1> QED
  BY <1>1, <1>2, <1>3, <1>4, <1>5, <1>6 DEF MigrateUp, MigrateDown

\* Up goes on to the next version only when the one before has been run, by it
\* or by whoever recorded it.
LEMMA UpStep ==
  ASSUME SchemaTypeOK, RecordedIsApplied, NEW r \in Runners, RunnerSound(r), MigrateUp(r),
         env' = env
  PROVE  RunnerSound(r)' /\ RecordedIsApplied'
<1> DEFINE v == runner[r].version
<1> USE DEF SchemaTypeOK, Versions, Ran, At, Goes, schema
<1>1. v \in Int /\ v > 0 /\ 1 .. (v - 1) \subseteq Ran
  BY DEF MigrateUp, QueryUp, Apply, Record, RunnerSound
<1>2. ASSUME v \in Ran PROVE 1 .. v \subseteq Ran
  <2> SUFFICES ASSUME NEW n \in 1 .. v PROVE n \in Ran
    OBVIOUS
  <2>1. n = v \/ n \in 1 .. (v - 1)
    BY <1>1
  <2> QED
    BY <2>1, <1>1, <1>2
<1>3. CASE QueryUp(r)
  <2>1. UNCHANGED <<ledger, applied, recorded, reverted, faults>>
    BY <1>3 DEF QueryUp
  <2>2. RecordedIsApplied'
    BY <2>1 DEF RecordedIsApplied
  <2>3. CASE v > Latest /\ Goes(r, "ready", 1)
    <3>1. Versions \subseteq Ran
      BY <1>1, <2>3
    <3> QED
      BY <2>1, <2>2, <2>3, <3>1 DEF RunnerSound
  <2>4. CASE v \in recorded /\ Goes(r, "query_up", v + 1)
    <3>1. 1 .. ((v + 1) - 1) \subseteq Ran
      BY <1>1, <1>2, <2>4 DEF RecordedIsApplied
    <3> QED
      BY <1>1, <2>1, <2>2, <2>4, <3>1 DEF RunnerSound
  <2>5. CASE v \in Versions \ recorded /\ Goes(r, "apply", v)
    BY <1>1, <2>1, <2>2, <2>5 DEF RunnerSound
  <2> QED
    BY <1>3, <2>3, <2>4, <2>5 DEF QueryUp
<1>4. CASE Apply(r)
  <2>1. v \in Versions
    BY <1>4 DEF Apply, RunnerSound
  <2> QED
    BY <1>1, <1>4, <2>1 DEF Apply, RunnerSound, RecordedIsApplied
<1>5. CASE Record(r)
  <2>1. v \in Ran
    BY <1>5 DEF Record, RunnerSound
  <2>2. 1 .. ((v + 1) - 1) \subseteq Ran
    BY <1>1, <1>2, <2>1
  <2>3. UNCHANGED <<applied, reverted>> /\ recorded' = recorded \cup {v}
        /\ Goes(r, "query_up", v + 1)
    BY <1>5 DEF Record
  <2>4. RecordedIsApplied'
    BY <2>1, <2>3 DEF RecordedIsApplied
  <2>5. runner'[r] = [pc |-> "query_up", version |-> v + 1]
    BY <2>3
  <2>6. RunnerSound(r)'
    BY <1>1, <2>2, <2>3, <2>5 DEF RunnerSound
  <2> QED
    BY <2>4, <2>6
<1> QED
  BY <1>3, <1>4, <1>5 DEF MigrateUp

\* Down drops and forgets versions, but a script that has run has run.
LEMMA DownStep ==
  ASSUME SchemaTypeOK, RecordedIsApplied, NEW r \in Runners, RunnerSound(r), MigrateDown(r),
         env' = env
  PROVE  RunnerSound(r)' /\ RecordedIsApplied'
<1> USE DEF SchemaTypeOK, Versions, Ran, At, Goes, schema, RunnerSound, RecordedIsApplied
<1>1. CASE QueryDown(r)
  BY <1>1 DEF QueryDown
<1>2. CASE Revert(r)
  BY <1>2 DEF Revert
<1>3. CASE Unrecord(r)
  <2> DEFINE v == runner[r].version
  <2>1. v \in Versions
    BY <1>3 DEF Unrecord
  <2>2. /\ runner'[r] = [pc |-> "query_down", version |-> v - 1]
        /\ recorded' = recorded \ {v}
        /\ UNCHANGED <<applied, reverted>>
    BY <1>3 DEF Unrecord
  <2>3. RecordedIsApplied'
    BY <2>2
  <2>4. v - 1 <= Latest
    BY <2>1
  <2>5. RunnerSound(r)'
    BY ONLY <2>2, <2>4 DEF RunnerSound, At
  <2> QED
    BY <2>3, <2>5
<1> QED
  BY <1>1, <1>2, <1>3 DEF MigrateDown

\* Every step of every replica and of the operator keeps the invariant.
LEMMA InvStep == StartupInv /\ [Next]_vars => StartupInv'
<1> SUFFICES ASSUME StartupInv, [Next]_vars PROVE StartupInv'
  OBVIOUS
<1> USE DEF StartupInv
<1>0. CASE UNCHANGED vars
  <2>1. Service' = Service /\ Fatal' = Fatal /\ NewStore' = NewStore
    BY <1>0, ServiceFromEnv DEF vars
  <2>2. ServicesSound' /\ RecordedIsApplied' /\ SchemaTypeOK' /\ env' \in Environment
    BY <1>0, <2>1 DEF vars, schema, SchemaTypeOK, RecordedIsApplied, ServicesSound, At
  <2>3. ASSUME NEW s \in Runners PROVE RunnerSound(s)'
    BY <1>0, OthersSound DEF vars, schema, Ran
  <2> QED
    BY <2>2, <2>3
<1>1. SUFFICES ASSUME NEW r \in Runners,
                      \/ Boot(r) \/ Migrate(r) \/ Wire(r) \/ RunDown(r) \/ Stop(r)
                      \/ StartFails(r)
               PROVE  StartupInv'
  BY <1>0 DEF Next
<1>2. env' = env
  BY <1>1 DEF Boot, Migrate, Wire, RunDown, Stop, StartFails
<1>3. Service' = Service /\ Fatal' = Fatal /\ NewStore' = NewStore
  BY <1>2, ServiceFromEnv
<1>4. CASE Migrate(r)
  <2>1. /\ SchemaTypeOK' /\ Ran \subseteq Ran' /\ ~At(r, "ready")
        /\ \A s \in Runners : s # r => runner'[s] = runner[s]
    BY <1>4, MigrateShape DEF Migrate
  <2>2. RunnerSound(r)' /\ RecordedIsApplied'
    BY <1>2, <1>4, UpStep, DownStep DEF Migrate
  <2>3. \A s \in Runners : RunnerSound(s)'
    BY <1>2, <2>1, <2>2, OthersSound
  <2>4. ServicesSound'
    BY <1>3, <1>4, <2>1 DEF ServicesSound, Migrate, At
  <2> QED
    BY <1>2, <2>1, <2>2, <2>3, <2>4
<1>5. ASSUME UNCHANGED <<applied, recorded, reverted>>, SchemaTypeOK', RunnerSound(r)',
             \A s \in Runners : s # r => runner'[s] = runner[s] /\ service'[s] = service[s],
             service' = [s \in Runners |-> service'[s]],
             service'[r] # None => At(r, "ready")' /\ service'[r] = Service /\ ~Fatal
      PROVE  StartupInv'
  <2>1. \A s \in Runners : RunnerSound(s)'
    BY <1>2, <1>5, OthersSound DEF Ran
  <2>2. ServicesSound'
    BY <1>3, <1>5 DEF ServicesSound, At
  <2> QED
    BY <1>2, <1>5, <2>1, <2>2 DEF RecordedIsApplied
<1> USE DEF SchemaTypeOK, Step, Versions, At, Goes, schema
<1>6. CASE Boot(r)
  <2>1. service[r] = None
    BY <1>6 DEF Boot, ServicesSound
  <2>2. CASE NewStore = "postgres" /\ BeginUp(r)
    <3>1. RunnerSound(r)'
      BY <2>2 DEF BeginUp, RunnerSound
    <3> QED
      BY <1>5, <1>6, <2>1, <2>2, <3>1 DEF Boot, BeginUp, ServicesSound
  <2>3. CASE NewStore = "mem" /\ Goes(r, "ready", 1) /\ UNCHANGED <<schema, faults>>
    <3>1. RunnerSound(r)'
      BY <1>3, <2>3 DEF RunnerSound
    <3> QED
      BY <1>5, <1>6, <2>1, <2>3, <3>1 DEF Boot, ServicesSound
  <2> QED
    BY <1>6, <2>2, <2>3 DEF Boot
<1>7. CASE Wire(r)
  BY <1>3, <1>5, <1>7 DEF Wire, RunnerSound, ServicesSound, Ran
<1>8. CASE RunDown(r)
  BY <1>3, <1>5, <1>8 DEF RunDown, BeginDown, RunnerSound, ServicesSound
<1>9. CASE Stop(r)
  BY <1>3, <1>5, <1>9 DEF Stop, RunnerSound, ServicesSound
<1>10. CASE StartFails(r)
  BY <1>3, <1>5, <1>10 DEF StartFails, Interrupt, RunnerSound, ServicesSound
<1> QED
  BY <1>1, <1>4, <1>6, <1>7, <1>8, <1>9, <1>10

\* StartupInv is an invariant of starting, migrating and stopping replicas.
THEOREM StartupInvariant == Spec => []StartupInv
<1>1. Init => StartupInv
  <2> SUFFICES ASSUME Init PROVE StartupInv
    OBVIOUS
  <2>1. SchemaTypeOK /\ RecordedIsApplied
    <3>1. runner \in [Runners -> [pc : Step, version : 0 .. (Latest + 1)]]
      BY DEF Init, InitSchema, Step
    <3>2. ledger \in BOOLEAN
      BY Zenon DEF Init, InitSchema
    <3>3. faults \in 0 .. MaxFaults /\ applied = {} /\ recorded = {} /\ reverted = {}
      BY DEF Init, InitSchema
    <3> QED
      BY <3>1, <3>2, <3>3 DEF SchemaTypeOK, RecordedIsApplied
  <2>2. \A r \in Runners : RunnerSound(r)
    BY DEF Init, InitSchema, RunnerSound, At
  <2>3. ServicesSound
    <3>1. service = [r \in Runners |-> None]
      BY DEF Init
    <3>2. service = [r \in Runners |-> service[r]] /\ \A r \in Runners : service[r] = None
      BY ONLY <3>1
    <3> QED
      BY ONLY <3>2 DEF ServicesSound
  <2> QED
    BY <2>1, <2>2, <2>3 DEF StartupInv, Init
<1> QED
  BY <1>1, InvStep, PTL DEF Spec

\* schema_migrations names only versions whose script has run, however many
\* replicas migrate at once and wherever they stop.
THEOREM RecordsFollowScripts == Spec => []RecordedIsApplied
<1>1. StartupInv => RecordedIsApplied
  BY DEF StartupInv
<1> QED
  BY <1>1, StartupInvariant, PTL

\* A replica that serves on Postgres does so on the tables of every version
\* that no Down has dropped.
THEOREM ServingHasSchema == Spec => []ServesOnSchema
<1>1. StartupInv => ServesOnSchema
  <2> SUFFICES ASSUME StartupInv, NEW r \in Runners, service[r] # None,
                      service[r].store = "postgres"
               PROVE  Versions \subseteq applied \cup reverted
    BY DEF ServesOnSchema
  <2>1. At(r, "ready") /\ service[r] = Service
    BY DEF StartupInv, ServicesSound
  <2>2. NewStore = "postgres"
    BY <2>1 DEF Service
  <2> QED
    BY <2>1, <2>2 DEF StartupInv, RunnerSound, Ran
<1> QED
  BY <1>1, StartupInvariant, PTL

\* Outside DEV_MODE no replica serves on a stand-in, but for a REDIS_URL of
\* blanks.
THEOREM ProductionIsReal == Spec => []NoStandInsInProduction
<1>1. StartupInv => NoStandInsInProduction
  <2> SUFFICES ASSUME StartupInv, NEW r \in Runners, service[r] # None, ~env.dev
               PROVE  /\ service[r].store = "postgres"
                      /\ service[r].audit = "kafka"
                      /\ service[r].mpi = "http" /\ service[r].fraud = "http"
                      /\ service[r].auth = "token"
                      /\ \A x \in Rails : service[r].rails[x] # "dummy"
                      /\ \E x \in Rails : service[r].rails[x] = "http"
                      /\ service[r].idem = "redis" \/ env.var["REDIS_URL"] = "blank"
    BY DEF NoStandInsInProduction
  <2>1. service[r] = Service /\ ~Fatal /\ env \in Environment
    BY DEF StartupInv, ServicesSound
  <2>2. /\ service[r].store = NewStore /\ service[r].audit = NewAuditSink
        /\ service[r].mpi = NewMPIClient /\ service[r].fraud = NewFraudClient
        /\ service[r].auth = SecretFromEnv /\ service[r].idem = NewIdempotencyStore
        /\ service[r].rails = NewRailRegistry
    BY <2>1 DEF Service
  <2>3. "fatal" \notin {NewStore, NewAuditSink, NewMPIClient, NewFraudClient,
                        NewIdempotencyStore, SecretFromEnv} /\ env.urls # {}
    BY <2>1 DEF Fatal
  <2>4. NewStore = "postgres" /\ NewAuditSink = "kafka" /\ NewMPIClient = "http"
        /\ NewFraudClient = "http" /\ SecretFromEnv = "token"
    BY <2>3 DEF NewStore, NewAuditSink, NewMPIClient, NewFraudClient, SecretFromEnv, Choose
  <2>5. NewIdempotencyStore = "redis" \/ env.var["REDIS_URL"] = "blank"
    BY <2>3 DEF NewIdempotencyStore, OpenIdempotency, Choose
  <2>6. env.urls \subseteq Rails
    BY <2>1 DEF Environment
  <2>7. /\ \A x \in Rails : NewRailRegistry[x] # "dummy"
        /\ \E x \in Rails : NewRailRegistry[x] = "http"
    BY <2>3, <2>6 DEF NewRailRegistry, RailFor
  <2> QED
    BY <2>2, <2>4, <2>5, <2>7
<1> QED
  BY <1>1, StartupInvariant, PTL

\* No rail's webhooks are verified with another rail's secret.
THEOREM SecretsStayApart == Spec => []NoForeignSecret
<1>1. StartupInv => NoForeignSecret
  <2> SUFFICES ASSUME StartupInv, NEW r \in Runners, NEW x \in Rails, service[r] # None
               PROVE  service[r].keys[x] \in {x, "generic", "none"}
    BY DEF NoForeignSecret
  <2>1. service[r].keys = ApplyConfig(DefaultKeys)
    BY DEF StartupInv, ServicesSound, Service
  <2> QED
    BY <2>1 DEF ApplyConfig, DefaultKeys, WebhookSecret
<1> QED
  BY <1>1, StartupInvariant, PTL

\* The schema, the environment and the parts of a running service keep their
\* types: what main wires is what a constructor returned, never its refusal.
THEOREM StartupTypes == Spec => []TypeOK
<1>1. StartupInv => TypeOK
  <2> SUFFICES ASSUME StartupInv, NEW r \in Runners, service[r] # None
               PROVE  /\ service[r].store \in {"postgres", "mem"}
                      /\ service[r].audit \in {"kafka", "recorder"}
                      /\ service[r].rails \in [Rails -> {"http", "dummy", "none"}]
                      /\ service[r].keys \in [Rails -> Rails \cup {"generic", "none"}]
    BY DEF StartupInv, TypeOK
  <2>1. service[r] = Service /\ ~Fatal
    BY DEF StartupInv, ServicesSound
  <2>2. /\ service[r].store = NewStore /\ service[r].audit = NewAuditSink
        /\ service[r].rails = NewRailRegistry
        /\ service[r].keys = ApplyConfig(DefaultKeys)
    BY <2>1 DEF Service
  <2>3. NewStore \in {"postgres", "mem"} /\ NewAuditSink \in {"kafka", "recorder"}
    BY <2>1 DEF Fatal, NewStore, NewAuditSink, Choose
  <2>4. NewRailRegistry \in [Rails -> {"http", "dummy", "none"}]
    BY DEF NewRailRegistry, RailFor
  <2>5. DefaultKeys \in [Rails -> Rails \cup {"generic", "none"}]
    BY DEF DefaultKeys, WebhookSecret
  <2>6. ApplyConfig(DefaultKeys) \in [Rails -> Rails \cup {"generic", "none"}]
    BY <2>5 DEF ApplyConfig
  <2> QED
    BY <2>2, <2>3, <2>4, <2>6
<1> QED
  BY <1>1, StartupInvariant, PTL
=============================================================================
