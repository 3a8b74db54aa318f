---------------------------- MODULE AgentRuntime ----------------------------
(***************************************************************************)
(* What an agent runs for its configuration (internal/gitai/app/app.go):   *)
(* the MCP servers, the cron gateways and the external gateways, three     *)
(* supervisors that the handlers of the control server drive one after the *)
(* other.  Run reconciles them with the configuration loaded at start, an  *)
(* ApplyConfig request with the configuration it has just applied, and an  *)
(* ApplySecrets request re-injects the secrets into the two that start     *)
(* processes, if there is a configuration that maps them.  The requests are served concurrently and nothing orders     *)
(* their steps except each supervisor's own lock.                          *)
(***************************************************************************)
EXTENDS McpSupervisor, GatewaySupervisor, CronGateway

CONSTANTS ConfigRequests,   \* pushes of a configuration from Ruriko
          Deployments,   \* agents to explore: the configurations each may be
                         \* given or start with, the requests it receives,
                         \* bounds on its restarts and on the calls of its
                         \* schedule tools, and whether it is told to stop
          UserEdits      \* expressions and flags given to schedule.upsert

Requests == ConfigRequests \cup SecretRequests

ASSUME RuntimeAssumption ==
    /\ Requests \cap {"run", "stop"} = {}
    /\ \A d \in Deployments : /\ d.configs # {}
                              /\ d.requests \subseteq Requests
                              /\ d.restarts \in Nat /\ d.edits \in Nat
                              /\ d.stops \in BOOLEAN

(* What the loader accepts: tables of named servers, gateways and cron     *)
(* gateways.  An interval is a number of ticks; one that is not positive,  *)
(* which parseCron refuses, is written 0.                                  *)
WellFormed(expr) == expr.kind = "every" => expr.every \in Nat

(* The loader's nil, before any configuration was loaded.                  *)
NoConfig == [mcp |-> <<>>, ext |-> <<>>, cron |-> <<>>, env |-> <<>>, loaded |-> FALSE]

ASSUME ConfigsAssumption ==
    /\ \A d \in Deployments : \A c \in d.configs :
          /\ c = NoConfig \/ (c.loaded = TRUE /\ c.env \in Mappings)
          /\ DOMAIN c.mcp \subseteq McpNames /\ \A n \in DOMAIN c.mcp : c.mcp[n] \in McpSpec
          /\ DOMAIN c.ext \subseteq GwNames /\ \A n \in DOMAIN c.ext : c.ext[n] \in GwSpec
          /\ DOMAIN c.cron \subseteq CronNames
          /\ \A n \in DOMAIN c.cron : c.cron[n].db \in BOOLEAN /\ WellFormed(c.cron[n].expr)
    /\ \A u \in UserEdits : u.enabled \in BOOLEAN /\ WellFormed(u.expr)

VARIABLES deployment,   \* the agent explored
          config,       \* gosutoLdr.Config()
          savedConfig,  \* the configuration in the agent's database
          secrets,      \* secStore, by name
          handler,      \* the requests, Run and Stop: where each one is
          pushes,       \* requests that have begun
          overlapped,   \* history: two handlers were under way at one time
          uninjected,   \* history: the environment the configuration gives
                        \* changed after ApplySecrets last injected it
          edits,        \* calls of the schedule tools so far
          restarts

appVars == <<deployment, config, savedConfig, secrets, handler, pushes, overlapped,
             uninjected, edits, restarts>>
vars == <<appVars, mcpVars, gwVars, cronVars>>

ASSUME CallersAssumption == Callers = Requests \cup {"run", "stop"}

Idle == [pc |-> "idle"]
Active == {h \in Callers : handler[h].pc # "idle"}
At(h, pc) == handler[h].pc = pc
Goes(h, pc) == handler' = [handler EXCEPT ![h].pc = pc]
Returns(h) == handler' = [handler EXCEPT ![h] = Idle]
Carries(h, pc, c) == handler' = [handler EXCEPT ![h] = [pc |-> pc, c |-> c]]

RuntimeTypeOK ==
    /\ McpTypeOK /\ GwTypeOK /\ CronTypeOK
    /\ deployment \in Deployments
    /\ config \in deployment.configs /\ savedConfig \in deployment.configs
    /\ secrets \in Stores
    /\ \A h \in Callers : handler[h].pc \in
          {"idle", "reading", "saving", "mcp", "cron", "cronWait", "ext", "extWait",
           "secConfig", "secMcp", "secExt", "mcpStop", "cronStop", "extStop"}
    /\ pushes \subseteq Requests
    /\ overlapped \in BOOLEAN /\ uninjected \in BOOLEAN
    /\ edits \in 0..deployment.edits
    /\ restarts \in 0..deployment.restarts

(* New loads the saved configuration, or none; Run starts the control      *)
(* server before it reconciles, so that requests may overtake it.          *)
Init ==
    /\ McpInit /\ GwInit /\ CronInit
    /\ deployment \in Deployments
    /\ config \in deployment.configs
    /\ savedConfig = config
    /\ secrets = NoSecrets
    /\ handler = [h \in Callers |-> IF h = "run" THEN [pc |-> "reading", c |-> config] ELSE Idle]
    /\ pushes = {}
    /\ overlapped = FALSE
    /\ uninjected = FALSE
    /\ edits = 0
    /\ restarts = 0

appRest == <<deployment, secrets, edits, restarts>>

(* secStore.Env for the secrets of the loader's configuration.             *)
PresentEnv == Env(config.env, secrets)
BecomesEnv(env) == uninjected' = (uninjected \/ env # PresentEnv)

(* A request is served until Stop has gone through the supervisors.        *)
Begins(r) == /\ ~(mcpDone /\ At("stop", "idle"))
             /\ r \in deployment.requests \ pushes
             /\ pushes' = pushes \cup {r}
             /\ overlapped' = (overlapped \/ Active # {})

(* The ApplyConfig handler: the loader, the database (the error is         *)
(* ignored), then the three reconciliations, each with the configuration   *)
(* the loader returned after the save.                                     *)
ApplyConfig(r) ==
    /\ Begins(r)
    /\ \E c \in deployment.configs \ {NoConfig} :
          config' = c /\ Carries(r, "saving", c) /\ BecomesEnv(Env(c.env, secrets))
    /\ UNCHANGED <<appRest, savedConfig, mcpVars, gwVars, cronVars>>

SaveAppliedConfig(r) ==
    /\ At(r, "saving")
    /\ savedConfig' \in {savedConfig, handler[r].c}
    /\ Carries(r, "mcp", config)
    /\ UNCHANGED <<appRest, config, pushes, overlapped, uninjected, mcpVars, gwVars, cronVars>>

appSame == <<appRest, config, savedConfig, pushes, overlapped, uninjected>>

RunReadsConfig ==
    /\ At("run", "reading")
    /\ IF config = NoConfig THEN Returns("run") ELSE Carries("run", "mcp", config)
    /\ UNCHANGED <<appSame, mcpVars, gwVars, cronVars>>

ReconcileMcp(h) ==
    /\ At(h, "mcp")
    /\ McpReconcile(handler[h].c.mcp)
    /\ Goes(h, "cron")
    /\ UNCHANGED <<appSame, gwVars, cronVars>>

ReconcileCron(h) ==
    /\ At(h, "cron")
    /\ CronReconcile(h, handler[h].c.cron)
    /\ IF cronOp' = cronOp THEN Goes(h, "ext") ELSE Goes(h, "cronWait")
    /\ UNCHANGED <<appSame, mcpVars, gwVars>>

CronCallReturns(h) ==
    /\ At(h, "cronWait") /\ ~CronUnlocked /\ cronOp.by = h
    /\ CronReturns
    /\ IF h = "stop" THEN Goes(h, "extStop") ELSE Goes(h, "ext")
    /\ UNCHANGED <<appSame, mcpVars, gwVars>>

ReconcileExt(h) ==
    /\ At(h, "ext")
    /\ GwReconcile(h, handler[h].c.ext)
    /\ IF gwOp' = gwOp THEN Returns(h) ELSE Goes(h, "extWait")
    /\ UNCHANGED <<appSame, mcpVars, cronVars>>

ExtCallReturns(h) ==
    /\ At(h, "extWait") /\ ~GwUnlocked /\ gwOp.by = h
    /\ GwReturns
    /\ Returns(h)
    /\ UNCHANGED <<appSame, mcpVars, cronVars>>

(* The ApplySecrets handler: the store is replaced first; then, if there   *)
(* is a configuration, the environment is built from the store for each    *)
(* supervisor before that supervisor's lock is taken.                      *)
ApplySecrets(r) ==
    /\ Begins(r)
    /\ \E names \in (SUBSET SecretNames) \ {{}} : secrets' = [n \in names |-> r]
    /\ handler' = [handler EXCEPT ![r] = [pc |-> "secConfig"]]
    /\ UNCHANGED <<deployment, config, savedConfig, uninjected, edits, restarts,
                   mcpVars, gwVars, cronVars>>

Injects(r, pc, mapping) ==
    handler' = [handler EXCEPT ![r] = [pc |-> pc, c |-> mapping, env |-> Env(mapping, secrets)]]

SecretsReadConfig(r) ==
    /\ At(r, "secConfig")
    /\ IF config = NoConfig
       THEN Returns(r) /\ UNCHANGED uninjected
       ELSE Injects(r, "secMcp", config.env) /\ uninjected' = FALSE
    /\ UNCHANGED <<appRest, config, savedConfig, pushes, overlapped, mcpVars, gwVars, cronVars>>

InjectMcp(r) ==
    /\ At(r, "secMcp")
    /\ McpApplySecrets(handler[r].env)
    /\ Injects(r, "secExt", handler[r].c)
    /\ UNCHANGED <<appSame, gwVars, cronVars>>

InjectExt(r) ==
    /\ At(r, "secExt")
    /\ GwApplySecrets(handler[r].env)
    /\ Returns(r)
    /\ UNCHANGED <<appSame, mcpVars, cronVars>>

(* The eviction goroutine clears secrets whose time is over; the           *)
(* environments that hold them are not touched.                            *)
SecretsExpire ==
    /\ \E names \in (SUBSET DOMAIN secrets) \ {{}} :
          secrets' = Restrict(secrets, DOMAIN secrets \ names)
    /\ BecomesEnv(Env(config.env, secrets'))
    /\ UNCHANGED <<deployment, config, savedConfig, handler, pushes, overlapped, edits, restarts,
                   mcpVars, gwVars, cronVars>>

(* A signal or a restart request: Stop goes through the supervisors while  *)
(* the control server still serves.                                        *)
StopBegins ==
    /\ deployment.stops
    /\ At("stop", "idle") /\ At("run", "idle") /\ ~mcpDone
    /\ McpStopCancels
    /\ Goes("stop", "mcpStop")
    /\ overlapped' = (overlapped \/ Active # {})
    /\ UNCHANGED <<appRest, config, savedConfig, pushes, uninjected, gwVars, cronVars>>

StopMcp ==
    /\ At("stop", "mcpStop") /\ McpStopCloses /\ Goes("stop", "cronStop")
    /\ UNCHANGED <<appSame, gwVars, cronVars>>

StopCron ==
    /\ At("stop", "cronStop")
    /\ IF ~cronDone
       THEN CronStopCancels /\ UNCHANGED handler
       ELSE /\ CronStop("stop")
            /\ IF cronOp' = cronOp THEN Goes("stop", "extStop") ELSE Goes("stop", "cronWait")
    /\ UNCHANGED <<appSame, mcpVars, gwVars>>

StopExt ==
    /\ At("stop", "extStop")
    /\ IF ~gwDone
       THEN GwStopCancels /\ UNCHANGED handler
       ELSE /\ GwStop("stop")
            /\ IF gwOp' = gwOp THEN Returns("stop") ELSE Goes("stop", "extWait")
    /\ UNCHANGED <<appSame, mcpVars, cronVars>>

(* The process dies, or ends after Stop, and is started again: the child   *)
(* processes and the secrets are gone, the database is read.               *)
CrashAndRestart ==
    /\ restarts < deployment.restarts
    /\ restarts' = restarts + 1
    /\ mcpSpecs' = <<>> /\ mcpEnv' = NoEnv /\ clients' = <<>> /\ watchers' = <<>> /\ mcpDone' = FALSE
    /\ gwSpecs' = <<>> /\ gwEnv' = NoEnv /\ processes' = <<>> /\ gwDone' = FALSE
    /\ goroutine' = [s \in Slots |-> [pc |-> "free"]] /\ gwOp' = GwIdle
    /\ CronCrash
    /\ config' = savedConfig /\ secrets' = NoSecrets
    /\ handler' = [h \in Callers |-> IF h = "run" THEN [pc |-> "reading", c |-> savedConfig] ELSE Idle]
    /\ overlapped' = FALSE /\ uninjected' = FALSE
    /\ UNCHANGED <<deployment, savedConfig, pushes, edits>>

HandlerSteps(h) ==
    \/ SaveAppliedConfig(h)
    \/ ReconcileMcp(h)
    \/ ReconcileCron(h) \/ CronCallReturns(h)
    \/ ReconcileExt(h) \/ ExtCallReturns(h)
    \/ SecretsReadConfig(h) \/ InjectMcp(h) \/ InjectExt(h)

StopSteps == StopMcp \/ StopCron \/ StopExt

McpSteps ==
    /\ \/ \E n \in McpNames : ProcessDies(n)
       \/ \E i \in DOMAIN watchers : watchAndRestart(i)
    /\ UNCHANGED <<appVars, gwVars, cronVars>>

GwSteps ==
    /\ \/ \E s \in Slots : runGateway(s)
       \/ \E n \in GwNames : GwCancelsOne(n) \/ GwOneEnded(n)
    /\ UNCHANGED <<appVars, mcpVars, cronVars>>

HasCron == \E c \in deployment.configs : c.cron # <<>>
CronSteps ==
    /\ HasCron
    /\ \/ Tick
       \/ \E n \in DOMAIN jobs : runDBJob(n) \/ runJob(n)
       \/ \E n \in CronNames : CronCancelsOne(n) \/ CronOneEnded(n)
    /\ UNCHANGED <<appVars, mcpVars, gwVars>>

ScheduleTools ==
    /\ edits < deployment.edits
    /\ edits' = edits + 1
    /\ \/ \E n \in CronNames, u \in UserEdits : ScheduleCreate(n, u.expr, u.enabled)
       \/ \E id \in Rows, u \in UserEdits : ScheduleUpdate(id, u.expr, u.enabled)
       \/ \E id \in Rows : ScheduleDisable(id)
    /\ UNCHANGED <<deployment, config, savedConfig, secrets, handler, pushes, overlapped,
                   uninjected, restarts, mcpVars, gwVars>>

Next ==
    \/ \E r \in ConfigRequests : ApplyConfig(r)
    \/ \E r \in SecretRequests : ApplySecrets(r)
    \/ SecretsExpire
    \/ RunReadsConfig
    \/ \E h \in Callers : HandlerSteps(h)
    \/ StopBegins
    \/ StopSteps
    \/ CrashAndRestart
    \/ McpSteps
    \/ GwSteps
    \/ CronSteps
    \/ ScheduleTools

Spec == Init /\ [][Next]_vars
FairSpec ==
    /\ Spec
    /\ WF_vars(RunReadsConfig) /\ WF_vars(\E h \in Callers : HandlerSteps(h)) /\ WF_vars(StopSteps)
    /\ McpFairness /\ GwFairness /\ CronFairness

----------------------------------------------------------------------------
(* Properties *)

(* When no request is under way and no two of them ever were at one time,  *)
(* the three supervisors have the loader's configuration, and the          *)
(* environment of the processes is the one the configuration gives the     *)
(* secrets in the store - unless it changed since the last injection: a    *)
(* configuration that came after the secrets is not injected (nor is the   *)
(* first one, when the secrets came before it), and an expired secret      *)
(* stays in the environments.  Overlapping requests can leave the MCP      *)
(* servers on one configuration and the gateways on another, or a          *)
(* supervisor on secrets that were already replaced: nothing but their     *)
(* order in time ties the three calls of a handler together.               *)
SupervisorsAgree ==
    Active = {} /\ ~overlapped /\ ~mcpDone =>
        /\ mcpSpecs = config.mcp
        /\ cronSpecs = config.cron
        /\ gwSpecs = config.ext
        /\ ~uninjected => mcpEnv = PresentEnv /\ gwEnv = PresentEnv

\* The state is well typed; a client put in the map under the lock is for a configured
\* server and has the environment injected last, a configured server that has no client is
\* watched, and the supervisors agree with the loader and the store once requests that did
\* not overlap are over (app.go, the ApplyConfig and ApplySecrets handlers).
Inv == RuntimeTypeOK /\ LockedClientsAreCurrent /\ MissingIsWatched /\ SupervisorsAgree

\* Of each configured gateway, and of no other, one goroutine is registered, and only the
\* registered one has a live process: a goroutine that was cancelled while it built its
\* environment leaves none behind (gateway.go, Reconcile and Stop).
GatewaysRunOnce == LiveGatewayIsRegistered /\ GatewaysMatchConfiguration

\* A schedule fires once for each tick of its expression, but for the marks that were lost
\* and the edits that a batch overtook (cron.go, the polling loop).
SchedulesFireOnce == RefireOnlyAfterLostMark /\ NextRunFollowsExpression

\* A failed start is tried again, a Reconcile or Stop gives its lock back unless it waits
\* for a goroutine that wants it, and a due schedule is served.
RuntimeProgresses == FailedStartIsRetried /\ OperationReturns /\ DueRowIsServed
=============================================================================
