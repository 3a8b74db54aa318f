------------------------- MODULE AgentRuntime_proofs -------------------------
(***************************************************************************)
(* Proofs about AgentRuntime, for any number of servers, gateways,         *)
(* schedules, requests, crashes and edits, and any length of time.         *)
(***************************************************************************)
EXTENDS AgentRuntime, FiniteSetTheorems, WellFoundedInduction, TLAPS

-----------------------------------------------------------------------------
(* The inductive invariant: the MCP servers.                               *)

\* A watcher ends only when the supervisor was stopped.
McpInv ==
    /\ McpTypeOK
    /\ LockedClientsAreCurrent
    /\ MissingIsWatched
    /\ \A i \in DOMAIN watchers : watchers[i].pc = "ended" => mcpDone

-----------------------------------------------------------------------------
(* The inductive invariant: the external gateways.                         *)

GwTable(specs) == DOMAIN specs \subseteq GwNames /\ \A n \in DOMAIN specs : specs[n] \in GwSpec
RunType == [name : GwNames, spec : GwSpec, cancelled : BOOLEAN, env : Environments,
            pc : {"env", "spawn", "running", "term", "delay", "done"}]

Registered(s) ==
    /\ goroutine[s].name \in DOMAIN processes
    /\ processes[goroutine[s].name] = s

\* Goroutines and entries of the map correspond one to one.
GwShape ==
    /\ DOMAIN goroutine = Slots
    /\ \A s \in Slots : goroutine[s] = [pc |-> "free"] \/ (goroutine[s] \in RunType /\ Registered(s))
    /\ DOMAIN processes \subseteq GwNames
    /\ \A n \in DOMAIN processes :
          /\ processes[n] \in Slots
          /\ goroutine[processes[n]] \in RunType /\ goroutine[processes[n]].name = n

IsOp(op) == op = [kind |-> op.kind, by |-> op.by, specs |-> op.specs,
                  waiting |-> op.waiting, todo |-> op.todo]

\* What a Reconcile has not stopped, nor is about to stop, has the specification that is
\* wanted; a Stop has yet to stop all that is registered.
GwOpInv ==
    \/ gwOp = GwIdle
    \/ /\ IsOp(gwOp) /\ gwOp.kind \in {"reconcile", "stop"} /\ gwOp.by \in Callers
       /\ gwOp.todo \subseteq DOMAIN processes /\ gwOp.waiting \subseteq gwOp.todo
       /\ GwTable(gwOp.specs)
       /\ gwOp.kind = "stop" => gwDone /\ gwOp.todo = DOMAIN processes
       /\ gwOp.kind = "reconcile" =>
             \A n \in DOMAIN processes \ gwOp.todo :
                n \in DOMAIN gwOp.specs /\ goroutine[processes[n]].spec = gwOp.specs[n]

GwInv ==
    /\ gwEnv \in Environments /\ gwDone \in BOOLEAN /\ GwTable(gwSpecs)
    /\ GwShape
    /\ GwOpInv
    /\ GatewaysMatchConfiguration

-----------------------------------------------------------------------------
(* The inductive invariant: the schedules.                                 *)

Configs == UNION {d.configs : d \in Deployments}
CronSpecs == UNION {{c.cron[n] : n \in DOMAIN c.cron} : c \in Configs}
Exprs == {spec.expr : spec \in CronSpecs} \cup {u.expr : u \in UserEdits}

RowType == [gateway : CronNames, expr : Exprs, enabled : BOOLEAN, next : Nat \ {0}, boot : BOOLEAN]
Entry == [id : RowIds, expr : Exprs, due : Nat]
JobType == [spec : CronSpecs, db : BOOLEAN, cancelled : BOOLEAN, batch : Seq(Entry),
            pc : {"idle", "batch", "mark", "sleep", "done"}, at : Nat]

CronTable(specs) == DOMAIN specs \subseteq CronNames /\ \A n \in DOMAIN specs : specs[n] \in CronSpecs

Busy(n) == jobs[n].pc \in {"batch", "mark"}
Marking(n, occ) ==
    jobs[n].pc = "mark" /\ occ = <<Head(jobs[n].batch).id, Head(jobs[n].batch).due>>

\* A row a job has fetched and not finished: it is its gateway's, was due when it polled, as
\* was all it ever fired for, has the expression that was fetched unless it was edited since,
\* and has not fired for this due time unless the mark of that was lost.
EntryInv(n, i) ==
    LET b == jobs[n].batch[i] IN
    /\ b.id \in Rows /\ rows[b.id].gateway = n /\ b.due <= jobs[n].at
    /\ b.id \notin overtaken => b.expr = rows[b.id].expr
    /\ (i > 1 \/ jobs[n].pc = "batch") /\ <<b.id, b.due>> \in fired => <<b.id, b.due>> \in unmarked
    /\ \A occ \in fired : occ[1] = b.id => occ[2] <= jobs[n].at

JobInv(n) ==
    /\ jobs[n] \in JobType
    /\ IF Busy(n) THEN jobs[n].db /\ jobs[n].batch # <<>> /\ jobs[n].at <= now
                  ELSE jobs[n].batch = <<>>
    /\ jobs[n].pc = "idle" => jobs[n].db
    /\ jobs[n].pc = "mark" => NextCronTick(jobs[n].batch[1].expr, jobs[n].at) # NoTick
    /\ \A i \in DOMAIN jobs[n].batch : EntryInv(n, i)
    /\ \A i, j \in DOMAIN jobs[n].batch : jobs[n].batch[i].id = jobs[n].batch[j].id => i = j

JobsInv == DOMAIN jobs \subseteq CronNames /\ \A n \in DOMAIN jobs : JobInv(n)

RowsInv == Rows \subseteq RowIds /\ \A id \in Rows : rows[id] \in RowType

HistoryTypes ==
    /\ fired \subseteq RowIds \X Nat /\ refired \subseteq RowIds \X Nat /\ unmarked \subseteq RowIds \X Nat
    /\ overtaken \subseteq RowIds

\* What was dispatched is past, and its row has gone on to a later run unless the mark was
\* lost or is about to be written.
FiredInv ==
    \A occ \in fired :
        /\ occ[1] \in Rows /\ occ[2] <= now
        /\ \/ occ \in unmarked
           \/ rows[occ[1]].next > occ[2]
           \/ \E n \in DOMAIN jobs : Marking(n, occ)

CronOpInv ==
    \/ cronOp = [kind |-> "idle"]
    \/ /\ IsOp(cronOp) /\ cronOp.kind \in {"reconcile", "stop"}
       /\ cronOp.todo \subseteq DOMAIN jobs /\ cronOp.waiting \subseteq cronOp.todo
       /\ cronOp.kind = "stop" => cronOp.todo = DOMAIN jobs
       /\ cronOp.kind = "reconcile" => CronTable(cronOp.specs)

CronInv ==
    /\ now \in 1..MaxTime /\ cronDone \in BOOLEAN
    /\ RowsInv /\ JobsInv /\ HistoryTypes /\ FiredInv /\ CronOpInv
    /\ RefireOnlyAfterLostMark /\ NextRunFollowsExpression

-----------------------------------------------------------------------------
(* The inductive invariant: the handlers.                                  *)

ConfigPcs == {"reading", "saving", "mcp", "cron", "cronWait", "ext", "extWait"}
InjectPcs == {"secMcp", "secExt"}
SecretPcs == {"secConfig"} \cup InjectPcs
StopPcs == {"idle", "mcpStop", "cronStop", "cronWait", "extStop", "extWait"}

\* Run and an ApplyConfig request carry a configuration, an ApplySecrets request that injects
\* the mapping of the configuration it read and an environment, Stop nothing.
Shape(h, x) ==
    IF h = "stop" THEN x \in [pc : StopPcs]
    ELSE \/ x = Idle
         \/ x.pc \in ConfigPcs /\ x \in [pc : ConfigPcs, c : deployment.configs]
         \/ x = [pc |-> "secConfig"]
         \/ x.pc \in InjectPcs /\ x \in [pc : InjectPcs, c : Mappings, env : Environments]

AppTypes ==
    /\ deployment \in Deployments
    /\ config \in deployment.configs /\ savedConfig \in deployment.configs
    /\ secrets \in Stores
    /\ pushes \subseteq Requests
    /\ overlapped \in BOOLEAN /\ uninjected \in BOOLEAN
    /\ edits \in 0..deployment.edits
    /\ restarts \in 0..deployment.restarts

HandlerInv ==
    /\ AppTypes
    /\ DOMAIN handler = Callers
    /\ \A h \in Callers : Shape(h, handler[h])
    /\ At("stop", "idle") \/ mcpDone

\* How far the one handler under way, at x, has brought the supervisors.
Stage(x) ==
    /\ x.pc \notin {"reading", "saving", "mcp"} => mcpSpecs = config.mcp
    /\ x.pc \notin {"reading", "saving", "mcp", "cron", "cronWait"} => cronSpecs = config.cron
    /\ x.pc \notin ConfigPcs => gwSpecs = config.ext
    /\ x.pc = "reading" => mcpSpecs = <<>> /\ cronSpecs = <<>> /\ gwSpecs = <<>>
    /\ x.pc \in ConfigPcs \ {"reading", "saving"} => x.c = config
    /\ x.pc \in InjectPcs => x.c = config.env
    /\ ~uninjected =>
          /\ x.pc \notin {"secConfig", "secMcp"} => mcpEnv = Env(config.env, secrets)
          /\ x.pc \notin SecretPcs => gwEnv = Env(config.env, secrets)
          /\ x.pc \in InjectPcs => x.env = Env(config.env, secrets)
          /\ x.pc = "secConfig" /\ config = NoConfig => mcpEnv = NoEnv /\ gwEnv = NoEnv
    /\ x.pc = "cronWait" => cronOp.specs = config.cron
    /\ x.pc = "extWait" => gwOp.specs = config.ext

\* Without overlap a supervisor differs from the loader's configuration only while the one
\* handler has yet to reach it, and that handler carries the configuration of the loader; so
\* does the environment of the processes unless it changed after it was injected.
StageInv ==
    ~overlapped /\ ~mcpDone =>
        \E h \in Callers : (\A k \in Callers \ {h} : At(k, "idle")) /\ Stage(handler[h])

IInv == McpInv /\ GwInv /\ CronInv /\ HandlerInv /\ StageInv

-----------------------------------------------------------------------------
(* Environments.                                                           *)

LEMMA NoEnvIsEnvironment == NoEnv \in Environments /\ NoSecrets \in Stores
<1>1. NoEnv \in [{} -> SecretRequests] /\ {} \in SUBSET EnvVars
  BY DEF NoEnv
<1>2. NoSecrets \in [{} -> SecretRequests] /\ {} \in SUBSET SecretNames
  BY DEF NoSecrets
<1> QED
  BY <1>1, <1>2 DEF Environments, Stores

\* secStore.Env gives an environment: it skips what the store does not have.
LEMMA EnvIsEnvironment ==
    ASSUME NEW mapping \in Mappings, NEW store \in Stores
    PROVE  Env(mapping, store) \in Environments
<1> DEFINE vs == {v \in DOMAIN mapping : mapping[v] \in DOMAIN store}
<1>1. vs \in SUBSET EnvVars /\ Env(mapping, store) = [v \in vs |-> store[mapping[v]]]
  BY DEF Env, Mappings
<1>2. \A v \in vs : store[mapping[v]] \in SecretRequests
  BY DEF Stores
<1>3. Env(mapping, store) \in [vs -> SecretRequests]
  <2> HIDE DEF vs
  <2> QED BY <1>1, <1>2
<1> HIDE DEF vs
<1> QED
  BY <1>1, <1>3 DEF Environments

LEMMA NothingMapped ==
    ASSUME NEW store
    PROVE  Env(NoConfig.env, store) = NoEnv
<1>1. NoConfig.env = <<>>
  BY DEF NoConfig
<1>2. Env(<<>>, store) = [v \in {} |-> store[<<>>[v]]]
  BY DEF Env
<1>3. [v \in {} |-> store[<<>>[v]]] = <<>>
  OBVIOUS
<1> QED
  BY <1>1, <1>2, <1>3 DEF NoEnv

LEMMA EmptyStore ==
    ASSUME NEW mapping
    PROVE  Env(mapping, NoSecrets) = NoEnv
<1>1. {v \in DOMAIN mapping : mapping[v] \in DOMAIN NoSecrets} = {}
  BY DEF NoSecrets
<1>2. Env(mapping, NoSecrets) = [v \in {} |-> NoSecrets[mapping[v]]]
  BY <1>1 DEF Env
<1>3. [v \in {} |-> NoSecrets[mapping[v]]] = <<>>
  OBVIOUS
<1> QED
  BY <1>2, <1>3 DEF NoEnv

-----------------------------------------------------------------------------
(* The MCP servers.                                                        *)

WatcherType == [name : McpNames, cmd : Nat, env : Environments, pc : {"wait", "start", "insert", "ended"}]
ClientType == [cmd : Nat, env : Environments, alive : BOOLEAN, by : {"lock", "watcher"}]
ClientTable(table) == DOMAIN table \subseteq McpNames /\ \A n \in DOMAIN table : table[n] \in ClientType
McpTable(specs) == DOMAIN specs \subseteq McpNames /\ \A n \in DOMAIN specs : specs[n] \in McpSpec

LEMMA ElementOfSeq ==
    ASSUME NEW S, NEW seq \in Seq(S), NEW i \in DOMAIN seq
    PROVE  seq[i] \in S
OBVIOUS

LEMMA UpdateOfSeq ==
    ASSUME NEW S, NEW seq \in Seq(S), NEW i \in DOMAIN seq, NEW x \in S
    PROVE  LET new == [seq EXCEPT ![i] = x]
           IN  /\ new \in Seq(S) /\ DOMAIN new = DOMAIN seq
               /\ \A j \in DOMAIN seq : new[j] = IF j = i THEN x ELSE seq[j]
OBVIOUS

\* SetToSeq lists a finite set, all of it.
LEMMA SequenceOfSet ==
    ASSUME NEW S, IsFiniteSet(S)
    PROVE  /\ Cardinality(S) \in Nat
           /\ SetToSeq(S) \in [1..Cardinality(S) -> S]
           /\ \A x \in S : \E i \in 1..Cardinality(S) : SetToSeq(S)[i] = x
<1>1. Cardinality(S) \in Nat /\ ExistsBijection(1..Cardinality(S), S)
  BY FS_CardinalityType
<1>2. PICK f \in [1..Cardinality(S) -> S] : IsInjective(f)
  BY <1>1 DEF ExistsBijection, Bijection, Injection, IsInjective
<1>3. SetToSeq(S) \in [1..Cardinality(S) -> S] /\ IsInjective(SetToSeq(S))
  BY <1>2 DEF SetToSeq
<1>4. SetToSeq(S) \in Injection(1..Cardinality(S), S)
  BY <1>3 DEF Injection
<1>5. Cardinality(1..Cardinality(S)) = Cardinality(S)
  BY <1>1, FS_Interval
<1>6. SetToSeq(S) \in Surjection(1..Cardinality(S), S)
  BY <1>4, <1>5, FS_Injection
<1> QED
  BY <1>1, <1>3, <1>6 DEF Surjection

\* The watchers startLocked adds: one, waiting, for each server it is asked to start that is
\* to be restarted.
LEMMA OneWatcherEach ==
    ASSUME NEW names, NEW specs, names \subseteq McpNames, \A n \in names : specs[n] \in McpSpec
    PROVE  /\ NewWatchers(names, specs) \in Seq(WatcherType)
           /\ \A i \in DOMAIN NewWatchers(names, specs) : NewWatchers(names, specs)[i].pc = "wait"
           /\ \A n \in names : specs[n].auto =>
                 \E i \in DOMAIN NewWatchers(names, specs) : NewWatchers(names, specs)[i].name = n
<1> DEFINE S == {n \in names : specs[n].auto}
           auto == SetToSeq(S)
           W == NewWatchers(names, specs)
<1>1. IsFiniteSet(S)
  BY FS_Subset, McpAssumption
<1>2. /\ Cardinality(S) \in Nat /\ auto \in [1..Cardinality(S) -> S]
      /\ \A x \in S : \E i \in 1..Cardinality(S) : auto[i] = x
  <2> HIDE DEF S
  <2> QED BY <1>1, SequenceOfSet
<1>3. auto \in Seq(S) /\ Len(auto) = Cardinality(S)
  <2> HIDE DEF S, auto
  <2> QED BY <1>2
<1>4. W = [i \in 1..Cardinality(S) |-> [name |-> auto[i], cmd |-> specs[auto[i]].cmd, env |-> NoEnv, pc |-> "wait"]]
  BY <1>3 DEF NewWatchers
<1>5. \A i \in 1..Cardinality(S) : auto[i] \in names /\ specs[auto[i]] \in McpSpec /\ specs[auto[i]].cmd \in Nat
  BY <1>2 DEF McpSpec
<1>6. W \in [1..Cardinality(S) -> WatcherType]
  <2> HIDE DEF S, auto, W
  <2> QED BY <1>4, <1>5, NoEnvIsEnvironment DEF WatcherType
<1>7. W \in Seq(WatcherType) /\ DOMAIN W = 1..Cardinality(S)
  <2> HIDE DEF S, W
  <2> QED BY <1>2, <1>6
<1>8. \A i \in 1..Cardinality(S) : W[i].pc = "wait" /\ W[i].name = auto[i]
  <2> HIDE DEF S, W, auto
  <2> QED BY <1>4
<1>9. \A n \in names : specs[n].auto => \E i \in 1..Cardinality(S) : auto[i] = n
  <2>1. ASSUME NEW n \in names, specs[n].auto PROVE n \in S
    BY <2>1
  <2> HIDE DEF S, auto
  <2> QED BY <1>2, <2>1
<1> HIDE DEF S, W, auto
<1>10. \A n \in names : specs[n].auto => \E i \in DOMAIN W : W[i].name = n
  BY <1>7, <1>8, <1>9
<1>11. \A i \in DOMAIN W : W[i].pc = "wait"
  BY <1>7, <1>8
<1> QED
  BY <1>7, <1>10, <1>11 DEF W

\* startLocked: the map holds what was kept and what came up, and each server it was asked
\* to start is watched, if it is to be restarted, whether or not it came up.
Started(kept, names, up, specs, env) ==
    /\ DOMAIN clients' = DOMAIN kept \cup up /\ up \subseteq names
    /\ ClientTable(clients')
    /\ \A n \in DOMAIN clients' :
          (n \in DOMAIN kept /\ clients'[n] = kept[n]) \/ (n \in up /\ clients'[n].env = env)
    /\ watchers' \in Seq(WatcherType)
    /\ \A i \in DOMAIN watchers' : watchers'[i].pc = "ended" => mcpDone
    /\ \A n \in names : specs[n].auto =>
          \E i \in DOMAIN watchers' : watchers'[i].name = n /\ watchers'[i].pc # "ended"

LEMMA StartLocked ==
    ASSUME McpInv, NEW kept, NEW names, NEW up, NEW specs, NEW env, env \in Environments,
           McpTable(specs), names \subseteq DOMAIN specs, ClientTable(kept),
           startLocked(kept, names, up, specs, env)
    PROVE  Started(kept, names, up, specs, env)
<1> DEFINE W == NewWatchers(names, specs)
<1>1. /\ W \in Seq(WatcherType) /\ \A i \in DOMAIN W : W[i].pc = "wait"
      /\ \A n \in names : specs[n].auto => \E i \in DOMAIN W : W[i].name = n
  BY OneWatcherEach DEF McpTable
<1>2. watchers \in Seq(WatcherType) /\ \A i \in DOMAIN watchers : watchers[i].pc = "ended" => mcpDone
  BY DEF McpInv, McpTypeOK, WatcherType
<1>3. /\ up \subseteq names
      /\ clients' = [n \in DOMAIN kept \cup up |->
            IF n \in DOMAIN kept THEN kept[n]
            ELSE [cmd |-> specs[n].cmd, env |-> env, alive |-> TRUE, by |-> "lock"]]
      /\ watchers' = watchers \o W
  BY DEF startLocked
<1> HIDE DEF W
<1>4. \A n \in up : specs[n].cmd \in Nat
  BY <1>3 DEF McpTable, McpSpec
<1>5. /\ DOMAIN clients' = DOMAIN kept \cup up
      /\ \A n \in DOMAIN clients' :
            /\ clients'[n] \in ClientType
            /\ (n \in DOMAIN kept /\ clients'[n] = kept[n]) \/ (n \in up /\ clients'[n].env = env)
  BY <1>3, <1>4 DEF ClientType, ClientTable
<1>6. DOMAIN clients' \subseteq McpNames
  BY <1>3, <1>5 DEF McpTable, ClientTable
<1>7. /\ watchers' \in Seq(WatcherType)
      /\ \A i \in DOMAIN watchers : i \in DOMAIN watchers' /\ watchers'[i] = watchers[i]
      /\ \A i \in DOMAIN W : Len(watchers) + i \in DOMAIN watchers' /\ watchers'[Len(watchers) + i] = W[i]
      /\ \A i \in DOMAIN watchers' : i \in DOMAIN watchers \/
            (i - Len(watchers) \in DOMAIN W /\ watchers'[i] = W[i - Len(watchers)])
  BY <1>1, <1>2, <1>3
<1>8. \A i \in DOMAIN watchers' : watchers'[i].pc = "ended" => mcpDone
  BY <1>1, <1>2, <1>7
<1>9. ASSUME NEW n \in names, specs[n].auto
      PROVE  \E i \in DOMAIN watchers' : watchers'[i].name = n /\ watchers'[i].pc # "ended"
  <2>1. PICK i \in DOMAIN W : W[i].name = n
    BY <1>1, <1>9
  <2> QED
    BY <1>1, <1>7, <2>1
<1> QED
  BY <1>3, <1>5, <1>6, <1>7, <1>8, <1>9 DEF Started, ClientTable

LEMMA McpReconcilePreserves ==
    ASSUME McpInv, NEW specs, McpTable(specs), McpReconcile(specs)
    PROVE  McpInv'
<1> DEFINE missing == DOMAIN specs \ DOMAIN clients
           kept == ReconcileKeeps(specs)
<1>1. PICK up \in SUBSET missing : startLocked(kept, missing, up, specs, mcpEnv)
  BY DEF McpReconcile
<1>2. mcpSpecs' = specs /\ mcpEnv' = mcpEnv /\ mcpDone' = mcpDone /\ mcpEnv \in Environments /\ mcpDone \in BOOLEAN
  BY DEF McpReconcile, McpInv, McpTypeOK
<1>3. /\ DOMAIN kept = DOMAIN clients \cap DOMAIN specs
      /\ \A n \in DOMAIN kept : kept[n] = clients[n]
  BY DEF ReconcileKeeps, Restrict
<1>4. /\ DOMAIN clients \subseteq McpNames /\ \A n \in DOMAIN clients : clients[n] \in ClientType
      /\ \A n \in DOMAIN clients : clients[n].by = "lock" => clients[n].env = mcpEnv
      /\ \A n \in DOMAIN mcpSpecs \ DOMAIN clients : mcpSpecs[n].auto /\ ~mcpDone =>
            \E i \in DOMAIN watchers : watchers[i].name = n /\ watchers[i].pc # "ended"
  BY DEF McpInv, McpTypeOK, ClientType, LockedClientsAreCurrent, MissingIsWatched
<1> HIDE DEF kept
<1>5. /\ DOMAIN clients' = DOMAIN kept \cup up /\ DOMAIN clients' \subseteq McpNames
      /\ \A n \in DOMAIN clients' :
            /\ clients'[n] \in ClientType
            /\ (n \in DOMAIN kept /\ clients'[n] = kept[n]) \/ (n \in up /\ clients'[n].env = mcpEnv)
      /\ watchers' \in Seq(WatcherType)
      /\ \A i \in DOMAIN watchers' : watchers'[i].pc = "ended" => mcpDone
      /\ \A n \in missing : specs[n].auto =>
            \E i \in DOMAIN watchers' : watchers'[i].name = n /\ watchers'[i].pc # "ended"
  <2>1. missing \subseteq DOMAIN specs /\ ClientTable(kept)
    BY <1>3, <1>4 DEF ClientTable
  <2>2. Started(kept, missing, up, specs, mcpEnv)
    <3> HIDE DEF missing
    <3> QED BY <1>1, <1>2, <2>1, StartLocked
  <2> QED
    BY <2>2 DEF Started, ClientTable
<1>6. McpTypeOK'
  BY <1>2, <1>5 DEF McpTypeOK, McpTable, WatcherType, ClientType
<1>7. LockedClientsAreCurrent'
  BY <1>2, <1>3, <1>4, <1>5 DEF LockedClientsAreCurrent
<1>8. MissingIsWatched'
  BY <1>2, <1>3, <1>5 DEF MissingIsWatched
<1> QED
  BY <1>2, <1>5, <1>6, <1>7, <1>8 DEF McpInv

LEMMA McpApplySecretsPreserves ==
    ASSUME McpInv, NEW env \in Environments, McpApplySecrets(env)
    PROVE  McpInv'
<1>1. mcpEnv' = env /\ mcpSpecs' = mcpSpecs /\ mcpDone' = mcpDone
  BY DEF McpApplySecrets
<1>2. McpTable(mcpSpecs)
  BY DEF McpTable, McpInv, McpTypeOK
<1>3. CASE DOMAIN clients = {}
  <2>1. UNCHANGED <<clients, watchers>>
    BY <1>3 DEF McpApplySecrets
  <2> QED
    BY <1>1, <1>3, <2>1 DEF McpInv, McpTypeOK, LockedClientsAreCurrent, MissingIsWatched
<1>4. CASE DOMAIN clients # {}
  <2>1. PICK up \in SUBSET DOMAIN mcpSpecs : startLocked(<<>>, DOMAIN mcpSpecs, up, mcpSpecs, env)
    BY <1>4 DEF McpApplySecrets
  <2>2. /\ DOMAIN clients' = up /\ DOMAIN clients' \subseteq McpNames
        /\ \A n \in DOMAIN clients' : clients'[n] \in ClientType /\ clients'[n].env = env
        /\ watchers' \in Seq(WatcherType)
        /\ \A i \in DOMAIN watchers' : watchers'[i].pc = "ended" => mcpDone
        /\ \A n \in DOMAIN mcpSpecs : mcpSpecs[n].auto =>
              \E i \in DOMAIN watchers' : watchers'[i].name = n /\ watchers'[i].pc # "ended"
    <3>1. ClientTable(<<>>)
      BY DEF ClientTable
    <3>2. Started(<<>>, DOMAIN mcpSpecs, up, mcpSpecs, env)
      BY <1>2, <2>1, <3>1, StartLocked
    <3> QED
      BY <3>2 DEF Started, ClientTable
  <2>3. McpTypeOK'
    BY <1>1, <1>2, <2>2 DEF McpInv, McpTypeOK, McpTable, WatcherType, ClientType
  <2>4. LockedClientsAreCurrent' /\ MissingIsWatched'
    BY <1>1, <2>1, <2>2 DEF LockedClientsAreCurrent, MissingIsWatched
  <2> QED
    BY <1>1, <2>2, <2>3, <2>4 DEF McpInv
<1> QED
  BY <1>3, <1>4

\* Stop, and a server that ends by itself: who is in the map, and with which environment,
\* only shrinks to nothing.
LEMMA McpEndsPreserve ==
    ASSUME McpInv, McpStopCancels \/ McpStopCloses \/ (\E n \in McpNames : ProcessDies(n))
    PROVE  McpInv'
<1>0. /\ ClientTable(clients) /\ mcpDone \in BOOLEAN
      /\ \A n \in DOMAIN clients : clients[n].by = "lock" => n \in DOMAIN mcpSpecs /\ clients[n].env = mcpEnv
  BY DEF McpInv, McpTypeOK, ClientTable, ClientType, LockedClientsAreCurrent
<1>1. CASE McpStopCancels
  <2>1. /\ mcpDone' = TRUE /\ UNCHANGED <<mcpSpecs, mcpEnv, watchers>>
        /\ clients' = [n \in DOMAIN clients |-> [clients[n] EXCEPT !.alive = FALSE]]
    BY <1>1 DEF McpStopCancels
  <2>2. /\ DOMAIN clients' = DOMAIN clients
        /\ \A n \in DOMAIN clients : /\ clients'[n] \in ClientType /\ clients'[n].by = clients[n].by
                                     /\ clients'[n].env = clients[n].env
    BY <1>0, <2>1 DEF ClientTable, ClientType
  <2> QED
    BY <1>0, <2>1, <2>2 DEF McpInv, McpTypeOK, ClientType, ClientTable, LockedClientsAreCurrent, MissingIsWatched
<1>2. CASE McpStopCloses
  <2>1. mcpDone /\ mcpDone' = mcpDone /\ clients' = <<>> /\ UNCHANGED <<mcpSpecs, mcpEnv, watchers>>
    BY <1>2 DEF McpStopCloses
  <2>2. DOMAIN clients' = {}
    BY <2>1
  <2>3. McpTypeOK'
    BY <2>1, <2>2 DEF McpInv, McpTypeOK
  <2> QED
    BY <2>1, <2>2, <2>3 DEF McpInv, LockedClientsAreCurrent, MissingIsWatched
<1>3. ASSUME NEW n \in McpNames, ProcessDies(n)
      PROVE  McpInv'
  <2>1. /\ n \in DOMAIN clients /\ UNCHANGED <<mcpSpecs, mcpEnv, watchers, mcpDone>>
        /\ clients' = [clients EXCEPT ![n].alive = FALSE]
    BY <1>3 DEF ProcessDies
  <2>2. /\ DOMAIN clients' = DOMAIN clients
        /\ \A m \in DOMAIN clients : /\ clients'[m] \in ClientType /\ clients'[m].by = clients[m].by
                                     /\ clients'[m].env = clients[m].env
    BY <1>0, <2>1 DEF ClientTable, ClientType
  <2>3. McpTypeOK'
    BY <1>0, <2>1, <2>2 DEF McpInv, McpTypeOK, ClientType, ClientTable
  <2>4. LockedClientsAreCurrent' /\ MissingIsWatched'
    BY <1>0, <2>1, <2>2 DEF McpInv, LockedClientsAreCurrent, MissingIsWatched
  <2> QED
    BY <2>1, <2>3, <2>4 DEF McpInv
<1> QED
  BY <1>1, <1>2, <1>3

\* A watcher keeps its name, inserts only in its own, and ends only after Stop.
LEMMA WatcherPreserves ==
    ASSUME McpInv, NEW i \in DOMAIN watchers, watchAndRestart(i)
    PROVE  McpInv'
<1>0. /\ ClientTable(clients) /\ mcpDone \in BOOLEAN /\ watchers \in Seq(WatcherType) /\ mcpEnv \in Environments
      /\ \A n \in DOMAIN clients : clients[n].by = "lock" => n \in DOMAIN mcpSpecs /\ clients[n].env = mcpEnv
      /\ \A j \in DOMAIN watchers : watchers[j].pc = "ended" => mcpDone
  BY DEF McpInv, McpTypeOK, ClientTable, ClientType, LockedClientsAreCurrent, WatcherType
<1>1. UNCHANGED <<mcpSpecs, mcpEnv, mcpDone>>
  BY DEF watchAndRestart, WatcherFindsMissing, WatcherStartFails, WatcherStarts, WatcherInserts, WatcherEnds
<1>2. /\ watchers' \in Seq(WatcherType) /\ DOMAIN watchers' = DOMAIN watchers
      /\ \A j \in DOMAIN watchers : /\ watchers'[j].name = watchers[j].name
                                    /\ watchers'[j].pc = "ended" => mcpDone
  <2>1. PICK w : /\ watchers' = [watchers EXCEPT ![i] = w]
                 /\ \/ w = [watchers[i] EXCEPT !.pc = "start"]
                    \/ w = [watchers[i] EXCEPT !.pc = "wait"]
                    \/ w = [watchers[i] EXCEPT !.pc = "insert", !.env = mcpEnv]
                    \/ w = [watchers[i] EXCEPT !.pc = "wait", !.env = NoEnv]
                    \/ w = [watchers[i] EXCEPT !.pc = "ended"] /\ mcpDone
    BY DEF watchAndRestart, WatcherFindsMissing, WatcherStartFails, WatcherStarts, WatcherInserts, WatcherEnds
  <2>2. watchers[i] \in WatcherType
    BY <1>0, ElementOfSeq
  <2>3. w \in WatcherType /\ w.name = watchers[i].name /\ (w.pc = "ended" => mcpDone)
    <3>1. PICK old \in WatcherType : old = watchers[i]
      BY <2>2
    <3>2. /\ [old EXCEPT !.pc = "start"] \in WatcherType /\ [old EXCEPT !.pc = "wait"] \in WatcherType
          /\ [old EXCEPT !.pc = "insert", !.env = mcpEnv] \in WatcherType
          /\ [old EXCEPT !.pc = "wait", !.env = NoEnv] \in WatcherType
          /\ [old EXCEPT !.pc = "ended"] \in WatcherType
      BY <1>0, NoEnvIsEnvironment DEF WatcherType
    <3>3. w \in WatcherType
      BY <2>1, <3>1, <3>2
    <3> QED
      BY <2>1, <3>1, <3>3 DEF WatcherType
  <2>4. /\ watchers' \in Seq(WatcherType) /\ DOMAIN watchers' = DOMAIN watchers
        /\ \A j \in DOMAIN watchers : watchers'[j] = IF j = i THEN w ELSE watchers[j]
    BY <1>0, <2>1, <2>3, UpdateOfSeq
  <2> QED
    BY <1>0, <2>3, <2>4
<1>3. CASE clients' = clients
  <2>1. McpTypeOK'
    BY <1>0, <1>1, <1>2, <1>3 DEF McpInv, McpTypeOK, WatcherType
  <2>2. LockedClientsAreCurrent' /\ MissingIsWatched'
    BY <1>1, <1>2, <1>3 DEF McpInv, LockedClientsAreCurrent, MissingIsWatched
  <2> QED
    BY <1>1, <1>2, <2>1, <2>2 DEF McpInv
<1>4. CASE WatcherInserts(i)
  <2> DEFINE name == watchers[i].name
  <2>0. PICK alive \in BOOLEAN : alive <=> ~mcpDone
    BY <1>0
  <2>1. clients' = [n \in DOMAIN clients \cup {name} |->
          IF n = name
          THEN [cmd |-> watchers[i].cmd, env |-> watchers[i].env, alive |-> ~mcpDone, by |-> "watcher"]
          ELSE clients[n]]
    BY <1>4 DEF WatcherInserts
  <2>2. name \in McpNames /\ watchers[i].cmd \in Nat /\ watchers[i].env \in Environments /\ (~mcpDone) \in BOOLEAN
    <3>1. watchers[i] \in WatcherType
      BY <1>0, ElementOfSeq
    <3> QED BY <3>1 DEF WatcherType
  <2>3. /\ DOMAIN clients' = DOMAIN clients \cup {name}
        /\ \A n \in DOMAIN clients : n # name => clients'[n] = clients[n]
        /\ clients'[name].by = "watcher" /\ clients'[name] \in ClientType
    <3>1. [cmd |-> watchers[i].cmd, env |-> watchers[i].env, alive |-> ~mcpDone, by |-> "watcher"] \in ClientType
      BY <2>2, Zenon DEF ClientType
    <3> HIDE DEF name
    <3> QED BY <2>1, <3>1
  <2> HIDE DEF name
  <2>4. McpTypeOK'
    BY <1>0, <1>1, <1>2, <2>2, <2>3 DEF McpInv, McpTypeOK, ClientTable, ClientType, WatcherType
  <2>5. LockedClientsAreCurrent'
    BY <1>0, <1>1, <2>3 DEF LockedClientsAreCurrent
  <2>6. MissingIsWatched'
    <3> SUFFICES ASSUME NEW n \in DOMAIN mcpSpecs, n \notin DOMAIN clients', mcpSpecs[n].auto, ~mcpDone
                 PROVE  \E j \in DOMAIN watchers' : watchers'[j].name = n /\ watchers'[j].pc # "ended"
      BY <1>1 DEF MissingIsWatched
    <3>1. n \notin DOMAIN clients
      BY <2>3
    <3>2. PICK j \in DOMAIN watchers : watchers[j].name = n
      BY <3>1 DEF McpInv, MissingIsWatched
    <3> QED
      BY <1>2, <3>2
  <2> QED
    BY <1>1, <1>2, <2>4, <2>5, <2>6 DEF McpInv
<1> QED
  BY <1>3, <1>4 DEF watchAndRestart, WatcherFindsMissing, WatcherStartFails, WatcherStarts, WatcherEnds

-----------------------------------------------------------------------------
(* The external gateways.                                                  *)

\* Enough free slots give each gateway to start one of its own.
LEMMA InjectionExists ==
    ASSUME NEW S, NEW T, IsFiniteSet(S), IsFiniteSet(T), Cardinality(S) <= Cardinality(T)
    PROVE  \E f \in [S -> T] : \A x, y \in S : f[x] = f[y] => x = y
<1>1. Cardinality(S) \in Nat /\ Cardinality(T) \in Nat /\ ExistsBijection(1..Cardinality(T), T)
  BY FS_CardinalityType
<1>2. IsFiniteSet(1..Cardinality(S)) /\ Cardinality(1..Cardinality(S)) = Cardinality(S)
  BY <1>1, FS_Interval
<1>3. ExistsBijection(S, 1..Cardinality(S))
  BY <1>2, FS_SameCardinalityBij
<1>4. PICK g \in [S -> 1..Cardinality(S)] : \A x, y \in S : g[x] = g[y] => x = y
  BY <1>3 DEF ExistsBijection, Bijection, Injection, IsInjective
<1>5. PICK h \in [1..Cardinality(T) -> T] : \A i, j \in 1..Cardinality(T) : h[i] = h[j] => i = j
  BY <1>1 DEF ExistsBijection, Bijection, Injection, IsInjective
<1>6. \A x \in S : g[x] \in 1..Cardinality(T)
  BY <1>1, <1>4
<1>7. [x \in S |-> h[g[x]]] \in [S -> T]
  BY <1>5, <1>6
<1>8. \A x, y \in S : [z \in S |-> h[g[z]]][x] = [z \in S |-> h[g[z]]][y] => x = y
  BY <1>4, <1>5, <1>6
<1> QED
  BY <1>7, <1>8

\* A goroutine that keeps its name and specification.
LEMMA GoroutineMoves ==
    ASSUME GwShape, NEW s \in Slots, goroutine[s] \in RunType, NEW r \in RunType,
           r.name = goroutine[s].name, r.spec = goroutine[s].spec,
           goroutine' = [goroutine EXCEPT ![s] = r], processes' = processes
    PROVE  /\ GwShape'
           /\ \A n \in DOMAIN processes : goroutine'[processes[n]].spec = goroutine[processes[n]].spec
<1>1. /\ DOMAIN goroutine' = Slots
      /\ \A t \in Slots : goroutine'[t] = IF t = s THEN r ELSE goroutine[t]
  BY DEF GwShape
<1>2. Registered(s) /\ goroutine[s] # [pc |-> "free"]
  BY DEF GwShape, RunType
<1> QED
  BY <1>1, <1>2 DEF GwShape, Registered

\* What is left of the invariant, when neither the map nor the operation changes.
LEMMA GoroutineFrame ==
    ASSUME GwInv, NEW s \in Slots, goroutine[s] \in RunType, NEW r \in RunType,
           r.name = goroutine[s].name, r.spec = goroutine[s].spec,
           goroutine' = [goroutine EXCEPT ![s] = r], UNCHANGED <<gwSpecs, gwEnv, processes, gwOp, gwDone>>
    PROVE  GwInv'
<1>1. /\ GwShape'
      /\ \A n \in DOMAIN processes : goroutine'[processes[n]].spec = goroutine[processes[n]].spec
  BY GoroutineMoves DEF GwInv
<1>2. GwOpInv'
  BY <1>1 DEF GwInv, GwOpInv, IsOp
<1>3. GatewaysMatchConfiguration'
  BY <1>1 DEF GwInv, GatewaysMatchConfiguration, GwUnlocked
<1> QED
  BY <1>1, <1>2, <1>3 DEF GwInv, GwTable

LEMMA RunGatewayPreserves ==
    ASSUME GwInv, NEW s \in Slots, runGateway(s)
    PROVE  GwInv'
<1>1. goroutine[s].pc \in {"env", "spawn", "running", "term", "delay"}
  BY DEF runGateway, BuildEnv, GwSpawns, GwSpawnFails, GwExits, GwTerminates, GwTerminated,
         GwDelayEnds, GwDelayCancelled
<1>2. goroutine[s] \in RunType /\ DOMAIN goroutine = Slots /\ gwEnv \in Environments
  BY <1>1 DEF GwInv, GwShape
<1>3. UNCHANGED <<gwSpecs, gwEnv, processes, gwOp, gwDone>>
  BY DEF runGateway, BuildEnv, GwSpawns, GwSpawnFails, GwExits, GwTerminates, GwTerminated,
         GwDelayEnds, GwDelayCancelled, GwGoes
<1>4. PICK pc \in {"env", "spawn", "running", "term", "delay", "done"} :
         \/ goroutine' = [goroutine EXCEPT ![s].pc = pc]
         \/ goroutine' = [goroutine EXCEPT ![s].pc = "spawn", ![s].env = gwEnv]
  BY DEF runGateway, BuildEnv, GwSpawns, GwSpawnFails, GwExits, GwTerminates, GwTerminated,
         GwDelayEnds, GwDelayCancelled, GwGoes, AfterExit
<1>5. CASE goroutine' = [goroutine EXCEPT ![s].pc = pc]
  <2>1. PICK r : r = [goroutine[s] EXCEPT !.pc = pc]
    OBVIOUS
  <2>2. r \in RunType /\ r.name = goroutine[s].name /\ r.spec = goroutine[s].spec
    BY <1>2, <2>1 DEF RunType
  <2>3. goroutine' = [goroutine EXCEPT ![s] = r]
    BY <1>5, <2>1
  <2> QED
    BY <1>2, <1>3, <2>2, <2>3, GoroutineFrame
<1>6. CASE goroutine' = [goroutine EXCEPT ![s].pc = "spawn", ![s].env = gwEnv]
  <2>1. PICK r : r = [goroutine[s] EXCEPT !.pc = "spawn", !.env = gwEnv]
    OBVIOUS
  <2>2. r \in RunType /\ r.name = goroutine[s].name /\ r.spec = goroutine[s].spec
    BY <1>2, <2>1 DEF RunType
  <2>3. goroutine' = [goroutine EXCEPT ![s] = r]
    BY <1>6, <2>1
  <2> QED
    BY <1>2, <1>3, <2>2, <2>3, GoroutineFrame
<1> QED
  BY <1>4, <1>5, <1>6

\* Reconcile starts what is wanted and missing, each in a free slot of its own: with what was
\* registered already, that is what is wanted.
LEMMA GwStarts ==
    ASSUME GwShape, NEW specs, GwTable(specs), gwDone \in BOOLEAN,
           DOMAIN processes \subseteq DOMAIN specs,
           \A n \in DOMAIN processes : goroutine[processes[n]].spec = specs[n],
           GwStartMissing(specs, processes)
    PROVE  /\ GwShape' /\ DOMAIN processes' = DOMAIN specs
           /\ \A n \in DOMAIN specs : goroutine'[processes'[n]].spec = specs[n]
<1> DEFINE missing == DOMAIN specs \ DOMAIN processes
           slot == CHOOSE f \in [missing -> FreeSlots] : \A m, n \in missing : f[m] = f[n] => m = n
           new(n) == [name |-> n, spec |-> specs[n], cancelled |-> gwDone, env |-> NoEnv, pc |-> "env"]
<1>1. /\ Cardinality(missing) <= Cardinality(FreeSlots)
      /\ processes' = [n \in DOMAIN processes \cup missing |-> IF n \in missing THEN slot[n] ELSE processes[n]]
      /\ goroutine' = [s \in Slots |-> IF \E n \in missing : slot[n] = s
                                       THEN new(CHOOSE n \in missing : slot[n] = s) ELSE goroutine[s]]
  BY Zenon DEF GwStartMissing
<1>2. IsFiniteSet(missing) /\ IsFiniteSet(FreeSlots)
  BY FS_Subset, SlotsAssumption DEF GwTable, FreeSlots
<1>3. slot \in [missing -> FreeSlots] /\ \A m, n \in missing : slot[m] = slot[n] => m = n
  <2>1. \E f \in [missing -> FreeSlots] : \A m, n \in missing : f[m] = f[n] => m = n
    <3> HIDE DEF missing
    <3> QED BY <1>1, <1>2, InjectionExists
  <2> HIDE DEF missing
  <2> QED BY <2>1
<1>4. \A n \in missing : slot[n] \in Slots /\ goroutine[slot[n]].pc = "free"
  <2> HIDE DEF missing, slot
  <2> QED BY <1>3 DEF FreeSlots
<1>5. \A n \in missing : goroutine'[slot[n]] = new(n)
  <2>1. \A n \in missing : (CHOOSE m \in missing : slot[m] = slot[n]) = n
    <3> HIDE DEF missing, slot
    <3> QED BY <1>3
  <2> HIDE DEF missing, slot, new
  <2> QED BY <1>1, <1>4, <2>1
<1>6. \A s \in Slots : goroutine[s].pc # "free" => goroutine'[s] = goroutine[s]
  <2> HIDE DEF missing, slot, new
  <2> QED BY <1>1, <1>4
<1>7. \A s \in Slots : goroutine'[s] = goroutine[s] \/ \E n \in missing : s = slot[n]
  <2> HIDE DEF missing, slot, new
  <2> QED BY <1>1
<1>8. /\ DOMAIN processes' = DOMAIN specs /\ DOMAIN goroutine' = Slots
      /\ \A n \in missing : processes'[n] = slot[n]
      /\ \A n \in DOMAIN processes : processes'[n] = processes[n]
  <2>1. DOMAIN processes \cup missing = DOMAIN specs /\ \A n \in DOMAIN processes : n \notin missing
    OBVIOUS
  <2> HIDE DEF missing, slot, new
  <2> QED BY <1>1, <2>1
<1>9. \A n \in missing : new(n) \in RunType /\ new(n).name = n /\ new(n).spec = specs[n]
  BY NoEnvIsEnvironment DEF RunType, GwTable
<1>10. DOMAIN specs = DOMAIN processes \cup missing
  OBVIOUS
<1> HIDE DEF missing, slot, new
<1>11. \A n \in DOMAIN processes : /\ goroutine'[processes'[n]] = goroutine[processes[n]]
                                   /\ processes[n] \in Slots
                                   /\ goroutine[processes[n]] \in RunType /\ goroutine[processes[n]].name = n
  BY <1>6, <1>8 DEF GwShape, RunType
<1>12. \A n \in DOMAIN specs : /\ processes'[n] \in Slots /\ goroutine'[processes'[n]].spec = specs[n]
                               /\ goroutine'[processes'[n]] \in RunType /\ goroutine'[processes'[n]].name = n
  BY <1>4, <1>5, <1>8, <1>9, <1>10, <1>11
<1>13. ASSUME NEW s \in Slots
       PROVE  goroutine'[s] = [pc |-> "free"] \/ (goroutine'[s] \in RunType /\ Registered(s)')
  <2>1. CASE \E n \in missing : s = slot[n]
    BY <1>5, <1>8, <1>9, <1>10, <2>1 DEF Registered
  <2>2. CASE goroutine'[s] = goroutine[s]
    BY <1>8, <1>10, <2>2 DEF GwShape, Registered
  <2> QED
    BY <1>7, <2>1, <2>2
<1> QED
  BY <1>8, <1>12, <1>13 DEF GwShape, GwTable

\* externalGatewayChanged compares all that a specification has.
LEMMA UnchangedIsEqual ==
    ASSUME NEW old \in GwSpec, NEW new \in GwSpec, ~externalGatewayChanged(old, new)
    PROVE  old = new
BY DEF externalGatewayChanged, GwSpec

LEMMA GwReconcilePreserves ==
    ASSUME GwInv, NEW h \in Callers, NEW specs, GwTable(specs), GwReconcile(h, specs)
    PROVE  GwInv'
<1>0. GwUnlocked /\ gwEnv' = gwEnv /\ gwDone' = gwDone
  BY DEF GwReconcile
<1>1. ASSUME NEW n \in DOMAIN processes \ GwTodo(specs)
      PROVE  n \in DOMAIN specs /\ goroutine[processes[n]].spec = specs[n]
  <2>1. n \in DOMAIN specs /\ ~externalGatewayChanged(goroutine[processes[n]].spec, specs[n])
    BY DEF GwTodo
  <2>2. goroutine[processes[n]].spec \in GwSpec /\ specs[n] \in GwSpec
    BY <2>1 DEF GwInv, GwShape, RunType, GwTable
  <2> QED
    BY <2>1, <2>2, UnchangedIsEqual
<1>2. CASE GwTodo(specs) = {}
  <2>1. GwStartMissing(specs, processes) /\ gwSpecs' = specs /\ gwOp' = gwOp
    BY <1>2 DEF GwReconcile
  <2>2. DOMAIN processes \subseteq DOMAIN specs /\ \A n \in DOMAIN processes : goroutine[processes[n]].spec = specs[n]
    BY <1>1, <1>2
  <2>3. /\ GwShape' /\ DOMAIN processes' = DOMAIN specs
        /\ \A n \in DOMAIN specs : goroutine'[processes'[n]].spec = specs[n]
    BY <2>1, <2>2, GwStarts DEF GwInv
  <2> QED
    BY <1>0, <2>1, <2>3 DEF GwInv, GwOpInv, GatewaysMatchConfiguration, GwUnlocked, GwTable
<1>3. CASE GwTodo(specs) # {}
  <2>1. /\ gwOp' = [kind |-> "reconcile", by |-> h, specs |-> specs, waiting |-> {}, todo |-> GwTodo(specs)]
        /\ UNCHANGED <<gwSpecs, processes, goroutine>>
    BY <1>3 DEF GwReconcile
  <2>2. GwTodo(specs) \subseteq DOMAIN processes
    BY DEF GwTodo
  <2>3. GwShape' /\ GwTable(gwSpecs)' /\ GwTable(gwOp'.specs)
    BY <2>1 DEF GwInv, GwShape, Registered, GwTable
  <2>4. GwOpInv'
    BY <1>1, <2>1, <2>2, <2>3 DEF GwOpInv, IsOp
  <2>5. GatewaysMatchConfiguration'
    BY <2>1 DEF GatewaysMatchConfiguration, GwUnlocked, GwIdle
  <2> QED
    BY <1>0, <2>3, <2>4, <2>5 DEF GwInv
<1> QED
  BY <1>2, <1>3

LEMMA GwReturnsPreserves ==
    ASSUME GwInv, GwReturns
    PROVE  GwInv' /\ gwSpecs' = gwOp.specs
<1>0. /\ gwOp.kind # "idle" /\ gwOp.todo = {} /\ gwSpecs' = gwOp.specs /\ gwOp' = GwIdle
      /\ gwEnv' = gwEnv /\ gwDone' = gwDone
  BY DEF GwReturns
<1>1. gwOp.kind \in {"reconcile", "stop"} /\ GwTable(gwOp.specs)
  BY <1>0 DEF GwInv, GwOpInv, GwIdle
<1>2. CASE gwOp.kind = "reconcile"
  <2>1. GwStartMissing(gwOp.specs, processes)
    BY <1>2 DEF GwReturns
  <2>2. /\ DOMAIN processes \subseteq DOMAIN gwOp.specs
        /\ \A n \in DOMAIN processes : goroutine[processes[n]].spec = gwOp.specs[n]
    BY <1>0, <1>2 DEF GwInv, GwOpInv, GwIdle
  <2>3. /\ GwShape' /\ DOMAIN processes' = DOMAIN gwOp.specs
        /\ \A n \in DOMAIN gwOp.specs : goroutine'[processes'[n]].spec = gwOp.specs[n]
    BY <1>1, <2>1, <2>2, GwStarts DEF GwInv
  <2> QED
    BY <1>0, <1>1, <2>3 DEF GwInv, GwOpInv, GatewaysMatchConfiguration, GwUnlocked, GwTable
<1>3. CASE gwOp.kind = "stop"
  <2>1. processes' = <<>> /\ goroutine' = goroutine
    BY <1>3 DEF GwReturns
  <2>2. gwDone /\ DOMAIN processes = {}
    BY <1>0, <1>3 DEF GwInv, GwOpInv, GwIdle
  <2>3. DOMAIN processes' = {}
    BY <2>1
  <2>4. GwShape'
    BY <2>1, <2>2, <2>3 DEF GwInv, GwShape, Registered
  <2> QED
    BY <1>0, <1>1, <2>2, <2>4 DEF GwInv, GwOpInv, GatewaysMatchConfiguration, GwTable
<1> QED
  BY <1>0, <1>1, <1>2, <1>3

LEMMA GwApplySecretsPreserves ==
    ASSUME GwInv, NEW env \in Environments, GwApplySecrets(env)
    PROVE  GwInv'
<1>1. gwEnv' = env /\ UNCHANGED <<gwSpecs, processes, goroutine, gwOp, gwDone>>
  BY DEF GwApplySecrets
<1>2. GwShape'
  BY <1>1 DEF GwInv, GwShape, Registered
<1>3. GwOpInv'
  BY <1>1 DEF GwInv, GwOpInv, IsOp
<1> QED
  BY <1>1, <1>2, <1>3 DEF GwInv, GwTable, GatewaysMatchConfiguration, GwUnlocked

LEMMA GwStopPreserves ==
    ASSUME GwInv, GwStopCancels \/ GwStop("stop")
    PROVE  GwInv'
<1>1. CASE GwStopCancels
  <2>1. /\ gwDone' = TRUE /\ UNCHANGED <<gwSpecs, gwEnv, processes, gwOp>>
        /\ goroutine' = [s \in Slots |-> IF s \in FreeSlots THEN goroutine[s]
                                         ELSE [goroutine[s] EXCEPT !.cancelled = TRUE]]
    BY <1>1 DEF GwStopCancels
  <2>2. ASSUME NEW s \in Slots
        PROVE  \/ goroutine'[s] = [pc |-> "free"] /\ goroutine[s] = [pc |-> "free"]
               \/ /\ goroutine'[s] \in RunType /\ goroutine[s] \in RunType /\ Registered(s)
                  /\ goroutine'[s].name = goroutine[s].name /\ goroutine'[s].spec = goroutine[s].spec
    <3>1. CASE goroutine[s] = [pc |-> "free"]
      BY <2>1, <3>1 DEF FreeSlots
    <3>2. CASE goroutine[s] \in RunType /\ Registered(s)
      <4>1. s \notin FreeSlots
        BY <3>2 DEF FreeSlots, RunType
      <4>2. goroutine'[s] = [goroutine[s] EXCEPT !.cancelled = TRUE]
        BY <2>1, <4>1
      <4> QED
        BY <3>2, <4>2 DEF RunType
    <3> QED
      BY <3>1, <3>2 DEF GwInv, GwShape
  <2>3. DOMAIN goroutine' = Slots
    BY <2>1
  <2>4. \A n \in DOMAIN processes : /\ processes[n] \in Slots
                                    /\ goroutine'[processes[n]] \in RunType
                                    /\ goroutine'[processes[n]].name = n
                                    /\ goroutine'[processes[n]].spec = goroutine[processes[n]].spec
    BY <2>2 DEF GwInv, GwShape, RunType
  <2>5. GwShape'
    BY <2>1, <2>2, <2>3, <2>4 DEF GwInv, GwShape, Registered
  <2>6. GwOpInv'
    <3>1. CASE gwOp = GwIdle
      BY <2>1, <3>1 DEF GwOpInv
    <3>2. CASE gwOp # GwIdle
      <4>1. /\ IsOp(gwOp) /\ gwOp.kind \in {"reconcile", "stop"} /\ gwOp.by \in Callers
            /\ gwOp.todo \subseteq DOMAIN processes /\ gwOp.waiting \subseteq gwOp.todo
            /\ GwTable(gwOp.specs) /\ (gwOp.kind = "stop" => gwOp.todo = DOMAIN processes)
        BY <3>2 DEF GwInv, GwOpInv
      <4>2. gwOp.kind = "reconcile" =>
               \A n \in DOMAIN processes \ gwOp.todo :
                  n \in DOMAIN gwOp.specs /\ goroutine'[processes[n]].spec = gwOp.specs[n]
        BY <2>4, <3>2 DEF GwInv, GwOpInv
      <4> QED
        BY <2>1, <4>1, <4>2 DEF GwOpInv, IsOp, GwTable
    <3> QED
      BY <3>1, <3>2
  <2> QED
    BY <2>1, <2>5, <2>6 DEF GwInv, GatewaysMatchConfiguration, GwTable
<1>2. CASE GwStop("stop")
  <2>1. /\ gwDone /\ GwUnlocked /\ UNCHANGED <<gwSpecs, gwEnv, processes, goroutine, gwDone>>
        /\ \/ gwOp' = GwIdle
           \/ gwOp' = [kind |-> "stop", by |-> "stop", specs |-> gwSpecs,
                       waiting |-> {}, todo |-> DOMAIN processes]
    BY <1>2 DEF GwStop
  <2>2. GwShape'
    BY <2>1 DEF GwInv, GwShape, Registered
  <2>3. GwTable(gwSpecs) /\ "stop" \in Callers
    BY CallersAssumption DEF GwInv
  <2>4. CASE gwOp' = GwIdle
    BY <2>1, <2>2, <2>4 DEF GwInv, GwOpInv, GatewaysMatchConfiguration, GwTable
  <2>5. CASE gwOp' = [kind |-> "stop", by |-> "stop", specs |-> gwSpecs,
                      waiting |-> {}, todo |-> DOMAIN processes]
    <3>1. /\ IsOp(gwOp)' /\ gwOp'.kind = "stop" /\ gwOp'.by = "stop" /\ gwOp'.specs = gwSpecs
          /\ gwOp'.waiting = {} /\ gwOp'.todo = DOMAIN processes
      BY <2>5 DEF IsOp
    <3>2. GwOpInv'
      BY <2>1, <2>3, <3>1 DEF GwOpInv, GwTable
    <3> QED
      BY <2>1, <2>2, <3>2 DEF GwInv, GatewaysMatchConfiguration, GwTable
  <2> QED
    BY <2>1, <2>4, <2>5
<1> QED
  BY <1>1, <1>2

LEMMA GwCancelsOnePreserves ==
    ASSUME GwInv, NEW n, GwCancelsOne(n)
    PROVE  GwInv' /\ gwOp'.specs = gwOp.specs
<1>1. /\ gwOp.kind # "idle" /\ n \in gwOp.todo /\ gwOp' = [gwOp EXCEPT !.waiting = {n}]
      /\ goroutine' = [goroutine EXCEPT ![processes[n]].cancelled = TRUE]
      /\ UNCHANGED <<gwSpecs, gwEnv, processes, gwDone>>
  BY DEF GwCancelsOne
<1>2. /\ IsOp(gwOp) /\ gwOp # GwIdle /\ gwOp.todo \subseteq DOMAIN processes
  BY <1>1 DEF GwInv, GwOpInv, GwIdle
<1>3. processes[n] \in Slots /\ goroutine[processes[n]] \in RunType
  BY <1>1, <1>2 DEF GwInv, GwShape
<1>4. PICK r : r = [goroutine[processes[n]] EXCEPT !.cancelled = TRUE]
  OBVIOUS
<1>5. /\ r \in RunType /\ r.name = goroutine[processes[n]].name /\ r.spec = goroutine[processes[n]].spec
      /\ goroutine' = [goroutine EXCEPT ![processes[n]] = r]
  BY <1>1, <1>3, <1>4 DEF RunType
<1>6. /\ GwShape'
      /\ \A m \in DOMAIN processes : goroutine'[processes[m]].spec = goroutine[processes[m]].spec
  BY <1>1, <1>3, <1>5, GoroutineMoves DEF GwInv
<1>7. gwOp' = [kind |-> gwOp.kind, by |-> gwOp.by, specs |-> gwOp.specs, waiting |-> {n}, todo |-> gwOp.todo]
  BY <1>1, <1>2 DEF IsOp
<1>8. GwOpInv'
  <2>1. /\ gwOp.kind \in {"reconcile", "stop"} /\ gwOp.by \in Callers /\ GwTable(gwOp.specs)
        /\ gwOp.kind = "stop" => gwDone /\ gwOp.todo = DOMAIN processes
    BY <1>2 DEF GwInv, GwOpInv
  <2>2. gwOp.kind = "reconcile" =>
           \A m \in DOMAIN processes \ gwOp.todo :
              m \in DOMAIN gwOp.specs /\ goroutine'[processes[m]].spec = gwOp.specs[m]
    BY <1>2, <1>6 DEF GwInv, GwOpInv
  <2>3. /\ IsOp(gwOp)' /\ gwOp'.kind = gwOp.kind /\ gwOp'.by = gwOp.by /\ gwOp'.specs = gwOp.specs
        /\ gwOp'.waiting = {n} /\ gwOp'.todo = gwOp.todo
    BY <1>7 DEF IsOp
  <2> QED
    BY <1>1, <1>2, <2>1, <2>2, <2>3 DEF GwOpInv, GwTable
<1>9. GatewaysMatchConfiguration'
  BY <1>1, <1>7 DEF GatewaysMatchConfiguration, GwUnlocked, GwIdle
<1> QED
  BY <1>1, <1>6, <1>7, <1>8, <1>9 DEF GwInv, GwTable

\* The entry is deleted when its goroutine has ended, and not before.
LEMMA GwOneEndedPreserves ==
    ASSUME GwInv, NEW n, GwOneEnded(n)
    PROVE  GwInv' /\ gwOp'.specs = gwOp.specs
<1>1. /\ gwOp.kind # "idle" /\ n \in gwOp.waiting /\ goroutine[processes[n]].pc = "done"
      /\ gwOp' = [gwOp EXCEPT !.waiting = {}, !.todo = gwOp.todo \ {n}]
      /\ processes' = [m \in DOMAIN processes \ {n} |-> processes[m]]
      /\ UNCHANGED <<gwSpecs, gwEnv, gwDone>>
  BY DEF GwOneEnded, DoneIsClosed, Restrict
<1>2. goroutine' = [goroutine EXCEPT ![processes[n]] = [pc |-> "free"]]
  BY <1>1 DEF GwOneEnded
<1>3. IsOp(gwOp) /\ gwOp # GwIdle /\ gwOp.todo \subseteq DOMAIN processes /\ n \in gwOp.todo
  BY <1>1 DEF GwInv, GwOpInv, GwIdle
<1>4. /\ DOMAIN goroutine' = Slots
      /\ \A s \in Slots : goroutine'[s] = IF s = processes[n] THEN [pc |-> "free"] ELSE goroutine[s]
  BY <1>2 DEF GwInv, GwShape
<1>5. /\ DOMAIN processes' = DOMAIN processes \ {n} /\ n \in DOMAIN processes
      /\ \A m \in DOMAIN processes' : processes'[m] = processes[m] /\ processes[m] # processes[n]
  BY <1>1, <1>3 DEF GwInv, GwShape
<1>6. GwShape'
  BY <1>4, <1>5 DEF GwInv, GwShape, Registered
<1>7. gwOp' = [kind |-> gwOp.kind, by |-> gwOp.by, specs |-> gwOp.specs,
               waiting |-> {}, todo |-> gwOp.todo \ {n}]
  BY <1>1, <1>3 DEF IsOp
<1>8. \A m \in DOMAIN processes' : goroutine'[processes'[m]].spec = goroutine[processes[m]].spec
  BY <1>4, <1>5 DEF GwInv, GwShape
<1>9. GwOpInv'
  <2>1. /\ gwOp.kind \in {"reconcile", "stop"} /\ gwOp.by \in Callers /\ GwTable(gwOp.specs)
        /\ gwOp.kind = "stop" => gwDone /\ gwOp.todo = DOMAIN processes
        /\ gwOp.kind = "reconcile" =>
              \A m \in DOMAIN processes \ gwOp.todo :
                 m \in DOMAIN gwOp.specs /\ goroutine[processes[m]].spec = gwOp.specs[m]
    BY <1>3 DEF GwInv, GwOpInv
  <2>2. /\ IsOp(gwOp)' /\ gwOp'.kind = gwOp.kind /\ gwOp'.by = gwOp.by /\ gwOp'.specs = gwOp.specs
        /\ gwOp'.waiting = {} /\ gwOp'.todo = gwOp.todo \ {n}
    BY <1>7 DEF IsOp
  <2>3. DOMAIN processes' \ gwOp'.todo = DOMAIN processes \ gwOp.todo
    BY <1>3, <1>5, <2>2
  <2> QED
    BY <1>1, <1>3, <1>5, <1>8, <2>1, <2>2, <2>3 DEF GwOpInv, GwTable
<1>10. GatewaysMatchConfiguration'
  BY <1>1, <1>7 DEF GatewaysMatchConfiguration, GwUnlocked, GwIdle
<1> QED
  BY <1>1, <1>6, <1>7, <1>9, <1>10 DEF GwInv, GwTable

-----------------------------------------------------------------------------
(* The schedules.                                                          *)

LEMMA LeastTick ==
    ASSUME NEW S, S \subseteq Nat, S # {}
    PROVE  Min(S) \in S /\ \A y \in S : Min(S) <= y
<1>1. PICK x \in S : \A y \in S : ~(<<y, x>> \in OpToRel(<, Nat))
  <2> HIDE DEF OpToRel
  <2> QED
    BY WFMin, NatLessThanWellFounded, Zenon
<1>2. \A y \in S : ~(y < x)
  BY <1>1 DEF OpToRel
<1>3. \E z \in S : \A y \in S : z <= y
  BY <1>2
<1> QED
  BY <1>3 DEF Min

\* The expressions of schedules are those of the configurations and of the tool calls.
LEMMA ExprsWellFormed ==
    /\ \A e \in Exprs : WellFormed(e)
    /\ \A spec \in CronSpecs : spec.expr \in Exprs /\ spec.db \in BOOLEAN
    /\ \A u \in UserEdits : u.expr \in Exprs /\ u.enabled \in BOOLEAN
    /\ \A d \in Deployments : \A c \in d.configs : McpTable(c.mcp) /\ GwTable(c.ext) /\ CronTable(c.cron)
<1>1. \A d \in Deployments : \A c \in d.configs : c \in Configs
  BY DEF Configs
<1>2. \A c \in Configs : /\ McpTable(c.mcp) /\ GwTable(c.ext) /\ DOMAIN c.cron \subseteq CronNames
                         /\ \A n \in DOMAIN c.cron : c.cron[n].db \in BOOLEAN /\ WellFormed(c.cron[n].expr)
  BY ConfigsAssumption DEF Configs, McpTable, GwTable
<1>3. \A c \in Configs : \A n \in DOMAIN c.cron : c.cron[n] \in CronSpecs
  BY DEF CronSpecs
<1>4. \A spec \in CronSpecs : spec.db \in BOOLEAN /\ WellFormed(spec.expr)
  BY <1>2 DEF CronSpecs
<1>5. \A spec \in CronSpecs : spec.expr \in Exprs
  BY DEF Exprs
<1>6. \A u \in UserEdits : u.expr \in Exprs /\ u.enabled \in BOOLEAN
  BY ConfigsAssumption DEF Exprs
<1>7. \A e \in Exprs : WellFormed(e)
  BY <1>4, ConfigsAssumption DEF Exprs
<1> QED
  BY <1>1, <1>2, <1>3, <1>4, <1>5, <1>6, <1>7 DEF CronTable

\* The next tick, where there is one, is later than now and matches the expression.
LEMMA NextTickType ==
    ASSUME NEW e \in Exprs, NEW t \in Nat
    PROVE  /\ NextTick(e, t) \in Nat
           /\ e.kind # "every" /\ NextTick(e, t) # NoTick => NextTick(e, t) > t /\ Matches(e, NextTick(e, t))
           /\ e.kind = "every" /\ e.every > 0 => NextTick(e, t) > t
<1>0. WellFormed(e) /\ Horizon \in Nat
  BY ExprsWellFormed, CronAssumption
<1>1. CASE e.kind = "every"
  BY <1>0, <1>1 DEF NextTick, WellFormed
<1>2. CASE e.kind # "every"
  <2> DEFINE ticks == {u \in (t + 1)..(t + Horizon) : Matches(e, u)}
  <2>1. ticks \subseteq Nat /\ \A u \in ticks : u > t /\ Matches(e, u)
    BY <1>0
  <2>2. NextTick(e, t) = IF ticks = {} THEN NoTick ELSE Min(ticks)
    BY <1>2 DEF NextTick
  <2> HIDE DEF ticks
  <2>3. ticks # {} => Min(ticks) \in ticks
    BY <2>1, LeastTick
  <2>4. NextTick(e, t) \in ticks \/ NextTick(e, t) = NoTick
    BY <2>2, <2>3
  <2>5. NextTick(e, t) \in Nat
    <3>1. NoTick \in Nat
      BY DEF NoTick
    <3> QED BY <2>1, <2>4, <3>1, Zenon
  <2> QED
    BY <1>2, <2>1, <2>4, <2>5
<1> QED
  BY <1>1, <1>2

LEMMA NextCronTickType ==
    ASSUME NEW e \in Exprs, NEW t \in Nat, NextCronTick(e, t) # NoTick
    PROVE  /\ NextCronTick(e, t) \in Nat /\ NextCronTick(e, t) > t
           /\ e.kind = "fields" => Matches(e, NextCronTick(e, t))
<1>1. Valid(e) /\ NextCronTick(e, t) = NextTick(e, t)
  BY DEF NextCronTick
<1>2. e.kind = "every" => e.every > 0
  BY <1>1 DEF Valid
<1> QED
  BY <1>1, <1>2, NextTickType

\* A job that does not move keeps its part of the invariant, as long as the rows it holds keep
\* their gateway and, unless they are marked as edited, their expression.
SameJob(m) ==
    /\ jobs'[m] \in JobType /\ jobs'[m].db = jobs[m].db /\ jobs'[m].batch = jobs[m].batch
    /\ jobs'[m].pc = jobs[m].pc /\ jobs'[m].at = jobs[m].at

LEMMA OtherJob ==
    ASSUME NEW m \in DOMAIN jobs, JobInv(m), SameJob(m),
           now \in Nat, now' \in Nat, now <= now',
           \A i \in DOMAIN jobs[m].batch : LET id == jobs[m].batch[i].id IN
              rows[id].gateway = m =>
                 /\ id \in Rows' /\ rows'[id].gateway = m
                 /\ id \notin overtaken' => id \notin overtaken /\ rows'[id].expr = rows[id].expr,
           unmarked \subseteq unmarked',
           \A occ \in fired' : occ \in fired \/ (occ[1] \in Rows /\ rows[occ[1]].gateway # m)
    PROVE  JobInv(m)'
<1>1. jobs[m] \in JobType /\ jobs[m].at \in Nat /\ jobs[m].batch \in Seq(Entry)
  BY DEF JobInv, JobType
<1>2. ASSUME NEW i \in DOMAIN jobs[m].batch
      PROVE  EntryInv(m, i)'
  <2> DEFINE b == jobs[m].batch[i]
  <2>1. EntryInv(m, i)
    BY DEF JobInv
  <2>2. b.id \in Rows /\ rows[b.id].gateway = m /\ b.due <= jobs[m].at
    BY <2>1 DEF EntryInv
  <2>3. b.id \in Rows' /\ rows'[b.id].gateway = m /\ (b.id \notin overtaken' => b.expr = rows'[b.id].expr)
    BY <2>1, <2>2 DEF EntryInv
  <2>4. (i > 1 \/ jobs[m].pc = "batch") /\ <<b.id, b.due>> \in fired' => <<b.id, b.due>> \in unmarked'
    BY <2>1, <2>2 DEF EntryInv
  <2>5. \A occ \in fired' : occ[1] = b.id => occ[2] <= jobs[m].at
    BY <2>1, <2>2 DEF EntryInv
  <2>6. jobs'[m].batch[i] = b /\ jobs'[m].at = jobs[m].at /\ jobs'[m].pc = jobs[m].pc
    BY DEF SameJob
  <2> QED
    BY <2>2, <2>3, <2>4, <2>5, <2>6 DEF EntryInv
<1>3. IF Busy(m)' THEN jobs'[m].db /\ jobs'[m].batch # <<>> /\ jobs'[m].at <= now'
                  ELSE jobs'[m].batch = <<>>
  BY <1>1 DEF JobInv, Busy, SameJob
<1>4. /\ jobs'[m].pc = "idle" => jobs'[m].db
      /\ jobs'[m].pc = "mark" => NextCronTick(jobs'[m].batch[1].expr, jobs'[m].at) # NoTick
  BY DEF JobInv, SameJob
<1>5. \A i, j \in DOMAIN jobs'[m].batch : jobs'[m].batch[i].id = jobs'[m].batch[j].id => i = j
  BY DEF JobInv, SameJob
<1>6. \A i \in DOMAIN jobs'[m].batch : EntryInv(m, i)'
  BY <1>2 DEF SameJob
<1> QED
  BY <1>3, <1>4, <1>5, <1>6 DEF JobInv, SameJob

\* A step of job n, which touches the rows of its gateway only.
JobTouches(n) ==
    /\ UNCHANGED <<now, cronSpecs, cronOp, cronDone, overtaken>>
    /\ DOMAIN jobs' = DOMAIN jobs /\ \A m \in DOMAIN jobs : m # n => jobs'[m] = jobs[m]
    /\ DOMAIN rows' = DOMAIN rows
    /\ \A id \in Rows : \/ rows'[id] = rows[id]
                        \/ /\ rows[id].gateway = n /\ rows'[id] \in RowType
                           /\ rows'[id].gateway = n /\ rows'[id].expr = rows[id].expr
    /\ unmarked \subseteq unmarked'
    /\ \A occ \in fired' : occ \in fired \/ (occ[1] \in Rows /\ rows[occ[1]].gateway = n)

LEMMA JobStep ==
    ASSUME CronInv, NEW n, n \in DOMAIN jobs, JobTouches(n), JobInv(n)', HistoryTypes',
           FiredInv', RefireOnlyAfterLostMark', NextRunFollowsExpression'
    PROVE  CronInv'
<1>0. now \in Nat /\ now' = now /\ overtaken' = overtaken
  BY CronAssumption DEF CronInv, JobTouches
<1>1. ASSUME NEW m \in DOMAIN jobs'
      PROVE  JobInv(m)'
  <2>1. CASE m = n
    BY <2>1
  <2>2. CASE m # n
    <3>1. m \in DOMAIN jobs /\ JobInv(m) /\ SameJob(m)
      BY <2>2 DEF CronInv, JobsInv, JobTouches, SameJob, JobInv
    <3>2. ASSUME NEW i \in DOMAIN jobs[m].batch, NEW id, id = jobs[m].batch[i].id, rows[id].gateway = m
          PROVE  /\ id \in Rows' /\ rows'[id].gateway = m
                 /\ id \notin overtaken' => id \notin overtaken /\ rows'[id].expr = rows[id].expr
      <4>1. id \in Rows
        BY <3>1, <3>2 DEF JobInv, EntryInv
      <4> QED
        BY <1>0, <2>2, <3>2, <4>1 DEF JobTouches, Rows
    <3>3. \A occ \in fired' : occ \in fired \/ (occ[1] \in Rows /\ rows[occ[1]].gateway # m)
      BY <2>2 DEF JobTouches
    <3>4. unmarked \subseteq unmarked' /\ now <= now'
      BY <1>0 DEF JobTouches
    <3> QED
      BY <1>0, <3>1, <3>2, <3>3, <3>4, OtherJob
  <2> QED
    BY <2>1, <2>2
<1>2. JobsInv'
  BY <1>1 DEF JobsInv, CronInv, JobTouches
<1>3. RowsInv'
  BY DEF RowsInv, CronInv, JobTouches, Rows
<1>4. CronOpInv'
  BY DEF CronInv, CronOpInv, JobTouches, IsOp
<1> QED
  BY <1>2, <1>3, <1>4 DEF CronInv, JobTouches

LEMMA LastIsTaken ==
    ASSUME NEW S, NEW seq \in Seq(S), seq # <<>>
    PROVE  Len(seq) = 1 <=> Tail(seq) = <<>>
<1>1. /\ Tail(seq) \in Seq(S) /\ Len(seq) \in Nat /\ Len(seq) > 0
      /\ Len(Tail(seq)) = Len(seq) - 1
  OBVIOUS
<1>2. \A t \in Seq(S) : Len(t) = 0 <=> t = <<>>
  OBVIOUS
<1>3. Len(Tail(seq)) = 0 <=> Tail(seq) = <<>>
  BY <1>1, <1>2
<1> QED
  BY <1>1, <1>3

LEMMA PoppedJob ==
    ASSUME NEW n, n \in DOMAIN jobs, JobInv(n), Busy(n), jobs' = Popped(n)
    PROVE  /\ DOMAIN jobs' = DOMAIN jobs /\ \A m \in DOMAIN jobs : m # n => jobs'[m] = jobs[m]
           /\ jobs'[n] \in JobType /\ jobs'[n].at = jobs[n].at /\ jobs'[n].db = jobs[n].db
           /\ jobs'[n].batch = Tail(jobs[n].batch)
           /\ jobs'[n].pc = IF Len(jobs[n].batch) = 1 THEN "idle" ELSE "batch"
<1>1. jobs[n] \in JobType /\ jobs[n].batch \in Seq(Entry) /\ jobs[n].batch # <<>>
  BY DEF JobInv, JobType
<1>2. PICK pc \in {"idle", "batch"} : pc = IF Len(jobs[n].batch) = 1 THEN "idle" ELSE "batch"
  OBVIOUS
<1>3. PICK rest : rest = Tail(jobs[n].batch)
  OBVIOUS
<1>4. rest \in Seq(Entry)
  BY <1>1, <1>3
<1>5. PICK job : job = [jobs[n] EXCEPT !.batch = rest, !.pc = pc]
  OBVIOUS
<1>6. jobs' = [jobs EXCEPT ![n] = job]
  BY <1>2, <1>3, <1>5 DEF Popped
<1>7. job \in JobType /\ job.at = jobs[n].at /\ job.db = jobs[n].db /\ job.batch = rest /\ job.pc = pc
  BY <1>1, <1>2, <1>4, <1>5 DEF JobType
<1> QED
  BY <1>2, <1>3, <1>6, <1>7

\* The rest of a batch, after its first row was finished.
LEMMA PoppedInv ==
    ASSUME NEW n, n \in DOMAIN jobs, JobInv(n), Busy(n), jobs' = Popped(n),
           UNCHANGED <<now, fired, overtaken>>, unmarked \subseteq unmarked',
           \A id \in Rows : id \in Rows' /\ rows'[id].gateway = rows[id].gateway /\ rows'[id].expr = rows[id].expr
    PROVE  JobInv(n)'
<1>1. /\ jobs[n] \in JobType /\ jobs[n].batch \in Seq(Entry) /\ jobs[n].batch # <<>>
      /\ jobs[n].db /\ jobs[n].at <= now
  BY DEF JobInv, JobType
<1>2. /\ jobs'[n] \in JobType /\ jobs'[n].at = jobs[n].at /\ jobs'[n].db = jobs[n].db
      /\ jobs'[n].batch = Tail(jobs[n].batch)
      /\ jobs'[n].pc = IF Len(jobs[n].batch) = 1 THEN "idle" ELSE "batch"
  BY PoppedJob
<1>3. \A i \in DOMAIN jobs'[n].batch : /\ i \in Nat /\ i + 1 \in DOMAIN jobs[n].batch /\ i + 1 > 1
                                       /\ jobs'[n].batch[i] = jobs[n].batch[i + 1]
  BY <1>1, <1>2
<1>4. Len(jobs[n].batch) = 1 <=> jobs'[n].batch = <<>>
  BY <1>1, <1>2, LastIsTaken
<1>5. ASSUME NEW i \in DOMAIN jobs'[n].batch
      PROVE  EntryInv(n, i)'
  <2>1. EntryInv(n, i + 1)
    BY <1>3 DEF JobInv
  <2>2. /\ jobs'[n].batch[i] = jobs[n].batch[i + 1] /\ i + 1 > 1
    BY <1>3
  <2> QED
    BY <1>2, <2>1, <2>2 DEF EntryInv
<1>6. \A i, j \in DOMAIN jobs'[n].batch : jobs'[n].batch[i].id = jobs'[n].batch[j].id => i = j
  <2>1. \A i, j \in DOMAIN jobs[n].batch : jobs[n].batch[i].id = jobs[n].batch[j].id => i = j
    BY DEF JobInv
  <2> QED
    BY <1>3, <2>1
<1>7. IF Busy(n)' THEN jobs'[n].db /\ jobs'[n].batch # <<>> /\ jobs'[n].at <= now'
                  ELSE jobs'[n].batch = <<>>
  BY <1>1, <1>2, <1>4 DEF Busy
<1>8. jobs'[n].pc # "mark" /\ jobs'[n].db
  BY <1>1, <1>2
<1> QED
  BY <1>2, <1>5, <1>6, <1>7, <1>8 DEF JobInv

\* The first row of a batch is finished: it moves on to the next run of what was fetched, or
\* stays where it is, not dispatched or with its mark lost.
LEMMA PopStep ==
    ASSUME CronInv, NEW n, n \in DOMAIN jobs, Busy(n), jobs' = Popped(n),
           UNCHANGED <<now, cronSpecs, cronOp, cronDone, fired, refired, overtaken>>,
           NEW hd, hd = jobs[n].batch[1], NEW row \in RowType,
           row.gateway = rows[hd.id].gateway, row.expr = rows[hd.id].expr,
           DOMAIN rows' = DOMAIN rows, rows'[hd.id] = row, \A id \in Rows : id # hd.id => rows'[id] = rows[id],
           unmarked' \in {unmarked, unmarked \cup {<<hd.id, hd.due>>}},
           \/ row.next = NextCronTick(hd.expr, jobs[n].at) /\ row.next # NoTick
           \/ row.next = rows[hd.id].next /\ (jobs[n].pc = "mark" => <<hd.id, hd.due>> \in unmarked')
    PROVE  CronInv'
<1>1. /\ JobInv(n) /\ jobs[n].batch \in Seq(Entry) /\ jobs[n].batch # <<>> /\ jobs[n].at \in Nat
      /\ RowsInv /\ HistoryTypes
  BY DEF CronInv, JobsInv, JobInv, JobType
<1>2. 1 \in DOMAIN jobs[n].batch /\ hd \in Entry /\ Head(jobs[n].batch) = hd
  BY <1>1
<1>3. /\ hd.id \in Rows /\ rows[hd.id].gateway = n /\ (hd.id \notin overtaken => hd.expr = rows[hd.id].expr)
      /\ \A occ \in fired : occ[1] = hd.id => occ[2] <= jobs[n].at
  <2>1. EntryInv(n, 1)
    BY <1>1, <1>2 DEF JobInv
  <2> QED
    BY <2>1 DEF EntryInv
<1>4. /\ hd.id \in RowIds /\ hd.due \in Nat /\ hd.expr \in Exprs /\ row.next \in Nat
      /\ \A id \in Rows : rows[id] \in RowType /\ rows[id].next \in Nat
      /\ \A occ \in fired : occ[2] \in Nat
  BY <1>1, <1>2 DEF Entry, RowType, RowsInv, HistoryTypes
<1>5. \A id \in Rows : /\ id \in Rows' /\ rows'[id].gateway = rows[id].gateway
                       /\ rows'[id].expr = rows[id].expr
  BY DEF Rows
<1>6. unmarked \subseteq unmarked'
  OBVIOUS
<1>7. JobInv(n)'
  BY <1>1, <1>5, <1>6, PoppedInv
<1>8. JobTouches(n)
  BY <1>1, <1>3, <1>4, <1>6, PoppedJob DEF JobTouches, Rows
<1>9. HistoryTypes'
  BY <1>1, <1>4 DEF HistoryTypes
<1>10. FiredInv'
  <2> SUFFICES ASSUME NEW occ \in fired
               PROVE  /\ occ[1] \in Rows' /\ occ[2] <= now'
                      /\ \/ occ \in unmarked' \/ rows'[occ[1]].next > occ[2]
                         \/ \E m \in DOMAIN jobs' : Marking(m, occ)'
    BY DEF FiredInv
  <2>1. occ[1] \in Rows /\ occ[2] <= now /\ occ[2] \in Nat
    BY <1>4 DEF CronInv, FiredInv
  <2>2. CASE occ \in unmarked
    BY <1>5, <1>6, <2>1, <2>2
  <2>3. CASE rows[occ[1]].next > occ[2]
    <3>1. CASE occ[1] # hd.id
      BY <1>5, <2>1, <2>3, <3>1
    <3>2. CASE occ[1] = hd.id /\ row.next = rows[hd.id].next
      BY <1>5, <2>1, <2>3, <3>2
    <3>3. CASE occ[1] = hd.id /\ row.next = NextCronTick(hd.expr, jobs[n].at) /\ row.next # NoTick
      <4>1. row.next > jobs[n].at
        BY <1>1, <1>4, <3>3, NextCronTickType
      <4> QED
        BY <1>1, <1>3, <1>4, <1>5, <2>1, <3>3, <4>1
    <3> QED
      BY <3>1, <3>2, <3>3
  <2>4. ASSUME NEW m \in DOMAIN jobs, Marking(m, occ)
        PROVE  occ \in unmarked' \/ rows'[occ[1]].next > occ[2] \/ \E k \in DOMAIN jobs' : Marking(k, occ)'
    <3>1. CASE m # n
      <4>1. jobs'[m] = jobs[m] /\ m \in DOMAIN jobs'
        BY <1>8, <3>1 DEF JobTouches
      <4> QED
        BY <2>4, <4>1 DEF Marking
    <3>2. CASE m = n
      <4>1. occ = <<hd.id, hd.due>> /\ jobs[n].pc = "mark"
        BY <1>2, <2>4, <3>2 DEF Marking
      <4>2. CASE row.next = NextCronTick(hd.expr, jobs[n].at) /\ row.next # NoTick
        <5>1. row.next > jobs[n].at
          BY <1>1, <1>4, <4>2, NextCronTickType
        <5> QED
          BY <1>1, <1>3, <1>4, <4>1, <5>1
      <4> QED
        BY <4>1, <4>2
    <3> QED
      BY <3>1, <3>2
  <2> QED
    BY <1>5, <2>1, <2>2, <2>3, <2>4 DEF CronInv, FiredInv
<1>11. RefireOnlyAfterLostMark'
  BY <1>6 DEF CronInv, RefireOnlyAfterLostMark
<1>12. NextRunFollowsExpression'
  <2> SUFFICES ASSUME NEW id \in Rows \ overtaken, rows'[id].expr.kind = "fields"
               PROVE  Matches(rows'[id].expr, rows'[id].next)
    BY DEF NextRunFollowsExpression, Rows
  <2>1. rows[id].expr.kind = "fields" /\ rows'[id].expr = rows[id].expr /\ Matches(rows[id].expr, rows[id].next)
    BY <1>5 DEF CronInv, NextRunFollowsExpression
  <2>2. CASE id = hd.id /\ row.next = NextCronTick(hd.expr, jobs[n].at) /\ row.next # NoTick
    <3>1. hd.expr = rows[id].expr
      BY <1>3, <2>2
    <3>2. Matches(hd.expr, row.next)
      BY <1>1, <1>4, <2>1, <2>2, <3>1, NextCronTickType
    <3> QED
      BY <2>1, <2>2, <3>1, <3>2
  <2> QED
    BY <2>1, <2>2
<1> QED
  BY <1>7, <1>8, <1>9, <1>10, <1>11, <1>12, JobStep

\* The first row of the batch of a busy job.
LEMMA HeadOfBatch ==
    ASSUME CronInv, NEW n, n \in DOMAIN jobs, Busy(n)
    PROVE  LET hd == Head(jobs[n].batch)
           IN  /\ hd = jobs[n].batch[1] /\ 1 \in DOMAIN jobs[n].batch
               /\ hd.id \in Rows /\ hd.expr \in Exprs /\ hd.due \in Nat /\ hd.id \in RowIds
               /\ rows[hd.id] \in RowType /\ rows[hd.id].gateway = n /\ hd.due <= jobs[n].at
               /\ jobs[n].at \in Nat /\ jobs[n].at <= now
               /\ jobs[n].pc = "mark" => NextCronTick(hd.expr, jobs[n].at) # NoTick
<1>1. /\ JobInv(n) /\ jobs[n].batch \in Seq(Entry) /\ jobs[n].batch # <<>> /\ jobs[n].at \in Nat
      /\ jobs[n].at <= now /\ RowsInv
  BY DEF CronInv, JobsInv, JobInv, JobType
<1>2. PICK hd : hd = Head(jobs[n].batch)
  OBVIOUS
<1>3. 1 \in DOMAIN jobs[n].batch /\ hd \in Entry /\ hd = jobs[n].batch[1]
  BY <1>1, <1>2
<1>4. EntryInv(n, 1)
  BY <1>1, <1>3 DEF JobInv
<1>5. hd.id \in Rows /\ rows[hd.id].gateway = n /\ hd.due <= jobs[n].at
  BY <1>3, <1>4 DEF EntryInv
<1>6. jobs[n].pc = "mark" => NextCronTick(hd.expr, jobs[n].at) # NoTick
  BY <1>1, <1>3 DEF JobInv
<1> QED
  BY <1>1, <1>2, <1>3, <1>5, <1>6 DEF Entry, RowsInv

LEMMA FinishPreserves ==
    ASSUME CronInv, NEW n, n \in DOMAIN jobs,
           DisableExhausted(n) \/ DispatchFails(n) \/ MarkTriggered(n) \/ MarkFails(n)
    PROVE  CronInv'
<1> DEFINE hd == Head(jobs[n].batch)
<1>0. Busy(n) /\ jobs' = Popped(n) /\ UNCHANGED <<now, cronSpecs, cronOp, cronDone, fired, refired, overtaken>>
  BY DEF Busy, DisableExhausted, DispatchFails, MarkTriggered, MarkFails, cronHist
<1>1. /\ hd = jobs[n].batch[1] /\ hd.id \in Rows /\ hd.expr \in Exprs /\ hd.due \in Nat
      /\ rows[hd.id] \in RowType /\ rows[hd.id].gateway = n /\ jobs[n].at \in Nat
      /\ jobs[n].pc = "mark" => NextCronTick(hd.expr, jobs[n].at) # NoTick
  BY <1>0, HeadOfBatch
<1> HIDE DEF hd
<1>2. CASE DisableExhausted(n)
  <2>1. jobs[n].pc = "batch" /\ rows' = [rows EXCEPT ![hd.id].enabled = FALSE] /\ unmarked' = unmarked
    BY <1>2 DEF DisableExhausted, hd, cronHist
  <2>2. PICK row : row = [rows[hd.id] EXCEPT !.enabled = FALSE]
    OBVIOUS
  <2>3. /\ row \in RowType /\ row.gateway = rows[hd.id].gateway /\ row.expr = rows[hd.id].expr
        /\ row.next = rows[hd.id].next
    BY <1>1, <2>2 DEF RowType
  <2>4. /\ DOMAIN rows' = DOMAIN rows /\ rows'[hd.id] = row
        /\ \A id \in Rows : id # hd.id => rows'[id] = rows[id]
    BY <1>1, <2>1, <2>2 DEF Rows
  <2>5. /\ unmarked' \in {unmarked, unmarked \cup {<<hd.id, hd.due>>}}
        /\ row.next = rows[hd.id].next /\ (jobs[n].pc = "mark" => <<hd.id, hd.due>> \in unmarked')
    BY <2>1, <2>3
  <2> QED
    BY <1>0, <1>1, <2>3, <2>4, <2>5, PopStep
<1>3. CASE DispatchFails(n) \/ MarkTriggered(n)
  <2> DEFINE next == NextCronTick(hd.expr, jobs[n].at)
  <2>1. rows' = [rows EXCEPT ![hd.id].next = next] /\ unmarked' = unmarked /\ next # NoTick
    BY <1>1, <1>3 DEF DispatchFails, MarkTriggered, hd, cronHist
  <2>2. next \in Nat \ {0}
    BY <1>1, <2>1, NextCronTickType
  <2> HIDE DEF next
  <2>3. PICK row : row = [rows[hd.id] EXCEPT !.next = next]
    OBVIOUS
  <2>4. row \in RowType /\ row.gateway = rows[hd.id].gateway /\ row.expr = rows[hd.id].expr /\ row.next = next
    BY <1>1, <2>2, <2>3 DEF RowType
  <2>5. /\ DOMAIN rows' = DOMAIN rows /\ rows'[hd.id] = row
        /\ \A id \in Rows : id # hd.id => rows'[id] = rows[id]
    BY <1>1, <2>1, <2>3 DEF Rows
  <2>6. /\ row.next = NextCronTick(hd.expr, jobs[n].at) /\ row.next # NoTick
        /\ unmarked' \in {unmarked, unmarked \cup {<<hd.id, hd.due>>}}
    BY <2>1, <2>4 DEF next
  <2>7. \/ row.next = NextCronTick(hd.expr, jobs[n].at) /\ row.next # NoTick
        \/ row.next = rows[hd.id].next /\ (jobs[n].pc = "mark" => <<hd.id, hd.due>> \in unmarked')
    BY <2>6
  <2>8. row \in RowType /\ row.gateway = rows[hd.id].gateway /\ row.expr = rows[hd.id].expr
    BY <2>4
  <2> QED
    BY <1>0, <1>1, <2>5, <2>6, <2>7, <2>8, PopStep
<1>4. CASE MarkFails(n)
  <2>1. rows' = rows /\ unmarked' = unmarked \cup {<<hd.id, hd.due>>}
    BY <1>4 DEF MarkFails, hd
  <2>2. PICK row : row = rows[hd.id]
    OBVIOUS
  <2>3. /\ row \in RowType /\ row.gateway = rows[hd.id].gateway /\ row.expr = rows[hd.id].expr
        /\ row.next = rows[hd.id].next /\ <<hd.id, hd.due>> \in unmarked'
        /\ DOMAIN rows' = DOMAIN rows /\ rows'[hd.id] = row
        /\ \A id \in Rows : id # hd.id => rows'[id] = rows[id]
    BY <1>1, <2>1, <2>2
  <2> QED
    BY <1>0, <1>1, <2>1, <2>3, PopStep
<1> QED
  BY <1>2, <1>3, <1>4

\* An occurrence of the batch that has fired before is one whose mark was lost.
LEMMA DispatchPreserves ==
    ASSUME CronInv, NEW n, n \in DOMAIN jobs, Dispatch(n)
    PROVE  CronInv'
<1> DEFINE hd == Head(jobs[n].batch)
           occ == <<hd.id, hd.due>>
<1>0. /\ Busy(n) /\ jobs[n].pc = "batch" /\ jobs' = [jobs EXCEPT ![n].pc = "mark"]
      /\ NextCronTick(hd.expr, jobs[n].at) # NoTick
      /\ fired' = fired \cup {occ} /\ refired' \in {refired, refired \cup {occ}}
      /\ refired' # refired => occ \in fired
      /\ UNCHANGED <<now, rows, cronSpecs, cronOp, cronDone, unmarked, overtaken>>
  BY DEF Busy, Dispatch
<1>1. /\ hd = jobs[n].batch[1] /\ 1 \in DOMAIN jobs[n].batch
      /\ hd.id \in Rows /\ hd.id \in RowIds /\ hd.expr \in Exprs /\ hd.due \in Nat
      /\ rows[hd.id].gateway = n /\ hd.due <= jobs[n].at /\ jobs[n].at \in Nat /\ jobs[n].at <= now
  BY <1>0, HeadOfBatch
<1> HIDE DEF hd
<1>2. JobInv(n) /\ now \in Nat /\ HistoryTypes /\ jobs[n] \in JobType
  BY CronAssumption DEF CronInv, JobsInv, JobInv
<1>3. occ \in fired => occ \in unmarked
  BY <1>0, <1>1, <1>2 DEF JobInv, EntryInv
<1>4. PICK job : job = [jobs[n] EXCEPT !.pc = "mark"]
  OBVIOUS
<1>5. /\ job \in JobType /\ job.at = jobs[n].at /\ job.db = jobs[n].db /\ job.batch = jobs[n].batch
      /\ job.pc = "mark"
  BY <1>2, <1>4 DEF JobType
<1>6. /\ DOMAIN jobs' = DOMAIN jobs /\ jobs'[n] = job
      /\ \A m \in DOMAIN jobs : m # n => jobs'[m] = jobs[m]
  BY <1>0, <1>4
<1>7. JobTouches(n)
  BY <1>0, <1>1, <1>6 DEF JobTouches, Rows
<1>8. JobInv(n)'
  <2>1. ASSUME NEW i \in DOMAIN job.batch
        PROVE  EntryInv(n, i)'
    <3>1. EntryInv(n, i) /\ i \in Nat /\ (job.batch[i].id = hd.id => i = 1)
      BY <1>1, <1>2, <1>5 DEF JobInv, JobType
    <3>2. i > 1 /\ <<job.batch[i].id, job.batch[i].due>> \in fired'
             => <<job.batch[i].id, job.batch[i].due>> \in unmarked'
      BY <1>0, <1>5, <3>1 DEF EntryInv
    <3>3. \A o \in fired' : o[1] = job.batch[i].id => o[2] <= job.at
      BY <1>0, <1>1, <1>5, <3>1 DEF EntryInv
    <3>4. /\ job.batch[i].id \in Rows' /\ rows'[job.batch[i].id].gateway = n /\ job.batch[i].due <= job.at
          /\ job.batch[i].id \notin overtaken' => job.batch[i].expr = rows'[job.batch[i].id].expr
      BY <1>0, <1>5, <3>1 DEF EntryInv, Rows
    <3> QED
      BY <1>5, <1>6, <3>2, <3>3, <3>4 DEF EntryInv
  <2>2. \A i, j \in DOMAIN job.batch : job.batch[i].id = job.batch[j].id => i = j
    BY <1>2, <1>5 DEF JobInv
  <2>3. job.db /\ job.batch # <<>> /\ job.at <= now'
    BY <1>0, <1>1, <1>2, <1>5 DEF JobInv
  <2>4. NextCronTick(job.batch[1].expr, job.at) # NoTick
    BY <1>0, <1>1, <1>5
  <2>5. Busy(n)'
    BY <1>5, <1>6 DEF Busy
  <2> QED
    BY <1>5, <1>6, <2>1, <2>2, <2>3, <2>4, <2>5 DEF JobInv
<1>9. HistoryTypes'
  BY <1>0, <1>1, <1>2 DEF HistoryTypes
<1>10. FiredInv'
  <2>1. /\ occ[1] = hd.id /\ occ[2] = hd.due /\ jobs'[n].pc = "mark"
        /\ occ = <<Head(jobs'[n].batch).id, Head(jobs'[n].batch).due>>
    BY <1>1, <1>5, <1>6 DEF hd
  <2>2. occ[1] \in Rows' /\ occ[2] <= now'
    BY <1>0, <1>1, <1>2, <2>1 DEF Rows
  <2> HIDE DEF occ
  <2>3. ASSUME NEW o \in fired, NEW m \in DOMAIN jobs, Marking(m, o)
        PROVE  m \in DOMAIN jobs' /\ Marking(m, o)'
    <3>1. m # n
      BY <1>0, <2>3 DEF Marking
    <3> QED
      BY <1>6, <2>3, <3>1 DEF Marking
  <2>4. \A o \in fired : /\ o[1] \in Rows' /\ o[2] <= now'
                         /\ \/ o \in unmarked' \/ rows'[o[1]].next > o[2]
                            \/ \E m \in DOMAIN jobs' : Marking(m, o)'
    BY <1>0, <2>3 DEF CronInv, FiredInv, Rows
  <2>5. n \in DOMAIN jobs'
    BY <1>6
  <2>6. ASSUME NEW o \in fired'
        PROVE  /\ o[1] \in Rows' /\ o[2] <= now'
               /\ \/ o \in unmarked' \/ rows'[o[1]].next > o[2]
                  \/ \E m \in DOMAIN jobs' : Marking(m, o)'
    <3>1. o \in fired \/ o = occ
      BY <1>0
    <3>2. CASE o = occ
      BY <2>1, <2>2, <2>5, <3>2 DEF Marking
    <3>3. CASE o \in fired
      BY <2>4, <3>3
    <3> QED
      BY <3>1, <3>2, <3>3
  <2> QED
    BY <2>6 DEF FiredInv
<1>11. RefireOnlyAfterLostMark'
  BY <1>0, <1>3 DEF CronInv, RefireOnlyAfterLostMark
<1>12. NextRunFollowsExpression'
  BY <1>0 DEF CronInv, NextRunFollowsExpression, Rows
<1> QED
  BY <1>7, <1>8, <1>9, <1>10, <1>11, <1>12, JobStep

\* A job that is not about to mark moves, and nothing else does.
LEMMA QuietStep ==
    ASSUME CronInv, NEW n, n \in DOMAIN jobs, jobs[n].pc # "mark",
           UNCHANGED <<now, rows, cronSpecs, cronOp, cronDone, fired, refired, unmarked, overtaken>>,
           DOMAIN jobs' = DOMAIN jobs, \A m \in DOMAIN jobs : m # n => jobs'[m] = jobs[m],
           JobInv(n)'
    PROVE  CronInv'
<1>1. JobTouches(n)
  BY DEF JobTouches
<1>2. HistoryTypes' /\ RefireOnlyAfterLostMark' /\ NextRunFollowsExpression'
  BY DEF CronInv, HistoryTypes, RefireOnlyAfterLostMark, NextRunFollowsExpression, Rows
<1>3. ASSUME NEW occ \in fired, NEW m \in DOMAIN jobs, Marking(m, occ)
      PROVE  m \in DOMAIN jobs' /\ Marking(m, occ)'
  <2>1. m # n
    BY <1>3 DEF Marking
  <2> QED
    BY <1>3, <2>1 DEF Marking
<1>4. FiredInv'
  BY <1>3 DEF CronInv, FiredInv, Rows
<1> QED
  BY <1>1, <1>2, <1>4, JobStep

LEMMA RestPreserves ==
    ASSUME CronInv, NEW n, n \in DOMAIN jobs, DBJobStops(n) \/ FireTick(n) \/ JobStops(n)
    PROVE  CronInv'
<1>0. /\ jobs[n] \in JobType /\ jobs[n].pc \in {"idle", "sleep"} /\ jobs[n].batch = <<>> /\ now \in Nat
      /\ jobs[n].spec \in CronSpecs
      /\ UNCHANGED <<now, rows, cronSpecs, cronOp, cronDone, fired, refired, unmarked, overtaken>>
  BY CronAssumption
  DEF CronInv, JobsInv, JobInv, JobType, Busy, DBJobStops, FireTick, JobStops, cronHist
<1>1. PICK job \in JobType : /\ jobs' = [jobs EXCEPT ![n] = job] /\ job.batch = <<>>
                             /\ job.pc \in {"sleep", "done"}
  <2>1. CASE DBJobStops(n) \/ JobStops(n)
    <3>1. jobs' = [jobs EXCEPT ![n].pc = "done"]
      BY <2>1 DEF DBJobStops, JobStops
    <3>2. PICK job : job = [jobs[n] EXCEPT !.pc = "done"]
      OBVIOUS
    <3>3. job \in JobType /\ job.batch = <<>> /\ job.pc = "done"
      BY <1>0, <3>2 DEF JobType
    <3>4. jobs' = [jobs EXCEPT ![n] = job]
      BY <3>1, <3>2
    <3> QED
      BY <3>3, <3>4
  <2>2. CASE FireTick(n)
    <3>1. PICK next : next = NextTick(jobs[n].spec.expr, now)
      OBVIOUS
    <3>2. next \in Nat
      BY <1>0, <3>1, ExprsWellFormed, NextTickType
    <3>3. PICK pc \in {"done", "sleep"} : pc = IF next = NoTick THEN "done" ELSE "sleep"
      OBVIOUS
    <3>4. jobs' = [jobs EXCEPT ![n].at = next, ![n].pc = pc]
      BY <2>2, <3>1, <3>3 DEF FireTick
    <3>5. PICK job : job = [jobs[n] EXCEPT !.at = next, !.pc = pc]
      OBVIOUS
    <3>6. job \in JobType /\ job.batch = <<>> /\ job.pc = pc
      BY <1>0, <3>2, <3>3, <3>5 DEF JobType
    <3>7. jobs' = [jobs EXCEPT ![n] = job]
      BY <3>4, <3>5
    <3> QED
      BY <3>3, <3>6, <3>7
  <2> QED
    BY <2>1, <2>2
<1>2. /\ DOMAIN jobs' = DOMAIN jobs /\ jobs'[n] = job
      /\ \A m \in DOMAIN jobs : m # n => jobs'[m] = jobs[m]
  BY <1>1
<1>3. JobInv(n)'
  <2>1. jobs'[n] \in JobType /\ ~Busy(n)' /\ jobs'[n].batch = <<>>
    BY <1>1, <1>2 DEF Busy
  <2>2. DOMAIN jobs'[n].batch = {} /\ jobs'[n].pc # "mark" /\ jobs'[n].pc # "idle"
    BY <1>1, <1>2, <2>1
  <2> QED
    BY <2>1, <2>2 DEF JobInv
<1> QED
  BY <1>0, <1>2, <1>3, QuietStep

\* What a poll fetches.
LEMMA PollFetches ==
    ASSUME CronInv, NEW n, NEW ids \in ListDueCronSchedules(n, now), DueRows(n, now) # {}
    PROVE  /\ Fetched(ids) \in Seq(Entry) /\ Fetched(ids) # <<>>
           /\ DOMAIN Fetched(ids) = DOMAIN ids
           /\ \A i \in DOMAIN ids : /\ ids[i] \in DueRows(n, now) /\ Fetched(ids)[i].id = ids[i]
                                    /\ Fetched(ids)[i].expr = rows[ids[i]].expr
                                    /\ Fetched(ids)[i].due = rows[ids[i]].next
           /\ \A i, j \in DOMAIN ids : ids[i] = ids[j] => i = j
<1> DEFINE D == DueRows(n, now)
<1>1. D \subseteq Rows /\ IsFiniteSet(D) /\ Rows \subseteq RowIds
  <2>1. D \subseteq Rows /\ Rows \subseteq RowIds
    BY DEF DueRows, CronInv, RowsInv
  <2> QED
    BY <2>1, CronAssumption, FS_Subset
<1>2. Cardinality(D) \in Nat /\ Cardinality(D) # 0
  <2> HIDE DEF D
  <2>1. D # {}
    BY DEF D
  <2> QED BY <1>1, <2>1, FS_CardinalityType, FS_EmptySet
<1>3. ids \in [1..Cardinality(D) -> D] /\ \A i, j \in 1..Cardinality(D) : i # j => ids[i] # ids[j]
  BY Zenon DEF ListDueCronSchedules, SetToSeqs
<1> HIDE DEF D
<1>4. \A id \in D : id \in RowIds /\ rows[id].expr \in Exprs /\ rows[id].next \in Nat
  BY <1>1 DEF CronInv, RowsInv, RowType
<1>5. Fetched(ids) = [i \in 1..Cardinality(D) |-> [id |-> ids[i], expr |-> rows[ids[i]].expr, due |-> rows[ids[i]].next]]
  BY <1>3 DEF Fetched
<1>6. Fetched(ids) \in [1..Cardinality(D) -> Entry]
  BY <1>3, <1>4, <1>5 DEF Entry
<1>7. Fetched(ids) \in Seq(Entry) /\ DOMAIN Fetched(ids) = 1..Cardinality(D) /\ 1 \in 1..Cardinality(D)
  BY <1>2, <1>6
<1>8. Fetched(ids) # <<>>
  <2>1. 1 \notin DOMAIN <<>>
    OBVIOUS
  <2> QED BY <1>7, <2>1, Zenon
<1>9. \A i \in 1..Cardinality(D) : /\ ids[i] \in D /\ Fetched(ids)[i].id = ids[i]
                                   /\ Fetched(ids)[i].expr = rows[ids[i]].expr
                                   /\ Fetched(ids)[i].due = rows[ids[i]].next
  BY <1>3, <1>5
<1> QED
  BY <1>3, <1>7, <1>8, <1>9 DEF D


\* The rows it fetches have not fired for the run they are due for: the job that marks them
\* would be this one, which has no batch.
LEMMA PollPreserves ==
    ASSUME CronInv, NEW n, n \in DOMAIN jobs, PollDue(n)
    PROVE  CronInv'
<1>0. /\ jobs[n].pc = "idle" /\ DueRows(n, now) # {}
      /\ UNCHANGED <<now, rows, cronSpecs, cronOp, cronDone, fired, refired, unmarked, overtaken>>
  BY DEF PollDue, cronHist
<1>1. PICK ids \in ListDueCronSchedules(n, now) :
         jobs' = [jobs EXCEPT ![n].pc = "batch", ![n].at = now, ![n].batch = Fetched(ids)]
  BY DEF PollDue
<1>2. jobs[n] \in JobType /\ now \in Nat /\ jobs[n].db
  BY <1>0, CronAssumption DEF CronInv, JobsInv, JobInv
<1>3. PICK batch : batch = Fetched(ids)
  OBVIOUS
<1>4. /\ batch \in Seq(Entry) /\ batch # <<>> /\ DOMAIN batch = DOMAIN ids
      /\ \A i \in DOMAIN batch : /\ ids[i] \in DueRows(n, now) /\ batch[i].id = ids[i]
                                 /\ batch[i].expr = rows[ids[i]].expr
                                 /\ batch[i].due = rows[ids[i]].next
      /\ \A i, j \in DOMAIN batch : ids[i] = ids[j] => i = j
  BY <1>0, <1>3, PollFetches
<1>5. PICK job : job = [jobs[n] EXCEPT !.pc = "batch", !.at = now, !.batch = batch]
  OBVIOUS
<1>6. job \in JobType /\ job.pc = "batch" /\ job.at = now /\ job.batch = batch /\ job.db = jobs[n].db
  BY <1>2, <1>4, <1>5 DEF JobType
<1>7. /\ DOMAIN jobs' = DOMAIN jobs /\ jobs'[n] = job
      /\ \A m \in DOMAIN jobs : m # n => jobs'[m] = jobs[m]
  BY <1>1, <1>3, <1>5
<1>8. ASSUME NEW i \in DOMAIN batch
      PROVE  EntryInv(n, i)'
  <2>1. PICK b : b = batch[i]
    OBVIOUS
  <2>2. /\ b.id \in Rows /\ rows[b.id].gateway = n /\ b.due = rows[b.id].next /\ b.due <= now
        /\ b.expr = rows[b.id].expr
    BY <1>4, <2>1 DEF DueRows
  <2>3. ASSUME <<b.id, b.due>> \in fired
        PROVE  <<b.id, b.due>> \in unmarked
    <3>1. rows[b.id].next \in Nat
      BY <2>2 DEF CronInv, RowsInv, RowType
    <3>2. ~(rows[b.id].next > b.due)
      BY <2>2, <3>1
    <3>3. ASSUME NEW m \in DOMAIN jobs, Marking(m, <<b.id, b.due>>)
          PROVE  FALSE
      <4>1. Busy(m) /\ jobs[m].pc = "mark" /\ Head(jobs[m].batch).id = b.id
        BY <3>3 DEF Marking, Busy
      <4>2. rows[Head(jobs[m].batch).id].gateway = m
        BY <4>1, HeadOfBatch
      <4> QED
        BY <1>0, <2>2, <4>1, <4>2
    <3>4. PICK occ : occ = <<b.id, b.due>>
      OBVIOUS
    <3>5. \/ occ \in unmarked \/ rows[occ[1]].next > occ[2]
          \/ \E m \in DOMAIN jobs : Marking(m, occ)
      BY <2>3, <3>4 DEF CronInv, FiredInv
    <3> QED
      BY <3>2, <3>3, <3>4, <3>5
  <2>4. \A occ \in fired : occ[2] <= now
    BY DEF CronInv, FiredInv
  <2>5. jobs'[n].batch[i] = b /\ jobs'[n].at = now /\ jobs'[n].pc = "batch"
    BY <1>6, <1>7, <2>1
  <2> QED
    BY <1>0, <2>2, <2>3, <2>4, <2>5 DEF EntryInv, Rows
<1>9. \A i, j \in DOMAIN batch : batch[i].id = batch[j].id => i = j
  BY <1>4
<1>10. Busy(n)' /\ now' = now
  BY <1>0, <1>6, <1>7 DEF Busy
<1>11. job.db /\ job.batch # <<>> /\ job.at <= now'
  BY <1>2, <1>4, <1>6, <1>10
<1>12. JobInv(n)'
  BY <1>6, <1>7, <1>8, <1>9, <1>10, <1>11 DEF JobInv
<1> QED
  BY <1>0, <1>7, <1>12, QuietStep

\* The table is edited, or time passes, and no job moves.
LEMMA TableStep ==
    ASSUME CronInv, UNCHANGED <<jobs, cronOp, cronDone, fired, refired, unmarked>>,
           now' \in 1..MaxTime, now <= now', RowsInv', overtaken \subseteq overtaken', overtaken' \subseteq RowIds,
           \A id \in Rows :
              /\ id \in Rows' /\ rows'[id].gateway = rows[id].gateway
              /\ rows'[id].next = rows[id].next \/ rows'[id].next > now
              /\ rows'[id].expr = rows[id].expr \/ ~InBatch(id) \/ id \in overtaken',
           NextRunFollowsExpression'
    PROVE  CronInv'
<1>0. now \in Nat /\ now' \in Nat
  BY CronAssumption DEF CronInv
<1>1. ASSUME NEW m \in DOMAIN jobs'
      PROVE  JobInv(m)'
  <2>1. m \in DOMAIN jobs /\ JobInv(m) /\ SameJob(m)
    BY DEF CronInv, JobsInv, SameJob, JobInv
  <2>2. ASSUME NEW i \in DOMAIN jobs[m].batch, NEW id, id = jobs[m].batch[i].id, rows[id].gateway = m
        PROVE  /\ id \in Rows' /\ rows'[id].gateway = m
               /\ id \notin overtaken' => id \notin overtaken /\ rows'[id].expr = rows[id].expr
    <3>1. id \in Rows
      BY <2>1, <2>2 DEF JobInv, EntryInv
    <3>2. jobs[m].batch # <<>>
      BY <2>2
    <3>3. jobs[m].db
      BY <2>1, <3>2 DEF JobInv
    <3>4. InBatch(id)
      BY <2>1, <2>2, <3>3 DEF InBatch
    <3> QED
      BY <2>2, <3>1, <3>4
  <2>3. \A occ \in fired' : occ \in fired \/ (occ[1] \in Rows /\ rows[occ[1]].gateway # m)
    OBVIOUS
  <2> QED
    BY <1>0, <2>1, <2>2, <2>3, OtherJob
<1>2. JobsInv' /\ CronOpInv'
  BY <1>1 DEF CronInv, JobsInv, CronOpInv, IsOp
<1>3. HistoryTypes' /\ RefireOnlyAfterLostMark'
  BY DEF CronInv, HistoryTypes, RefireOnlyAfterLostMark
<1>4. FiredInv'
  <2>1. ASSUME NEW occ \in fired
        PROVE  /\ occ[1] \in Rows' /\ occ[2] <= now'
               /\ \/ occ \in unmarked' \/ rows'[occ[1]].next > occ[2]
                  \/ \E m \in DOMAIN jobs' : Marking(m, occ)'
    <3>1. occ[1] \in Rows /\ occ[2] <= now /\ occ[2] \in Nat
      BY DEF CronInv, FiredInv, HistoryTypes
    <3>2. rows'[occ[1]].next \in Nat /\ rows[occ[1]].next \in Nat
      BY <3>1 DEF CronInv, RowsInv, RowType
    <3>3. CASE rows[occ[1]].next > occ[2]
      BY <1>0, <3>1, <3>2, <3>3
    <3>4. ASSUME NEW m \in DOMAIN jobs, Marking(m, occ)
          PROVE  m \in DOMAIN jobs' /\ Marking(m, occ)'
      BY <3>4 DEF Marking
    <3> QED
      BY <1>0, <3>1, <3>3, <3>4 DEF CronInv, FiredInv
  <2> QED
    BY <2>1 DEF FiredInv
<1> QED
  BY <1>2, <1>3, <1>4 DEF CronInv

LEMMA TickPreserves ==
    ASSUME CronInv, Tick
    PROVE  CronInv'
<1>1. /\ now' \in 1..MaxTime /\ now <= now' /\ rows' = rows
      /\ UNCHANGED <<jobs, cronSpecs, cronOp, cronDone, fired, refired, unmarked, overtaken>>
  BY CronAssumption DEF CronInv, Tick, cronMem, cronHist
<1>2. RowsInv' /\ NextRunFollowsExpression' /\ overtaken \subseteq overtaken' /\ overtaken' \subseteq RowIds
  BY <1>1 DEF CronInv, RowsInv, NextRunFollowsExpression, Rows, HistoryTypes
<1>3. \A id \in Rows :
         /\ id \in Rows' /\ rows'[id].gateway = rows[id].gateway
         /\ rows'[id].next = rows[id].next \/ rows'[id].next > now
         /\ rows'[id].expr = rows[id].expr \/ ~InBatch(id) \/ id \in overtaken'
  BY <1>1 DEF Rows
<1> QED
  BY <1>1, <1>2, <1>3, TableStep

\* The tools: a row that is made or edited is given a run that is later than now, and one that
\* a batch holds is marked as edited.
LEMMA ScheduleCreatePreserves ==
    ASSUME CronInv, NEW gw \in CronNames, NEW e \in Exprs, NEW on \in BOOLEAN, ScheduleCreate(gw, e, on)
    PROVE  CronInv'
<1> DEFINE new == Min(RowIds \ Rows)
           next == NextCronTick(e, now)
<1>1. /\ RowIds \ Rows # {} /\ next # NoTick
      /\ rows' = [id \in Rows \cup {new} |-> IF id = new THEN NewRow(gw, e, on, next, FALSE) ELSE rows[id]]
      /\ UNCHANGED <<now, jobs, cronSpecs, cronOp, cronDone, fired, refired, unmarked, overtaken>>
  BY DEF ScheduleCreate, CanCreate, cronMem, cronHist
<1>2. new \in RowIds \ Rows
  BY <1>1, LeastTick, CronAssumption
<1>3. now \in Nat /\ now >= 1 /\ Rows \subseteq RowIds
  BY CronAssumption DEF CronInv, RowsInv
<1>4. next \in Nat \ {0} /\ (e.kind = "fields" => Matches(e, next))
  BY <1>1, <1>3, NextCronTickType
<1> HIDE DEF new, next
<1>5. PICK row : row = NewRow(gw, e, on, next, FALSE)
  OBVIOUS
<1>6. row \in RowType /\ row.expr = e /\ row.next = next
  BY <1>4, <1>5 DEF NewRow, RowType
<1>7. /\ Rows' = Rows \cup {new} /\ rows'[new] = row
      /\ \A id \in Rows : rows'[id] = rows[id] /\ id # new
  <2>1. \A id \in Rows : id # new
    BY <1>2
  <2>2. DOMAIN rows' = Rows \cup {new}
    BY <1>1
  <2> QED
    BY <1>1, <1>5, <2>1, <2>2 DEF Rows
<1>8. RowsInv'
  BY <1>2, <1>3, <1>6, <1>7 DEF CronInv, RowsInv
<1>9. NextRunFollowsExpression'
  <2>1. ASSUME NEW id \in Rows' \ overtaken', rows'[id].expr.kind = "fields"
        PROVE  Matches(rows'[id].expr, rows'[id].next)
    <3>1. CASE id = new
      BY <1>4, <1>6, <1>7, <2>1, <3>1
    <3>2. CASE id \in Rows
      BY <1>1, <1>7, <2>1, <3>2 DEF CronInv, NextRunFollowsExpression
    <3> QED
      BY <1>7, <3>1, <3>2
  <2> QED
    BY <2>1 DEF NextRunFollowsExpression
<1>10. now' \in 1..MaxTime /\ now <= now' /\ overtaken \subseteq overtaken' /\ overtaken' \subseteq RowIds
  BY <1>1, <1>3 DEF CronInv, HistoryTypes
<1>11. \A id \in Rows :
         /\ id \in Rows' /\ rows'[id].gateway = rows[id].gateway
         /\ rows'[id].next = rows[id].next \/ rows'[id].next > now
         /\ rows'[id].expr = rows[id].expr \/ ~InBatch(id) \/ id \in overtaken'
  BY <1>7
<1> QED
  BY <1>1, <1>8, <1>9, <1>10, <1>11, TableStep

\* One row is replaced by another of the same gateway.
LEMMA RowEdited ==
    ASSUME CronInv, NEW id \in Rows, NEW row \in RowType,
           row.gateway = rows[id].gateway,
           row.next = rows[id].next \/ row.next > now,
           row.expr = rows[id].expr \/ ~InBatch(id) \/ id \in overtaken',
           id \notin overtaken' /\ row.expr.kind = "fields" => Matches(row.expr, row.next),
           DOMAIN rows' = DOMAIN rows, rows'[id] = row, \A r \in Rows : r # id => rows'[r] = rows[r],
           overtaken' \in {overtaken, overtaken \cup {id}},
           UNCHANGED <<now, jobs, cronSpecs, cronOp, cronDone, fired, refired, unmarked>>
    PROVE  CronInv'
<1>1. Rows' = Rows /\ now' \in 1..MaxTime /\ now <= now' /\ overtaken \subseteq overtaken' /\ overtaken' \subseteq RowIds
  BY CronAssumption DEF Rows, CronInv, HistoryTypes, RowsInv
<1>2. RowsInv'
  BY <1>1 DEF CronInv, RowsInv
<1>3. NextRunFollowsExpression'
  BY <1>1 DEF CronInv, NextRunFollowsExpression
<1>4. \A r \in Rows :
         /\ r \in Rows' /\ rows'[r].gateway = rows[r].gateway
         /\ rows'[r].next = rows[r].next \/ rows'[r].next > now
         /\ rows'[r].expr = rows[r].expr \/ ~InBatch(r) \/ r \in overtaken'
  BY <1>1
<1> QED
  BY <1>1, <1>2, <1>3, <1>4, TableStep

LEMMA ScheduleUpdatePreserves ==
    ASSUME CronInv, NEW id \in Rows, NEW e \in Exprs, NEW on \in BOOLEAN, ScheduleUpdate(id, e, on)
    PROVE  CronInv'
<1> DEFINE next == NextCronTick(e, now)
<1>1. /\ next # NoTick
      /\ rows' = [rows EXCEPT ![id].expr = e, ![id].enabled = on, ![id].next = next]
      /\ overtaken' = Edited(id)
      /\ UNCHANGED <<now, jobs, cronSpecs, cronOp, cronDone, fired, refired, unmarked>>
  BY DEF ScheduleUpdate, cronMem
<1>2. now \in Nat /\ rows[id] \in RowType
  BY CronAssumption DEF CronInv, RowsInv
<1>3. next \in Nat \ {0} /\ next > now /\ (e.kind = "fields" => Matches(e, next))
  BY <1>1, <1>2, NextCronTickType
<1> HIDE DEF next
<1>4. PICK row : row = [rows[id] EXCEPT !.expr = e, !.enabled = on, !.next = next]
  OBVIOUS
<1>5. row \in RowType /\ row.gateway = rows[id].gateway /\ row.expr = e /\ row.next = next
  BY <1>2, <1>3, <1>4 DEF RowType
<1>6. /\ DOMAIN rows' = DOMAIN rows /\ rows'[id] = row
      /\ \A r \in Rows : r # id => rows'[r] = rows[r]
  BY <1>1, <1>4 DEF Rows
<1>7. /\ overtaken' \in {overtaken, overtaken \cup {id}}
      /\ row.expr = rows[id].expr \/ ~InBatch(id) \/ id \in overtaken'
  BY <1>1 DEF Edited
<1>8. /\ row.next = rows[id].next \/ row.next > now
      /\ id \notin overtaken' /\ row.expr.kind = "fields" => Matches(row.expr, row.next)
  BY <1>3, <1>5
<1> QED
  BY <1>1, <1>5, <1>6, <1>7, <1>8, RowEdited

LEMMA ScheduleDisablePreserves ==
    ASSUME CronInv, NEW id \in Rows, ScheduleDisable(id)
    PROVE  CronInv'
<1>1. /\ rows' = [rows EXCEPT ![id].enabled = FALSE]
      /\ UNCHANGED <<now, jobs, cronSpecs, cronOp, cronDone, fired, refired, unmarked, overtaken>>
  BY DEF ScheduleDisable, cronMem, cronHist
<1>2. rows[id] \in RowType
  BY DEF CronInv, RowsInv
<1>3. PICK row : row = [rows[id] EXCEPT !.enabled = FALSE]
  OBVIOUS
<1>4. /\ row \in RowType /\ row.gateway = rows[id].gateway /\ row.expr = rows[id].expr
      /\ row.next = rows[id].next
  BY <1>2, <1>3 DEF RowType
<1>5. /\ DOMAIN rows' = DOMAIN rows /\ rows'[id] = row
      /\ \A r \in Rows : r # id => rows'[r] = rows[r]
  BY <1>1, <1>3 DEF Rows
<1>6. id \notin overtaken' /\ row.expr.kind = "fields" => Matches(row.expr, row.next)
  BY <1>1, <1>4 DEF CronInv, NextRunFollowsExpression
<1>7. overtaken' \in {overtaken, overtaken \cup {id}}
  BY <1>1
<1> QED
  BY <1>1, <1>4, <1>5, <1>6, <1>7, RowEdited

\* A step of an operation: jobs are added or removed without a batch, rows are added.
Resting(job) ==
    /\ job \in JobType /\ job.batch = <<>> /\ job.pc \in {"idle", "sleep", "done"}
    /\ job.pc = "idle" => job.db

LEMMA OpStep ==
    ASSUME CronInv, UNCHANGED <<now, fired, refired, unmarked, overtaken>>,
           DOMAIN jobs' \subseteq CronNames,
           \A m \in DOMAIN jobs' : (m \in DOMAIN jobs /\ SameJob(m)) \/ Resting(jobs'[m]),
           \A m \in DOMAIN jobs : Busy(m) => m \in DOMAIN jobs' /\ SameJob(m),
           RowsInv', \A id \in Rows : id \in Rows' /\ rows'[id] = rows[id], NextRunFollowsExpression',
           cronDone' \in BOOLEAN, CronOpInv'
    PROVE  CronInv'
<1>0. now \in Nat /\ now' = now
  BY CronAssumption DEF CronInv
<1>1. ASSUME NEW m \in DOMAIN jobs'
      PROVE  JobInv(m)'
  <2>1. CASE m \in DOMAIN jobs /\ SameJob(m)
    <3>1. JobInv(m)
      BY <2>1 DEF CronInv, JobsInv
    <3>2. ASSUME NEW i \in DOMAIN jobs[m].batch, NEW id, id = jobs[m].batch[i].id, rows[id].gateway = m
          PROVE  /\ id \in Rows' /\ rows'[id].gateway = m
                 /\ id \notin overtaken' => id \notin overtaken /\ rows'[id].expr = rows[id].expr
      <4>1. id \in Rows
        BY <3>1, <3>2 DEF JobInv, EntryInv
      <4> QED
        BY <3>2, <4>1
    <3>3. unmarked \subseteq unmarked' /\ now <= now'
      BY <1>0
    <3>4. \A occ \in fired' : occ \in fired \/ (occ[1] \in Rows /\ rows[occ[1]].gateway # m)
      OBVIOUS
    <3> QED
      BY <1>0, <2>1, <3>1, <3>2, <3>3, <3>4, OtherJob
  <2>2. CASE Resting(jobs'[m])
    <3>1. DOMAIN jobs'[m].batch = {} /\ jobs'[m].pc # "mark" /\ ~Busy(m)'
      BY <2>2 DEF Resting, Busy
    <3> QED
      BY <2>2, <3>1 DEF JobInv, Resting
  <2> QED
    BY <2>1, <2>2
<1>2. JobsInv'
  BY <1>1 DEF JobsInv
<1>3. HistoryTypes' /\ RefireOnlyAfterLostMark'
  BY DEF CronInv, HistoryTypes, RefireOnlyAfterLostMark
<1>4. FiredInv'
  <2>1. ASSUME NEW occ \in fired, NEW m \in DOMAIN jobs, Marking(m, occ)
        PROVE  m \in DOMAIN jobs' /\ Marking(m, occ)'
    <3>1. Busy(m)
      BY <2>1 DEF Marking, Busy
    <3> QED
      BY <2>1, <3>1 DEF Marking, SameJob
  <2> QED
    BY <1>0, <2>1 DEF CronInv, FiredInv
<1> QED
  BY <1>0, <1>2, <1>3, <1>4 DEF CronInv

\* What startLocked leaves: the jobs and rows there were, new jobs at rest, and bootstrap rows
\* with a run that their expression has.
LEMMA CronStarts ==
    ASSUME CronInv, NEW specs, CronTable(specs), CronStartMissing(specs), UNCHANGED <<now, overtaken>>
    PROVE  /\ DOMAIN jobs' \subseteq CronNames /\ DOMAIN jobs \subseteq DOMAIN jobs'
           /\ \A m \in DOMAIN jobs : jobs'[m] = jobs[m]
           /\ \A m \in DOMAIN jobs' \ DOMAIN jobs : Resting(jobs'[m])
           /\ RowsInv' /\ (\A id \in Rows : id \in Rows' /\ rows'[id] = rows[id]) /\ NextRunFollowsExpression'
<1> DEFINE missing == {n \in DOMAIN specs \ DOMAIN jobs : specs[n].db \/ Valid(specs[n].expr)}
           boots == {n \in missing : specs[n].db /\ specs[n].boot /\ EnsureBootstrap(n, specs[n].expr)}
           row(n) == NewRow(n, specs[n].expr, TRUE, NextCronTick(specs[n].expr, now), TRUE)
<1>0. now \in Nat /\ now >= 1 /\ cronDone \in BOOLEAN /\ Rows \subseteq RowIds /\ DOMAIN jobs \subseteq CronNames
  BY CronAssumption DEF CronInv, RowsInv, JobsInv
<1>1. jobs' = [n \in DOMAIN jobs \cup missing |-> IF n \in missing THEN NewJob(specs[n]) ELSE jobs[n]]
  BY Zenon DEF CronStartMissing
<1>2. PICK id \in NextIds(boots) :
        rows' = [r \in Rows \cup {id[n] : n \in boots} |->
                 IF r \in Rows THEN rows[r] ELSE row(CHOOSE n \in boots : id[n] = r)]
  BY Zenon DEF CronStartMissing
<1>3. /\ missing \subseteq DOMAIN specs /\ (\A n \in missing : n \notin DOMAIN jobs)
      /\ boots \subseteq DOMAIN specs /\ \A n \in boots : NextCronTick(specs[n].expr, now) # NoTick
  BY DEF EnsureBootstrap
<1>4. id \in [boots -> RowIds \ Rows]
  <2> HIDE DEF boots
  <2> QED BY DEF NextIds
<1> HIDE DEF missing, boots, row
<1>5. \A n \in DOMAIN specs : /\ n \in CronNames /\ specs[n] \in CronSpecs /\ specs[n].expr \in Exprs
                              /\ specs[n].db \in BOOLEAN /\ NextTick(specs[n].expr, now) \in Nat
  BY <1>0, ExprsWellFormed, NextTickType DEF CronTable
<1>6. ASSUME NEW n \in missing
      PROVE  Resting(NewJob(specs[n]))
  <2>1. PICK spec \in CronSpecs : spec = specs[n] /\ spec.db \in BOOLEAN /\ NextTick(spec.expr, now) \in Nat
    BY <1>3, <1>5
  <2>2. PICK pc \in {"idle", "sleep", "done"} :
           /\ pc = IF spec.db THEN "idle" ELSE IF NextTick(spec.expr, now) = NoTick THEN "done" ELSE "sleep"
           /\ pc = "idle" => spec.db
    OBVIOUS
  <2>3. PICK at \in Nat : at = IF spec.db THEN 0 ELSE NextTick(spec.expr, now)
    BY <2>1
  <2>4. NewJob(spec) = [spec |-> spec, db |-> spec.db, cancelled |-> cronDone, batch |-> <<>>, pc |-> pc, at |-> at]
    BY <2>2, <2>3 DEF NewJob
  <2>5. NewJob(spec) \in JobType
    BY <1>0, <2>1, <2>4 DEF JobType
  <2> QED
    BY <2>1, <2>2, <2>4, <2>5 DEF Resting
<1>7. /\ DOMAIN jobs' = DOMAIN jobs \cup missing
      /\ \A m \in DOMAIN jobs : jobs'[m] = jobs[m]
      /\ \A m \in missing : jobs'[m] = NewJob(specs[m])
  BY <1>1, <1>3
<1>8. /\ DOMAIN jobs' \subseteq CronNames /\ DOMAIN jobs \subseteq DOMAIN jobs'
      /\ \A m \in DOMAIN jobs' \ DOMAIN jobs : Resting(jobs'[m])
  BY <1>0, <1>3, <1>5, <1>6, <1>7
<1>9. \A n \in boots : /\ row(n) \in RowType /\ row(n).expr = specs[n].expr
                       /\ row(n).expr.kind = "fields" => Matches(row(n).expr, row(n).next)
  <2>1. ASSUME NEW n \in boots
        PROVE  /\ row(n) \in RowType /\ row(n).expr = specs[n].expr
               /\ row(n).expr.kind = "fields" => Matches(row(n).expr, row(n).next)
    <3>1. PICK next : next = NextCronTick(specs[n].expr, now)
      OBVIOUS
    <3>2. next \in Nat \ {0} /\ (specs[n].expr.kind = "fields" => Matches(specs[n].expr, next))
      BY <1>0, <1>3, <1>5, <3>1, NextCronTickType
    <3>3. row(n) = [gateway |-> n, expr |-> specs[n].expr, enabled |-> TRUE, next |-> next, boot |-> TRUE]
      BY <3>1 DEF row, NewRow
    <3> QED
      BY <1>3, <1>5, <3>2, <3>3 DEF RowType
  <2> QED BY <2>1
<1>10. /\ Rows' = Rows \cup {id[n] : n \in boots} /\ \A r \in Rows : rows'[r] = rows[r]
       /\ \A r \in Rows' \ Rows : \E n \in boots : rows'[r] = row(n)
  <2>1. DOMAIN rows' = Rows \cup {id[n] : n \in boots}
    BY <1>2
  <2>2. \A r \in Rows : rows'[r] = rows[r]
    BY <1>2
  <2>3. ASSUME NEW r \in {id[n] : n \in boots}, r \notin Rows
        PROVE  \E n \in boots : rows'[r] = row(n)
    <3>1. (CHOOSE n \in boots : id[n] = r) \in boots
      BY <2>3
    <3> QED
      BY <1>2, <2>3, <3>1
  <2> QED
    BY <2>1, <2>2, <2>3 DEF Rows
<1>11. RowsInv'
  <2>1. Rows' \subseteq RowIds
    BY <1>0, <1>4, <1>10
  <2> QED
    BY <1>9, <1>10, <2>1 DEF CronInv, RowsInv
<1>12. NextRunFollowsExpression'
  <2>1. ASSUME NEW r \in Rows' \ overtaken', rows'[r].expr.kind = "fields"
        PROVE  Matches(rows'[r].expr, rows'[r].next)
    <3>1. CASE r \in Rows
      BY <1>10, <2>1, <3>1 DEF CronInv, NextRunFollowsExpression
    <3>2. CASE r \notin Rows
      BY <1>9, <1>10, <2>1, <3>2
    <3> QED
      BY <3>1, <3>2
  <2> QED
    BY <2>1 DEF NextRunFollowsExpression
<1> QED
  BY <1>7, <1>8, <1>10, <1>11, <1>12

\* A step that leaves the table alone.
LEMMA RowsKept ==
    ASSUME CronInv, UNCHANGED <<rows, overtaken>>
    PROVE  RowsInv' /\ (\A id \in Rows : id \in Rows' /\ rows'[id] = rows[id]) /\ NextRunFollowsExpression'
BY DEF CronInv, RowsInv, NextRunFollowsExpression, Rows

LEMMA JobKept ==
    ASSUME CronInv, NEW m \in DOMAIN jobs, jobs'[m] = jobs[m] \/ jobs'[m] = [jobs[m] EXCEPT !.cancelled = TRUE]
    PROVE  SameJob(m)
<1>1. jobs[m] \in JobType
  BY DEF CronInv, JobsInv, JobInv
<1> QED
  BY <1>1 DEF SameJob, JobType

LEMMA CronReconcilePreserves ==
    ASSUME CronInv, NEW h \in Callers, NEW specs, CronTable(specs), CronReconcile(h, specs)
    PROVE  CronInv'
<1>0. /\ CronUnlocked /\ UNCHANGED <<now, cronDone, fired, refired, unmarked, overtaken>>
      /\ cronDone' \in BOOLEAN /\ DOMAIN jobs \subseteq CronNames
  BY DEF CronReconcile, cronHist, CronInv, JobsInv
<1>1. CASE CronTodo(specs) = {}
  <2>1. CronStartMissing(specs) /\ cronOp' = cronOp
    BY <1>1 DEF CronReconcile
  <2>2. /\ DOMAIN jobs' \subseteq CronNames /\ DOMAIN jobs \subseteq DOMAIN jobs'
        /\ \A m \in DOMAIN jobs : jobs'[m] = jobs[m]
        /\ \A m \in DOMAIN jobs' \ DOMAIN jobs : Resting(jobs'[m])
        /\ RowsInv' /\ (\A id \in Rows : id \in Rows' /\ rows'[id] = rows[id]) /\ NextRunFollowsExpression'
    BY <1>0, <2>1, CronStarts
  <2>3. \A m \in DOMAIN jobs : SameJob(m)
    BY <2>2, JobKept
  <2>4. CronOpInv'
    BY <1>0, <2>1 DEF CronInv, CronOpInv, CronUnlocked
  <2> QED
    BY <1>0, <2>2, <2>3, <2>4, OpStep
<1>2. CASE CronTodo(specs) # {}
  <2>1. /\ cronOp' = [kind |-> "reconcile", by |-> h, specs |-> specs, waiting |-> {}, todo |-> CronTodo(specs)]
        /\ UNCHANGED <<rows, jobs, cronSpecs>>
    BY <1>2 DEF CronReconcile
  <2>2. \A m \in DOMAIN jobs : SameJob(m) /\ m \in DOMAIN jobs'
    BY <2>1, JobKept
  <2>3. CronTodo(specs) \subseteq DOMAIN jobs
    BY DEF CronTodo
  <2>4. CronOpInv'
    BY <2>1, <2>3 DEF CronOpInv, IsOp, CronTable
  <2>5. RowsInv' /\ (\A id \in Rows : id \in Rows' /\ rows'[id] = rows[id]) /\ NextRunFollowsExpression'
    BY <1>0, <2>1, RowsKept
  <2>6. DOMAIN jobs' \subseteq CronNames /\ \A m \in DOMAIN jobs' : m \in DOMAIN jobs
    BY <1>0, <2>1
  <2> QED
    BY <1>0, <2>2, <2>4, <2>5, <2>6, OpStep
<1> QED
  BY <1>1, <1>2

LEMMA CronStopPreserves ==
    ASSUME CronInv, CronStopCancels \/ CronStop("stop")
    PROVE  CronInv'
<1>0. /\ UNCHANGED <<now, rows, cronSpecs, fired, refired, unmarked, overtaken>>
      /\ DOMAIN jobs \subseteq CronNames
  BY DEF CronStopCancels, CronStop, cronHist, CronInv, JobsInv
<1>1. RowsInv' /\ (\A id \in Rows : id \in Rows' /\ rows'[id] = rows[id]) /\ NextRunFollowsExpression'
  BY <1>0, RowsKept
<1>2. CASE CronStopCancels
  <2>1. /\ cronDone' = TRUE /\ cronOp' = cronOp
        /\ jobs' = [n \in DOMAIN jobs |-> [jobs[n] EXCEPT !.cancelled = TRUE]]
    BY <1>2 DEF CronStopCancels
  <2>2. DOMAIN jobs' = DOMAIN jobs /\ \A m \in DOMAIN jobs : jobs'[m] = [jobs[m] EXCEPT !.cancelled = TRUE]
    BY <2>1
  <2>3. \A m \in DOMAIN jobs : SameJob(m)
    BY <2>2, JobKept
  <2>4. CronOpInv'
    BY <2>1, <2>2 DEF CronInv, CronOpInv, IsOp
  <2>5. cronDone' \in BOOLEAN /\ DOMAIN jobs' \subseteq CronNames
    BY <1>0, <2>1, <2>2
  <2> QED
    BY <1>0, <1>1, <2>2, <2>3, <2>4, <2>5, OpStep
<1>3. CASE CronStop("stop")
  <2>1. /\ cronDone' = cronDone /\ jobs' = jobs
        /\ \/ cronOp' = cronOp
           \/ cronOp' = [kind |-> "stop", by |-> "stop", specs |-> cronSpecs,
                         waiting |-> {}, todo |-> DOMAIN jobs]
    BY <1>3 DEF CronStop
  <2>2. \A m \in DOMAIN jobs : SameJob(m)
    BY <2>1, JobKept
  <2>3. CronOpInv'
    BY <2>1 DEF CronInv, CronOpInv, IsOp
  <2>4. cronDone' \in BOOLEAN /\ DOMAIN jobs' \subseteq CronNames /\ DOMAIN jobs' = DOMAIN jobs
    BY <1>0, <2>1 DEF CronInv
  <2> QED
    BY <1>0, <1>1, <2>2, <2>3, <2>4, OpStep
<1> QED
  BY <1>2, <1>3

LEMMA CronCancelsOnePreserves ==
    ASSUME CronInv, NEW n, CronCancelsOne(n)
    PROVE  CronInv' /\ cronOp'.specs = cronOp.specs
<1>0. /\ ~CronUnlocked /\ n \in cronOp.todo /\ cronOp' = [cronOp EXCEPT !.waiting = {n}]
      /\ jobs' = [jobs EXCEPT ![n].cancelled = TRUE]
      /\ UNCHANGED <<now, rows, cronSpecs, cronDone, fired, refired, unmarked, overtaken>>
  BY DEF CronCancelsOne, cronHist
<1>1. /\ IsOp(cronOp) /\ cronOp.kind \in {"reconcile", "stop"}
      /\ cronOp.todo \subseteq DOMAIN jobs
      /\ cronOp.kind = "stop" => cronOp.todo = DOMAIN jobs
      /\ cronOp.kind = "reconcile" => CronTable(cronOp.specs)
  BY <1>0 DEF CronInv, CronOpInv, CronUnlocked
<1>2. /\ DOMAIN jobs' = DOMAIN jobs
      /\ \A m \in DOMAIN jobs : jobs'[m] = jobs[m] \/ jobs'[m] = [jobs[m] EXCEPT !.cancelled = TRUE]
  BY <1>0, <1>1
<1>3. \A m \in DOMAIN jobs : SameJob(m)
  BY <1>2, JobKept
<1>4. RowsInv' /\ (\A id \in Rows : id \in Rows' /\ rows'[id] = rows[id]) /\ NextRunFollowsExpression'
  BY <1>0, RowsKept
<1>5. cronOp' = [kind |-> cronOp.kind, by |-> cronOp.by, specs |-> cronOp.specs,
                 waiting |-> {n}, todo |-> cronOp.todo]
  BY <1>0, <1>1 DEF IsOp
<1>6. CronOpInv'
  BY <1>0, <1>1, <1>2, <1>5 DEF CronOpInv, IsOp
<1>7. cronDone' \in BOOLEAN /\ DOMAIN jobs' \subseteq CronNames
  BY <1>0, <1>2 DEF CronInv, JobsInv
<1>8. CronInv'
  BY <1>0, <1>2, <1>3, <1>4, <1>6, <1>7, OpStep
<1> QED
  BY <1>5, <1>8

LEMMA CronOneEndedPreserves ==
    ASSUME CronInv, NEW n, CronOneEnded(n)
    PROVE  CronInv' /\ cronOp'.specs = cronOp.specs
<1>0. /\ ~CronUnlocked /\ n \in cronOp.waiting /\ jobs[n].pc = "done"
      /\ cronOp' = [cronOp EXCEPT !.waiting = {}, !.todo = cronOp.todo \ {n}]
      /\ jobs' = [m \in DOMAIN jobs \ {n} |-> jobs[m]]
      /\ UNCHANGED <<now, rows, cronSpecs, cronDone, fired, refired, unmarked, overtaken>>
  BY DEF CronOneEnded, cronHist, Restrict
<1>1. /\ IsOp(cronOp) /\ cronOp.kind \in {"reconcile", "stop"}
      /\ cronOp.todo \subseteq DOMAIN jobs
      /\ cronOp.kind = "stop" => cronOp.todo = DOMAIN jobs
      /\ cronOp.kind = "reconcile" => CronTable(cronOp.specs)
  BY <1>0 DEF CronInv, CronOpInv, CronUnlocked
<1>2. DOMAIN jobs' = DOMAIN jobs \ {n} /\ \A m \in DOMAIN jobs' : jobs'[m] = jobs[m]
  BY <1>0
<1>3. \A m \in DOMAIN jobs' : m \in DOMAIN jobs /\ SameJob(m)
  BY <1>2, JobKept
<1>4. \A m \in DOMAIN jobs : Busy(m) => m \in DOMAIN jobs' /\ SameJob(m)
  BY <1>0, <1>2, <1>3 DEF Busy
<1>5. RowsInv' /\ (\A id \in Rows : id \in Rows' /\ rows'[id] = rows[id]) /\ NextRunFollowsExpression'
  BY <1>0, RowsKept
<1>6. cronOp' = [kind |-> cronOp.kind, by |-> cronOp.by, specs |-> cronOp.specs,
                 waiting |-> {}, todo |-> cronOp.todo \ {n}]
  BY <1>0, <1>1 DEF IsOp
<1>7. CronOpInv'
  <2>1. /\ IsOp(cronOp)' /\ cronOp'.kind = cronOp.kind /\ cronOp'.specs = cronOp.specs
        /\ cronOp'.waiting = {} /\ cronOp'.todo = cronOp.todo \ {n}
    BY <1>6 DEF IsOp
  <2> QED
    BY <1>1, <1>2, <2>1 DEF CronOpInv
<1>8. cronDone' \in BOOLEAN /\ DOMAIN jobs' \subseteq CronNames
  BY <1>0, <1>2 DEF CronInv, JobsInv
<1>9. CronInv'
  BY <1>0, <1>3, <1>4, <1>5, <1>7, <1>8, OpStep
<1> QED
  BY <1>6, <1>9

LEMMA CronReturnsPreserves ==
    ASSUME CronInv, CronReturns
    PROVE  CronInv' /\ cronSpecs' = cronOp.specs
<1>0. /\ ~CronUnlocked /\ cronOp.todo = {} /\ cronSpecs' = cronOp.specs /\ cronOp' = [kind |-> "idle"]
      /\ UNCHANGED <<now, cronDone, fired, refired, unmarked, overtaken>>
      /\ cronDone' \in BOOLEAN /\ DOMAIN jobs \subseteq CronNames
  BY DEF CronReturns, cronHist, CronInv, JobsInv
<1>1. /\ cronOp.kind \in {"reconcile", "stop"}
      /\ cronOp.kind = "stop" => cronOp.todo = DOMAIN jobs
      /\ cronOp.kind = "reconcile" => CronTable(cronOp.specs)
  BY <1>0 DEF CronInv, CronOpInv, CronUnlocked
<1>2. CronOpInv'
  BY <1>0 DEF CronOpInv
<1>3. CASE cronOp.kind = "reconcile"
  <2>1. CronStartMissing(cronOp.specs)
    BY <1>3 DEF CronReturns
  <2>2. /\ DOMAIN jobs' \subseteq CronNames /\ DOMAIN jobs \subseteq DOMAIN jobs'
        /\ \A m \in DOMAIN jobs : jobs'[m] = jobs[m]
        /\ \A m \in DOMAIN jobs' \ DOMAIN jobs : Resting(jobs'[m])
        /\ RowsInv' /\ (\A id \in Rows : id \in Rows' /\ rows'[id] = rows[id]) /\ NextRunFollowsExpression'
    BY <1>0, <1>1, <1>3, <2>1, CronStarts
  <2>3. \A m \in DOMAIN jobs : SameJob(m)
    BY <2>2, JobKept
  <2> QED
    BY <1>0, <1>2, <2>2, <2>3, OpStep
<1>4. CASE cronOp.kind = "stop"
  <2>1. jobs' = <<>> /\ rows' = rows
    BY <1>4 DEF CronReturns
  <2>2. DOMAIN jobs = {} /\ DOMAIN jobs' = {}
    BY <1>0, <1>1, <1>4, <2>1
  <2>3. RowsInv' /\ (\A id \in Rows : id \in Rows' /\ rows'[id] = rows[id]) /\ NextRunFollowsExpression'
    BY <1>0, <2>1, RowsKept
  <2>4. DOMAIN jobs' \subseteq CronNames
    BY <2>2
  <2> QED
    BY <1>0, <1>2, <2>2, <2>3, <2>4, OpStep
<1> QED
  BY <1>0, <1>1, <1>3, <1>4

\* A crash: the marks that were about to be written are lost.
LEMMA CronCrashPreserves ==
    ASSUME CronInv, CronCrash
    PROVE  CronInv'
<1> DEFINE lost == {<<Head(jobs[n].batch).id, Head(jobs[n].batch).due>> : n \in {m \in DOMAIN jobs : jobs[m].pc = "mark"}}
<1>0. /\ unmarked' = unmarked \cup lost /\ jobs' = <<>> /\ cronOp' = [kind |-> "idle"] /\ cronDone' = FALSE
      /\ UNCHANGED <<now, rows, fired, refired, overtaken>>
  BY DEF CronCrash
<1>1. lost \subseteq RowIds \X Nat
  <2>1. ASSUME NEW n \in DOMAIN jobs, jobs[n].pc = "mark"
        PROVE  <<Head(jobs[n].batch).id, Head(jobs[n].batch).due>> \in RowIds \X Nat
    <3>1. Busy(n)
      BY <2>1 DEF Busy
    <3>2. Head(jobs[n].batch).id \in RowIds /\ Head(jobs[n].batch).due \in Nat
      BY <3>1, HeadOfBatch
    <3> QED BY <3>2
  <2> QED
    BY <2>1
<1>2. \A occ : (\E n \in DOMAIN jobs : Marking(n, occ)) => occ \in lost
  BY DEF Marking
<1> HIDE DEF lost
<1>3. DOMAIN jobs' = {}
  BY <1>0
<1>4. JobsInv' /\ CronOpInv'
  BY <1>0, <1>3 DEF JobsInv, CronOpInv
<1>5. RowsInv' /\ NextRunFollowsExpression'
  BY <1>0, RowsKept
<1>6. HistoryTypes' /\ RefireOnlyAfterLostMark'
  BY <1>0, <1>1 DEF CronInv, HistoryTypes, RefireOnlyAfterLostMark
<1>7. FiredInv'
  BY <1>0, <1>2 DEF CronInv, FiredInv, Rows
<1> QED
  BY <1>0, <1>4, <1>5, <1>6, <1>7 DEF CronInv

-----------------------------------------------------------------------------
(* The handlers.                                                           *)

LEMMA HandlerShapes ==
    ASSUME HandlerInv, NEW h \in Callers
    PROVE  /\ "stop" \in Callers /\ "run" \in Callers
           /\ h # "stop" /\ handler[h].pc \in ConfigPcs =>
                 handler[h] \in [pc : ConfigPcs, c : deployment.configs]
           /\ handler[h].pc = "secConfig" => h # "stop"
           /\ handler[h].pc \in InjectPcs =>
                 h # "stop" /\ handler[h] \in [pc : InjectPcs, c : Mappings, env : Environments]
           /\ handler[h].pc \in {"reading", "saving", "mcp", "cron", "ext"} => h # "stop"
           /\ h = "stop" => handler[h] \in [pc : StopPcs]
<1>1. Shape(h, handler[h])
  BY DEF HandlerInv
<1>2. Idle.pc = "idle"
  BY DEF Idle
<1> QED
  BY <1>1, <1>2, CallersAssumption DEF Shape, ConfigPcs, InjectPcs, StopPcs

\* Handler h goes on to x, and the rest of the application state keeps its type.
LEMMA HandlerStep ==
    ASSUME HandlerInv, NEW h \in Callers, NEW x, Shape(h, x),
           handler' = [handler EXCEPT ![h] = x],
           deployment' = deployment, AppTypes',
           mcpDone' \/ (h # "stop" /\ mcpDone' = mcpDone)
    PROVE  HandlerInv'
<1>1. DOMAIN handler' = Callers /\ \A k \in Callers : handler'[k] = IF k = h THEN x ELSE handler[k]
  BY DEF HandlerInv
<1>2. \A k \in Callers : Shape(k, handler[k])' 
  BY <1>1 DEF HandlerInv, Shape
<1>3. (At("stop", "idle") \/ mcpDone)'
  BY <1>1, CallersAssumption DEF HandlerInv, At
<1> QED
  BY <1>1, <1>2, <1>3 DEF HandlerInv

\* The handler under way, if nothing overlaps, is the only one.
LEMMA StageStep ==
    ASSUME HandlerInv, StageInv, NEW h \in Callers, NEW x, ~At(h, "idle"),
           handler' = [handler EXCEPT ![h] = x], UNCHANGED <<overlapped, mcpDone>>,
           Stage(handler[h]) => Stage(x)'
    PROVE  StageInv'
<1> SUFFICES ASSUME ~overlapped, ~mcpDone
             PROVE  \E k \in Callers : /\ \A m \in Callers \ {k} : At(m, "idle")'
                                       /\ Stage(handler[k])'
  BY DEF StageInv
<1>1. PICK k \in Callers : (\A m \in Callers \ {k} : At(m, "idle")) /\ Stage(handler[k])
  BY DEF StageInv
<1>2. k = h
  BY <1>1
<1>3. DOMAIN handler = Callers
  BY DEF HandlerInv
<1>4. handler'[h] = x /\ \A m \in Callers \ {h} : handler'[m] = handler[m]
  BY <1>3
<1>5. Stage(handler[h])'
  BY <1>1, <1>2, <1>4 DEF Stage
<1>6. \A m \in Callers \ {h} : At(m, "idle")'
  BY <1>1, <1>2, <1>4 DEF At
<1> QED
  BY <1>5, <1>6

\* A request that begins while none is under way finds the supervisors in agreement.
LEMMA StageBegins ==
    ASSUME HandlerInv, StageInv, NEW h \in Callers, NEW x,
           handler' = [handler EXCEPT ![h] = x], mcpDone' = mcpDone,
           overlapped' = (overlapped \/ Active # {}),
           Stage(Idle) => Stage(x)'
    PROVE  StageInv'
<1> SUFFICES ASSUME ~overlapped', ~mcpDone
             PROVE  \E k \in Callers : /\ \A m \in Callers \ {k} : At(m, "idle")'
                                       /\ Stage(handler[k])'
  BY DEF StageInv
<1>1. ~overlapped /\ \A m \in Callers : At(m, "idle")
  BY DEF Active, At
<1>2. PICK k \in Callers : Stage(handler[k])
  BY <1>1 DEF StageInv
<1>3. Stage(Idle)
  BY <1>1, <1>2 DEF Stage, At, Idle, ConfigPcs, SecretPcs, InjectPcs
<1>4. DOMAIN handler = Callers
  BY DEF HandlerInv
<1>5. handler'[h] = x /\ \A m \in Callers \ {h} : handler'[m] = handler[m]
  BY <1>4
<1>6. Stage(handler[h])'
  BY <1>3, <1>5 DEF Stage
<1>7. \A m \in Callers \ {h} : At(m, "idle")'
  BY <1>1, <1>5 DEF At
<1> QED
  BY <1>6, <1>7

LEMMA StageFrame ==
    ASSUME StageInv, UNCHANGED <<config, secrets, handler, overlapped, uninjected, mcpDone, mcpSpecs, mcpEnv,
                                 cronSpecs, gwSpecs, gwEnv>>,
           cronOp'.specs = cronOp.specs, gwOp'.specs = gwOp.specs
    PROVE  StageInv'
<1>1. \A h : Stage(handler[h])' <=> Stage(handler[h])
  BY DEF Stage
<1> QED
  BY <1>1 DEF StageInv, At

LEMMA HandlerFrame ==
    ASSUME HandlerInv, UNCHANGED <<deployment, handler, mcpDone>>, AppTypes'
    PROVE  HandlerInv'
BY DEF HandlerInv, Shape, At

LEMMA McpFrame ==
    ASSUME McpInv, UNCHANGED mcpVars
    PROVE  McpInv'
BY DEF McpInv, mcpVars, McpTypeOK, LockedClientsAreCurrent, MissingIsWatched

LEMMA GwFrame ==
    ASSUME GwInv, UNCHANGED gwVars
    PROVE  GwInv'
<1> USE DEF gwVars
<1>1. GwShape'
  BY DEF GwInv, GwShape, Registered
<1>2. GwOpInv'
  BY DEF GwInv, GwOpInv, IsOp
<1>3. GatewaysMatchConfiguration'
  BY DEF GwInv, GatewaysMatchConfiguration, GwUnlocked
<1> QED
  BY <1>1, <1>2, <1>3 DEF GwInv, GwTable

LEMMA CronFrame ==
    ASSUME CronInv, UNCHANGED cronVars
    PROVE  CronInv'
<1> USE DEF cronVars, cronMem, cronHist
<1>1. RowsInv' /\ HistoryTypes' /\ RefireOnlyAfterLostMark' /\ NextRunFollowsExpression'
  BY DEF CronInv, RowsInv, HistoryTypes, RefireOnlyAfterLostMark, NextRunFollowsExpression, Rows
<1>2. JobsInv'
  BY DEF CronInv, JobsInv, JobInv, EntryInv, Busy, Rows
<1>3. FiredInv'
  BY DEF CronInv, FiredInv, Marking, Rows
<1>4. CronOpInv'
  BY DEF CronInv, CronOpInv, IsOp
<1> QED
  BY <1>1, <1>2, <1>3, <1>4 DEF CronInv


LEMMA AppFrame ==
    ASSUME HandlerInv, UNCHANGED appSame
    PROVE  AppTypes' /\ deployment' = deployment /\ UNCHANGED <<config, secrets, overlapped, uninjected>>
BY DEF HandlerInv, AppTypes, appSame, appRest

\* A handler other than Stop goes on in its configuration or its secrets.
LEMMA ShapeOf ==
    ASSUME HandlerInv, NEW h \in Callers, h # "stop"
    PROVE  /\ \A pc \in ConfigPcs, c \in deployment.configs : Shape(h, [pc |-> pc, c |-> c])
           /\ \A pc \in InjectPcs, c \in Mappings, env \in Environments :
                 Shape(h, [pc |-> pc, c |-> c, env |-> env])
           /\ Shape(h, [pc |-> "secConfig"])
           /\ Shape(h, Idle)
BY DEF Shape

LEMMA ApplyConfigPreserves ==
    ASSUME IInv, NEW r \in ConfigRequests, ApplyConfig(r)
    PROVE  IInv'
<1>1. r \in Callers /\ r # "stop"
  BY CallersAssumption, RuntimeAssumption DEF Requests
<1>2. PICK c \in deployment.configs :
         config' = c /\ Carries(r, "saving", c) /\ BecomesEnv(Env(c.env, secrets))
  BY DEF ApplyConfig
<1>3. PICK x : x = [pc |-> "saving", c |-> c]
  OBVIOUS
<1>4. handler' = [handler EXCEPT ![r] = x]
  BY <1>2, <1>3 DEF Carries
<1>5. Shape(r, x)
  BY <1>1, <1>3, ShapeOf DEF IInv, ConfigPcs
<1>6. AppTypes' /\ deployment' = deployment
  BY <1>2, RuntimeAssumption DEF IInv, HandlerInv, AppTypes, ApplyConfig, Begins, BecomesEnv, appRest, Requests
<1>7. mcpDone' = mcpDone
  BY DEF ApplyConfig, mcpVars
<1>8. HandlerInv'
  BY <1>1, <1>4, <1>5, <1>6, <1>7, HandlerStep DEF IInv
<1>9. Stage(Idle) => Stage(x)'
  BY <1>2, <1>3 DEF Stage, Idle, ConfigPcs, SecretPcs, InjectPcs, ApplyConfig, BecomesEnv, PresentEnv, mcpVars, gwVars, cronVars, cronMem, appRest
<1>10. overlapped' = (overlapped \/ Active # {})
  BY DEF ApplyConfig, Begins
<1>11. StageInv'
  BY <1>1, <1>4, <1>7, <1>9, <1>10, StageBegins DEF IInv
<1>12. McpInv' /\ GwInv' /\ CronInv'
  BY McpFrame, GwFrame, CronFrame DEF IInv, ApplyConfig
<1> QED
  BY <1>8, <1>11, <1>12 DEF IInv

LEMMA ApplySecretsPreserves ==
    ASSUME IInv, NEW r \in SecretRequests, ApplySecrets(r)
    PROVE  IInv'
<1>1. r \in Callers /\ r # "stop"
  BY CallersAssumption, RuntimeAssumption DEF Requests
<1>2. secrets' \in Stores
  BY DEF ApplySecrets, Stores
<1>3. PICK x : x = [pc |-> "secConfig"]
  OBVIOUS
<1>4. handler' = [handler EXCEPT ![r] = x]
  BY <1>3 DEF ApplySecrets
<1>5. Shape(r, x)
  BY <1>1, <1>3, ShapeOf DEF IInv
<1>6. AppTypes' /\ deployment' = deployment
  BY <1>2 DEF IInv, HandlerInv, AppTypes, ApplySecrets, Begins, Requests
<1>7. mcpDone' = mcpDone
  BY DEF ApplySecrets, mcpVars
<1>8. HandlerInv'
  BY <1>1, <1>4, <1>5, <1>6, <1>7, HandlerStep DEF IInv
<1>9. Stage(Idle) => Stage(x)'
  <2>1. config = NoConfig => Env(config.env, secrets) = NoEnv
    BY NothingMapped
  <2> QED
    BY <1>3, <2>1 DEF Stage, Idle, ConfigPcs, SecretPcs, InjectPcs, ApplySecrets, mcpVars, gwVars, cronVars, cronMem
<1>10. overlapped' = (overlapped \/ Active # {})
  BY DEF ApplySecrets, Begins
<1>11. StageInv'
  BY <1>1, <1>4, <1>7, <1>9, <1>10, StageBegins DEF IInv
<1>12. McpInv' /\ GwInv' /\ CronInv'
  BY McpFrame, GwFrame, CronFrame DEF IInv, ApplySecrets
<1> QED
  BY <1>8, <1>11, <1>12 DEF IInv

\* The mapping of a configuration, applied to the store, gives an environment.
LEMMA ConfigEnv ==
    ASSUME HandlerInv, config # NoConfig
    PROVE  config.env \in Mappings /\ Env(config.env, secrets) \in Environments
<1>1. config.env \in Mappings /\ secrets \in Stores
  BY ConfigsAssumption DEF HandlerInv, AppTypes
<1> QED
  BY <1>1, EnvIsEnvironment

LEMMA SecretsReadConfigPreserves ==
    ASSUME IInv, NEW r \in Callers, SecretsReadConfig(r)
    PROVE  IInv'
<1>1. handler[r].pc = "secConfig" /\ ~At(r, "idle")
  BY DEF SecretsReadConfig, At
<1>2. r # "stop"
  BY <1>1, HandlerShapes DEF IInv
<1>3. \E x : /\ handler' = [handler EXCEPT ![r] = x] /\ Shape(r, x)
             /\ Stage(handler[r]) => Stage(x)'
  <2>1. /\ UNCHANGED <<config, secrets, mcpSpecs, cronSpecs, gwSpecs, mcpEnv, gwEnv, cronOp, gwOp>>
    BY DEF SecretsReadConfig, appRest, mcpVars, gwVars, cronVars, cronMem
  <2>2. CASE config = NoConfig
    <3>1. PICK x : x = Idle /\ handler' = [handler EXCEPT ![r] = x]
      BY <2>2 DEF SecretsReadConfig, Returns
    <3>2. Shape(r, x)
      BY <1>2, <3>1, ShapeOf DEF IInv
    <3>3. Env(config.env, secrets) = NoEnv /\ uninjected' = uninjected
      BY <2>2, NothingMapped DEF SecretsReadConfig
    <3>4. Stage(handler[r]) => Stage(x)'
      BY <1>1, <2>1, <2>2, <3>1, <3>3 DEF Stage, Idle, ConfigPcs, SecretPcs, InjectPcs
    <3> QED
      BY <3>1, <3>2, <3>4
  <2>3. CASE config # NoConfig
    <3>1. PICK x : /\ x = [pc |-> "secMcp", c |-> config.env, env |-> Env(config.env, secrets)]
                   /\ handler' = [handler EXCEPT ![r] = x]
      BY <2>3 DEF SecretsReadConfig, Injects
    <3>2. config.env \in Mappings /\ Env(config.env, secrets) \in Environments
      BY <2>3, ConfigEnv DEF IInv
    <3>3. Shape(r, x)
      BY <1>2, <3>1, <3>2, ShapeOf DEF IInv, InjectPcs
    <3>4. Stage(handler[r]) => Stage(x)'
      BY <1>1, <2>1, <2>3, <3>1 DEF Stage, ConfigPcs, SecretPcs, InjectPcs
    <3> QED
      BY <3>1, <3>3, <3>4
  <2> QED
    BY <2>2, <2>3
<1>4. PICK x : /\ handler' = [handler EXCEPT ![r] = x] /\ Shape(r, x)
               /\ Stage(handler[r]) => Stage(x)'
  BY <1>3
<1>5. AppTypes' /\ deployment' = deployment
  BY DEF IInv, HandlerInv, AppTypes, SecretsReadConfig, appRest
<1>6. UNCHANGED <<overlapped, mcpDone>>
  BY DEF SecretsReadConfig, mcpVars
<1>7. HandlerInv'
  BY <1>2, <1>4, <1>5, <1>6, HandlerStep DEF IInv
<1>8. StageInv'
  BY <1>1, <1>4, <1>6, StageStep DEF IInv
<1>9. McpInv' /\ GwInv' /\ CronInv'
  BY McpFrame, GwFrame, CronFrame DEF IInv, SecretsReadConfig
<1> QED
  BY <1>7, <1>8, <1>9 DEF IInv

\* An expired secret either is not in the environment of the configuration or leaves it
\* without an injection.
LEMMA SecretsExpirePreserves ==
    ASSUME IInv, SecretsExpire
    PROVE  IInv'
<1>1. secrets' \in Stores
  <2>1. PICK names \in SUBSET DOMAIN secrets : secrets' = Restrict(secrets, DOMAIN secrets \ names)
    BY DEF SecretsExpire
  <2>2. PICK all \in SUBSET SecretNames : secrets \in [all -> SecretRequests]
    BY DEF IInv, HandlerInv, AppTypes, Stores
  <2>3. secrets' \in [all \ names -> SecretRequests] /\ all \ names \in SUBSET SecretNames
    BY <2>1, <2>2 DEF Restrict
  <2> QED
    BY <2>3 DEF Stores
<1>2. /\ UNCHANGED <<deployment, config, handler, overlapped, mcpDone>>
      /\ UNCHANGED <<mcpSpecs, cronSpecs, gwSpecs, mcpEnv, gwEnv, cronOp, gwOp>>
      /\ uninjected' = (uninjected \/ Env(config.env, secrets') # Env(config.env, secrets))
  BY DEF SecretsExpire, BecomesEnv, PresentEnv, mcpVars, gwVars, cronVars, cronMem
<1>3. AppTypes'
  BY <1>1, <1>2 DEF IInv, HandlerInv, AppTypes, SecretsExpire
<1>4. HandlerInv'
  BY <1>2, <1>3, HandlerFrame DEF IInv
<1>5. ASSUME NEW h \in Callers, Stage(handler[h]) PROVE Stage(handler[h])'
  <2>1. PICK x : x = handler[h] /\ x = handler'[h]
    BY <1>2
  <2>2. ~uninjected' => ~uninjected /\ Env(config.env, secrets') = Env(config.env, secrets)
    BY <1>2
  <2>3. Stage(x)
    BY <1>5, <2>1
  <2>4. Stage(x)'
    BY <1>2, <2>2, <2>3 DEF Stage
  <2> QED
    BY <2>1, <2>4 DEF Stage
<1>6. StageInv'
  BY <1>2, <1>5 DEF IInv, StageInv, At
<1>7. McpInv' /\ GwInv' /\ CronInv'
  BY McpFrame, GwFrame, CronFrame DEF IInv, SecretsExpire
<1> QED
  BY <1>4, <1>6, <1>7 DEF IInv

LEMMA SaveAppliedConfigPreserves ==
    ASSUME IInv, NEW r \in Callers, SaveAppliedConfig(r)
    PROVE  IInv'
<1>1. handler[r].pc = "saving" /\ ~At(r, "idle")
  BY DEF SaveAppliedConfig, At
<1>2. r # "stop" /\ handler[r].c \in deployment.configs
  BY <1>1, HandlerShapes DEF IInv, ConfigPcs
<1>3. PICK x : x = [pc |-> "mcp", c |-> config]
  OBVIOUS
<1>4. handler' = [handler EXCEPT ![r] = x]
  BY <1>3 DEF Carries, SaveAppliedConfig
<1>5. Shape(r, x)
  BY <1>2, <1>3, ShapeOf DEF IInv, ConfigPcs, HandlerInv, AppTypes
<1>6. AppTypes' /\ deployment' = deployment
  BY <1>2 DEF IInv, HandlerInv, AppTypes, SaveAppliedConfig, appRest
<1>7. UNCHANGED <<overlapped, mcpDone>>
  BY DEF SaveAppliedConfig, mcpVars
<1>8. HandlerInv'
  BY <1>2, <1>4, <1>5, <1>6, <1>7, HandlerStep DEF IInv
<1>9. Stage(handler[r]) => Stage(x)'
  BY <1>1, <1>3 DEF Stage, ConfigPcs, SecretPcs, InjectPcs, SaveAppliedConfig, mcpVars, gwVars, cronVars, cronMem, appRest
<1>11. StageInv'
  BY <1>1, <1>4, <1>7, <1>9, StageStep DEF IInv
<1>12. McpInv' /\ GwInv' /\ CronInv'
  BY McpFrame, GwFrame, CronFrame DEF IInv, SaveAppliedConfig
<1> QED
  BY <1>8, <1>11, <1>12 DEF IInv

LEMMA RunReadsConfigPreserves ==
    ASSUME IInv, RunReadsConfig
    PROVE  IInv'
<1>1. "run" \in Callers /\ "run" # "stop" /\ handler["run"].pc = "reading" /\ ~At("run", "idle")
  BY CallersAssumption DEF RunReadsConfig, At
<1>2. PICK x : x = (IF config = NoConfig THEN Idle ELSE [pc |-> "mcp", c |-> config])
  OBVIOUS
<1>4. handler' = [handler EXCEPT !["run"] = x]
  BY <1>2 DEF Carries, Returns, RunReadsConfig
<1>5. Shape("run", x)
  BY <1>1, <1>2, ShapeOf DEF IInv, ConfigPcs, HandlerInv, AppTypes
<1>6. AppTypes' /\ deployment' = deployment /\ UNCHANGED <<config, secrets, overlapped, uninjected>>
  BY AppFrame DEF IInv, RunReadsConfig
<1>7. mcpDone' = mcpDone
  BY DEF RunReadsConfig, mcpVars
<1>8. HandlerInv'
  BY <1>1, <1>4, <1>5, <1>6, <1>7, HandlerStep DEF IInv
<1>9. Stage(handler["run"]) => Stage(x)'
  BY <1>1, <1>2, <1>6 DEF Stage, Idle, NoConfig, ConfigPcs, SecretPcs, InjectPcs, RunReadsConfig,
                          mcpVars, gwVars, cronVars, cronMem
<1>11. StageInv'
  BY <1>1, <1>4, <1>6, <1>7, <1>9, StageStep DEF IInv
<1>12. McpInv' /\ GwInv' /\ CronInv'
  BY McpFrame, GwFrame, CronFrame DEF IInv, RunReadsConfig
<1> QED
  BY <1>8, <1>11, <1>12 DEF IInv

\* The tables of the configuration a handler carries.
LEMMA CarriedTables ==
    ASSUME HandlerInv, NEW h \in Callers, h # "stop", handler[h].pc \in ConfigPcs
    PROVE  /\ handler[h] \in [pc : ConfigPcs, c : deployment.configs]
           /\ McpTable(handler[h].c.mcp) /\ GwTable(handler[h].c.ext) /\ CronTable(handler[h].c.cron)
<1>1. handler[h] \in [pc : ConfigPcs, c : deployment.configs]
  BY HandlerShapes
<1>2. handler[h].c \in deployment.configs /\ deployment \in Deployments
  BY <1>1 DEF HandlerInv, AppTypes
<1> QED
  BY <1>1, <1>2, ExprsWellFormed

\* The handler goes on to the next supervisor.
LEMMA GoesOn ==
    ASSUME HandlerInv, NEW h \in Callers, h # "stop", handler[h].pc \in ConfigPcs,
           NEW pc \in ConfigPcs, Goes(h, pc)
    PROVE  \E x : /\ x = [pc |-> pc, c |-> handler[h].c] /\ Shape(h, x)
                  /\ handler' = [handler EXCEPT ![h] = x]
<1>1. handler[h] \in [pc : ConfigPcs, c : deployment.configs]
  BY HandlerShapes
<1>2. PICK x : x = [handler[h] EXCEPT !.pc = pc]
  OBVIOUS
<1>3. x = [pc |-> pc, c |-> handler[h].c] /\ handler[h].c \in deployment.configs
  BY <1>1, <1>2
<1>4. Shape(h, x)
  BY <1>3, ShapeOf
<1>5. handler' = [handler EXCEPT ![h] = x]
  BY <1>2 DEF Goes
<1> QED
  BY <1>3, <1>4, <1>5

LEMMA ReconcileMcpPreserves ==
    ASSUME IInv, NEW h \in Callers, ReconcileMcp(h)
    PROVE  IInv'
<1>1. handler[h].pc = "mcp" /\ ~At(h, "idle") /\ handler[h].pc \in ConfigPcs
  BY DEF ReconcileMcp, At, ConfigPcs
<1>2. h # "stop" /\ HandlerInv
  BY <1>1, HandlerShapes DEF IInv
<1>3. PICK x : x = [pc |-> "cron", c |-> handler[h].c] /\ Shape(h, x) /\ handler' = [handler EXCEPT ![h] = x]
  BY <1>1, <1>2, GoesOn DEF ReconcileMcp, ConfigPcs
<1>6. AppTypes' /\ deployment' = deployment /\ UNCHANGED <<config, secrets, overlapped, uninjected>>
  BY <1>2, AppFrame DEF ReconcileMcp
<1>7. mcpDone' = mcpDone /\ mcpSpecs' = handler[h].c.mcp /\ mcpEnv' = mcpEnv
  BY DEF ReconcileMcp, McpReconcile
<1>8. HandlerInv'
  BY <1>2, <1>3, <1>6, <1>7, HandlerStep
<1>9. Stage(handler[h]) => Stage(x)'
  BY <1>1, <1>3, <1>6, <1>7 DEF Stage, ConfigPcs, SecretPcs, InjectPcs, ReconcileMcp, gwVars, cronVars, cronMem
<1>11. StageInv'
  BY <1>1, <1>3, <1>6, <1>7, <1>9, StageStep DEF IInv
<1>12. McpTable(handler[h].c.mcp)
  BY <1>1, <1>2, CarriedTables
<1>13. McpInv' /\ GwInv' /\ CronInv'
  BY <1>12, McpReconcilePreserves, GwFrame, CronFrame DEF IInv, ReconcileMcp
<1> QED
  BY <1>8, <1>11, <1>13 DEF IInv


LEMMA ReconcileCronPreserves ==
    ASSUME IInv, NEW h \in Callers, ReconcileCron(h)
    PROVE  IInv'
<1>1. handler[h].pc = "cron" /\ ~At(h, "idle") /\ handler[h].pc \in ConfigPcs
  BY DEF ReconcileCron, At, ConfigPcs
<1>2. h # "stop" /\ HandlerInv
  BY <1>1, HandlerShapes DEF IInv
<1>3. PICK pc \in {"ext", "cronWait"} : Goes(h, pc) /\ pc = (IF cronOp' = cronOp THEN "ext" ELSE "cronWait")
  BY DEF ReconcileCron
<1>4. PICK x : x = [pc |-> pc, c |-> handler[h].c] /\ Shape(h, x) /\ handler' = [handler EXCEPT ![h] = x]
  BY <1>1, <1>2, <1>3, GoesOn DEF ConfigPcs
<1>5. pc = "ext" => cronSpecs' = handler[h].c.cron
  BY <1>3 DEF ReconcileCron, CronReconcile, CronUnlocked
<1>6. pc = "cronWait" => cronOp'.specs = handler[h].c.cron
  BY <1>3 DEF ReconcileCron, CronReconcile, CronUnlocked
<1>7. AppTypes' /\ deployment' = deployment /\ UNCHANGED <<config, secrets, overlapped, uninjected>>
  BY <1>2, AppFrame DEF ReconcileCron
<1>8. UNCHANGED <<mcpDone, mcpSpecs, mcpEnv, gwSpecs, gwEnv, gwOp>>
  BY DEF ReconcileCron, mcpVars, gwVars
<1>9. HandlerInv'
  BY <1>2, <1>4, <1>7, <1>8, HandlerStep
<1>10. Stage(handler[h]) => Stage(x)'
  BY <1>1, <1>3, <1>4, <1>5, <1>6, <1>7, <1>8 DEF Stage, ConfigPcs, SecretPcs, InjectPcs
<1>11. StageInv'
  BY <1>1, <1>4, <1>7, <1>8, <1>10, StageStep DEF IInv
<1>12. CronTable(handler[h].c.cron)
  BY <1>1, <1>2, CarriedTables
<1>13. McpInv' /\ GwInv' /\ CronInv'
  BY <1>12, CronReconcilePreserves, GwFrame, McpFrame DEF IInv, ReconcileCron
<1> QED
  BY <1>9, <1>11, <1>13 DEF IInv

LEMMA StageStopped ==
    ASSUME mcpDone'
    PROVE  StageInv'
BY DEF StageInv

\* Stop goes on; it was begun, so that the MCP supervisor is stopped.
LEMMA StopGoesOn ==
    ASSUME IInv, AppTypes', deployment' = deployment, mcpDone', NEW pc \in StopPcs, Goes("stop", pc)
    PROVE  HandlerInv' /\ StageInv'
<1>1. "stop" \in Callers /\ handler["stop"] \in [pc : StopPcs]
  BY HandlerShapes, CallersAssumption DEF IInv
<1>2. PICK x : x = [handler["stop"] EXCEPT !.pc = pc]
  OBVIOUS
<1>3. Shape("stop", x)
  BY <1>1, <1>2 DEF Shape
<1>4. handler' = [handler EXCEPT !["stop"] = x]
  BY <1>2 DEF Goes
<1> QED
  BY <1>1, <1>3, <1>4, HandlerStep, StageStopped DEF IInv

LEMMA CronCallReturnsPreserves ==
    ASSUME IInv, NEW h \in Callers, CronCallReturns(h)
    PROVE  IInv'
<1>1. handler[h].pc = "cronWait" /\ ~At(h, "idle") /\ handler[h].pc \in ConfigPcs
  BY DEF CronCallReturns, At, ConfigPcs
<1>2. AppTypes' /\ deployment' = deployment /\ UNCHANGED <<config, secrets, overlapped, uninjected>>
  BY AppFrame DEF IInv, CronCallReturns
<1>3. UNCHANGED <<mcpDone, mcpSpecs, mcpEnv, gwSpecs, gwEnv, gwOp>>
  BY DEF CronCallReturns, mcpVars, gwVars
<1>4. CronInv' /\ cronSpecs' = cronOp.specs
  BY CronReturnsPreserves DEF IInv, CronCallReturns
<1>5. McpInv' /\ GwInv'
  BY GwFrame, McpFrame DEF IInv, CronCallReturns
<1>6. CASE h = "stop"
  <2>1. Goes("stop", "extStop") /\ "extStop" \in StopPcs
    BY <1>6 DEF CronCallReturns, StopPcs
  <2>2. mcpDone'
    BY <1>1, <1>3, <1>6 DEF IInv, HandlerInv, At
  <2> QED
    BY <1>2, <1>4, <1>5, <2>1, <2>2, StopGoesOn DEF IInv
<1>7. CASE h # "stop"
  <2>1. PICK x : x = [pc |-> "ext", c |-> handler[h].c] /\ Shape(h, x) /\ handler' = [handler EXCEPT ![h] = x]
    BY <1>1, <1>7, GoesOn DEF IInv, CronCallReturns, ConfigPcs
  <2>2. HandlerInv'
    BY <1>2, <1>3, <1>7, <2>1, HandlerStep DEF IInv
  <2>3. Stage(handler[h]) => Stage(x)'
    BY <1>1, <1>2, <1>3, <1>4, <2>1 DEF Stage, ConfigPcs, SecretPcs, InjectPcs
  <2>4. StageInv'
    BY <1>1, <1>2, <1>3, <2>1, <2>3, StageStep DEF IInv
  <2> QED
    BY <1>4, <1>5, <2>2, <2>4 DEF IInv
<1> QED
  BY <1>6, <1>7

LEMMA ReconcileExtPreserves ==
    ASSUME IInv, NEW h \in Callers, ReconcileExt(h)
    PROVE  IInv'
<1>1. handler[h].pc = "ext" /\ ~At(h, "idle") /\ handler[h].pc \in ConfigPcs
  BY DEF ReconcileExt, At, ConfigPcs
<1>2. h # "stop" /\ HandlerInv
  BY <1>1, HandlerShapes DEF IInv
<1>3. AppTypes' /\ deployment' = deployment /\ UNCHANGED <<config, secrets, overlapped, uninjected>>
  BY <1>2, AppFrame DEF ReconcileExt
<1>4. UNCHANGED <<mcpDone, mcpSpecs, mcpEnv, cronSpecs, cronOp>> /\ gwEnv' = gwEnv
  BY DEF ReconcileExt, mcpVars, cronVars, cronMem, GwReconcile
<1>5. GwTable(handler[h].c.ext)
  BY <1>1, <1>2, CarriedTables
<1>6. McpInv' /\ GwInv' /\ CronInv'
  BY <1>5, GwReconcilePreserves, CronFrame, McpFrame DEF IInv, ReconcileExt
<1>7. CASE gwOp' = gwOp
  <2>1. PICK x : x = Idle /\ Shape(h, x) /\ handler' = [handler EXCEPT ![h] = x]
    BY <1>2, <1>7, ShapeOf DEF ReconcileExt, Returns
  <2>2. gwSpecs' = handler[h].c.ext
    BY <1>7 DEF ReconcileExt, GwReconcile, GwUnlocked, GwIdle
  <2>3. HandlerInv'
    BY <1>2, <1>3, <1>4, <2>1, HandlerStep
  <2>4. Stage(handler[h]) => Stage(x)'
    BY <1>1, <1>3, <1>4, <2>1, <2>2 DEF Stage, ConfigPcs, SecretPcs, InjectPcs, Idle
  <2>5. StageInv'
    BY <1>1, <1>3, <1>4, <2>1, <2>4, StageStep DEF IInv
  <2> QED
    BY <1>6, <2>3, <2>5 DEF IInv
<1>8. CASE gwOp' # gwOp
  <2>1. PICK x : x = [pc |-> "extWait", c |-> handler[h].c] /\ Shape(h, x) /\ handler' = [handler EXCEPT ![h] = x]
    BY <1>1, <1>2, <1>8, GoesOn DEF ReconcileExt, ConfigPcs
  <2>2. gwOp'.specs = handler[h].c.ext
    BY <1>8 DEF ReconcileExt, GwReconcile
  <2>3. HandlerInv'
    BY <1>2, <1>3, <1>4, <2>1, HandlerStep
  <2>4. Stage(handler[h]) => Stage(x)'
    BY <1>1, <1>3, <1>4, <2>1, <2>2 DEF Stage, ConfigPcs, SecretPcs, InjectPcs
  <2>5. StageInv'
    BY <1>1, <1>3, <1>4, <2>1, <2>4, StageStep DEF IInv
  <2> QED
    BY <1>6, <2>3, <2>5 DEF IInv
<1> QED
  BY <1>7, <1>8

LEMMA ExtCallReturnsPreserves ==
    ASSUME IInv, NEW h \in Callers, ExtCallReturns(h)
    PROVE  IInv'
<1>1. handler[h].pc = "extWait" /\ ~At(h, "idle") /\ handler[h].pc \in ConfigPcs
  BY DEF ExtCallReturns, At, ConfigPcs
<1>2. AppTypes' /\ deployment' = deployment /\ UNCHANGED <<config, secrets, overlapped, uninjected>>
  BY AppFrame DEF IInv, ExtCallReturns
<1>3. UNCHANGED <<mcpDone, mcpSpecs, mcpEnv, cronSpecs, cronOp>> /\ gwEnv' = gwEnv
  BY DEF ExtCallReturns, mcpVars, cronVars, cronMem, GwReturns
<1>4. GwInv' /\ gwSpecs' = gwOp.specs
  BY GwReturnsPreserves DEF IInv, ExtCallReturns
<1>5. McpInv' /\ CronInv'
  BY CronFrame, McpFrame DEF IInv, ExtCallReturns
<1>6. PICK x : x = Idle /\ handler' = [handler EXCEPT ![h] = x]
  BY DEF ExtCallReturns, Returns
<1>7. Shape(h, x)
  BY <1>6 DEF Shape, Idle, StopPcs
<1>8. mcpDone' \/ (h # "stop" /\ mcpDone' = mcpDone)
  BY <1>1, <1>3 DEF IInv, HandlerInv, At
<1>9. HandlerInv'
  BY <1>2, <1>6, <1>7, <1>8, HandlerStep DEF IInv
<1>10. Stage(handler[h]) => Stage(x)'
  BY <1>1, <1>2, <1>3, <1>4, <1>6 DEF Stage, ConfigPcs, SecretPcs, InjectPcs, Idle
<1>11. StageInv'
  BY <1>1, <1>2, <1>3, <1>6, <1>10, StageStep DEF IInv
<1> QED
  BY <1>4, <1>5, <1>9, <1>11 DEF IInv

LEMMA InjectMcpPreserves ==
    ASSUME IInv, NEW r \in Callers, InjectMcp(r)
    PROVE  IInv'
<1>1. handler[r].pc = "secMcp" /\ ~At(r, "idle") /\ handler[r].pc \in InjectPcs
  BY DEF InjectMcp, At, InjectPcs
<1>2. r # "stop" /\ handler[r].c \in Mappings /\ handler[r].env \in Environments
  BY <1>1, HandlerShapes DEF IInv
<1>3. PICK x : x = [pc |-> "secExt", c |-> handler[r].c, env |-> Env(handler[r].c, secrets)]
  OBVIOUS
<1>4. handler' = [handler EXCEPT ![r] = x]
  BY <1>3 DEF Injects, InjectMcp
<1>5. Shape(r, x)
  <2>1. Env(handler[r].c, secrets) \in Environments
    BY <1>2, EnvIsEnvironment DEF IInv, HandlerInv, AppTypes
  <2> QED
    BY <1>2, <1>3, <2>1, ShapeOf DEF IInv, InjectPcs
<1>6. AppTypes' /\ deployment' = deployment /\ UNCHANGED <<config, secrets, overlapped, uninjected>>
  BY AppFrame DEF IInv, InjectMcp
<1>7. mcpDone' = mcpDone /\ mcpSpecs' = mcpSpecs /\ mcpEnv' = handler[r].env
  BY DEF InjectMcp, McpApplySecrets
<1>8. HandlerInv'
  BY <1>2, <1>4, <1>5, <1>6, <1>7, HandlerStep DEF IInv
<1>9. Stage(handler[r]) => Stage(x)'
  BY <1>1, <1>3, <1>6, <1>7 DEF Stage, ConfigPcs, SecretPcs, InjectPcs, InjectMcp, gwVars, cronVars, cronMem
<1>11. StageInv'
  BY <1>1, <1>4, <1>6, <1>7, <1>9, StageStep DEF IInv
<1>12. McpInv' /\ GwInv' /\ CronInv'
  BY <1>2, McpApplySecretsPreserves, GwFrame, CronFrame DEF IInv, InjectMcp
<1> QED
  BY <1>8, <1>11, <1>12 DEF IInv

LEMMA InjectExtPreserves ==
    ASSUME IInv, NEW r \in Callers, InjectExt(r)
    PROVE  IInv'
<1>1. handler[r].pc = "secExt" /\ ~At(r, "idle") /\ handler[r].pc \in InjectPcs
  BY DEF InjectExt, At, InjectPcs
<1>2. r # "stop" /\ handler[r].env \in Environments
  BY <1>1, HandlerShapes DEF IInv
<1>3. PICK x : x = Idle /\ handler' = [handler EXCEPT ![r] = x]
  BY DEF InjectExt, Returns
<1>5. Shape(r, x)
  BY <1>2, <1>3, ShapeOf DEF IInv
<1>6. AppTypes' /\ deployment' = deployment /\ UNCHANGED <<config, secrets, overlapped, uninjected>>
  BY AppFrame DEF IInv, InjectExt
<1>7. mcpDone' = mcpDone /\ gwSpecs' = gwSpecs /\ gwEnv' = handler[r].env
  BY DEF InjectExt, GwApplySecrets, mcpVars
<1>8. HandlerInv'
  BY <1>2, <1>3, <1>5, <1>6, <1>7, HandlerStep DEF IInv
<1>9. Stage(handler[r]) => Stage(x)'
  BY <1>1, <1>3, <1>6, <1>7 DEF Stage, Idle, ConfigPcs, SecretPcs, InjectPcs, InjectExt, mcpVars, cronVars, cronMem
<1>11. StageInv'
  BY <1>1, <1>3, <1>6, <1>7, <1>9, StageStep DEF IInv
<1>12. McpInv' /\ GwInv' /\ CronInv'
  BY <1>2, GwApplySecretsPreserves, McpFrame, CronFrame DEF IInv, InjectExt
<1> QED
  BY <1>8, <1>11, <1>12 DEF IInv


LEMMA StopBeginsPreserves ==
    ASSUME IInv, StopBegins
    PROVE  IInv'
<1>1. mcpDone' /\ "mcpStop" \in StopPcs /\ Goes("stop", "mcpStop")
  BY DEF StopBegins, McpStopCancels, StopPcs
<1>2. AppTypes' /\ deployment' = deployment
  BY DEF IInv, HandlerInv, AppTypes, StopBegins, appRest
<1>3. HandlerInv' /\ StageInv'
  BY <1>1, <1>2, StopGoesOn
<1>4. McpInv' /\ GwInv' /\ CronInv'
  BY McpEndsPreserve, GwFrame, CronFrame DEF IInv, StopBegins
<1> QED
  BY <1>3, <1>4 DEF IInv

LEMMA StopStepsPreserve ==
    ASSUME IInv, StopSteps
    PROVE  IInv'
<1>1. UNCHANGED appSame /\ ~At("stop", "idle")
  BY DEF StopSteps, StopMcp, StopCron, StopExt, At
<1>2. mcpDone
  BY <1>1 DEF IInv, HandlerInv
<1>3. mcpDone'
  BY <1>2 DEF StopSteps, StopMcp, StopCron, StopExt, McpStopCloses, mcpVars
<1>4. AppTypes' /\ deployment' = deployment
  BY <1>1, AppFrame DEF IInv
<1>5. StageInv'
  BY <1>3, StageStopped
<1>6. CASE StopMcp
  <2>1. HandlerInv'
    BY <1>3, <1>4, <1>6, StopGoesOn DEF StopMcp, StopPcs
  <2>2. McpInv' /\ GwInv' /\ CronInv'
    BY <1>6, McpEndsPreserve, GwFrame, CronFrame DEF IInv, StopMcp
  <2> QED
    BY <1>5, <2>1, <2>2 DEF IInv
<1>7. CASE StopCron
  <2>1. McpInv' /\ GwInv' /\ CronInv'
    BY <1>7, CronStopPreserves, GwFrame, McpFrame DEF IInv, StopCron
  <2>2. UNCHANGED handler \/ Goes("stop", "extStop") \/ Goes("stop", "cronWait")
    BY <1>7 DEF StopCron
  <2>3. HandlerInv'
    BY <1>2, <1>3, <1>4, <2>2, StopGoesOn, HandlerFrame DEF StopPcs, IInv, HandlerInv, Shape, At
  <2> QED
    BY <1>5, <2>1, <2>3 DEF IInv
<1>8. CASE StopExt
  <2>1. McpInv' /\ GwInv' /\ CronInv'
    BY <1>8, GwStopPreserves, CronFrame, McpFrame DEF IInv, StopExt
  <2>2. CASE UNCHANGED handler \/ Goes("stop", "extWait")
    <3>1. HandlerInv'
      BY <1>2, <1>3, <1>4, <2>2, StopGoesOn, HandlerFrame DEF StopPcs, IInv, HandlerInv, Shape, At
    <3> QED
      BY <1>5, <2>1, <3>1 DEF IInv
  <2>3. CASE Returns("stop")
    <3>1. PICK x : x = Idle /\ handler' = [handler EXCEPT !["stop"] = x]
      BY <2>3 DEF Returns
    <3>2. Shape("stop", x) /\ "stop" \in Callers
      BY <3>1, CallersAssumption DEF Shape, Idle, StopPcs
    <3>3. HandlerInv'
      BY <1>3, <1>4, <3>1, <3>2, HandlerStep DEF IInv
    <3> QED
      BY <1>5, <2>1, <3>3 DEF IInv
  <2> QED
    BY <1>8, <2>2, <2>3 DEF StopExt
<1> QED
  BY <1>6, <1>7, <1>8 DEF StopSteps

LEMMA McpInitial == McpInit => McpInv
<1> SUFFICES ASSUME McpInit PROVE McpInv
  OBVIOUS
<1>1. DOMAIN mcpSpecs = {} /\ DOMAIN clients = {} /\ DOMAIN watchers = {}
  BY DEF McpInit
<1>2. mcpEnv \in Environments /\ mcpDone \in BOOLEAN /\ watchers \in Seq(WatcherType)
  <2>1. watchers = <<>> /\ mcpEnv = NoEnv /\ mcpDone = FALSE
    BY DEF McpInit
  <2>2. watchers \in Seq(WatcherType)
    BY <2>1
  <2> QED
    BY <2>1, <2>2, NoEnvIsEnvironment
<1>3. McpTypeOK
  BY <1>1, <1>2 DEF McpTypeOK, WatcherType
<1>4. LockedClientsAreCurrent /\ MissingIsWatched
  BY <1>1 DEF LockedClientsAreCurrent, MissingIsWatched
<1> QED
  BY <1>1, <1>3, <1>4 DEF McpInv

LEMMA GwInitial == GwInit => GwInv
<1> SUFFICES ASSUME GwInit PROVE GwInv
  OBVIOUS
<1> USE DEF GwInit
<1>1. GwShape
  BY DEF GwShape
<1>2. GwOpInv /\ GwTable(gwSpecs)
  BY DEF GwOpInv, GwTable
<1>3. GatewaysMatchConfiguration
  BY DEF GatewaysMatchConfiguration
<1> QED
  BY <1>1, <1>2, <1>3, NoEnvIsEnvironment DEF GwInv

LEMMA CronInitial == CronInit => CronInv
<1> SUFFICES ASSUME CronInit PROVE CronInv
  OBVIOUS
<1> USE DEF CronInit, Rows
<1>1. RowsInv /\ JobsInv /\ HistoryTypes
  BY DEF RowsInv, JobsInv, HistoryTypes
<1>2. FiredInv /\ CronOpInv /\ RefireOnlyAfterLostMark /\ NextRunFollowsExpression
  BY DEF FiredInv, CronOpInv, RefireOnlyAfterLostMark, NextRunFollowsExpression
<1>3. now \in 1..MaxTime
  BY CronAssumption
<1>4. cronDone \in BOOLEAN
  OBVIOUS
<1> QED
  BY <1>1, <1>2, <1>3, <1>4 DEF CronInv

LEMMA InitialState == Init => IInv
<1> SUFFICES ASSUME Init PROVE IInv
  OBVIOUS
<1>1. McpInv /\ GwInv /\ CronInv
  BY McpInitial, GwInitial, CronInitial DEF Init
<1>2. AppTypes
  <2>1. deployment \in Deployments /\ deployment.edits \in Nat /\ deployment.restarts \in Nat
    BY RuntimeAssumption DEF Init
  <2>2. edits \in 0..deployment.edits /\ restarts \in 0..deployment.restarts
    BY <2>1 DEF Init
  <2>3. config \in deployment.configs /\ savedConfig \in deployment.configs /\ pushes \subseteq Requests
    BY DEF Init
  <2>4. overlapped \in BOOLEAN /\ uninjected \in BOOLEAN /\ secrets \in Stores
    BY NoEnvIsEnvironment DEF Init
  <2> QED
    BY <2>1, <2>2, <2>3, <2>4 DEF AppTypes
<1>3. "run" \in Callers /\ "stop" \in Callers /\ DOMAIN handler = Callers
  BY CallersAssumption DEF Init
<1>4. handler["run"] = [pc |-> "reading", c |-> config] /\ \A h \in Callers \ {"run"} : handler[h] = Idle
  BY <1>3 DEF Init
<1>5. \A h \in Callers : Shape(h, handler[h])
  BY <1>2, <1>4 DEF Shape, Idle, StopPcs, ConfigPcs, AppTypes
<1>6. HandlerInv
  BY <1>2, <1>3, <1>4, <1>5 DEF HandlerInv, At, Idle
<1>7. Stage(handler["run"])
  <2>1. Env(config.env, secrets) = NoEnv
    BY EmptyStore DEF Init
  <2> QED
    BY <1>4, <2>1 DEF Stage, ConfigPcs, SecretPcs, InjectPcs, Init, McpInit, GwInit, CronInit
<1>8. StageInv
  BY <1>3, <1>4, <1>7 DEF StageInv, At, Idle
<1> QED
  BY <1>1, <1>6, <1>8 DEF IInv

LEMMA CrashPreserves ==
    ASSUME IInv, CrashAndRestart
    PROVE  IInv'
<1>1. McpInit' /\ GwInit'
  BY DEF CrashAndRestart, McpInit, GwInit
<1>2. McpInv' /\ GwInv'
  <2>1. McpInit' => McpInv'
    BY McpInitial, PTL
  <2>2. GwInit' => GwInv'
    BY GwInitial, PTL
  <2> QED
    BY <1>1, <2>1, <2>2
<1>3. CronInv'
  BY CronCrashPreserves DEF IInv, CrashAndRestart
<1>4. AppTypes' /\ config' = savedConfig
  <2>1. AppTypes /\ deployment \in Deployments /\ deployment.restarts \in Nat
    BY RuntimeAssumption DEF IInv, HandlerInv, AppTypes
  <2>2. restarts \in 0..deployment.restarts /\ restarts < deployment.restarts /\ restarts' = restarts + 1
    BY DEF IInv, HandlerInv, AppTypes, CrashAndRestart
  <2>3. restarts' \in 0..deployment.restarts
    BY <2>1, <2>2
  <2>4. secrets' \in Stores /\ overlapped' \in BOOLEAN /\ uninjected' \in BOOLEAN
    BY NoEnvIsEnvironment DEF CrashAndRestart
  <2>5. config' = savedConfig /\ UNCHANGED <<deployment, savedConfig, pushes, edits>>
    BY DEF CrashAndRestart
  <2> QED
    BY <2>1, <2>3, <2>4, <2>5 DEF AppTypes
<1>5. "run" \in Callers /\ "stop" \in Callers /\ DOMAIN handler' = Callers
  BY CallersAssumption DEF CrashAndRestart
<1>6. handler'["run"] = [pc |-> "reading", c |-> config'] /\ \A h \in Callers \ {"run"} : handler'[h] = Idle
  BY <1>4, <1>5 DEF CrashAndRestart
<1>7. \A h \in Callers : Shape(h, handler[h])'
  BY <1>4, <1>6 DEF Shape, Idle, StopPcs, ConfigPcs, AppTypes
<1>8. HandlerInv'
  BY <1>4, <1>5, <1>6, <1>7 DEF HandlerInv, At, Idle
<1>9. Stage(handler["run"])'
  <2>1. Env(config'.env, secrets') = NoEnv
    BY EmptyStore DEF CrashAndRestart
  <2> QED
    BY <1>6, <2>1 DEF Stage, ConfigPcs, SecretPcs, InjectPcs, CrashAndRestart, CronCrash
<1>10. StageInv'
  BY <1>5, <1>6, <1>9 DEF StageInv, At, Idle
<1> QED
  BY <1>2, <1>3, <1>8, <1>10 DEF IInv

LEMMA AppUnchanged ==
    ASSUME IInv, UNCHANGED appVars, UNCHANGED <<mcpDone, mcpSpecs, mcpEnv, cronSpecs, gwSpecs, gwEnv>>,
           cronOp'.specs = cronOp.specs, gwOp'.specs = gwOp.specs
    PROVE  HandlerInv' /\ StageInv'
<1>1. AppTypes' /\ UNCHANGED <<deployment, config, secrets, handler, overlapped, uninjected>>
  BY DEF IInv, HandlerInv, AppTypes, appVars
<1> QED
  BY <1>1, HandlerFrame, StageFrame DEF IInv

LEMMA McpStepsPreserve ==
    ASSUME IInv, McpSteps
    PROVE  IInv'
<1>1. McpInv'
  BY McpEndsPreserve, WatcherPreserves DEF IInv, McpSteps
<1>2. GwInv' /\ CronInv'
  BY GwFrame, CronFrame DEF IInv, McpSteps
<1>3. UNCHANGED <<mcpDone, mcpSpecs, mcpEnv>>
  BY DEF McpSteps, ProcessDies, watchAndRestart, WatcherFindsMissing, WatcherStartFails, WatcherStarts,
         WatcherInserts, WatcherEnds
<1>4. HandlerInv' /\ StageInv'
  BY <1>3, AppUnchanged DEF McpSteps, gwVars, cronVars, cronMem
<1> QED
  BY <1>1, <1>2, <1>4 DEF IInv

LEMMA GwStepsPreserve ==
    ASSUME IInv, GwSteps
    PROVE  IInv'
<1>1. GwInv' /\ gwOp'.specs = gwOp.specs
  <2>1. CASE \E s \in Slots : runGateway(s)
    <3>1. GwInv'
      BY <2>1, RunGatewayPreserves DEF IInv
    <3>2. gwOp' = gwOp
      BY <2>1 DEF runGateway, BuildEnv, GwSpawns, GwSpawnFails, GwExits, GwTerminates, GwTerminated,
                  GwDelayEnds, GwDelayCancelled, GwGoes
    <3> QED
      BY <3>1, <3>2
  <2>2. CASE \E n \in GwNames : GwCancelsOne(n) \/ GwOneEnded(n)
    BY <2>2, GwCancelsOnePreserves, GwOneEndedPreserves DEF IInv
  <2> QED
    BY <2>1, <2>2 DEF GwSteps
<1>2. McpInv' /\ CronInv'
  BY McpFrame, CronFrame DEF IInv, GwSteps
<1>3. UNCHANGED <<gwSpecs, gwEnv>>
  BY DEF GwSteps, GwCancelsOne, GwOneEnded, runGateway, BuildEnv, GwSpawns, GwSpawnFails, GwExits,
         GwTerminates, GwTerminated, GwDelayEnds, GwDelayCancelled, GwGoes
<1>4. HandlerInv' /\ StageInv'
  BY <1>1, <1>3, AppUnchanged DEF GwSteps, mcpVars, cronVars, cronMem
<1> QED
  BY <1>1, <1>2, <1>4 DEF IInv

LEMMA CronStepsPreserve ==
    ASSUME IInv, CronSteps
    PROVE  IInv'
<1>1. CronInv' /\ cronOp'.specs = cronOp.specs /\ cronSpecs' = cronSpecs
  <2>1. CASE Tick
    BY <2>1, TickPreserves DEF IInv, Tick, cronMem
  <2>2. ASSUME NEW n \in DOMAIN jobs, runDBJob(n) \/ runJob(n)
        PROVE  CronInv' /\ UNCHANGED <<cronOp, cronSpecs>>
    <3>1. CronInv'
      BY <2>2, FinishPreserves, DispatchPreserves, RestPreserves, PollPreserves DEF IInv, runDBJob, runJob
    <3>2. UNCHANGED <<cronOp, cronSpecs>>
      BY <2>2 DEF runDBJob, runJob, PollDue, DisableExhausted, Dispatch, DispatchFails, MarkTriggered,
                  MarkFails, DBJobStops, FireTick, JobStops
    <3> QED
      BY <3>1, <3>2
  <2>3. CASE \E n \in CronNames : CronCancelsOne(n) \/ CronOneEnded(n)
    BY <2>3, CronCancelsOnePreserves, CronOneEndedPreserves DEF IInv, CronCancelsOne, CronOneEnded
  <2> QED
    BY <2>1, <2>2, <2>3 DEF CronSteps
<1>2. McpInv' /\ GwInv'
  BY McpFrame, GwFrame DEF IInv, CronSteps
<1>3. HandlerInv' /\ StageInv'
  BY <1>1, AppUnchanged DEF CronSteps, mcpVars, gwVars
<1> QED
  BY <1>1, <1>2, <1>3 DEF IInv

LEMMA ScheduleToolsPreserve ==
    ASSUME IInv, ScheduleTools
    PROVE  IInv'
<1>1. CronInv'
  <2>1. \A u \in UserEdits : u.expr \in Exprs /\ u.enabled \in BOOLEAN
    BY ExprsWellFormed
  <2> QED
    BY <2>1, ScheduleCreatePreserves, ScheduleUpdatePreserves, ScheduleDisablePreserves DEF IInv, ScheduleTools
<1>2. UNCHANGED <<cronOp, cronSpecs>>
  BY DEF ScheduleTools, ScheduleCreate, ScheduleUpdate, ScheduleDisable, cronMem
<1>3. McpInv' /\ GwInv'
  BY McpFrame, GwFrame DEF IInv, ScheduleTools
<1>4. AppTypes' /\ UNCHANGED <<deployment, config, secrets, handler, overlapped, uninjected>>
  BY RuntimeAssumption DEF IInv, HandlerInv, AppTypes, ScheduleTools
<1>5. UNCHANGED <<mcpDone, mcpSpecs, mcpEnv, gwSpecs, gwEnv, gwOp>>
  BY DEF ScheduleTools, mcpVars, gwVars
<1>6. HandlerInv' /\ StageInv'
  BY <1>2, <1>4, <1>5, HandlerFrame, StageFrame DEF IInv
<1> QED
  BY <1>1, <1>3, <1>6 DEF IInv

LEMMA StepPreserves ==
    ASSUME IInv, [Next]_vars
    PROVE  IInv'
<1>1. CASE Next
  <2>1. ASSUME NEW h \in Callers, HandlerSteps(h) PROVE IInv'
    BY <2>1, SaveAppliedConfigPreserves, ReconcileMcpPreserves, ReconcileCronPreserves,
       CronCallReturnsPreserves, ReconcileExtPreserves, ExtCallReturnsPreserves,
       SecretsReadConfigPreserves, InjectMcpPreserves, InjectExtPreserves DEF HandlerSteps
  <2> QED
    BY <1>1, <2>1, ApplyConfigPreserves, ApplySecretsPreserves, SecretsExpirePreserves, RunReadsConfigPreserves,
       StopBeginsPreserves, StopStepsPreserve, CrashPreserves, McpStepsPreserve, GwStepsPreserve,
       CronStepsPreserve, ScheduleToolsPreserve DEF Next
<1>2. CASE UNCHANGED vars
  <2>1. UNCHANGED <<appVars, mcpVars, gwVars, cronVars>>
    BY <1>2 DEF vars
  <2>2. McpInv' /\ GwInv' /\ CronInv'
    BY <2>1, McpFrame, GwFrame, CronFrame DEF IInv
  <2>3. HandlerInv' /\ StageInv'
    BY <2>1, AppUnchanged DEF mcpVars, gwVars, cronVars, cronMem
  <2> QED
    BY <2>2, <2>3 DEF IInv
<1> QED
  BY <1>1, <1>2

-----------------------------------------------------------------------------
(* The theorems.                                                           *)

\* Through every interleaving of requests, of the supervisors' goroutines, of schedule edits,
\* stops and crashes, each supervisor's bookkeeping agrees with its processes, and the one
\* handler under way, if nothing overlaps, has brought the supervisors as far as its place in
\* the handler says (app.go, the ApplyConfig and ApplySecrets handlers).
THEOREM InductiveInvariant == Spec => []IInv
<1>1. IInv /\ [Next]_vars => IInv'
  BY StepPreserves
<1> QED
  BY InitialState, <1>1, PTL DEF Spec

LEMMA GwTypes == GwInv => GwTypeOK /\ GatewaysRunOnce
<1> SUFFICES ASSUME GwInv PROVE GwTypeOK /\ GatewaysRunOnce
  OBVIOUS
<1>1. GwTypeOK
  BY DEF GwInv, GwTypeOK, GwTable, GwShape, GwOpInv, RunType
<1>2. LiveGatewayIsRegistered
  BY DEF GwInv, GwShape, Registered, LiveGatewayIsRegistered, Alive
<1> QED
  BY <1>1, <1>2 DEF GwInv, GatewaysRunOnce

LEMMA CronTypes == CronInv => CronTypeOK /\ SchedulesFireOnce
<1> SUFFICES ASSUME CronInv PROVE CronTypeOK /\ SchedulesFireOnce
  OBVIOUS
<1>1. \A id \in Rows : rows[id] \in RowType
  BY DEF CronInv, RowsInv
<1>2. \A n \in DOMAIN jobs : jobs[n] \in JobType
  BY DEF CronInv, JobsInv, JobInv
<1>3. CronTypeOK
  BY <1>1, <1>2 DEF CronInv, CronTypeOK, RowsInv, JobsInv, HistoryTypes, RowType, JobType
<1> QED
  BY <1>3 DEF CronInv, SchedulesFireOnce

LEMMA Agreement == IInv => SupervisorsAgree
<1> SUFFICES ASSUME IInv, Active = {}, ~overlapped, ~mcpDone
             PROVE  /\ mcpSpecs = config.mcp /\ cronSpecs = config.cron /\ gwSpecs = config.ext
                    /\ ~uninjected => mcpEnv = Env(config.env, secrets) /\ gwEnv = Env(config.env, secrets)
  BY DEF SupervisorsAgree, PresentEnv
<1>1. PICK h \in Callers : Stage(handler[h])
  BY DEF IInv, StageInv
<1>2. handler[h].pc = "idle"
  BY DEF Active
<1> QED
  BY <1>1, <1>2 DEF Stage, ConfigPcs, SecretPcs, InjectPcs

LEMMA RuntimeTypes == IInv => RuntimeTypeOK
<1> SUFFICES ASSUME IInv PROVE RuntimeTypeOK
  OBVIOUS
<1>1. McpTypeOK /\ GwTypeOK /\ CronTypeOK
  BY GwTypes, CronTypes DEF IInv, McpInv
<1>2. \A h \in Callers : handler[h].pc \in ConfigPcs \cup SecretPcs \cup StopPcs
  BY DEF IInv, HandlerInv, Shape, Idle, StopPcs, SecretPcs
<1> QED
  BY <1>1, <1>2 DEF IInv, HandlerInv, AppTypes, RuntimeTypeOK, ConfigPcs, SecretPcs, InjectPcs, StopPcs

\* For every agent: a client that the supervisor put in its map under the lock is for a
\* configured server and has the environment injected last, a server with auto_restart that is
\* missing is watched, and once the requests have been served one after the other the three
\* supervisors have the loader's configuration, and the environment it gives the secrets in the
\* store unless a later configuration or an expiry changed that without an injection
\* (supervisor.go, Reconcile and watchAndRestart; app.go, the control handlers).
THEOREM Safe == Spec => []Inv
<1>1. IInv => Inv
  BY RuntimeTypes, Agreement DEF IInv, McpInv, Inv
<1> QED
  BY <1>1, InductiveInvariant, PTL

\* For every agent: no external gateway has two processes, and while no Reconcile or Stop has
\* the lock exactly the configured gateways are registered, each with its specification:
\* Reconcile and Stop forget a goroutine only after its done channel was closed (gateway.go).
THEOREM RunOnce == Spec => []GatewaysRunOnce
<1>1. IInv => GatewaysRunOnce
  BY GwTypes DEF IInv
<1> QED
  BY <1>1, InductiveInvariant, PTL

\* For every agent: a schedule is dispatched twice for one due time only if the mark of the
\* first dispatch was lost, and the next run of a row is a tick of its expression unless the
\* row was edited while a batch held it (cron.go, the polling loop and schedule.upsert).
THEOREM FireOnce == Spec => []SchedulesFireOnce
<1>1. IInv => SchedulesFireOnce
  BY CronTypes DEF IInv
<1> QED
  BY <1>1, InductiveInvariant, PTL

============================================================================
