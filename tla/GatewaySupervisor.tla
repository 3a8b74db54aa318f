------------------------- MODULE GatewaySupervisor -------------------------
(***************************************************************************)
(* The supervisor of an agent's external gateway processes                 *)
(* (internal/gitai/supervisor/gateway.go).  Reconcile and Stop hold the    *)
(* supervisor's lock while they cancel gateway goroutines one by one and   *)
(* wait for each to end; a goroutine takes the same lock, for reading,     *)
(* each time it builds the environment of the process it starts.           *)
(*                                                                         *)
(* A goroutine occupies a slot.  Its pc: env (about to build the           *)
(* environment), spawn, running (its process is alive), term (SIGTERM was  *)
(* sent, the process is still alive), delay (restartDelay), done.          *)
(***************************************************************************)
EXTENDS Naturals, FiniteSets, Sequences, SequencesExt, TLC, SecretEnv

CONSTANTS GwNames,   \* names of external gateways
          Slots,     \* goroutines that may exist at one time
          Callers    \* the goroutines that call Reconcile and Stop

ASSUME SlotsAssumption ==
    Slots \subseteq Nat \ {0} /\ IsFiniteSet(Slots) /\ IsFiniteSet(GwNames)

VARIABLES gwSpecs,   \* s.specs, the gateways with a command, by name
          gwEnv,     \* s.secretEnv
          processes, \* s.processes: the slot of each registered gateway
          goroutine, \* the runGateway goroutine of each slot
          gwOp,      \* the operation that holds s.mu, with its progress
          gwDone     \* s.ctx is cancelled

gwVars == <<gwSpecs, gwEnv, processes, goroutine, gwOp, gwDone>>

GwSpec == [command : Nat, config : Nat, auto : BOOLEAN]
GwIdle == [kind |-> "idle"]
Alive == {"running", "term"}
FreeSlots == {s \in Slots : goroutine[s].pc = "free"}

GwTypeOK ==
    /\ gwEnv \in Environments
    /\ gwDone \in BOOLEAN
    /\ DOMAIN gwSpecs \subseteq GwNames /\ \A n \in DOMAIN gwSpecs : gwSpecs[n] \in GwSpec
    /\ DOMAIN processes \subseteq GwNames /\ \A n \in DOMAIN processes : processes[n] \in Slots
    /\ \A s \in Slots :
          \/ goroutine[s] = [pc |-> "free"]
          \/ goroutine[s] \in
                [name : GwNames, spec : GwSpec, cancelled : BOOLEAN, env : Environments,
                 pc : {"env", "spawn", "running", "term", "delay", "done"}]
    /\ \/ gwOp = GwIdle
       \/ /\ gwOp.kind \in {"reconcile", "stop"} /\ gwOp.by \in Callers
          /\ gwOp.todo \subseteq GwNames /\ gwOp.waiting \subseteq GwNames

GwInit ==
    /\ gwSpecs = <<>>
    /\ gwEnv = NoEnv
    /\ processes = <<>>
    /\ goroutine = [s \in Slots |-> [pc |-> "free"]]
    /\ gwOp = GwIdle
    /\ gwDone = FALSE

(* externalGatewayChanged: config stands for the arguments, environment    *)
(* and config entries.                                                     *)
externalGatewayChanged(old, new) ==
    \/ old.command # new.command
    \/ old.config # new.config
    \/ old.auto # new.auto

(* The lock is free for a writer and, as writers hold it across the waits  *)
(* below, for the goroutines' read as well.                                *)
GwUnlocked == gwOp = GwIdle

GwApplySecrets(env) ==
    /\ GwUnlocked
    /\ gwEnv' = env
    /\ UNCHANGED <<gwSpecs, processes, goroutine, gwOp, gwDone>>

(* startLocked for every wanted gateway that is not registered.            *)
GwStartMissing(specs, registered) ==
    LET missing == DOMAIN specs \ DOMAIN registered
        slot    == CHOOSE f \in [missing -> FreeSlots] :
                      \A m, n \in missing : f[m] = f[n] => m = n
    IN  /\ Cardinality(missing) <= Cardinality(FreeSlots)
        /\ processes' = [n \in DOMAIN registered \cup missing |->
              IF n \in missing THEN slot[n] ELSE registered[n]]
        /\ goroutine' = [s \in Slots |->
              IF \E n \in missing : slot[n] = s
              THEN LET n == CHOOSE n \in missing : slot[n] = s
                   IN  [name |-> n, spec |-> specs[n], cancelled |-> gwDone,
                        env |-> NoEnv, pc |-> "env"]
              ELSE goroutine[s]]

GwTodo(specs) ==
    {n \in DOMAIN processes :
        \/ n \notin DOMAIN specs
        \/ externalGatewayChanged(goroutine[processes[n]].spec, specs[n])}

(* The first part of Reconcile and of Stop under the lock.  What has to be *)
(* stopped is stopped one at a time; with nothing to stop the call returns *)
(* at once.                                                                *)
GwReconcile(by, specs) ==
    /\ GwUnlocked
    /\ IF GwTodo(specs) = {}
       THEN /\ GwStartMissing(specs, processes)
            /\ gwSpecs' = specs
            /\ UNCHANGED gwOp
       ELSE /\ gwOp' = [kind |-> "reconcile", by |-> by, specs |-> specs,
                        waiting |-> {}, todo |-> GwTodo(specs)]
            /\ UNCHANGED <<gwSpecs, processes, goroutine>>
    /\ UNCHANGED <<gwEnv, gwDone>>

(* Stop cancels the supervisor's context, and with it every goroutine's,   *)
(* before it takes the lock.                                               *)
GwStopCancels ==
    /\ ~gwDone
    /\ gwDone' = TRUE
    /\ goroutine' = [s \in Slots |->
          IF s \in FreeSlots THEN goroutine[s] ELSE [goroutine[s] EXCEPT !.cancelled = TRUE]]
    /\ UNCHANGED <<gwSpecs, gwEnv, processes, gwOp>>

GwStop(by) ==
    /\ gwDone
    /\ GwUnlocked
    /\ gwOp' = IF DOMAIN processes = {} THEN GwIdle
               ELSE [kind |-> "stop", by |-> by, specs |-> gwSpecs,
                     waiting |-> {}, todo |-> DOMAIN processes]
    /\ UNCHANGED <<gwSpecs, gwEnv, processes, goroutine, gwDone>>

(* proc.cancel()                                                           *)
GwCancelsOne(n) ==
    /\ gwOp.kind # "idle"
    /\ gwOp.waiting = {}
    /\ n \in gwOp.todo
    /\ gwOp' = [gwOp EXCEPT !.waiting = {n}]
    /\ goroutine' = [goroutine EXCEPT ![processes[n]].cancelled = TRUE]
    /\ UNCHANGED <<gwSpecs, gwEnv, processes, gwDone>>

\* Mutant: a goroutine is forgotten before it has ended.
DoneNotAwaited(n) == TRUE

(* <-proc.done, and the entry is deleted.                                  *)
DoneIsClosed(n) == goroutine[processes[n]].pc = "done"

GwOneEnded(n) ==
    /\ gwOp.kind # "idle"
    /\ n \in gwOp.waiting
    /\ DoneIsClosed(n)
    /\ gwOp' = [gwOp EXCEPT !.waiting = {}, !.todo = @ \ {n}]
    /\ processes' = Restrict(processes, DOMAIN processes \ {n})
    /\ goroutine' = [goroutine EXCEPT ![processes[n]] =
          IF @.pc = "done" THEN [pc |-> "free"] ELSE @]
    /\ UNCHANGED <<gwSpecs, gwEnv, gwDone>>

(* Nothing is left to stop: the wanted gateways that are not registered    *)
(* are started, or the map is emptied, and the lock is released.           *)
GwReturns ==
    /\ gwOp.kind # "idle"
    /\ gwOp.todo = {}
    /\ IF gwOp.kind = "reconcile"
       THEN GwStartMissing(gwOp.specs, processes)
       ELSE processes' = <<>> /\ UNCHANGED goroutine
    /\ gwSpecs' = gwOp.specs
    /\ gwOp' = GwIdle
    /\ UNCHANGED <<gwEnv, gwDone>>

----------------------------------------------------------------------------
(* runGateway *)

GwGoes(s, to) ==
    /\ goroutine' = [goroutine EXCEPT ![s].pc = to]
    /\ UNCHANGED <<gwSpecs, gwEnv, processes, gwOp, gwDone>>

(* buildEnv reads the secrets under the lock.                              *)
BuildEnv(s) ==
    /\ goroutine[s].pc = "env"
    /\ GwUnlocked
    /\ goroutine' = [goroutine EXCEPT ![s].pc = "spawn", ![s].env = gwEnv]
    /\ UNCHANGED <<gwSpecs, gwEnv, processes, gwOp, gwDone>>

(* cmd.Start: the context is not consulted, so a cancelled goroutine still *)
(* starts its process and only then ends it.                               *)
GwSpawns(s) == goroutine[s].pc = "spawn" /\ GwGoes(s, "running")

AfterExit(s) == IF goroutine[s].spec.auto THEN "delay" ELSE "done"
GwSpawnFails(s) == goroutine[s].pc = "spawn" /\ GwGoes(s, AfterExit(s))
GwExits(s) == goroutine[s].pc = "running" /\ GwGoes(s, AfterExit(s))

(* Cancellation: SIGTERM, and after gracefulShutdownTimeout SIGKILL.       *)
GwTerminates(s) ==
    /\ goroutine[s].pc = "running"
    /\ goroutine[s].cancelled
    /\ GwGoes(s, "term")

GwTerminated(s) == goroutine[s].pc = "term" /\ GwGoes(s, "done")

(* restartDelay: with both the timer and the context ready, either wins.   *)
GwDelayEnds(s) == goroutine[s].pc = "delay" /\ GwGoes(s, "env")
GwDelayCancelled(s) == goroutine[s].pc = "delay" /\ goroutine[s].cancelled /\ GwGoes(s, "done")

runGateway(s) ==
    \/ BuildEnv(s)
    \/ GwSpawns(s) \/ GwSpawnFails(s)
    \/ GwExits(s)
    \/ GwTerminates(s) \/ GwTerminated(s)
    \/ GwDelayEnds(s) \/ GwDelayCancelled(s)

GwOpSteps ==
    \/ \E n \in GwNames : GwCancelsOne(n) \/ GwOneEnded(n)
    \/ GwReturns

----------------------------------------------------------------------------
(* Properties *)

(* Every live gateway process belongs to the goroutine registered under    *)
(* its name: no gateway runs twice, and after Stop none runs (Reconcile    *)
(* and Stop wait for <-proc.done before they forget a goroutine).          *)
LiveGatewayIsRegistered ==
    \A s \in Slots : goroutine[s].pc \in Alive =>
        /\ goroutine[s].name \in DOMAIN processes
        /\ processes[goroutine[s].name] = s

(* While no operation is under way, exactly the configured gateways are    *)
(* registered, each with the specification it is configured with, unless   *)
(* the supervisor was stopped.                                             *)
GatewaysMatchConfiguration ==
    GwUnlocked /\ ~gwDone =>
        /\ DOMAIN processes = DOMAIN gwSpecs
        /\ \A n \in DOMAIN processes : goroutine[processes[n]].spec = gwSpecs[n]

(* The comment in Reconcile (gateway.go:114-117): the mutex is held while  *)
(* it waits, "the goroutine itself must never attempt to acquire it (it    *)
(* doesn't)".                                                              *)
DeadlockedOn(n) == n \in gwOp.waiting /\ goroutine[processes[n]].pc = "env"
GoroutineNeverNeedsLock ==
    gwOp.kind # "idle" => \A n \in gwOp.waiting : ~DeadlockedOn(n)

(* A Reconcile or Stop that has the lock returns, unless the goroutine it  *)
(* waits for is itself waiting for the lock in buildEnv.                   *)
OperationReturns ==
    gwOp.kind # "idle" ~>
        (gwOp.kind = "idle" \/ (\E n \in gwOp.waiting : DeadlockedOn(n)))

(* The goroutines and the operation in progress are scheduled, and a       *)
(* process told to terminate ends, by SIGKILL at the latest.               *)
GwProceeds(s) ==
    \/ BuildEnv(s) \/ GwSpawns(s) \/ GwSpawnFails(s)
    \/ GwTerminates(s) \/ GwTerminated(s)
    \/ GwDelayEnds(s) \/ GwDelayCancelled(s)
GwFairness ==
    /\ WF_gwVars(GwOpSteps)
    /\ \A s \in Slots : WF_gwVars(GwProceeds(s))
=============================================================================
