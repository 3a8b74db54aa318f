--------------------------- MODULE McpSupervisor ---------------------------
(***************************************************************************)
(* The supervisor of an agent's MCP server processes                       *)
(* (internal/gitai/supervisor/supervisor.go).  Reconcile, ApplySecrets and *)
(* Stop run under the supervisor's lock; every start of a server with      *)
(* auto_restart adds a watcher goroutine, which checks the client map      *)
(* under the lock, starts a process outside it, and inserts the client     *)
(* under it again.  A server whose process has died stays in the map.      *)
(*                                                                         *)
(* Abstractions.  A server specification is its command and auto_restart;  *)
(* a server answers the initialize handshake or is gone, and exits when    *)
(* its input closes, so that a start and a Close return.                   *)
(***************************************************************************)
EXTENDS Naturals, FiniteSets, Sequences, SequencesExt, TLC, SecretEnv

CONSTANTS McpNames,     \* names of MCP servers
          MaxWatchers   \* bound on the watcher goroutines explored

ASSUME McpAssumption == MaxWatchers \in Nat /\ IsFiniteSet(McpNames)

VARIABLES mcpSpecs,     \* s.specs, by name
          mcpEnv,       \* s.secretEnv
          clients,      \* s.clients, by name; by tells who inserted the client
          watchers,     \* the watchAndRestart goroutines, oldest first
          mcpDone       \* s.ctx is cancelled

mcpVars == <<mcpSpecs, mcpEnv, clients, watchers, mcpDone>>

McpSpec == [cmd : Nat, auto : BOOLEAN]

McpTypeOK ==
    /\ DOMAIN mcpSpecs \subseteq McpNames
    /\ \A n \in DOMAIN mcpSpecs : mcpSpecs[n] \in McpSpec
    /\ mcpEnv \in Environments
    /\ DOMAIN clients \subseteq McpNames
    /\ \A n \in DOMAIN clients : clients[n] \in
          [cmd : Nat, env : Environments, alive : BOOLEAN, by : {"lock", "watcher"}]
    /\ watchers \in Seq([name : McpNames, cmd : Nat, env : Environments,
                         pc : {"wait", "start", "insert", "ended"}])
    /\ mcpDone \in BOOLEAN

McpInit ==
    /\ mcpSpecs = <<>>
    /\ mcpEnv = NoEnv
    /\ clients = <<>>
    /\ watchers = <<>>
    /\ mcpDone = FALSE

(* startLocked for the servers in names, of which those in up start: each  *)
(* one that is restarted automatically gets a watcher, started or not.     *)
NewWatchers(names, specs) ==
    LET auto == SetToSeq({n \in names : specs[n].auto})
    IN  [i \in 1..Len(auto) |->
            [name |-> auto[i], cmd |-> specs[auto[i]].cmd, env |-> NoEnv, pc |-> "wait"]]

startLocked(kept, names, up, specs, env) ==
    /\ up \subseteq names
    /\ mcpDone => up = {}
    /\ Len(watchers) + Len(NewWatchers(names, specs)) <= MaxWatchers
    /\ clients' = [n \in DOMAIN kept \cup up |->
          IF n \in DOMAIN kept THEN kept[n]
          ELSE [cmd |-> specs[n].cmd, env |-> env, alive |-> TRUE, by |-> "lock"]]
    /\ watchers' = watchers \o NewWatchers(names, specs)

(* Reconcile: stop what is no longer wanted, start what is wanted and has  *)
(* no client.  A server whose specification changed keeps its process.     *)
ReconcileKeeps(specs) == Restrict(clients, DOMAIN clients \cap DOMAIN specs)

\* Mutant: the new specifications are not kept for the watchers.
ReconcileForgetsSpecs(specs) ==
    /\ \E up \in SUBSET (DOMAIN specs \ DOMAIN clients) :
          startLocked(ReconcileKeeps(specs), DOMAIN specs \ DOMAIN clients, up, specs, mcpEnv)
    /\ UNCHANGED <<mcpSpecs, mcpEnv, mcpDone>>

McpReconcile(specs) ==
    /\ \E up \in SUBSET (DOMAIN specs \ DOMAIN clients) :
          startLocked(ReconcileKeeps(specs), DOMAIN specs \ DOMAIN clients, up, specs, mcpEnv)
    /\ mcpSpecs' = specs
    /\ UNCHANGED <<mcpEnv, mcpDone>>

(* ApplySecrets: with no client running only the environment changes;      *)
(* otherwise every client is closed and every specification started again. *)
McpApplySecrets(env) ==
    /\ mcpEnv' = env
    /\ IF DOMAIN clients = {}
       THEN UNCHANGED <<clients, watchers>>
       ELSE \E up \in SUBSET DOMAIN mcpSpecs :
               startLocked(<<>>, DOMAIN mcpSpecs, up, mcpSpecs, env)
    /\ UNCHANGED <<mcpSpecs, mcpDone>>

(* Stop cancels the context, which kills every process, before it takes    *)
(* the lock and empties the map.                                           *)
McpStopCancels ==
    /\ ~mcpDone
    /\ mcpDone' = TRUE
    /\ clients' = [n \in DOMAIN clients |-> [clients[n] EXCEPT !.alive = FALSE]]
    /\ UNCHANGED <<mcpSpecs, mcpEnv, watchers>>

McpStopCloses ==
    /\ mcpDone
    /\ clients' = <<>>
    /\ UNCHANGED <<mcpSpecs, mcpEnv, watchers, mcpDone>>

(* A server process ends by itself; nothing tells the supervisor.          *)
ProcessDies(n) ==
    /\ n \in DOMAIN clients
    /\ clients[n].alive
    /\ clients' = [clients EXCEPT ![n].alive = FALSE]
    /\ UNCHANGED <<mcpSpecs, mcpEnv, watchers, mcpDone>>

(* The four steps of watchAndRestart.  After restartDelay the watcher      *)
(* looks for its name in the map (a client that is there keeps it waiting, *)
(* which is not a step), builds the environment and starts a process       *)
(* without the lock, and inserts the client whatever the map holds by then.*)
WatcherFindsMissing(i) ==
    /\ watchers[i].pc = "wait"
    /\ watchers[i].name \notin DOMAIN clients
    /\ watchers' = [watchers EXCEPT ![i].pc = "start"]
    /\ UNCHANGED <<mcpSpecs, mcpEnv, clients, mcpDone>>

\* Mutant: a watcher whose start failed ends.
WatcherGivesUp(i) ==
    /\ watchers[i].pc = "start"
    /\ watchers' = [watchers EXCEPT ![i].pc = "ended"]
    /\ UNCHANGED <<mcpSpecs, mcpEnv, clients, mcpDone>>

WatcherStartFails(i) ==
    /\ watchers[i].pc = "start"
    /\ watchers' = [watchers EXCEPT ![i].pc = "wait"]
    /\ UNCHANGED <<mcpSpecs, mcpEnv, clients, mcpDone>>

WatcherStarts(i) ==
    /\ watchers[i].pc = "start"
    /\ ~mcpDone
    /\ watchers' = [watchers EXCEPT ![i].pc = "insert", ![i].env = mcpEnv]
    /\ UNCHANGED <<mcpSpecs, mcpEnv, clients, mcpDone>>

WatcherInserts(i) ==
    /\ watchers[i].pc = "insert"
    /\ clients' = [n \in DOMAIN clients \cup {watchers[i].name} |->
          IF n = watchers[i].name
          THEN [cmd |-> watchers[i].cmd, env |-> watchers[i].env,
                alive |-> ~mcpDone, by |-> "watcher"]
          ELSE clients[n]]
    /\ watchers' = [watchers EXCEPT ![i].pc = "wait", ![i].env = NoEnv]
    /\ UNCHANGED <<mcpSpecs, mcpEnv, mcpDone>>

WatcherEnds(i) ==
    /\ watchers[i].pc = "wait"
    /\ mcpDone
    /\ watchers' = [watchers EXCEPT ![i].pc = "ended"]
    /\ UNCHANGED <<mcpSpecs, mcpEnv, clients, mcpDone>>

watchAndRestart(i) ==
    \/ WatcherFindsMissing(i)
    \/ WatcherStartFails(i)
    \/ WatcherStarts(i)
    \/ WatcherInserts(i)
    \/ WatcherEnds(i)

----------------------------------------------------------------------------
(* Properties *)

(* A client that Reconcile or ApplySecrets put in the map is for a server  *)
(* the present configuration names, and runs with the environment injected *)
(* last: only a watcher's late insert, for a server removed or re-keyed    *)
(* since it looked, can leave a process the configuration does not name or *)
(* a stale credential (supervisor.go, watchAndRestart).  Its command may   *)
(* be an older configuration's: Reconcile starts only what has no client,  *)
(* although its comment says "new or changed" (supervisor.go:84).          *)
LockedClientsAreCurrent ==
    \A n \in DOMAIN clients :
        clients[n].by = "lock" => /\ n \in DOMAIN mcpSpecs
                                  /\ clients[n].env = mcpEnv

(* A configured server with auto_restart that has no client is watched:    *)
(* some watcher of its name is still running (startLocked adds one when    *)
(* the start fails as well as when it succeeds).                           *)
MissingIsWatched ==
    \A n \in DOMAIN mcpSpecs \ DOMAIN clients :
        mcpSpecs[n].auto /\ ~mcpDone =>
            \E i \in DOMAIN watchers : watchers[i].name = n /\ watchers[i].pc # "ended"

(* A configured server with auto_restart whose start failed is eventually  *)
(* in the map again, unless it is configured away or the agent stops.      *)
FailedStartIsRetried ==
    \A n \in McpNames :
        (n \in DOMAIN mcpSpecs \ DOMAIN clients /\ mcpSpecs[n].auto /\ ~mcpDone)
            ~> (n \in DOMAIN clients \/ n \notin DOMAIN mcpSpecs
                \/ ~mcpSpecs[n].auto \/ mcpDone)

(* The runtime schedules watchers; a start that is tried again and again   *)
(* does not fail for ever.                                                 *)
McpFairness ==
    \A i \in 1..MaxWatchers :
        /\ WF_mcpVars(i \in DOMAIN watchers /\ (WatcherFindsMissing(i) \/ WatcherInserts(i)))
        /\ SF_mcpVars(i \in DOMAIN watchers /\ WatcherStarts(i))
=============================================================================
