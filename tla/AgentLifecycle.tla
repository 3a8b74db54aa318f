--------------------------- MODULE AgentLifecycle ---------------------------
(***************************************************************************)
(* The life of one agent name in the Ruriko control plane: its row in the  *)
(* agents table, its Docker container, and the four parties that act on    *)
(* them without a common lock:                                             *)
(*                                                                         *)
(*  - the command loop, which runs one /ruriko agents command at a time    *)
(*    (create, start, stop, respawn, delete, disable, matrix register);    *)
(*  - a provisioning goroutine per created agent, which outlives the       *)
(*    command and may outlive the agent;                                   *)
(*  - the reconciler, which copies container states into the table;        *)
(*  - Docker, whose containers exit, restart and disappear on their own.   *)
(*                                                                         *)
(* Every SQL statement and every Docker or ACP call is a step.  A runtime, *)
(* a Matrix provisioner and a template registry are configured.  Rows of   *)
(* different names share nothing, so one name, created and deleted several *)
(* times, is modelled; Docker allows one container per name.               *)
(***************************************************************************)
EXTENDS Naturals

CONSTANTS MaxCreates,   \* bound: rows inserted for this name
          MaxSpawns,    \* bound: containers created for this name
          MaxCommands,  \* bound: commands accepted
          MaxFaults     \* bound: crashes of Ruriko and incidents in Docker

ASSUME LifecycleAssumption ==
    {MaxCreates, MaxSpawns, MaxCommands, MaxFaults} \subseteq Nat

Generations == 1..MaxCreates
Containers == 0..MaxSpawns          \* 0 is a NULL container_id

VARIABLES row,       \* the agents row of this name
          secret,    \* whether the secret agent.<name>.matrix_token is stored
          docker,    \* the container with this name
          cmd,       \* the command being handled
          pipeline,  \* pipeline[g]: runProvisioningPipeline of the g-th row
          rec,       \* the reconciler's pass
          creates,   \* rows inserted so far
          commands,  \* commands accepted so far
          faults,    \* crashes and Docker incidents so far
          history    \* what has gone wrong so far, for the properties

vars == <<row, secret, docker, cmd, pipeline, rec, creates, commands, faults, history>>

Status == {"creating", "running", "stopped", "error", "disabled"}
ProvisioningState == {"pending", "creating", "configuring", "healthy", "error"}

NoRow == [exists |-> FALSE, gen |-> 0, status |-> "stopped", prov |-> "pending",
          container |-> 0, mxid |-> FALSE]

\* held: the container was stopped through the API, so the restart policy unless-stopped
\* leaves it alone.
NoContainer(id) == [id |-> id, state |-> "absent", held |-> FALSE]

IdleCmd == [op |-> "none", pc |-> "idle"]
IdleRec == [pc |-> "idle", known |-> FALSE, status |-> "stopped", container |-> 0]

TypeOK ==
    /\ row \in [exists : BOOLEAN, gen : 0..MaxCreates, status : Status,
                prov : ProvisioningState, container : Containers, mxid : BOOLEAN]
    /\ secret \in BOOLEAN
    /\ docker \in [id : Containers, state : {"absent", "created", "running", "exited"},
                   held : BOOLEAN]
    /\ cmd \in [op : {"none", "create", "start", "respawn", "stop", "delete", "disable"},
                pc : {"idle", "register", "docker", "recover", "spawn", "started", "handle",
                      "status", "row", "secrets", "fail"}]
    /\ pipeline \in [Generations ->
           [pc : {"none", "start", "container", "configuring", "health", "config", "healthy",
                  "running", "failed", "mark", "done"}, container : Containers]]
    /\ rec \in [pc : {"idle", "list", "missing", "inspect", "write"}, known : BOOLEAN,
                status : Status, container : Containers]
    /\ creates \in 0..MaxCreates
    /\ commands \in Nat
    /\ faults \in Nat
    /\ history \in [lost : BOOLEAN, crashed : BOOLEAN, raced : BOOLEAN, overlap : BOOLEAN]

Init ==
    /\ row = NoRow
    /\ secret = FALSE
    /\ docker = NoContainer(0)
    /\ cmd = IdleCmd
    /\ pipeline = [g \in Generations |-> [pc |-> "none", container |-> 0]]
    /\ rec = IdleRec
    /\ creates = 0
    /\ commands = 0
    /\ faults = 0
    /\ history = [lost |-> FALSE, crashed |-> FALSE, raced |-> FALSE,
                  overlap |-> FALSE]

-----------------------------------------------------------------------------
(* Statements and calls.                                                   *)

\* UPDATE agents ... WHERE id = ?: whatever row bears the name now.
UpdateAgentStatus(s) == row' = IF row.exists THEN [row EXCEPT !.status = s] ELSE row
UpdateProvisioningState(s) == row' = IF row.exists THEN [row EXCEPT !.prov = s] ELSE row

\* What ContainerInspect reports of container id; a missing one is "unknown".
Inspect(id) == IF docker.id = id /\ docker.state # "absent" THEN docker.state ELSE "unknown"

Present(id) == Inspect(id) # "unknown"

containerStateToAgentStatus(s) ==
    CASE s = "running"               -> "running"
      [] s \in {"exited", "created"} -> "stopped"
      [] OTHER                       -> "error"

Live(g) == pipeline[g].pc \notin {"none", "done"}

Goto(pc) == cmd' = [cmd EXCEPT !.pc = pc]
Return == cmd' = IdleCmd

Accept(op, pc) ==
    /\ cmd.pc = "idle"
    /\ commands < MaxCommands
    /\ commands' = commands + 1
    /\ cmd' = [op |-> op, pc |-> pc]

-----------------------------------------------------------------------------
(* The commands.                                                           *)

\* HandleAgentsCreate: a taken name is refused; otherwise the row is inserted.
Create ==
    /\ ~row.exists
    /\ creates < MaxCreates
    /\ Accept("create", "register")
    /\ creates' = creates + 1
    /\ row' = [NoRow EXCEPT !.exists = TRUE, !.gen = creates', !.status = "creating"]
    /\ history' = [history EXCEPT !.overlap = \E g \in Generations : Live(g)]
    /\ UNCHANGED <<secret, docker, pipeline, rec, faults>>

\* A step of create failed: the status first, then the provisioning state.
MarkError == UpdateAgentStatus("error") /\ Goto("fail")

FailCreate ==
    /\ cmd.pc = "fail"
    /\ UpdateProvisioningState("error")
    /\ Return
    /\ UNCHANGED <<secret, docker, pipeline, rec, creates, commands, faults, history>>

\* The Matrix account: Register fails, or the MXID is recorded (a failing UPDATE is logged).
Register ==
    /\ cmd.pc = "register"
    /\ \/ MarkError
       \/ \E recorded \in BOOLEAN : row' = [row EXCEPT !.mxid = recorded] /\ Goto("spawn")
    /\ UNCHANGED <<secret, docker, pipeline, rec, creates, commands, faults, history>>

\* A failed Spawn: create marks the agent, recovery only reports.
SpawnFailed == IF cmd.op = "create" THEN MarkError ELSE Return /\ UNCHANGED row

\* Adapter.Spawn, ContainerCreate: refused while a container has the name.
Spawn ==
    /\ cmd.pc = "spawn"
    /\ \/ SpawnFailed /\ UNCHANGED docker
       \/ /\ docker.state = "absent"
          /\ docker.id < MaxSpawns
          /\ docker' = [id |-> docker.id + 1, state |-> "created", held |-> FALSE]
          /\ Goto("started")
          /\ UNCHANGED row
    /\ UNCHANGED <<secret, pipeline, rec, creates, commands, faults, history>>

\* Adapter.Spawn, ContainerStart and ContainerInspect: a container that does not start is
\* removed on a best-effort basis; one that cannot be inspected keeps running.
SpawnStart ==
    /\ cmd.pc = "started"
    /\ \/ docker' = [docker EXCEPT !.state = "running"] /\ Goto("handle") /\ UNCHANGED <<row, history>>
       \/ SpawnFailed /\ docker' = [docker EXCEPT !.state = "absent"] /\ UNCHANGED history
       \/ /\ SpawnFailed
          /\ \E s \in {"created", "running"} : docker' = [docker EXCEPT !.state = s]
          /\ history' = [history EXCEPT !.lost = TRUE]
    /\ UNCHANGED <<secret, pipeline, rec, creates, commands, faults>>

\* UpdateAgentHandle; create then launches the pipeline, recovery sets the status.
SaveHandle ==
    /\ cmd.pc = "handle"
    /\ \/ /\ row' = [row EXCEPT !.container = docker.id]
          /\ IF cmd.op = "create"
             THEN /\ Return
                  /\ pipeline' = [pipeline EXCEPT ![row.gen] =
                                      [pc |-> "start", container |-> docker.id]]
             ELSE Goto("status") /\ UNCHANGED pipeline
          /\ UNCHANGED history
       \/ /\ Return
          /\ history' = [history EXCEPT !.lost = TRUE]
          /\ UNCHANGED <<row, pipeline>>
    /\ UNCHANGED <<secret, docker, rec, creates, commands, faults>>

\* HandleAgentsStart refuses a running agent; HandleAgentsRespawn does not look.  Without a
\* container_id both go to recoverAgentContainer.
Start(op) ==
    /\ row.exists
    /\ op = "start" => row.status # "running"
    /\ Accept(op, IF row.container = 0 THEN "recover" ELSE "docker")
    /\ UNCHANGED <<row, secret, docker, pipeline, rec, creates, faults, history>>

\* Runtime.Start or Restart.  isContainerMissingErr looks for "not found" in the error text,
\* which a missing network gives too; any other error is reported.
StartContainer ==
    /\ cmd.op \in {"start", "respawn"}
    /\ cmd.pc = "docker"
    /\ \/ /\ Present(row.container)
          /\ docker' = [docker EXCEPT !.state = "running", !.held = FALSE]
          /\ Goto("status")
       \/ Goto("recover") /\ UNCHANGED docker
       \/ Return /\ UNCHANGED docker
    /\ UNCHANGED <<row, secret, pipeline, rec, creates, commands, faults, history>>

\* recoverAgentContainer wants a Matrix identity and its stored token.
Recover ==
    /\ cmd.pc = "recover"
    /\ IF row.mxid /\ secret THEN Goto("spawn") ELSE Return
    /\ UNCHANGED <<row, secret, docker, pipeline, rec, creates, commands, faults, history>>

\* HandleAgentsStop: nothing to do for a stopped agent, no Docker call without a handle.
Stop ==
    /\ row.exists
    /\ row.status # "stopped"
    /\ Accept("stop", IF row.container = 0 THEN "status" ELSE "docker")
    /\ UNCHANGED <<row, secret, docker, pipeline, rec, creates, faults, history>>

\* Mutant: stop goes on when Docker refuses.
StopContainerIgnoresErrors ==
    /\ cmd.op \in {"stop", "disable"}
    /\ cmd.pc = "docker"
    /\ \/ docker' = [docker EXCEPT !.state = IF @ = "running" THEN "exited" ELSE @, !.held = TRUE]
       \/ UNCHANGED docker
    /\ Goto(IF cmd.op = "stop" THEN "status" ELSE "row")
    /\ UNCHANGED <<row, secret, pipeline, rec, creates, commands, faults, history>>

\* Runtime.Stop for stop and disable: stop gives up on an error, disable goes on.
StopContainer ==
    /\ cmd.op \in {"stop", "disable"}
    /\ cmd.pc = "docker"
    /\ \/ /\ Present(row.container)
          /\ docker' = [docker EXCEPT !.state = IF @ = "running" THEN "exited" ELSE @, !.held = TRUE]
          /\ Goto(IF cmd.op = "stop" THEN "status" ELSE "row")
       \/ /\ UNCHANGED docker
          /\ IF cmd.op = "stop" THEN Return ELSE Goto("row")
    /\ UNCHANGED <<row, secret, pipeline, rec, creates, commands, faults, history>>

\* The last UPDATE of start, respawn and stop.
SetStatus ==
    /\ cmd.pc = "status"
    /\ UpdateAgentStatus(IF cmd.op = "stop" THEN "stopped" ELSE "running")
    /\ Return
    /\ UNCHANGED <<secret, docker, pipeline, rec, creates, commands, faults, history>>

\* HandleAgentsDelete, once approved.
Delete ==
    /\ row.exists
    /\ Accept("delete", IF row.container = 0 THEN "row" ELSE "docker")
    /\ UNCHANGED <<row, secret, docker, pipeline, rec, creates, faults, history>>

\* Adapter.Remove stops, then removes: a container that is already gone is no error, one
\* that cannot be removed is left as it is, or stopped.
RemoveContainer ==
    /\ cmd.op = "delete"
    /\ cmd.pc = "docker"
    /\ \/ /\ docker' = IF Present(row.container) THEN NoContainer(docker.id) ELSE docker
          /\ Goto("row")
       \/ Return /\ UNCHANGED docker
       \/ Return /\ Inspect(row.container) = "running"
                 /\ docker' = [docker EXCEPT !.state = "exited", !.held = TRUE]
    /\ UNCHANGED <<row, secret, pipeline, rec, creates, commands, faults, history>>

DeleteRow ==
    /\ cmd.op = "delete"
    /\ cmd.pc = "row"
    /\ row' = NoRow
    /\ Return
    /\ UNCHANGED <<secret, docker, pipeline, rec, creates, commands, faults, history>>

\* HandleAgentsDisable, once approved: stop, deactivate the account, mark, drop the token.
Disable ==
    /\ row.exists
    /\ row.status # "disabled"
    /\ Accept("disable", IF row.container = 0 THEN "row" ELSE "docker")
    /\ UNCHANGED <<row, secret, docker, pipeline, rec, creates, faults, history>>

UpdateAgentDisabled ==
    /\ cmd.op = "disable"
    /\ cmd.pc = "row"
    /\ UpdateAgentStatus("disabled")
    /\ Goto("secrets")
    /\ UNCHANGED <<secret, docker, pipeline, rec, creates, commands, faults, history>>

\* A token that cannot be deleted is only mentioned.
DropMatrixToken ==
    /\ cmd.pc = "secrets"
    /\ secret' \in {secret, FALSE}
    /\ Return
    /\ UNCHANGED <<row, docker, pipeline, rec, creates, commands, faults, history>>

\* HandleAgentsMatrixRegister: with --mxid only the identity is recorded; without it an
\* agent that has one is refused, and otherwise identity and token are stored, either of
\* which may fail.  Storing the token through a Kuze link changes the secret alone.
MatrixRegister ==
    /\ cmd.pc = "idle"
    /\ commands < MaxCommands
    /\ commands' = commands + 1
    /\ \/ row.exists /\ row' = [row EXCEPT !.mxid = TRUE] /\ UNCHANGED secret
       \/ /\ row.exists /\ ~row.mxid
          /\ row' \in {row, [row EXCEPT !.mxid = TRUE]}
          /\ secret' \in {secret, TRUE}
       \/ secret' = TRUE /\ UNCHANGED row
    /\ UNCHANGED <<docker, cmd, pipeline, rec, creates, faults, history>>

CommandStep ==
    \/ Register \/ FailCreate \/ Spawn \/ SpawnStart \/ SaveHandle \/ StartContainer \/ Recover
    \/ StopContainer \/ SetStatus \/ RemoveContainer \/ DeleteRow
    \/ UpdateAgentDisabled \/ DropMatrixToken

-----------------------------------------------------------------------------
(* runProvisioningPipeline of the g-th row.                                *)

Phase(g, from, to) ==
    /\ pipeline[g].pc = from
    /\ pipeline' = [pipeline EXCEPT ![g].pc = to]
    /\ UNCHANGED <<secret, docker, cmd, rec, creates, commands, faults, history>>

\* Mutant: the first two phases are swapped.
SetStateSwapped(g) ==
    \/ Phase(g, "start", "container") /\ UpdateProvisioningState("configuring")
    \/ Phase(g, "configuring", "health") /\ UpdateProvisioningState("creating")
    \/ Phase(g, "healthy", "running") /\ UpdateProvisioningState("healthy")

\* setState: three writes of provisioning_state.
SetState(g) ==
    \/ Phase(g, "start", "container") /\ UpdateProvisioningState("creating")
    \/ Phase(g, "configuring", "health") /\ UpdateProvisioningState("configuring")
    \/ Phase(g, "healthy", "running") /\ UpdateProvisioningState("healthy")

\* pollContainerRunning: polling goes on while the container is created or unknown, until
\* the deadline.
PollContainer(g) ==
    \/ Inspect(pipeline[g].container) = "running" /\ Phase(g, "container", "configuring") /\ UNCHANGED row
    \/ Phase(g, "container", "failed") /\ UNCHANGED row

\* pollACPHealth: only this container has the token the pipeline sends.
PollHealth(g) ==
    \/ Inspect(pipeline[g].container) = "running" /\ Phase(g, "health", "config") /\ UNCHANGED row
    \/ Phase(g, "health", "failed") /\ UNCHANGED row

\* Render, store, push and verify the Gosuto config, then push the secrets; a failing
\* secrets push does not fail the pipeline.
Configure(g) ==
    \/ Inspect(pipeline[g].container) = "running" /\ Phase(g, "config", "healthy") /\ UNCHANGED row
    \/ Phase(g, "config", "failed") /\ UNCHANGED row

\* failStep: provisioning_state, then status.
FailStep(g) ==
    \/ Phase(g, "failed", "mark") /\ UpdateProvisioningState("error")
    \/ Phase(g, "mark", "done") /\ UpdateAgentStatus("error")

MarkRunning(g) == Phase(g, "running", "done") /\ UpdateAgentStatus("running")

PipelineStep(g) ==
    SetState(g) \/ PollContainer(g) \/ PollHealth(g) \/ Configure(g) \/ FailStep(g) \/ MarkRunning(g)

-----------------------------------------------------------------------------
(* Reconciler.Reconcile.                                                   *)

ListAgents ==
    /\ rec.pc = "idle"
    /\ rec' = [pc |-> "list", known |-> row.exists, status |-> row.status, container |-> 0]
    /\ UNCHANGED <<row, secret, docker, cmd, pipeline, creates, commands, faults, history>>

\* Mutant: an agent without a container is passed over.
ListContainersForgetsMissing ==
    /\ rec.pc = "list"
    /\ rec' = IF rec.known /\ rec.status # "stopped" /\ docker.state # "absent"
              THEN [rec EXCEPT !.pc = "inspect", !.container = docker.id] ELSE IdleRec
    /\ UNCHANGED <<row, secret, docker, cmd, pipeline, creates, commands, faults, history>>

\* Runtime.List.  Stopped agents are skipped; an unknown container is only reported.
ListContainers ==
    LET found == docker.state # "absent"
    IN  /\ rec.pc = "list"
        /\ rec' = IF ~rec.known \/ rec.status = "stopped" THEN IdleRec
                  ELSE IF found THEN [rec EXCEPT !.pc = "inspect", !.container = docker.id]
                  ELSE IF rec.status = "running" THEN [rec EXCEPT !.pc = "missing"]
                  ELSE IdleRec
        /\ UNCHANGED <<row, secret, docker, cmd, pipeline, creates, commands, faults, history>>

ContainerMissing ==
    /\ rec.pc = "missing"
    /\ UpdateAgentStatus("error")
    /\ rec' = IdleRec
    /\ UNCHANGED <<secret, docker, cmd, pipeline, creates, commands, faults, history>>

\* Runtime.Status; a failing call ends the pass, an unchanged status needs no write.
InspectContainer ==
    LET new == containerStateToAgentStatus(Inspect(rec.container))
    IN  /\ rec.pc = "inspect"
        /\ \/ rec' = IdleRec
           \/ new # rec.status /\ rec' = [rec EXCEPT !.pc = "write", !.status = new]
        /\ UNCHANGED <<row, secret, docker, cmd, pipeline, creates, commands, faults, history>>

\* The container may have changed since it was inspected.
WriteStatus ==
    /\ rec.pc = "write"
    /\ UpdateAgentStatus(rec.status)
    /\ history' = [history EXCEPT
                       !.raced = @ \/ containerStateToAgentStatus(Inspect(rec.container)) # rec.status]
    /\ rec' = IdleRec
    /\ UNCHANGED <<secret, docker, cmd, pipeline, creates, commands, faults>>

ReconcilerStep ==
    ListAgents \/ ListContainers \/ ContainerMissing \/ InspectContainer \/ WriteStatus

-----------------------------------------------------------------------------
(* Docker and the host.                                                    *)

Fault ==
    /\ faults < MaxFaults
    /\ faults' = faults + 1

\* A container exits, or is removed behind Ruriko's back.
ContainerDies ==
    /\ Fault
    /\ docker.state = "running"
    /\ docker' \in {[docker EXCEPT !.state = "exited"], NoContainer(docker.id)}
    /\ UNCHANGED <<row, secret, cmd, pipeline, rec, creates, commands, history>>

\* The restart policy starts a container that was not stopped through the API.
ContainerRestarts ==
    /\ docker.state = "exited"
    /\ ~docker.held
    /\ docker' = [docker EXCEPT !.state = "running"]
    /\ history' = [history EXCEPT !.raced = TRUE]
    /\ UNCHANGED <<row, secret, cmd, pipeline, rec, creates, commands, faults>>

\* Ruriko dies: its goroutines are gone, the table and the containers stay.
Crash ==
    /\ Fault
    /\ cmd' = IdleCmd
    /\ rec' = IdleRec
    /\ pipeline' = [g \in Generations |->
           IF pipeline[g].pc = "none" THEN pipeline[g] ELSE [pipeline[g] EXCEPT !.pc = "done"]]
    /\ history' = [history EXCEPT !.crashed = TRUE, !.lost = @ \/ cmd.pc \in {"started", "handle"}]
    /\ UNCHANGED <<row, secret, docker, creates, commands>>

Next ==
    \/ Create \/ Stop \/ Delete \/ Disable \/ MatrixRegister
    \/ \E op \in {"start", "respawn"} : Start(op)
    \/ CommandStep
    \/ \E g \in Generations : PipelineStep(g)
    \/ ReconcilerStep
    \/ ContainerDies \/ ContainerRestarts \/ Crash

Spec == Init /\ [][Next]_vars

\* The reconciler's ticker keeps firing, and Docker's inspect does not fail for ever;
\* every poll of a pipeline has a deadline.
FairSpec ==
    /\ Spec
    /\ WF_vars(ListAgents \/ ListContainers \/ ContainerMissing \/ WriteStatus)
    /\ SF_vars(InspectContainer /\ rec'.pc = "write")
    /\ WF_vars(InspectContainer)
    /\ \A g \in Generations : WF_vars(PipelineStep(g))

-----------------------------------------------------------------------------
(* Properties.                                                             *)

\* A container under the agent's name is the one its row points to, across every sequence
\* of create, recover and delete: it escapes only when a spawn that half succeeded loses
\* the handle (no adoption, no cleanup) or the process dies there.
ContainersAreTracked ==
    docker.state # "absent" /\ cmd.pc = "idle" /\ ~history.lost
    => row.exists /\ row.container = docker.id

\* An agent whose provisioning is neither healthy nor failed has a pipeline at work on it
\* (its own, or one of an earlier agent of that name); only a crash, or a handle that could
\* not be saved, leaves it half way.
UnfinishedOnlyByCrash ==
    /\ row.exists /\ cmd.pc = "idle"
    /\ row.prov \in {"pending", "creating", "configuring"}
    => (\E g \in Generations : Live(g)) \/ history.crashed \/ history.lost

\* The reconciler never looks at a stopped agent again.  Such an agent's container runs
\* only after a race: a status written from an outdated inspection, a restart by Docker,
\* or a crash between the Docker call and the UPDATE.
SkippedRunsOnlyByRace ==
    /\ row.exists /\ row.status = "stopped" /\ cmd.pc = "idle" /\ ~Live(row.gen)
    /\ docker.state = "running" /\ row.container = docker.id
    => history.raced \/ history.crashed

ProvisioningOrder ==
    {<<"pending", "creating">>, <<"creating", "configuring">>, <<"configuring", "healthy">>,
     <<"pending", "error">>, <<"creating", "error">>, <<"configuring", "error">>}

\* provisioning_state goes pending, creating, configuring, healthy or error, unless the
\* pipeline of a deleted agent was still running when its name was taken again.
ProvisioningInOrder ==
    [][/\ row.exists /\ row'.gen = row.gen /\ row'.prov # row.prov /\ ~history.overlap
       => <<row.prov, row'.prov>> \in ProvisioningOrder]_vars

\* A container that is down does not stay recorded as running.
DeadContainerIsNoticed ==
    row.exists /\ row.status = "running" /\ docker.state # "running"
    ~> ~row.exists \/ row.status # "running" \/ docker.state = "running"

\* Every pipeline comes to an end.
PipelineEnds == \A g \in Generations : Live(g) ~> ~Live(g)

\* The state is well typed, and the row tells the truth about containers and pipelines
\* except after the failures and races named in its parts.
Inv == TypeOK /\ ContainersAreTracked /\ UnfinishedOnlyByCrash /\ SkippedRunsOnlyByRace

\* A container that went down does not stay recorded as running (Reconcile), and every
\* provisioning goroutine ends.
AgentsSettle == DeadContainerIsNoticed /\ PipelineEnds
=============================================================================
