------------------------ MODULE AgentLifecycle_proofs ------------------------
(***************************************************************************)
(* Proofs about AgentLifecycle, for any number of creations, containers,   *)
(* commands and faults.                                                    *)
(***************************************************************************)
EXTENDS AgentLifecycle, TLAPS

-----------------------------------------------------------------------------
(* The inductive invariant.                                                *)

\* A command works on a row that exists, create is at one of its own steps, and containers
\* are numbered from 1 in the order they are created.
CommandInv ==
    /\ row.exists => row.gen \in Generations
    /\ cmd.pc # "idle" => row.exists
    /\ cmd.op = "create" => cmd.pc \in {"register", "spawn", "started", "handle", "fail"}
    /\ cmd.pc \in {"register", "fail"} => cmd.op = "create"
    /\ row.container <= docker.id
    /\ docker.state # "absent" => docker.id > 0
    /\ cmd.pc \in {"started", "handle"} => row.container < docker.id
    /\ cmd.pc \in {"recover", "spawn", "started", "handle"} =>
           cmd.op \in {"create", "start", "respawn"}

\* A container that no row points to is one that is just being spawned; delete has removed
\* the container before it removes the row.
TrackInv ==
    /\ docker.state # "absent" /\ ~history.lost
       => \/ cmd.pc \in {"started", "handle"}
          \/ row.exists /\ row.container = docker.id
    /\ cmd.op = "delete" /\ cmd.pc = "row" => docker.state = "absent" \/ history.lost

\* A pipeline that has yet to write how provisioning ended.
Working(g) == Live(g) /\ pipeline[g].pc \notin {"mark", "running"}

WorkInv ==
    row.exists /\ row.prov \in {"pending", "creating", "configuring"}
    => \/ \E g \in Generations : Working(g)
       \/ cmd.op = "create"
       \/ history.crashed \/ history.lost

\* A stopped agent's container runs only while its pipeline or a start is about to record it.
SkipInv ==
    /\ row.exists /\ row.status = "stopped" /\ docker.state = "running"
       /\ row.container = docker.id
       => \/ Live(row.gen)
          \/ cmd.pc = "status" /\ cmd.op # "stop"
          \/ history.raced \/ history.crashed
    /\ cmd.pc = "status" /\ cmd.op = "stop" /\ docker.state = "running"
       => row.container # docker.id \/ history.raced

\* What provisioning_state is at each step of a pipeline.
Recorded(pc) ==
    CASE pc = "start"                               -> {"pending"}
      [] pc \in {"container", "configuring"}        -> {"creating"}
      [] pc \in {"health", "config", "healthy"}     -> {"configuring"}
      [] pc = "running"                             -> {"healthy"}
      [] pc = "failed"                              -> {"creating", "configuring"}
      [] pc = "mark"                                -> {"error"}
      [] OTHER                                      -> ProvisioningState

\* Unless an earlier pipeline was left, the row's own pipeline is the only one.
OrderInv ==
    row.exists /\ ~history.overlap =>
        /\ \A g \in Generations \ {row.gen} : ~Live(g)
        /\ row.prov \in Recorded(pipeline[row.gen].pc)
        /\ cmd.op = "create" => ~Live(row.gen) /\ row.prov = "pending"

CoreInv == CommandInv /\ TrackInv /\ WorkInv /\ SkipInv /\ OrderInv

IInv == TypeOK /\ CoreInv

-----------------------------------------------------------------------------
(* What the statements and the calls do to the row, the container and the  *)
(* command.                                                                *)

RowType == [exists : BOOLEAN, gen : 0..MaxCreates, status : Status,
            prov : ProvisioningState, container : Containers, mxid : BOOLEAN]
DockerType == [id : Containers, state : {"absent", "created", "running", "exited"},
               held : BOOLEAN]
CmdType == [op : {"none", "create", "start", "respawn", "stop", "delete", "disable"},
            pc : {"idle", "register", "docker", "recover", "spawn", "started", "handle",
                  "status", "row", "secrets", "fail"}]
HistoryType == [lost : BOOLEAN, crashed : BOOLEAN, raced : BOOLEAN, overlap : BOOLEAN]

\* The row keeps its identity, its container and its provisioning state.
SameAgent == /\ row'.exists = row.exists /\ row'.gen = row.gen
             /\ row'.container = row.container

LEMMA Bounds == MaxCreates \in Nat /\ MaxSpawns \in Nat
  BY LifecycleAssumption

LEMMA StatusWritten ==
    ASSUME row \in RowType, NEW s \in Status, UpdateAgentStatus(s)
    PROVE  /\ row' \in RowType /\ SameAgent /\ row'.prov = row.prov /\ row'.mxid = row.mxid
           /\ row.exists => row'.status = s
<1>1. CASE row.exists
  <2>1. row' = [row EXCEPT !.status = s]
    BY <1>1 DEF UpdateAgentStatus
  <2> QED
    BY <2>1 DEF RowType, SameAgent
<1>2. CASE ~row.exists
  BY <1>2 DEF UpdateAgentStatus, SameAgent
<1> QED
  BY <1>1, <1>2

LEMMA ProvWritten ==
    ASSUME row \in RowType, NEW s \in ProvisioningState, UpdateProvisioningState(s)
    PROVE  /\ row' \in RowType /\ SameAgent /\ row'.status = row.status /\ row'.mxid = row.mxid
           /\ row.exists => row'.prov = s
<1>1. CASE row.exists
  <2>1. row' = [row EXCEPT !.prov = s]
    BY <1>1 DEF UpdateProvisioningState
  <2> QED
    BY <2>1 DEF RowType, SameAgent
<1>2. CASE ~row.exists
  BY <1>2 DEF UpdateProvisioningState, SameAgent
<1> QED
  BY <1>1, <1>2

LEMMA GoesOn ==
    ASSUME cmd \in CmdType, NEW pc, Goto(pc),
           pc \in {"idle", "register", "docker", "recover", "spawn", "started", "handle",
                   "status", "row", "secrets", "fail"}
    PROVE  cmd' \in CmdType /\ cmd'.op = cmd.op /\ cmd'.pc = pc
  BY DEF CmdType, Goto

LEMMA Returns ==
    ASSUME Return PROVE cmd' \in CmdType /\ cmd'.op = "none" /\ cmd'.pc = "idle"
  BY DEF CmdType, Return, IdleCmd

LEMMA Accepted ==
    ASSUME NEW op, NEW pc, Accept(op, pc),
           op \in {"create", "start", "respawn", "stop", "delete", "disable"},
           pc \in {"register", "docker", "recover", "status", "row"}
    PROVE  cmd' \in CmdType /\ cmd'.op = op /\ cmd'.pc = pc /\ cmd.pc = "idle"
  BY DEF Accept, CmdType

LEMMA ErrorMarked ==
    ASSUME row \in RowType, cmd \in CmdType, MarkError
    PROVE  /\ row' \in RowType /\ SameAgent /\ row'.prov = row.prov
           /\ row.exists => row'.status = "error"
           /\ cmd' \in CmdType /\ cmd'.op = cmd.op /\ cmd'.pc = "fail"
<1>1. "error" \in Status /\ UpdateAgentStatus("error") /\ Goto("fail")
  BY DEF MarkError, Status
<1> QED
  BY <1>1, StatusWritten, GoesOn

\* A failed Spawn: create marks the row, recovery returns.
LEMMA SpawnHasFailed ==
    ASSUME row \in RowType, cmd \in CmdType, SpawnFailed
    PROVE  /\ row' \in RowType /\ SameAgent /\ row'.prov = row.prov /\ cmd' \in CmdType
           /\ \/ /\ cmd.op = "create" /\ cmd'.op = "create" /\ cmd'.pc = "fail"
                 /\ row.exists => row'.status = "error"
              \/ /\ cmd.op # "create" /\ cmd'.op = "none" /\ cmd'.pc = "idle"
                 /\ row' = row
<1>1. CASE cmd.op = "create"
  BY <1>1, ErrorMarked DEF SpawnFailed
<1>2. CASE cmd.op # "create"
  <2>1. Return /\ row' = row
    BY <1>2 DEF SpawnFailed
  <2> QED
    BY <1>2, <2>1, Returns DEF SameAgent
<1> QED
  BY <1>1, <1>2

LEMMA Types ==
    ASSUME TypeOK
    PROVE  /\ row \in RowType /\ docker \in DockerType /\ cmd \in CmdType /\ history \in HistoryType
           /\ row.gen \in 0..MaxCreates /\ row.status \in Status /\ row.prov \in ProvisioningState
           /\ row.container \in Nat /\ docker.id \in Nat /\ docker.id <= MaxSpawns
           /\ docker.state \in {"absent", "created", "running", "exited"}
<1>1. /\ row \in RowType /\ docker \in DockerType /\ cmd \in CmdType /\ history \in HistoryType
  BY DEF TypeOK, RowType, DockerType, CmdType, HistoryType
<1> QED
  BY <1>1, Bounds DEF RowType, DockerType, Containers

-----------------------------------------------------------------------------
(* Steps that change neither the container nor a pipeline.                 *)

LEMMA RowFrame ==
    ASSUME IInv, SameAgent, row'.prov = row.prov, UNCHANGED <<docker, cmd, pipeline, history>>,
           row'.status = row.status \/ row'.status # "stopped"
    PROVE  CoreInv'
<1>1. CommandInv'
  BY DEF IInv, CoreInv, CommandInv, SameAgent
<1>2. TrackInv'
  BY DEF IInv, CoreInv, TrackInv, SameAgent
<1>3. WorkInv'
  BY DEF IInv, CoreInv, WorkInv, Working, Live, SameAgent
<1>4. SkipInv'
  BY DEF IInv, CoreInv, SkipInv, Live, SameAgent
<1>5. OrderInv'
  BY DEF IInv, CoreInv, OrderInv, Live, SameAgent
<1> QED
  BY <1>1, <1>2, <1>3, <1>4, <1>5 DEF CoreInv

LEMMA CommandFrame ==
    ASSUME IInv, SameAgent, row'.prov = row.prov, UNCHANGED <<docker, pipeline, history>>,
           row.exists \/ cmd'.pc = "idle",
           {cmd.pc, cmd'.pc} \cap {"started", "handle"} = {},
           cmd'.op = "create" <=> cmd.op = "create",
           cmd'.op = "create" => cmd'.pc \in {"spawn", "fail"},
           cmd'.pc \in {"register", "fail"} => cmd'.op = "create",
           cmd'.pc \in {"recover", "spawn"} => cmd'.op \in {"create", "start", "respawn"},
           cmd'.op = "delete" /\ cmd'.pc = "row" => docker.state = "absent" \/ history.lost,
           cmd'.pc = "status" /\ cmd'.op = "stop" /\ docker.state = "running"
               => row.container # docker.id \/ history.raced,
           row.exists /\ row'.status = "stopped" /\ docker.state = "running"
               /\ row.container = docker.id
               => history.raced \/ (row.status = "stopped" /\ cmd.pc # "status")
    PROVE  CoreInv'
<1>1. CommandInv'
  BY DEF IInv, CoreInv, CommandInv, SameAgent
<1>2. TrackInv'
  BY DEF IInv, CoreInv, TrackInv, SameAgent
<1>3. WorkInv'
  BY DEF IInv, CoreInv, WorkInv, Working, Live, SameAgent
<1>4. SkipInv'
  BY DEF IInv, CoreInv, SkipInv, Live, SameAgent
<1>5. OrderInv'
  BY DEF IInv, CoreInv, OrderInv, Live, SameAgent
<1> QED
  BY <1>1, <1>2, <1>3, <1>4, <1>5 DEF CoreInv

\* The reconciler and matrix register.
LEMMA RecordsCore ==
    ASSUME IInv,
           \/ MatrixRegister \/ ListAgents \/ ListContainers \/ ContainerMissing
           \/ InspectContainer \/ UNCHANGED vars
    PROVE  CoreInv'
<1>0. row \in RowType /\ TypeOK
  BY Types DEF IInv
<1>1. CASE row' = row /\ UNCHANGED <<docker, cmd, pipeline, history>>
  BY <1>1, RowFrame DEF SameAgent
<1>2. CASE MatrixRegister
  <2>1. SameAgent /\ row'.prov = row.prov /\ row'.status = row.status
    BY <1>0, <1>2 DEF MatrixRegister, RowType, SameAgent
  <2> QED
    BY <1>2, <2>1, RowFrame DEF MatrixRegister
<1>3. CASE ContainerMissing
  <2>1. "error" \in Status /\ UpdateAgentStatus("error") /\ UNCHANGED <<docker, cmd, pipeline, history>>
    BY <1>3 DEF ContainerMissing, Status
  <2>2. SameAgent /\ row'.prov = row.prov /\ (row.exists => row'.status = "error")
    BY <1>0, <2>1, StatusWritten
  <2>3. row.exists \/ row' = row
    BY <2>1 DEF UpdateAgentStatus
  <2> QED
    BY <1>1, <2>1, <2>2, <2>3, RowFrame
<1>4. ASSUME ListAgents \/ ListContainers \/ InspectContainer \/ UNCHANGED vars
      PROVE  row' = row /\ UNCHANGED <<docker, cmd, pipeline, history>>
  BY <1>4 DEF ListAgents, ListContainers, InspectContainer, vars
<1> QED
  BY <1>1, <1>2, <1>3, <1>4

\* A command is accepted.
LEMMA AcceptsCore ==
    ASSUME IInv, Stop \/ Delete \/ Disable \/ \E op \in {"start", "respawn"} : Start(op)
    PROVE  CoreInv'
<1>0. TypeOK /\ row \in RowType /\ docker.id \in Nat /\ CommandInv /\ TrackInv
  BY Types DEF IInv, CoreInv
<1>1. PICK op \in {"start", "respawn", "stop", "delete", "disable"},
           pc \in {"docker", "recover", "status", "row"} :
          /\ Accept(op, pc)
          /\ op = "stop" /\ pc = "status" => row.container = 0
          /\ op = "delete" /\ pc = "row" => row.container = 0
          /\ pc = "recover" => op \in {"start", "respawn"}
  BY DEF Stop, Delete, Disable, Start
<1>2. row.exists /\ row' = row /\ UNCHANGED <<docker, pipeline, history>>
  BY DEF Stop, Delete, Disable, Start
<1>3. cmd'.op = op /\ cmd'.pc = pc /\ cmd.pc = "idle"
  BY <1>1, Accepted
<1>4. cmd.op # "create"
  BY <1>0, <1>3 DEF CommandInv
<1>5. row.container = 0 => docker.state = "absent" \/ history.lost
  BY <1>0, <1>3 DEF TrackInv, CommandInv
<1>6. row.container = 0 /\ docker.state = "running" => row.container # docker.id
  BY <1>0 DEF CommandInv
<1>7. SameAgent /\ row'.prov = row.prov /\ row'.status = row.status
  BY <1>2 DEF SameAgent
<1> QED
  BY <1>1, <1>2, <1>3, <1>4, <1>5, <1>6, <1>7, CommandFrame

\* The command steps that only write the row, or that give up.
LEMMA WritesCore ==
    ASSUME IInv,
           \/ Register \/ Recover \/ SetStatus \/ UpdateAgentDisabled \/ DropMatrixToken
           \/ (Spawn \/ StartContainer \/ StopContainer \/ RemoveContainer) /\ UNCHANGED docker
    PROVE  CoreInv'
<1>0. /\ TypeOK /\ row \in RowType /\ cmd \in CmdType /\ docker.id \in Nat
      /\ CommandInv /\ TrackInv /\ SkipInv
      /\ cmd.pc # "idle" => row.exists
  BY Types DEF IInv, CoreInv, CommandInv
<1>1. CASE Register
  <2>1. /\ cmd.pc = "register" /\ cmd.op = "create" /\ row.exists
        /\ UNCHANGED <<docker, pipeline, history>>
    BY <1>0, <1>1 DEF Register, CommandInv
  <2>2. CASE MarkError
    <3>1. /\ SameAgent /\ row'.prov = row.prov /\ row'.status = "error"
          /\ cmd'.op = "create" /\ cmd'.pc = "fail"
      BY <1>0, <2>1, <2>2, ErrorMarked
    <3> QED
      BY <2>1, <3>1, CommandFrame
  <2>3. CASE \E recorded \in BOOLEAN : row' = [row EXCEPT !.mxid = recorded] /\ Goto("spawn")
    <3>1. SameAgent /\ row'.prov = row.prov /\ row'.status = row.status
      BY <1>0, <2>3 DEF RowType, SameAgent
    <3>2. cmd'.op = "create" /\ cmd'.pc = "spawn"
      BY <1>0, <2>1, <2>3, GoesOn
    <3> QED
      BY <2>1, <3>1, <3>2, CommandFrame
  <2> QED
    BY <1>1, <2>2, <2>3 DEF Register
<1>2. CASE Recover
  <2>1. /\ cmd.pc = "recover" /\ row' = row /\ UNCHANGED <<docker, pipeline, history>>
        /\ Goto("spawn") \/ Return
    BY <1>2 DEF Recover
  <2>2. cmd.op \in {"start", "respawn"} /\ row.exists
    BY <1>0, <2>1 DEF CommandInv
  <2>3. (cmd'.op = cmd.op /\ cmd'.pc = "spawn") \/ (cmd'.op = "none" /\ cmd'.pc = "idle")
    BY <1>0, <2>1, GoesOn, Returns
  <2>4. SameAgent /\ row'.prov = row.prov /\ row'.status = row.status
    BY <2>1 DEF SameAgent
  <2> QED
    BY <2>1, <2>2, <2>3, <2>4, CommandFrame
<1>3. CASE SetStatus
  <2>1. PICK st \in Status : /\ st = IF cmd.op = "stop" THEN "stopped" ELSE "running"
                             /\ UpdateAgentStatus(st)
    BY <1>3 DEF SetStatus, Status
  <2>2. cmd.pc = "status" /\ Return /\ UNCHANGED <<docker, pipeline, history>>
    BY <1>3 DEF SetStatus
  <2>3. cmd.op # "create" /\ row.exists
    BY <1>0, <2>2 DEF CommandInv
  <2>4. SameAgent /\ row'.prov = row.prov /\ row'.status = st
    BY <1>0, <2>1, <2>3, StatusWritten
  <2>5. cmd'.op = "none" /\ cmd'.pc = "idle"
    BY <2>2, Returns
  <2>6. row'.status = "stopped" /\ docker.state = "running" /\ row.container = docker.id
        => history.raced
    BY <1>0, <2>1, <2>2, <2>4 DEF SkipInv
  <2> QED
    BY <2>2, <2>3, <2>4, <2>5, <2>6, CommandFrame
<1>4. CASE UpdateAgentDisabled
  <2>1. /\ "disabled" \in Status /\ UpdateAgentStatus("disabled") /\ Goto("secrets")
        /\ cmd.pc = "row" /\ cmd.op = "disable" /\ row.exists
        /\ UNCHANGED <<docker, pipeline, history>>
    BY <1>0, <1>4 DEF UpdateAgentDisabled, Status
  <2>2. SameAgent /\ row'.prov = row.prov /\ row'.status = "disabled"
    BY <1>0, <2>1, StatusWritten
  <2>3. cmd'.op = "disable" /\ cmd'.pc = "secrets"
    BY <1>0, <2>1, GoesOn
  <2> QED
    BY <2>1, <2>2, <2>3, CommandFrame
<1>5. CASE DropMatrixToken
  <2>1. cmd.pc = "secrets" /\ Return /\ row' = row /\ UNCHANGED <<docker, pipeline, history>>
    BY <1>5 DEF DropMatrixToken
  <2>2. cmd.op # "create" /\ cmd'.op = "none" /\ cmd'.pc = "idle"
    BY <1>0, <2>1, Returns DEF CommandInv
  <2>3. SameAgent /\ row'.prov = row.prov /\ row'.status = row.status
    BY <2>1 DEF SameAgent
  <2> QED
    BY <2>1, <2>2, <2>3, CommandFrame
<1>6. CASE Spawn /\ UNCHANGED docker
  <2>1. SpawnFailed /\ cmd.pc = "spawn" /\ UNCHANGED <<docker, pipeline, history>> /\ row.exists
    <3>1. docker' # [id |-> docker.id + 1, state |-> "created", held |-> FALSE]
      BY <1>0, <1>6
    <3> QED
      BY <1>0, <1>6, <3>1 DEF Spawn
  <2>2. /\ SameAgent /\ row'.prov = row.prov
        /\ \/ cmd.op = "create" /\ cmd'.op = "create" /\ cmd'.pc = "fail" /\ row'.status = "error"
           \/ cmd.op # "create" /\ cmd'.op = "none" /\ cmd'.pc = "idle" /\ row'.status = row.status
    BY <1>0, <2>1, SpawnHasFailed
  <2> QED
    BY <2>1, <2>2, CommandFrame
<1>7. CASE StartContainer /\ UNCHANGED docker /\ (Goto("recover") \/ Return)
  <2>1. /\ cmd.pc = "docker" /\ cmd.op \in {"start", "respawn"} /\ row' = row
        /\ UNCHANGED <<docker, pipeline, history>>
    BY <1>7 DEF StartContainer
  <2>2. row.exists
    BY <1>0, <2>1
  <2>3. (cmd'.op = cmd.op /\ cmd'.pc = "recover") \/ (cmd'.op = "none" /\ cmd'.pc = "idle")
    BY <1>0, <1>7, GoesOn, Returns
  <2>4. SameAgent /\ row'.prov = row.prov /\ row'.status = row.status
    BY <2>1 DEF SameAgent
  <2> QED
    BY <2>1, <2>2, <2>3, <2>4, CommandFrame
<1>8. CASE StartContainer /\ UNCHANGED docker /\ Goto("status")
  <2>1. /\ cmd.pc = "docker" /\ cmd.op \in {"start", "respawn"} /\ row' = row
        /\ UNCHANGED <<docker, pipeline, history>>
    BY <1>8 DEF StartContainer
  <2>2. row.exists
    BY <1>0, <2>1
  <2>3. cmd'.op = cmd.op /\ cmd'.pc = "status"
    BY <1>0, <1>8, GoesOn
  <2>4. SameAgent /\ row'.prov = row.prov /\ row'.status = row.status
    BY <2>1 DEF SameAgent
  <2> QED
    BY <2>1, <2>2, <2>3, <2>4, CommandFrame
<1>9. CASE StopContainer /\ UNCHANGED docker
  <2>1. /\ cmd.pc = "docker" /\ cmd.op \in {"stop", "disable"} /\ row' = row
        /\ UNCHANGED <<docker, pipeline, history>>
    BY <1>9 DEF StopContainer
  <2>2. row.exists
    BY <1>0, <2>1
  <2>3. \/ cmd'.op = "none" /\ cmd'.pc = "idle"
        \/ cmd'.op = cmd.op /\ cmd'.pc = "row"
        \/ cmd'.op = cmd.op /\ cmd'.pc = "status" /\ docker.state # "running"
    <3>1. \/ Return
          \/ Goto("row")
          \/ Goto("status") /\ docker' = [docker EXCEPT
                                   !.state = IF @ = "running" THEN "exited" ELSE @, !.held = TRUE]
      BY <1>9 DEF StopContainer
    <3>2. ASSUME docker' = [docker EXCEPT
                               !.state = IF @ = "running" THEN "exited" ELSE @, !.held = TRUE]
          PROVE  docker.state # "running"
      <4>1. docker'.state = IF docker.state = "running" THEN "exited" ELSE docker.state
        BY <1>0, <3>2, Types DEF DockerType
      <4> QED
        BY <1>9, <4>1
    <3> QED
      BY <1>0, <3>1, <3>2, GoesOn, Returns
  <2>4. SameAgent /\ row'.prov = row.prov /\ row'.status = row.status
    BY <2>1 DEF SameAgent
  <2> QED
    BY <2>1, <2>2, <2>3, <2>4, CommandFrame
<1>10. CASE RemoveContainer /\ UNCHANGED docker
  <2>1. /\ cmd.pc = "docker" /\ cmd.op = "delete" /\ row' = row
        /\ UNCHANGED <<docker, pipeline, history>>
    BY <1>10 DEF RemoveContainer
  <2>2. row.exists
    BY <1>0, <2>1
  <2>3. \/ cmd'.op = "none" /\ cmd'.pc = "idle"
        \/ cmd'.op = cmd.op /\ cmd'.pc = "row" /\ (docker.state = "absent" \/ history.lost)
    <3>1. \/ Return
          \/ Goto("row") /\ docker' = IF Present(row.container) THEN NoContainer(docker.id) ELSE docker
      BY <1>10 DEF RemoveContainer
    <3>2. ASSUME docker' = IF Present(row.container) THEN NoContainer(docker.id) ELSE docker
          PROVE  docker.state = "absent" \/ history.lost
      <4>1. CASE Present(row.container)
        <5>1. docker'.state = "absent"
          BY <3>2, <4>1 DEF NoContainer
        <5> QED
          BY <1>10, <5>1
      <4>2. CASE ~Present(row.container)
        <5>1. docker.id # row.container \/ docker.state = "absent"
          BY <1>0, <4>2, Types DEF Present, Inspect
        <5> QED
          BY <1>0, <2>1, <5>1 DEF TrackInv
      <4> QED
        BY <4>1, <4>2
    <3> QED
      BY <1>0, <3>1, <3>2, GoesOn, Returns
  <2>4. SameAgent /\ row'.prov = row.prov /\ row'.status = row.status
    BY <2>1 DEF SameAgent
  <2> QED
    BY <2>1, <2>2, <2>3, <2>4, CommandFrame
<1> QED
  BY <1>1, <1>2, <1>3, <1>4, <1>5, <1>6, <1>7, <1>8, <1>9, <1>10 DEF StartContainer

-----------------------------------------------------------------------------
(* Steps that change the container.                                        *)

\* The container stays the same one, or goes.
LEMMA ContainerFrame ==
    ASSUME IInv, row' = row, UNCHANGED pipeline,
           history'.lost = history.lost, history'.crashed = history.crashed,
           history'.overlap = history.overlap, history.raced => history'.raced,
           docker'.id = docker.id, docker'.state # "absent" => docker.state # "absent",
           \/ cmd' = cmd
           \/ /\ cmd.pc = "docker" /\ cmd.op # "create" /\ cmd'.op # "create"
              /\ cmd'.pc \in {"idle", "status", "row"}
              /\ cmd'.op = "delete" /\ cmd'.pc = "row" => docker'.state = "absent"
              /\ cmd'.pc = "status" /\ cmd'.op = "stop" => docker'.state # "running",
           docker'.state = "running" => \/ docker.state = "running"
                                        \/ history'.raced
                                        \/ cmd'.pc = "status" /\ cmd'.op # "stop"
    PROVE  CoreInv'
<1>1. CommandInv'
  BY DEF IInv, CoreInv, CommandInv
<1>2. TrackInv'
  BY DEF IInv, CoreInv, TrackInv
<1>3. WorkInv'
  BY DEF IInv, CoreInv, WorkInv, Working, Live
<1>4. SkipInv'
  BY DEF IInv, CoreInv, SkipInv, Live
<1>5. OrderInv'
  BY DEF IInv, CoreInv, OrderInv, Live
<1> QED
  BY <1>1, <1>2, <1>3, <1>4, <1>5 DEF CoreInv

LEMMA ContainerCore ==
    ASSUME IInv, \/ StartContainer \/ StopContainer \/ RemoveContainer
                 \/ ContainerDies \/ ContainerRestarts
    PROVE  CoreInv'
<1>0. /\ TypeOK /\ row \in RowType /\ cmd \in CmdType /\ docker \in DockerType
      /\ history \in HistoryType /\ CommandInv
  BY Types DEF IInv, CoreInv
<1>u. ASSUME StartContainer \/ StopContainer \/ RemoveContainer, UNCHANGED docker PROVE CoreInv'
  BY <1>u, WritesCore
<1>1. CASE StartContainer
  <2>1. CASE /\ Present(row.container) /\ Goto("status")
             /\ docker' = [docker EXCEPT !.state = "running", !.held = FALSE]
    <3>1. /\ cmd.pc = "docker" /\ cmd.op \in {"start", "respawn"} /\ row' = row
          /\ UNCHANGED <<pipeline, history>>
      BY <1>1 DEF StartContainer
    <3>2. docker'.id = docker.id /\ docker'.state = "running"
      BY <1>0, <2>1 DEF DockerType
    <3>3. docker.state # "absent"
      BY <2>1 DEF Present, Inspect
    <3>4. cmd'.op = cmd.op /\ cmd'.pc = "status"
      BY <1>0, <2>1, GoesOn
    <3> QED
      BY <3>1, <3>2, <3>3, <3>4, ContainerFrame
  <2> QED
    BY <1>1, <1>u, <2>1 DEF StartContainer
<1>2. CASE StopContainer
  <2>1. CASE /\ Present(row.container) /\ Goto(IF cmd.op = "stop" THEN "status" ELSE "row")
             /\ docker' = [docker EXCEPT
                    !.state = IF @ = "running" THEN "exited" ELSE @, !.held = TRUE]
    <3>1. /\ cmd.pc = "docker" /\ cmd.op \in {"stop", "disable"} /\ row' = row
          /\ UNCHANGED <<pipeline, history>>
      BY <1>2 DEF StopContainer
    <3>2. /\ docker'.id = docker.id
          /\ docker'.state = IF docker.state = "running" THEN "exited" ELSE docker.state
      BY <1>0, <2>1 DEF DockerType
    <3>3. docker.state # "absent" /\ docker'.state # "running"
      BY <2>1, <3>2 DEF Present, Inspect
    <3>4. cmd'.op = cmd.op /\ cmd'.pc \in {"status", "row"}
      BY <1>0, <2>1, GoesOn
    <3> QED
      BY <3>1, <3>2, <3>3, <3>4, ContainerFrame
  <2> QED
    BY <1>2, <1>u, <2>1 DEF StopContainer
<1>3. CASE RemoveContainer
  <2>0. /\ cmd.pc = "docker" /\ cmd.op = "delete" /\ row' = row
        /\ UNCHANGED <<pipeline, history>>
    BY <1>3 DEF RemoveContainer
  <2>1. CASE docker' = NoContainer(docker.id) /\ Goto("row")
    <3>1. docker'.id = docker.id /\ docker'.state = "absent"
      BY <2>1 DEF NoContainer
    <3>2. cmd'.op = cmd.op /\ cmd'.pc = "row"
      BY <1>0, <2>1, GoesOn
    <3> QED
      BY <2>0, <3>1, <3>2, ContainerFrame
  <2>2. CASE /\ Return /\ Inspect(row.container) = "running"
             /\ docker' = [docker EXCEPT !.state = "exited", !.held = TRUE]
    <3>1. docker'.id = docker.id /\ docker'.state = "exited"
      BY <1>0, <2>2 DEF DockerType
    <3>2. docker.state # "absent"
      BY <2>2 DEF Inspect
    <3>3. cmd'.op = "none" /\ cmd'.pc = "idle"
      BY <2>2, Returns
    <3> QED
      BY <2>0, <3>1, <3>2, <3>3, ContainerFrame
  <2> QED
    BY <1>3, <1>u, <2>1, <2>2 DEF RemoveContainer
<1>4. CASE ContainerDies
  <2>1. /\ docker.state = "running" /\ cmd' = cmd /\ row' = row /\ UNCHANGED <<pipeline, history>>
        /\ docker' \in {[docker EXCEPT !.state = "exited"], NoContainer(docker.id)}
    BY <1>4 DEF ContainerDies
  <2>2. docker'.id = docker.id /\ docker'.state \in {"exited", "absent"}
    BY <1>0, <2>1 DEF DockerType, NoContainer
  <2> QED
    BY <2>1, <2>2, ContainerFrame
<1>5. CASE ContainerRestarts
  <2>1. /\ docker.state = "exited" /\ cmd' = cmd /\ row' = row /\ UNCHANGED pipeline
        /\ docker' = [docker EXCEPT !.state = "running"]
        /\ history' = [history EXCEPT !.raced = TRUE]
    BY <1>5 DEF ContainerRestarts
  <2>2. docker'.id = docker.id /\ docker'.state = "running"
    BY <1>0, <2>1 DEF DockerType
  <2>3. /\ history'.lost = history.lost /\ history'.crashed = history.crashed
        /\ history'.overlap = history.overlap /\ history'.raced
    BY <1>0, <2>1 DEF HistoryType
  <2> QED
    BY <2>1, <2>2, <2>3, ContainerFrame
<1> QED
  BY <1>1, <1>2, <1>3, <1>4, <1>5

\* Adapter.Spawn: a new container, the highest number so far.
LEMMA SpawnCore ==
    ASSUME IInv, Spawn \/ SpawnStart PROVE CoreInv'
<1>0. /\ TypeOK /\ row \in RowType /\ cmd \in CmdType /\ docker \in DockerType
      /\ history \in HistoryType /\ CommandInv /\ TrackInv /\ WorkInv /\ SkipInv /\ OrderInv
      /\ row.container \in Nat /\ docker.id \in Nat
  BY Types DEF IInv, CoreInv
<1>1. CASE Spawn
  <2>1. CASE /\ docker.state = "absent" /\ Goto("started") /\ row' = row
             /\ docker' = [id |-> docker.id + 1, state |-> "created", held |-> FALSE]
    <3>1. cmd.pc = "spawn" /\ UNCHANGED <<pipeline, history>>
      BY <1>1 DEF Spawn
    <3>2. docker'.id = docker.id + 1 /\ docker'.state = "created"
      BY <2>1
    <3>3. cmd'.op = cmd.op /\ cmd'.pc = "started"
      BY <1>0, <2>1, GoesOn
    <3>4. CommandInv'
      BY <1>0, <2>1, <3>1, <3>2, <3>3 DEF CommandInv
    <3>5. TrackInv' /\ SkipInv'
      BY <3>2, <3>3 DEF TrackInv, SkipInv
    <3>6. WorkInv' /\ OrderInv'
      BY <1>0, <2>1, <3>1, <3>3 DEF WorkInv, OrderInv, Working, Live
    <3> QED
      BY <3>4, <3>5, <3>6 DEF CoreInv
  <2> QED
    BY <1>1, <2>1, WritesCore DEF Spawn
<1>2. CASE SpawnStart
  <2>0. cmd.pc = "started" /\ UNCHANGED pipeline /\ row.exists /\ row.container < docker.id
    BY <1>0, <1>2 DEF SpawnStart, CommandInv
  <2>1. CASE /\ docker' = [docker EXCEPT !.state = "running"] /\ Goto("handle")
             /\ UNCHANGED <<row, history>>
    <3>1. docker'.id = docker.id /\ docker'.state = "running"
      BY <1>0, <2>1 DEF DockerType
    <3>2. cmd'.op = cmd.op /\ cmd'.pc = "handle"
      BY <1>0, <2>1, GoesOn
    <3>3. docker.id > 0
      BY <1>0, <2>0
    <3>4. CommandInv'
      BY <1>0, <2>0, <2>1, <3>1, <3>2, <3>3 DEF CommandInv
    <3>5. TrackInv' /\ SkipInv'
      BY <1>0, <2>0, <2>1, <3>1, <3>2 DEF TrackInv, SkipInv
    <3>6. WorkInv' /\ OrderInv'
      BY <1>0, <2>0, <2>1, <3>2 DEF WorkInv, OrderInv, Working, Live
    <3> QED
      BY <3>4, <3>5, <3>6 DEF CoreInv
  <2>2. CASE /\ SpawnFailed
             /\ \/ docker' = [docker EXCEPT !.state = "absent"] /\ UNCHANGED history
                \/ /\ \E s \in {"created", "running"} : docker' = [docker EXCEPT !.state = s]
                   /\ history' = [history EXCEPT !.lost = TRUE]
    <3>1. /\ docker'.id = docker.id
          /\ docker'.state = "absent" \/ history'.lost
      BY <1>0, <2>2 DEF DockerType, HistoryType
    <3>2. /\ history.lost => history'.lost
          /\ history'.crashed = history.crashed
          /\ history'.overlap = history.overlap /\ history'.raced = history.raced
      BY <1>0, <2>2 DEF HistoryType
    <3>3. /\ SameAgent /\ row'.prov = row.prov
          /\ \/ cmd.op = "create" /\ cmd'.op = "create" /\ cmd'.pc = "fail"
             \/ cmd.op # "create" /\ cmd'.op = "none" /\ cmd'.pc = "idle"
      BY <1>0, <2>2, SpawnHasFailed
    <3>4. docker.id > 0
      BY <1>0, <2>0
    <3>5. CommandInv'
      BY <1>0, <2>0, <3>1, <3>3, <3>4 DEF CommandInv, SameAgent
    <3>6. TrackInv'
      BY <3>1, <3>3 DEF TrackInv
    <3>7. SkipInv'
      BY <1>0, <2>0, <3>1, <3>3 DEF SkipInv, SameAgent
    <3>8. WorkInv'
      BY <1>0, <2>0, <3>2, <3>3 DEF WorkInv, Working, Live, SameAgent
    <3>9. OrderInv'
      BY <1>0, <2>0, <3>2, <3>3 DEF OrderInv, Live, SameAgent
    <3> QED
      BY <3>5, <3>6, <3>7, <3>8, <3>9 DEF CoreInv
  <2> QED
    BY <1>2, <2>1, <2>2 DEF SpawnStart
<1> QED
  BY <1>1, <1>2

-----------------------------------------------------------------------------
(* Steps that begin and end rows and pipelines.                            *)

LEMMA CreateCore ==
    ASSUME IInv, Create PROVE CoreInv'
<1>0. /\ TypeOK /\ history \in HistoryType /\ CommandInv /\ TrackInv /\ docker.id \in Nat
      /\ creates \in 0..MaxCreates /\ docker \in DockerType
  BY Types DEF IInv, CoreInv, TypeOK
<1>1. /\ ~row.exists /\ creates < MaxCreates /\ Accept("create", "register")
      /\ UNCHANGED <<docker, pipeline>>
      /\ row' = [NoRow EXCEPT !.exists = TRUE, !.gen = creates + 1, !.status = "creating"]
      /\ history' = [history EXCEPT !.overlap = \E g \in Generations : Live(g)]
  BY DEF Create
<1>2. cmd'.op = "create" /\ cmd'.pc = "register" /\ cmd.pc = "idle"
  BY <1>1, Accepted
<1>3. /\ row'.exists /\ row'.gen = creates + 1 /\ row'.status = "creating"
      /\ row'.prov = "pending" /\ row'.container = 0
  BY <1>1 DEF NoRow
<1>4. creates + 1 \in Generations
  BY <1>0, <1>1, Bounds DEF Generations
<1>5. PICK live \in BOOLEAN : live <=> \E g \in Generations : Live(g)
  OBVIOUS
<1>6. history' = [history EXCEPT !.overlap = live]
  BY <1>1, <1>5
<1>7. /\ history'.lost = history.lost /\ history'.crashed = history.crashed
      /\ history'.raced = history.raced /\ history'.overlap = live
  BY <1>0, <1>6 DEF HistoryType
<1>8. CommandInv'
  BY <1>0, <1>1, <1>2, <1>3, <1>4 DEF CommandInv
<1>9. TrackInv'
  BY <1>0, <1>1, <1>2, <1>7 DEF TrackInv
<1>10. WorkInv'
  BY <1>2 DEF WorkInv
<1>11. SkipInv'
  BY <1>2, <1>3 DEF SkipInv
<1>12. OrderInv'
  <2>1. ~history'.overlap => \A g \in Generations : ~Live(g)
    BY <1>5, <1>7
  <2>2. ~history'.overlap => \A g \in Generations : ~Live(g)'
    BY <1>1, <2>1 DEF Live
  <2>3. ~history'.overlap => pipeline'[row'.gen].pc \in {"none", "done"}
    BY <1>3, <1>4, <2>2 DEF Live
  <2>4. ~history'.overlap => row'.prov \in Recorded(pipeline'[row'.gen].pc)
    BY <1>3, <2>3 DEF Recorded, ProvisioningState
  <2> QED
    BY <1>3, <1>4, <2>2, <2>4 DEF OrderInv
<1> QED
  BY <1>8, <1>9, <1>10, <1>11, <1>12 DEF CoreInv

LEMMA FailCreateCore ==
    ASSUME IInv, FailCreate PROVE CoreInv'
<1>0. /\ TypeOK /\ row \in RowType /\ CommandInv /\ TrackInv /\ WorkInv /\ SkipInv /\ OrderInv
  BY Types DEF IInv, CoreInv
<1>1. /\ cmd.pc = "fail" /\ UpdateProvisioningState("error") /\ Return
      /\ UNCHANGED <<docker, pipeline, history>> /\ "error" \in ProvisioningState
  BY DEF FailCreate, ProvisioningState
<1>2. cmd'.op = "none" /\ cmd'.pc = "idle"
  BY <1>1, Returns
<1>3. cmd.op = "create" /\ row.exists /\ row.gen \in Generations
  BY <1>0, <1>1 DEF CommandInv
<1>4. SameAgent /\ row'.status = row.status /\ row'.prov = "error"
  BY <1>0, <1>1, <1>3, ProvWritten
<1>5. CommandInv' /\ TrackInv' /\ WorkInv'
  BY <1>0, <1>1, <1>2, <1>3, <1>4 DEF CommandInv, TrackInv, WorkInv, SameAgent
<1>6. SkipInv'
  BY <1>0, <1>1, <1>2, <1>3, <1>4 DEF SkipInv, SameAgent, Live
<1>7. OrderInv'
  <2>1. ~history.overlap => pipeline[row.gen].pc \in {"none", "done"}
    BY <1>0, <1>3 DEF OrderInv, Live
  <2>2. ~history.overlap => row'.prov \in Recorded(pipeline'[row'.gen].pc)
    BY <1>1, <1>4, <2>1 DEF Recorded, SameAgent
  <2> QED
    BY <1>0, <1>1, <1>2, <1>4, <2>2 DEF OrderInv, Live, SameAgent
<1> QED
  BY <1>5, <1>6, <1>7 DEF CoreInv

LEMMA SaveHandleCore ==
    ASSUME IInv, SaveHandle PROVE CoreInv'
<1>0. /\ TypeOK /\ row \in RowType /\ cmd \in CmdType /\ history \in HistoryType
      /\ docker \in DockerType /\ docker.id \in Nat /\ row.container \in Nat
      /\ CommandInv /\ TrackInv /\ WorkInv /\ SkipInv /\ OrderInv
      /\ pipeline = [g \in Generations |-> pipeline[g]]
  BY Types DEF IInv, CoreInv, TypeOK
<1>1. cmd.pc = "handle" /\ UNCHANGED docker /\ row.exists /\ row.gen \in Generations
  BY <1>0 DEF SaveHandle, CommandInv
<1>2. CASE /\ row' = [row EXCEPT !.container = docker.id] /\ cmd.op = "create" /\ Return
           /\ pipeline' = [pipeline EXCEPT ![row.gen] = [pc |-> "start", container |-> docker.id]]
           /\ UNCHANGED history
  <2>1. /\ row'.exists = row.exists /\ row'.gen = row.gen /\ row'.status = row.status
        /\ row'.prov = row.prov /\ row'.container = docker.id
    BY <1>0, <1>2 DEF RowType
  <2>2. cmd'.op = "none" /\ cmd'.pc = "idle"
    BY <1>2, Returns
  <2>3. /\ pipeline'[row.gen].pc = "start"
        /\ \A g \in Generations \ {row.gen} : pipeline'[g] = pipeline[g]
    BY <1>0, <1>1, <1>2
  <2>4. Live(row.gen)' /\ Working(row.gen)'
    BY <2>1, <2>3 DEF Live, Working
  <2>5. CommandInv' /\ TrackInv'
    BY <1>0, <1>1, <2>1, <2>2 DEF CommandInv, TrackInv
  <2>6. WorkInv' /\ SkipInv'
    BY <1>1, <2>1, <2>2, <2>4 DEF WorkInv, SkipInv
  <2>7. OrderInv'
    <3>1. ~history.overlap => row.prov = "pending" /\ \A g \in Generations \ {row.gen} : ~Live(g)
      BY <1>0, <1>1, <1>2 DEF OrderInv
    <3>2. row.prov = "pending" => row'.prov \in Recorded(pipeline'[row'.gen].pc)
      BY <2>1, <2>3 DEF Recorded
    <3> QED
      BY <1>2, <2>1, <2>2, <2>3, <3>1, <3>2 DEF OrderInv, Live
  <2> QED
    BY <2>5, <2>6, <2>7 DEF CoreInv
<1>3. CASE /\ row' = [row EXCEPT !.container = docker.id] /\ cmd.op # "create" /\ Goto("status")
           /\ UNCHANGED <<pipeline, history>>
  <2>1. /\ row'.exists = row.exists /\ row'.gen = row.gen /\ row'.status = row.status
        /\ row'.prov = row.prov /\ row'.container = docker.id
    BY <1>0, <1>3 DEF RowType
  <2>2. cmd'.op = cmd.op /\ cmd'.pc = "status"
    BY <1>0, <1>3, GoesOn
  <2>3. CASE cmd.op # "stop"
    <3>1. CommandInv' /\ TrackInv'
      BY <1>0, <1>1, <1>3, <2>1, <2>2, <2>3 DEF CommandInv, TrackInv
    <3>2. WorkInv' /\ SkipInv'
      BY <1>0, <1>3, <2>1, <2>2, <2>3 DEF WorkInv, SkipInv, Working, Live
    <3>3. OrderInv'
      BY <1>0, <1>3, <2>1, <2>2 DEF OrderInv, Live
    <3> QED
      BY <3>1, <3>2, <3>3 DEF CoreInv
  <2>4. cmd.op # "stop"
    BY <1>0, <1>1 DEF CommandInv
  <2> QED
    BY <2>3, <2>4
<1>4. CASE Return /\ history' = [history EXCEPT !.lost = TRUE] /\ UNCHANGED <<row, pipeline>>
  <2>1. cmd'.op = "none" /\ cmd'.pc = "idle"
    BY <1>4, Returns
  <2>2. /\ history'.lost /\ history'.crashed = history.crashed
        /\ history'.raced = history.raced /\ history'.overlap = history.overlap
    BY <1>0, <1>4 DEF HistoryType
  <2>3. CommandInv' /\ TrackInv' /\ WorkInv'
    BY <1>0, <1>1, <1>4, <2>1, <2>2 DEF CommandInv, TrackInv, WorkInv
  <2>4. SkipInv' /\ OrderInv'
    BY <1>0, <1>1, <1>4, <2>1, <2>2 DEF SkipInv, OrderInv, Live
  <2> QED
    BY <2>3, <2>4 DEF CoreInv
<1> QED
  BY <1>2, <1>3, <1>4 DEF SaveHandle

LEMMA DeleteRowCore ==
    ASSUME IInv, DeleteRow PROVE CoreInv'
<1>0. CommandInv /\ TrackInv /\ docker.id \in Nat /\ cmd.op = "delete" /\ cmd.pc = "row"
  BY Types DEF IInv, CoreInv, DeleteRow
<1>1. row' = NoRow /\ Return /\ UNCHANGED <<docker, pipeline, history>>
  BY DEF DeleteRow
<1>2. cmd'.op = "none" /\ cmd'.pc = "idle"
  BY <1>1, Returns
<1>3. (row'.exists = FALSE) /\ row'.container = 0
  BY <1>1 DEF NoRow
<1>4. CommandInv' /\ TrackInv'
  BY <1>0, <1>1, <1>2, <1>3 DEF CommandInv, TrackInv
<1>5. WorkInv' /\ SkipInv' /\ OrderInv'
  BY <1>2, <1>3 DEF WorkInv, SkipInv, OrderInv
<1> QED
  BY <1>4, <1>5 DEF CoreInv

LEMMA WriteStatusCore ==
    ASSUME IInv, WriteStatus PROVE CoreInv'
<1>0. /\ TypeOK /\ row \in RowType /\ history \in HistoryType
      /\ CommandInv /\ TrackInv /\ WorkInv /\ SkipInv /\ OrderInv /\ rec.status \in Status
  BY Types DEF IInv, CoreInv, TypeOK
<1>1. PICK st \in Status : st = rec.status
  BY <1>0
<1>2. UpdateAgentStatus(st) /\ UNCHANGED <<docker, cmd, pipeline>>
  BY <1>1 DEF WriteStatus
<1>3. SameAgent /\ row'.prov = row.prov /\ (row.exists => row'.status = st)
  BY <1>0, <1>2, StatusWritten
<1>4. PICK late \in BOOLEAN : late <=> containerStateToAgentStatus(Inspect(rec.container)) # st
  OBVIOUS
<1>5. history' = [history EXCEPT !.raced = history.raced \/ late]
  BY <1>1, <1>4 DEF WriteStatus
<1>6. /\ history'.lost = history.lost /\ history'.crashed = history.crashed
      /\ history'.overlap = history.overlap /\ history'.raced = (history.raced \/ late)
  BY <1>0, <1>5 DEF HistoryType
<1>7. docker.state = "running" /\ st = "stopped" => late
  <2>1. ASSUME docker.state = "running"
        PROVE  containerStateToAgentStatus(Inspect(rec.container)) # "stopped"
    <3>1. Inspect(rec.container) \in {"running", "unknown"}
      BY <2>1 DEF Inspect
    <3> QED
      BY <3>1 DEF containerStateToAgentStatus
  <2> QED
    BY <1>4, <2>1
<1>8. CommandInv'
  BY <1>0, <1>2, <1>3 DEF CommandInv, SameAgent
<1>9. TrackInv'
  BY <1>0, <1>2, <1>3, <1>6 DEF TrackInv, SameAgent
<1>10. WorkInv'
  BY <1>0, <1>2, <1>3, <1>6 DEF WorkInv, Working, Live, SameAgent
<1>11. SkipInv'
  BY <1>0, <1>2, <1>3, <1>6, <1>7 DEF SkipInv, Live, SameAgent
<1>12. OrderInv'
  BY <1>0, <1>2, <1>3, <1>6 DEF OrderInv, Live, SameAgent
<1> QED
  BY <1>8, <1>9, <1>10, <1>11, <1>12 DEF CoreInv

LEMMA CrashCore ==
    ASSUME IInv, Crash PROVE CoreInv'
<1>0. /\ TypeOK /\ row \in RowType /\ history \in HistoryType /\ CommandInv /\ TrackInv
      /\ OrderInv /\ row.prov \in ProvisioningState
      /\ pipeline \in [Generations -> [pc : {"none", "start", "container", "configuring", "health",
                           "config", "healthy", "running", "failed", "mark", "done"},
                                       container : Containers]]
  BY Types DEF IInv, CoreInv, TypeOK
<1>1. cmd' = IdleCmd /\ UNCHANGED <<row, docker>>
  BY DEF Crash
<1>2. cmd'.op = "none" /\ cmd'.pc = "idle"
  BY <1>1 DEF IdleCmd
<1>3. PICK lost \in BOOLEAN : lost <=> history.lost \/ cmd.pc \in {"started", "handle"}
  OBVIOUS
<1>4. history' = [history EXCEPT !.crashed = TRUE,
                                 !.lost = history.lost \/ cmd.pc \in {"started", "handle"}]
  BY DEF Crash
<1>5. /\ history'.crashed /\ history'.overlap = history.overlap
      /\ history'.lost = (history.lost \/ cmd.pc \in {"started", "handle"})
  BY <1>0, <1>4 DEF HistoryType
<1>6. \A g \in Generations : pipeline'[g].pc \in {"none", "done"}
  <2> SUFFICES ASSUME NEW g \in Generations PROVE pipeline'[g].pc \in {"none", "done"}
    OBVIOUS
  <2>1. pipeline'[g] = IF pipeline[g].pc = "none" THEN pipeline[g]
                       ELSE [pipeline[g] EXCEPT !.pc = "done"]
    BY DEF Crash
  <2>2. [pipeline[g] EXCEPT !.pc = "done"].pc = "done"
    BY <1>0
  <2> QED
    BY <2>1, <2>2
<1>7. CommandInv'
  BY <1>0, <1>1, <1>2 DEF CommandInv
<1>8. TrackInv'
  BY <1>0, <1>1, <1>2, <1>5 DEF TrackInv
<1>9. WorkInv' /\ SkipInv'
  BY <1>2, <1>5 DEF WorkInv, SkipInv
<1>10. OrderInv'
  <2>1. \A g \in Generations : ~Live(g)'
    BY <1>6 DEF Live
  <2>2. row.exists => row'.prov \in Recorded(pipeline'[row'.gen].pc)
    <3>1. row.exists => pipeline'[row'.gen].pc \in {"none", "done"}
      BY <1>0, <1>1, <1>6 DEF CommandInv
    <3> QED
      BY <1>0, <1>1, <3>1 DEF Recorded
  <2> QED
    BY <1>1, <1>2, <2>1, <2>2 DEF OrderInv
<1> QED
  BY <1>7, <1>8, <1>9, <1>10 DEF CoreInv
-----------------------------------------------------------------------------
(* The provisioning pipeline.                                              *)

PcType == {"none", "start", "container", "configuring", "health", "config", "healthy",
           "running", "failed", "mark", "done"}

\* The steps that only look at the container, that write provisioning_state, and that write
\* the status: the phase before, the phase after, and what is written.
Looks == {<<"container", "configuring">>, <<"container", "failed">>, <<"health", "config">>,
          <<"health", "failed">>, <<"config", "healthy">>, <<"config", "failed">>}
ProvWrites == {<<"start", "container", "creating">>, <<"configuring", "health", "configuring">>,
               <<"healthy", "running", "healthy">>, <<"failed", "mark", "error">>}
StatusWrites == {<<"mark", "done", "error">>, <<"running", "done", "running">>}

LEMMA PipelineMoves ==
    ASSUME NEW g \in Generations, PipelineStep(g)
    PROVE  \E from \in PcType, to \in PcType :
             /\ Phase(g, from, to)
             /\ \/ <<from, to>> \in Looks /\ row' = row
                \/ \E s \in ProvisioningState :
                       <<from, to, s>> \in ProvWrites /\ UpdateProvisioningState(s)
                \/ \E s \in Status : <<from, to, s>> \in StatusWrites /\ UpdateAgentStatus(s)
<1>1. CASE SetState(g)
  BY <1>1 DEF SetState, PcType, ProvWrites, ProvisioningState
<1>2. CASE PollContainer(g) \/ PollHealth(g) \/ Configure(g)
  BY <1>2 DEF PollContainer, PollHealth, Configure, PcType, Looks
<1>3. CASE FailStep(g)
  <2>1. CASE Phase(g, "failed", "mark") /\ UpdateProvisioningState("error")
    BY <2>1 DEF PcType, ProvWrites, ProvisioningState
  <2>2. CASE Phase(g, "mark", "done") /\ UpdateAgentStatus("error")
    BY <2>2 DEF PcType, StatusWrites, Status
  <2> QED
    BY <1>3, <2>1, <2>2 DEF FailStep
<1>4. CASE MarkRunning(g)
  BY <1>4 DEF MarkRunning, PcType, StatusWrites, Status
<1> QED
  BY <1>1, <1>2, <1>3, <1>4 DEF PipelineStep

LEMMA PhaseEffect ==
    ASSUME TypeOK, NEW g \in Generations, NEW from \in PcType, NEW to \in PcType,
           Phase(g, from, to)
    PROVE  /\ pipeline' \in [Generations -> [pc : PcType, container : Containers]]
           /\ pipeline[g].pc = from /\ pipeline'[g].pc = to
           /\ \A h \in Generations \ {g} : pipeline'[h] = pipeline[h]
           /\ UNCHANGED <<secret, docker, cmd, rec, creates, commands, faults, history>>
<1>1. pipeline \in [Generations -> [pc : PcType, container : Containers]]
  BY DEF TypeOK, PcType
<1>2. pipeline' = [pipeline EXCEPT ![g].pc = to] /\ pipeline[g].pc = from
  BY DEF Phase
<1> QED
  BY <1>1, <1>2 DEF Phase

LEMMA PipelineCore ==
    ASSUME IInv, NEW g \in Generations, PipelineStep(g) PROVE CoreInv'
<1>0. /\ TypeOK /\ row \in RowType
      /\ CommandInv /\ TrackInv /\ WorkInv /\ SkipInv /\ OrderInv
  BY Types DEF IInv, CoreInv
<1>1. PICK from \in PcType, to \in PcType :
             /\ Phase(g, from, to)
             /\ \/ <<from, to>> \in Looks /\ row' = row
                \/ \E s \in ProvisioningState :
                       <<from, to, s>> \in ProvWrites /\ UpdateProvisioningState(s)
                \/ \E s \in Status : <<from, to, s>> \in StatusWrites /\ UpdateAgentStatus(s)
  BY PipelineMoves
<1>2. /\ pipeline[g].pc = from /\ pipeline'[g].pc = to
      /\ \A h \in Generations \ {g} : pipeline'[h] = pipeline[h]
      /\ UNCHANGED <<docker, cmd, history>>
  BY <1>0, <1>1, PhaseEffect
<1>3. SameAgent
  BY <1>0, <1>1, ProvWritten, StatusWritten DEF SameAgent
<1>4. CommandInv' /\ TrackInv'
  BY <1>0, <1>2, <1>3 DEF CommandInv, TrackInv, SameAgent
\* Without an earlier pipeline this one is the row's own.
<1>5. from \notin {"none", "done"} /\ Live(g)
  BY <1>1, <1>2 DEF Looks, ProvWrites, StatusWrites, Live
<1>6. row.exists /\ ~history.overlap =>
          /\ row.gen = g /\ cmd.op # "create" /\ row.prov \in Recorded(from)
          /\ \A h \in Generations \ {g} : ~Live(h)
  BY <1>0, <1>2, <1>5 DEF OrderInv
<1>7. CASE <<from, to>> \in Looks /\ row' = row
  <2>1. to \notin {"none", "done", "mark", "running"} /\ Working(g)' /\ Live(g)'
    BY <1>2, <1>7 DEF Looks, Working, Live
  <2>2. WorkInv'
    BY <2>1 DEF WorkInv
  <2>3. SkipInv'
    <3>1. \A h \in Generations : Live(h) => Live(h)'
      BY <1>2, <2>1 DEF Live
    <3> QED
      BY <1>0, <1>2, <1>7, <3>1 DEF SkipInv, CommandInv
  <2>4. Recorded(from) \subseteq Recorded(to)
    BY <1>7 DEF Looks, Recorded
  <2>5. OrderInv'
    BY <1>2, <1>6, <1>7, <2>4 DEF OrderInv, Live
  <2> QED
    BY <1>4, <2>2, <2>3, <2>5 DEF CoreInv
<1>8. CASE \E s \in ProvisioningState :
               <<from, to, s>> \in ProvWrites /\ UpdateProvisioningState(s)
  <2>1. PICK s \in ProvisioningState : <<from, to, s>> \in ProvWrites /\ UpdateProvisioningState(s)
    BY <1>8
  <2>2. row'.status = row.status /\ (row.exists => row'.prov = s)
    BY <1>0, <2>1, ProvWritten
  <2>3. to \notin {"none", "done"} /\ Live(g)'
    BY <1>2, <2>1 DEF ProvWrites, Live
  <2>4. s # "pending" /\ (s \in {"creating", "configuring"} => Working(g)')
    BY <1>2, <2>1 DEF ProvWrites, Working, Live
  <2>5. WorkInv'
    BY <1>3, <2>2, <2>4 DEF WorkInv, SameAgent
  <2>6. SkipInv'
    <3>1. \A h \in Generations : Live(h) => Live(h)'
      BY <1>2, <2>3 DEF Live
    <3> QED
      BY <1>0, <1>2, <1>3, <2>2, <3>1 DEF SkipInv, CommandInv, SameAgent
  <2>7. s \in Recorded(to)
    BY <2>1 DEF ProvWrites, Recorded
  <2>8. OrderInv'
    BY <1>2, <1>3, <1>6, <2>2, <2>7 DEF OrderInv, Live, SameAgent
  <2> QED
    BY <1>4, <2>5, <2>6, <2>8 DEF CoreInv
<1>9. CASE \E s \in Status : <<from, to, s>> \in StatusWrites /\ UpdateAgentStatus(s)
  <2>1. PICK s \in Status : <<from, to, s>> \in StatusWrites /\ UpdateAgentStatus(s)
    BY <1>9
  <2>2. row'.prov = row.prov /\ (row.exists => row'.status = s) /\ row'.prov \in ProvisioningState
    BY <1>0, <2>1, StatusWritten DEF RowType
  <2>3. s # "stopped" /\ to = "done" /\ from \in {"mark", "running"}
    BY <2>1 DEF StatusWrites
  <2>4. \A h \in Generations : Working(h) => Working(h)'
    BY <1>2, <2>3 DEF Working, Live
  <2>5. WorkInv'
    BY <1>0, <1>2, <1>3, <2>2, <2>4 DEF WorkInv, SameAgent
  <2>6. SkipInv'
    BY <1>0, <1>2, <1>3, <2>2, <2>3 DEF SkipInv, SameAgent
  <2>7. row'.prov \in Recorded(to)
    BY <2>2, <2>3 DEF Recorded
  <2>8. OrderInv'
    BY <1>2, <1>3, <1>6, <2>7 DEF OrderInv, Live, SameAgent
  <2> QED
    BY <1>4, <2>5, <2>6, <2>8 DEF CoreInv
<1> QED
  BY <1>1, <1>7, <1>8, <1>9
-----------------------------------------------------------------------------
(* Types.                                                                  *)

LEMMA ContainerStates ==
    ASSUME docker \in DockerType, NEW s \in {"absent", "created", "running", "exited"},
           NEW held \in BOOLEAN, docker' = [docker EXCEPT !.state = s, !.held = held]
    PROVE  docker' \in DockerType
  BY DEF DockerType

LEMMA RowTypeKept ==
    ASSUME TypeOK, [Next]_vars PROVE row' \in RowType
<1>0. row \in RowType /\ cmd \in CmdType /\ docker \in DockerType /\ creates \in 0..MaxCreates
      /\ rec.status \in Status
  BY Types DEF TypeOK
<1>1. CASE row' = row
  BY <1>0, <1>1
<1>2. CASE Create
  <2>1. row' = [NoRow EXCEPT !.exists = TRUE, !.gen = creates + 1, !.status = "creating"]
        /\ creates < MaxCreates
    BY <1>2 DEF Create
  <2>2. creates + 1 \in 0..MaxCreates /\ 0 \in Containers
    BY <1>0, <2>1, Bounds DEF Containers
  <2> QED
    BY <2>1, <2>2 DEF NoRow, RowType, Status, ProvisioningState
<1>3. CASE \E s \in Status : UpdateAgentStatus(s)
  BY <1>0, <1>3, StatusWritten
<1>4. CASE \E s \in ProvisioningState : UpdateProvisioningState(s)
  BY <1>0, <1>4, ProvWritten
<1>5. CASE MarkError \/ SpawnFailed
  BY <1>0, <1>5, ErrorMarked, SpawnHasFailed
<1>6. CASE \E b \in BOOLEAN : row' = [row EXCEPT !.mxid = b]
  BY <1>0, <1>6 DEF RowType
<1>7. CASE row' = [row EXCEPT !.container = docker.id]
  BY <1>0, <1>7 DEF RowType, DockerType
<1>8. CASE row' = NoRow
  <2>1. 0 \in Containers /\ 0 \in 0..MaxCreates
    BY Bounds DEF Containers
  <2> QED
    BY <1>8, <2>1 DEF NoRow, RowType, Status, ProvisioningState
<1>9. "error" \in ProvisioningState
      /\ {"error", "running", "stopped", "disabled"} \subseteq Status
  BY DEF ProvisioningState, Status
<1>10. CASE Stop \/ Delete \/ Disable \/ \E op \in {"start", "respawn"} : Start(op)
  BY <1>1, <1>10 DEF Stop, Delete, Disable, Start
<1>11. CASE MatrixRegister
  BY <1>1, <1>6, <1>11 DEF MatrixRegister
<1>12. CASE CommandStep
  <2>1. CASE Register
    BY <1>5, <1>6, <2>1 DEF Register
  <2>2. CASE FailCreate
    BY <1>4, <1>9, <2>2 DEF FailCreate
  <2>3. CASE Spawn \/ SpawnStart
    BY <1>1, <1>5, <2>3 DEF Spawn, SpawnStart
  <2>4. CASE SaveHandle
    BY <1>1, <1>7, <2>4 DEF SaveHandle
  <2>5. CASE StartContainer \/ Recover \/ StopContainer \/ RemoveContainer \/ DropMatrixToken
    BY <1>1, <2>5 DEF StartContainer, Recover, StopContainer, RemoveContainer, DropMatrixToken
  <2>6. CASE SetStatus
    <3>1. UpdateAgentStatus("stopped") \/ UpdateAgentStatus("running")
      BY <2>6 DEF SetStatus
    <3> QED
      BY <1>3, <1>9, <3>1
  <2>7. CASE UpdateAgentDisabled
    BY <1>3, <1>9, <2>7 DEF UpdateAgentDisabled
  <2>8. CASE DeleteRow
    BY <1>8, <2>8 DEF DeleteRow
  <2> QED
    BY <1>12, <2>1, <2>2, <2>3, <2>4, <2>5, <2>6, <2>7, <2>8 DEF CommandStep
<1>13. CASE \E g \in Generations : PipelineStep(g)
  BY <1>1, <1>3, <1>4, <1>13, PipelineMoves
<1>14. CASE ReconcilerStep
  <2>1. CASE ContainerMissing \/ WriteStatus
    BY <1>0, <1>3, <1>9, <2>1 DEF ContainerMissing, WriteStatus
  <2>2. CASE ListAgents \/ ListContainers \/ InspectContainer
    BY <1>1, <2>2 DEF ListAgents, ListContainers, InspectContainer
  <2> QED
    BY <1>14, <2>1, <2>2 DEF ReconcilerStep
<1>15. CASE ContainerDies \/ ContainerRestarts \/ Crash \/ UNCHANGED vars
  BY <1>1, <1>15 DEF ContainerDies, ContainerRestarts, Crash, vars
<1> QED
  BY <1>2, <1>10, <1>11, <1>12, <1>13, <1>14, <1>15 DEF Next

LEMMA CmdTypeKept ==
    ASSUME TypeOK, [Next]_vars PROVE cmd' \in CmdType
<1>0. row \in RowType /\ cmd \in CmdType
  BY Types
<1>1. CASE cmd' = cmd
  BY <1>0, <1>1
<1>2. CASE cmd' = IdleCmd
  BY <1>2 DEF IdleCmd, CmdType
<1>3. CASE \E pc \in {"recover", "spawn", "started", "handle", "status", "row", "secrets", "fail"} :
               Goto(pc)
  BY <1>0, <1>3, GoesOn
<1>4. CASE \E op \in {"create", "start", "respawn", "stop", "delete", "disable"},
              pc \in {"register", "docker", "recover", "status", "row"} : Accept(op, pc)
  BY <1>4, Accepted
<1>5. CASE MarkError \/ SpawnFailed
  BY <1>0, <1>5, ErrorMarked, SpawnHasFailed
<1>6. CASE Create \/ Stop \/ Delete \/ Disable \/ \E op \in {"start", "respawn"} : Start(op)
  BY <1>4, <1>6 DEF Create, Stop, Delete, Disable, Start
<1>7. CASE CommandStep
  <2>1. CASE Register \/ FailCreate \/ Spawn \/ SpawnStart
    BY <1>2, <1>3, <1>5, <2>1 DEF Register, FailCreate, Spawn, SpawnStart, Return
  <2>2. CASE SaveHandle \/ StartContainer \/ Recover \/ RemoveContainer
    BY <1>2, <1>3, <2>2 DEF SaveHandle, StartContainer, Recover, RemoveContainer, Return
  <2>3. CASE StopContainer
    <3>1. Goto("status") \/ Goto("row") \/ Return
      BY <2>3 DEF StopContainer
    <3> QED
      BY <1>2, <1>3, <3>1 DEF Return
  <2>4. CASE SetStatus \/ DeleteRow \/ UpdateAgentDisabled \/ DropMatrixToken
    BY <1>2, <1>3, <2>4 DEF SetStatus, DeleteRow, UpdateAgentDisabled, DropMatrixToken, Return
  <2> QED
    BY <1>7, <2>1, <2>2, <2>3, <2>4 DEF CommandStep
<1>8. CASE \E g \in Generations : PipelineStep(g)
  BY <1>1, <1>8, PipelineMoves DEF Phase
<1>9. CASE \/ MatrixRegister \/ ReconcilerStep \/ ContainerDies \/ ContainerRestarts \/ Crash
           \/ UNCHANGED vars
  BY <1>1, <1>2, <1>9 DEF MatrixRegister, ReconcilerStep, ListAgents, ListContainers,
     ContainerMissing, InspectContainer, WriteStatus, ContainerDies, ContainerRestarts, Crash, vars
<1> QED
  BY <1>6, <1>7, <1>8, <1>9 DEF Next

LEMMA DockerTypeKept ==
    ASSUME TypeOK, [Next]_vars PROVE docker' \in DockerType
<1>0. /\ docker \in DockerType /\ docker.id \in Containers /\ docker.id \in Nat
      /\ docker.state \in {"absent", "created", "running", "exited"}
  BY Types DEF DockerType
<1>1. CASE docker' = docker
  BY <1>0, <1>1
<1>2. CASE docker' = NoContainer(docker.id)
  BY <1>0, <1>2 DEF NoContainer, DockerType
<1>3. CASE \E s \in {"absent", "created", "running", "exited"} : docker' = [docker EXCEPT !.state = s]
  BY <1>0, <1>3 DEF DockerType
<1>4. CASE \E s \in {"absent", "created", "running", "exited"}, h \in BOOLEAN :
               docker' = [docker EXCEPT !.state = s, !.held = h]
  BY <1>0, <1>4, ContainerStates
<1>5. CASE Spawn
  <2>1. CASE /\ docker' = [id |-> docker.id + 1, state |-> "created", held |-> FALSE]
             /\ docker.id < MaxSpawns
    <3>1. docker.id + 1 \in Containers
      BY <1>0, <2>1, Bounds DEF Containers
    <3> QED
      BY <2>1, <3>1 DEF DockerType
  <2> QED
    BY <1>1, <1>5, <2>1 DEF Spawn
<1>6. CASE SpawnStart
  BY <1>3, <1>6 DEF SpawnStart
<1>7. CASE StartContainer
  BY <1>1, <1>4, <1>7 DEF StartContainer
<1>8. CASE StopContainer
  <2>1. PICK s \in {"absent", "created", "running", "exited"} :
            s = IF docker.state = "running" THEN "exited" ELSE docker.state
    BY <1>0
  <2>2. docker' = docker \/ docker' = [docker EXCEPT !.state = s, !.held = TRUE]
    BY <1>8, <2>1 DEF StopContainer
  <2> QED
    BY <1>1, <1>4, <2>2
<1>9. CASE RemoveContainer
  BY <1>1, <1>2, <1>4, <1>9 DEF RemoveContainer
<1>10. CASE \/ Create \/ Stop \/ Delete \/ Disable \/ MatrixRegister
            \/ \E op \in {"start", "respawn"} : Start(op)
  BY <1>1, <1>10 DEF Create, Stop, Delete, Disable, MatrixRegister, Start
<1>11. CASE \/ Register \/ FailCreate \/ SaveHandle \/ Recover \/ SetStatus \/ DeleteRow
            \/ UpdateAgentDisabled \/ DropMatrixToken
  BY <1>1, <1>11 DEF Register, FailCreate, SaveHandle, Recover, SetStatus, DeleteRow,
     UpdateAgentDisabled, DropMatrixToken
<1>12. CASE \E g \in Generations : PipelineStep(g)
  BY <1>1, <1>12, PipelineMoves DEF Phase
<1>13. CASE ReconcilerStep \/ Crash \/ UNCHANGED vars
  BY <1>1, <1>13 DEF ReconcilerStep, ListAgents, ListContainers, ContainerMissing,
     InspectContainer, WriteStatus, Crash, vars
<1>14. CASE ContainerDies \/ ContainerRestarts
  BY <1>2, <1>3, <1>14 DEF ContainerDies, ContainerRestarts
<1> QED
  BY <1>5, <1>6, <1>7, <1>8, <1>9, <1>10, <1>11, <1>12, <1>13, <1>14 DEF Next, CommandStep
LEMMA PipelineTypeKept ==
    ASSUME IInv, [Next]_vars
    PROVE  pipeline' \in [Generations -> [pc : PcType, container : Containers]]
<1>0. /\ TypeOK /\ pipeline \in [Generations -> [pc : PcType, container : Containers]]
      /\ docker.id \in Containers /\ CommandInv
  BY Types DEF IInv, CoreInv, TypeOK, PcType, DockerType
<1>1. CASE pipeline' = pipeline
  BY <1>0, <1>1
<1>2. CASE SaveHandle
  <2>1. CASE pipeline' = [pipeline EXCEPT ![row.gen] = [pc |-> "start", container |-> docker.id]]
    <3>1. [pc |-> "start", container |-> docker.id] \in [pc : PcType, container : Containers]
      BY <1>0 DEF PcType
    <3> QED
      BY <1>0, <2>1, <3>1
  <2> QED
    BY <1>1, <1>2, <2>1 DEF SaveHandle
<1>3. CASE \E g \in Generations : PipelineStep(g)
  BY <1>0, <1>3, PipelineMoves, PhaseEffect
<1>4. CASE Crash
  <2> SUFFICES ASSUME NEW g \in Generations
               PROVE  (IF pipeline[g].pc = "none" THEN pipeline[g]
                       ELSE [pipeline[g] EXCEPT !.pc = "done"]) \in [pc : PcType, container : Containers]
    BY <1>4 DEF Crash
  <2> QED
    BY <1>0 DEF PcType
<1>5. CASE \/ Create \/ Stop \/ Delete \/ Disable \/ MatrixRegister
           \/ \E op \in {"start", "respawn"} : Start(op)
  BY <1>1, <1>5 DEF Create, Stop, Delete, Disable, MatrixRegister, Start
<1>6. CASE \/ Register \/ FailCreate \/ Spawn \/ SpawnStart \/ StartContainer \/ Recover
           \/ StopContainer \/ SetStatus \/ RemoveContainer \/ DeleteRow
           \/ UpdateAgentDisabled \/ DropMatrixToken
  BY <1>1, <1>6 DEF Register, FailCreate, Spawn, SpawnStart, StartContainer, Recover,
     StopContainer, SetStatus, RemoveContainer, DeleteRow, UpdateAgentDisabled, DropMatrixToken
<1>7. CASE ReconcilerStep \/ ContainerDies \/ ContainerRestarts \/ UNCHANGED vars
  BY <1>1, <1>7 DEF ReconcilerStep, ListAgents, ListContainers, ContainerMissing,
     InspectContainer, WriteStatus, ContainerDies, ContainerRestarts, vars
<1> QED
  BY <1>2, <1>3, <1>4, <1>5, <1>6, <1>7 DEF Next, CommandStep

RecType == [pc : {"idle", "list", "missing", "inspect", "write"}, known : BOOLEAN,
            status : Status, container : Containers]

LEMMA RecTypeKept ==
    ASSUME TypeOK, [Next]_vars PROVE rec' \in RecType
<1>0. /\ rec \in RecType /\ row \in RowType /\ docker.id \in Containers
      /\ IdleRec \in RecType
  <2>1. 0 \in Containers
    BY Bounds DEF Containers
  <2> QED
    BY <2>1, Types DEF TypeOK, RecType, DockerType, IdleRec, Status
<1>1. CASE rec' = rec \/ rec' = IdleRec
  BY <1>0, <1>1
<1>2. CASE ListAgents
  <2>1. 0 \in Containers
    BY Bounds DEF Containers
  <2> QED
    BY <1>0, <1>2, <2>1 DEF ListAgents, RecType, RowType
<1>3. CASE ListContainers
  <2>1. [rec EXCEPT !.pc = "inspect", !.container = docker.id] \in RecType
    BY <1>0 DEF RecType
  <2>2. [rec EXCEPT !.pc = "missing"] \in RecType
    BY <1>0 DEF RecType
  <2>3. \/ rec' = IdleRec \/ rec' = [rec EXCEPT !.pc = "inspect", !.container = docker.id]
        \/ rec' = [rec EXCEPT !.pc = "missing"]
    BY <1>3 DEF ListContainers
  <2> QED
    BY <1>0, <2>1, <2>2, <2>3
<1>4. CASE InspectContainer
  <2>1. PICK new : new = containerStateToAgentStatus(Inspect(rec.container))
    OBVIOUS
  <2>2. new \in Status
    BY <2>1 DEF containerStateToAgentStatus, Status
  <2>3. rec' = IdleRec \/ rec' = [rec EXCEPT !.pc = "write", !.status = new]
    BY <1>4, <2>1 DEF InspectContainer
  <2>4. [rec EXCEPT !.pc = "write", !.status = new] \in RecType
    BY <1>0, <2>2 DEF RecType
  <2> QED
    BY <1>0, <2>3, <2>4
<1>5. CASE \/ Create \/ Stop \/ Delete \/ Disable \/ MatrixRegister
           \/ \E op \in {"start", "respawn"} : Start(op)
  BY <1>1, <1>5 DEF Create, Stop, Delete, Disable, MatrixRegister, Start
<1>6. CASE CommandStep
  BY <1>1, <1>6 DEF CommandStep, Register, FailCreate, Spawn, SpawnStart, SaveHandle,
     StartContainer, Recover, StopContainer, SetStatus, RemoveContainer, DeleteRow,
     UpdateAgentDisabled, DropMatrixToken
<1>7. CASE \E g \in Generations : PipelineStep(g)
  BY <1>1, <1>7, PipelineMoves DEF Phase
<1>8. CASE \/ ContainerMissing \/ WriteStatus \/ ContainerDies \/ ContainerRestarts \/ Crash
           \/ UNCHANGED vars
  BY <1>1, <1>8 DEF ContainerMissing, WriteStatus, ContainerDies, ContainerRestarts, Crash, vars
<1> QED
  BY <1>2, <1>3, <1>4, <1>5, <1>6, <1>7, <1>8 DEF Next, ReconcilerStep

LEMMA HistoryTypeKept ==
    ASSUME TypeOK, [Next]_vars PROVE history' \in HistoryType
<1>0. history \in HistoryType
  BY Types
<1>1. CASE history' = history
  BY <1>0, <1>1
<1>2. CASE \E b \in BOOLEAN : \/ history' = [history EXCEPT !.lost = b]
                              \/ history' = [history EXCEPT !.raced = b]
                              \/ history' = [history EXCEPT !.overlap = b]
                              \/ history' = [history EXCEPT !.crashed = TRUE, !.lost = b]
  BY <1>0, <1>2 DEF HistoryType
<1>3. CASE Create
  <2>1. PICK b \in BOOLEAN : b = \E g \in Generations : Live(g)
    OBVIOUS
  <2> QED
    BY <1>2, <1>3, <2>1 DEF Create
<1>4. CASE SpawnStart \/ SaveHandle \/ ContainerRestarts
  BY <1>1, <1>2, <1>4 DEF SpawnStart, SaveHandle, ContainerRestarts
<1>5. CASE WriteStatus
  <2>1. PICK b \in BOOLEAN :
            b = (history.raced \/ containerStateToAgentStatus(Inspect(rec.container)) # rec.status)
    OBVIOUS
  <2>2. history' = [history EXCEPT !.raced = b]
    BY <1>5, <2>1 DEF WriteStatus
  <2> QED
    BY <1>2, <2>2
<1>6. CASE Crash
  <2>1. PICK b \in BOOLEAN : b = (history.lost \/ cmd.pc \in {"started", "handle"})
    OBVIOUS
  <2>2. history' = [history EXCEPT !.crashed = TRUE, !.lost = b]
    BY <1>6, <2>1 DEF Crash
  <2> QED
    BY <1>2, <2>2
<1>7. CASE \/ Stop \/ Delete \/ Disable \/ MatrixRegister
           \/ \E op \in {"start", "respawn"} : Start(op)
  BY <1>1, <1>7 DEF Stop, Delete, Disable, MatrixRegister, Start
<1>8. CASE \/ Register \/ FailCreate \/ Spawn \/ StartContainer \/ Recover
           \/ StopContainer \/ SetStatus \/ RemoveContainer \/ DeleteRow
           \/ UpdateAgentDisabled \/ DropMatrixToken
  BY <1>1, <1>8 DEF Register, FailCreate, Spawn, StartContainer, Recover,
     StopContainer, SetStatus, RemoveContainer, DeleteRow, UpdateAgentDisabled, DropMatrixToken
<1>9. CASE \E g \in Generations : PipelineStep(g)
  BY <1>1, <1>9, PipelineMoves DEF Phase
<1>10. CASE \/ ListAgents \/ ListContainers \/ ContainerMissing \/ InspectContainer
            \/ ContainerDies \/ UNCHANGED vars
  BY <1>1, <1>10 DEF ListAgents, ListContainers, ContainerMissing, InspectContainer,
     ContainerDies, vars
<1> QED
  BY <1>3, <1>4, <1>5, <1>6, <1>7, <1>8, <1>9, <1>10 DEF Next, CommandStep, ReconcilerStep

LEMMA CountersKept ==
    ASSUME TypeOK, [Next]_vars
    PROVE  secret' \in BOOLEAN /\ creates' \in 0..MaxCreates /\ commands' \in Nat /\ faults' \in Nat
<1>0. secret \in BOOLEAN /\ creates \in 0..MaxCreates /\ commands \in Nat /\ faults \in Nat
  BY DEF TypeOK
<1>1. CASE UNCHANGED <<secret, creates, commands, faults>>
  BY <1>0, <1>1
<1>2. CASE UNCHANGED <<secret, creates, faults>> /\ commands' = commands + 1
  BY <1>0, <1>2
<1>3. CASE UNCHANGED <<secret, creates, commands>> /\ faults' = faults + 1
  BY <1>0, <1>3
<1>4. CASE Create
  BY <1>0, <1>4, Bounds DEF Create, Accept
<1>5. CASE Stop \/ Delete \/ Disable \/ \E op \in {"start", "respawn"} : Start(op)
  BY <1>2, <1>5 DEF Stop, Delete, Disable, Start, Accept
<1>6. CASE MatrixRegister \/ DropMatrixToken
  <2>1. UNCHANGED <<creates, faults>> /\ (commands' = commands + 1 \/ commands' = commands)
    BY <1>6 DEF MatrixRegister, DropMatrixToken
  <2>2. secret' = secret \/ secret' = TRUE \/ secret' = FALSE
    BY <1>6 DEF MatrixRegister, DropMatrixToken
  <2>3. secret' \in BOOLEAN
    BY <1>0, <2>2
  <2> QED
    BY <1>0, <2>1, <2>3
<1>7. CASE \/ Register \/ FailCreate \/ Spawn \/ SpawnStart \/ SaveHandle \/ StartContainer
           \/ Recover \/ StopContainer \/ SetStatus \/ RemoveContainer \/ DeleteRow
           \/ UpdateAgentDisabled
  BY <1>1, <1>7 DEF Register, FailCreate, Spawn, SpawnStart, SaveHandle, StartContainer, Recover,
     StopContainer, SetStatus, RemoveContainer, DeleteRow, UpdateAgentDisabled
<1>8. CASE \E g \in Generations : PipelineStep(g)
  BY <1>1, <1>8, PipelineMoves DEF Phase
<1>9. CASE ReconcilerStep \/ ContainerRestarts \/ UNCHANGED vars
  BY <1>1, <1>9 DEF ReconcilerStep, ListAgents, ListContainers, ContainerMissing,
     InspectContainer, WriteStatus, ContainerRestarts, vars
<1>10. CASE ContainerDies \/ Crash
  BY <1>3, <1>10 DEF ContainerDies, Crash, Fault
<1> QED
  BY <1>4, <1>5, <1>6, <1>7, <1>8, <1>9, <1>10 DEF Next, CommandStep

-----------------------------------------------------------------------------
(* The theorems.                                                           *)

LEMMA InitIInv ==
    ASSUME Init PROVE IInv
<1>1. 0 \in Containers /\ 0 \in 0..MaxCreates
  BY Bounds DEF Containers
<1>2. TypeOK
  BY <1>1 DEF Init, TypeOK, NoRow, NoContainer, IdleCmd, IdleRec, Status, ProvisioningState
<1>3. /\ (row.exists = FALSE) /\ row.container = 0 /\ docker.id = 0 /\ docker.state = "absent"
      /\ cmd.op = "none" /\ cmd.pc = "idle"
  BY DEF Init, NoRow, NoContainer, IdleCmd
<1> QED
  BY <1>2, <1>3 DEF IInv, CoreInv, CommandInv, TrackInv, WorkInv, SkipInv, OrderInv

LEMMA StepIInv ==
    ASSUME IInv, [Next]_vars PROVE IInv'
<1>1. TypeOK'
  BY RowTypeKept, CmdTypeKept, DockerTypeKept, PipelineTypeKept, RecTypeKept, HistoryTypeKept,
     CountersKept
  DEF IInv, TypeOK, RowType, CmdType, DockerType, PcType, RecType, HistoryType
<1>2. CoreInv'
  <2>1. CASE Create \/ FailCreate \/ SaveHandle \/ DeleteRow \/ WriteStatus \/ Crash
    BY <2>1, CreateCore, FailCreateCore, SaveHandleCore, DeleteRowCore, WriteStatusCore, CrashCore
  <2>2. CASE Stop \/ Delete \/ Disable \/ \E op \in {"start", "respawn"} : Start(op)
    BY <2>2, AcceptsCore
  <2>3. CASE \/ MatrixRegister \/ ListAgents \/ ListContainers \/ ContainerMissing
             \/ InspectContainer \/ UNCHANGED vars
    BY <2>3, RecordsCore
  <2>4. CASE Register \/ Recover \/ SetStatus \/ UpdateAgentDisabled \/ DropMatrixToken
    BY <2>4, WritesCore
  <2>5. CASE \/ StartContainer \/ StopContainer \/ RemoveContainer
             \/ ContainerDies \/ ContainerRestarts
    BY <2>5, ContainerCore
  <2>6. CASE Spawn \/ SpawnStart
    BY <2>6, SpawnCore
  <2>7. CASE \E g \in Generations : PipelineStep(g)
    BY <2>7, PipelineCore
  <2> QED
    BY <2>1, <2>2, <2>3, <2>4, <2>5, <2>6, <2>7 DEF Next, CommandStep, ReconcilerStep
<1> QED
  BY <1>1, <1>2 DEF IInv

\* The inductive invariant: commands, the reconciler, pipelines, crashes and Docker keep what
\* the row says about the container and the pipelines, at every step of every command.
THEOREM InductiveInvariant == Spec => []IInv
  BY InitIInv, StepIInv, PTL DEF Spec

\* Whatever the order of commands, provisioning goroutines, reconciler passes and Docker
\* incidents: the container under the agent's name is the one its row points to, an agent
\* whose provisioning has not ended has a pipeline at work on it, and the container of a
\* stopped agent does not run, except after the lost handles, crashes and races the
\* invariant names.
THEOREM Safe == Spec => []Inv
<1>1. IInv => Inv
  <2>1. ASSUME IInv PROVE ContainersAreTracked
    BY <2>1 DEF IInv, CoreInv, TrackInv, ContainersAreTracked
  <2>2. ASSUME IInv PROVE UnfinishedOnlyByCrash
    <3>1. CommandInv /\ WorkInv
      BY <2>2 DEF IInv, CoreInv
    <3>2. cmd.pc = "idle" => cmd.op # "create"
      BY <3>1 DEF CommandInv
    <3>3. (\E g \in Generations : Working(g)) => \E g \in Generations : Live(g)
      BY DEF Working
    <3> QED
      BY <3>1, <3>2, <3>3 DEF WorkInv, UnfinishedOnlyByCrash
  <2>3. ASSUME IInv PROVE SkippedRunsOnlyByRace
    BY <2>3 DEF IInv, CoreInv, SkipInv, SkippedRunsOnlyByRace
  <2> QED
    BY <2>1, <2>2, <2>3 DEF Inv, IInv
<1> QED
  BY <1>1, InductiveInvariant, PTL

\* provisioning_state of one agent moves only along pending, creating, configuring and
\* healthy or error, as setState and failStep of its own pipeline write it and as a failing
\* create does, unless the pipeline of a deleted agent of that name was left running.
THEOREM OrderKept == Spec => ProvisioningInOrder
<1>1. ASSUME IInv, [Next]_vars, row.exists, row'.gen = row.gen, row'.prov # row.prov,
             ~history.overlap
      PROVE  <<row.prov, row'.prov>> \in ProvisioningOrder
  <2>0. /\ TypeOK /\ row \in RowType /\ cmd \in CmdType /\ CommandInv /\ OrderInv
        /\ row.gen \in Generations /\ row.gen # 0
    <3>1. TypeOK /\ row \in RowType /\ cmd \in CmdType /\ CommandInv /\ OrderInv
      BY <1>1, Types DEF IInv, CoreInv
    <3> QED
      BY <1>1, <3>1, Bounds DEF CommandInv, Generations
  <2>1. CASE FailCreate
    <3>1. cmd.op = "create" /\ UpdateProvisioningState("error") /\ "error" \in ProvisioningState
      BY <2>0, <2>1 DEF FailCreate, CommandInv, ProvisioningState
    <3>2. row.prov = "pending" /\ row'.prov = "error"
      BY <1>1, <2>0, <3>1, ProvWritten DEF OrderInv
    <3> QED
      BY <3>2 DEF ProvisioningOrder
  <2>2. CASE \E g \in Generations : PipelineStep(g)
    <3>1. PICK g \in Generations : PipelineStep(g)
      BY <2>2
    <3>2. PICK from \in PcType, to \in PcType :
             /\ Phase(g, from, to)
             /\ \/ <<from, to>> \in Looks /\ row' = row
                \/ \E s \in ProvisioningState :
                       <<from, to, s>> \in ProvWrites /\ UpdateProvisioningState(s)
                \/ \E s \in Status : <<from, to, s>> \in StatusWrites /\ UpdateAgentStatus(s)
      BY <3>1, PipelineMoves
    <3>3. PICK s \in ProvisioningState : <<from, to, s>> \in ProvWrites /\ UpdateProvisioningState(s)
      BY <1>1, <2>0, <3>2, StatusWritten
    <3>4. row'.prov = s /\ pipeline[g].pc = from /\ from \in {"start", "configuring", "healthy", "failed"}
      BY <1>1, <2>0, <3>2, <3>3, ProvWritten, PhaseEffect DEF ProvWrites
    <3>5. g = row.gen /\ row.prov \in Recorded(from)
      BY <1>1, <2>0, <3>4 DEF OrderInv, Live
    <3> QED
      BY <3>3, <3>4, <3>5 DEF ProvWrites, Recorded, ProvisioningOrder
  <2>3. CASE \E st \in Status : UpdateAgentStatus(st)
    BY <1>1, <2>0, <2>3, StatusWritten
  <2>4. {"error", "running", "stopped", "disabled"} \subseteq Status /\ rec.status \in Status
    BY <2>0 DEF Status, TypeOK
  <2>5. CASE MarkError \/ SpawnFailed
    BY <1>1, <2>0, <2>5, ErrorMarked, SpawnHasFailed
  <2>6. CASE row' = row
    BY <1>1, <2>6
  <2>7. CASE \E b : row' = [row EXCEPT !.mxid = b] \/ row' = [row EXCEPT !.container = b]
    BY <1>1, <2>0, <2>7 DEF RowType
  <2>8. CASE row' = NoRow
    BY <1>1, <2>0, <2>8 DEF NoRow
  <2>9. CASE Create
    BY <1>1, <2>9 DEF Create
  <2>10. CASE CommandStep
    <3>1. CASE Register \/ Spawn \/ SpawnStart \/ SaveHandle
      BY <2>5, <2>6, <2>7, <3>1 DEF Register, Spawn, SpawnStart, SaveHandle
    <3>2. CASE StartContainer \/ Recover \/ StopContainer \/ RemoveContainer \/ DropMatrixToken
      BY <2>6, <3>2 DEF StartContainer, Recover, StopContainer, RemoveContainer, DropMatrixToken
    <3>3. CASE SetStatus
      <4>1. UpdateAgentStatus("stopped") \/ UpdateAgentStatus("running")
        BY <3>3 DEF SetStatus
      <4> QED
        BY <2>3, <2>4, <4>1
    <3>4. CASE UpdateAgentDisabled
      BY <2>3, <2>4, <3>4 DEF UpdateAgentDisabled
    <3>5. CASE DeleteRow
      BY <2>8, <3>5 DEF DeleteRow
    <3> QED
      BY <2>1, <2>10, <3>1, <3>2, <3>3, <3>4, <3>5 DEF CommandStep
  <2>11. CASE MatrixRegister
    BY <2>6, <2>7, <2>11 DEF MatrixRegister
  <2>12. CASE Stop \/ Delete \/ Disable \/ \E op \in {"start", "respawn"} : Start(op)
    BY <2>6, <2>12 DEF Stop, Delete, Disable, Start
  <2>13. CASE ReconcilerStep
    <3>1. CASE ContainerMissing \/ WriteStatus
      BY <2>3, <2>4, <3>1 DEF ContainerMissing, WriteStatus
    <3>2. CASE ListAgents \/ ListContainers \/ InspectContainer
      BY <2>6, <3>2 DEF ListAgents, ListContainers, InspectContainer
    <3> QED
      BY <2>13, <3>1, <3>2 DEF ReconcilerStep
  <2>14. CASE ContainerDies \/ ContainerRestarts \/ Crash \/ UNCHANGED vars
    BY <2>6, <2>14 DEF ContainerDies, ContainerRestarts, Crash, vars
  <2> QED
    BY <1>1, <2>2, <2>9, <2>10, <2>11, <2>12, <2>13, <2>14 DEF Next
<1>2. IInv /\ [Next]_vars =>
          [/\ row.exists /\ row'.gen = row.gen /\ row'.prov # row.prov /\ ~history.overlap
           => <<row.prov, row'.prov>> \in ProvisioningOrder]_vars
  BY <1>1
<1> QED
  BY <1>2, InductiveInvariant, PTL DEF Spec, ProvisioningInOrder
=============================================================================
