--------------------------- MODULE GosutoVersions ---------------------------
(***************************************************************************)
(* The Gosuto configuration of one agent: the version table in Ruriko, the *)
(* agents row that says what was pushed (desired) and what the agent runs  *)
(* (actual), the agent's live configuration and the copy it keeps for its  *)
(* next start.                                                             *)
(*                                                                         *)
(* Two parties write versions without a common lock: the command loop, one *)
(* command at a time, and the provisioning goroutine, which stores the     *)
(* rendered template, pushes it, verifies it and then re-enters topology   *)
(* peer-ensure.  Every SQL statement and every HTTP request is a step;     *)
(* statements succeed except for the UNIQUE(agent_id, version) conflict.   *)
(* A document is a function from sections to values; its SHA-256 hash is   *)
(* the document itself.  Documents are valid: both sides run the same      *)
(* validation before anything is stored.                                   *)
(***************************************************************************)
EXTENDS Naturals, FiniteSetsExt

CONSTANTS Sections,     \* sections of a Gosuto document
          Topology,     \* the section the topology commands rewrite
          Values,       \* values of a section
          Template,     \* the document the pipeline renders
          Documents,    \* the documents operators set
          PeerTuple,    \* the topology the pipeline ensures at its end
          KeepN,        \* GosutoVersionsRetainN
          MaxAttempts,  \* retry.DefaultConfig.MaxAttempts
          MaxCalls,     \* bound: requests the agent serves at the same time
          MaxCommands,  \* bound: commands accepted
          MaxFaults     \* bound: agent restarts and failed saves

ASSUME GosutoAssumption ==
    /\ Topology \in Sections /\ PeerTuple \in Values
    /\ Documents \cup {Template} \subseteq [Sections -> Values]
    /\ {KeepN, MaxAttempts} \subseteq Nat \ {0}
    /\ {MaxCalls, MaxCommands, MaxFaults} \subseteq Nat

Configs == [Sections -> Values]
None == [none |-> TRUE]             \* NULL, or no configuration loaded
Writers == {"command", "pipeline"}
Calls == 1..MaxCalls
MaxVersions == MaxCommands + 2      \* the pipeline stores at most two
Versions == 1..MaxVersions

VARIABLES versions,   \* gosuto_versions: number -> document
          row,        \* agents: gosuto_version, desired and actual hash, health
          writer,     \* what each writer is doing
          call,       \* the requests the agent is serving
          live,       \* agent: the Loader's configuration
          saved,      \* agent: applied_config
          rec,        \* reconcileACP; drift says whether the last pass raised an alert
          commands,   \* commands accepted so far
          faults,     \* agent restarts and failed saves so far
          top,        \* history: the highest number ever stored
          unsaved     \* history: applied_config may differ from the live configuration

vars == <<versions, row, writer, call, live, saved, rec, commands, faults, top, unsaved>>
agent == <<call, live, saved>>

\* number: the version read, then MAX(version) + 1; since, gap: versions the other writer
\* has stored since the first and since the second of these reads.
Local == [pc : {"idle", "render", "latest", "next", "insert", "prune", "push", "wait",
                "applied", "desired", "verify", "actual", "ensure"},
          op : {"set", "patch", "push", "provision"}, section : Sections,
          doc : Configs \cup {None}, number : 0..MaxVersions, push : BOOLEAN,
          attempt : 0..MaxAttempts, call : 0..MaxCalls, since : Nat, gap : Nat]

Idle == [pc |-> "idle", op |-> "push", section |-> Topology, doc |-> None, number |-> 0,
         push |-> FALSE, attempt |-> 0, call |-> 0, since |-> 0, gap |-> 0]

NoCall == [pc |-> "none", doc |-> None]

TypeOK ==
    /\ DOMAIN versions \subseteq Versions
    /\ \A v \in DOMAIN versions : versions[v] \in Configs
    /\ row \in [version : 0..MaxVersions, desired : Configs \cup {None},
                actual : Configs \cup {None}, healthy : BOOLEAN]
    /\ writer \in [Writers -> Local]
    /\ call \in [Calls -> [pc : {"none", "apply", "save", "reply"}, doc : Configs \cup {None}]]
    /\ live \in Configs \cup {None}
    /\ saved \in Configs \cup {None}
    /\ rec \in [pc : {"idle", "status"}, desired : Configs \cup {None}, drift : BOOLEAN]
    /\ commands \in 0..MaxCommands
    /\ faults \in 0..MaxFaults
    /\ top \in 0..MaxVersions
    /\ unsaved \in BOOLEAN

\* HandleAgentsCreate has just launched the pipeline.
Init ==
    /\ versions = [v \in {} |-> None]
    /\ row = [version |-> 0, desired |-> None, actual |-> None, healthy |-> FALSE]
    /\ writer = [w \in Writers |->
           IF w = "pipeline" THEN [Idle EXCEPT !.op = "provision", !.pc = "render"] ELSE Idle]
    /\ call = [c \in Calls |-> NoCall]
    /\ live = None
    /\ saved = None
    /\ rec = [pc |-> "idle", desired |-> None, drift |-> FALSE]
    /\ commands = 0
    /\ faults = 0
    /\ top = 0
    /\ unsaved = FALSE

-----------------------------------------------------------------------------
(* The version table.                                                      *)

Stored == DOMAIN versions # {}
Latest == Max(DOMAIN versions)

NextGosutoVersion == IF Stored THEN Latest + 1 ELSE 1

\* PruneGosutoVersions: the KeepN highest numbers stay.
PruneGosutoVersions(vs) ==
    [v \in {n \in DOMAIN vs : Cardinality({m \in DOMAIN vs : m > n}) < KeepN} |-> vs[v]]

-----------------------------------------------------------------------------
(* Writers.                                                                *)

Step(w, pc, to) ==
    /\ writer[w].pc = pc
    /\ writer' = [writer EXCEPT ![w].pc = to]

Become(w, local) == writer' = [writer EXCEPT ![w] = local]

\* About to push a document that is stored.
Pushing(doc) == [Idle EXCEPT !.pc = "push", !.doc = doc]

Accept ==
    /\ writer["command"].pc = "idle"
    /\ commands < MaxCommands
    /\ commands' = commands + 1

\* HandleGosutoSet with a document, once approved.
Set(doc) ==
    /\ Accept
    /\ Become("command", [Idle EXCEPT !.op = "set", !.pc = "latest", !.doc = doc])
    /\ UNCHANGED <<versions, row, agent, rec, faults, top, unsaved>>

\* HandleGosutoRollback to version v, once approved: the document of v, set again.
Rollback(v) ==
    /\ v \in DOMAIN versions
    /\ Set(versions[v])

\* The pipeline has rendered a template and injected the mesh topology.
Render ==
    /\ writer["pipeline"].pc = "render"
    /\ Become("pipeline", [writer["pipeline"] EXCEPT !.pc = "latest", !.doc = Template])
    /\ UNCHANGED <<versions, row, agent, rec, commands, faults, top, unsaved>>

\* A document equal to the latest version is not stored again: set reports that, the
\* pipeline goes on to push the version it found.
CompareLatest(w) ==
    /\ IF Stored /\ versions[Latest] = writer[w].doc
       THEN IF w = "pipeline"
            THEN writer[w].pc = "latest"
                 /\ writer' = [writer EXCEPT ![w].pc = "push", ![w].number = Latest]
            ELSE writer[w].pc = "latest" /\ Become(w, Idle)
       ELSE Step(w, "latest", "next")
    /\ UNCHANGED <<versions, row, agent, rec, commands, faults, top, unsaved>>

\* Mutant: the document last pushed is edited instead of the latest one.
EditsPushed(w, s, x, push) ==
    LET doc == [(IF row.desired = None THEN versions[Latest] ELSE row.desired) EXCEPT ![s] = x]
    IN  Become(w, IF doc # versions[Latest]
                  THEN [Idle EXCEPT !.op = "patch", !.pc = "next", !.section = s, !.doc = doc,
                                    !.push = push]
                  ELSE IF push THEN Pushing(doc) ELSE Idle)

\* patchCurrentGosuto, UpdateAgentMeshTopology and the topology commands: read the latest
\* document, replace one section; an unchanged document is pushed if that was asked for.
Edit(w, s, x, push) ==
    LET doc == [versions[Latest] EXCEPT ![s] = x]
    IN  Become(w, IF doc # versions[Latest]
                  THEN [Idle EXCEPT !.op = "patch", !.pc = "next", !.section = s, !.doc = doc,
                                    !.push = push]
                  ELSE IF push THEN Pushing(doc) ELSE Idle)

\* gosuto set-instructions and set-persona: stored, never pushed.
Patch(s, x) ==
    /\ Accept
    /\ Stored
    /\ s # Topology
    /\ Edit("command", s, x, FALSE)
    /\ UNCHANGED <<versions, row, agent, rec, faults, top, unsaved>>

\* topology refresh, peer-set, peer-ensure and peer-remove, the latter ones once approved.
EditTopology(x, push) ==
    /\ Accept
    /\ Stored
    /\ Edit("command", Topology, x, push)
    /\ UNCHANGED <<versions, row, agent, rec, faults, top, unsaved>>

\* runCanonicalProvisioningEnsure: skipped for other templates, stopped by the approval gate
\* or by a conflict, or an edit of the topology that is pushed.
Ensure ==
    /\ writer["pipeline"].pc = "ensure"
    /\ \/ Become("pipeline", Idle)
       \/ Stored /\ Edit("pipeline", Topology, PeerTuple, TRUE)
    /\ UNCHANGED <<versions, row, agent, rec, commands, faults, top, unsaved>>

\* HandleGosutoPush of the latest version.
Push ==
    /\ Accept
    /\ Stored
    /\ Become("command", Pushing(versions[Latest]))
    /\ UNCHANGED <<versions, row, agent, rec, faults, top, unsaved>>

ReadNext(w) ==
    /\ writer[w].pc = "next"
    /\ writer' = [writer EXCEPT ![w].pc = "insert", ![w].number = NextGosutoVersion, ![w].gap = 0]
    /\ UNCHANGED <<versions, row, agent, rec, commands, faults, top, unsaved>>

\* An edit was derived from the latest version and is not stored yet.
Composing(w) == writer[w].op = "patch" /\ writer[w].pc \in {"next", "insert"}

\* CreateGosutoVersion: one transaction that inserts the row and sets gosuto_version; a
\* number that is taken violates UNIQUE and ends the command or the pipeline.
Insert(w) ==
    LET n == writer[w].number
    IN  /\ writer[w].pc = "insert"
        /\ IF n \in DOMAIN versions
           THEN Become(w, Idle) /\ UNCHANGED <<versions, row, top>>
           ELSE /\ versions' = [v \in DOMAIN versions \cup {n} |->
                                    IF v = n THEN writer[w].doc ELSE versions[v]]
                /\ row' = [row EXCEPT !.version = n]
                /\ writer' = [u \in Writers |->
                       IF u = w THEN [writer[u] EXCEPT !.pc = "prune", !.since = 0, !.gap = 0]
                       ELSE [writer[u] EXCEPT
                           !.since = IF Composing(u) THEN @ + 1 ELSE @,
                           !.gap = IF writer[u].pc = "insert" THEN @ + 1 ELSE @]]
                /\ top' = Max({top, n})
        /\ UNCHANGED <<agent, rec, commands, faults, unsaved>>

Prune(w) ==
    /\ writer[w].pc = "prune"
    /\ versions' = PruneGosutoVersions(versions)
    /\ IF writer[w].op = "provision" THEN Step(w, "prune", "push")
       ELSE Become(w, IF writer[w].push THEN Pushing(writer[w].doc) ELSE Idle)
    /\ UNCHANGED <<row, agent, rec, commands, faults, top, unsaved>>

Waiting(w, c) == writer[w].pc = "wait" /\ writer[w].call = c

\* pushGosuto, one attempt: the request is lost, or the agent starts serving it.
Send(w) ==
    LET free == {c \in Calls : call[c].pc = "none"}
        Sent(c) == writer' = [writer EXCEPT ![w].pc = "wait", ![w].attempt = @ + 1, ![w].call = c]
    IN  /\ writer[w].pc = "push"
        /\ \/ Sent(0) /\ UNCHANGED call
           \/ /\ free # {}
              /\ Sent(Min(free))
              /\ call' = [call EXCEPT ![Min(free)] = [pc |-> "apply", doc |-> writer[w].doc]]
        /\ UNCHANGED <<versions, row, live, saved, rec, commands, faults, top, unsaved>>

\* The answer of the current attempt arrives.
Answered(w) ==
    /\ \E c \in Calls : /\ Waiting(w, c) /\ call[c].pc = "reply"
                        /\ call' = [call EXCEPT ![c] = NoCall]
    /\ writer' = [writer EXCEPT ![w].attempt = 0, ![w].call = 0,
                      ![w].pc = IF writer[w].op = "provision" THEN "applied" ELSE "desired"]
    /\ UNCHANGED <<versions, row, live, saved, rec, commands, faults, top, unsaved>>

\* The request or its answer is lost, or the attempt times out while the agent goes on
\* serving it: retry.Do tries again, or the push has failed.
AttemptFailed(w) ==
    /\ writer[w].pc = "wait"
    /\ IF writer[w].attempt < MaxAttempts
       THEN writer' = [writer EXCEPT ![w].pc = "push", ![w].call = 0]
       ELSE Become(w, Idle)
    /\ call' = [c \in Calls |-> IF Waiting(w, c) /\ call[c].pc = "reply" THEN NoCall ELSE call[c]]
    /\ UNCHANGED <<versions, row, live, saved, rec, commands, faults, top, unsaved>>

\* The pipeline's UpdateAgentGosutoApplied.
RecordApplied ==
    /\ Step("pipeline", "applied", "desired")
    /\ row' = [row EXCEPT !.version = writer["pipeline"].number]
    /\ UNCHANGED <<versions, agent, rec, commands, faults, top, unsaved>>

\* SetAgentDesiredGosutoHash after a push that succeeded.
RecordDesired(w) ==
    /\ writer[w].pc = "desired"
    /\ row' = [row EXCEPT !.desired = writer[w].doc]
    /\ IF writer[w].op = "provision" THEN Step(w, "desired", "verify") ELSE Become(w, Idle)
    /\ UNCHANGED <<versions, agent, rec, commands, faults, top, unsaved>>

\* GET /status: the call fails, the agent reports another hash, or provisioning goes on
\* with the pushed hash (also when the agent reports none).
VerifyStatus ==
    /\ writer["pipeline"].pc = "verify"
    /\ \/ Become("pipeline", Idle)
       \/ live \in {None, writer["pipeline"].doc} /\ Step("pipeline", "verify", "actual")
    /\ UNCHANGED <<versions, row, agent, rec, commands, faults, top, unsaved>>

\* SetAgentActualGosutoHash, push the secrets, then provisioning_state healthy.
RecordActual ==
    /\ Step("pipeline", "actual", "ensure")
    /\ row' = [row EXCEPT !.actual = writer["pipeline"].doc, !.healthy = TRUE]
    /\ UNCHANGED <<versions, agent, rec, commands, faults, top, unsaved>>

WriterStep(w) ==
    \/ CompareLatest(w) \/ ReadNext(w) \/ Insert(w) \/ Prune(w)
    \/ Send(w) \/ Answered(w) \/ AttemptFailed(w) \/ RecordDesired(w)

PipelineStep ==
    \/ Render \/ RecordApplied \/ VerifyStatus \/ RecordActual \/ Ensure

-----------------------------------------------------------------------------
(* The agent: handleConfigApply serves every request in a goroutine.       *)

\* Loader.Apply, under its lock.
ApplyConfig(c) ==
    /\ call[c].pc = "apply"
    /\ live' = call[c].doc
    /\ call' = [call EXCEPT ![c].pc = "save"]
    /\ unsaved' = (unsaved \/ \E d \in Calls : call[d].pc = "save")
    /\ UNCHANGED <<versions, row, writer, saved, rec, commands, faults, top>>

\* The request is served: an answer goes to the writer that waits for it.
Served(c) ==
    call' = [call EXCEPT ![c] =
        IF \E w \in Writers : Waiting(w, c) THEN [call[c] EXCEPT !.pc = "reply"] ELSE NoCall]

\* Mutant: ON CONFLICT DO NOTHING.
SaveFirstOnly(c) ==
    /\ call[c].pc = "save"
    /\ Served(c)
    /\ saved' = IF saved = None THEN call[c].doc ELSE saved
    /\ UNCHANGED <<versions, row, writer, live, rec, commands, faults, top, unsaved>>

\* SaveAppliedConfig, whose error is ignored, and the reconciliation of the supervisors.
SaveAppliedConfig(c) ==
    /\ call[c].pc = "save"
    /\ Served(c)
    /\ \/ saved' = call[c].doc /\ UNCHANGED <<faults, unsaved>>
       \/ /\ faults < MaxFaults
          /\ faults' = faults + 1
          /\ unsaved' = TRUE
          /\ UNCHANGED saved
    /\ UNCHANGED <<versions, row, writer, live, rec, commands, top>>

AgentStep(c) == ApplyConfig(c) \/ SaveAppliedConfig(c)

\* The agent restarts without a GITAI_GOSUTO_FILE: requests are gone, the saved
\* configuration is loaded.
Restart ==
    /\ faults < MaxFaults
    /\ faults' = faults + 1
    /\ call' = [c \in Calls |-> NoCall]
    /\ writer' = [w \in Writers |-> [writer[w] EXCEPT !.call = 0]]
    /\ live' = saved
    /\ unsaved' = FALSE
    /\ UNCHANGED <<versions, row, saved, rec, commands, top>>

-----------------------------------------------------------------------------
(* Reconciler.reconcileACP.                                                *)

\* The row is listed: only healthy agents are asked.
ListAgents ==
    /\ rec.pc = "idle"
    /\ row.healthy
    /\ rec' = [rec EXCEPT !.pc = "status", !.desired = row.desired]
    /\ UNCHANGED <<versions, row, writer, agent, commands, faults, top, unsaved>>

\* GET /status fails or reports no hash: the agent is left for the next pass.
StatusUnknown ==
    /\ rec.pc = "status"
    /\ rec' = [rec EXCEPT !.pc = "idle", !.desired = None]
    /\ UNCHANGED <<versions, row, writer, agent, commands, faults, top, unsaved>>

\* Mutant: the reported hash is compared with the one of the previous pass.
WriteActualAgainstOld ==
    /\ rec.pc = "status"
    /\ live # None
    /\ row' = [row EXCEPT !.actual = live]
    /\ rec' = [pc |-> "idle", desired |-> None, drift |-> row.actual # live]
    /\ UNCHANGED <<versions, writer, agent, commands, faults, top, unsaved>>

\* GET /status reports the live hash: SetAgentActualGosutoHash, and a drift alert against
\* the desired hash that was listed.  One step with the request, because no other party
\* reads or writes the actual hash of a healthy agent.
WriteActual ==
    /\ rec.pc = "status"
    /\ live # None
    /\ row' = [row EXCEPT !.actual = live]
    /\ rec' = [pc |-> "idle", desired |-> None, drift |-> rec.desired \notin {None, live}]
    /\ UNCHANGED <<versions, writer, agent, commands, faults, top, unsaved>>

Next ==
    \/ \E doc \in Documents : Set(doc)
    \/ \E v \in Versions : Rollback(v)
    \/ \E s \in Sections, x \in Values : Patch(s, x)
    \/ \E x \in Values, push \in BOOLEAN : EditTopology(x, push)
    \/ Push
    \/ \E w \in Writers : WriterStep(w)
    \/ PipelineStep
    \/ \E c \in Calls : AgentStep(c)
    \/ Restart
    \/ ListAgents \/ StatusUnknown \/ WriteActual

Spec == Init /\ [][Next]_vars

\* Handlers return, the agent serves what it received, the reconciler's ticker fires and
\* GET /status does not fail for ever.
FairSpec ==
    /\ Spec
    /\ WF_vars(WriterStep("command"))
    /\ WF_vars(WriterStep("pipeline") \/ PipelineStep)
    /\ \A c \in Calls : WF_vars(AgentStep(c))
    /\ WF_vars(ListAgents \/ StatusUnknown \/ WriteActual)
    /\ SF_vars(WriteActual)

-----------------------------------------------------------------------------
(* Properties.                                                             *)

\* A stored version never changes and its number is not given out again, although number
\* and row are written by separate statements of two writers.  Reuse takes more than KeepN
\* versions stored between SELECT MAX and INSERT, so that the first row was pruned.
NumberReusedOnlyByOverrun ==
    [][\A v \in DOMAIN versions' :
         IF v \in DOMAIN versions THEN versions'[v] = versions[v]
         ELSE v > top \/ \E w \in Writers : writer[w].number = v /\ writer[w].gap > KeepN]_vars

\* Retention: apart from rows a writer is about to prune at most KeepN versions are kept,
\* and the highest number ever stored is among them, so that it stays the latest.
RetentionHolds ==
    /\ Cardinality(DOMAIN versions)
           <= KeepN + Cardinality({w \in Writers : writer[w].pc = "prune"})
    /\ top > 0 => Stored /\ Latest = top

\* gosuto_handlers.go: an edit of one section leaves "all other sections unchanged" against
\* the version it supersedes, unless another version was stored after it read its base.
EditKeepsOtherSections ==
    [][\A w \in Writers :
         /\ writer[w].pc = "insert" /\ writer'[w].pc = "prune"
         /\ writer[w].op = "patch" /\ writer[w].since = 0
         => \A s \in Sections \ {writer[w].section} :
               writer[w].doc[s] = versions[Latest][s]]_vars

\* What the agent would load at its next start is what it runs now, unless two requests
\* were between applying and saving at the same time, or a save failed silently.
SavedMatchesLive ==
    (\A c \in Calls : call[c].pc # "save")
    => saved = live \/ unsaved

\* Whatever pushes, timeouts and restarts have left behind: for a healthy agent the row
\* ends up with the configuration it really runs, and a drift alert is raised exactly when
\* that is not the one last pushed.
DriftIsSeen ==
    <>[](row.healthy /\ live # None =>
            row.actual = live /\ (rec.drift <=> row.desired \notin {None, live}))

\* The state is well typed, pruning by two writers keeps the newest version and the limit,
\* and the agent loads at its next start what it runs now unless a save failed or was
\* overtaken.
Inv == TypeOK /\ RetentionHolds /\ SavedMatchesLive

\* A stored version never changes and its number comes again only after an overrun
\* (CreateGosutoVersion), and an edit that nobody overtook keeps the other sections
\* (patchCurrentGosuto).
HistoryIsKept == NumberReusedOnlyByOverrun /\ EditKeepsOtherSections
=============================================================================
