----------------------------- MODULE AgentTurns -----------------------------
(***************************************************************************)
(* An agent at work (internal/gitai/app/app.go and the request handlers of *)
(* internal/gitai/control/server.go): Matrix messages handled one after    *)
(* the other by the sync loop, gateway events each handled by a goroutine  *)
(* of its own, and tool calls of the control plane, all dispatching tools  *)
(* through ToolGate while configurations are pushed.  Events come through  *)
(* EventIngress.                                                           *)
(*                                                                         *)
(* Turns are numbered as they begin.  A turn's pc: begin (runTurn or the   *)
(* workflow is about to start), llm (about to call the model), answer      *)
(* (waiting for it), tools (calls of the answer are left), step (of a      *)
(* workflow), tool (a call is dispatched), end, done.  A turn that was     *)
(* under way when the process ended is lost.                               *)
(***************************************************************************)
EXTENDS ToolGate, EventIngress

CONSTANTS Turns,        \* turns that may begin, 1..n
          Calls,        \* control requests: POST /tools/call and /process/restart
          MaxRounds,    \* maxToolCallRounds
          CacheTTL,     \* idempotencyTTL
          Deployments   \* agents to explore, with what happens to each

ASSUME TurnsAssumption ==
    /\ MaxRounds \in Nat \ {0} /\ CacheTTL \in Nat \ {0}
    /\ Executors = Turns \cup Calls /\ Turns \cap Calls = {} /\ Turns \subseteq Nat \ {0}
    /\ \A d \in Deployments :
          /\ d.configs # {} /\ d.limit \in Nat /\ d.pushes \in Nat
          /\ d.decisions \in Nat /\ d.restarts \in Nat /\ d.steps \in Nat
          /\ DOMAIN d.calls \subseteq Calls /\ DOMAIN d.deliveries \subseteq Deliveries
          /\ Len(d.messages) \in Nat /\ d.rows \subseteq [enabled : BOOLEAN, url : BOOLEAN]
          /\ \A x \in DOMAIN d.deliveries : d.deliveries[x].via \in {"proxy", "remote", "local"}
          /\ \A cfg \in d.configs :
                /\ Len(cfg.caps) \in Nat /\ DOMAIN cfg.caps = 1..Len(cfg.caps)
                /\ cfg.ttl \in Nat /\ cfg.perMinute \in Nat /\ cfg.maxEvents \in Nat

VARIABLES deployment,
          sent,        \* messages sent to the agent's rooms so far
          sync,        \* the sync loop: messages seen since start, and its pc
          stale,       \* messages sent before the process started
          turns,       \* turns begun so far
          turnLog,     \* the turn_log table, by turn
          llmCalls,    \* App.llmCalls
          completions, \* history: requests made to the model since start
          control,     \* the control requests
          cache,       \* the control server's idempotency cache
          shaky,       \* history: keys of which an earlier request may have
                       \* acted and is not in the cache
          stopping,    \* Run's context is cancelled
          pushes, decisions, restarts

turnVars == <<turns, turnLog, llmCalls, completions>>
syncVars == <<sent, sync, stale>>
controlVars == <<control, cache, shaky, stopping>>
boundVars == <<pushes, decisions, restarts>>
vars == <<gateVars, ingressVars, deployment, turnVars, syncVars, controlVars, boundVars>>

Under == DOMAIN turns
TurnAt(t, pc) == t \in Under /\ turns[t].pc = pc
TurnGoes(t, pc) == turns' = [turns EXCEPT ![t].pc = pc]
TurnEnds(t, ok) == turns' = [turns EXCEPT ![t].pc = "end", ![t].ok = ok]

TypeOK ==
    /\ GateTypeOK /\ IngressTypeOK
    /\ deployment \in Deployments
    /\ config \in deployment.configs /\ latest \in deployment.configs
    /\ sent \in 0..Len(deployment.messages) /\ stale \in 0..sent
    /\ sync.seen \in 0..sent /\ sync.pc \in {"idle", "sender", "match", "turn"}
    /\ \A t \in Under :
          /\ turns[t].pc \in {"event", "begin", "llm", "answer", "tools", "step", "tool", "end", "done", "lost"}
          /\ turns[t].round \in 0..MaxRounds + deployment.steps
          /\ turns[t].n \in Nat
    /\ \A t \in DOMAIN turnLog : turnLog[t].result \in {"running", "success", "error"}
    /\ llmCalls \in Nat /\ completions \in Nat
    /\ \A c \in Calls : control[c] \in {"unsent", "served", "ok", "error", "lost"}
    /\ stopping \in BOOLEAN

Init ==
    /\ deployment \in Deployments
    /\ config \in deployment.configs /\ latest = config
    /\ GateInit
    /\ IngressInit /\ request = deployment.deliveries /\ agentRow \in deployment.rows
    /\ sent = 0 /\ stale = 0 /\ sync = [seen |-> 0, pc |-> "idle"]
    /\ turns = <<>> /\ turnLog = <<>> /\ llmCalls = 0 /\ completions = 0
    /\ control = [c \in Calls |-> "unsent"] /\ cache = <<>> /\ shaky = {}
    /\ stopping = FALSE
    /\ pushes = 0 /\ decisions = 0 /\ restarts = 0

----------------------------------------------------------------------------
(* Messages.  The sync loop calls handleMessage and waits for its return.  *)

MessageSent ==
    /\ sent < Len(deployment.messages)
    /\ sent' = sent + 1
    /\ UNCHANGED <<gateVars, ingressVars, deployment, turnVars, sync, stale, controlVars, boundVars>>

Message == deployment.messages[sync.seen]
SyncGoes(pc) == sync' = [sync EXCEPT !.pc = pc]
syncSame == <<gateVars, ingressVars, deployment, sent, stale, controlVars, boundVars>>

(* The next message: stale ones and those of other rooms are skipped.      *)
IsStale(k) == k <= stale
HandleMessage ==
    /\ sync.pc = "idle" /\ sync.seen < sent /\ ~stopping
    /\ LET k == sync.seen + 1
           skip == IsStale(k) \/ deployment.messages[k].room \notin config.rooms
       IN  sync' = [seen |-> k, pc |-> IF skip THEN "idle" ELSE "sender"]
    /\ UNCHANGED <<syncSame, turnVars>>

CheckSender ==
    /\ sync.pc = "sender"
    /\ SyncGoes(IF Message.sender \in config.senders THEN "match" ELSE "idle")
    /\ UNCHANGED <<syncSame, turnVars>>

(* The protocol a message or an event matches under a configuration: none, *)
(* one with steps, one without (a plain turn), or one that rejects it.     *)
MatchInboundProtocol(cfg, msg) == IF msg.protocol THEN cfg.protocol ELSE "none"
MatchGatewayProtocol(cfg) == cfg.eventProtocol

NewTurn(kind, src, pc, mode) ==
    [kind |-> kind, src |-> src, pc |-> pc, mode |-> mode, round |-> 0, todo |-> <<>>, n |-> 0, ok |-> TRUE]
NextTurn == Len(turns) + 1
ModeOf(match) == IF match = "steps" THEN "workflow" ELSE "chat"

(* A row of turn_log for turn t; the INSERT may fail, and the turn goes on *)
(* without a row.                                                          *)
LogTurn(t) ==
    \/ turnLog' = [s \in DOMAIN turnLog \cup {t} |->
                      IF s = t THEN [result |-> "running", calls |-> 0] ELSE turnLog[s]]
    \/ deployment.logFails /\ UNCHANGED turnLog

(* Whom a message is directed at under a configuration, which names the    *)
(* agent; "" is the target of a message that is directed at nobody.        *)
DirectedAtSelf(cfg, msg) == msg.target = cfg.name
DirectedAtOther(cfg, msg) == msg.target \notin {"", cfg.name}

(* The rest of handleMessage's admission, under the configuration read     *)
(* now: a turn begins for a message directed at this agent, or for one of  *)
(* a protocol that is not directed at another agent.                       *)
MatchMessage ==
    /\ sync.pc = "match"
    /\ LET match == MatchInboundProtocol(config, Message)
       IN  IF \/ DirectedAtOther(config, Message)
              \/ match = "reject"
              \/ match = "none" /\ ~DirectedAtSelf(config, Message)
           THEN SyncGoes("idle") /\ UNCHANGED turnVars
           ELSE /\ NextTurn \in Turns
                /\ turns' = Append(turns, NewTurn("message", sync.seen, "begin", ModeOf(match)))
                /\ LogTurn(NextTurn)
                /\ SyncGoes("turn")
                /\ UNCHANGED <<llmCalls, completions>>
    /\ UNCHANGED syncSame

----------------------------------------------------------------------------
(* Events.  A request reads the present configuration, and answers under   *)
(* the one it read.  handleEvent starts a goroutine and the request is     *)
(* answered.                                                               *)

otherThanIngress == <<gateVars, deployment, syncVars, turnLog, llmCalls, completions, controlVars, boundVars>>

EventArrives(d) ==
    /\ d \in DOMAIN request
    /\ \/ (EventReads(d, config) \/ EventRefused(d) \/ EventOverLimit(d)) /\ UNCHANGED turns
       \/ /\ EventAccepted(d)
          /\ NextTurn \in Turns
          /\ turns' = Append(turns, NewTurn("event", d, "event", "chat"))
    /\ UNCHANGED otherThanIngress

WebhookArrives(d) ==
    /\ d \in DOMAIN request
    /\ handleWebhook(d) \/ ForwardFails(d)
    /\ UNCHANGED <<otherThanIngress, turns>>

(* runEventTurn up to the turn itself.  An event is dropped when there is  *)
(* no admin room; a protocol that rejects it ends the turn with an error.  *)
RunEventTurn(t) ==
    /\ TurnAt(t, "event")
    /\ IF ~config.adminRoom
       THEN TurnGoes(t, "done") /\ UNCHANGED turnLog
       ELSE LET match == MatchGatewayProtocol(config)
            IN  /\ LogTurn(t)
                /\ turns' = [turns EXCEPT ![t].mode = ModeOf(match), ![t].ok = match # "reject",
                                          ![t].pc = IF match = "reject" THEN "end" ELSE "begin"]
    /\ UNCHANGED <<gateVars, ingressVars, deployment, llmCalls, completions, syncVars, controlVars, boundVars>>

----------------------------------------------------------------------------
(* The turn loop *)

turnSame == <<ingressVars, deployment, syncVars, controlVars, boundVars>>

(* runTurn before its loop: without a provider the turn fails.             *)
BeginTurn(t) ==
    /\ TurnAt(t, "begin")
    /\ \/ turns[t].mode = "chat" /\ TurnGoes(t, "llm")
       \/ turns[t].mode = "chat" /\ TurnEnds(t, FALSE)
       \/ turns[t].mode = "workflow" /\ TurnGoes(t, "step")
    /\ UNCHANGED <<gateVars, turnSame, turnLog, llmCalls, completions>>

(* enforceLLMCallHardLimit and the request to the model.  A limit of 0 is  *)
(* no limit.  The call over the limit ends the process, see ExitAtLimit.   *)
OverLimit == deployment.limit > 0 /\ llmCalls + 1 > deployment.limit
Complete ==
    /\ ~OverLimit
    /\ llmCalls' = IF deployment.limit > 0 THEN llmCalls + 1 ELSE llmCalls
    /\ completions' = completions + 1

OutOfRounds(t) == turns[t].round = MaxRounds

CallLLM(t) ==
    /\ TurnAt(t, "llm")
    /\ IF OutOfRounds(t)
       THEN TurnEnds(t, FALSE) /\ UNCHANGED <<llmCalls, completions>>
       ELSE Complete /\ TurnGoes(t, "answer")
    /\ UNCHANGED <<gateVars, turnSame, turnLog>>

(* The answer: an error, a text, or tool calls.                            *)
ModelAnswers(t) ==
    /\ TurnAt(t, "answer")
    /\ \/ TurnEnds(t, FALSE)
       \/ TurnEnds(t, TRUE)
       \/ \E calls \in deployment.answers :
             turns' = [turns EXCEPT ![t].pc = "tools", ![t].todo = calls]
    /\ UNCHANGED <<gateVars, turnSame, turnLog, llmCalls, completions>>

(* The calls of an answer one by one, counted whether they fail or not;    *)
(* then the next round.  The call that fails a workflow is not counted.    *)
CallsAfter(t) ==
    IF turns[t].mode = "workflow" /\ dispatch[t].pc # "ok" THEN turns[t].n - 1 ELSE turns[t].n

NextToolCall(t) ==
    /\ TurnAt(t, "tools")
    /\ IF turns[t].todo = <<>>
       THEN turns' = [turns EXCEPT ![t].pc = "llm", ![t].round = @ + 1] /\ UNCHANGED gateVars
       ELSE /\ turns' = [turns EXCEPT ![t].pc = "tool", ![t].todo = Tail(@), ![t].n = @ + 1]
            /\ DispatchToolCall(t, Head(turns[t].todo), turns[t].n + 1)
            /\ UNCHANGED <<config, approvals, sendRate, effects, grants, recentSends>>
    /\ UNCHANGED <<turnSame, turnLog, llmCalls, completions>>

(* A tool's error is told to the model; in a workflow it ends the turn.    *)
ToolReturns(t) ==
    /\ TurnAt(t, "tool") /\ ToolReturned(t)
    /\ dispatch' = [dispatch EXCEPT ![t] = NoCall]
    /\ turns' = [turns EXCEPT ![t].n = CallsAfter(t),
                              ![t].ok = turns[t].mode = "chat" \/ dispatch[t].pc = "ok",
                              ![t].pc = IF turns[t].mode = "chat" THEN "tools"
                                        ELSE IF dispatch[t].pc = "ok" THEN "step" ELSE "end"]
    /\ UNCHANGED <<config, approvals, sendRate, effects, grants, recentSends>>
    /\ UNCHANGED <<turnSame, turnLog, llmCalls, completions>>

(* runWorkflowTurn: the steps of the protocol in order, here a tool call   *)
(* or a Summarize each; the module Workflow has the engine itself.         *)
Summarize == Complete

WorkflowStep(t) ==
    /\ TurnAt(t, "step")
    /\ \/ /\ turns[t].round = deployment.steps
          /\ TurnEnds(t, TRUE) /\ UNCHANGED <<gateVars, llmCalls, completions>>
       \/ \E calls \in deployment.answers :
             /\ turns[t].round < deployment.steps
             /\ turns' = [turns EXCEPT ![t].pc = "tool", ![t].round = @ + 1, ![t].n = @ + 1]
             /\ DispatchToolCall(t, calls[1], turns[t].n + 1)
             /\ UNCHANGED <<config, approvals, sendRate, effects, grants, recentSends, llmCalls, completions>>
       \/ /\ turns[t].round < deployment.steps
          /\ Summarize /\ UNCHANGED gateVars
          /\ turns' \in {[turns EXCEPT ![t].round = @ + 1],
                         [turns EXCEPT ![t].pc = "end", ![t].ok = FALSE]}
    /\ UNCHANGED <<turnSame, turnLog>>


(* The end of handleMessage and of runEventTurn: the reply, then the row.  *)
FinishTurn(t) ==
    turnLog' = IF t \notin DOMAIN turnLog THEN turnLog
               ELSE [turnLog EXCEPT ![t] = [result |-> IF turns[t].ok THEN "success" ELSE "error",
                                            calls |-> turns[t].n]]
EndTurn(t) ==
    /\ TurnAt(t, "end")
    /\ FinishTurn(t)
    /\ TurnGoes(t, "done")
    /\ sync' = IF turns[t].kind = "message" THEN [sync EXCEPT !.pc = "idle"] ELSE sync
    /\ UNCHANGED <<gateVars, ingressVars, deployment, sent, stale, llmCalls, completions, controlVars, boundVars>>

----------------------------------------------------------------------------
(* Control requests *)

controlSame == <<ingressVars, deployment, turnVars, syncVars, boundVars>>
Key(c) == deployment.calls[c].key

\* Mutant: a key is never found in the cache.
CacheIgnored(c) == FALSE

(* handleToolCall up to ExecuteTool: an answer in the cache is replayed.   *)
(* Requests are served until the process ends.                             *)
Replayed(c) == Key(c) \in DOMAIN cache
Remember(c) == cache' = [k \in DOMAIN cache \cup {Key(c)} |-> IF k = Key(c) THEN CacheTTL ELSE cache[k]]
HandleToolCall(c) ==
    /\ c \in DOMAIN deployment.calls /\ control[c] = "unsent"
    /\ deployment.calls[c].kind = "tool"
    /\ IF Replayed(c)
       THEN control' = [control EXCEPT ![c] = "ok"] /\ UNCHANGED <<gateVars, shaky>>
       ELSE /\ control' = [control EXCEPT ![c] = "served"]
            /\ shaky' = IF \E o \in Calls \ {c} : o \in DOMAIN deployment.calls /\ Key(o) = Key(c) /\ control[o] = "served"
                        THEN shaky \cup {Key(c)} ELSE shaky
            /\ DispatchToolCall(c, deployment.calls[c].call, 1)
            /\ UNCHANGED <<config, approvals, sendRate, effects, grants, recentSends>>
    /\ UNCHANGED <<controlSame, cache, stopping>>

(* Only a success is cached.                                               *)
AnswerToolCall(c) ==
    /\ control[c] = "served" /\ ToolReturned(c)
    /\ dispatch' = [dispatch EXCEPT ![c] = NoCall]
    /\ IF dispatch[c].pc = "ok"
       THEN /\ control' = [control EXCEPT ![c] = "ok"]
            /\ Remember(c)
            /\ UNCHANGED shaky
       ELSE /\ control' = [control EXCEPT ![c] = "error"]
            /\ shaky' = shaky \cup {Key(c)}
            /\ UNCHANGED cache
    /\ UNCHANGED <<config, approvals, sendRate, effects, grants, recentSends, controlSame, stopping>>

(* A poll fails, or the client hangs up or the process is stopping: the    *)
(* wait for an approval ends, at any time.                                 *)
Abort(e) ==
    /\ WaitAborted(e)
    /\ UNCHANGED <<controlSame, controlVars>>

(* handleRestart: the answer is cached before the process is gone.         *)
HandleRestart(c) ==
    /\ c \in DOMAIN deployment.calls /\ control[c] = "unsent"
    /\ deployment.calls[c].kind = "restart"
    /\ control' = [control EXCEPT ![c] = "ok"]
    /\ IF Replayed(c) THEN UNCHANGED <<cache, stopping>>
       ELSE Remember(c) /\ stopping' = TRUE
    /\ UNCHANGED <<controlSame, gateVars, shaky>>

----------------------------------------------------------------------------
(* The rest of the world *)

RurikoStores ==
    /\ pushes < deployment.pushes
    /\ \E cfg \in deployment.configs \ {latest} : StoreVersion(cfg)
    /\ pushes' = pushes + 1
    /\ UNCHANGED <<gateVars, deployment, turnVars, syncVars, controlVars, decisions, restarts>>

(* POST /config/apply replaces the configuration the agent runs.           *)
ConfigPushed ==
    /\ config # latest /\ config' = latest
    /\ UNCHANGED <<dispatch, approvals, sendRate, effects, grants, recentSends>>
    /\ UNCHANGED <<controlSame, controlVars>>

OperatorDecides(e) ==
    /\ decisions < deployment.decisions
    /\ decisions' = decisions + 1
    /\ \E verdict \in {"approved", "denied"} : RecordDecision(e, verdict)
    /\ UNCHANGED <<ingressVars, deployment, turnVars, syncVars, controlVars, pushes, restarts>>

Tick ==
    /\ GateTick /\ IngressTick
    /\ cache' = [k \in {x \in DOMAIN cache : cache[x] > 0} |-> cache[k] - 1]
    /\ shaky' = shaky \cup {k \in DOMAIN cache : cache[k] = 0}
    /\ UNCHANGED <<deployment, turnVars, syncVars, control, stopping, boundVars>>

(* The process ends and is started again: what was in memory is gone, the  *)
(* turns under way are lost, and the first sync replays the messages.      *)
ProcessRestarts ==
    /\ turns' = [t \in Under |-> IF turns[t].pc = "done" THEN turns[t] ELSE [turns[t] EXCEPT !.pc = "lost"]]
    /\ dispatch' = [e \in Executors |-> NoCall]
    /\ sendRate' = [count |-> 0, left |-> 0] /\ recentSends' = <<>>
    /\ IngressRestarts
    /\ llmCalls' = 0 /\ completions' = 0
    /\ control' = [c \in Calls |-> IF control[c] = "served" THEN "lost" ELSE control[c]]
    /\ cache' = <<>>
    /\ shaky' = shaky \cup {Key(c) : c \in {x \in DOMAIN deployment.calls : control[x] # "unsent"}}
    /\ stopping' = FALSE
    /\ stale' = sent /\ sync' = [seen |-> 0, pc |-> "idle"]
    /\ UNCHANGED <<config, approvals, effects, grants>>
    /\ UNCHANGED <<deployment, turnLog, sent, pushes, decisions>>

Crash ==
    /\ restarts < deployment.restarts
    /\ restarts' = restarts + 1
    /\ ProcessRestarts

(* Run returns after a restart request, and the container starts again.    *)
StopEnds == stopping /\ ProcessRestarts /\ UNCHANGED restarts

(* terminateProcess(1) in enforceLLMCallHardLimit.                         *)
ExitAtLimit ==
    /\ OverLimit
    /\ \E t \in Under : (turns[t].pc = "llm" /\ ~OutOfRounds(t)) \/ turns[t].pc = "step"
    /\ ProcessRestarts /\ UNCHANGED restarts

----------------------------------------------------------------------------
SyncSteps == HandleMessage \/ CheckSender \/ MatchMessage

TurnSteps(t) ==
    \/ RunEventTurn(t) \/ BeginTurn(t)
    \/ CallLLM(t) \/ ModelAnswers(t)
    \/ NextToolCall(t) \/ ToolReturns(t)
    \/ WorkflowStep(t)
    \/ EndTurn(t)

GateSteps(e) == DispatchSteps(e) /\ UNCHANGED <<controlSame, controlVars>>

ControlSteps(c) == HandleToolCall(c) \/ AnswerToolCall(c) \/ HandleRestart(c)

Next ==
    \/ MessageSent
    \/ SyncSteps
    \/ \E d \in Deliveries : EventArrives(d) \/ WebhookArrives(d)
    \/ \E t \in Under : TurnSteps(t)
    \/ \E e \in Executors : GateSteps(e) \/ Abort(e) \/ OperatorDecides(e)
    \/ \E c \in Calls : ControlSteps(c)
    \/ RurikoStores
    \/ ConfigPushed
    \/ Tick
    \/ Crash
    \/ StopEnds
    \/ ExitAtLimit

Spec == Init /\ [][Next]_vars

(* Goroutines are scheduled (that some turn goes on is enough, as turns    *)
(* are finite), the model answers or its client gives up after 120 s, time *)
(* passes, and a process told to stop does.  An MCP tool need not answer:  *)
(* its call has no timeout.  Operators, senders and crashes are free.      *)
InMcpCall(t) == DispatchAt(t, "execute") /\ dispatch[t].call.tool # SendTool
Proceeds(t) == TurnSteps(t) \/ (GateSteps(t) /\ ~InMcpCall(t))

FairSpec ==
    /\ Spec
    /\ WF_vars(SyncSteps)
    /\ WF_vars(\E t \in Under : Proceeds(t))
    /\ WF_vars(Tick)
    /\ WF_vars(StopEnds \/ ExitAtLimit)

----------------------------------------------------------------------------
(* Properties *)

(* No more requests are made to the model in one life of the process than  *)
(* the hard limit, whether by turns of messages, of events or by steps of  *)
(* a workflow running at the same time.                                    *)
CompletionsWithinLimit == deployment.limit > 0 => completions <= deployment.limit

(* An event is answered 429 only when as many events were accepted in the  *)
(* last window's length as the limit its request read: an event that is    *)
(* refused uses up nobody's share, though the limit may change meanwhile.  *)
(* It may be refused under a limit that was raised while its body came.    *)
RefusedOnlyWhenFull ==
    [][\A d \in DOMAIN request :
          Reading(d) /\ delivery'[d] = "429" =>
              heard[d].maxEvents > 0 /\ Len(recentEvents) >= heard[d].maxEvents]_vars

(* A message is the subject of one turn at most: the messages that the     *)
(* homeserver replays after a restart do not start theirs again.           *)
OneTurnPerMessage ==
    \A s, t \in Under :
        turns[s].kind = "message" /\ turns[t].kind = "message" /\ turns[s].src = turns[t].src => s = t

(* A finished row of turn_log counts at least the tools that took effect   *)
(* in its turn; only the row of a workflow that failed may count fewer.    *)
LogCountsEffects ==
    \A t \in DOMAIN turnLog :
        turnLog[t].result = "success" \/ (turnLog[t].result = "error" /\ turns[t].mode = "chat") =>
        Cardinality({x \in effects : x.by = t}) <= turnLog[t].calls

(* Two requests with one idempotency key both act only when the first was  *)
(* still being served as the second came, had failed after it acted, was   *)
(* older than the cache keeps answers, or came before a restart.           *)
KeyActsOnce ==
    \A c, o \in Calls :
        /\ c # o /\ {c, o} \subseteq DOMAIN deployment.calls /\ Key(c) = Key(o)
        /\ {x \in effects : x.by = c} # {} /\ {x \in effects : x.by = o} # {}
        => Key(c) \in shaky

(* Again and again every turn that was logged is finished in the log, was  *)
(* lost when the process ended, or is in the call of an MCP tool, which    *)
(* may never return: a call that waits for an approval waits no longer     *)
(* than its deadline, and no way out of a turn leaves its row running.     *)
LoggedTurnsFinish ==
    []<>(\A t \in DOMAIN turnLog :
            turns[t].pc = "lost" \/ turnLog[t].result # "running" \/ InMcpCall(t))

(* The sync loop gets to the end of the messages again and again, though   *)
(* each turn holds up the messages behind it; only one in the call of an   *)
(* MCP tool may do so for ever.                                            *)
InboxDrains ==
    []<>(sync.seen = sent \/ \E t \in Under : turns[t].kind = "message" /\ InMcpCall(t))

\* The state is well typed, and replays, repeated requests and concurrent turns are told
\* apart: a message has one turn, a key acts once but for the cases its part names, and
\* the log counts every effect.
Inv == TypeOK /\ OneTurnPerMessage /\ LogCountsEffects /\ KeyActsOnce

\* The windows of sends and events and the hard limit on model calls bound what concurrent
\* turns and deliveries do, at the edge of a window too, and no event is refused while
\* there is room under the limit its request read (common/ratelimit, enforceLLMCallHardLimit).
LimitsAreExact == []SendsBounded /\ []EventsBounded /\ []CompletionsWithinLimit /\ RefusedOnlyWhenFull

=============================================================================
