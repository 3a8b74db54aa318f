------------------------------ MODULE ToolGate ------------------------------
(***************************************************************************)
(* The tool execution boundary of an agent: DispatchToolCall               *)
(* (internal/gitai/app/app.go) with the policy engine, the approval gate   *)
(* and the built-in matrix.send_message it calls.  Turns and control       *)
(* requests dispatch concurrently, each one call at a time.  The policy is *)
(* evaluated once, under the configuration of that moment; a gated call    *)
(* then waits, for as long as an operator takes or until its deadline,     *)
(* while the configuration may be replaced.                                *)
(*                                                                         *)
(* The id of an approval is made of the trace id, and a turn has one trace *)
(* id: the row of an executor's approval is keyed by the executor.         *)
(*                                                                         *)
(* Clocks are countdowns: left is the number of ticks until a deadline.    *)
(***************************************************************************)
EXTENDS Naturals, Sequences, FiniteSets, FiniteSetsExt, RecentWindow

CONSTANTS Executors,    \* turns and control requests
          SendTool,     \* matrix.send_message; every other tool is an MCP one
          DefaultTTL,   \* approvals.defaultTTL
          SendWindow    \* the minute of the outbound rate limiter

ASSUME GateAssumption ==
    /\ DefaultTTL \in Nat \ {0}
    /\ SendWindow \in Nat \ {0}

VARIABLES config,      \* gosutoLdr.Config()
          dispatch,    \* the call each executor is in
          approvals,   \* the approvals table, by executor
          sendRate,    \* the send tool's rateLimiter
          effects,     \* history: tool calls that took effect
          grants,      \* history: approve decisions, <<executor, call number>>
          recentSends  \* history: messages of the last window, with the limit then

gateVars == <<config, dispatch, approvals, sendRate, effects, grants, recentSends>>

NoCall == [pc |-> "none"]

GateTypeOK ==
    /\ \A e \in Executors :
          \/ dispatch[e] = NoCall
          \/ /\ dispatch[e].pc \in {"evaluate", "request", "waiting", "execute", "ok", "failed"}
             /\ dispatch[e].n \in Nat
    /\ DOMAIN approvals \subseteq Executors
    /\ \A e \in DOMAIN approvals :
          /\ approvals[e].status \in {"pending", "approved", "denied"}
          /\ approvals[e].left \in Nat
    /\ sendRate.count \in Nat /\ sendRate.left \in 0..SendWindow
    /\ \A x \in effects : x.by \in Executors
    /\ \A i \in DOMAIN recentSends : recentSends[i] \in [left : 1..SendWindow, max : Nat \ {0}]

GateInit ==
    /\ dispatch = [e \in Executors |-> NoCall]
    /\ approvals = <<>>
    /\ sendRate = [count |-> 0, left |-> 0]
    /\ effects = {}
    /\ grants = {}
    /\ recentSends = <<>>

(* Evaluate: the first capability whose patterns match decides.  An        *)
(* argument value the rule forbids violates one of its constraints; an     *)
(* argument that is absent violates none.                                  *)
Evaluate(cfg, call) ==
    LET matching == {i \in DOMAIN cfg.caps : call.tool \in cfg.caps[i].tools}
    IN  IF matching = {} THEN "deny" ELSE
        LET rule == cfg.caps[Min(matching)]
        IN  IF call.arg \in rule.forbids \/ ~rule.allow THEN "deny"
            ELSE IF rule.approval THEN "approval" ELSE "allow"

DispatchAt(e, pc) == dispatch[e].pc = pc
DispatchGoes(e, pc) == dispatch' = [dispatch EXCEPT ![e].pc = pc]

(* executeToolCall and the first lines of DispatchToolCall: arguments that *)
(* do not parse and names without a server fail before the policy.         *)
DispatchToolCall(e, call, n) ==
    /\ dispatch[e] = NoCall
    /\ dispatch' = [dispatch EXCEPT ![e] =
          [pc |-> IF call.valid THEN "evaluate" ELSE "failed", call |-> call, n |-> n, cfg |-> config]]

AfterPolicy(decision) ==
    CASE decision = "deny" -> "failed"
      [] decision = "approval" -> "request"
      [] decision = "allow" -> "execute"

EvaluatePolicy(e) ==
    /\ DispatchAt(e, "evaluate")
    /\ LET call == dispatch[e].call
           goes == AfterPolicy(Evaluate(config, call))
       IN  dispatch' = [dispatch EXCEPT ![e] = [pc |-> goes, call |-> call, n |-> @.n, cfg |-> config]]
    /\ UNCHANGED <<config, approvals, sendRate, effects, grants, recentSends>>

\* Mutant: the error of the second INSERT of a turn is ignored.
SaveApprovalIgnored(e) == FALSE

(* Gate.Request up to the wait: the settings are those of the present      *)
(* configuration.  The INSERT fails on a second approval of one trace id.  *)
SaveApprovalFails(e) == e \in DOMAIN approvals

SaveApproval(e) ==
    LET ttl == IF config.ttl = 0 THEN DefaultTTL ELSE config.ttl
        row == [n |-> dispatch[e].n, status |-> "pending", left |-> ttl]
    IN  approvals' = [f \in DOMAIN approvals \cup {e} |-> IF f \in DOMAIN approvals THEN approvals[f] ELSE row]

RequestApproval(e) ==
    /\ DispatchAt(e, "request")
    /\ \/ /\ ~config.approvals \/ SaveApprovalFails(e)
          /\ DispatchGoes(e, "failed") /\ UNCHANGED approvals
       \/ /\ config.approvals /\ ~SaveApprovalFails(e)
          /\ SaveApproval(e)
          /\ DispatchGoes(e, "waiting")
    /\ UNCHANGED <<config, sendRate, effects, grants, recentSends>>

SetApprovalStatus(e, status) == approvals' = [approvals EXCEPT ![e].status = status]

(* The ticker: the status decides, and a pending row past its deadline is  *)
(* expired and then denied.                                                *)
PollApproval(e) ==
    /\ DispatchAt(e, "waiting")
    /\ \/ approvals[e].status = "approved" /\ DispatchGoes(e, "execute") /\ UNCHANGED approvals
       \/ approvals[e].status = "denied" /\ DispatchGoes(e, "failed") /\ UNCHANGED approvals
       \/ /\ approvals[e].status = "pending" /\ approvals[e].left = 0
          /\ SetApprovalStatus(e, "denied") /\ DispatchGoes(e, "failed")
    /\ UNCHANGED <<config, sendRate, effects, grants, recentSends>>

\* Mutant: the wait ends before the deadline.
EarlyTimeout(e) ==
    /\ DispatchAt(e, "waiting")
    /\ SetApprovalStatus(e, "denied")
    /\ DispatchGoes(e, "failed")
    /\ UNCHANGED <<config, sendRate, effects, grants, recentSends>>

(* The timer of the request: it denies whatever the row says by then.      *)
ApprovalTimeout(e) ==
    /\ DispatchAt(e, "waiting") /\ approvals[e].left = 0
    /\ SetApprovalStatus(e, "denied")
    /\ DispatchGoes(e, "failed")
    /\ UNCHANGED <<config, sendRate, effects, grants, recentSends>>

(* The wait of a request, its context apart.                               *)
AwaitDecision(e) == PollApproval(e) \/ ApprovalTimeout(e)

(* ctx.Done in the wait, or an error of the poll's query: the row is left  *)
(* as it is.                                                               *)
WaitAborted(e) ==
    /\ DispatchAt(e, "waiting")
    /\ DispatchGoes(e, "failed")
    /\ UNCHANGED <<config, approvals, sendRate, effects, grants, recentSends>>

(* RecordDecision, from POST /approvals/decision: the row is overwritten   *)
(* whatever its status and its deadline.                                   *)
RecordDecision(e, verdict) ==
    /\ e \in DOMAIN approvals
    /\ approvals' = [approvals EXCEPT ![e].status = verdict]
    /\ grants' = IF verdict = "approved" THEN grants \cup {<<e, approvals[e].n>>} ELSE grants
    /\ UNCHANGED <<config, dispatch, sendRate, effects, recentSends>>

TakesEffect(e) ==
    effects' = effects \cup {[by |-> e, n |-> dispatch[e].n, call |-> dispatch[e].call, cfg |-> dispatch[e].cfg]}

(* rateLimiter.allow: a window opens with the first message after the      *)
(* last one has run out; a limit of 0 is no limit.                         *)
allow(max) ==
    LET r == IF sendRate.left = 0 THEN [count |-> 0, left |-> SendWindow] ELSE sendRate
    IN  [ok |-> max = 0 \/ r.count < max,
         rate |-> IF max = 0 THEN sendRate ELSE IF r.count < max THEN [r EXCEPT !.count = @ + 1] ELSE r]

(* MatrixSendTool.Execute: arguments, target in the present configuration, *)
(* rate limit, send.  A send that fails has used its token, and may have   *)
(* delivered the message before it failed.                                 *)
ExecuteSend(e) ==
    /\ DispatchAt(e, "execute") /\ dispatch[e].call.tool = SendTool
    /\ IF ~config.targets THEN DispatchGoes(e, "failed") /\ UNCHANGED <<sendRate, effects, recentSends>>
       ELSE LET a == allow(config.perMinute) IN
            /\ sendRate' = a.rate
            /\ \/ ~a.ok /\ DispatchGoes(e, "failed") /\ UNCHANGED <<effects, recentSends>>
               \/ a.ok /\ DispatchGoes(e, "failed") /\ UNCHANGED <<effects, recentSends>>
               \/ /\ a.ok /\ (DispatchGoes(e, "ok") \/ DispatchGoes(e, "failed"))
                  /\ TakesEffect(e)
                  /\ recentSends' = IF config.perMinute = 0 THEN recentSends
                                    ELSE Passed(recentSends, SendWindow, config.perMinute)
    /\ UNCHANGED <<config, approvals, grants>>

(* An MCP tool: the server is not running, a secret of the arguments is    *)
(* missing or expired, the call fails before or after the tool has acted,  *)
(* the tool reports an error, or it succeeds.                              *)
ExecuteMCP(e) ==
    /\ DispatchAt(e, "execute") /\ dispatch[e].call.tool # SendTool
    /\ \/ DispatchGoes(e, "failed") /\ UNCHANGED effects
       \/ DispatchGoes(e, "failed") /\ TakesEffect(e)
       \/ DispatchGoes(e, "ok") /\ TakesEffect(e)
    /\ UNCHANGED <<config, approvals, sendRate, grants, recentSends>>

ToolReturned(e) == dispatch[e].pc \in {"ok", "failed"}

(* One tick of every clock.                                                *)
Less(k) == IF k = 0 THEN 0 ELSE k - 1
GateTick ==
    /\ approvals' = [e \in DOMAIN approvals |-> [approvals[e] EXCEPT !.left = Less(@)]]
    /\ sendRate' = [sendRate EXCEPT !.left = Less(@)]
    /\ recentSends' = Lapse(recentSends)
    /\ UNCHANGED <<config, dispatch, effects, grants>>

DispatchSteps(e) ==
    \/ EvaluatePolicy(e)
    \/ RequestApproval(e)
    \/ AwaitDecision(e)
    \/ ExecuteSend(e) \/ ExecuteMCP(e)

----------------------------------------------------------------------------
(* Properties *)

(* The rule that decides a call: it matches and no rule before it does.    *)
Decides(cfg, call, i) ==
    /\ call.tool \in cfg.caps[i].tools
    /\ \A j \in 1..i - 1 : call.tool \notin cfg.caps[j].tools

(* A tool that took effect was allowed by the configuration in force when  *)
(* its policy was evaluated, by its first matching rule and within that    *)
(* rule's constraints; and when the rule asks for an approval, an operator *)
(* approved this very call, not another call of the same turn, which has   *)
(* the same approval id.                                                   *)
EffectsArePermitted ==
    \A x \in effects : \E i \in DOMAIN x.cfg.caps :
        LET rule == x.cfg.caps[i]
        IN  /\ Decides(x.cfg, x.call, i)
            /\ rule.allow /\ x.call.arg \notin rule.forbids
            /\ rule.approval => <<x.by, x.n>> \in grants

(* Before its deadline an approval that was granted is undone by nothing   *)
(* but another decision: the agent's own denials overwrite the row only    *)
(* once its time is up.                                                    *)
DecisionStands ==
    [][\A e \in DOMAIN approvals :
          approvals[e].status = "approved" /\ approvals'[e].status # "approved" =>
              approvals[e].left = 0 \/ UNCHANGED dispatch]_gateVars

(* The fixed window of matrix.send_message: any stretch of a window's      *)
(* length sees at most two windows' worth of messages.                     *)
SendsBounded == WithinTwoWindows(recentSends)
=============================================================================
