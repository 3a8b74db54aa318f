------------------------- MODULE AgentTurns_proofs -------------------------
(***************************************************************************)
(* Proofs about the agent at work: the tool gate and the event ingress as  *)
(* AgentTurns composes them, for any deployments, turns, control requests, *)
(* deliveries and configurations.                                          *)
(***************************************************************************)
EXTENDS AgentTurns, FiniteSetTheorems, WellFoundedInduction, TLAPS

\* Rule i of a configuration decides a call, allows it and is not violated by it.
Permits(cfg, call, i) ==
    /\ i \in DOMAIN cfg.caps
    /\ Decides(cfg, call, i)
    /\ cfg.caps[i].allow /\ call.arg \notin cfg.caps[i].forbids

\* What the gate's variables look like.
GateShape ==
    /\ dispatch = [e \in Executors |-> dispatch[e]]
    /\ \A e \in Executors :
          dispatch[e] # NoCall =>
              dispatch[e] = [pc |-> dispatch[e].pc, call |-> dispatch[e].call,
                             n |-> dispatch[e].n, cfg |-> dispatch[e].cfg]
    /\ approvals = [e \in DOMAIN approvals |->
                       [n |-> approvals[e].n, status |-> approvals[e].status, left |-> approvals[e].left]]

\* The agent runs, and Ruriko stores, a configuration of the deployment.
ConfigInv ==
    /\ deployment \in Deployments
    /\ config \in deployment.configs /\ latest \in deployment.configs

\* How far a call is: past the policy some rule permits it, past the approval gate that
\* rule asks for no approval or an operator gave one for this call, and the row an executor
\* waits for is the row of its own call.
CallInv(e) ==
    /\ dispatch[e].pc \in {"request", "waiting"} =>
          \E i \in DOMAIN dispatch[e].cfg.caps : Permits(dispatch[e].cfg, dispatch[e].call, i)
    /\ dispatch[e].pc = "execute" =>
          \E i \in DOMAIN dispatch[e].cfg.caps :
             /\ Permits(dispatch[e].cfg, dispatch[e].call, i)
             /\ dispatch[e].cfg.caps[i].approval => <<e, dispatch[e].n>> \in grants
    /\ dispatch[e].pc = "waiting" =>
          e \in DOMAIN approvals /\ approvals[e].n = dispatch[e].n

\* A row says approved only after an operator said so, of the call the row is for.
RowInv(e) ==
    approvals[e].status = "approved" => <<e, approvals[e].n>> \in grants

\* The inductive invariant behind EffectsArePermitted.
GateInv ==
    /\ GateShape
    /\ \A e \in Executors : CallInv(e)
    /\ \A e \in DOMAIN approvals : RowInv(e)
    /\ EffectsArePermitted

\* The inductive invariant behind AcceptedIsAuthentic: what the proxy forwards it has
\* authenticated.
Answered == {"202", "400", "401", "404", "429", "502", "503", "forwarded", "reading"}

IngressInv ==
    /\ delivery = [d \in Deliveries |-> delivery[d]]
    /\ \A d \in Deliveries : delivery[d] \in Answered \cup {"unsent"}
    /\ DOMAIN request \subseteq Deliveries
    /\ \A d \in DOMAIN request : request[d].via \in {"proxy", "remote", "local"}
    /\ AcceptedIsAuthentic
    /\ \A d \in DOMAIN request :
          delivery[d] = "forwarded" \/ (delivery[d] = "reading" /\ request[d].via = "proxy") =>
              request[d].bearer \/ request[d].sig

\* A request under way at the agent has read a configuration of the deployment.
HeardInv ==
    \A d \in Deliveries :
        delivery[d] = "reading" => d \in DOMAIN heard /\ heard[d] \in deployment.configs

-----------------------------------------------------------------------------
(* The policy.                                                             *)

LEMMA LeastExists ==
    ASSUME NEW S, S \subseteq Nat, S # {}
    PROVE  \E x \in S : \A y \in S : x <= y
<1>1. PICK x \in S : \A y \in S : ~(<<y, x>> \in OpToRel(<, Nat))
  <2> HIDE DEF OpToRel
  <2> QED
    BY WFMin, NatLessThanWellFounded, Zenon
<1>2. \A y \in S : ~(y < x)
  BY <1>1 DEF OpToRel
<1> QED
  BY <1>2

LEMMA MinMember ==
    ASSUME NEW S, S \subseteq Nat, S # {}
    PROVE  Min(S) \in S /\ \A y \in S : Min(S) <= y
  BY LeastExists DEF Min

\* Evaluate lets a call through only by the first rule that matches it.
LEMMA EvaluateSound ==
    ASSUME NEW cfg, NEW call,
           Len(cfg.caps) \in Nat, DOMAIN cfg.caps = 1..Len(cfg.caps),
           Evaluate(cfg, call) # "deny"
    PROVE  \E i \in DOMAIN cfg.caps :
              /\ Permits(cfg, call, i)
              /\ cfg.caps[i].approval => Evaluate(cfg, call) = "approval"
<1> DEFINE matching == {i \in DOMAIN cfg.caps : call.tool \in cfg.caps[i].tools}
           i == Min(matching)
           rule == cfg.caps[i]
<1>1. matching # {} /\ ~(call.arg \in rule.forbids \/ ~rule.allow)
  BY DEF Evaluate
<1>2. i \in matching /\ \A y \in matching : i <= y
  <2>1. matching \subseteq Nat
    OBVIOUS
  <2> HIDE DEF matching
  <2> QED
    BY <1>1, <2>1, MinMember
<1>3. rule.approval => Evaluate(cfg, call) = "approval"
  BY <1>1 DEF Evaluate
<1> HIDE DEF i
<1>4. Decides(cfg, call, i)
  <2>1. i \in Nat /\ i \in 1..Len(cfg.caps)
    BY <1>2
  <2>2. ASSUME NEW j \in 1..i - 1 PROVE call.tool \notin cfg.caps[j].tools
    <3>1. j \in DOMAIN cfg.caps /\ ~(i <= j)
      BY <2>1
    <3> QED
      BY <1>2, <3>1
  <2> QED
    BY <1>2, <2>2 DEF Decides
<1> QED
  BY <1>1, <1>2, <1>3, <1>4 DEF Permits

-----------------------------------------------------------------------------
(* What the composition does with the gate.                                *)

otherThanDispatch == <<config, approvals, sendRate, effects, grants, recentSends>>

\* The composition reaches the gate's variables only through these operations.
GateNext ==
    \/ \E e, call, n : DispatchToolCall(e, call, n) /\ UNCHANGED otherThanDispatch
    \/ \E e : dispatch' = [dispatch EXCEPT ![e] = NoCall] /\ UNCHANGED otherThanDispatch
    \/ \E e \in Executors : DispatchSteps(e) \/ WaitAborted(e)
    \/ \E e \in Executors : \E verdict \in {"approved", "denied"} : RecordDecision(e, verdict)
    \/ GateTick
    \/ /\ dispatch' = [e \in Executors |-> NoCall]
       /\ UNCHANGED <<config, approvals, effects, grants>>
    \/ UNCHANGED <<dispatch, approvals, effects, grants>>

LEMMA NextIsGateNext == [Next]_vars => GateNext
<1> SUFFICES ASSUME [Next]_vars PROVE GateNext
  OBVIOUS
<1> USE DEF GateNext, otherThanDispatch
<1>1. CASE MessageSent
  BY <1>1 DEF MessageSent, gateVars
<1>2. CASE SyncSteps
  BY <1>2 DEF SyncSteps, HandleMessage, CheckSender, MatchMessage, syncSame, gateVars
<1>3. ASSUME NEW d \in Deliveries, EventArrives(d) \/ WebhookArrives(d) PROVE GateNext
  BY <1>3 DEF EventArrives, WebhookArrives, otherThanIngress, gateVars
<1>4. ASSUME NEW t \in Under, TurnSteps(t) PROVE GateNext
  <2>1. CASE RunEventTurn(t) \/ BeginTurn(t) \/ CallLLM(t) \/ ModelAnswers(t) \/ EndTurn(t)
    BY <2>1 DEF RunEventTurn, BeginTurn, CallLLM, ModelAnswers, EndTurn, gateVars
  <2>2. CASE NextToolCall(t)
    BY <2>2 DEF NextToolCall, gateVars
  <2>3. CASE ToolReturns(t)
    BY <2>3 DEF ToolReturns
  <2>4. CASE WorkflowStep(t)
    BY <2>4 DEF WorkflowStep, gateVars
  <2> QED
    BY <1>4, <2>1, <2>2, <2>3, <2>4 DEF TurnSteps
<1>5. ASSUME NEW e \in Executors, GateSteps(e) \/ Abort(e) \/ OperatorDecides(e) PROVE GateNext
  BY <1>5 DEF GateSteps, Abort, OperatorDecides
<1>6. ASSUME NEW c \in Calls, ControlSteps(c) PROVE GateNext
  <2>1. CASE HandleToolCall(c)
    BY <2>1 DEF HandleToolCall, gateVars
  <2>2. CASE AnswerToolCall(c)
    BY <2>2 DEF AnswerToolCall
  <2>3. CASE HandleRestart(c)
    BY <2>3 DEF HandleRestart, gateVars
  <2> QED
    BY <1>6, <2>1, <2>2, <2>3 DEF ControlSteps
<1>7. CASE RurikoStores
  BY <1>7 DEF RurikoStores, gateVars
<1>8. CASE ConfigPushed
  BY <1>8 DEF ConfigPushed
<1>9. CASE Tick
  BY <1>9 DEF Tick
<1>10. CASE Crash \/ StopEnds \/ ExitAtLimit
  BY <1>10 DEF Crash, StopEnds, ExitAtLimit, ProcessRestarts
<1>11. CASE UNCHANGED vars
  BY <1>11 DEF vars, gateVars
<1> QED
  BY <1>1, <1>2, <1>3, <1>4, <1>5, <1>6, <1>7, <1>8, <1>9, <1>10, <1>11 DEF Next

LEMMA StepConfigInv == ConfigInv /\ [Next]_vars => ConfigInv'
<1> SUFFICES ASSUME ConfigInv, [Next]_vars PROVE ConfigInv'
  OBVIOUS
<1> USE DEF ConfigInv
<1>1. ASSUME UNCHANGED <<deployment, config, latest>> PROVE ConfigInv'
  BY <1>1
<1> DEFINE Same == UNCHANGED <<deployment, config, latest>>
<1>2. MessageSent => Same
  BY DEF MessageSent, gateVars, ingressVars
<1>3. SyncSteps => Same
  BY DEF SyncSteps, HandleMessage, CheckSender, MatchMessage, syncSame, gateVars, ingressVars
<1>4. ASSUME NEW d \in Deliveries, EventArrives(d) \/ WebhookArrives(d) PROVE Same
  BY <1>4 DEF EventArrives, WebhookArrives, otherThanIngress, gateVars, EventReads, EventRefused,
              EventOverLimit, EventAccepted, ingressSame, handleWebhook, ForwardFails
<1>5. ASSUME NEW t \in Under, TurnSteps(t) PROVE Same
  BY <1>5 DEF TurnSteps, RunEventTurn, BeginTurn, CallLLM, ModelAnswers, NextToolCall, ToolReturns,
              WorkflowStep, EndTurn, turnSame, gateVars, ingressVars
<1>6. ASSUME NEW e \in Executors, GateSteps(e) \/ Abort(e) PROVE Same
  BY <1>6 DEF GateSteps, Abort, controlSame, ingressVars, DispatchSteps, EvaluatePolicy, RequestApproval,
              AwaitDecision, PollApproval, ApprovalTimeout, ExecuteSend, ExecuteMCP, WaitAborted
<1>7. ASSUME NEW e \in Executors, OperatorDecides(e) PROVE Same
  BY <1>7 DEF OperatorDecides, RecordDecision, ingressVars
<1>8. ASSUME NEW c \in Calls, ControlSteps(c) PROVE Same
  BY <1>8 DEF ControlSteps, HandleToolCall, AnswerToolCall, HandleRestart, controlSame, gateVars, ingressVars
<1>9. CASE RurikoStores
  BY <1>9 DEF RurikoStores, StoreVersion, gateVars
<1>10. CASE ConfigPushed
  BY <1>10 DEF ConfigPushed, controlSame, ingressVars
<1>11. Tick => Same
  BY DEF Tick, GateTick, IngressTick
<1>12. Crash \/ StopEnds \/ ExitAtLimit => Same
  BY DEF Crash, StopEnds, ExitAtLimit, ProcessRestarts, IngressRestarts, ingressSame
<1>13. UNCHANGED vars => Same
  BY DEF vars, gateVars, ingressVars
<1> QED
  BY <1>1, <1>2, <1>3, <1>4, <1>5, <1>6, <1>7, <1>8, <1>9, <1>10, <1>11, <1>12, <1>13 DEF Next

-----------------------------------------------------------------------------
(* The gate.                                                               *)

\* A step that moves one call on to pc, changing nothing else of the dispatch.
LEMMA GoesShape ==
    ASSUME GateShape, NEW e \in Executors, NEW pc, dispatch[e] # NoCall, DispatchGoes(e, pc)
    PROVE  /\ dispatch' = [f \in Executors |-> dispatch'[f]]
           /\ dispatch'[e] = [pc |-> pc, call |-> dispatch[e].call, n |-> dispatch[e].n, cfg |-> dispatch[e].cfg]
           /\ \A f \in Executors \ {e} : dispatch'[f] = dispatch[f]
<1>1. dispatch' = [dispatch EXCEPT ![e] = [dispatch[e] EXCEPT !.pc = pc]]
  BY DEF DispatchGoes
<1>2. [dispatch[e] EXCEPT !.pc = pc] = [pc |-> pc, call |-> dispatch[e].call, n |-> dispatch[e].n, cfg |-> dispatch[e].cfg]
  <2>1. dispatch[e] = [pc |-> dispatch[e].pc, call |-> dispatch[e].call,
                       n |-> dispatch[e].n, cfg |-> dispatch[e].cfg]
    BY DEF GateShape
  <2>2. ASSUME NEW a, NEW b, NEW c, NEW d, dispatch[e] = [pc |-> a, call |-> b, n |-> c, cfg |-> d]
        PROVE  [dispatch[e] EXCEPT !.pc = pc] = [pc |-> pc, call |-> b, n |-> c, cfg |-> d]
    BY <2>2
  <2> QED
    BY <2>1, <2>2
<1>3. dispatch = [f \in Executors |-> dispatch[f]]
  BY DEF GateShape
<1>4. ASSUME NEW F, dispatch = [f \in Executors |-> dispatch[f]], NEW x, F = [dispatch EXCEPT ![e] = x]
      PROVE  F = [f \in Executors |-> F[f]] /\ F[e] = x /\ \A f \in Executors \ {e} : F[f] = dispatch[f]
  BY <1>4
<1> QED
  BY <1>1, <1>2, <1>3, <1>4

LEMMA GoesFields ==
    ASSUME GateShape, NEW e \in Executors, NEW pc, dispatch[e] # NoCall, DispatchGoes(e, pc)
    PROVE  /\ dispatch'[e].pc = pc /\ dispatch'[e].call = dispatch[e].call
           /\ dispatch'[e].n = dispatch[e].n /\ dispatch'[e].cfg = dispatch[e].cfg
<1>1. dispatch'[e] = [pc |-> pc, call |-> dispatch[e].call, n |-> dispatch[e].n, cfg |-> dispatch[e].cfg]
  BY GoesShape
<1> QED
  BY <1>1

\* The three ways in which the approvals table changes.
RowsShape == approvals = [e \in DOMAIN approvals |->
                 [n |-> approvals[e].n, status |-> approvals[e].status, left |-> approvals[e].left]]

LEMMA StatusSet ==
    ASSUME RowsShape, NEW e \in DOMAIN approvals, NEW status, SetApprovalStatus(e, status)
    PROVE  /\ RowsShape' /\ DOMAIN approvals' = DOMAIN approvals
           /\ approvals'[e].status = status
           /\ \A f \in DOMAIN approvals :
                 /\ approvals'[f].n = approvals[f].n
                 /\ approvals'[f].left = approvals[f].left
                 /\ f # e => approvals'[f].status = approvals[f].status
<1>1. ASSUME NEW D, NEW N, NEW S, NEW L, e \in D,
             approvals = [f \in D |-> [n |-> N[f], status |-> S[f], left |-> L[f]]]
      PROVE  approvals' = [f \in D |-> [n |-> N[f], status |-> IF f = e THEN status ELSE S[f], left |-> L[f]]]
  <2>1. approvals' = [approvals EXCEPT ![e] = [approvals[e] EXCEPT !.status = status]]
    BY DEF SetApprovalStatus
  <2>2. [approvals[e] EXCEPT !.status = status] = [n |-> N[e], status |-> status, left |-> L[e]]
    BY <1>1
  <2> QED
    BY <1>1, <2>1, <2>2
<1> DEFINE D == DOMAIN approvals
           N == [f \in D |-> approvals[f].n]
           S == [f \in D |-> approvals[f].status]
           L == [f \in D |-> approvals[f].left]
<1>2. approvals = [f \in D |-> [n |-> N[f], status |-> S[f], left |-> L[f]]]
  BY DEF RowsShape
<1>3. approvals' = [f \in D |-> [n |-> N[f], status |-> IF f = e THEN status ELSE S[f], left |-> L[f]]]
  <2> HIDE DEF N, S, L
  <2> QED
    BY <1>1, <1>2
<1> QED
  BY <1>3 DEF RowsShape

LEMMA RowAdded ==
    ASSUME RowsShape, NEW e, e \notin DOMAIN approvals, SaveApproval(e)
    PROVE  /\ RowsShape' /\ DOMAIN approvals' = DOMAIN approvals \cup {e}
           /\ approvals'[e].n = dispatch[e].n /\ approvals'[e].status = "pending"
           /\ approvals'[e].left \in {DefaultTTL, config.ttl}
           /\ \A f \in DOMAIN approvals : approvals'[f] = approvals[f]
<1>1. PICK row : /\ approvals' = [f \in DOMAIN approvals \cup {e} |-> IF f = e THEN row ELSE approvals[f]]
                 /\ \E l \in {DefaultTTL, config.ttl} : row = [n |-> dispatch[e].n, status |-> "pending", left |-> l]
  BY DEF SaveApproval
<1>2. /\ DOMAIN approvals' = DOMAIN approvals \cup {e} /\ approvals'[e] = row
      /\ \A f \in DOMAIN approvals : approvals'[f] = approvals[f]
      /\ approvals' = [f \in DOMAIN approvals \cup {e} |-> approvals'[f]]
  BY <1>1
<1>3. row = [n |-> row.n, status |-> row.status, left |-> row.left]
  BY <1>1
<1>4. ASSUME NEW f \in DOMAIN approvals
      PROVE  approvals'[f] = [n |-> approvals'[f].n, status |-> approvals'[f].status, left |-> approvals'[f].left]
  BY <1>2 DEF RowsShape
<1>5. \A f \in DOMAIN approvals' :
         approvals'[f] = [n |-> approvals'[f].n, status |-> approvals'[f].status, left |-> approvals'[f].left]
  BY <1>2, <1>3, <1>4
<1>6. RowsShape'
  BY <1>2, <1>5 DEF RowsShape
<1> QED
  BY <1>1, <1>2, <1>6

LEMMA RowsAge ==
    ASSUME RowsShape, GateTick
    PROVE  /\ RowsShape' /\ DOMAIN approvals' = DOMAIN approvals
           /\ \A f \in DOMAIN approvals :
                 /\ approvals'[f].n = approvals[f].n /\ approvals'[f].status = approvals[f].status
                 /\ approvals'[f].left = Less(approvals[f].left)
<1>1. approvals' = [e \in DOMAIN approvals |-> [approvals[e] EXCEPT !.left = Less(@)]]
  BY DEF GateTick
<1>2. ASSUME NEW f \in DOMAIN approvals
      PROVE  approvals'[f] = [n |-> approvals[f].n, status |-> approvals[f].status, left |-> Less(approvals[f].left)]
  <2>1. approvals[f] = [n |-> approvals[f].n, status |-> approvals[f].status, left |-> approvals[f].left]
    BY DEF RowsShape
  <2>2. ASSUME NEW r, NEW a, NEW b, NEW c, NEW d, r = [n |-> a, status |-> b, left |-> c]
        PROVE  [r EXCEPT !.left = d] = [n |-> a, status |-> b, left |-> d]
    BY <2>2
  <2>3. approvals'[f] = [approvals[f] EXCEPT !.left = Less(approvals[f].left)]
    BY <1>1
  <2> QED
    BY <2>1, <2>2, <2>3
<1>3. DOMAIN approvals' = DOMAIN approvals
  BY <1>1
<1> QED
  BY <1>1, <1>2, <1>3 DEF RowsShape

\* A call that a step leaves alone stays in order.
LEMMA CallSame ==
    ASSUME NEW e, CallInv(e), dispatch'[e] = dispatch[e], grants \subseteq grants',
           e \in DOMAIN approvals => e \in DOMAIN approvals' /\ approvals'[e].n = approvals[e].n
    PROVE  CallInv(e)'
  BY DEF CallInv

LEMMA EffectsSame ==
    ASSUME EffectsArePermitted, effects' = effects, grants \subseteq grants'
    PROVE  EffectsArePermitted'
  BY DEF EffectsArePermitted

\* An effect of a call that has passed the gate is permitted.
LEMMA EffectPermitted ==
    ASSUME EffectsArePermitted, NEW e \in Executors, CallInv(e), dispatch[e].pc = "execute",
           TakesEffect(e), UNCHANGED grants
    PROVE  EffectsArePermitted'
<1>1. PICK i \in DOMAIN dispatch[e].cfg.caps :
         /\ Permits(dispatch[e].cfg, dispatch[e].call, i)
         /\ dispatch[e].cfg.caps[i].approval => <<e, dispatch[e].n>> \in grants
  BY DEF CallInv
<1> DEFINE x == [by |-> e, n |-> dispatch[e].n, call |-> dispatch[e].call, cfg |-> dispatch[e].cfg]
<1>2. effects' = effects \cup {x}
  BY DEF TakesEffect
<1>3. ASSUME NEW y \in effects' PROVE EffectsArePermitted!(y)'
  <2>1. CASE y \in effects
    BY <2>1 DEF EffectsArePermitted
  <2>2. CASE y = x
    <3>1. y.by = e /\ y.n = dispatch[e].n /\ y.call = dispatch[e].call /\ y.cfg = dispatch[e].cfg
      BY <2>2
    <3> QED
      BY <1>1, <3>1 DEF Permits
  <2> QED
    BY <1>2, <1>3, <2>1, <2>2
<1> QED
  BY <1>3 DEF EffectsArePermitted

\* The parts of GateInv after a step that moved the call of e on, or kept it.
LEMMA GateInvAfter ==
    ASSUME GateInv, NEW e \in Executors, NEW pc, dispatch[e] # NoCall, DispatchGoes(e, pc),
           RowsShape', \A f \in DOMAIN approvals' : RowInv(f)', EffectsArePermitted',
           grants' = grants, DOMAIN approvals \subseteq DOMAIN approvals',
           \A f \in DOMAIN approvals : approvals'[f].n = approvals[f].n,
           CallInv(e)'
    PROVE  GateInv'
<1>1. /\ dispatch' = [f \in Executors |-> dispatch'[f]]
      /\ dispatch'[e] = [pc |-> pc, call |-> dispatch[e].call, n |-> dispatch[e].n, cfg |-> dispatch[e].cfg]
      /\ \A f \in Executors \ {e} : dispatch'[f] = dispatch[f]
  BY GoesShape DEF GateInv
<1>2. GateShape'
  <2>1. ASSUME NEW f \in Executors, dispatch'[f] # NoCall
        PROVE  dispatch'[f] = [pc |-> dispatch'[f].pc, call |-> dispatch'[f].call,
                               n |-> dispatch'[f].n, cfg |-> dispatch'[f].cfg]
    BY <1>1, <2>1 DEF GateInv, GateShape
  <2> QED
    BY <1>1, <2>1 DEF GateShape, RowsShape
<1>3. ASSUME NEW f \in Executors \ {e} PROVE CallInv(f)'
  BY <1>1, CallSame DEF GateInv
<1> QED
  BY <1>2, <1>3 DEF GateInv

\* The policy is evaluated under the configuration of the moment.
LEMMA EvaluateStep ==
    ASSUME GateInv, ConfigInv, NEW e \in Executors, EvaluatePolicy(e)
    PROVE  GateInv'
<1> DEFINE decision == Evaluate(config, dispatch[e].call)
           pc == AfterPolicy(decision)
<1>1. /\ dispatch[e].pc = "evaluate" /\ UNCHANGED <<approvals, effects, grants>>
      /\ dispatch' = [dispatch EXCEPT ![e] =
             [pc |-> pc, call |-> dispatch[e].call, n |-> dispatch[e].n, cfg |-> config]]
  BY DEF EvaluatePolicy, DispatchAt
<1>2. decision \in {"deny", "approval", "allow"}
  BY DEF Evaluate
<1>3. /\ decision = "deny" => pc = "failed"
      /\ decision = "approval" => pc = "request"
      /\ decision = "allow" => pc = "execute"
  BY DEF AfterPolicy
<1> HIDE DEF pc
<1>4. /\ dispatch' = [f \in Executors |-> dispatch'[f]]
      /\ dispatch'[e] = [pc |-> pc, call |-> dispatch[e].call, n |-> dispatch[e].n, cfg |-> config]
      /\ \A f \in Executors \ {e} : dispatch'[f] = dispatch[f]
  <2>1. dispatch = [f \in Executors |-> dispatch[f]]
    BY DEF GateInv, GateShape
  <2>2. ASSUME NEW F, dispatch = [f \in Executors |-> dispatch[f]], NEW x, F = [dispatch EXCEPT ![e] = x]
        PROVE  F = [f \in Executors |-> F[f]] /\ F[e] = x /\ \A f \in Executors \ {e} : F[f] = dispatch[f]
    BY <2>2
  <2> QED
    BY <1>1, <2>1, <2>2
<1>5. GateShape'
  <2>1. ASSUME NEW f \in Executors, dispatch'[f] # NoCall
        PROVE  dispatch'[f] = [pc |-> dispatch'[f].pc, call |-> dispatch'[f].call,
                               n |-> dispatch'[f].n, cfg |-> dispatch'[f].cfg]
    BY <1>4, <2>1 DEF GateInv, GateShape
  <2> QED
    BY <1>1, <1>4, <2>1 DEF GateShape, GateInv
<1>6. CallInv(e)'
  <2>1. CASE decision = "deny"
    BY <1>3, <1>4, <2>1 DEF CallInv
  <2>2. CASE decision # "deny"
    <3>1. Len(config.caps) \in Nat /\ DOMAIN config.caps = 1..Len(config.caps)
      BY TurnsAssumption DEF ConfigInv
    <3>2. PICK i \in DOMAIN config.caps :
             /\ Permits(config, dispatch[e].call, i)
             /\ config.caps[i].approval => decision = "approval"
      BY <2>2, <3>1, EvaluateSound
    <3>3. /\ dispatch'[e].cfg = config /\ dispatch'[e].call = dispatch[e].call
          /\ dispatch'[e].pc = pc
      BY <1>4
    <3>4. pc \in {"request", "execute"} /\ (pc = "execute" => decision # "approval")
      BY <1>2, <1>3, <2>2
    <3> QED
      BY <3>2, <3>3, <3>4 DEF CallInv
  <2> QED
    BY <2>1, <2>2
<1>7. ASSUME NEW f \in Executors \ {e} PROVE CallInv(f)'
  BY <1>1, <1>4, CallSame DEF GateInv
<1> QED
  BY <1>1, <1>5, <1>6, <1>7, EffectsSame DEF GateInv, RowInv

\* A call that fails is out of the gate.
LEMMA FailStep ==
    ASSUME GateInv, NEW e \in Executors, dispatch[e] # NoCall,
           DispatchGoes(e, "failed") \/ DispatchGoes(e, "ok"),
           RowsShape', \A f \in DOMAIN approvals' : RowInv(f)', EffectsArePermitted',
           grants' = grants, DOMAIN approvals \subseteq DOMAIN approvals',
           \A f \in DOMAIN approvals : approvals'[f].n = approvals[f].n
    PROVE  GateInv'
<1>1. PICK pc \in {"failed", "ok"} : DispatchGoes(e, pc)
  OBVIOUS
<1>2. dispatch'[e].pc \in {"failed", "ok"}
  BY <1>1, GoesFields DEF GateInv
<1>3. CallInv(e)'
  BY <1>2 DEF CallInv
<1> QED
  BY <1>1, <1>3, GateInvAfter

\* The approval gate: what it lets through was approved for this call.
LEMMA ApprovalSteps ==
    ASSUME GateInv, NEW e \in Executors, RequestApproval(e) \/ AwaitDecision(e) \/ WaitAborted(e)
    PROVE  GateInv'
<1>1. /\ UNCHANGED <<effects, grants>> /\ dispatch[e].pc \in {"request", "waiting"}
      /\ dispatch[e] # NoCall
  BY DEF RequestApproval, AwaitDecision, PollApproval, ApprovalTimeout, WaitAborted, DispatchAt, NoCall
<1>2. RowsShape /\ \A f \in DOMAIN approvals : RowInv(f)
  BY DEF GateInv, GateShape, RowsShape
<1>3. EffectsArePermitted'
  BY <1>1, EffectsSame DEF GateInv
<1>4. CallInv(e)
  BY DEF GateInv
<1>5. CASE DispatchGoes(e, "failed") /\ UNCHANGED approvals
  BY <1>1, <1>2, <1>3, <1>5, FailStep DEF RowsShape, RowInv
<1>6. CASE dispatch[e].pc = "waiting" /\ SetApprovalStatus(e, "denied") /\ DispatchGoes(e, "failed")
  <2>1. e \in DOMAIN approvals
    BY <1>4, <1>6 DEF CallInv
  <2>2. /\ RowsShape' /\ DOMAIN approvals' = DOMAIN approvals
        /\ approvals'[e].status = "denied"
        /\ \A f \in DOMAIN approvals :
              /\ approvals'[f].n = approvals[f].n
              /\ f # e => approvals'[f].status = approvals[f].status
    BY <1>2, <1>6, <2>1, StatusSet
  <2>3. \A f \in DOMAIN approvals' : RowInv(f)'
    BY <1>1, <1>2, <2>2 DEF RowInv
  <2> QED
    BY <1>1, <1>3, <1>6, <2>2, <2>3, FailStep
<1>7. CASE /\ dispatch[e].pc = "waiting" /\ approvals[e].status = "approved"
           /\ DispatchGoes(e, "execute") /\ UNCHANGED approvals
  <2>1. e \in DOMAIN approvals /\ approvals[e].n = dispatch[e].n
    BY <1>4, <1>7 DEF CallInv
  <2>2. <<e, dispatch[e].n>> \in grants
    BY <1>2, <1>7, <2>1 DEF RowInv
  <2>3. PICK i \in DOMAIN dispatch[e].cfg.caps : Permits(dispatch[e].cfg, dispatch[e].call, i)
    BY <1>4, <1>7 DEF CallInv
  <2>4. /\ dispatch'[e].pc = "execute" /\ dispatch'[e].cfg = dispatch[e].cfg
        /\ dispatch'[e].call = dispatch[e].call /\ dispatch'[e].n = dispatch[e].n
    BY <1>1, <1>7, GoesFields DEF GateInv
  <2>5. CallInv(e)'
    BY <1>1, <2>2, <2>3, <2>4 DEF CallInv
  <2> QED
    BY <1>1, <1>2, <1>3, <1>7, <2>5, GateInvAfter DEF RowsShape, RowInv
<1>8. CASE /\ dispatch[e].pc = "request" /\ ~SaveApprovalFails(e)
           /\ SaveApproval(e) /\ DispatchGoes(e, "waiting")
  <2>1. /\ RowsShape' /\ DOMAIN approvals' = DOMAIN approvals \cup {e}
        /\ approvals'[e].n = dispatch[e].n /\ approvals'[e].status = "pending"
        /\ \A f \in DOMAIN approvals : approvals'[f] = approvals[f]
    BY <1>2, <1>8, RowAdded DEF SaveApprovalFails
  <2>2. \A f \in DOMAIN approvals' : RowInv(f)'
    BY <1>1, <1>2, <2>1 DEF RowInv
  <2>3. /\ dispatch'[e].pc = "waiting" /\ dispatch'[e].cfg = dispatch[e].cfg
        /\ dispatch'[e].call = dispatch[e].call /\ dispatch'[e].n = dispatch[e].n
    BY <1>1, <1>8, GoesFields DEF GateInv
  <2>4. CallInv(e)'
    BY <1>4, <1>8, <2>1, <2>3 DEF CallInv
  <2> QED
    BY <1>1, <1>3, <1>8, <2>1, <2>2, <2>4, GateInvAfter
<1> QED
  BY <1>5, <1>6, <1>7, <1>8 DEF RequestApproval, AwaitDecision, PollApproval, ApprovalTimeout, WaitAborted, DispatchAt

LEMMA ExecuteSteps ==
    ASSUME GateInv, NEW e \in Executors, ExecuteSend(e) \/ ExecuteMCP(e)
    PROVE  GateInv'
<1>1. /\ UNCHANGED <<approvals, grants>> /\ dispatch[e].pc = "execute" /\ dispatch[e] # NoCall
      /\ DispatchGoes(e, "failed") \/ DispatchGoes(e, "ok")
      /\ UNCHANGED effects \/ TakesEffect(e)
  BY DEF ExecuteSend, ExecuteMCP, DispatchAt, NoCall
<1>2. RowsShape /\ \A f \in DOMAIN approvals : RowInv(f)
  BY DEF GateInv, GateShape, RowsShape
<1>3. EffectsArePermitted'
  BY <1>1, EffectsSame, EffectPermitted DEF GateInv
<1> QED
  BY <1>1, <1>2, <1>3, FailStep DEF RowsShape, RowInv

LEMMA StepGateInv == GateInv /\ ConfigInv /\ [Next]_vars => GateInv'
<1> SUFFICES ASSUME GateInv, ConfigInv, GateNext PROVE GateInv'
  BY NextIsGateNext
<1>1. /\ RowsShape /\ \A f \in DOMAIN approvals : RowInv(f)
      /\ dispatch = [f \in Executors |-> dispatch[f]]
  BY DEF GateInv, GateShape, RowsShape
<1>2. ASSUME NEW e, NEW c, dispatch' = [dispatch EXCEPT ![e] = c], UNCHANGED otherThanDispatch,
             c.pc \in {"none", "evaluate", "failed"},
             c # NoCall => c = [pc |-> c.pc, call |-> c.call, n |-> c.n, cfg |-> c.cfg]
      PROVE  GateInv'
  <2>1. /\ dispatch' = [f \in Executors |-> dispatch'[f]]
        /\ \A f \in Executors : dispatch'[f] = IF f = e THEN c ELSE dispatch[f]
    BY <1>1, <1>2
  <2>2. GateShape'
    BY <1>2, <2>1 DEF GateInv, GateShape, otherThanDispatch
  <2>3. ASSUME NEW f \in Executors PROVE CallInv(f)'
    <3>1. CASE f = e
      BY <1>2, <2>1, <3>1 DEF CallInv
    <3>2. CASE f # e
      BY <1>2, <2>1, <3>2, CallSame DEF GateInv, otherThanDispatch
    <3> QED
      BY <3>1, <3>2
  <2>4. EffectsArePermitted' /\ \A f \in DOMAIN approvals' : RowInv(f)'
    BY <1>1, <1>2, EffectsSame DEF GateInv, RowInv, otherThanDispatch
  <2> QED
    BY <2>2, <2>3, <2>4 DEF GateInv
<1>3. ASSUME NEW e, NEW call, NEW n, DispatchToolCall(e, call, n), UNCHANGED otherThanDispatch
      PROVE  GateInv'
  <2> DEFINE c == [pc |-> IF call.valid THEN "evaluate" ELSE "failed", call |-> call, n |-> n, cfg |-> config]
  <2>1. dispatch' = [dispatch EXCEPT ![e] = c]
    BY <1>3 DEF DispatchToolCall
  <2>2. c.pc \in {"evaluate", "failed"} /\ c = [pc |-> c.pc, call |-> c.call, n |-> c.n, cfg |-> c.cfg]
    OBVIOUS
  <2> HIDE DEF c
  <2> QED
    BY <1>2, <1>3, <2>1, <2>2
<1>4. ASSUME NEW e, dispatch' = [dispatch EXCEPT ![e] = NoCall], UNCHANGED otherThanDispatch
      PROVE  GateInv'
  <2>1. NoCall.pc = "none"
    BY DEF NoCall
  <2> QED
    BY <1>2, <1>4, <2>1
<1>5. ASSUME NEW e \in Executors, DispatchSteps(e) \/ WaitAborted(e) PROVE GateInv'
  BY <1>5, EvaluateStep, ApprovalSteps, ExecuteSteps DEF DispatchSteps
<1>6. ASSUME UNCHANGED <<dispatch, effects>>, RowsShape', DOMAIN approvals' = DOMAIN approvals,
             grants \subseteq grants', \A f \in DOMAIN approvals : approvals'[f].n = approvals[f].n,
             \A f \in DOMAIN approvals : RowInv(f)'
      PROVE  GateInv'
  <2>1. \A f \in Executors : CallInv(f)'
    BY <1>6, CallSame DEF GateInv
  <2>2. GateShape'
    BY <1>6 DEF GateInv, GateShape, RowsShape
  <2> QED
    BY <1>6, <2>1, <2>2, EffectsSame DEF GateInv
<1>7. ASSUME NEW e \in Executors, NEW verdict \in {"approved", "denied"}, RecordDecision(e, verdict)
      PROVE  GateInv'
  <2>1. e \in DOMAIN approvals /\ SetApprovalStatus(e, verdict) /\ UNCHANGED <<dispatch, effects>>
    BY <1>7 DEF RecordDecision, SetApprovalStatus
  <2>2. /\ RowsShape' /\ DOMAIN approvals' = DOMAIN approvals
        /\ approvals'[e].status = verdict
        /\ \A f \in DOMAIN approvals :
              /\ approvals'[f].n = approvals[f].n
              /\ f # e => approvals'[f].status = approvals[f].status
    BY <1>1, <2>1, StatusSet
  <2>3. grants \subseteq grants' /\ (verdict = "approved" => <<e, approvals[e].n>> \in grants')
    BY <1>7 DEF RecordDecision
  <2>4. \A f \in DOMAIN approvals : RowInv(f)'
    BY <1>1, <2>2, <2>3 DEF RowInv
  <2> QED
    BY <1>6, <2>1, <2>2, <2>3, <2>4
<1>8. CASE GateTick
  <2>1. /\ RowsShape' /\ DOMAIN approvals' = DOMAIN approvals
        /\ \A f \in DOMAIN approvals :
              approvals'[f].n = approvals[f].n /\ approvals'[f].status = approvals[f].status
    BY <1>1, <1>8, RowsAge
  <2>2. UNCHANGED <<dispatch, effects, grants>>
    BY <1>8 DEF GateTick
  <2> QED
    BY <1>1, <1>6, <2>1, <2>2 DEF RowInv
<1>9. ASSUME dispatch' = [e \in Executors |-> NoCall], UNCHANGED <<approvals, effects, grants>>
      PROVE  GateInv'
  <2>1. GateShape' /\ \A f \in Executors : CallInv(f)'
    BY <1>9 DEF GateInv, GateShape, CallInv, NoCall
  <2> QED
    BY <1>1, <1>9, <2>1, EffectsSame DEF GateInv, RowInv
<1>10. CASE UNCHANGED <<dispatch, approvals, effects, grants>>
  BY <1>1, <1>6, <1>10 DEF RowsShape, RowInv
<1> QED
  BY <1>3, <1>4, <1>5, <1>7, <1>8, <1>9, <1>10 DEF GateNext

LEMMA InitConfigInv == Init => ConfigInv
  BY DEF Init, ConfigInv

LEMMA InitGateInv == Init => GateInv
<1> SUFFICES ASSUME Init PROVE GateInv
  OBVIOUS
<1>1. /\ dispatch = [e \in Executors |-> NoCall] /\ approvals = <<>> /\ effects = {}
  BY DEF Init, GateInit
<1>2. DOMAIN approvals = {}
  BY <1>1
<1>3. GateShape
  BY <1>1, <1>2 DEF GateShape
<1> QED
  BY <1>1, <1>2, <1>3 DEF GateInv, CallInv, NoCall, EffectsArePermitted

\* A tool takes effect only if the first matching rule of the configuration its policy was
\* evaluated under allows it and, where that rule asks for it, an operator approved this
\* very call (DispatchToolCall, policy.Evaluate, approvals.Gate.Request), whatever turns,
\* requests, pushes, decisions, timeouts and restarts come in between.
THEOREM EffectsPermitted == Spec => []EffectsArePermitted
<1>1. GateInv /\ ConfigInv => EffectsArePermitted
  BY DEF GateInv
<1> QED
  BY <1>1, InitConfigInv, InitGateInv, StepConfigInv, StepGateInv, PTL DEF Spec

\* A granted approval is undone, before its deadline, by nothing but another decision
\* (Gate.Request's timer and ticker deny only what is pending or past its time).
THEOREM GrantStands == Spec => DecisionStands
<1> DEFINE Stands == \A e \in DOMAIN approvals :
               approvals[e].status = "approved" /\ approvals'[e].status # "approved" =>
                   approvals[e].left = 0 \/ UNCHANGED dispatch
<1>1. ASSUME GateInv, [Next]_vars PROVE Stands
  <2>1. RowsShape
    BY <1>1 DEF GateInv, GateShape, RowsShape
  <2>2. CASE UNCHANGED dispatch \/ UNCHANGED approvals
    BY <2>2
  <2>3. ASSUME NEW e \in Executors, RequestApproval(e) PROVE Stands
    <3>1. CASE e \notin DOMAIN approvals /\ SaveApproval(e)
      BY <2>1, <3>1, RowAdded
    <3> QED
      BY <2>2, <2>3, <3>1 DEF RequestApproval, SaveApprovalFails
  <2>4. ASSUME NEW e \in Executors, dispatch[e].pc = "waiting", SetApprovalStatus(e, "denied"),
               approvals[e].left = 0 \/ approvals[e].status # "approved"
        PROVE  Stands
    <3>1. e \in DOMAIN approvals
      BY <1>1, <2>4 DEF GateInv, CallInv
    <3> QED
      BY <2>1, <2>4, <3>1, StatusSet
  <2>5. ASSUME NEW e \in Executors, AwaitDecision(e) PROVE Stands
    BY <2>2, <2>4, <2>5 DEF AwaitDecision, PollApproval, ApprovalTimeout, DispatchAt
  <2>6. ASSUME NEW e \in Executors, DispatchSteps(e) \/ WaitAborted(e) PROVE Stands
    BY <2>2, <2>3, <2>5, <2>6 DEF DispatchSteps, WaitAborted, EvaluatePolicy, ExecuteSend, ExecuteMCP
  <2>7. GateNext
    BY <1>1, NextIsGateNext
  <2> QED
    BY <2>2, <2>6, <2>7 DEF GateNext, otherThanDispatch, RecordDecision, GateTick
<1>2. ConfigInv /\ GateInv /\ [Next]_vars => [Stands]_gateVars
  BY <1>1
<1> QED
  BY <1>2, InitConfigInv, InitGateInv, StepConfigInv, StepGateInv, PTL DEF Spec, DecisionStands

-----------------------------------------------------------------------------
(* Event ingress.                                                          *)

\* The composition changes a delivery only by the operations of the proxy and the agent,
\* and what a delivery carries never.
IngressNext ==
    /\ deployment' = deployment
    /\ \/ \E d \in DOMAIN request : \/ EventReads(d, config)
                                    \/ EventRefused(d) \/ EventOverLimit(d) \/ EventAccepted(d)
                                    \/ handleWebhook(d) \/ ForwardFails(d)
       \/ IngressRestarts
       \/ UNCHANGED <<request, delivery, heard>>

LEMMA NextIsIngressNext == [Next]_vars => IngressNext
<1> SUFFICES ASSUME [Next]_vars PROVE IngressNext
  OBVIOUS
<1> DEFINE Same == UNCHANGED <<deployment, request, delivery, heard>>
<1>0. Same => IngressNext
  BY DEF IngressNext
<1>1. MessageSent => Same
  BY DEF MessageSent, ingressVars
<1>2. SyncSteps => Same
  BY DEF SyncSteps, HandleMessage, CheckSender, MatchMessage, syncSame, ingressVars
<1>3. ASSUME NEW d \in Deliveries, EventArrives(d) \/ WebhookArrives(d) PROVE IngressNext
  BY <1>3 DEF EventArrives, WebhookArrives, otherThanIngress, IngressNext
<1>4. ASSUME NEW t \in Under, TurnSteps(t) PROVE Same
  BY <1>4 DEF TurnSteps, RunEventTurn, BeginTurn, CallLLM, ModelAnswers, NextToolCall, ToolReturns,
              WorkflowStep, EndTurn, turnSame, ingressVars
<1>5. ASSUME NEW e \in Executors, GateSteps(e) \/ Abort(e) \/ OperatorDecides(e) PROVE Same
  BY <1>5 DEF GateSteps, Abort, OperatorDecides, controlSame, ingressVars
<1>6. ASSUME NEW c \in Calls, ControlSteps(c) PROVE Same
  BY <1>6 DEF ControlSteps, HandleToolCall, AnswerToolCall, HandleRestart, controlSame, ingressVars
<1>7. RurikoStores => Same
  BY DEF RurikoStores, StoreVersion
<1>8. ConfigPushed => Same
  BY DEF ConfigPushed, controlSame, ingressVars
<1>9. Tick => Same
  BY DEF Tick, IngressTick
<1>10. Crash \/ StopEnds \/ ExitAtLimit => IngressNext
  BY DEF Crash, StopEnds, ExitAtLimit, ProcessRestarts, IngressNext
<1>11. UNCHANGED vars => Same
  BY DEF vars, ingressVars
<1> HIDE DEF Same
<1> QED
  BY <1>0, <1>1, <1>2, <1>3, <1>4, <1>5, <1>6, <1>7, <1>8, <1>9, <1>10, <1>11 DEF Next

\* A delivery that gets a new status, which is accepted or forwarded only when authentic.
LEMMA AnswersStep ==
    ASSUME IngressInv, NEW d \in DOMAIN request, NEW status \in Answered, Answers(d, status), UNCHANGED request,
           status = "202" => request[d].via = "local" \/ request[d].bearer \/ request[d].sig,
           status = "forwarded" \/ (status = "reading" /\ request[d].via = "proxy") =>
               request[d].bearer \/ request[d].sig
    PROVE  IngressInv'
<1>1. d \in Deliveries /\ delivery = [x \in Deliveries |-> delivery[x]] /\ delivery' = [delivery EXCEPT ![d] = status]
  BY DEF IngressInv, Answers
<1>2. ASSUME NEW F, delivery = [x \in Deliveries |-> delivery[x]], F = [delivery EXCEPT ![d] = status]
      PROVE  F = [x \in Deliveries |-> F[x]] /\ F[d] = status /\ \A x \in Deliveries \ {d} : F[x] = delivery[x]
  BY <1>1, <1>2
<1>3. /\ delivery' = [x \in Deliveries |-> delivery'[x]] /\ delivery'[d] = status
      /\ \A x \in Deliveries \ {d} : delivery'[x] = delivery[x]
  BY <1>1, <1>2
<1> QED
  BY <1>3 DEF IngressInv, AcceptedIsAuthentic

LEMMA StepIngressInv == IngressInv /\ [Next]_vars => IngressInv'
<1> SUFFICES ASSUME IngressInv, IngressNext PROVE IngressInv'
  BY NextIsIngressNext
<1> USE DEF Answered
<1>0. ASSUME NEW d \in DOMAIN request, EventReads(d, config) PROVE IngressInv'
  <2>1. UNCHANGED request /\ AtAgent(d) /\ (Answers(d, "reading") \/ Answers(d, "404"))
    BY <1>0 DEF EventReads, ingressSame
  <2>2. request[d].via = "proxy" => request[d].bearer \/ request[d].sig
    BY <2>1 DEF AtAgent, IngressInv
  <2> QED
    BY <2>1, <2>2, AnswersStep
<1>1. ASSUME NEW d \in DOMAIN request, EventRefused(d) PROVE IngressInv'
  <2>1. PICK secret \in BOOLEAN :
           LET status == Refused(heard[d], Seen(d), secret)
           IN  status # "no" /\ Answers(d, status)
    BY <1>1 DEF EventRefused
  <2>2. Refused(heard[d], Seen(d), secret) \in {"no", "400", "401"}
    BY DEF Refused, EnvelopeRefused
  <2>3. UNCHANGED request
    BY <1>1 DEF EventRefused, ingressSame
  <2> QED
    BY <2>1, <2>2, <2>3, AnswersStep
<1>2. ASSUME NEW d \in DOMAIN request, EventOverLimit(d) PROVE IngressInv'
  BY <1>2, AnswersStep DEF EventOverLimit, ingressSame
<1>3. ASSUME NEW d \in DOMAIN request, EventAccepted(d) PROVE IngressInv'
  <2>1. PICK secret \in BOOLEAN : Reading(d) /\ Refused(heard[d], Seen(d), secret) = "no"
    BY <1>3 DEF EventAccepted, Passes
  <2>2. Answers(d, "202") /\ UNCHANGED request
    BY <1>3 DEF EventAccepted, ingressSame
  <2>3. request[d].via = "local" \/ request[d].bearer \/ request[d].sig
    <3>1. CASE request[d].via = "proxy"
      BY <2>1, <3>1 DEF IngressInv, Reading
    <3>2. CASE request[d].via # "proxy"
      <4>1. Seen(d) = request[d]
        BY <3>2 DEF Seen
      <4>2. TokenOk(request[d]) \/ request[d].sig
        BY <2>1, <4>1 DEF Refused, EnvelopeRefused, WebhookRefused
      <4> QED
        BY <4>2 DEF TokenOk
    <3> QED
      BY <3>1, <3>2
  <2> QED
    BY <2>2, <2>3, AnswersStep
<1>4. ASSUME NEW d \in DOMAIN request, handleWebhook(d) PROVE IngressInv'
  <2> DEFINE status == IF ~AllowAll(proxyBuckets, ProxyLimit, <<"agent">>).ok THEN "429"
                       ELSE IF ~IsWebhook(latest, request[d].source) THEN "404"
                       ELSE IF ~ProxyAuth(d) THEN "401" ELSE "forwarded"
  <2>1. UNCHANGED request /\ (Answers(d, "404") \/ Answers(d, "503") \/ Answers(d, status))
    BY <1>4 DEF handleWebhook
  <2>2. status \in {"429", "404", "401", "forwarded"} /\ (status = "forwarded" => ProxyAuth(d))
    OBVIOUS
  <2>3. ProxyAuth(d) => request[d].bearer \/ request[d].sig
    BY DEF ProxyAuth
  <2> HIDE DEF status
  <2> QED
    BY <2>1, <2>2, <2>3, AnswersStep
<1>5. ASSUME NEW d \in DOMAIN request, ForwardFails(d) PROVE IngressInv'
  BY <1>5, AnswersStep DEF ForwardFails
<1>6. CASE UNCHANGED <<request, delivery>>
  BY <1>6 DEF IngressInv, AcceptedIsAuthentic
<1>7. CASE IngressRestarts
  <2>1. /\ delivery' = [d \in Deliveries |-> IF delivery[d] = "reading" THEN "502" ELSE delivery[d]]
        /\ UNCHANGED request
    BY <1>7 DEF IngressRestarts, Reading, ingressSame
  <2> QED
    BY <2>1 DEF IngressInv, AcceptedIsAuthentic
<1> QED
  BY <1>0, <1>1, <1>2, <1>3, <1>4, <1>5, <1>6, <1>7 DEF IngressNext

LEMMA StepHeardInv == HeardInv /\ IngressInv /\ ConfigInv /\ [Next]_vars => HeardInv'
<1> SUFFICES ASSUME HeardInv, IngressInv, ConfigInv, IngressNext PROVE HeardInv'
  BY NextIsIngressNext
<1>0. deployment' = deployment /\ DOMAIN request \subseteq Deliveries
  BY DEF IngressNext, IngressInv
<1>1. ASSUME NEW d \in Deliveries, NEW status, Answers(d, status)
      PROVE  delivery'[d] = status /\ \A x \in Deliveries \ {d} : delivery'[x] = delivery[x]
  <2>1. delivery = [x \in Deliveries |-> delivery[x]] /\ delivery' = [delivery EXCEPT ![d] = status]
    BY <1>1 DEF IngressInv, Answers
  <2> QED
    BY <2>1
<1>2. ASSUME NEW d \in Deliveries, NEW status, Answers(d, status), status # "reading",
             heard' = heard \/ Forgets({d})
      PROVE  HeardInv'
  <2>1. \A x \in Deliveries \ {d} : x \in DOMAIN heard => x \in DOMAIN heard' /\ heard'[x] = heard[x]
    BY <1>2 DEF Forgets
  <2>2. delivery'[d] = status /\ \A x \in Deliveries \ {d} : delivery'[x] = delivery[x]
    BY <1>1, <1>2
  <2> QED
    BY <1>0, <1>2, <2>1, <2>2 DEF HeardInv
<1>3. ASSUME NEW d \in DOMAIN request, EventReads(d, config) PROVE HeardInv'
  <2>1. CASE Answers(d, "404") /\ UNCHANGED heard
    BY <1>0, <1>2, <2>1
  <2>2. CASE Answers(d, "reading") /\ heard' = [x \in DOMAIN heard \cup {d} |-> IF x = d THEN config ELSE heard[x]]
    <3>1. \A x \in Deliveries \ {d} : delivery'[x] = delivery[x]
      BY <1>0, <1>1, <2>2
    <3>2. \A x \in DOMAIN heard \cup {d} : x \in DOMAIN heard' /\ heard'[x] = IF x = d THEN config ELSE heard[x]
      BY <2>2
    <3> QED
      BY <1>0, <3>1, <3>2 DEF HeardInv, ConfigInv
  <2> QED
    BY <1>3, <2>1, <2>2 DEF EventReads
<1>4. ASSUME NEW d \in DOMAIN request, EventRefused(d) PROVE HeardInv'
  <2>1. PICK secret \in BOOLEAN : Answers(d, Refused(heard[d], Seen(d), secret))
    BY <1>4 DEF EventRefused
  <2>2. Refused(heard[d], Seen(d), secret) \in {"no", "400", "401"}
    BY DEF Refused, EnvelopeRefused
  <2>3. Forgets({d})
    BY <1>4 DEF EventRefused
  <2> QED
    BY <1>0, <1>2, <2>1, <2>2, <2>3
<1>5. ASSUME NEW d \in DOMAIN request, EventOverLimit(d) \/ EventAccepted(d) PROVE HeardInv'
  BY <1>0, <1>2, <1>5 DEF EventOverLimit, EventAccepted
<1>6. ASSUME NEW d \in DOMAIN request, handleWebhook(d) \/ ForwardFails(d) PROVE HeardInv'
  <2>1. PICK status \in {"429", "404", "401", "502", "503", "forwarded"} : Answers(d, status)
    BY <1>6 DEF handleWebhook, ForwardFails
  <2>2. heard' = heard
    BY <1>6 DEF handleWebhook, ForwardFails
  <2> QED
    BY <1>0, <1>2, <2>1, <2>2
<1>7. CASE IngressRestarts
  BY <1>7 DEF IngressRestarts, Reading, HeardInv
<1>8. CASE UNCHANGED <<request, delivery, heard>>
  BY <1>0, <1>8 DEF HeardInv
<1> QED
  BY <1>3, <1>4, <1>5, <1>6, <1>7, <1>8 DEF IngressNext

LEMMA InitHeardInv == Init => HeardInv
  BY DEF Init, IngressInit, HeardInv

LEMMA InitIngressInv == Init => IngressInv
<1> SUFFICES ASSUME Init PROVE IngressInv
  OBVIOUS
<1>1. delivery = [d \in Deliveries |-> "unsent"] /\ DOMAIN request \subseteq Deliveries
  BY TurnsAssumption DEF Init, IngressInit
<1>2. \A d \in DOMAIN request : request[d].via \in {"proxy", "remote", "local"}
  BY TurnsAssumption DEF Init
<1> QED
  BY <1>1, <1>2 DEF IngressInv, AcceptedIsAuthentic

\* An event that the agent accepts was local, carried the token, or carried a signature
\* that the proxy or the agent verified (handleWebhook, handleEventIngress,
\* handleWebhookEvent), whichever configuration each of the two had at that time.
THEOREM AcceptedAuthentic == Spec => []AcceptedIsAuthentic
<1>1. IngressInv => AcceptedIsAuthentic
  BY DEF IngressInv
<1> QED
  BY <1>1, InitIngressInv, StepIngressInv, PTL DEF Spec

-----------------------------------------------------------------------------
(* The fixed window and the history of what it let through.                *)

\* A history of a window of n ticks: oldest first, nothing older than the window.
History(recent, n) ==
    /\ recent \in Seq([left : 1..n, max : Nat \ {0}])
    /\ \A i, j \in 1..Len(recent) : i <= j => recent[i].left <= recent[j].left

\* The limiter's window has w ticks to go and has counted count events.  The history
\* splits in two: the first b events passed in the window before, and are as many as its
\* limit at most; the others passed in the present one.
Split(recent, w, count, b) ==
    /\ \A i \in 1..b : recent[i].left < w
    /\ \A i \in b + 1..Len(recent) : recent[i].left >= w
    /\ w > 0 => Len(recent) - b <= count
    /\ b > 0 => b <= recent[b].max
    /\ b < Len(recent) => Len(recent) - b <= recent[Len(recent)].max

Windowed(recent, n, w, count) ==
    /\ History(recent, n)
    /\ \A i \in 1..Len(recent) : recent[i].left <= (n - 1) + w
    /\ \E b \in 0..Len(recent) : Split(recent, w, count, b)

LEMMA HistoryFacts ==
    ASSUME NEW recent, NEW n \in Nat, History(recent, n)
    PROVE  /\ Len(recent) \in Nat /\ DOMAIN recent = 1..Len(recent)
           /\ \A i \in 1..Len(recent) :
                 /\ recent[i].left \in 1..n /\ recent[i].left \in Nat
                 /\ recent[i].max \in Nat \ {0} /\ recent[i].max \in Nat
           /\ \A i, j \in 1..Len(recent) : i <= j => recent[i].left <= recent[j].left
<1>1. recent \in Seq([left : 1..n, max : Nat \ {0}])
  BY DEF History
<1>2. Len(recent) \in Nat /\ DOMAIN recent = 1..Len(recent)
  BY <1>1
<1>3. ASSUME NEW i \in 1..Len(recent)
      PROVE  recent[i].left \in 1..n /\ recent[i].max \in Nat \ {0}
  <2> DEFINE Entry == [left : 1..n, max : Nat \ {0}]
  <2>1. recent[i] \in Entry
    <3>1. recent \in Seq(Entry)
      BY <1>1
    <3> HIDE DEF Entry
    <3> QED
      BY <1>2, <3>1
  <2> QED
    BY <2>1
<1> QED
  BY <1>2, <1>3 DEF History

\* At most one window's worth before the split and one after it.
LEMMA WindowedIsBounded ==
    ASSUME NEW recent, NEW n \in Nat, NEW w \in Nat, NEW count \in Nat, Windowed(recent, n, w, count)
    PROVE  WithinTwoWindows(recent)
<1>1. PICK b \in 0..Len(recent) : Split(recent, w, count, b)
  BY DEF Windowed
<1>2. recent \in Seq([left : 1..n, max : Nat \ {0}])
  BY DEF Windowed, History
<1>0. PICK L \in Nat : L = Len(recent)
  BY HistoryFacts DEF Windowed
<1>3. L \in Nat /\ DOMAIN recent = 1..L /\ \A i \in 1..L : recent[i].max \in Nat
  BY <1>0, HistoryFacts DEF Windowed
<1>4. CASE L = 0
  <2> DEFINE Entry == [left : 1..n, max : Nat \ {0}]
  <2>1. recent = <<>>
    <3> HIDE DEF Entry
    <3>1. recent \in Seq(Entry)
      BY <1>2 DEF Entry
    <3>2. Len(recent) = 0
      BY <1>0, <1>4
    <3> QED
      BY <3>1, <3>2
  <2> QED
    BY <2>1 DEF WithinTwoWindows
<1>5. CASE L > 0 /\ b = 0
  BY <1>0, <1>1, <1>3, <1>5 DEF Split, WithinTwoWindows
<1>6. CASE L > 0 /\ b = L
  BY <1>0, <1>1, <1>3, <1>6 DEF Split, WithinTwoWindows
<1>7. CASE 0 < b /\ b < L
  <2>1. b \in 1..L /\ L \in 1..L /\ b <= recent[b].max /\ L - b <= recent[L].max
    BY <1>0, <1>1, <1>3, <1>7 DEF Split
  <2>2. L <= 2 * recent[b].max \/ L <= 2 * recent[L].max
    BY <1>3, <2>1
  <2> QED
    BY <1>0, <1>3, <2>1, <2>2 DEF WithinTwoWindows
<1> QED
  BY <1>0, <1>3, <1>4, <1>5, <1>6, <1>7

\* A tick forgets a prefix of the history, the events with one tick left.
LEMMA LapseIsSuffix ==
    ASSUME NEW recent, NEW n \in Nat, History(recent, n)
    PROVE  \E g \in 0..Len(recent) :
              /\ \A i \in 1..g : recent[i].left = 1
              /\ \A i \in g + 1..Len(recent) : recent[i].left > 1
              /\ Lapse(recent) = [i \in 1..Len(recent) - g |->
                                     [left |-> recent[i + g].left - 1, max |-> recent[i + g].max]]
<1> DEFINE L == Len(recent)
           S == {0} \cup {i \in DOMAIN recent : recent[i].left = 1}
           D == {L - i : i \in S}
           g == Max(S)
<1>1. L \in Nat /\ DOMAIN recent = 1..L /\ \A i \in 1..L : recent[i].left \in 1..n
  BY HistoryFacts
<1>2. S \subseteq 0..L /\ 0 \in S
  BY <1>1
<1>3. \E x \in S : \A y \in S : x >= y
  <2>1. D \subseteq Nat /\ D # {}
    BY <1>1, <1>2
  <2>2. PICK d \in D : \A e \in D : d <= e
    BY <2>1, LeastExists
  <2>3. PICK x \in S : d = L - x
    OBVIOUS
  <2>4. ASSUME NEW y \in S PROVE x >= y
    <3>1. d <= L - y /\ x \in 0..L /\ y \in 0..L
      BY <1>2, <2>2
    <3> QED
      BY <1>1, <2>3, <3>1
  <2> QED
    BY <2>4
<1>4. g \in S /\ \A y \in S : g >= y
  <2> HIDE DEF S
  <2> QED
    BY <1>3 DEF Max
<1>5. g \in 0..L
  BY <1>2, <1>4
<1>6. Lapse(recent) = [i \in 1..L - g |-> [left |-> recent[i + g].left - 1, max |-> recent[i + g].max]]
  BY DEF Lapse
<1> HIDE DEF g
<1>7. ASSUME NEW i \in 1..g PROVE recent[i].left = 1
  <2>1. g \in 1..L /\ i \in 1..L /\ recent[g].left = 1
    BY <1>1, <1>4, <1>5
  <2>2. recent[i].left <= recent[g].left /\ recent[i].left \in 1..n
    BY <1>1, <2>1 DEF History
  <2> QED
    BY <2>1, <2>2
<1>8. ASSUME NEW i \in g + 1..L PROVE recent[i].left > 1
  <2>1. i \in 1..L /\ ~(g >= i)
    BY <1>1, <1>5
  <2>2. i \notin S
    BY <1>4, <2>1
  <2>3. recent[i].left # 1 /\ recent[i].left \in 1..n
    BY <1>1, <2>1, <2>2
  <2> QED
    BY <2>3
<1> QED
  BY <1>5, <1>6, <1>7, <1>8

\* A tick of the limiter and of its history together.
LEMMA WindowedTick ==
    ASSUME NEW recent, NEW n \in Nat, NEW w \in Nat, NEW count \in Nat, NEW v \in Nat, NEW c \in Nat,
           Windowed(recent, n, w, count),
           w > 0 => v = w - 1, w = 0 => v = 0, v > 0 => c = count
    PROVE  Windowed(Lapse(recent), n, v, c)
<1>0. PICK L \in Nat : L = Len(recent)
  BY HistoryFacts DEF Windowed
<1>1. PICK g \in 0..L :
         /\ \A i \in 1..g : recent[i].left = 1
         /\ \A i \in g + 1..L : recent[i].left > 1
         /\ Lapse(recent) = [i \in 1..L - g |-> [left |-> recent[i + g].left - 1, max |-> recent[i + g].max]]
  BY <1>0, LapseIsSuffix DEF Windowed
<1>2. PICK b \in 0..L : Split(recent, w, count, b)
  BY <1>0 DEF Windowed
<1>3. /\ L \in Nat /\ DOMAIN recent = 1..L
      /\ \A i \in 1..L : recent[i].left \in 1..n /\ recent[i].max \in Nat \ {0}
      /\ \A i, j \in 1..L : i <= j => recent[i].left <= recent[j].left
      /\ \A i \in 1..L : recent[i].left <= (n - 1) + w /\ recent[i].left \in Nat
  BY <1>0, HistoryFacts DEF Windowed, History
<1> DEFINE r == Lapse(recent)
<1>a. PICK M \in Nat : M = L - g
  OBVIOUS
<1>b. PICK d \in Nat : (b > g => d = b - g) /\ (b <= g => d = 0)
  <2>1. b \in Nat /\ g \in Nat
    OBVIOUS
  <2>2. CASE b > g
    <3>1. b - g \in Nat
      BY <2>1, <2>2
    <3> QED
      BY <2>1, <2>2, <3>1
  <2>3. CASE b <= g
    <3>1. 0 \in Nat
      OBVIOUS
    <3> QED
      BY <2>1, <2>3, <3>1
  <2> QED
    BY <2>1, <2>2, <2>3
<1>4. M \in Nat /\ r = [i \in 1..M |-> [left |-> recent[i + g].left - 1, max |-> recent[i + g].max]]
  BY <1>a, <1>1, <1>3
<1> HIDE DEF r
<1>5. ASSUME NEW i \in 1..M
      PROVE  /\ i + g \in 1..L /\ i + g \in g + 1..L
             /\ r[i].left = recent[i + g].left - 1 /\ r[i].max = recent[i + g].max
             /\ r[i] \in [left : 1..n, max : Nat \ {0}]
  <2>1. i + g \in 1..L /\ i + g \in g + 1..L
    BY <1>a
  <2>2. recent[i + g].left - 1 \in 1..n /\ recent[i + g].max \in Nat \ {0}
    <3>1. recent[i + g].left > 1 /\ recent[i + g].left \in 1..n /\ recent[i + g].max \in Nat \ {0}
      BY <1>1, <1>3, <2>1
    <3> QED
      BY <3>1
  <2>3. r[i] = [left |-> recent[i + g].left - 1, max |-> recent[i + g].max]
    BY <1>4
  <2>4. PICK x, y : x = recent[i + g].left - 1 /\ y = recent[i + g].max
    OBVIOUS
  <2>5. r[i] = [left |-> x, max |-> y] /\ x \in 1..n /\ y \in Nat \ {0}
    BY <2>2, <2>3, <2>4
  <2> QED
    BY <2>1, <2>4, <2>5
<1>6. r \in Seq([left : 1..n, max : Nat \ {0}]) /\ Len(r) = M
  <2> DEFINE Entry == [left : 1..n, max : Nat \ {0}]
  <2>1. DOMAIN r = 1..M /\ r = [i \in 1..M |-> r[i]] /\ \A i \in 1..M : r[i] \in Entry
    BY <1>4, <1>5
  <2> HIDE DEF Entry
  <2>2. r \in Seq(Entry)
    <3>1. M \in Nat
      OBVIOUS
    <3> QED
      BY <2>1, <3>1
  <2>3. Len(r) = M
    BY <1>4, <2>1, <2>2
  <2> QED
    BY <2>2, <2>3 DEF Entry
<1>7. ASSUME NEW i \in 1..M, NEW j \in 1..M, i <= j PROVE r[i].left <= r[j].left
  <2>1. i + g \in 1..L /\ j + g \in 1..L /\ i + g <= j + g
    BY <1>5, <1>7
  <2>2. /\ recent[i + g].left <= recent[j + g].left
        /\ recent[i + g].left \in Nat /\ recent[j + g].left \in Nat
    BY <1>0, <1>a, <1>b, <1>3, <2>1
  <2>3. r[i].left = recent[i + g].left - 1 /\ r[j].left = recent[j + g].left - 1
    BY <1>5
  <2> QED
    BY <2>2, <2>3
<1>8. History(r, n)
  BY <1>6, <1>7 DEF History
<1>9. ASSUME NEW i \in 1..M PROVE r[i].left <= (n - 1) + v
  <2>1. recent[i + g].left <= (n - 1) + w /\ recent[i + g].left \in Nat /\ recent[i + g].left <= n
    BY <1>0, <1>a, <1>b, <1>3, <1>5
  <2>2. r[i].left = recent[i + g].left - 1
    BY <1>5
  <2> QED
    BY <2>1, <2>2
<1>10. d \in 0..M
  BY <1>0, <1>a, <1>b, <1>3
<1>11. w = 0 => b = 0
  <2>1. ASSUME w = 0, b # 0 PROVE FALSE
    <3>1. 1 \in 1..b /\ 1 \in 1..L
      BY <1>0, <1>a, <1>b, <1>3, <2>1
    <3>2. recent[1].left < 0 /\ recent[1].left \in 1..n
      BY <1>0, <1>a, <1>b, <1>2, <1>3, <2>1, <3>1 DEF Split
    <3> QED
      BY <3>2
  <2> QED
    BY <2>1
<1>12. Split(r, v, c, d)
  <2>1. ASSUME NEW i \in 1..d PROVE r[i].left < v
    <3>1. i \in 1..M /\ i + g \in 1..b /\ b > 0
      BY <1>0, <1>a, <1>b, <1>3, <1>10
    <3>2. recent[i + g].left < w /\ recent[i + g].left \in Nat
      BY <1>0, <1>a, <1>b, <1>2, <1>3, <1>5, <3>1 DEF Split
    <3>3. r[i].left = recent[i + g].left - 1
      BY <1>5, <3>1
    <3> QED
      BY <3>2, <3>3
  <2>2. ASSUME NEW i \in d + 1..M PROVE r[i].left >= v
    <3>1. i \in 1..M /\ i + g \in b + 1..L
      BY <1>0, <1>a, <1>b, <1>3, <1>10
    <3>2. recent[i + g].left >= w /\ recent[i + g].left \in 1..n
      BY <1>0, <1>a, <1>b, <1>2, <1>3, <1>5, <3>1 DEF Split
    <3> QED
      BY <1>5, <3>1, <3>2
  <2>3. v > 0 => M - d <= c
    <3>1. v > 0 => w > 0 /\ L - b <= count /\ c = count
      BY <1>0, <1>2 DEF Split
    <3>2. M - d <= L - b
      <4>1. CASE b > g
        <5>1. d = b - g
          BY <1>b, <4>1
        <5> QED
          BY <1>a, <5>1
      <4>2. CASE ~(b > g)
        <5>1. d = 0
          BY <1>b, <4>2
        <5> QED
          BY <1>a, <4>2, <5>1
      <4> QED
        BY <4>1, <4>2
    <3>3. M - d \in Int /\ L - b \in Int
      OBVIOUS
    <3> QED
      BY <3>1, <3>2, <3>3
  <2>4. d > 0 => d <= r[d].max
    <3>1. CASE b > g
      <4>1. d = b - g /\ b \in 1..L
        BY <1>b, <3>1
      <4>2. d \in 1..M /\ d + g = b
        BY <1>a, <3>1, <4>1
      <4>3. b <= recent[b].max
        BY <1>2, <4>1 DEF Split
      <4>4. r[d].max = recent[b].max /\ recent[b].max \in Nat
        BY <1>3, <1>5, <4>1, <4>2
      <4> QED
        BY <4>1, <4>3, <4>4
    <3> QED
      BY <1>b, <3>1
  <2>5. d < M => M - d <= r[M].max
    <3>1. ASSUME d < M PROVE M - d <= r[M].max
      <4>1. M \in 1..M /\ M + g = L /\ b < L /\ L \in 1..L
        <5>1. b < L
          <6>1. CASE b > g
            <7>1. d = b - g
              BY <1>b, <6>1
            <7> QED
              BY <1>a, <3>1, <7>1
          <6>2. CASE ~(b > g)
            <7>1. d = 0
              BY <1>b, <6>2
            <7> QED
              BY <1>a, <3>1, <6>2, <7>1
          <6> QED
            BY <6>1, <6>2
        <5>2. M > 0
          BY <3>1
        <5> QED
          BY <1>a, <5>1, <5>2
      <4>2. L - b <= recent[L].max /\ r[M].max = recent[L].max /\ recent[L].max \in Nat
        BY <1>0, <1>a, <1>b, <1>2, <1>3, <1>5, <4>1 DEF Split
      <4>3. M - d <= L - b
        <5>1. CASE b > g
          <6>1. d = b - g
            BY <1>b, <5>1
          <6> QED
            BY <1>a, <6>1
        <5>2. CASE ~(b > g)
          <6>1. d = 0
            BY <1>b, <5>2
          <6> QED
            BY <1>a, <5>2, <6>1
        <5> QED
          BY <5>1, <5>2
      <4> QED
        BY <4>2, <4>3
    <3> QED
      BY <3>1
  <2> QED
    BY <1>6, <2>1, <2>2, <2>3, <2>4, <2>5 DEF Split
<1> QED
  BY <1>6, <1>8, <1>9, <1>10, <1>12 DEF Windowed, r

\* A window opens: what passed before is behind the split.
LEMMA WindowedOpen ==
    ASSUME NEW recent, NEW n \in Nat \ {0}, NEW count \in Nat, Windowed(recent, n, 0, count)
    PROVE  Windowed(recent, n, n, 0)
<1> DEFINE L == Len(recent)
<1>1. PICK b \in 0..L : Split(recent, 0, count, b)
  BY DEF Windowed
<1>2. /\ L \in Nat /\ \A i \in 1..L : recent[i].left \in 1..n /\ recent[i].max \in Nat \ {0}
      /\ \A i \in 1..L : recent[i].left <= (n - 1) + 0
  BY HistoryFacts DEF Windowed
<1>3. b = 0
  <2>1. ASSUME b # 0 PROVE FALSE
    <3>1. 1 \in 1..b /\ 1 \in 1..L
      BY <1>2, <2>1
    <3>2. recent[1].left < 0 /\ recent[1].left \in 1..n
      BY <1>1, <1>2, <3>1 DEF Split
    <3> QED
      BY <3>2
  <2> QED
    BY <2>1
<1>4. \A i \in 1..L : recent[i].left < n /\ recent[i].left <= (n - 1) + n
  BY <1>2
<1>5. L > 0 => L <= recent[L].max
  BY <1>1, <1>2, <1>3 DEF Split
<1>6. Split(recent, n, 0, L)
  BY <1>2, <1>4, <1>5 DEF Split
<1> QED
  BY <1>2, <1>4, <1>6 DEF Windowed

\* The limiter counts an event that is not sent after all.
LEMMA WindowedCount ==
    ASSUME NEW recent, NEW n \in Nat, NEW w \in Nat, NEW count \in Nat, Windowed(recent, n, w, count)
    PROVE  Windowed(recent, n, w, count + 1)
<1>1. PICK b \in 0..Len(recent) : Split(recent, w, count, b)
  BY DEF Windowed
<1>2. Len(recent) \in Nat
  BY DEF Windowed, History
<1>3. Split(recent, w, count + 1, b)
  BY <1>1, <1>2 DEF Split
<1> QED
  BY <1>3 DEF Windowed

\* The limiter counts an event and lets it pass.
LEMMA WindowedPass ==
    ASSUME NEW recent, NEW n \in Nat \ {0}, NEW w \in 1..n, NEW count \in Nat, NEW limit \in Nat,
           Windowed(recent, n, w, count), count < limit
    PROVE  Windowed(Passed(recent, n, limit), n, w, count + 1)
<1>0. PICK L \in Nat : L = Len(recent)
  BY HistoryFacts DEF Windowed
<1> DEFINE e == [left |-> n, max |-> limit]
           r == Passed(recent, n, limit)
<1>1. PICK b \in 0..L : Split(recent, w, count, b)
  BY <1>0 DEF Windowed
<1>2. /\ recent \in Seq([left : 1..n, max : Nat \ {0}])
      /\ L \in Nat /\ \A i \in 1..L : recent[i].left \in 1..n /\ recent[i].max \in Nat \ {0}
      /\ \A i, j \in 1..L : i <= j => recent[i].left <= recent[j].left
      /\ \A i \in 1..L : recent[i].left <= (n - 1) + w /\ recent[i].left \in Nat
  BY <1>0, HistoryFacts DEF Windowed, History
<1>3. e \in [left : 1..n, max : Nat \ {0}] /\ e.left = n /\ e.max = limit
  OBVIOUS
<1> HIDE DEF e
<1>4. r = Append(recent, e)
  BY DEF Passed, e
<1>5. /\ r \in Seq([left : 1..n, max : Nat \ {0}]) /\ Len(r) = L + 1 /\ r[L + 1] = e
      /\ \A i \in 1..L : r[i] = recent[i]
  BY <1>0, <1>2, <1>3, <1>4
<1> HIDE DEF r
<1>6. ASSUME NEW i \in 1..L + 1, NEW j \in 1..L + 1, i <= j PROVE r[i].left <= r[j].left
  <2>1. CASE j = L + 1
    <3>1. r[i].left <= n
      <4>1. CASE i = L + 1
        BY <1>3, <1>5, <4>1
      <4>2. CASE i # L + 1
        <5>1. L + 1 \in Nat /\ i <= L
          BY <4>2
        <5>2. i \in 1..L
          BY <5>1
        <5>3. r[i] = recent[i] /\ recent[i].left \in 1..n
          BY <1>2, <1>5, <5>2
        <5> QED
          BY <5>3
      <4> QED
        BY <4>1, <4>2
    <3> QED
      BY <1>3, <1>5, <2>1, <3>1
  <2>2. CASE j # L + 1
    <3>1. L \in Nat /\ i <= L /\ j <= L
      <4>1. L \in Nat
        BY <1>0, <1>2
      <4> QED
        BY <1>6, <2>2, <4>1
    <3>2. i \in 1..L /\ j \in 1..L
      BY <3>1
    <3> QED
      BY <1>0, <1>2, <1>5, <1>6, <3>2
  <2> QED
    BY <2>1, <2>2
<1>7. ASSUME NEW i \in 1..L + 1 PROVE r[i].left <= (n - 1) + w
  <2>1. CASE i = L + 1
    BY <1>3, <1>5, <2>1
  <2>2. CASE i # L + 1
    <3>1. i \in 1..L
      BY <2>2
    <3> QED
      BY <1>0, <1>2, <1>5, <3>1
  <2> QED
    BY <2>1, <2>2
<1>8. Split(r, w, count + 1, b)
  <2>1. ASSUME NEW i \in 1..b PROVE r[i].left < w
    <3>1. i \in 1..L
      OBVIOUS
    <3> QED
      BY <1>0, <1>1, <1>5, <3>1 DEF Split
  <2>2. ASSUME NEW i \in b + 1..L + 1 PROVE r[i].left >= w
    <3>1. CASE i = L + 1
      BY <1>3, <1>5, <3>1
    <3>2. CASE i # L + 1
      <4>1. i \in b + 1..L /\ i \in 1..L
        BY <3>2
      <4> QED
        BY <1>0, <1>1, <1>2, <1>5, <4>1 DEF Split
    <3> QED
      BY <3>1, <3>2
  <2>3. L - b <= count
    BY <1>0, <1>1 DEF Split
  <2>4. (L + 1) - b <= count + 1 /\ (L + 1) - b <= r[L + 1].max
    BY <1>0, <1>2, <1>3, <1>5, <2>3
  <2>5. b > 0 => b <= r[b].max
    <3>1. b > 0 => b \in 1..L
      BY <1>0, <1>2
    <3> QED
      BY <1>0, <1>1, <1>5, <3>1 DEF Split
  <2> QED
    BY <1>5, <2>1, <2>2, <2>4, <2>5 DEF Split
<1>9. b \in 0..L + 1
  BY <1>0, <1>2
<1> QED
  BY <1>5, <1>6, <1>7, <1>8, <1>9 DEF Windowed, History, r

LEMMA WindowedEmpty ==
    ASSUME NEW n \in Nat, NEW count \in Nat
    PROVE  Windowed(<<>>, n, 0, count)
<1>1. <<>> \in Seq([left : 1..n, max : Nat \ {0}]) /\ Len(<<>>) = 0
  OBVIOUS
<1>2. Split(<<>>, 0, count, 0)
  BY <1>1 DEF Split
<1> QED
  BY <1>1, <1>2 DEF Windowed, History

\* The last count events of the history are as recent as a bucket with left ticks to go.
Backed(recent, count, left) ==
    /\ count <= Len(recent)
    /\ count > 0 => recent[(Len(recent) - count) + 1].left >= left

LEMMA PassedFacts ==
    ASSUME NEW recent, NEW n \in Nat \ {0}, NEW limit \in Nat \ {0}, History(recent, n)
    PROVE  /\ Len(Passed(recent, n, limit)) = Len(recent) + 1
           /\ Passed(recent, n, limit)[Len(recent) + 1].left = n
           /\ \A i \in 1..Len(recent) : Passed(recent, n, limit)[i] = recent[i]
<1> DEFINE e == [left |-> n, max |-> limit]
           Entry == [left : 1..n, max : Nat \ {0}]
<1>1. recent \in Seq(Entry) /\ e \in Entry
  BY DEF History
<1>2. Passed(recent, n, limit) = Append(recent, e) /\ e.left = n
  BY DEF Passed
<1> HIDE DEF e, Entry
<1> QED
  BY <1>1, <1>2

\* A bucket that counts the event, and one that does not, stay backed.
LEMMA BackedPass ==
    ASSUME NEW recent, NEW n \in Nat \ {0}, NEW limit \in Nat \ {0}, History(recent, n),
           NEW count \in Nat, NEW left \in 1..n, Backed(recent, count, left),
           NEW c \in {count, count + 1}
    PROVE  Backed(Passed(recent, n, limit), c, left)
<1>1. PICK L \in Nat : L = Len(recent)
  BY HistoryFacts
<1>2. PICK r : r = Passed(recent, n, limit)
  OBVIOUS
<1>3. Len(r) = L + 1 /\ r[L + 1].left = n /\ \A i \in 1..L : r[i] = recent[i]
  BY <1>1, <1>2, PassedFacts
<1>4. count <= L /\ (count > 0 => recent[(L - count) + 1].left >= left)
  BY <1>1 DEF Backed
<1>5. ASSUME NEW i \in 1..L + 1, i >= (L - count) + 1 PROVE r[i].left >= left
  <2>1. CASE i = L + 1
    BY <1>3, <2>1
  <2>2. CASE i # L + 1
    <3>1. i \in 1..L /\ count > 0 /\ (L - count) + 1 \in 1..L
      BY <1>4, <1>5, <2>2
    <3>2. recent[(L - count) + 1].left <= recent[i].left /\ recent[i].left \in Nat /\ recent[(L - count) + 1].left \in Nat
      BY <1>1, <1>5, <3>1, HistoryFacts
    <3> QED
      BY <1>3, <1>4, <3>1, <3>2
  <2> QED
    BY <2>1, <2>2
<1>6. c <= L + 1 /\ (c > 0 => ((L + 1) - c) + 1 \in 1..L + 1 /\ ((L + 1) - c) + 1 >= (L - count) + 1)
  BY <1>4
<1>7. Backed(r, c, left)
  BY <1>3, <1>5, <1>6 DEF Backed
<1> QED
  BY <1>2, <1>7

LEMMA BackedTick ==
    ASSUME NEW recent, NEW n \in Nat, History(recent, n),
           NEW count \in Nat, NEW left \in Nat, left > 1, Backed(recent, count, left)
    PROVE  Backed(Lapse(recent), count, left - 1)
<1>1. PICK L \in Nat : L = Len(recent)
  BY HistoryFacts
<1>2. PICK g \in 0..L :
         /\ \A i \in 1..g : recent[i].left = 1
         /\ Lapse(recent) = [i \in 1..L - g |-> [left |-> recent[i + g].left - 1, max |-> recent[i + g].max]]
  BY <1>1, LapseIsSuffix
<1>3. PICK M \in Nat : M = L - g
  OBVIOUS
<1>4. PICK r : r = Lapse(recent)
  OBVIOUS
<1>5. r = [i \in 1..M |-> [left |-> recent[i + g].left - 1, max |-> recent[i + g].max]]
  BY <1>2, <1>3, <1>4
<1>6. Len(r) = M
  <2>1. DOMAIN r = 1..M
    BY <1>5
  <2>2. r \in Seq({r[i] : i \in 1..M})
    <3>1. r = [i \in 1..M |-> r[i]]
      BY <1>5
    <3>2. ASSUME NEW S, \A i \in 1..M : r[i] \in S PROVE r \in Seq(S)
      BY <3>1, <3>2
    <3> QED
      BY <3>2
  <2> QED
    BY <2>1, <2>2
<1>7. count <= L /\ (count > 0 => recent[(L - count) + 1].left >= left)
  BY <1>1 DEF Backed
<1>8. CASE count = 0
  BY <1>4, <1>6, <1>8 DEF Backed
<1>9. CASE count > 0
  <2>1. PICK k \in 1..L : k = (L - count) + 1
    BY <1>7, <1>9
  <2>2. recent[k].left >= left /\ recent[k].left \in Nat
    BY <1>1, <1>7, <1>9, <2>1, HistoryFacts
  <2>3. k \notin 1..g
    BY <1>2, <2>2
  <2>4. k > g /\ k - g \in 1..M /\ k - g = (M - count) + 1 /\ count <= M
    BY <1>3, <1>7, <2>1, <2>3
  <2>5. r[k - g].left = recent[k].left - 1
    <3>1. (k - g) + g = k
      BY <2>4
    <3> QED
      BY <1>5, <2>4, <3>1
  <2>6. r[k - g].left >= left - 1
    BY <2>2, <2>5
  <2>7. Backed(r, count, left - 1)
    BY <1>6, <2>4, <2>6 DEF Backed
  <2> QED
    BY <1>4, <2>7
<1> QED
  BY <1>4, <1>8, <1>9
-----------------------------------------------------------------------------
(* The limits.                                                             *)

\* The send limiter and the history of sends.
SendInv ==
    /\ sendRate \in [count : Nat, left : 0..SendWindow]
    /\ Windowed(recentSends, SendWindow, sendRate.left, sendRate.count)

\* The agent's event limiter and the history of accepted events: the bucket of all sources
\* counts like a window, and no bucket counts more than was accepted.
GlobalLeft(buckets) == IF "global" \in DOMAIN buckets THEN buckets["global"].left ELSE 0
GlobalCount(buckets) == IF "global" \in DOMAIN buckets THEN buckets["global"].count ELSE 0

Buckets(buckets, n) ==
    \A k \in DOMAIN buckets : buckets[k] \in [count : Nat, left : 1..n]

EventInv ==
    /\ Buckets(eventBuckets, Window + 1)
    /\ Windowed(recentEvents, Window + 1, GlobalLeft(eventBuckets), GlobalCount(eventBuckets))
    /\ \A k \in DOMAIN eventBuckets :
          Backed(recentEvents, eventBuckets[k].count, eventBuckets[k].left)

\* Under a limit every request to the model is counted.
CompletionInv ==
    /\ llmCalls \in Nat /\ completions \in Nat
    /\ deployment.limit > 0 => completions <= llmCalls /\ llmCalls <= deployment.limit

\* The composition reaches the limiters only through these operations.
LimiterNext ==
    /\ \/ UNCHANGED <<sendRate, recentSends>>
       \/ \E e \in Executors : ExecuteSend(e)
       \/ GateTick
       \/ sendRate' = [count |-> 0, left |-> 0] /\ recentSends' = <<>>
    /\ \/ UNCHANGED <<eventBuckets, recentEvents>>
       \/ \E d \in DOMAIN request : EventOverLimit(d) \/ EventAccepted(d)
       \/ IngressTick
       \/ eventBuckets' = <<>> /\ recentEvents' = <<>>
    /\ deployment' = deployment
    /\ \/ UNCHANGED <<llmCalls, completions>>
       \/ Complete
       \/ llmCalls' = 0 /\ completions' = 0

LEMMA NextIsLimiterNext == [Next]_vars => LimiterNext
<1> SUFFICES ASSUME [Next]_vars PROVE LimiterNext
  OBVIOUS
<1> USE DEF LimiterNext
<1>1. CASE MessageSent
  BY <1>1 DEF MessageSent, gateVars, ingressVars, turnVars
<1>2. CASE SyncSteps
  BY <1>2 DEF SyncSteps, HandleMessage, CheckSender, MatchMessage, syncSame, gateVars, ingressVars, turnVars
<1>3. ASSUME NEW d \in Deliveries, EventArrives(d) \/ WebhookArrives(d) PROVE LimiterNext
  <2>1. UNCHANGED <<sendRate, recentSends, deployment, llmCalls, completions>>
    BY <1>3 DEF EventArrives, WebhookArrives, otherThanIngress, gateVars
  <2>2. CASE EventReads(d, config) \/ EventRefused(d) \/ handleWebhook(d) \/ ForwardFails(d)
    BY <2>1, <2>2 DEF EventReads, EventRefused, handleWebhook, ForwardFails
  <2> QED
    BY <1>3, <2>1, <2>2 DEF EventArrives, WebhookArrives
<1>4. ASSUME NEW t \in Under, TurnSteps(t) PROVE LimiterNext
  <2>1. UNCHANGED <<eventBuckets, recentEvents, deployment>>
    BY <1>4 DEF TurnSteps, RunEventTurn, BeginTurn, CallLLM, ModelAnswers, NextToolCall, ToolReturns,
                WorkflowStep, EndTurn, turnSame, ingressVars
  <2>2. UNCHANGED <<sendRate, recentSends>>
    BY <1>4 DEF TurnSteps, RunEventTurn, BeginTurn, CallLLM, ModelAnswers, NextToolCall, ToolReturns,
                WorkflowStep, EndTurn, gateVars
  <2>3. UNCHANGED <<llmCalls, completions>> \/ Complete
    BY <1>4 DEF TurnSteps, RunEventTurn, BeginTurn, CallLLM, ModelAnswers, NextToolCall, ToolReturns,
                WorkflowStep, EndTurn, Summarize
  <2> QED
    BY <2>1, <2>2, <2>3
<1>5. ASSUME NEW e \in Executors, GateSteps(e) \/ Abort(e) \/ OperatorDecides(e) PROVE LimiterNext
  <2>1. UNCHANGED <<eventBuckets, recentEvents, deployment, llmCalls, completions>>
    BY <1>5 DEF GateSteps, Abort, OperatorDecides, controlSame, ingressVars, turnVars
  <2>2. UNCHANGED <<sendRate, recentSends>> \/ ExecuteSend(e)
    BY <1>5 DEF GateSteps, Abort, OperatorDecides, DispatchSteps, EvaluatePolicy, RequestApproval,
                AwaitDecision, PollApproval, ApprovalTimeout, ExecuteMCP, WaitAborted, RecordDecision
  <2> QED
    BY <2>1, <2>2
<1>6. ASSUME NEW c \in Calls, ControlSteps(c) PROVE LimiterNext
  BY <1>6 DEF ControlSteps, HandleToolCall, AnswerToolCall, HandleRestart, controlSame, gateVars, ingressVars, turnVars
<1>7. CASE RurikoStores
  BY <1>7 DEF RurikoStores, StoreVersion, gateVars, turnVars
<1>8. CASE ConfigPushed
  BY <1>8 DEF ConfigPushed, controlSame, ingressVars, turnVars
<1>9. CASE Tick
  BY <1>9 DEF Tick, turnVars
<1>10. CASE Crash \/ StopEnds \/ ExitAtLimit
  BY <1>10 DEF Crash, StopEnds, ExitAtLimit, ProcessRestarts, IngressRestarts
<1>11. CASE UNCHANGED vars
  BY <1>11 DEF vars, gateVars, ingressVars, turnVars
<1> QED
  BY <1>1, <1>2, <1>3, <1>4, <1>5, <1>6, <1>7, <1>8, <1>9, <1>10, <1>11 DEF Next

LEMMA SendStep ==
    ASSUME SendInv, ConfigInv, NEW e \in Executors, ExecuteSend(e)
    PROVE  SendInv'
<1> DEFINE max == config.perMinute
           a == allow(max)
<1>1. max \in Nat /\ SendWindow \in Nat \ {0}
  BY TurnsAssumption, GateAssumption DEF ConfigInv
<1>2. sendRate.count \in Nat /\ sendRate.left \in 0..SendWindow
  BY DEF SendInv
<1>3. CASE UNCHANGED <<sendRate, recentSends>>
  BY <1>3 DEF SendInv
<1>4. CASE max > 0 /\ sendRate' = a.rate
  <2>1. PICK r \in [count : Nat, left : 1..SendWindow] :
           /\ Windowed(recentSends, SendWindow, r.left, r.count)
           /\ r = IF sendRate.left = 0 THEN [count |-> 0, left |-> SendWindow] ELSE sendRate
    <3>1. CASE sendRate.left = 0
      <4>1. Windowed(recentSends, SendWindow, SendWindow, 0)
        BY <1>1, <1>2, <3>1, WindowedOpen DEF SendInv
      <4>2. [count |-> 0, left |-> SendWindow] \in [count : Nat, left : 1..SendWindow]
        BY <1>1
      <4> QED
        BY <3>1, <4>1, <4>2
    <3>2. CASE sendRate.left # 0
      <4>1. sendRate \in [count : Nat, left : 1..SendWindow]
        BY <1>1, <1>2, <3>2 DEF SendInv
      <4> QED
        BY <3>2, <4>1 DEF SendInv
    <3> QED
      BY <3>1, <3>2
  <2>2. r.count \in Nat /\ r.left \in 1..SendWindow /\ r.left \in Nat
    BY <1>1, <2>1
  <2>3. /\ a.ok <=> r.count < max
        /\ a.rate = IF r.count < max THEN [r EXCEPT !.count = r.count + 1] ELSE r
    <3>1. a = [ok |-> max = 0 \/ r.count < max,
               rate |-> IF max = 0 THEN sendRate
                        ELSE IF r.count < max THEN [r EXCEPT !.count = r.count + 1] ELSE r]
      BY <2>1, Zenon DEF allow
    <3>2. max # 0
      BY <1>1, <1>4
    <3> HIDE DEF a
    <3>3. a.ok <=> r.count < max
      BY <3>1, <3>2, Zenon
    <3>4. a.rate = IF r.count < max THEN [r EXCEPT !.count = r.count + 1] ELSE r
      BY <3>1, <3>2
    <3> QED
      BY <3>3, <3>4
  <2>4. PICK s : s = [r EXCEPT !.count = r.count + 1]
    OBVIOUS
  <2>5. s \in [count : Nat, left : 1..SendWindow] /\ s.left = r.left /\ s.count = r.count + 1
    BY <2>1, <2>2, <2>4
  <2>6. CASE ~a.ok /\ UNCHANGED recentSends
    <3>1. sendRate' = r
      BY <1>4, <2>3, <2>6
    <3>2. r \in [count : Nat, left : 0..SendWindow]
      BY <1>1, <2>1
    <3> QED
      BY <2>1, <2>6, <3>1, <3>2 DEF SendInv
  <2>7. CASE a.ok /\ UNCHANGED recentSends
    <3>1. sendRate' = s
      BY <1>4, <2>3, <2>4, <2>7
    <3>2. Windowed(recentSends, SendWindow, r.left, r.count + 1)
      BY <1>1, <2>1, <2>2, WindowedCount
    <3>3. s \in [count : Nat, left : 0..SendWindow]
      BY <1>1, <2>5
    <3> QED
      BY <2>5, <2>7, <3>1, <3>2, <3>3 DEF SendInv
  <2>8. CASE a.ok /\ recentSends' = Passed(recentSends, SendWindow, max)
    <3>1. sendRate' = s
      BY <1>4, <2>3, <2>4, <2>8
    <3>2. Windowed(recentSends', SendWindow, r.left, r.count + 1)
      BY <1>1, <2>1, <2>2, <2>3, <2>8, WindowedPass
    <3>3. s \in [count : Nat, left : 0..SendWindow]
      BY <1>1, <2>5
    <3> QED
      BY <2>5, <3>1, <3>2, <3>3 DEF SendInv
  <2> QED
    BY <1>4, <2>6, <2>7, <2>8 DEF ExecuteSend
<1>5. CASE max = 0 /\ sendRate' = a.rate
  <2>1. sendRate' = sendRate
    BY <1>5 DEF allow
  <2>2. UNCHANGED recentSends
    BY <1>5 DEF ExecuteSend
  <2> QED
    BY <1>3, <2>1, <2>2
<1>6. max = 0 \/ max > 0
  BY <1>1
<1> QED
  BY <1>3, <1>4, <1>5, <1>6 DEF ExecuteSend

LEMMA StepSendInv == SendInv /\ ConfigInv /\ [Next]_vars => SendInv'
<1> SUFFICES ASSUME SendInv, ConfigInv, LimiterNext PROVE SendInv'
  BY NextIsLimiterNext
<1>0. SendWindow \in Nat \ {0}
  BY GateAssumption
<1>1. CASE UNCHANGED <<sendRate, recentSends>>
  BY <1>1 DEF SendInv
<1>2. ASSUME NEW e \in Executors, ExecuteSend(e) PROVE SendInv'
  BY <1>2, SendStep
<1>3. CASE GateTick
  <2>1. sendRate.count \in Nat /\ sendRate.left \in 0..SendWindow
    BY DEF SendInv
  <2>2. PICK v \in 0..SendWindow : (sendRate.left > 0 => v = sendRate.left - 1) /\ (sendRate.left = 0 => v = 0) /\ v = Less(sendRate.left)
    <3>1. CASE sendRate.left = 0
      <4>1. Less(sendRate.left) = 0 /\ 0 \in 0..SendWindow
        BY <1>0, <3>1 DEF Less
      <4> QED
        BY <3>1, <4>1
    <3>2. CASE sendRate.left # 0
      <4>1. Less(sendRate.left) = sendRate.left - 1 /\ sendRate.left - 1 \in 0..SendWindow
        BY <1>0, <2>1, <3>2 DEF Less
      <4> QED
        BY <3>2, <4>1
    <3> QED
      BY <3>1, <3>2
  <2>3. sendRate' = [sendRate EXCEPT !.left = v]
    BY <1>3, <2>2 DEF GateTick
  <2>4. sendRate' \in [count : Nat, left : 0..SendWindow] /\ sendRate'.left = v /\ sendRate'.count = sendRate.count
    BY <2>2, <2>3 DEF SendInv
  <2>5. Windowed(Lapse(recentSends), SendWindow, v, sendRate.count)
    BY <1>0, <2>1, <2>2, WindowedTick DEF SendInv
  <2>6. recentSends' = Lapse(recentSends)
    BY <1>3 DEF GateTick
  <2> QED
    BY <2>4, <2>5, <2>6 DEF SendInv
<1>4. CASE sendRate' = [count |-> 0, left |-> 0] /\ recentSends' = <<>>
  <2>1. [count |-> 0, left |-> 0] \in [count : Nat, left : 0..SendWindow]
    BY <1>0
  <2>2. Windowed(<<>>, SendWindow, 0, 0)
    BY <1>0, WindowedEmpty
  <2> QED
    BY <1>4, <2>1, <2>2 DEF SendInv
<1> QED
  BY <1>1, <1>2, <1>3, <1>4 DEF LimiterNext

LEMMA StepCompletionInv == CompletionInv /\ ConfigInv /\ [Next]_vars => CompletionInv'
<1> SUFFICES ASSUME CompletionInv, ConfigInv, LimiterNext PROVE CompletionInv'
  BY NextIsLimiterNext
<1>1. deployment' = deployment /\ deployment.limit \in Nat
  BY TurnsAssumption DEF ConfigInv, LimiterNext
<1>2. CASE Complete
  BY <1>1, <1>2 DEF Complete, OverLimit, CompletionInv
<1> QED
  BY <1>1, <1>2 DEF LimiterNext, CompletionInv

\* The bucket of a key as AllowAll looks at it.
Bucket(buckets, k) == IF k \in DOMAIN buckets THEN buckets[k] ELSE Fresh

\* AllowAll with two keys and a limit: when it refuses, one of the keys is full, the first
\* key has a bucket and no bucket has counted; when it does not, both have counted.
Refuses(buckets, limit, g, s, after) ==
    /\ Full(buckets, g, limit) \/ Full(buckets, s, limit)
    /\ g \in DOMAIN after
    /\ \A k \in DOMAIN after : after[k] = Bucket(buckets, k)

CountsBoth(buckets, limit, g, s, after) ==
    /\ ~Full(buckets, g, limit) /\ ~Full(buckets, s, limit)
    /\ after = [k \in DOMAIN buckets \cup {g, s} |->
                  IF k \in {g, s} THEN [Bucket(buckets, k) EXCEPT !.count = @ + 1] ELSE Bucket(buckets, k)]

LEMMA AllowAllTwo ==
    ASSUME NEW buckets, NEW limit \in Nat \ {0}, NEW g, NEW s,
           NEW A, A = AllowAll(buckets, limit, <<g, s>>)
    PROVE  IF A.ok THEN CountsBoth(buckets, limit, g, s, A.buckets) ELSE Refuses(buckets, limit, g, s, A.buckets)
<1>1. PICK keys : keys = <<g, s>>
  OBVIOUS
<1>2. DOMAIN keys = {1, 2} /\ keys[1] = g /\ keys[2] = s
  BY <1>1
<1>3. PICK full : full = {i \in DOMAIN keys : Full(buckets, keys[i], limit)}
  OBVIOUS
<1>4. PICK seen : seen = {keys[i] : i \in {j \in DOMAIN keys : \A f \in full : j <= f}}
  OBVIOUS
<1>5. PICK reset : reset = [k \in DOMAIN buckets \cup seen |-> Bucket(buckets, k)]
  OBVIOUS
<1>6. limit # 0
  OBVIOUS
<1>7. A = [ok |-> full = {},
           buckets |-> IF full # {} THEN reset
                       ELSE [k \in DOMAIN reset |->
                               IF k \in seen THEN [reset[k] EXCEPT !.count = @ + 1] ELSE reset[k]]]
  BY <1>1, <1>3, <1>4, <1>5, <1>6, ZenonT(60) DEF AllowAll, Bucket
<1>8. g \in seen
  <2>1. 1 \in DOMAIN keys /\ \A f \in full : 1 <= f
    BY <1>2, <1>3
  <2> QED
    BY <1>2, <1>4, <2>1
<1>9. A.ok <=> full = {}
  <2>1. PICK b \in BOOLEAN : b = (full = {})
    OBVIOUS
  <2>2. PICK B : A = [ok |-> b, buckets |-> B]
    BY <1>7, <2>1
  <2>3. A.ok = b
    BY <2>2
  <2>4. (A.ok <=> full = {}) <=> (b <=> full = {})
    BY <2>3, Zenon
  <2>5. b <=> full = {}
    BY <2>1, Zenon
  <2> QED
    BY <2>4, <2>5
<1>10. ASSUME full = {} PROVE seen = {g, s}
  BY <1>2, <1>4, <1>10
<1>11. ASSUME full # {}
       PROVE  /\ Full(buckets, g, limit) \/ Full(buckets, s, limit)
              /\ g \in DOMAIN A.buckets
              /\ \A k \in DOMAIN A.buckets : A.buckets[k] = Bucket(buckets, k)
  BY <1>2, <1>3, <1>5, <1>7, <1>8, <1>11
<1>12. ASSUME full = {}
       PROVE  /\ ~Full(buckets, g, limit) /\ ~Full(buckets, s, limit)
              /\ A.buckets = [k \in DOMAIN buckets \cup {g, s} |->
                                IF k \in {g, s}
                                THEN [Bucket(buckets, k) EXCEPT !.count = @ + 1]
                                ELSE Bucket(buckets, k)]
  <2>1. ~Full(buckets, g, limit) /\ ~Full(buckets, s, limit)
    BY <1>2, <1>3, <1>12
  <2>2. DOMAIN reset = DOMAIN buckets \cup {g, s} /\ \A k \in DOMAIN reset : reset[k] = Bucket(buckets, k)
    BY <1>5, <1>10, <1>12
  <2>3. A.buckets = [k \in DOMAIN reset |->
                       IF k \in seen THEN [reset[k] EXCEPT !.count = @ + 1] ELSE reset[k]]
    BY <1>7, <1>12
  <2> QED
    BY <1>10, <1>12, <2>1, <2>2, <2>3
<1>13. full # {} => Refuses(buckets, limit, g, s, A.buckets)
  BY <1>11 DEF Refuses
<1>14. full = {} => CountsBoth(buckets, limit, g, s, A.buckets)
  BY <1>12 DEF CountsBoth
<1> QED
  BY <1>9, <1>13, <1>14

\* A bucket as AllowAll looks at it is a bucket with time to go that the history backs; the
\* one of all sources is a window of the history.
LEMMA BucketFacts ==
    ASSUME EventInv, NEW k
    PROVE  /\ Bucket(eventBuckets, k) \in [count : Nat, left : 1..Window + 1]
           /\ Backed(recentEvents, Bucket(eventBuckets, k).count, Bucket(eventBuckets, k).left)
           /\ k = "global" => Windowed(recentEvents, Window + 1, Bucket(eventBuckets, k).left,
                                       Bucket(eventBuckets, k).count)
<1>0. Window \in Nat \ {0} /\ Window + 1 \in Nat \ {0}
  BY IngressAssumption
<1>1. CASE k \in DOMAIN eventBuckets
  BY <1>1 DEF EventInv, Buckets, Bucket, GlobalLeft, GlobalCount
<1>2. CASE k \notin DOMAIN eventBuckets
  <2>1. Bucket(eventBuckets, k) = Fresh /\ Fresh.count = 0 /\ Fresh.left = Window + 1
    BY <1>2 DEF Bucket, Fresh
  <2>2. Fresh \in [count : Nat, left : 1..Window + 1]
    BY <1>0 DEF Fresh
  <2>3. Len(recentEvents) \in Nat
    BY <1>0, HistoryFacts DEF EventInv, Windowed
  <2>4. Backed(recentEvents, 0, Window + 1)
    BY <2>3 DEF Backed
  <2>5. ASSUME k = "global" PROVE Windowed(recentEvents, Window + 1, Window + 1, 0)
    <3>1. GlobalLeft(eventBuckets) = 0 /\ GlobalCount(eventBuckets) = 0
      BY <1>2, <2>5 DEF GlobalLeft, GlobalCount
    <3>2. Windowed(recentEvents, Window + 1, 0, 0)
      BY <3>1 DEF EventInv
    <3> QED
      BY <1>0, <3>2, WindowedOpen
  <2> QED
    BY <2>1, <2>2, <2>4, <2>5
<1> QED
  BY <1>1, <1>2

LEMMA EventStep ==
    ASSUME EventInv, ConfigInv, IngressInv, HeardInv, NEW d \in DOMAIN request,
           EventOverLimit(d) \/ EventAccepted(d)
    PROVE  EventInv'
<1> DEFINE limit == heard[d].maxEvents
           s == request[d].source
           n == Window + 1
<1>0. limit \in Nat /\ Window \in Nat \ {0} /\ n \in Nat \ {0}
  <2>1. heard[d] \in deployment.configs
    BY DEF HeardInv, IngressInv, EventOverLimit, EventAccepted, Passes, Reading
  <2> QED
    BY <2>1, TurnsAssumption, IngressAssumption DEF ConfigInv
<1>1. PICK A : A = AllowAll(eventBuckets, limit, <<"global", s>>)
  OBVIOUS
<1>2. eventBuckets' = A.buckets
  BY <1>1 DEF EventOverLimit, EventAccepted, Admitted
<1>3. (EventOverLimit(d) => ~A.ok) /\ (EventAccepted(d) => A.ok)
  BY <1>1 DEF EventOverLimit, EventAccepted, Admitted
<1>4. History(recentEvents, n)
  BY DEF EventInv, Windowed
<1>5. CASE limit = 0
  <2>1. A = [ok |-> TRUE, buckets |-> eventBuckets]
    BY <1>1, <1>5 DEF AllowAll
  <2>2. UNCHANGED <<eventBuckets, recentEvents>>
    BY <1>2, <1>3, <1>5, <2>1 DEF EventAccepted
  <2> QED
    BY <2>2 DEF EventInv
<1>6. CASE limit # 0 /\ EventOverLimit(d)
  <2>1. "global" \in DOMAIN A.buckets /\ \A k \in DOMAIN A.buckets : A.buckets[k] = Bucket(eventBuckets, k)
    <3>1. limit \in Nat \ {0} /\ ~A.ok
      BY <1>0, <1>3, <1>6
    <3>2. Refuses(eventBuckets, limit, "global", s, A.buckets)
      BY <1>1, <3>1, AllowAllTwo
    <3> QED
      BY <3>2 DEF Refuses
  <2>2. /\ \A k \in DOMAIN eventBuckets' : eventBuckets'[k] = Bucket(eventBuckets, k)
        /\ "global" \in DOMAIN eventBuckets'
    BY <1>2, <2>1
  <2>3. recentEvents' = recentEvents
    BY <1>6 DEF EventOverLimit
  <2>4. Buckets(eventBuckets', n)
    BY <2>2, BucketFacts DEF Buckets
  <2>5. Windowed(recentEvents', n, GlobalLeft(eventBuckets'), GlobalCount(eventBuckets'))
    <3>1. GlobalLeft(eventBuckets') = Bucket(eventBuckets, "global").left
      BY <2>2 DEF GlobalLeft
    <3>2. GlobalCount(eventBuckets') = Bucket(eventBuckets, "global").count
      BY <2>2 DEF GlobalCount
    <3> QED
      BY <2>3, <3>1, <3>2, BucketFacts
  <2>6. \A k \in DOMAIN eventBuckets' : Backed(recentEvents', eventBuckets'[k].count, eventBuckets'[k].left)
    BY <2>2, <2>3, BucketFacts
  <2> QED
    BY <2>4, <2>5, <2>6 DEF EventInv
<1>7. CASE limit # 0 /\ EventAccepted(d)
  <2>1. /\ ~Full(eventBuckets, "global", limit)
        /\ A.buckets = [k \in DOMAIN eventBuckets \cup {"global", s} |->
                          IF k \in {"global", s}
                          THEN [Bucket(eventBuckets, k) EXCEPT !.count = @ + 1]
                          ELSE Bucket(eventBuckets, k)]
    <3>1. limit \in Nat \ {0} /\ A.ok
      BY <1>0, <1>3, <1>7
    <3>2. CountsBoth(eventBuckets, limit, "global", s, A.buckets)
      BY <1>1, <3>1, AllowAllTwo
    <3> QED
      BY <3>2 DEF CountsBoth
  <2>2. recentEvents' = Passed(recentEvents, n, limit)
    BY <1>7 DEF EventAccepted
  <2>3. ASSUME NEW k \in DOMAIN eventBuckets'
        PROVE  /\ eventBuckets'[k] \in [count : Nat, left : 1..n]
               /\ Backed(recentEvents', eventBuckets'[k].count, eventBuckets'[k].left)
    <3>1. PICK b \in [count : Nat, left : 1..n] :
             b = Bucket(eventBuckets, k) /\ Backed(recentEvents, b.count, b.left)
      BY BucketFacts
    <3>2. b.count \in Nat /\ b.left \in 1..n
      BY <3>1
    <3>3. PICK c : c = [b EXCEPT !.count = b.count + 1]
      OBVIOUS
    <3>4. c \in [count : Nat, left : 1..n] /\ c.left = b.left /\ c.count = b.count + 1
      BY <3>1, <3>2, <3>3
    <3>5. eventBuckets'[k] = c \/ eventBuckets'[k] = b
      BY <1>2, <2>1, <3>1, <3>3
    <3>6. Backed(recentEvents', b.count, b.left) /\ Backed(recentEvents', b.count + 1, b.left)
      BY <1>0, <1>4, <1>7, <2>2, <3>1, <3>2, BackedPass
    <3> QED
      BY <3>1, <3>4, <3>5, <3>6
  <2>4. Windowed(recentEvents', n, GlobalLeft(eventBuckets'), GlobalCount(eventBuckets'))
    <3>1. PICK b \in [count : Nat, left : 1..n] :
             b = Bucket(eventBuckets, "global") /\ Windowed(recentEvents, n, b.left, b.count)
      BY BucketFacts
    <3>2. b.count \in Nat /\ b.left \in 1..n
      BY <3>1
    <3>3. b.count < limit
      BY <1>0, <1>7, <2>1, <3>1, <3>2 DEF Full, Bucket, Fresh
    <3>4. PICK c : c = [b EXCEPT !.count = b.count + 1]
      OBVIOUS
    <3>5. c.left = b.left /\ c.count = b.count + 1
      BY <3>1, <3>2, <3>4
    <3>6. "global" \in DOMAIN eventBuckets' /\ eventBuckets'["global"] = c
      BY <1>2, <2>1, <3>1, <3>4
    <3>7. GlobalLeft(eventBuckets') = b.left /\ GlobalCount(eventBuckets') = b.count + 1
      BY <3>5, <3>6 DEF GlobalLeft, GlobalCount
    <3>8. Windowed(Passed(recentEvents, n, limit), n, b.left, b.count + 1)
      BY <1>0, <3>1, <3>2, <3>3, WindowedPass
    <3> QED
      BY <2>2, <3>7, <3>8
  <2> QED
    BY <2>3, <2>4 DEF EventInv, Buckets
<1> QED
  BY <1>5, <1>6, <1>7

LEMMA StepEventInv == EventInv /\ ConfigInv /\ IngressInv /\ HeardInv /\ [Next]_vars => EventInv'
<1> SUFFICES ASSUME EventInv, ConfigInv, IngressInv, HeardInv, LimiterNext PROVE EventInv'
  BY NextIsLimiterNext
<1> DEFINE n == Window + 1
<1>0. Window \in Nat \ {0} /\ n \in Nat \ {0}
  BY IngressAssumption
<1>1. CASE UNCHANGED <<eventBuckets, recentEvents>>
  BY <1>1 DEF EventInv
<1>2. ASSUME NEW d \in DOMAIN request, EventOverLimit(d) \/ EventAccepted(d) PROVE EventInv'
  BY <1>2, EventStep
<1>3. CASE IngressTick
  <2>1. eventBuckets' = Aged(eventBuckets) /\ recentEvents' = Lapse(recentEvents)
    BY <1>3 DEF IngressTick
  <2>2. /\ DOMAIN eventBuckets' = {b \in DOMAIN eventBuckets : eventBuckets[b].left > 1}
        /\ \A k \in DOMAIN eventBuckets' :
              eventBuckets'[k] = [eventBuckets[k] EXCEPT !.left = eventBuckets[k].left - 1]
    BY <2>1 DEF Aged
  <2>3. ASSUME NEW k \in DOMAIN eventBuckets'
        PROVE  /\ k \in DOMAIN eventBuckets /\ eventBuckets[k].left > 1
               /\ eventBuckets[k].left \in 1..n /\ eventBuckets[k].count \in Nat
               /\ eventBuckets'[k] \in [count : Nat, left : 1..n]
               /\ eventBuckets'[k].left = eventBuckets[k].left - 1
               /\ eventBuckets'[k].count = eventBuckets[k].count
    <3>1. PICK b \in [count : Nat, left : 1..n] : b = eventBuckets[k]
      BY <2>2 DEF EventInv, Buckets
    <3>2. b.count \in Nat /\ b.left \in 1..n /\ b.left > 1
      BY <2>2, <3>1
    <3>3. b.left - 1 \in 1..n
      BY <1>0, <3>2
    <3>4. PICK c : c = [b EXCEPT !.left = b.left - 1]
      OBVIOUS
    <3>5. c \in [count : Nat, left : 1..n] /\ c.left = b.left - 1 /\ c.count = b.count
      BY <3>1, <3>3, <3>4
    <3> QED
      BY <2>2, <3>1, <3>2, <3>4, <3>5
  <2>4. ASSUME NEW k \in DOMAIN eventBuckets'
        PROVE  Backed(recentEvents', eventBuckets'[k].count, eventBuckets'[k].left)
    <3>1. Backed(recentEvents, eventBuckets[k].count, eventBuckets[k].left) /\ History(recentEvents, n)
      BY <2>3 DEF EventInv, Windowed
    <3>2. eventBuckets[k].left \in Nat
      BY <2>3
    <3>3. Backed(Lapse(recentEvents), eventBuckets[k].count, eventBuckets[k].left - 1)
      BY <1>0, <2>3, <3>1, <3>2, BackedTick
    <3> QED
      BY <2>1, <2>3, <3>3
  <2>5. Windowed(recentEvents', n, GlobalLeft(eventBuckets'), GlobalCount(eventBuckets'))
    <3> DEFINE w == GlobalLeft(eventBuckets)
               v == GlobalLeft(eventBuckets')
               count == GlobalCount(eventBuckets)
               c == GlobalCount(eventBuckets')
    <3>1. w \in Nat /\ count \in Nat
      BY DEF GlobalLeft, GlobalCount, EventInv, Buckets
    <3>2. v \in Nat /\ c \in Nat /\ (w > 0 => v = w - 1) /\ (w = 0 => v = 0) /\ (v > 0 => c = count)
      <4>1. CASE "global" \in DOMAIN eventBuckets'
        BY <2>3, <4>1 DEF GlobalLeft, GlobalCount
      <4>2. CASE "global" \notin DOMAIN eventBuckets'
        <5>1. v = 0 /\ c = 0
          BY <4>2 DEF GlobalLeft, GlobalCount
        <5>2. w = 0 \/ w = 1
          <6>1. CASE "global" \in DOMAIN eventBuckets
            <7>1. eventBuckets["global"].left \in 1..n /\ ~(eventBuckets["global"].left > 1)
              BY <2>2, <4>2, <6>1 DEF EventInv, Buckets
            <7> QED
              BY <6>1, <7>1 DEF GlobalLeft
          <6> QED
            BY <6>1 DEF GlobalLeft
        <5> QED
          BY <5>1, <5>2
      <4> QED
        BY <4>1, <4>2
    <3>3. Windowed(recentEvents, n, w, count)
      BY DEF EventInv
    <3> HIDE DEF w, v, count, c
    <3>4. Windowed(Lapse(recentEvents), n, v, c)
      BY <1>0, <3>1, <3>2, <3>3, WindowedTick
    <3> QED
      BY <2>1, <3>4 DEF v, c
  <2> QED
    BY <2>3, <2>4, <2>5 DEF EventInv, Buckets
<1>4. CASE eventBuckets' = <<>> /\ recentEvents' = <<>>
  <2>1. DOMAIN eventBuckets' = {}
    BY <1>4
  <2>2. Windowed(<<>>, n, 0, 0)
    BY <1>0, WindowedEmpty
  <2> QED
    BY <1>4, <2>1, <2>2 DEF EventInv, Buckets, GlobalLeft, GlobalCount
<1> QED
  BY <1>1, <1>2, <1>3, <1>4 DEF LimiterNext

LEMMA InitLimits == Init => SendInv /\ EventInv /\ CompletionInv
<1> SUFFICES ASSUME Init PROVE SendInv /\ EventInv /\ CompletionInv
  OBVIOUS
<1>0. Window + 1 \in Nat \ {0} /\ SendWindow \in Nat \ {0}
  BY IngressAssumption, GateAssumption
<1>1. SendInv
  <2>1. sendRate = [count |-> 0, left |-> 0] /\ recentSends = <<>>
    BY DEF Init, GateInit
  <2>2. Windowed(<<>>, SendWindow, 0, 0)
    BY <1>0, WindowedEmpty
  <2> QED
    BY <1>0, <2>1, <2>2 DEF SendInv
<1>2. EventInv
  <2>1. DOMAIN eventBuckets = {} /\ recentEvents = <<>>
    BY DEF Init, IngressInit
  <2>2. Windowed(<<>>, Window + 1, 0, 0)
    BY <1>0, WindowedEmpty
  <2> QED
    BY <2>1, <2>2 DEF EventInv, Buckets, GlobalLeft, GlobalCount
<1>3. CompletionInv
  <2>1. deployment.limit \in Nat
    BY TurnsAssumption DEF Init
  <2> QED
    BY <2>1 DEF Init, CompletionInv
<1> QED
  BY <1>1, <1>2, <1>3

\* A refusal at the agent for the limit's sake: a bucket was full, and the history backs it.
LEMMA RefusalIsFull ==
    ASSUME EventInv, ConfigInv, IngressInv, HeardInv, [Next]_vars,
           NEW d \in DOMAIN request, Reading(d), delivery'[d] = "429"
    PROVE  heard[d].maxEvents > 0 /\ Len(recentEvents) >= heard[d].maxEvents
<1>1. d \in Deliveries /\ delivery[d] = "reading"
  BY DEF IngressInv, Reading
<1>2. IngressNext
  BY NextIsIngressNext
<1>3. ASSUME NEW x \in DOMAIN request, NEW status, Answers(x, status) PROVE x = d /\ status = "429"
  <2>1. delivery = [y \in Deliveries |-> delivery[y]] /\ x \in Deliveries /\ delivery' = [delivery EXCEPT ![x] = status]
    BY <1>3 DEF IngressInv, Answers
  <2> QED
    BY <1>1, <2>1
<1>4. EventOverLimit(d)
  <2>0. ASSUME NEW x \in DOMAIN request, EventReads(x, config) PROVE FALSE
    BY <1>3, <2>0 DEF EventReads
  <2>1. ASSUME NEW x \in DOMAIN request, EventRefused(x) PROVE FALSE
    <3>1. PICK secret \in BOOLEAN : Answers(x, Refused(heard[x], Seen(x), secret))
      BY <2>1 DEF EventRefused
    <3>2. Refused(heard[x], Seen(x), secret) \in {"no", "400", "401"}
      BY DEF Refused, EnvelopeRefused
    <3> QED
      BY <1>3, <3>1, <3>2
  <2>2. ASSUME NEW x \in DOMAIN request, EventAccepted(x) PROVE FALSE
    BY <1>3, <2>2 DEF EventAccepted
  <2>3. ASSUME NEW x \in DOMAIN request, handleWebhook(x) PROVE FALSE
    <3>1. \E status : Answers(x, status)
      BY <2>3 DEF handleWebhook
    <3>2. x = d /\ Arrives(d)
      BY <1>3, <2>3, <3>1 DEF handleWebhook
    <3> QED
      BY <1>1, <3>2 DEF Arrives
  <2>4. ASSUME NEW x \in DOMAIN request, ForwardFails(x) PROVE FALSE
    BY <1>3, <2>4 DEF ForwardFails
  <2>5. ASSUME NEW x \in DOMAIN request, EventOverLimit(x) PROVE x = d
    BY <1>3, <2>5 DEF EventOverLimit
  <2>6. CASE IngressRestarts
    BY <1>1, <2>6 DEF IngressRestarts, Reading
  <2>7. CASE delivery' = delivery
    BY <1>1, <2>7
  <2> QED
    BY <1>2, <2>0, <2>1, <2>2, <2>3, <2>4, <2>5, <2>6, <2>7 DEF IngressNext
<1> DEFINE limit == heard[d].maxEvents
<1>5. limit \in Nat
  <2>1. heard[d] \in deployment.configs
    BY <1>1 DEF HeardInv
  <2> QED
    BY <2>1, TurnsAssumption DEF ConfigInv
<1>6. PICK A : A = AllowAll(eventBuckets, limit, <<"global", request[d].source>>)
  OBVIOUS
<1>7. ~A.ok
  BY <1>4, <1>6 DEF EventOverLimit, Admitted
<1>8. limit # 0
  BY <1>6, <1>7 DEF AllowAll
<1>9. PICK k \in DOMAIN eventBuckets : eventBuckets[k].count >= limit
  <2>1. limit \in Nat \ {0}
    BY <1>5, <1>8
  <2>2. Refuses(eventBuckets, limit, "global", request[d].source, A.buckets)
    BY <1>6, <1>7, <2>1, AllowAllTwo
  <2> QED
    BY <2>2 DEF Refuses, Full
<1>10. eventBuckets[k].count \in Nat /\ eventBuckets[k].count <= Len(recentEvents)
  BY DEF EventInv, Buckets, Backed
<1>11. Len(recentEvents) \in Nat
  BY IngressAssumption, HistoryFacts DEF EventInv, Windowed
<1> QED
  BY <1>5, <1>8, <1>9, <1>10, <1>11

\* In any stretch of a window's length at most two windows' worth of messages are sent and
\* of events are accepted (rateLimiter.allow, KeyedFixedWindow.AllowAll), no event is
\* answered 429 while fewer were accepted than the limit its request read, and one life of the
\* process makes no more requests to the model than the hard limit
\* (enforceLLMCallHardLimit), for any number of turns, deliveries, pushes and restarts.
THEOREM Limits == Spec => LimitsAreExact
<1> DEFINE LInv == ConfigInv /\ IngressInv /\ HeardInv /\ SendInv /\ EventInv /\ CompletionInv
           Full429 == \A d \in DOMAIN request :
               Reading(d) /\ delivery'[d] = "429" =>
                   heard[d].maxEvents > 0 /\ Len(recentEvents) >= heard[d].maxEvents
<1>1. Init => LInv
  BY InitConfigInv, InitIngressInv, InitHeardInv, InitLimits
<1>2. LInv /\ [Next]_vars => LInv'
  BY StepConfigInv, StepIngressInv, StepHeardInv, StepSendInv, StepEventInv, StepCompletionInv
<1>3. LInv => SendsBounded /\ EventsBounded /\ CompletionsWithinLimit
  <2> SUFFICES ASSUME LInv PROVE SendsBounded /\ EventsBounded /\ CompletionsWithinLimit
    OBVIOUS
  <2>1. SendsBounded
    <3>1. SendWindow \in Nat /\ sendRate.left \in Nat /\ sendRate.count \in Nat
      BY GateAssumption DEF SendInv
    <3> QED
      BY <3>1, WindowedIsBounded DEF SendInv, SendsBounded
  <2>2. EventsBounded
    <3>1. Window + 1 \in Nat /\ GlobalLeft(eventBuckets) \in Nat /\ GlobalCount(eventBuckets) \in Nat
      BY IngressAssumption DEF EventInv, Buckets, GlobalLeft, GlobalCount
    <3> QED
      BY <3>1, WindowedIsBounded DEF EventInv, EventsBounded
  <2>3. CompletionsWithinLimit
    <3>1. deployment.limit \in Nat
      BY TurnsAssumption DEF ConfigInv
    <3> QED
      BY <3>1 DEF CompletionInv, CompletionsWithinLimit
  <2> QED
    BY <2>1, <2>2, <2>3
<1>4. LInv /\ [Next]_vars => [Full429]_vars
  BY RefusalIsFull
<1> HIDE DEF LInv
<1> QED
  BY <1>1, <1>2, <1>3, <1>4, PTL DEF Spec, LimitsAreExact, RefusedOnlyWhenFull
-----------------------------------------------------------------------------
(* Turns, their log, the sync loop and the control requests.               *)

Fields == {"kind", "src", "pc", "mode", "round", "todo", "n", "ok"}
TurnPcs == {"event", "begin", "llm", "answer", "tools", "step", "tool", "end", "done", "lost"}
CallPcs == {"evaluate", "request", "waiting", "execute", "ok", "failed"}
Live == {"evaluate", "request", "waiting", "execute"}

\* A turn that counts every call it made: one that is not a workflow that failed.
Counts(r) == r.mode = "chat" \/ r.ok = TRUE

TurnTyped(r) ==
    /\ DOMAIN r = Fields
    /\ r.kind \in {"message", "event"} /\ r.pc \in TurnPcs /\ r.mode \in {"chat", "workflow"}
    /\ r.round \in Nat /\ r.n \in Nat /\ r.ok \in BOOLEAN

\* A turn r with the call d that it is in, under a protocol of the given steps: rounds and
\* steps stay within their bounds, a workflow that failed has ended, and a turn is in a call
\* exactly when it waits for a tool, the call it counted last.
TurnOK(r, d, steps) ==
    /\ TurnTyped(r)
    /\ r.pc \in {"event", "begin"} => r.round = 0
    /\ r.pc \in {"llm", "answer", "tools"} => r.mode = "chat"
    /\ r.pc = "step" => r.mode = "workflow"
    /\ r.mode = "chat" => r.round <= MaxRounds
    /\ r.mode = "workflow" => r.round <= steps
    /\ r.mode = "chat" /\ r.pc \in {"answer", "tools", "tool"} => r.round < MaxRounds
    /\ ~Counts(r) => r.pc \in {"end", "done", "lost"}
    /\ r.pc # "tool" => d = NoCall
    /\ r.pc = "tool" => d # NoCall /\ d.n = r.n

TurnsShape == Len(turns) \in Nat /\ turns = [t \in 1..Len(turns) |-> turns[t]]

TurnsInv ==
    /\ TurnsShape /\ Under \subseteq Turns
    /\ \A t \in Under : TurnOK(turns[t], dispatch[t], deployment.steps)
    /\ \A t \in Turns \ Under : dispatch[t] = NoCall

\* Every effect is of a call of its own, counted by its turn, and not of one that is still
\* to act.
EffectInv ==
    /\ \A x \in effects : x.by \in Executors /\ x.n \in Nat \ {0}
    /\ \A x \in effects : x.by \in Turns => x.by \in Under /\ (Counts(turns[x.by]) => x.n <= turns[x.by].n)
    /\ \A x \in effects : dispatch[x.by].pc \in Live => x.n # dispatch[x.by].n
    /\ \A x, y \in effects : x.by = y.by /\ x.n = y.n => x = y

\* A finished row is of a turn that is done, and has its count and its outcome.
RowOK(row, r) ==
    \/ row.result = "running"
    \/ /\ r.pc = "done" /\ row.calls = r.n
       /\ row.result = IF r.ok = TRUE THEN "success" ELSE "error"

LogInv ==
    /\ DOMAIN turnLog \subseteq Under
    /\ \A t \in DOMAIN turnLog : RowOK(turnLog[t], turns[t])

\* A message that has a turn is stale or was seen; one that is being admitted is neither
\* stale nor has a turn.
SyncInv ==
    /\ DOMAIN sync = {"seen", "pc"} /\ sync.pc \in {"idle", "sender", "match", "turn"}
    /\ sent \in Nat /\ sent <= Len(deployment.messages)
    /\ stale \in Nat /\ stale <= sent /\ sync.seen \in Nat /\ sync.seen <= sent
    /\ sync.pc \in {"sender", "match"} => sync.seen > stale
    /\ \A t \in Under : turns[t].kind = "message" =>
          /\ turns[t].src \in Nat /\ (turns[t].src <= stale \/ turns[t].src <= sync.seen)
          /\ sync.pc \in {"sender", "match"} => turns[t].src < sync.seen
    /\ OneTurnPerMessage

\* A control request that has acted or may act.
Acts(c) == control[c] = "served" \/ \E x \in effects : x.by = c

ControlStates == {"unsent", "served", "ok", "error", "lost"}

\* A request that has acted is still served, or is found in the cache, or its key is known
\* to be unsafe; two of one key have both acted only if it is.
KeyInv ==
    /\ control = [c \in Calls |-> control[c]] /\ \A c \in Calls : control[c] \in ControlStates
    /\ \A k \in DOMAIN cache : cache[k] \in Nat
    /\ \A c \in Calls : dispatch[c] # NoCall => control[c] = "served"
    /\ \A c \in Calls : control[c] # "unsent" => c \in DOMAIN deployment.calls
    /\ \A c \in Calls : Acts(c) =>
          /\ control[c] # "unsent"
          /\ control[c] = "served" \/ Key(c) \in DOMAIN cache \/ Key(c) \in shaky
    /\ \A c, o \in Calls : c # o /\ Acts(c) /\ Acts(o) /\ Key(c) = Key(o) => Key(c) \in shaky

\* The gate's calls are numbered from 1, and its approvals typed.
CallsTyped == \A e \in Executors : dispatch[e] = NoCall \/ (dispatch[e].pc \in CallPcs /\ dispatch[e].n \in Nat \ {0})
RowsTyped ==
    /\ DOMAIN approvals \subseteq Executors
    /\ \A e \in DOMAIN approvals :
          approvals[e].status \in {"pending", "approved", "denied"} /\ approvals[e].left \in Nat

-----------------------------------------------------------------------------
(* Parts of a step and what they preserve.                                 *)

LEMMA LenOf ==
    ASSUME NEW F, NEW n \in Nat, F = [i \in 1..n |-> F[i]]
    PROVE  DOMAIN F = 1..n /\ Len(F) = n
<1>1. DOMAIN F = 1..n
  OBVIOUS
<1>2. ASSUME NEW S, \A i \in 1..n : F[i] \in S PROVE F \in Seq(S)
  BY <1>2
<1>3. F \in Seq({F[i] : i \in 1..n})
  BY <1>2
<1> QED
  BY <1>1, <1>3

\* One turn becomes r.
LEMMA TurnSet ==
    ASSUME TurnsShape, NEW t \in Under, NEW r, turns' = [turns EXCEPT ![t] = r]
    PROVE  /\ TurnsShape' /\ DOMAIN turns' = Under /\ turns'[t] = r
           /\ \A s \in Under \ {t} : turns'[s] = turns[s]
<1>1. PICK n \in Nat : n = Len(turns)
  BY DEF TurnsShape
<1>2. turns = [i \in 1..n |-> turns[i]] /\ Under = 1..n
  BY <1>1 DEF TurnsShape, Under
<1>3. PICK F : F = turns'
  OBVIOUS
<1>4. F = [i \in 1..n |-> F[i]] /\ F[t] = r /\ \A s \in 1..n \ {t} : F[s] = turns[s]
  BY <1>2, <1>3
<1>5. Len(F) = n /\ DOMAIN F = 1..n
  BY <1>4, LenOf
<1> QED
  BY <1>2, <1>3, <1>4, <1>5 DEF TurnsShape

\* A turn begins.
LEMMA TurnAdded ==
    ASSUME TurnsShape, NEW r, turns' = Append(turns, r)
    PROVE  /\ TurnsShape' /\ DOMAIN turns' = Under \cup {NextTurn} /\ turns'[NextTurn] = r
           /\ NextTurn \notin Under
           /\ \A s \in Under : turns'[s] = turns[s]
<1>1. PICK n \in Nat : n = Len(turns)
  BY DEF TurnsShape
<1>2. turns = [i \in 1..n |-> turns[i]] /\ Under = 1..n /\ NextTurn = n + 1
  BY <1>1 DEF TurnsShape, Under, NextTurn
<1>3. PICK F : F = turns'
  OBVIOUS
<1>4. turns \in Seq({turns[i] : i \in 1..n})
  <2>1. ASSUME NEW S, \A i \in 1..n : turns[i] \in S PROVE turns \in Seq(S)
    BY <1>2, <2>1
  <2> QED
    BY <2>1
<1>5. F = [i \in 1..n + 1 |-> F[i]] /\ F[n + 1] = r /\ \A s \in 1..n : F[s] = turns[s]
  <2>1. F = Append(turns, r) /\ Len(turns) = n
    BY <1>1, <1>3
  <2>2. F = [i \in 1..n + 1 |-> IF i = n + 1 THEN r ELSE turns[i]]
    BY <1>2, <1>4, <2>1 DEF Append
  <2> QED
    BY <2>2
<1>6. Len(F) = n + 1 /\ DOMAIN F = 1..n + 1
  BY <1>5, LenOf
<1>7. 1..n + 1 = 1..n \cup {n + 1} /\ n + 1 \notin 1..n
  OBVIOUS
<1> QED
  BY <1>2, <1>3, <1>5, <1>6, <1>7 DEF TurnsShape

LEMMA TurnsSame ==
    ASSUME TurnsInv, UNCHANGED <<turns, deployment>>,
           \A t \in Turns : /\ dispatch'[t] = NoCall <=> dispatch[t] = NoCall
                            /\ dispatch[t] # NoCall => dispatch'[t].n = dispatch[t].n
    PROVE  TurnsInv'
<1>1. TurnsShape' /\ Under' = Under
  BY DEF TurnsInv, TurnsShape, Under
<1>2. ASSUME NEW t \in Under PROVE TurnOK(turns[t], dispatch'[t], deployment.steps)
  BY DEF TurnsInv, TurnOK
<1> QED
  BY <1>1, <1>2 DEF TurnsInv

LEMMA TurnsStep ==
    ASSUME TurnsInv, NEW t \in Under, NEW r, turns' = [turns EXCEPT ![t] = r],
           deployment' = deployment, TurnOK(r, dispatch'[t], deployment.steps),
           \A s \in Turns \ {t} : dispatch'[s] = dispatch[s]
    PROVE  TurnsInv'
<1>1. /\ TurnsShape' /\ DOMAIN turns' = Under /\ turns'[t] = r
      /\ \A s \in Under \ {t} : turns'[s] = turns[s]
  BY TurnSet DEF TurnsInv
<1>2. Under' = Under /\ Under \subseteq Turns
  BY <1>1 DEF Under, TurnsInv
<1>3. ASSUME NEW s \in Under PROVE TurnOK(turns'[s], dispatch'[s], deployment.steps)
  <2>1. CASE s = t
    BY <1>1, <2>1
  <2>2. CASE s # t
    BY <1>1, <1>2, <2>2 DEF TurnsInv
  <2> QED
    BY <2>1, <2>2
<1> QED
  BY <1>1, <1>2, <1>3 DEF TurnsInv

LEMMA EffectsKept ==
    ASSUME EffectInv, effects' = effects, Under \subseteq Under',
           \A s \in Under : Counts(turns'[s]) =>
               Counts(turns[s]) /\ \A m \in Nat : m <= turns[s].n => m <= turns'[s].n,
           \A x \in effects : dispatch'[x.by].pc \in Live => x.n # dispatch'[x.by].n
    PROVE  EffectInv'
  BY DEF EffectInv

LEMMA LogSame ==
    ASSUME LogInv, turnLog' = turnLog, Under \subseteq Under',
           \A s \in Under : turns[s].pc = "done" => turns'[s] = turns[s]
    PROVE  LogInv'
  BY DEF LogInv, RowOK

LEMMA SyncSame ==
    ASSUME SyncInv, UNCHANGED <<deployment, sync, sent, stale>>, Under' = Under,
           \A s \in Under : turns'[s].kind = turns[s].kind /\ turns'[s].src = turns[s].src
    PROVE  SyncInv'
  BY DEF SyncInv, OneTurnPerMessage

LEMMA KeysSame ==
    ASSUME KeyInv, UNCHANGED <<deployment, control, cache, shaky>>,
           \A c \in Calls : dispatch'[c] # NoCall => dispatch[c] # NoCall,
           \A c \in Calls : Acts(c)' => Acts(c)
    PROVE  KeyInv'
  BY DEF KeyInv, Key

\* A step of the gate moves one call on; an effect is added only as the call returns.
GateMoves(e) ==
    /\ dispatch[e] # NoCall /\ dispatch'[e] # NoCall /\ dispatch'[e].n = dispatch[e].n
    /\ dispatch'[e].pc \in CallPcs
    /\ \A f \in Executors \ {e} : dispatch'[f] = dispatch[f]
    /\ dispatch'[e].pc \in Live => dispatch[e].pc \in Live
    /\ \/ effects' = effects
       \/ /\ dispatch[e].pc = "execute" /\ dispatch'[e].pc \notin Live
          /\ \E x : x.by = e /\ x.n = dispatch[e].n /\ effects' = effects \cup {x}

LEMMA StepMoves ==
    ASSUME GateInv, NEW e \in Executors, DispatchSteps(e) \/ WaitAborted(e)
    PROVE  GateMoves(e)
<1> USE DEF Live, CallPcs
<1>1. ASSUME NEW pc \in CallPcs, DispatchGoes(e, pc), dispatch[e].pc \in Live, effects' = effects
      PROVE  GateMoves(e)
  <2>1. dispatch[e] # NoCall
    BY <1>1 DEF NoCall
  <2>2. /\ dispatch'[e].pc = pc /\ dispatch'[e].n = dispatch[e].n
        /\ \A f \in Executors \ {e} : dispatch'[f] = dispatch[f]
    BY <1>1, <2>1, GoesFields, GoesShape DEF GateInv
  <2>3. dispatch'[e] # NoCall
    BY <2>2 DEF NoCall
  <2> QED
    BY <1>1, <2>1, <2>2, <2>3 DEF GateMoves
<1>2. ASSUME NEW pc \in {"ok", "failed"}, DispatchGoes(e, pc), dispatch[e].pc = "execute", TakesEffect(e)
      PROVE  GateMoves(e)
  <2>1. dispatch[e] # NoCall
    BY <1>2 DEF NoCall
  <2>2. /\ dispatch'[e].pc = pc /\ dispatch'[e].n = dispatch[e].n
        /\ \A f \in Executors \ {e} : dispatch'[f] = dispatch[f]
    BY <1>2, <2>1, GoesFields, GoesShape DEF GateInv
  <2>3. dispatch'[e] # NoCall
    BY <2>2 DEF NoCall
  <2>4. PICK x : /\ x = [by |-> e, n |-> dispatch[e].n, call |-> dispatch[e].call, cfg |-> dispatch[e].cfg]
                 /\ effects' = effects \cup {x}
    BY <1>2 DEF TakesEffect
  <2>5. x.by = e /\ x.n = dispatch[e].n
    BY <2>4
  <2> QED
    BY <1>2, <2>1, <2>2, <2>3, <2>4, <2>5 DEF GateMoves
<1>3. CASE EvaluatePolicy(e)
  <2>1. PICK goes : /\ goes = AfterPolicy(Evaluate(config, dispatch[e].call))
                    /\ dispatch' = [dispatch EXCEPT ![e] =
                           [pc |-> goes, call |-> dispatch[e].call, n |-> dispatch[e].n, cfg |-> config]]
    BY <1>3 DEF EvaluatePolicy
  <2>2. goes \in {"failed", "request", "execute"}
    <3>1. Evaluate(config, dispatch[e].call) \in {"deny", "approval", "allow"}
      BY DEF Evaluate
    <3> QED
      BY <2>1, <3>1 DEF AfterPolicy
  <2>3. PICK c : c = [pc |-> goes, call |-> dispatch[e].call, n |-> dispatch[e].n, cfg |-> config]
    OBVIOUS
  <2>4. c.pc = goes /\ c.n = dispatch[e].n
    BY <2>3
  <2>5. dispatch'[e] = c /\ \A f \in Executors \ {e} : dispatch'[f] = dispatch[f]
    BY <2>1, <2>3 DEF GateInv, GateShape
  <2>6. dispatch[e].pc = "evaluate" /\ effects' = effects
    BY <1>3 DEF EvaluatePolicy, DispatchAt
  <2>7. c # NoCall /\ dispatch[e] # NoCall
    BY <2>2, <2>4, <2>6 DEF NoCall
  <2> QED
    BY <2>2, <2>4, <2>5, <2>6, <2>7 DEF GateMoves
<1>4. CASE RequestApproval(e)
  BY <1>1, <1>4 DEF RequestApproval, DispatchAt
<1>5. CASE AwaitDecision(e)
  BY <1>1, <1>5 DEF AwaitDecision, PollApproval, ApprovalTimeout, DispatchAt
<1>6. CASE WaitAborted(e)
  BY <1>1, <1>6 DEF WaitAborted, DispatchAt
<1>7. CASE ExecuteSend(e)
  BY <1>1, <1>2, <1>7 DEF ExecuteSend, DispatchAt
<1>8. CASE ExecuteMCP(e)
  BY <1>1, <1>2, <1>8 DEF ExecuteMCP, DispatchAt
<1> QED
  BY <1>3, <1>4, <1>5, <1>6, <1>7, <1>8 DEF DispatchSteps

\* A step of the gate, in a turn or in a control request.
LEMMA GateMoveStep ==
    ASSUME TurnsInv, EffectInv, LogInv, SyncInv, KeyInv, CallsTyped, NEW e \in Executors, GateMoves(e),
           UNCHANGED <<deployment, turns, turnLog, sync, sent, stale, control, cache, shaky>>
    PROVE  TurnsInv' /\ EffectInv' /\ LogInv' /\ SyncInv' /\ KeyInv'
<1>0. Under' = Under /\ Turns \subseteq Executors /\ Calls \subseteq Executors
  BY TurnsAssumption DEF Under
<1>1. TurnsInv'
  <2>1. ASSUME NEW t \in Turns
        PROVE  /\ dispatch'[t] = NoCall <=> dispatch[t] = NoCall
               /\ dispatch[t] # NoCall => dispatch'[t].n = dispatch[t].n
    BY <1>0 DEF GateMoves
  <2> QED
    BY <2>1, TurnsSame
<1>2. EffectInv'
  <2>1. CASE effects' = effects
    <3>1. ASSUME NEW x \in effects, dispatch'[x.by].pc \in Live PROVE x.n # dispatch'[x.by].n
      BY <3>1 DEF GateMoves, EffectInv
    <3> QED
      BY <1>0, <2>1, <3>1, EffectsKept
  <2>2. CASE effects' # effects
    <3>1. PICK x : /\ dispatch[e].pc = "execute" /\ dispatch'[e].pc \notin Live
                   /\ x.by = e /\ x.n = dispatch[e].n /\ effects' = effects \cup {x}
      BY <2>2 DEF GateMoves
    <3>2. dispatch[e] # NoCall /\ dispatch[e].n \in Nat \ {0} /\ dispatch[e].pc \in Live
      BY <3>1 DEF CallsTyped, GateMoves, Live
    <3>3. e \in Turns => e \in Under /\ x.n <= turns[e].n
      <4>1. ASSUME e \in Turns PROVE e \in Under
        BY <3>2, <4>1 DEF TurnsInv
      <4>2. ASSUME e \in Turns PROVE x.n = turns[e].n /\ turns[e].n \in Nat
        BY <3>1, <3>2, <4>1, <4>2 DEF TurnsInv, TurnOK, TurnTyped
      <4> QED
        BY <4>1, <4>2
    <3>4. \A y \in effects : y.by = e => y.n # x.n
      BY <3>1, <3>2 DEF EffectInv
    <3>5. \A y \in effects' : y.by \in Executors /\ y.n \in Nat \ {0}
      BY <3>1, <3>2 DEF EffectInv
    <3>6. \A y \in effects' : y.by \in Turns => y.by \in Under /\ (Counts(turns[y.by]) => y.n <= turns[y.by].n)
      BY <3>1, <3>3 DEF EffectInv
    <3>7. \A y \in effects' : dispatch'[y.by].pc \in Live => y.n # dispatch'[y.by].n
      BY <3>1 DEF EffectInv, GateMoves
    <3>8. \A y, z \in effects' : y.by = z.by /\ y.n = z.n => y = z
      BY <3>1, <3>4 DEF EffectInv
    <3> QED
      BY <1>0, <3>5, <3>6, <3>7, <3>8 DEF EffectInv
  <2> QED
    BY <2>1, <2>2
<1>3. LogInv' /\ SyncInv'
  BY <1>0, LogSame, SyncSame
<1>4. KeyInv'
  <2>1. \A c \in Calls : dispatch'[c] # NoCall => dispatch[c] # NoCall
    BY <1>0 DEF GateMoves
  <2>2. ASSUME NEW c \in Calls, Acts(c)' PROVE Acts(c)
    <3>1. CASE c = e
      BY <3>1 DEF KeyInv, GateMoves, Acts
    <3>2. CASE c # e
      BY <2>2, <3>2 DEF GateMoves, Acts
    <3> QED
      BY <3>1, <3>2
  <2> QED
    BY <2>1, <2>2, KeysSame
<1> QED
  BY <1>1, <1>2, <1>3, <1>4

\* A turn becomes r, which is in order with the call the turn is in then, and counts every
\* effect it has counted so far; a call that starts has a new number.
Goes(t, r) ==
    /\ turns' = [turns EXCEPT ![t] = r]
    /\ r.kind = turns[t].kind /\ r.src = turns[t].src
    /\ Counts(r) => Counts(turns[t]) /\ turns[t].n <= r.n
    /\ TurnOK(r, dispatch'[t], deployment.steps)
    /\ \A e \in Executors \ {t} : dispatch'[e] = dispatch[e]
    /\ dispatch'[t].pc \in Live => Counts(turns[t]) /\ turns[t].n < dispatch'[t].n

LEMMA GoesCore ==
    ASSUME TurnsInv, EffectInv, KeyInv, NEW t \in Under, NEW r, Goes(t, r),
           UNCHANGED <<deployment, effects, control, cache, shaky>>
    PROVE  /\ TurnsInv' /\ EffectInv' /\ KeyInv' /\ Under' = Under /\ turns'[t] = r
           /\ \A s \in Under \ {t} : turns'[s] = turns[s]
           /\ \A s \in Under : turns'[s].kind = turns[s].kind /\ turns'[s].src = turns[s].src
<1>0. Turns \subseteq Executors /\ Calls \subseteq Executors /\ t \in Turns /\ t \notin Calls
  BY TurnsAssumption DEF TurnsInv
<1>1. /\ DOMAIN turns' = Under /\ turns'[t] = r
      /\ \A s \in Under \ {t} : turns'[s] = turns[s]
  BY TurnSet DEF TurnsInv, Goes
<1>2. Under' = Under
  BY <1>1 DEF Under
<1>3. TurnsInv'
  <2>1. /\ turns' = [turns EXCEPT ![t] = r] /\ TurnOK(r, dispatch'[t], deployment.steps)
        /\ \A s \in Turns \ {t} : dispatch'[s] = dispatch[s]
    BY <1>0 DEF Goes
  <2> QED
    BY <2>1, TurnsStep
<1>4. ASSUME NEW s \in Under, Counts(turns'[s])
      PROVE  Counts(turns[s]) /\ \A m \in Nat : m <= turns[s].n => m <= turns'[s].n
  <2>1. CASE s = t
    <3>1. turns[t].n \in Nat /\ r.n \in Nat
      BY DEF TurnsInv, Goes, TurnOK, TurnTyped
    <3>2. Counts(turns[t]) /\ turns[t].n <= r.n
      BY <1>1, <1>4, <2>1 DEF Goes
    <3> QED
      BY <1>1, <2>1, <3>1, <3>2
  <2>2. CASE s # t
    BY <1>1, <1>4, <2>2
  <2> QED
    BY <2>1, <2>2
<1>5. EffectInv'
  <2>1. ASSUME NEW x \in effects, dispatch'[x.by].pc \in Live PROVE x.n # dispatch'[x.by].n
    <3>1. CASE x.by # t
      BY <2>1, <3>1 DEF EffectInv, Goes
    <3>2. CASE x.by = t
      <4>1. Counts(turns[t]) /\ turns[t].n < dispatch'[t].n
        BY <2>1, <3>2 DEF Goes
      <4>2. x.n <= turns[t].n /\ x.n \in Nat /\ turns[t].n \in Nat
        BY <1>0, <3>2, <4>1 DEF EffectInv, TurnsInv, TurnOK, TurnTyped
      <4>3. dispatch'[t] # NoCall
        BY <2>1, <3>2 DEF NoCall, Live
      <4>4. dispatch'[t].n = r.n /\ r.n \in Nat
        BY <4>3 DEF Goes, TurnOK, TurnTyped
      <4> QED
        BY <3>2, <4>1, <4>2, <4>4
    <3> QED
      BY <3>1, <3>2
  <2> QED
    BY <1>2, <1>4, <2>1, EffectsKept
<1>6. KeyInv'
  <2>1. \A c \in Calls : dispatch'[c] = dispatch[c]
    BY <1>0 DEF Goes
  <2> QED
    BY <2>1, KeysSame DEF Acts
<1>7. ASSUME NEW s \in Under PROVE turns'[s].kind = turns[s].kind /\ turns'[s].src = turns[s].src
  BY <1>1 DEF Goes
<1> QED
  BY <1>1, <1>2, <1>3, <1>5, <1>6, <1>7

\* The same for a turn that is not done, when neither the log nor the sync loop changes.
LEMMA GoesStep ==
    ASSUME TurnsInv, EffectInv, LogInv, SyncInv, KeyInv, NEW t \in Under, NEW r, Goes(t, r),
           turns[t].pc # "done",
           UNCHANGED <<deployment, effects, turnLog, sync, sent, stale, control, cache, shaky>>
    PROVE  TurnsInv' /\ EffectInv' /\ LogInv' /\ SyncInv' /\ KeyInv'
<1>1. /\ TurnsInv' /\ EffectInv' /\ KeyInv' /\ Under' = Under /\ turns'[t] = r
      /\ \A s \in Under \ {t} : turns'[s] = turns[s]
      /\ \A s \in Under : turns'[s].kind = turns[s].kind /\ turns'[s].src = turns[s].src
  BY GoesCore
<1>2. LogInv'
  BY <1>1, LogSame
<1>3. SyncInv'
  BY <1>1, SyncSame
<1> QED
  BY <1>1, <1>2, <1>3

\* What the fields of a turn are after an assignment to some of them.
Becomes(s, r, pc, ok, round, n, mode) ==
    /\ TurnTyped(s) /\ s.kind = r.kind /\ s.src = r.src /\ s.pc = pc /\ s.ok = ok
    /\ s.round = round /\ s.n = n /\ s.mode = mode

LEMMA PcSet ==
    ASSUME NEW r, TurnTyped(r), NEW pc \in TurnPcs,
           NEW s, s = [r EXCEPT !.pc = pc]
    PROVE  Becomes(s, r, pc, r.ok, r.round, r.n, r.mode)
<1>1. DOMAIN r = Fields
  BY DEF TurnTyped
<1>2. DOMAIN s = Fields /\ s.kind = r.kind /\ s.src = r.src
  BY <1>1 DEF Fields
<1>3. s.pc = pc /\ s.ok = r.ok
  BY <1>1 DEF Fields
<1>4. s.round = r.round /\ s.n = r.n /\ s.mode = r.mode
  BY <1>1 DEF Fields
<1> QED
  BY <1>2, <1>3, <1>4 DEF TurnTyped, Becomes

LEMMA PcOkSet ==
    ASSUME NEW r, TurnTyped(r), NEW pc \in TurnPcs, NEW ok \in BOOLEAN,
           NEW s, s = [r EXCEPT !.pc = pc, !.ok = ok]
    PROVE  Becomes(s, r, pc, ok, r.round, r.n, r.mode)
<1>1. DOMAIN r = Fields
  BY DEF TurnTyped
<1>2. DOMAIN s = Fields /\ s.kind = r.kind /\ s.src = r.src
  BY <1>1 DEF Fields
<1>3. s.pc = pc /\ s.ok = ok
  BY <1>1 DEF Fields
<1>4. s.round = r.round /\ s.n = r.n /\ s.mode = r.mode
  BY <1>1 DEF Fields
<1> QED
  BY <1>2, <1>3, <1>4 DEF TurnTyped, Becomes

LEMMA PcRoundSet ==
    ASSUME NEW r, TurnTyped(r), NEW pc \in TurnPcs, NEW round \in Nat,
           NEW s, s = [r EXCEPT !.pc = pc, !.round = round]
    PROVE  Becomes(s, r, pc, r.ok, round, r.n, r.mode)
<1>1. DOMAIN r = Fields
  BY DEF TurnTyped
<1>2. DOMAIN s = Fields /\ s.kind = r.kind /\ s.src = r.src
  BY <1>1 DEF Fields
<1>3. s.pc = pc /\ s.ok = r.ok
  BY <1>1 DEF Fields
<1>4. s.round = round /\ s.n = r.n /\ s.mode = r.mode
  BY <1>1 DEF Fields
<1> QED
  BY <1>2, <1>3, <1>4 DEF TurnTyped, Becomes

LEMMA RoundSet ==
    ASSUME NEW r, TurnTyped(r), NEW round \in Nat,
           NEW s, s = [r EXCEPT !.round = round]
    PROVE  Becomes(s, r, r.pc, r.ok, round, r.n, r.mode)
<1>1. DOMAIN r = Fields
  BY DEF TurnTyped
<1>2. DOMAIN s = Fields /\ s.kind = r.kind /\ s.src = r.src
  BY <1>1 DEF Fields
<1>3. s.pc = r.pc /\ s.ok = r.ok
  BY <1>1 DEF Fields
<1>4. s.round = round /\ s.n = r.n /\ s.mode = r.mode
  BY <1>1 DEF Fields
<1> QED
  BY <1>2, <1>3, <1>4 DEF TurnTyped, Becomes

LEMMA TodoSet ==
    ASSUME NEW r, TurnTyped(r), NEW pc \in TurnPcs, NEW todo,
           NEW s, s = [r EXCEPT !.pc = pc, !.todo = todo]
    PROVE  Becomes(s, r, pc, r.ok, r.round, r.n, r.mode)
<1>1. DOMAIN r = Fields
  BY DEF TurnTyped
<1>2. DOMAIN s = Fields /\ s.kind = r.kind /\ s.src = r.src
  BY <1>1 DEF Fields
<1>3. s.pc = pc /\ s.ok = r.ok
  BY <1>1 DEF Fields
<1>4. s.round = r.round /\ s.n = r.n /\ s.mode = r.mode
  BY <1>1 DEF Fields
<1> QED
  BY <1>2, <1>3, <1>4 DEF TurnTyped, Becomes

LEMMA CallSet ==
    ASSUME NEW r, TurnTyped(r), NEW pc \in TurnPcs, NEW todo, NEW n \in Nat,
           NEW s, s = [r EXCEPT !.pc = pc, !.todo = todo, !.n = n]
    PROVE  Becomes(s, r, pc, r.ok, r.round, n, r.mode)
<1>1. DOMAIN r = Fields
  BY DEF TurnTyped
<1>2. DOMAIN s = Fields /\ s.kind = r.kind /\ s.src = r.src
  BY <1>1 DEF Fields
<1>3. s.pc = pc /\ s.ok = r.ok
  BY <1>1 DEF Fields
<1>4. s.round = r.round /\ s.n = n /\ s.mode = r.mode
  BY <1>1 DEF Fields
<1> QED
  BY <1>2, <1>3, <1>4 DEF TurnTyped, Becomes

LEMMA StepSet ==
    ASSUME NEW r, TurnTyped(r), NEW pc \in TurnPcs, NEW round \in Nat, NEW n \in Nat,
           NEW s, s = [r EXCEPT !.pc = pc, !.round = round, !.n = n]
    PROVE  Becomes(s, r, pc, r.ok, round, n, r.mode)
<1>1. DOMAIN r = Fields
  BY DEF TurnTyped
<1>2. DOMAIN s = Fields /\ s.kind = r.kind /\ s.src = r.src
  BY <1>1 DEF Fields
<1>3. s.pc = pc /\ s.ok = r.ok
  BY <1>1 DEF Fields
<1>4. s.round = round /\ s.n = n /\ s.mode = r.mode
  BY <1>1 DEF Fields
<1> QED
  BY <1>2, <1>3, <1>4 DEF TurnTyped, Becomes

LEMMA ReturnSet ==
    ASSUME NEW r, TurnTyped(r), NEW n \in Nat, NEW ok \in BOOLEAN, NEW pc \in TurnPcs,
           NEW s, s = [r EXCEPT !.n = n, !.ok = ok, !.pc = pc]
    PROVE  Becomes(s, r, pc, ok, r.round, n, r.mode)
<1>1. DOMAIN r = Fields
  BY DEF TurnTyped
<1>2. DOMAIN s = Fields /\ s.kind = r.kind /\ s.src = r.src
  BY <1>1 DEF Fields
<1>3. s.pc = pc /\ s.ok = ok
  BY <1>1 DEF Fields
<1>4. s.round = r.round /\ s.n = n /\ s.mode = r.mode
  BY <1>1 DEF Fields
<1> QED
  BY <1>2, <1>3, <1>4 DEF TurnTyped, Becomes

LEMMA EventSet ==
    ASSUME NEW r, TurnTyped(r), NEW mode \in {"chat", "workflow"}, NEW ok \in BOOLEAN, NEW pc \in TurnPcs,
           NEW s, s = [r EXCEPT !.mode = mode, !.ok = ok, !.pc = pc]
    PROVE  Becomes(s, r, pc, ok, r.round, r.n, mode)
<1>1. DOMAIN r = Fields
  BY DEF TurnTyped
<1>2. DOMAIN s = Fields /\ s.kind = r.kind /\ s.src = r.src
  BY <1>1 DEF Fields
<1>3. s.pc = pc /\ s.ok = ok
  BY <1>1 DEF Fields
<1>4. s.round = r.round /\ s.n = r.n /\ s.mode = mode
  BY <1>1 DEF Fields
<1> QED
  BY <1>2, <1>3, <1>4 DEF TurnTyped, Becomes


LEMMA GoesIfOK ==
    ASSUME TurnsInv, NEW t \in Under, turns[t].pc \in {"event", "begin", "llm", "answer", "tools", "step"},
           NEW s, TurnTyped(s), turns' = [turns EXCEPT ![t] = s], dispatch' = dispatch,
           s.kind = turns[t].kind, s.src = turns[t].src, s.n = turns[t].n,
           s.pc # "tool", s.pc \in {"event", "begin"} => s.round = 0,
           s.pc \in {"llm", "answer", "tools"} => s.mode = "chat", s.pc = "step" => s.mode = "workflow",
           s.mode = "chat" => s.round <= MaxRounds, s.mode = "workflow" => s.round <= deployment.steps,
           s.mode = "chat" /\ s.pc \in {"answer", "tools"} => s.round < MaxRounds,
           Counts(s) \/ s.pc = "end"
    PROVE  Goes(t, s)
<1>1. TurnOK(turns[t], dispatch[t], deployment.steps)
  BY DEF TurnsInv
<1>2. dispatch[t] = NoCall /\ Counts(turns[t])
  BY <1>1 DEF TurnOK
<1>3. TurnOK(s, dispatch'[t], deployment.steps)
  BY <1>2 DEF TurnOK
<1>4. dispatch'[t].pc \notin Live /\ turns[t].n <= s.n
  <2>1. turns[t].n \in Nat
    BY <1>1 DEF TurnOK, TurnTyped
  <2> QED
    BY <1>2, <2>1 DEF NoCall, Live
<1> QED
  BY <1>2, <1>3, <1>4 DEF Goes

\* The steps of a turn that neither start nor end a call, nor the turn.
LEMMA PlainTurnSteps ==
    ASSUME TurnsInv, ConfigInv, GateInv, NEW t \in Under,
           \/ BeginTurn(t) \/ CallLLM(t) \/ ModelAnswers(t)
           \/ NextToolCall(t) /\ turns[t].todo = <<>>
           \/ WorkflowStep(t) /\ dispatch' = dispatch
    PROVE  turns[t].pc # "done" /\ \E s : Goes(t, s)
<1> DEFINE r == turns[t]
<1>s. dispatch' = dispatch
  BY DEF BeginTurn, CallLLM, ModelAnswers, NextToolCall, gateVars
<1>0. MaxRounds \in Nat /\ deployment.steps \in Nat
  BY TurnsAssumption DEF ConfigInv
<1>1. TurnsShape /\ TurnTyped(r) /\ TurnOK(r, dispatch[t], deployment.steps)
  BY DEF TurnsInv, TurnOK
<1>2. r.ok \in BOOLEAN /\ r.round \in Nat /\ r.n \in Nat /\ r.mode \in {"chat", "workflow"} /\ r.pc \in TurnPcs
  BY <1>1 DEF TurnTyped
<1>3. PICK n \in Nat : turns = [i \in 1..n |-> turns[i]] /\ t \in 1..n
  BY <1>1 DEF TurnsShape, Under
<1>4. ASSUME NEW ok \in BOOLEAN, TurnEnds(t, ok), r.pc \in {"begin", "llm", "answer", "step"} PROVE \E s : Goes(t, s)
  <2>1. PICK s : s = [r EXCEPT !.pc = "end", !.ok = ok]
    OBVIOUS
  <2>2. turns' = [turns EXCEPT ![t] = s]
    BY <1>3, <1>4, <2>1 DEF TurnEnds
  <2>3. "end" \in TurnPcs
    BY DEF TurnPcs
  <2>4. /\ TurnTyped(s) /\ s.kind = r.kind /\ s.src = r.src /\ s.pc = "end"
        /\ s.round = r.round /\ s.n = r.n /\ s.mode = r.mode
    <3>1. Becomes(s, r, "end", ok, r.round, r.n, r.mode)
      BY <1>1, <2>1, <2>3, PcOkSet
    <3> QED
      BY <3>1 DEF Becomes
  <2>5. Goes(t, s)
    BY <1>1, <1>4, <2>2, <2>4, <1>s, GoesIfOK DEF TurnOK
  <2> QED
    BY <2>5
<1>5. ASSUME NEW pc \in {"llm", "answer", "step"}, TurnGoes(t, pc), r.pc \in {"begin", "llm"},
             pc \in {"llm", "answer"} => r.mode = "chat", pc = "step" => r.mode = "workflow",
             pc = "answer" => r.round < MaxRounds
      PROVE  \E s : Goes(t, s)
  <2>1. PICK s : s = [r EXCEPT !.pc = pc]
    OBVIOUS
  <2>2. turns' = [turns EXCEPT ![t] = s]
    BY <1>3, <1>5, <2>1 DEF TurnGoes
  <2>3. pc \in TurnPcs
    BY DEF TurnPcs
  <2>4. /\ TurnTyped(s) /\ s.kind = r.kind /\ s.src = r.src /\ s.pc = pc /\ s.ok = r.ok
        /\ s.round = r.round /\ s.n = r.n /\ s.mode = r.mode
    BY <1>1, <1>2, <2>1, <2>3, PcSet DEF Becomes
  <2>5. Counts(s)
    BY <1>1, <1>5, <2>4 DEF TurnOK, Counts
  <2>6. Goes(t, s)
    BY <1>1, <1>5, <2>2, <2>4, <2>5, <1>s, GoesIfOK DEF TurnOK
  <2> QED
    BY <2>6
<1>6. CASE BeginTurn(t)
  BY <1>4, <1>5, <1>6 DEF BeginTurn, TurnAt
<1>7. CASE CallLLM(t)
  <2>1. r.pc = "llm" /\ r.mode = "chat" /\ (~OutOfRounds(t) => r.round < MaxRounds)
    BY <1>0, <1>1, <1>2, <1>7 DEF CallLLM, TurnAt, TurnOK, OutOfRounds
  <2> QED
    BY <1>4, <1>5, <1>7, <2>1 DEF CallLLM
<1>8. CASE ModelAnswers(t)
  <2>1. r.pc = "answer" /\ r.mode = "chat" /\ r.round < MaxRounds
    BY <1>1, <1>8 DEF ModelAnswers, TurnAt, TurnOK
  <2>2. ASSUME NEW calls, turns' = [turns EXCEPT ![t].pc = "tools", ![t].todo = calls] PROVE \E s : Goes(t, s)
    <3>1. PICK s : s = [r EXCEPT !.pc = "tools", !.todo = calls]
      OBVIOUS
    <3>2. turns' = [turns EXCEPT ![t] = s]
      BY <1>3, <2>2, <3>1
    <3>3. "tools" \in TurnPcs
      BY DEF TurnPcs
    <3>4. /\ TurnTyped(s) /\ s.kind = r.kind /\ s.src = r.src /\ s.pc = "tools"
          /\ s.round = r.round /\ s.n = r.n /\ s.mode = r.mode
      <4>1. Becomes(s, r, "tools", r.ok, r.round, r.n, r.mode)
        BY <1>1, <3>1, <3>3, TodoSet
      <4> QED
        BY <4>1 DEF Becomes
    <3>5. Goes(t, s)
      BY <1>1, <2>1, <3>2, <3>4, <1>s, GoesIfOK DEF TurnOK, Counts
    <3> QED
      BY <3>5
  <2> QED
    BY <1>4, <1>8, <2>1, <2>2 DEF ModelAnswers
<1>9. ASSUME NEW pc \in {"llm", "step"}, NEW s,
             s = [r EXCEPT !.pc = pc, !.round = r.round + 1] \/ (pc = r.pc /\ s = [r EXCEPT !.round = r.round + 1]),
             turns' = [turns EXCEPT ![t] = s],
             pc = "llm" => r.pc = "tools", pc = "step" => r.pc = "step" /\ r.round < deployment.steps
      PROVE  Goes(t, s)
  <2>1. pc \in TurnPcs /\ r.round + 1 \in Nat
    BY <1>2 DEF TurnPcs
  <2>2. PICK u \in Nat : u = r.round + 1
    BY <2>1
  <2>3. /\ TurnTyped(s) /\ s.kind = r.kind /\ s.src = r.src /\ s.pc = pc /\ s.ok = r.ok
        /\ s.round = u /\ s.n = r.n /\ s.mode = r.mode
    <3>1. CASE s = [r EXCEPT !.pc = pc, !.round = u]
      <4>1. Becomes(s, r, pc, r.ok, u, r.n, r.mode)
        BY <1>1, <2>1, <3>1, PcRoundSet
      <4> QED
        BY <4>1 DEF Becomes
    <3>2. CASE pc = r.pc /\ s = [r EXCEPT !.round = u]
      <4>1. Becomes(s, r, r.pc, r.ok, u, r.n, r.mode)
        BY <1>1, <3>2, RoundSet
      <4> QED
        BY <3>2, <4>1 DEF Becomes
    <3> QED
      BY <1>9, <2>2, <3>1, <3>2
  <2>4. /\ r.mode = "chat" => pc = "llm" /\ r.round < MaxRounds
        /\ r.mode = "workflow" => pc = "step"
    BY <1>1, <1>2, <1>9 DEF TurnOK
  <2>5. /\ s.mode = "chat" => s.round <= MaxRounds
        /\ s.mode = "workflow" => s.round <= deployment.steps
    BY <1>0, <1>2, <1>9, <2>2, <2>3, <2>4
  <2>6. Counts(s)
    BY <1>1, <1>9, <2>3 DEF TurnOK, Counts
  <2> QED
    BY <1>2, <1>9, <2>3, <2>4, <2>5, <2>6, <1>s, GoesIfOK
<1>10. CASE NextToolCall(t) /\ turns[t].todo = <<>>
  <2>1. r.pc = "tools" /\ turns' = [turns EXCEPT ![t].pc = "llm", ![t].round = @ + 1]
    BY <1>10 DEF NextToolCall, TurnAt
  <2>2. PICK s : s = [r EXCEPT !.pc = "llm", !.round = r.round + 1]
    OBVIOUS
  <2>3. turns' = [turns EXCEPT ![t] = s]
    BY <1>3, <2>1, <2>2
  <2> QED
    BY <1>9, <2>1, <2>2, <2>3
<1>11. CASE WorkflowStep(t) /\ dispatch' = dispatch
  <2>1. r.pc = "step"
    BY <1>11 DEF WorkflowStep, TurnAt
  <2>2. ASSUME NEW calls, DispatchToolCall(t, calls[1], r.n + 1) PROVE FALSE
    <3>1. dispatch[t] = NoCall
      BY <2>2 DEF DispatchToolCall
    <3>2. PICK c : /\ dispatch' = [dispatch EXCEPT ![t] = c]
                   /\ \E pc, call, m, cfg : c = [pc |-> pc, call |-> call, n |-> m, cfg |-> cfg]
      BY <2>2 DEF DispatchToolCall
    <3>3. t \in Executors
      BY TurnsAssumption DEF TurnsInv
    <3>4. PICK pc, call, m, cfg : c = [pc |-> pc, call |-> call, n |-> m, cfg |-> cfg]
      BY <3>2
    <3>5. DOMAIN c # DOMAIN NoCall
      <4>1. "n" \in DOMAIN c
        BY <3>4
      <4>2. "n" \notin DOMAIN NoCall
        BY DEF NoCall
      <4> QED
        BY <4>1, <4>2
    <3>6. dispatch'[t] = c
      BY <3>2, <3>3 DEF GateInv, GateShape
    <3> QED
      BY <1>11, <3>1, <3>5, <3>6
  <2>3. ASSUME turns' = [turns EXCEPT ![t].round = @ + 1], r.round < deployment.steps PROVE \E s : Goes(t, s)
    <3>1. PICK s : s = [r EXCEPT !.round = r.round + 1]
      OBVIOUS
    <3>2. turns' = [turns EXCEPT ![t] = s]
      BY <1>3, <2>3, <3>1
    <3> QED
      BY <1>9, <2>1, <2>3, <3>1, <3>2
  <2>4. ASSUME turns' = [turns EXCEPT ![t].pc = "end", ![t].ok = FALSE] PROVE \E s : Goes(t, s)
    BY <1>4, <2>1, <2>4 DEF TurnEnds
  <2>5. ASSUME TurnEnds(t, TRUE) PROVE \E s : Goes(t, s)
    BY <1>4, <2>1, <2>5
  <2> QED
    BY <1>11, <2>1, <2>2, <2>3, <2>4, <2>5 DEF WorkflowStep
<1> QED
  BY <1>6, <1>7, <1>8, <1>10, <1>11 DEF BeginTurn, CallLLM, ModelAnswers, NextToolCall, WorkflowStep, TurnAt

\* A call starts.
LEMMA CallStarts ==
    ASSUME GateInv, NEW e \in Executors, NEW call, NEW n, DispatchToolCall(e, call, n)
    PROVE  /\ dispatch[e] = NoCall /\ dispatch'[e] # NoCall /\ dispatch'[e].n = n
           /\ dispatch'[e].pc \in {"evaluate", "failed"}
           /\ \A f \in Executors \ {e} : dispatch'[f] = dispatch[f]
<1>1. PICK pc : pc = IF call.valid THEN "evaluate" ELSE "failed"
  OBVIOUS
<1>2. pc \in {"evaluate", "failed"}
  BY <1>1
<1>3. PICK c : c = [pc |-> pc, call |-> call, n |-> n, cfg |-> config]
  OBVIOUS
<1>4. dispatch[e] = NoCall /\ dispatch' = [dispatch EXCEPT ![e] = c]
  BY <1>1, <1>3 DEF DispatchToolCall
<1>5. c.pc = pc /\ c.n = n /\ c # NoCall
  <2>1. c.pc = pc /\ c.n = n
    BY <1>3
  <2> QED
    BY <1>2, <2>1 DEF NoCall
<1>6. dispatch'[e] = c /\ \A f \in Executors \ {e} : dispatch'[f] = dispatch[f]
  BY <1>4 DEF GateInv, GateShape
<1> QED
  BY <1>2, <1>4, <1>5, <1>6

\* A call of a turn starts.
LEMMA CallTurnSteps ==
    ASSUME TurnsInv, ConfigInv, GateInv, NEW t \in Under,
           \/ NextToolCall(t) /\ turns[t].todo # <<>>
           \/ WorkflowStep(t) /\ \E call : DispatchToolCall(t, call, turns[t].n + 1)
    PROVE  turns[t].pc # "done" /\ \E s : Goes(t, s)
<1> DEFINE r == turns[t]
<1>0. MaxRounds \in Nat /\ deployment.steps \in Nat /\ t \in Executors
  BY TurnsAssumption DEF ConfigInv, TurnsInv
<1>1. TurnsShape /\ TurnTyped(r) /\ TurnOK(r, dispatch[t], deployment.steps)
  BY DEF TurnsInv, TurnOK
<1>2. r.ok \in BOOLEAN /\ r.round \in Nat /\ r.n \in Nat /\ r.mode \in {"chat", "workflow"} /\ r.pc \in TurnPcs
  BY <1>1 DEF TurnTyped
<1>3. PICK m \in Nat : turns = [i \in 1..m |-> turns[i]] /\ t \in 1..m
  BY <1>1 DEF TurnsShape, Under
<1>4. PICK u \in Nat : u = r.n + 1
  BY <1>2
<1>5. "tool" \in TurnPcs
  BY DEF TurnPcs
<1>6. ASSUME NEW call, DispatchToolCall(t, call, u), NEW s, NEW round \in Nat, r.pc \in {"tools", "step"},
             turns' = [turns EXCEPT ![t] = s], Becomes(s, r, "tool", r.ok, round, u, r.mode),
             r.mode = "chat" => round < MaxRounds, r.mode = "workflow" => round <= deployment.steps
      PROVE  Goes(t, s)
  <2>1. /\ dispatch'[t] # NoCall /\ dispatch'[t].n = u
        /\ \A f \in Executors \ {t} : dispatch'[f] = dispatch[f]
    BY <1>0, <1>6, CallStarts
  <2>2. /\ TurnTyped(s) /\ s.kind = r.kind /\ s.src = r.src /\ s.pc = "tool" /\ s.ok = r.ok
        /\ s.round = round /\ s.n = u /\ s.mode = r.mode
    BY <1>6 DEF Becomes
  <2>3. Counts(r)
    BY <1>1, <1>6 DEF TurnOK
  <2>4. Counts(s)
    BY <2>2, <2>3 DEF Counts
  <2>5. TurnOK(s, dispatch'[t], deployment.steps)
    BY <1>0, <1>6, <2>1, <2>2, <2>4 DEF TurnOK
  <2>6. r.n <= s.n /\ r.n < dispatch'[t].n
    BY <1>2, <1>4, <2>1, <2>2
  <2> QED
    BY <1>6, <2>1, <2>2, <2>3, <2>5, <2>6 DEF Goes
<1>7. CASE NextToolCall(t) /\ r.todo # <<>>
  <2>1. /\ r.pc = "tools" /\ DispatchToolCall(t, Head(r.todo), u)
        /\ turns' = [turns EXCEPT ![t].pc = "tool", ![t].todo = Tail(@), ![t].n = @ + 1]
    BY <1>4, <1>7 DEF NextToolCall, TurnAt
  <2>2. PICK todo : todo = Tail(r.todo)
    OBVIOUS
  <2>3. PICK s : s = [r EXCEPT !.pc = "tool", !.todo = todo, !.n = u]
    OBVIOUS
  <2>4. turns' = [turns EXCEPT ![t] = s]
    BY <1>3, <1>4, <2>1, <2>2, <2>3
  <2>5. Becomes(s, r, "tool", r.ok, r.round, u, r.mode)
    BY <1>1, <1>5, <2>3, CallSet
  <2>6. r.mode = "chat" /\ r.round < MaxRounds
    BY <1>1, <2>1 DEF TurnOK
  <2>7. Goes(t, s)
    BY <1>2, <1>6, <2>1, <2>4, <2>5, <2>6
  <2> QED
    BY <2>1, <2>7
<1>8. CASE WorkflowStep(t) /\ \E call : DispatchToolCall(t, call, r.n + 1)
  <2>1. r.pc = "step" /\ r.mode = "workflow"
    BY <1>1, <1>8 DEF WorkflowStep, TurnAt, TurnOK
  <2>2. PICK c0 : DispatchToolCall(t, c0, u)
    BY <1>4, <1>8
  <2>3. dispatch'[t] # NoCall /\ dispatch[t] = NoCall
    BY <1>0, <2>2, CallStarts
  <2>4. dispatch' # dispatch
    BY <2>3
  <2>5. /\ r.round < deployment.steps
        /\ turns' = [turns EXCEPT ![t].pc = "tool", ![t].round = @ + 1, ![t].n = @ + 1]
    BY <1>8, <2>4 DEF WorkflowStep, gateVars
  <2>6. PICK v \in Nat : v = r.round + 1
    BY <1>2
  <2>7. PICK s : s = [r EXCEPT !.pc = "tool", !.round = v, !.n = u]
    OBVIOUS
  <2>8. turns' = [turns EXCEPT ![t] = s]
    BY <1>3, <1>4, <2>5, <2>6, <2>7
  <2>9. Becomes(s, r, "tool", r.ok, v, u, r.mode)
    BY <1>1, <1>5, <2>7, StepSet
  <2>10. v <= deployment.steps
    BY <1>0, <1>2, <2>5, <2>6
  <2>11. Goes(t, s)
    BY <1>6, <2>1, <2>2, <2>8, <2>9, <2>10
  <2> QED
    BY <2>1, <2>11
<1> QED
  BY <1>7, <1>8

\* A call of a turn returns.
LEMMA ReturnTurnStep ==
    ASSUME TurnsInv, ConfigInv, GateInv, CallsTyped, NEW t \in Under, ToolReturns(t)
    PROVE  turns[t].pc # "done" /\ \E s : Goes(t, s)
<1> DEFINE r == turns[t]
<1>0. t \in Executors
  BY TurnsAssumption DEF TurnsInv
<1>1. TurnsShape /\ TurnTyped(r) /\ TurnOK(r, dispatch[t], deployment.steps)
  BY DEF TurnsInv, TurnOK
<1>2. r.ok \in BOOLEAN /\ r.round \in Nat /\ r.n \in Nat /\ r.mode \in {"chat", "workflow"} /\ r.pc = "tool"
  BY <1>1 DEF TurnTyped, ToolReturns, TurnAt
<1>3. PICK m \in Nat : turns = [i \in 1..m |-> turns[i]] /\ t \in 1..m
  BY <1>1 DEF TurnsShape, Under
<1>4. /\ dispatch'[t] = NoCall /\ \A f \in Executors \ {t} : dispatch'[f] = dispatch[f]
      /\ dispatch'[t].pc \notin Live
  BY <1>0 DEF ToolReturns, GateInv, GateShape, NoCall, Live
<1>5. Counts(r) /\ dispatch[t] # NoCall /\ dispatch[t].n = r.n /\ r.n \in Nat \ {0}
  BY <1>0, <1>1, <1>2 DEF TurnOK, CallsTyped
<1>6. ASSUME NEW n \in Nat, NEW ok \in BOOLEAN, NEW pc \in TurnPcs,
             turns' = [turns EXCEPT ![t].n = n, ![t].ok = ok, ![t].pc = pc],
             \/ r.mode = "chat" /\ n = r.n /\ pc = "tools"
             \/ r.mode = "workflow" /\ ok = TRUE /\ n = r.n /\ pc = "step"
             \/ r.mode = "workflow" /\ ok = FALSE /\ pc = "end"
      PROVE  \E s : Goes(t, s)
  <2>1. PICK s : s = [r EXCEPT !.n = n, !.ok = ok, !.pc = pc]
    OBVIOUS
  <2>2. turns' = [turns EXCEPT ![t] = s]
    BY <1>3, <1>6, <2>1
  <2>3. Becomes(s, r, pc, ok, r.round, n, r.mode)
    BY <1>1, <2>1, ReturnSet
  <2>4. /\ TurnTyped(s) /\ s.kind = r.kind /\ s.src = r.src /\ s.pc = pc /\ s.ok = ok
        /\ s.round = r.round /\ s.n = n /\ s.mode = r.mode
    BY <2>3 DEF Becomes
  <2>5. /\ Counts(s) => n = r.n
        /\ Counts(s) \/ pc = "end"
    <3>1. CASE r.mode = "chat" /\ n = r.n
      BY <2>4, <3>1 DEF Counts
    <3>2. CASE r.mode = "workflow" /\ ok = TRUE /\ n = r.n
      BY <2>4, <3>2 DEF Counts
    <3>3. CASE r.mode = "workflow" /\ ok = FALSE /\ pc = "end"
      <4>1. s.ok = FALSE
        BY <2>4, <3>3, Zenon
      <4> QED
        BY <2>4, <3>3, <4>1 DEF Counts
    <3> QED
      BY <1>6, <3>1, <3>2, <3>3
  <2>6. TurnOK(s, dispatch'[t], deployment.steps)
    BY <1>1, <1>2, <1>4, <1>6, <2>4, <2>5 DEF TurnOK
  <2>7. Counts(s) => r.n <= s.n
    BY <1>2, <2>4, <2>5
  <2>8. Goes(t, s)
    BY <1>4, <1>5, <2>2, <2>4, <2>6, <2>7 DEF Goes
  <2> QED
    BY <2>8
<1>7. PICK n, ok, pc :
         /\ n = CallsAfter(t) /\ ok = (r.mode = "chat" \/ dispatch[t].pc = "ok")
         /\ pc = IF r.mode = "chat" THEN "tools" ELSE IF dispatch[t].pc = "ok" THEN "step" ELSE "end"
  OBVIOUS
<1>8. turns' = [turns EXCEPT ![t].n = n, ![t].ok = ok, ![t].pc = pc]
  BY <1>7 DEF ToolReturns
<1>9. pc \in TurnPcs /\ n \in Nat /\ ok \in BOOLEAN
  BY <1>2, <1>5, <1>7 DEF TurnPcs, CallsAfter
<1>10. \/ r.mode = "chat" /\ n = r.n /\ pc = "tools"
       \/ r.mode = "workflow" /\ ok = TRUE /\ n = r.n /\ pc = "step"
       \/ r.mode = "workflow" /\ ok = FALSE /\ pc = "end"
  BY <1>2, <1>7 DEF CallsAfter
<1> QED
  BY <1>2, <1>6, <1>8, <1>9, <1>10

\* A row is added to the log as running.
LEMMA LogAdded ==
    ASSUME LogInv, NEW t, t \in Under', LogTurn(t), Under \subseteq Under',
           \A s \in Under : turns[s].pc = "done" => turns'[s] = turns[s]
    PROVE  LogInv'
<1>1. CASE UNCHANGED turnLog
  BY <1>1, LogSame
<1>2. CASE turnLog' = [s \in DOMAIN turnLog \cup {t} |->
                          IF s = t THEN [result |-> "running", calls |-> 0] ELSE turnLog[s]]
  <2>1. PICK row : row = [result |-> "running", calls |-> 0]
    OBVIOUS
  <2>2. row.result = "running"
    BY <2>1
  <2>3. /\ DOMAIN turnLog' = DOMAIN turnLog \cup {t} /\ turnLog'[t] = row
        /\ \A s \in DOMAIN turnLog \ {t} : turnLog'[s] = turnLog[s]
    BY <1>2, <2>1
  <2>4. RowOK(turnLog'[t], turns'[t])
    BY <2>2, <2>3 DEF RowOK
  <2>5. ASSUME NEW s \in DOMAIN turnLog \ {t} PROVE RowOK(turnLog'[s], turns'[s])
    BY <2>3 DEF LogInv, RowOK
  <2>6. DOMAIN turnLog' \subseteq Under'
    BY <2>3 DEF LogInv
  <2> QED
    BY <2>3, <2>4, <2>5, <2>6 DEF LogInv
<1> QED
  BY <1>1, <1>2 DEF LogTurn

\* A turn of an event starts, or is dropped.
LEMMA EventTurnStep ==
    ASSUME TurnsInv, ConfigInv, NEW t \in Under, RunEventTurn(t)
    PROVE  turns[t].pc = "event" /\ \E s : Goes(t, s)
<1> DEFINE r == turns[t]
<1>0. MaxRounds \in Nat /\ deployment.steps \in Nat
  BY TurnsAssumption DEF ConfigInv
<1>1. TurnsShape /\ TurnTyped(r) /\ TurnOK(r, dispatch[t], deployment.steps)
  BY DEF TurnsInv, TurnOK
<1>2. r.pc = "event" /\ r.round = 0 /\ dispatch' = dispatch /\ dispatch[t] = NoCall /\ r.n \in Nat /\ Counts(r)
  BY <1>1 DEF RunEventTurn, TurnAt, TurnOK, TurnTyped, gateVars
<1>3. PICK m \in Nat : turns = [i \in 1..m |-> turns[i]] /\ t \in 1..m
  BY <1>1 DEF TurnsShape, Under
<1>4. ASSUME NEW s, NEW pc \in {"done", "end", "begin"}, NEW ok \in BOOLEAN, NEW mode \in {"chat", "workflow"},
             turns' = [turns EXCEPT ![t] = s], Becomes(s, r, pc, ok, r.round, r.n, mode),
             pc = "begin" => ok = TRUE
      PROVE  Goes(t, s)
  <2>1. /\ TurnTyped(s) /\ s.kind = r.kind /\ s.src = r.src /\ s.pc = pc /\ s.ok = ok
        /\ s.round = r.round /\ s.n = r.n /\ s.mode = mode
    BY <1>4 DEF Becomes
  <2>2. pc = "begin" => Counts(s)
    BY <1>4, <2>1 DEF Counts
  <2>3. TurnOK(s, dispatch'[t], deployment.steps)
    BY <1>0, <1>2, <2>1, <2>2 DEF TurnOK
  <2>4. r.n <= s.n /\ dispatch'[t].pc \notin Live
    BY <1>2, <2>1 DEF NoCall, Live
  <2> QED
    BY <1>2, <1>4, <2>1, <2>3, <2>4 DEF Goes
<1>5. CASE TurnGoes(t, "done")
  <2>1. PICK s : s = [r EXCEPT !.pc = "done"]
    OBVIOUS
  <2>2. turns' = [turns EXCEPT ![t] = s]
    BY <1>3, <1>5, <2>1 DEF TurnGoes
  <2>3. Becomes(s, r, "done", r.ok, r.round, r.n, r.mode)
    BY <1>1, <2>1, PcSet DEF TurnPcs
  <2>4. r.ok \in BOOLEAN /\ r.mode \in {"chat", "workflow"}
    BY <1>1 DEF TurnTyped
  <2>5. Goes(t, s)
    BY <1>4, <2>2, <2>3, <2>4
  <2> QED
    BY <1>2, <2>5
<1>6. CASE ~TurnGoes(t, "done")
  <2>1. PICK match : match = MatchGatewayProtocol(config)
    OBVIOUS
  <2>2. PICK mode, ok, pc : /\ mode = ModeOf(match) /\ ok = (match # "reject")
                            /\ pc = IF match = "reject" THEN "end" ELSE "begin"
    OBVIOUS
  <2>3. turns' = [turns EXCEPT ![t].mode = mode, ![t].ok = ok, ![t].pc = pc]
    BY <1>6, <2>1, <2>2 DEF RunEventTurn
  <2>4. mode \in {"chat", "workflow"} /\ ok \in BOOLEAN /\ pc \in {"end", "begin"} /\ pc \in TurnPcs
    BY <2>2 DEF ModeOf, TurnPcs
  <2>5. pc = "begin" => ok = TRUE
    BY <2>2
  <2>6. PICK s : s = [r EXCEPT !.mode = mode, !.ok = ok, !.pc = pc]
    OBVIOUS
  <2>7. turns' = [turns EXCEPT ![t] = s]
    BY <1>3, <2>3, <2>6
  <2>8. Becomes(s, r, pc, ok, r.round, r.n, mode)
    BY <1>1, <2>4, <2>6, EventSet
  <2>9. Goes(t, s)
    BY <1>4, <2>4, <2>5, <2>7, <2>8
  <2> QED
    BY <1>2, <2>9
<1> QED
  BY <1>5, <1>6

\* A turn ends: its row has its count and its outcome.
LEMMA EndTurnStep ==
    ASSUME TurnsInv, EffectInv, LogInv, SyncInv, KeyInv, NEW t \in Under, EndTurn(t)
    PROVE  TurnsInv' /\ EffectInv' /\ LogInv' /\ SyncInv' /\ KeyInv'
<1> DEFINE r == turns[t]
<1>1. TurnsShape /\ TurnTyped(r) /\ TurnOK(r, dispatch[t], deployment.steps)
  BY DEF TurnsInv, TurnOK
<1>2. r.pc = "end" /\ dispatch' = dispatch /\ dispatch[t] = NoCall /\ r.n \in Nat
  BY <1>1 DEF EndTurn, TurnAt, TurnOK, TurnTyped, gateVars
<1>3. PICK m \in Nat : turns = [i \in 1..m |-> turns[i]] /\ t \in 1..m
  BY <1>1 DEF TurnsShape, Under
<1>4. PICK s : s = [r EXCEPT !.pc = "done"]
  OBVIOUS
<1>5. turns' = [turns EXCEPT ![t] = s]
  BY <1>3, <1>4 DEF EndTurn, TurnGoes
<1>6. Becomes(s, r, "done", r.ok, r.round, r.n, r.mode)
  BY <1>1, <1>4, PcSet DEF TurnPcs
<1>7. /\ TurnTyped(s) /\ s.kind = r.kind /\ s.src = r.src /\ s.pc = "done" /\ s.ok = r.ok
      /\ s.round = r.round /\ s.n = r.n /\ s.mode = r.mode
  BY <1>6 DEF Becomes
<1>8. Goes(t, s)
  <2>1. TurnOK(s, dispatch'[t], deployment.steps)
    BY <1>1, <1>2, <1>7 DEF TurnOK
  <2>2. r.n <= s.n /\ dispatch'[t].pc \notin Live
    BY <1>2, <1>7 DEF NoCall, Live
  <2>3. Counts(s) => Counts(r)
    BY <1>7 DEF Counts
  <2> QED
    BY <1>2, <1>5, <1>7, <2>1, <2>2, <2>3 DEF Goes
<1>9. UNCHANGED <<deployment, effects, control, cache, shaky, sent, stale>>
  BY DEF EndTurn, gateVars, controlVars
<1>10. /\ TurnsInv' /\ EffectInv' /\ KeyInv' /\ Under' = Under /\ turns'[t] = s
       /\ \A q \in Under \ {t} : turns'[q] = turns[q]
       /\ \A q \in Under : turns'[q].kind = turns[q].kind /\ turns'[q].src = turns[q].src
  BY <1>8, <1>9, GoesCore
<1>11. LogInv'
  <2>1. CASE t \notin DOMAIN turnLog
    <3>1. turnLog' = turnLog
      BY <2>1 DEF EndTurn, FinishTurn
    <3> QED
      BY <1>2, <1>10, <3>1, LogSame
  <2>2. CASE t \in DOMAIN turnLog
    <3>1. PICK row : row = [result |-> IF r.ok THEN "success" ELSE "error", calls |-> r.n]
      OBVIOUS
    <3>2. turnLog' = [turnLog EXCEPT ![t] = row]
      BY <2>2, <3>1 DEF EndTurn, FinishTurn
    <3>3. PICK b \in BOOLEAN : b = r.ok
      BY <1>1 DEF TurnTyped
    <3>4. row = [result |-> IF b THEN "success" ELSE "error", calls |-> r.n]
      BY <3>1, <3>3, Zenon
    <3>5. row.calls = r.n /\ row.result = IF b THEN "success" ELSE "error"
      BY <3>4
    <3>6. row.result = IF s.ok = TRUE THEN "success" ELSE "error"
      <4>1. s.ok = b
        BY <1>7, <3>3, Zenon
      <4> QED
        BY <3>5, <4>1
    <3>7. RowOK(row, s)
      BY <1>7, <3>5, <3>6 DEF RowOK
    <3>8. /\ DOMAIN turnLog' = DOMAIN turnLog /\ turnLog'[t] = row
          /\ \A q \in DOMAIN turnLog \ {t} : turnLog'[q] = turnLog[q]
      BY <2>2, <3>2
    <3>9. ASSUME NEW q \in DOMAIN turnLog PROVE RowOK(turnLog'[q], turns'[q])
      <4>1. CASE q = t
        BY <1>10, <3>7, <3>8, <4>1
      <4>2. CASE q # t
        BY <1>10, <3>8, <4>2 DEF LogInv
      <4> QED
        BY <4>1, <4>2
    <3> QED
      BY <1>10, <3>8, <3>9 DEF LogInv
  <2> QED
    BY <2>1, <2>2
<1>12. SyncInv'
  <2>1. CASE sync' = sync
    BY <1>9, <1>10, <2>1, SyncSame
  <2>2. CASE sync' = [sync EXCEPT !.pc = "idle"]
    <3>1. DOMAIN sync = {"seen", "pc"}
      BY DEF SyncInv
    <3>2. DOMAIN sync' = {"seen", "pc"} /\ sync'.seen = sync.seen /\ sync'.pc = "idle"
      BY <2>2, <3>1
    <3> QED
      BY <1>9, <1>10, <3>2 DEF SyncInv, OneTurnPerMessage
  <2> QED
    BY <2>1, <2>2 DEF EndTurn
<1> QED
  BY <1>10, <1>11, <1>12

\* A turn begins.
LEMMA TurnBegins ==
    ASSUME TurnsInv, EffectInv, KeyInv, ConfigInv, NextTurn \in Turns,
           NEW kind \in {"message", "event"}, NEW src, NEW pc \in {"begin", "event"}, NEW mode \in {"chat", "workflow"},
           turns' = Append(turns, NewTurn(kind, src, pc, mode)),
           UNCHANGED <<deployment, dispatch, effects, control, cache, shaky>>
    PROVE  /\ TurnsInv' /\ EffectInv' /\ KeyInv'
           /\ Under' = Under \cup {NextTurn} /\ NextTurn \notin Under
           /\ turns'[NextTurn].kind = kind /\ turns'[NextTurn].src = src
           /\ \A s \in Under : turns'[s] = turns[s]
<1>1. PICK r : r = NewTurn(kind, src, pc, mode)
  OBVIOUS
<1>2. /\ DOMAIN r = Fields /\ r.kind = kind /\ r.src = src /\ r.pc = pc /\ r.mode = mode
      /\ r.round = 0 /\ r.n = 0 /\ r.ok = TRUE
  BY <1>1 DEF NewTurn, Fields
<1>3. TurnTyped(r)
  <2>1. r.ok \in BOOLEAN
    BY <1>2, Zenon
  <2>2. r.pc \in TurnPcs
    BY <1>2 DEF TurnPcs
  <2>3. r.round \in Nat /\ r.n \in Nat
    BY <1>2
  <2> QED
    BY <1>2, <2>1, <2>2, <2>3 DEF TurnTyped
<1>4. MaxRounds \in Nat /\ deployment.steps \in Nat
  BY TurnsAssumption DEF ConfigInv
<1>5. TurnOK(r, NoCall, deployment.steps)
  BY <1>2, <1>3, <1>4 DEF TurnOK, Counts
<1>6. PICK new : new = NextTurn
  OBVIOUS
<1>7. /\ TurnsShape' /\ DOMAIN turns' = Under \cup {new} /\ turns'[new] = r
      /\ new \notin Under /\ new \in Turns
      /\ \A s \in Under : turns'[s] = turns[s]
  BY <1>1, <1>6, TurnAdded DEF TurnsInv
<1>8. Under' = Under \cup {new}
  BY <1>7 DEF Under
<1>9. TurnsInv'
  <2>1. ASSUME NEW s \in Under \cup {new} PROVE TurnOK(turns'[s], dispatch'[s], deployment.steps)
    <3>1. CASE s = new
      BY <1>5, <1>7, <3>1 DEF TurnsInv
    <3>2. CASE s # new
      BY <1>7, <3>2 DEF TurnsInv
    <3> QED
      BY <3>1, <3>2
  <2> QED
    BY <1>7, <1>8, <2>1 DEF TurnsInv
<1>10. EffectInv'
  <2>1. ASSUME NEW x \in effects, dispatch'[x.by].pc \in Live PROVE x.n # dispatch'[x.by].n
    BY <2>1 DEF EffectInv
  <2>2. ASSUME NEW s \in Under, Counts(turns'[s])
        PROVE  Counts(turns[s]) /\ \A m \in Nat : m <= turns[s].n => m <= turns'[s].n
    BY <1>7, <2>2
  <2> QED
    BY <1>8, <2>1, <2>2, EffectsKept
<1>11. KeyInv'
  BY KeysSame DEF Acts
<1> QED
  BY <1>2, <1>6, <1>7, <1>8, <1>9, <1>10, <1>11

\* Admission of the next message.
LEMMA SyncGoesOn ==
    ASSUME SyncInv, NEW seen, NEW pc \in {"idle", "sender", "match", "turn"},
           UNCHANGED <<deployment, sent, stale, turns>>,
           DOMAIN sync' = {"seen", "pc"}, sync'.seen = seen, sync'.pc = pc,
           \/ seen = sync.seen /\ (pc \in {"sender", "match"} => sync.pc \in {"sender", "match"})
           \/ seen = sync.seen + 1 /\ sync.seen < sent /\ (pc \in {"sender", "match"} => seen > stale)
    PROVE  SyncInv'
<1>0. Under' = Under
  BY DEF Under
<1>1. CASE seen = sync.seen /\ (pc \in {"sender", "match"} => sync.pc \in {"sender", "match"})
  BY <1>0, <1>1 DEF SyncInv, OneTurnPerMessage
<1>2. CASE seen = sync.seen + 1 /\ sync.seen < sent /\ (pc \in {"sender", "match"} => seen > stale)
  <2>1. sync.seen \in Nat /\ sent \in Nat /\ stale \in Nat /\ seen \in Nat /\ seen <= sent
    BY <1>2 DEF SyncInv
  <2>2. ASSUME NEW t \in Under, turns[t].kind = "message"
        PROVE  /\ turns[t].src \in Nat /\ (turns[t].src <= stale \/ turns[t].src <= seen)
               /\ pc \in {"sender", "match"} => turns[t].src < seen
    <3>1. turns[t].src \in Nat /\ (turns[t].src <= stale \/ turns[t].src <= sync.seen)
      BY <2>2 DEF SyncInv
    <3> QED
      BY <1>2, <2>1, <3>1
  <2> QED
    BY <1>0, <1>2, <2>1, <2>2 DEF SyncInv, OneTurnPerMessage
<1> QED
  BY <1>1, <1>2

LEMMA SyncStep ==
    ASSUME TurnsInv, EffectInv, LogInv, SyncInv, KeyInv, ConfigInv, SyncSteps
    PROVE  TurnsInv' /\ EffectInv' /\ LogInv' /\ SyncInv' /\ KeyInv'
<1>0. UNCHANGED <<deployment, dispatch, effects, control, cache, shaky, sent, stale>>
  BY DEF SyncSteps, HandleMessage, CheckSender, MatchMessage, syncSame, gateVars, controlVars
<1>1. DOMAIN sync = {"seen", "pc"}
  BY DEF SyncInv
<1>2. ASSUME UNCHANGED turnVars, SyncInv' PROVE TurnsInv' /\ EffectInv' /\ LogInv' /\ SyncInv' /\ KeyInv'
  <2>1. UNCHANGED <<turns, turnLog>> /\ Under' = Under
    BY <1>2 DEF turnVars, Under
  <2>2. TurnsInv'
    BY <1>0, <2>1, TurnsSame
  <2>3. EffectInv'
    <3>1. ASSUME NEW x \in effects, dispatch'[x.by].pc \in Live PROVE x.n # dispatch'[x.by].n
      BY <1>0, <3>1 DEF EffectInv
    <3> QED
      BY <1>0, <2>1, <3>1, EffectsKept
  <2>4. LogInv' /\ KeyInv'
    BY <1>0, <2>1, LogSame, KeysSame DEF Acts
  <2> QED
    BY <1>2, <2>2, <2>3, <2>4
<1>3. ASSUME NEW pc \in {"idle", "match"}, SyncGoes(pc), UNCHANGED turnVars, sync.pc \in {"sender", "match"}
      PROVE  SyncInv'
  <2>1. DOMAIN sync' = {"seen", "pc"} /\ sync'.seen = sync.seen /\ sync'.pc = pc
    BY <1>1, <1>3 DEF SyncGoes
  <2> QED
    BY <1>0, <1>3, <2>1, SyncGoesOn DEF turnVars
<1>4. CASE HandleMessage
  <2>1. PICK pc : pc = IF IsStale(sync.seen + 1) \/ deployment.messages[sync.seen + 1].room \notin config.rooms
                       THEN "idle" ELSE "sender"
    OBVIOUS
  <2>2. sync' = [seen |-> sync.seen + 1, pc |-> pc]
    BY <1>4, <2>1 DEF HandleMessage
  <2>3. DOMAIN sync' = {"seen", "pc"} /\ sync'.seen = sync.seen + 1 /\ sync'.pc = pc
    BY <2>2
  <2>4. sync.seen < sent /\ UNCHANGED turnVars
    BY <1>4 DEF HandleMessage
  <2>5. pc \in {"idle", "sender"} /\ (pc = "sender" => sync.seen + 1 > stale)
    BY <2>1 DEF IsStale, SyncInv
  <2>6. SyncInv'
    BY <1>0, <2>3, <2>4, <2>5, SyncGoesOn DEF turnVars
  <2> QED
    BY <1>2, <2>4, <2>6
<1>5. CASE CheckSender
  <2>1. PICK pc : pc = IF Message.sender \in config.senders THEN "match" ELSE "idle"
    OBVIOUS
  <2>2. pc \in {"idle", "match"} /\ SyncGoes(pc) /\ UNCHANGED turnVars /\ sync.pc = "sender"
    BY <1>5, <2>1 DEF CheckSender
  <2> QED
    BY <1>2, <1>3, <2>2
<1>6. CASE MatchMessage
  <2>1. CASE SyncGoes("idle") /\ UNCHANGED turnVars
    BY <1>2, <1>3, <1>6, <2>1 DEF MatchMessage
  <2>2. CASE ~(SyncGoes("idle") /\ UNCHANGED turnVars)
    <3>1. PICK mode : mode = ModeOf(MatchInboundProtocol(config, Message))
      OBVIOUS
    <3>2. mode \in {"chat", "workflow"}
      BY <3>1 DEF ModeOf
    <3>3. /\ sync.pc = "match" /\ NextTurn \in Turns /\ LogTurn(NextTurn) /\ SyncGoes("turn")
          /\ turns' = Append(turns, NewTurn("message", sync.seen, "begin", mode))
      BY <1>6, <2>2, <3>1 DEF MatchMessage
    <3>4. PICK new : new = NextTurn
      OBVIOUS
    <3>5. /\ TurnsInv' /\ EffectInv' /\ KeyInv'
          /\ Under' = Under \cup {new} /\ new \notin Under
          /\ turns'[new].kind = "message" /\ turns'[new].src = sync.seen
          /\ \A s \in Under : turns'[s] = turns[s]
      BY <1>0, <3>2, <3>3, <3>4, TurnBegins
    <3>6. LogInv'
      BY <3>3, <3>4, <3>5, LogAdded
    <3>7. DOMAIN sync' = {"seen", "pc"} /\ sync'.seen = sync.seen /\ sync'.pc = "turn"
      BY <1>1, <3>3 DEF SyncGoes
    <3>8. /\ sync.seen \in Nat
          /\ \A t \in Under : turns[t].kind = "message" => turns[t].src \in Nat /\ turns[t].src < sync.seen
      BY <3>3 DEF SyncInv
    <3>9. OneTurnPerMessage'
      BY <3>5, <3>8 DEF SyncInv, OneTurnPerMessage
    <3>10. ASSUME NEW t \in Under', turns'[t].kind = "message"
           PROVE  turns'[t].src \in Nat /\ turns'[t].src <= sync.seen
      BY <3>5, <3>8, <3>10
    <3>11. SyncInv'
      BY <1>0, <3>7, <3>9, <3>10 DEF SyncInv
    <3> QED
      BY <3>5, <3>6, <3>11
  <2> QED
    BY <2>1, <2>2
<1> QED
  BY <1>4, <1>5, <1>6 DEF SyncSteps

\* An event is accepted, and its turn begins.
LEMMA EventBegins ==
    ASSUME TurnsInv, EffectInv, LogInv, SyncInv, KeyInv, ConfigInv, NEW d, NextTurn \in Turns,
           turns' = Append(turns, NewTurn("event", d, "event", "chat")),
           UNCHANGED <<deployment, dispatch, effects, turnLog, sync, sent, stale, control, cache, shaky>>
    PROVE  TurnsInv' /\ EffectInv' /\ LogInv' /\ SyncInv' /\ KeyInv'
<1>1. PICK new : new = NextTurn
  OBVIOUS
<1>2. /\ TurnsInv' /\ EffectInv' /\ KeyInv'
      /\ Under' = Under \cup {new} /\ new \notin Under
      /\ turns'[new].kind = "event"
      /\ \A s \in Under : turns'[s] = turns[s]
  BY <1>1, TurnBegins
<1>3. LogInv'
  BY <1>2, LogSame
<1>4. SyncInv'
  <2>1. \A s \in Under' : turns'[s].kind = "message" => s \in Under /\ turns'[s] = turns[s]
    BY <1>2
  <2>2. ASSUME NEW s \in Under', NEW t \in Under', turns'[s].kind = "message", turns'[t].kind = "message",
               turns'[s].src = turns'[t].src
        PROVE  s = t
    <3>1. s \in Under /\ t \in Under /\ turns'[s] = turns[s] /\ turns'[t] = turns[t]
      BY <2>1, <2>2
    <3> QED
      BY <2>2, <3>1 DEF SyncInv, OneTurnPerMessage
  <2>3. OneTurnPerMessage'
    BY <2>2 DEF OneTurnPerMessage
  <2> QED
    BY <2>1, <2>3 DEF SyncInv
<1> QED
  BY <1>2, <1>3, <1>4

\* The control requests.
LEMMA ControlSet ==
    ASSUME KeyInv, NEW c \in Calls, NEW state \in ControlStates, control' = [control EXCEPT ![c] = state]
    PROVE  /\ control' = [o \in Calls |-> control'[o]] /\ control'[c] = state
           /\ \A o \in Calls \ {c} : control'[o] = control[o]
           /\ \A o \in Calls : control'[o] \in ControlStates
<1>1. ASSUME NEW F, F = [control EXCEPT ![c] = state]
      PROVE  /\ F = [o \in Calls |-> F[o]] /\ F[c] = state
             /\ \A o \in Calls \ {c} : F[o] = control[o]
  BY <1>1 DEF KeyInv
<1>2. /\ control' = [o \in Calls |-> control'[o]] /\ control'[c] = state
      /\ \A o \in Calls \ {c} : control'[o] = control[o]
  BY <1>1
<1> QED
  BY <1>2 DEF KeyInv

LEMMA CacheSet ==
    ASSUME KeyInv, NEW c, Remember(c)
    PROVE  DOMAIN cache' = DOMAIN cache \cup {Key(c)} /\ \A k \in DOMAIN cache' : cache'[k] \in Nat
<1>1. PICK key : key = Key(c)
  OBVIOUS
<1>2. PICK C : C = cache'
  OBVIOUS
<1>3. C = [k \in DOMAIN cache \cup {key} |-> IF k = key THEN CacheTTL ELSE cache[k]]
  BY <1>1, <1>2 DEF Remember
<1>4. CacheTTL \in Nat
  BY TurnsAssumption
<1>5. ASSUME NEW k \in DOMAIN cache \cup {key} PROVE C[k] \in Nat
  <2>1. CASE k = key
    BY <1>3, <1>4, <2>1
  <2>2. CASE k # key
    BY <1>3, <2>2 DEF KeyInv
  <2> QED
    BY <2>1, <2>2
<1> QED
  BY <1>1, <1>2, <1>3, <1>5

\* The parts that a control request leaves alone, while the call of request c changes.
LEMMA ControlRest ==
    ASSUME TurnsInv, EffectInv, LogInv, SyncInv, NEW c \in Calls,
           \A e \in Executors \ {c} : dispatch'[e] = dispatch[e],
           dispatch'[c].pc \in Live => \A x \in effects : x.by # c \/ x.n # dispatch'[c].n,
           effects' = effects, UNCHANGED controlSame
    PROVE  TurnsInv' /\ EffectInv' /\ LogInv' /\ SyncInv'
<1>1. UNCHANGED <<deployment, turns, turnLog, sync, sent, stale>> /\ Under' = Under
  BY DEF controlSame, turnVars, syncVars, Under
<1>2. Turns \subseteq Executors \ {c}
  BY TurnsAssumption
<1>3. TurnsInv'
  BY <1>1, <1>2, TurnsSame
<1>4. EffectInv'
  <2>1. ASSUME NEW x \in effects, dispatch'[x.by].pc \in Live PROVE x.n # dispatch'[x.by].n
    BY <2>1 DEF EffectInv
  <2> QED
    BY <1>1, <2>1, EffectsKept
<1>5. LogInv' /\ SyncInv'
  BY <1>1, LogSame, SyncSame
<1> QED
  BY <1>3, <1>4, <1>5

\* A request that was not served before has not acted.
LEMMA UnsentIsIdle ==
    ASSUME KeyInv, NEW c \in Calls, control[c] = "unsent"
    PROVE  dispatch[c] = NoCall /\ ~Acts(c) /\ \A x \in effects : x.by # c
  BY DEF KeyInv, Acts

LEMMA ControlStep ==
    ASSUME TurnsInv, EffectInv, LogInv, SyncInv, KeyInv, GateInv, NEW c \in Calls, ControlSteps(c)
    PROVE  TurnsInv' /\ EffectInv' /\ LogInv' /\ SyncInv' /\ KeyInv'
<1>0. c \in Executors /\ Calls \subseteq Executors
  BY TurnsAssumption
<1>1. deployment' = deployment /\ effects' = effects /\ UNCHANGED controlSame
  BY DEF ControlSteps, HandleToolCall, AnswerToolCall, HandleRestart, controlSame, gateVars
<1>2. "ok" \in ControlStates /\ "served" \in ControlStates /\ "error" \in ControlStates
  BY DEF ControlStates
<1>3. \A o \in Calls : Key(o)' = Key(o)
  BY <1>1 DEF Key
<1>4. CASE HandleToolCall(c) /\ Replayed(c)
  <2>1. /\ control' = [control EXCEPT ![c] = "ok"] /\ UNCHANGED <<dispatch, shaky, cache>>
        /\ control[c] = "unsent" /\ c \in DOMAIN deployment.calls
    BY <1>4 DEF HandleToolCall, gateVars
  <2>2. dispatch[c] = NoCall /\ ~Acts(c) /\ \A x \in effects : x.by # c
    BY <2>1, UnsentIsIdle
  <2>3. /\ control' = [o \in Calls |-> control'[o]] /\ control'[c] = "ok"
        /\ \A o \in Calls \ {c} : control'[o] = control[o]
        /\ \A o \in Calls : control'[o] \in ControlStates
    BY <1>2, <2>1, ControlSet
  <2>4. \A o \in Calls : Acts(o)' => Acts(o) /\ o # c
    BY <1>1, <2>2, <2>3 DEF Acts
  <2>5. KeyInv'
    BY <1>1, <1>3, <2>1, <2>2, <2>3, <2>4 DEF KeyInv
  <2> QED
    BY <1>1, <2>1, <2>2, <2>5, ControlRest
<1>5. CASE HandleToolCall(c) /\ ~Replayed(c)
  <2>1. /\ control' = [control EXCEPT ![c] = "served"] /\ cache' = cache
        /\ control[c] = "unsent" /\ c \in DOMAIN deployment.calls /\ Key(c) \notin DOMAIN cache
        /\ DispatchToolCall(c, deployment.calls[c].call, 1)
    BY <1>5 DEF HandleToolCall, Replayed
  <2>2. dispatch[c] = NoCall /\ ~Acts(c) /\ \A x \in effects : x.by # c
    BY <2>1, UnsentIsIdle
  <2>3. /\ control' = [o \in Calls |-> control'[o]] /\ control'[c] = "served"
        /\ \A o \in Calls \ {c} : control'[o] = control[o]
        /\ \A o \in Calls : control'[o] \in ControlStates
    BY <1>2, <2>1, ControlSet
  <2>4. \A f \in Executors \ {c} : dispatch'[f] = dispatch[f]
    BY <1>0, <2>1, CallStarts
  <2>5. \A o \in Calls \ {c} : Acts(o)' => Acts(o)
    BY <1>1, <2>3 DEF Acts
  <2>6. shaky \subseteq shaky'
    BY <1>5 DEF HandleToolCall
  <2>7. ASSUME NEW o \in Calls \ {c}, Acts(o), Key(o) = Key(c) PROVE Key(c) \in shaky'
    <3>1. CASE control[o] = "served"
      <4>1. o \in DOMAIN deployment.calls
        BY <2>7, <3>1 DEF KeyInv
      <4> QED
        BY <1>5, <2>7, <3>1, <4>1 DEF HandleToolCall
    <3>2. CASE control[o] # "served"
      BY <2>1, <2>6, <2>7, <3>2 DEF KeyInv
    <3> QED
      BY <3>1, <3>2
  <2>8. ASSUME NEW o \in Calls, Acts(o)'
        PROVE  /\ control'[o] # "unsent"
               /\ control'[o] = "served" \/ Key(o) \in DOMAIN cache' \/ Key(o) \in shaky'
    BY <2>1, <2>3, <2>5, <2>6, <2>8 DEF KeyInv
  <2>9. ASSUME NEW a \in Calls, NEW o \in Calls, a # o, Acts(a)', Acts(o)', Key(a) = Key(o)
        PROVE  Key(a) \in shaky'
    <3>1. CASE a = c
      BY <2>5, <2>7, <2>9, <3>1
    <3>2. CASE o = c
      BY <2>5, <2>7, <2>9, <3>2
    <3>3. CASE a # c /\ o # c
      BY <2>5, <2>6, <2>9, <3>3 DEF KeyInv
    <3> QED
      BY <3>1, <3>2, <3>3
  <2>10. /\ \A o \in Calls : dispatch'[o] # NoCall => control'[o] = "served"
         /\ \A o \in Calls : control'[o] # "unsent" => o \in DOMAIN deployment'.calls
    BY <1>0, <1>1, <2>1, <2>3, <2>4 DEF KeyInv
  <2>11. KeyInv'
    BY <1>3, <2>1, <2>3, <2>8, <2>9, <2>10 DEF KeyInv
  <2> QED
    BY <1>1, <2>2, <2>4, <2>11, ControlRest
<1>6. CASE AnswerToolCall(c)
  <2>1. control[c] = "served" /\ dispatch' = [dispatch EXCEPT ![c] = NoCall]
    BY <1>6 DEF AnswerToolCall
  <2>2. /\ dispatch'[c] = NoCall /\ dispatch'[c].pc \notin Live
        /\ \A f \in Executors \ {c} : dispatch'[f] = dispatch[f]
    BY <1>0, <2>1 DEF GateInv, GateShape, NoCall, Live
  <2>3. PICK state : /\ state \in {"ok", "error"} /\ control' = [control EXCEPT ![c] = state]
                     /\ \/ state = "ok" /\ Remember(c) /\ shaky' = shaky
                        \/ state = "error" /\ shaky' = shaky \cup {Key(c)} /\ cache' = cache
    BY <1>6 DEF AnswerToolCall
  <2>4. /\ control' = [o \in Calls |-> control'[o]] /\ control'[c] = state
        /\ \A o \in Calls \ {c} : control'[o] = control[o]
        /\ \A o \in Calls : control'[o] \in ControlStates
    BY <1>2, <2>3, ControlSet
  <2>5. /\ DOMAIN cache \subseteq DOMAIN cache' /\ shaky \subseteq shaky'
        /\ \A k \in DOMAIN cache' : cache'[k] \in Nat
        /\ Key(c) \in DOMAIN cache' \/ Key(c) \in shaky'
    BY <2>3, CacheSet DEF KeyInv
  <2>6. \A o \in Calls : Acts(o)' => Acts(o)
    BY <1>1, <2>1, <2>4 DEF Acts
  <2>7. ASSUME NEW o \in Calls, Acts(o)'
        PROVE  /\ control'[o] # "unsent"
               /\ control'[o] = "served" \/ Key(o) \in DOMAIN cache' \/ Key(o) \in shaky'
    <3>1. CASE o = c
      BY <2>3, <2>4, <2>5, <3>1
    <3>2. CASE o # c
      BY <2>4, <2>5, <2>6, <2>7, <3>2 DEF KeyInv
    <3> QED
      BY <3>1, <3>2
  <2>8. ASSUME NEW a \in Calls, NEW o \in Calls, a # o, Acts(a)', Acts(o)', Key(a) = Key(o)
        PROVE  Key(a) \in shaky'
    BY <2>5, <2>6, <2>8 DEF KeyInv
  <2>9. /\ \A o \in Calls : dispatch'[o] # NoCall => control'[o] = "served"
        /\ \A o \in Calls : control'[o] # "unsent" => o \in DOMAIN deployment'.calls
    BY <1>0, <1>1, <2>1, <2>2, <2>4 DEF KeyInv
  <2>10. KeyInv'
    BY <1>3, <2>4, <2>5, <2>7, <2>8, <2>9 DEF KeyInv
  <2> QED
    BY <1>1, <2>2, <2>10, ControlRest
<1>7. CASE HandleRestart(c)
  <2>1. /\ control' = [control EXCEPT ![c] = "ok"] /\ UNCHANGED <<dispatch, shaky>>
        /\ control[c] = "unsent" /\ c \in DOMAIN deployment.calls
        /\ Remember(c) \/ cache' = cache
    BY <1>7 DEF HandleRestart, gateVars
  <2>2. dispatch[c] = NoCall /\ ~Acts(c) /\ \A x \in effects : x.by # c
    BY <2>1, UnsentIsIdle
  <2>3. /\ control' = [o \in Calls |-> control'[o]] /\ control'[c] = "ok"
        /\ \A o \in Calls \ {c} : control'[o] = control[o]
        /\ \A o \in Calls : control'[o] \in ControlStates
    BY <1>2, <2>1, ControlSet
  <2>4. \A o \in Calls : Acts(o)' => Acts(o) /\ o # c
    BY <1>1, <2>2, <2>3 DEF Acts
  <2>5. DOMAIN cache \subseteq DOMAIN cache' /\ \A k \in DOMAIN cache' : cache'[k] \in Nat
    BY <2>1, CacheSet DEF KeyInv
  <2>6. KeyInv'
    BY <1>1, <1>3, <2>1, <2>2, <2>3, <2>4, <2>5 DEF KeyInv
  <2> QED
    BY <1>1, <2>1, <2>2, <2>6, ControlRest
<1> QED
  BY <1>4, <1>5, <1>6, <1>7 DEF ControlSteps

\* Time passes: an answer leaves the cache only as its key becomes unsafe.
LEMMA TickStep ==
    ASSUME TurnsInv, EffectInv, LogInv, SyncInv, KeyInv, Tick
    PROVE  TurnsInv' /\ EffectInv' /\ LogInv' /\ SyncInv' /\ KeyInv'
<1>1. UNCHANGED <<deployment, dispatch, effects, turns, turnLog, sync, sent, stale, control>> /\ Under' = Under
  BY DEF Tick, GateTick, turnVars, syncVars, Under
<1>2. TurnsInv'
  BY <1>1, TurnsSame
<1>3. EffectInv'
  <2>1. ASSUME NEW x \in effects, dispatch'[x.by].pc \in Live PROVE x.n # dispatch'[x.by].n
    BY <1>1, <2>1 DEF EffectInv
  <2> QED
    BY <1>1, <2>1, EffectsKept
<1>4. LogInv' /\ SyncInv'
  BY <1>1, LogSame, SyncSame
<1>5. KeyInv'
  <2>1. PICK C : C = cache'
    OBVIOUS
  <2>2. C = [k \in {x \in DOMAIN cache : cache[x] > 0} |-> cache[k] - 1]
    BY <2>1 DEF Tick
  <2>3. DOMAIN C = {x \in DOMAIN cache : cache[x] > 0} /\ \A k \in DOMAIN C : C[k] \in Nat
    BY <2>2 DEF KeyInv
  <2>4. shaky' = shaky \cup {k \in DOMAIN cache : cache[k] = 0}
    BY DEF Tick
  <2>5. \A k \in DOMAIN cache : k \in DOMAIN cache' \/ k \in shaky'
    BY <2>1, <2>3, <2>4 DEF KeyInv
  <2>6. \A c \in Calls : (Acts(c)' <=> Acts(c)) /\ Key(c)' = Key(c)
    BY <1>1 DEF Acts, Key
  <2>7. shaky \subseteq shaky' /\ \A k \in DOMAIN cache' : cache'[k] \in Nat
    BY <2>1, <2>3, <2>4
  <2> QED
    BY <1>1, <2>5, <2>6, <2>7 DEF KeyInv
<1> QED
  BY <1>2, <1>3, <1>4, <1>5

\* The process starts again.
LEMMA RestartStep ==
    ASSUME TurnsInv, EffectInv, LogInv, SyncInv, KeyInv, ProcessRestarts
    PROVE  TurnsInv' /\ EffectInv' /\ LogInv' /\ SyncInv' /\ KeyInv'
<1>0. UNCHANGED <<deployment, effects, turnLog, sent>>
  BY DEF ProcessRestarts
<1>1. PICK n \in Nat : n = Len(turns) /\ turns = [t \in 1..n |-> turns[t]] /\ Under = 1..n
  BY DEF TurnsInv, TurnsShape, Under
<1>2. PICK F : F = turns'
  OBVIOUS
<1>3. F = [t \in 1..n |-> IF turns[t].pc = "done" THEN turns[t] ELSE [turns[t] EXCEPT !.pc = "lost"]]
  BY <1>1, <1>2 DEF ProcessRestarts
<1>4. F = [t \in 1..n |-> F[t]]
  BY <1>3
<1>5. DOMAIN F = 1..n /\ Len(F) = n
  BY <1>4, LenOf
<1>6. TurnsShape' /\ Under' = Under
  BY <1>1, <1>2, <1>4, <1>5 DEF TurnsShape, Under
<1>7. \A e \in Executors : dispatch'[e] = NoCall
  BY DEF ProcessRestarts
<1>8. ASSUME NEW t \in Under
      PROVE  /\ TurnOK(F[t], NoCall, deployment.steps) /\ F[t].kind = turns[t].kind /\ F[t].src = turns[t].src
             /\ F[t].n = turns[t].n /\ (Counts(F[t]) <=> Counts(turns[t]))
             /\ turns[t].pc = "done" => F[t] = turns[t]
  <2>1. TurnTyped(turns[t]) /\ TurnOK(turns[t], dispatch[t], deployment.steps)
    BY DEF TurnsInv, TurnOK
  <2>2. CASE turns[t].pc = "done"
    <3>1. F[t] = turns[t]
      BY <1>1, <1>3, <2>2
    <3> QED
      BY <2>1, <2>2, <3>1 DEF TurnOK
  <2>3. CASE turns[t].pc # "done"
    <3>1. PICK s : s = [turns[t] EXCEPT !.pc = "lost"]
      OBVIOUS
    <3>2. F[t] = s
      BY <1>1, <1>3, <2>3, <3>1
    <3>3. Becomes(s, turns[t], "lost", turns[t].ok, turns[t].round, turns[t].n, turns[t].mode)
      BY <2>1, <3>1, PcSet DEF TurnPcs
    <3>4. /\ TurnTyped(s) /\ s.kind = turns[t].kind /\ s.src = turns[t].src /\ s.pc = "lost" /\ s.ok = turns[t].ok
          /\ s.round = turns[t].round /\ s.n = turns[t].n /\ s.mode = turns[t].mode
      BY <3>3 DEF Becomes
    <3>5. TurnOK(s, NoCall, deployment.steps)
      BY <2>1, <3>4 DEF TurnOK
    <3>6. Counts(s) <=> Counts(turns[t])
      BY <3>4 DEF Counts
    <3> QED
      BY <2>3, <3>2, <3>4, <3>5, <3>6
  <2> QED
    BY <2>2, <2>3
<1>9. Turns \subseteq Executors /\ Calls \subseteq Executors
  BY TurnsAssumption
<1>10. TurnsInv'
  BY <1>0, <1>2, <1>6, <1>7, <1>8, <1>9 DEF TurnsInv
<1>11. EffectInv'
  <2>1. ASSUME NEW x \in effects, dispatch'[x.by].pc \in Live PROVE x.n # dispatch'[x.by].n
    BY <1>7, <2>1 DEF EffectInv, NoCall, Live
  <2>2. ASSUME NEW s \in Under, Counts(turns'[s])
        PROVE  Counts(turns[s]) /\ \A m \in Nat : m <= turns[s].n => m <= turns'[s].n
    BY <1>2, <1>8, <2>2
  <2> QED
    BY <1>0, <1>6, <2>1, <2>2, EffectsKept
<1>12. LogInv'
  BY <1>0, <1>2, <1>6, <1>8, LogSame
<1>13. SyncInv'
  <2>1. PICK y : y = sync'
    OBVIOUS
  <2>2. y = [seen |-> 0, pc |-> "idle"] /\ stale' = sent
    BY <2>1 DEF ProcessRestarts
  <2>3. DOMAIN y = {"seen", "pc"} /\ y.seen = 0 /\ y.pc = "idle"
    BY <2>2
  <2>4. sent \in Nat /\ stale \in Nat /\ sync.seen \in Nat /\ stale <= sent /\ sync.seen <= sent
    BY DEF SyncInv
  <2>5. ASSUME NEW t \in Under, F[t].kind = "message" PROVE F[t].src \in Nat /\ F[t].src <= sent
    <3>1. turns[t].src \in Nat /\ (turns[t].src <= stale \/ turns[t].src <= sync.seen)
      BY <1>8, <2>5 DEF SyncInv
    <3> QED
      BY <1>8, <2>4, <3>1
  <2>6. OneTurnPerMessage'
    <3>1. ASSUME NEW s \in Under, NEW t \in Under, F[s].kind = "message", F[t].kind = "message", F[s].src = F[t].src
          PROVE  s = t
      BY <1>8, <3>1 DEF SyncInv, OneTurnPerMessage
    <3> QED
      BY <1>2, <1>6, <3>1 DEF OneTurnPerMessage
  <2> QED
    BY <1>0, <1>2, <1>6, <2>1, <2>2, <2>3, <2>4, <2>5, <2>6 DEF SyncInv
<1>14. KeyInv'
  <2>1. /\ control' = [c \in Calls |-> control'[c]]
        /\ \A c \in Calls : control'[c] = IF control[c] = "served" THEN "lost" ELSE control[c]
    BY DEF ProcessRestarts
  <2>2. \A c \in Calls : control'[c] \in ControlStates /\ control'[c] # "served"
    BY <2>1 DEF KeyInv, ControlStates
  <2>3. DOMAIN cache' = {}
    BY DEF ProcessRestarts
  <2>4. ASSUME NEW c \in Calls, Acts(c)'
        PROVE  control'[c] # "unsent" /\ Key(c) \in shaky'
    <3>1. Acts(c)
      BY <1>0, <2>2, <2>4 DEF Acts
    <3>2. control[c] # "unsent" /\ c \in DOMAIN deployment.calls
      BY <3>1 DEF KeyInv
    <3> QED
      BY <2>1, <3>2 DEF ProcessRestarts
  <2>5. \A c \in Calls : Key(c)' = Key(c)
    BY <1>0 DEF Key
  <2>6. \A c \in Calls : control'[c] # "unsent" => c \in DOMAIN deployment.calls
    BY <2>1 DEF KeyInv
  <2> QED
    BY <1>0, <1>7, <1>9, <2>1, <2>2, <2>3, <2>4, <2>5, <2>6 DEF KeyInv
<1> QED
  BY <1>10, <1>11, <1>12, <1>13, <1>14

\* A step that changes none of this but the messages sent.
LEMMA OtherStep ==
    ASSUME TurnsInv, EffectInv, LogInv, SyncInv, KeyInv, ConfigInv,
           UNCHANGED <<deployment, dispatch, effects, turns, turnLog, sync, stale, control, cache, shaky>>,
           sent' = sent \/ MessageSent
    PROVE  TurnsInv' /\ EffectInv' /\ LogInv' /\ SyncInv' /\ KeyInv'
<1>1. Under' = Under
  BY DEF Under
<1>2. TurnsInv'
  BY TurnsSame
<1>3. EffectInv'
  <2>1. ASSUME NEW x \in effects, dispatch'[x.by].pc \in Live PROVE x.n # dispatch'[x.by].n
    BY <2>1 DEF EffectInv
  <2> QED
    BY <1>1, <2>1, EffectsKept
<1>4. LogInv' /\ KeyInv'
  BY <1>1, LogSame, KeysSame DEF Acts
<1>5. SyncInv'
  <2>1. CASE sent' = sent
    BY <1>1, <2>1, SyncSame
  <2>2. CASE MessageSent
    <3>1. sent < Len(deployment.messages) /\ sent' = sent + 1
      BY <2>2 DEF MessageSent
    <3>2. Len(deployment.messages) \in Nat
      BY TurnsAssumption DEF ConfigInv
    <3>3. /\ sent' \in Nat /\ sent' <= Len(deployment.messages)
          /\ stale <= sent' /\ sync.seen <= sent'
      BY <3>1, <3>2 DEF SyncInv
    <3> QED
      BY <1>1, <3>3 DEF SyncInv, OneTurnPerMessage
  <2> QED
    BY <2>1, <2>2
<1> QED
  BY <1>2, <1>3, <1>4, <1>5

\* The buckets of a limiter stay typed.
LEMMA AllowAllTyped ==
    ASSUME NEW buckets, Buckets(buckets, Window + 1), NEW limit, NEW keys, NEW A, A = AllowAll(buckets, limit, keys)
    PROVE  Buckets(A.buckets, Window + 1)
<1>0. Window \in Nat \ {0}
  BY IngressAssumption
<1>1. PICK full : full = {i \in DOMAIN keys : Full(buckets, keys[i], limit)}
  OBVIOUS
<1>2. PICK seen : seen = {keys[i] : i \in {j \in DOMAIN keys : \A f \in full : j <= f}}
  OBVIOUS
<1>3. PICK reset : reset = [k \in DOMAIN buckets \cup seen |-> IF k \in DOMAIN buckets THEN buckets[k] ELSE Fresh]
  OBVIOUS
<1>4. PICK after : after = [k \in DOMAIN reset |-> IF k \in seen THEN [reset[k] EXCEPT !.count = @ + 1] ELSE reset[k]]
  OBVIOUS
<1>5. A.buckets \in {buckets, reset, after}
  <2>1. AllowAll(buckets, limit, keys) =
           IF limit = 0 THEN [ok |-> TRUE, buckets |-> buckets]
           ELSE [ok |-> full = {}, buckets |-> IF full # {} THEN reset ELSE after]
    BY <1>1, <1>2, <1>3, <1>4, ZenonT(60) DEF AllowAll
  <2>2. CASE limit = 0
    BY <2>1, <2>2
  <2>3. CASE limit # 0
    <3>1. PICK b : b = IF full # {} THEN reset ELSE after
      OBVIOUS
    <3>2. PICK ok : A = [ok |-> ok, buckets |-> b]
      BY <2>1, <2>3, <3>1
    <3>3. A.buckets = b
      BY <3>2
    <3> QED
      BY <3>1, <3>3
  <2> QED
    BY <2>2, <2>3
<1>6. Fresh \in [count : Nat, left : 1..Window + 1]
  BY <1>0 DEF Fresh
<1>7. ASSUME NEW k \in DOMAIN reset PROVE reset[k] \in [count : Nat, left : 1..Window + 1]
  BY <1>3, <1>6 DEF Buckets
<1>8. ASSUME NEW k \in DOMAIN reset PROVE after[k] \in [count : Nat, left : 1..Window + 1]
  <2>1. PICK b \in [count : Nat, left : 1..Window + 1] : b = reset[k]
    BY <1>7
  <2>2. [b EXCEPT !.count = b.count + 1] \in [count : Nat, left : 1..Window + 1]
    OBVIOUS
  <2>3. after[k] \in {b, [b EXCEPT !.count = b.count + 1]}
    BY <1>4, <2>1
  <2> QED
    BY <2>2, <2>3
<1>9. DOMAIN after = DOMAIN reset
  BY <1>4
<1> QED
  BY <1>5, <1>7, <1>8, <1>9 DEF Buckets

LEMMA AgedTyped ==
    ASSUME NEW buckets, Buckets(buckets, Window + 1)
    PROVE  Buckets(Aged(buckets), Window + 1)
<1>0. Window \in Nat \ {0}
  BY IngressAssumption
<1>1. ASSUME NEW k \in DOMAIN Aged(buckets) PROVE Aged(buckets)[k] \in [count : Nat, left : 1..Window + 1]
  <2>1. k \in DOMAIN buckets /\ buckets[k].left > 1
    BY <1>1 DEF Aged
  <2>2. PICK b \in [count : Nat, left : 1..Window + 1] : b = buckets[k]
    BY <2>1 DEF Buckets
  <2>3. Aged(buckets)[k] = [b EXCEPT !.left = b.left - 1]
    BY <2>1, <2>2 DEF Aged
  <2>4. b.left - 1 \in 1..Window + 1
    BY <1>0, <2>1, <2>2
  <2> QED
    BY <2>3, <2>4
<1> QED
  BY <1>1 DEF Buckets

\* Ruriko's row of the agent, the proxy's limiter and whether the agent is stopping.
ProxyInv ==
    /\ agentRow \in [enabled : BOOLEAN, url : BOOLEAN]
    /\ Buckets(proxyBuckets, Window + 1)
    /\ stopping \in BOOLEAN

ProxyNext ==
    /\ agentRow' = agentRow
    /\ proxyBuckets' = proxyBuckets \/ (\E d : handleWebhook(d)) \/ IngressTick
    /\ stopping' = stopping \/ stopping' = TRUE \/ stopping' = FALSE

LEMMA NextIsProxyNext == [Next]_vars => ProxyNext
<1> SUFFICES ASSUME [Next]_vars PROVE ProxyNext
  OBVIOUS
<1> USE DEF ProxyNext
<1>1. CASE MessageSent
  BY <1>1 DEF MessageSent, ingressVars, controlVars
<1>2. CASE SyncSteps
  BY <1>2 DEF SyncSteps, HandleMessage, CheckSender, MatchMessage, syncSame, ingressVars, controlVars
<1>3. ASSUME NEW d \in Deliveries, EventArrives(d) \/ WebhookArrives(d) PROVE ProxyNext
  BY <1>3 DEF EventArrives, WebhookArrives, otherThanIngress, controlVars, EventReads, EventRefused, EventOverLimit,
              EventAccepted, ingressSame, ForwardFails, handleWebhook
<1>4. ASSUME NEW t \in Under, TurnSteps(t) PROVE ProxyNext
  BY <1>4 DEF TurnSteps, RunEventTurn, BeginTurn, CallLLM, ModelAnswers, NextToolCall, ToolReturns,
              WorkflowStep, EndTurn, turnSame, ingressVars, controlVars
<1>5. ASSUME NEW e \in Executors, GateSteps(e) \/ Abort(e) \/ OperatorDecides(e) PROVE ProxyNext
  BY <1>5 DEF GateSteps, Abort, OperatorDecides, controlSame, ingressVars, controlVars
<1>6. ASSUME NEW c \in Calls, ControlSteps(c) PROVE ProxyNext
  BY <1>6 DEF ControlSteps, HandleToolCall, AnswerToolCall, HandleRestart, controlSame, ingressVars
<1>7. CASE RurikoStores
  BY <1>7 DEF RurikoStores, StoreVersion, controlVars
<1>8. CASE ConfigPushed
  BY <1>8 DEF ConfigPushed, controlSame, ingressVars, controlVars
<1>9. CASE Tick
  BY <1>9 DEF Tick, IngressTick
<1>10. CASE Crash \/ StopEnds \/ ExitAtLimit
  BY <1>10 DEF Crash, StopEnds, ExitAtLimit, ProcessRestarts, IngressRestarts, ingressSame
<1>11. CASE UNCHANGED vars
  BY <1>11 DEF vars, ingressVars, controlVars
<1> QED
  BY <1>1, <1>2, <1>3, <1>4, <1>5, <1>6, <1>7, <1>8, <1>9, <1>10, <1>11 DEF Next

LEMMA StepProxyInv == ProxyInv /\ [Next]_vars => ProxyInv'
<1> SUFFICES ASSUME ProxyInv, ProxyNext PROVE ProxyInv'
  BY NextIsProxyNext
<1>1. Buckets(proxyBuckets', Window + 1)
  <2>1. CASE proxyBuckets' = proxyBuckets
    BY <2>1 DEF ProxyInv
  <2>2. ASSUME NEW d, handleWebhook(d) PROVE Buckets(proxyBuckets', Window + 1)
    <3>1. \/ proxyBuckets' = proxyBuckets
          \/ proxyBuckets' = AllowAll(proxyBuckets, ProxyLimit, <<"agent">>).buckets
      BY <2>2 DEF handleWebhook
    <3> QED
      BY <3>1, AllowAllTyped DEF ProxyInv
  <2>3. CASE IngressTick
    BY <2>3, AgedTyped DEF IngressTick, ProxyInv
  <2> QED
    BY <2>1, <2>2, <2>3 DEF ProxyNext
<1>2. stopping' \in BOOLEAN
  BY Zenon DEF ProxyInv, ProxyNext
<1>3. agentRow' \in [enabled : BOOLEAN, url : BOOLEAN]
  BY DEF ProxyInv, ProxyNext
<1> QED
  BY <1>1, <1>2, <1>3 DEF ProxyInv

LEMMA InitProxyInv == Init => ProxyInv
<1> SUFFICES ASSUME Init PROVE ProxyInv
  OBVIOUS
<1>1. agentRow \in [enabled : BOOLEAN, url : BOOLEAN]
  BY TurnsAssumption DEF Init
<1>2. DOMAIN proxyBuckets = {}
  BY DEF Init, IngressInit
<1>3. stopping \in BOOLEAN
  BY Zenon DEF Init
<1> QED
  BY <1>1, <1>2, <1>3 DEF ProxyInv, Buckets

\* The typing of calls and approvals.
LEMMA CallTyped ==
    ASSUME CallsTyped, GateInv, NEW e \in Executors, NEW call, NEW n \in Nat \ {0}, DispatchToolCall(e, call, n)
    PROVE  CallsTyped'
<1>1. /\ dispatch'[e].n = n /\ dispatch'[e].pc \in {"evaluate", "failed"}
      /\ \A f \in Executors \ {e} : dispatch'[f] = dispatch[f]
  BY CallStarts
<1> QED
  BY <1>1 DEF CallsTyped, CallPcs

LEMMA CallCleared ==
    ASSUME CallsTyped, GateInv, NEW e \in Executors, dispatch' = [dispatch EXCEPT ![e] = NoCall]
    PROVE  CallsTyped'
<1>1. dispatch'[e] = NoCall /\ \A f \in Executors \ {e} : dispatch'[f] = dispatch[f]
  BY DEF GateInv, GateShape
<1> QED
  BY <1>1 DEF CallsTyped

LEMMA StepCallsTyped ==
    ASSUME CallsTyped, GateInv, TurnsInv, [Next]_vars
    PROVE  CallsTyped'
<1>0. Turns \subseteq Executors /\ Calls \subseteq Executors /\ Under \subseteq Executors
  BY TurnsAssumption DEF TurnsInv
<1>1. ASSUME dispatch' = dispatch PROVE CallsTyped'
  BY <1>1 DEF CallsTyped
<1>2. CASE MessageSent
  BY <1>1, <1>2 DEF MessageSent, gateVars
<1>3. CASE SyncSteps
  BY <1>1, <1>3 DEF SyncSteps, HandleMessage, CheckSender, MatchMessage, syncSame, gateVars
<1>4. ASSUME NEW d \in Deliveries, EventArrives(d) \/ WebhookArrives(d) PROVE CallsTyped'
  BY <1>1, <1>4 DEF EventArrives, WebhookArrives, otherThanIngress, gateVars
<1>5. ASSUME NEW t \in Under, TurnSteps(t) PROVE CallsTyped'
  <2>1. CASE RunEventTurn(t) \/ BeginTurn(t) \/ CallLLM(t) \/ ModelAnswers(t) \/ EndTurn(t)
    BY <1>1, <2>1 DEF RunEventTurn, BeginTurn, CallLLM, ModelAnswers, EndTurn, gateVars
  <2>2. turns[t].n + 1 \in Nat \ {0} /\ t \in Executors
    BY <1>0 DEF TurnsInv, TurnOK, TurnTyped
  <2>3. CASE NextToolCall(t)
    <3>1. CASE dispatch' = dispatch
      BY <1>1, <3>1
    <3>2. CASE dispatch' # dispatch
      <4>1. DispatchToolCall(t, Head(turns[t].todo), turns[t].n + 1)
        BY <2>3, <3>2 DEF NextToolCall, gateVars
      <4> QED
        BY <2>2, <4>1, CallTyped
    <3> QED
      BY <3>1, <3>2
  <2>4. CASE ToolReturns(t)
    BY <2>2, <2>4, CallCleared DEF ToolReturns
  <2>5. CASE WorkflowStep(t)
    <3>1. CASE dispatch' = dispatch
      BY <1>1, <3>1
    <3>2. CASE dispatch' # dispatch
      <4>1. PICK calls \in deployment.answers : DispatchToolCall(t, calls[1], turns[t].n + 1)
        BY <2>5, <3>2 DEF WorkflowStep, gateVars
      <4> QED
        BY <2>2, <4>1, CallTyped
    <3> QED
      BY <3>1, <3>2
  <2> QED
    BY <1>5, <2>1, <2>3, <2>4, <2>5 DEF TurnSteps
<1>6. ASSUME NEW e \in Executors, GateSteps(e) \/ Abort(e) PROVE CallsTyped'
  <2>1. GateMoves(e)
    BY <1>6, StepMoves DEF GateSteps, Abort
  <2> QED
    BY <2>1 DEF GateMoves, CallsTyped
<1>7. ASSUME NEW e \in Executors, OperatorDecides(e) PROVE CallsTyped'
  BY <1>1, <1>7 DEF OperatorDecides, RecordDecision
<1>8. ASSUME NEW c \in Calls, ControlSteps(c) PROVE CallsTyped'
  <2>1. CASE HandleToolCall(c)
    <3>1. CASE dispatch' = dispatch
      BY <1>1, <3>1
    <3>2. CASE dispatch' # dispatch
      <4>1. DispatchToolCall(c, deployment.calls[c].call, 1)
        BY <2>1, <3>2 DEF HandleToolCall, gateVars
      <4>2. 1 \in Nat \ {0} /\ c \in Executors
        BY <1>0
      <4> QED
        BY <4>1, <4>2, CallTyped
    <3> QED
      BY <3>1, <3>2
  <2>2. CASE AnswerToolCall(c)
    BY <1>0, <2>2, CallCleared DEF AnswerToolCall
  <2>3. CASE HandleRestart(c)
    BY <1>1, <2>3 DEF HandleRestart, gateVars
  <2> QED
    BY <1>8, <2>1, <2>2, <2>3 DEF ControlSteps
<1>9. CASE RurikoStores \/ ConfigPushed
  BY <1>1, <1>9 DEF RurikoStores, ConfigPushed, gateVars
<1>10. CASE Tick
  BY <1>1, <1>10 DEF Tick, GateTick
<1>11. CASE Crash \/ StopEnds \/ ExitAtLimit
  BY <1>11 DEF Crash, StopEnds, ExitAtLimit, ProcessRestarts, CallsTyped
<1>12. CASE UNCHANGED vars
  BY <1>1, <1>12 DEF vars, gateVars
<1> QED
  BY <1>2, <1>3, <1>4, <1>5, <1>6, <1>7, <1>8, <1>9, <1>10, <1>11, <1>12 DEF Next

LEMMA StepRowsTyped ==
    ASSUME RowsTyped, GateInv, ConfigInv, [Next]_vars
    PROVE  RowsTyped'
<1>0. GateNext /\ RowsShape
  BY NextIsGateNext DEF GateInv, GateShape, RowsShape
<1>1. ASSUME approvals' = approvals PROVE RowsTyped'
  BY <1>1 DEF RowsTyped
<1>2. ASSUME NEW e \in DOMAIN approvals, NEW status \in {"approved", "denied"}, SetApprovalStatus(e, status)
      PROVE  RowsTyped'
  <2>1. /\ DOMAIN approvals' = DOMAIN approvals /\ approvals'[e].status = status
        /\ \A f \in DOMAIN approvals :
              /\ approvals'[f].left = approvals[f].left
              /\ f # e => approvals'[f].status = approvals[f].status
    BY <1>0, <1>2, StatusSet
  <2> QED
    BY <2>1 DEF RowsTyped
<1>3. ASSUME NEW e \in Executors, DispatchSteps(e) \/ WaitAborted(e) PROVE RowsTyped'
  <2>1. CASE e \notin DOMAIN approvals /\ SaveApproval(e)
    <3>1. /\ DOMAIN approvals' = DOMAIN approvals \cup {e} /\ approvals'[e].status = "pending"
          /\ approvals'[e].left \in {DefaultTTL, config.ttl}
          /\ \A f \in DOMAIN approvals : approvals'[f] = approvals[f]
      BY <1>0, <2>1, RowAdded
    <3>2. DefaultTTL \in Nat /\ config.ttl \in Nat
      BY TurnsAssumption, GateAssumption DEF ConfigInv
    <3> QED
      BY <3>1, <3>2 DEF RowsTyped
  <2>2. CASE dispatch[e].pc = "waiting" /\ SetApprovalStatus(e, "denied")
    <3>1. e \in DOMAIN approvals
      BY <2>2 DEF GateInv, CallInv
    <3> QED
      BY <1>2, <2>2, <3>1
  <2>3. CASE EvaluatePolicy(e) \/ ExecuteSend(e) \/ ExecuteMCP(e) \/ WaitAborted(e)
    BY <1>1, <2>3 DEF EvaluatePolicy, ExecuteSend, ExecuteMCP, WaitAborted
  <2>4. CASE RequestApproval(e)
    BY <1>1, <2>1, <2>4 DEF RequestApproval, SaveApprovalFails
  <2>5. CASE AwaitDecision(e)
    BY <1>1, <2>2, <2>5 DEF AwaitDecision, PollApproval, ApprovalTimeout, DispatchAt
  <2> QED
    BY <1>3, <2>3, <2>4, <2>5 DEF DispatchSteps
<1>4. ASSUME NEW e \in Executors, NEW verdict \in {"approved", "denied"}, RecordDecision(e, verdict)
      PROVE  RowsTyped'
  BY <1>2, <1>4 DEF RecordDecision, SetApprovalStatus
<1>5. CASE GateTick
  <2>1. /\ DOMAIN approvals' = DOMAIN approvals
        /\ \A f \in DOMAIN approvals :
              /\ approvals'[f].status = approvals[f].status
              /\ approvals'[f].left = Less(approvals[f].left)
    BY <1>0, <1>5, RowsAge
  <2>2. ASSUME NEW f \in DOMAIN approvals PROVE Less(approvals[f].left) \in Nat
    BY DEF RowsTyped, Less
  <2> QED
    BY <2>1, <2>2 DEF RowsTyped
<1> QED
  BY <1>0, <1>1, <1>3, <1>4, <1>5 DEF GateNext, otherThanDispatch

\* One step of the composition.
LEMMA StepWorld ==
    ASSUME TurnsInv, EffectInv, LogInv, SyncInv, KeyInv, CallsTyped, GateInv, ConfigInv, [Next]_vars
    PROVE  TurnsInv' /\ EffectInv' /\ LogInv' /\ SyncInv' /\ KeyInv'
<1> DEFINE Goal == TurnsInv' /\ EffectInv' /\ LogInv' /\ SyncInv' /\ KeyInv'
           Same == UNCHANGED <<deployment, dispatch, effects, turns, turnLog, sync, stale, control, cache, shaky>>
<1>1. CASE MessageSent
  <2>1. Same
    BY <1>1 DEF MessageSent, gateVars, turnVars, controlVars
  <2> QED
    BY <1>1, <2>1, OtherStep
<1>0. ASSUME Same, sent' = sent PROVE Goal
  BY <1>0, OtherStep
<1>2. CASE SyncSteps
  BY <1>2, SyncStep
<1>3. ASSUME NEW d \in Deliveries, EventArrives(d) PROVE Goal
  <2>1. UNCHANGED <<deployment, dispatch, effects, turnLog, sync, sent, stale, control, cache, shaky>>
    BY <1>3 DEF EventArrives, otherThanIngress, gateVars, syncVars, controlVars
  <2>2. CASE turns' = turns
    BY <1>0, <2>1, <2>2
  <2>3. CASE turns' # turns
    <3>1. NextTurn \in Turns /\ turns' = Append(turns, NewTurn("event", d, "event", "chat"))
      BY <1>3, <2>3 DEF EventArrives
    <3> QED
      BY <2>1, <3>1, EventBegins
  <2> QED
    BY <2>2, <2>3
<1>4. ASSUME NEW d \in Deliveries, WebhookArrives(d) PROVE Goal
  BY <1>0, <1>4 DEF WebhookArrives, otherThanIngress, gateVars, syncVars, controlVars
<1>5. ASSUME NEW t \in Under, TurnSteps(t) PROVE Goal
  <2>1. CASE RunEventTurn(t)
    <3>1. UNCHANGED <<deployment, effects, sync, sent, stale, control, cache, shaky>>
      BY <2>1 DEF RunEventTurn, gateVars, syncVars, controlVars
    <3>2. turns[t].pc = "event" /\ \E s : Goes(t, s)
      BY <2>1, EventTurnStep
    <3>3. PICK s : Goes(t, s)
      BY <3>2
    <3>4. /\ TurnsInv' /\ EffectInv' /\ KeyInv' /\ Under' = Under
          /\ \A q \in Under \ {t} : turns'[q] = turns[q]
          /\ \A q \in Under : turns'[q].kind = turns[q].kind /\ turns'[q].src = turns[q].src
      BY <3>1, <3>3, GoesCore
    <3>5. \A q \in Under : turns[q].pc = "done" => turns'[q] = turns[q]
      BY <3>2, <3>4
    <3>6. LogInv'
      <4>1. CASE turnLog' = turnLog
        BY <3>4, <3>5, <4>1, LogSame
      <4>2. CASE LogTurn(t)
        BY <3>4, <3>5, <4>2, LogAdded
      <4> QED
        BY <2>1, <4>1, <4>2 DEF RunEventTurn
    <3>7. SyncInv'
      BY <3>1, <3>4, SyncSame
    <3> QED
      BY <3>4, <3>6, <3>7
  <2>2. CASE EndTurn(t)
    BY <2>2, EndTurnStep
  <2>3. CASE BeginTurn(t) \/ CallLLM(t) \/ ModelAnswers(t) \/ NextToolCall(t) \/ ToolReturns(t) \/ WorkflowStep(t)
    <3>1. UNCHANGED <<deployment, effects, turnLog, sync, sent, stale, control, cache, shaky>>
      BY <2>3 DEF BeginTurn, CallLLM, ModelAnswers, NextToolCall, ToolReturns, WorkflowStep, turnSame,
                  gateVars, syncVars, controlVars
    <3>2. turns[t].pc # "done" /\ \E s : Goes(t, s)
      <4>1. CASE BeginTurn(t) \/ CallLLM(t) \/ ModelAnswers(t)
        BY <4>1, PlainTurnSteps
      <4>2. CASE NextToolCall(t)
        BY <4>2, PlainTurnSteps, CallTurnSteps
      <4>3. CASE ToolReturns(t)
        BY <4>3, ReturnTurnStep
      <4>4. CASE WorkflowStep(t)
        <5>1. CASE dispatch' = dispatch
          BY <4>4, <5>1, PlainTurnSteps
        <5>2. CASE dispatch' # dispatch
          <6>1. \E call : DispatchToolCall(t, call, turns[t].n + 1)
            BY <4>4, <5>2 DEF WorkflowStep, gateVars
          <6> QED
            BY <4>4, <6>1, CallTurnSteps
        <5> QED
          BY <5>1, <5>2
      <4> QED
        BY <2>3, <4>1, <4>2, <4>3, <4>4
    <3>3. PICK s : Goes(t, s)
      BY <3>2
    <3> QED
      BY <3>1, <3>2, <3>3, GoesStep
  <2> QED
    BY <1>5, <2>1, <2>2, <2>3 DEF TurnSteps
<1>6. ASSUME NEW e \in Executors, GateSteps(e) \/ Abort(e) PROVE Goal
  <2>1. GateMoves(e)
    BY <1>6, StepMoves DEF GateSteps, Abort
  <2>2. UNCHANGED <<deployment, turns, turnLog, sync, sent, stale, control, cache, shaky>>
    BY <1>6 DEF GateSteps, Abort, controlSame, turnVars, syncVars, controlVars
  <2> QED
    BY <2>1, <2>2, GateMoveStep
<1>7. ASSUME NEW e \in Executors, OperatorDecides(e) PROVE Goal
  BY <1>0, <1>7 DEF OperatorDecides, RecordDecision, turnVars, syncVars, controlVars
<1>8. ASSUME NEW c \in Calls, ControlSteps(c) PROVE Goal
  BY <1>8, ControlStep
<1>9. CASE RurikoStores \/ ConfigPushed
  BY <1>0, <1>9 DEF RurikoStores, ConfigPushed, gateVars, turnVars, syncVars, controlSame, controlVars
<1>10. CASE Tick
  BY <1>10, TickStep
<1>11. CASE Crash \/ StopEnds \/ ExitAtLimit
  BY <1>11, RestartStep DEF Crash, StopEnds, ExitAtLimit
<1>12. CASE UNCHANGED vars
  BY <1>0, <1>12 DEF vars, gateVars, turnVars, syncVars, controlVars
<1> QED
  BY <1>1, <1>2, <1>3, <1>4, <1>5, <1>6, <1>7, <1>8, <1>9, <1>10, <1>11, <1>12 DEF Next

-----------------------------------------------------------------------------
(* What the invariant says.                                                *)

\* The inductive invariant behind Inv.
InductiveInvariant ==
    /\ ConfigInv /\ GateInv /\ CallsTyped /\ RowsTyped
    /\ IngressInv /\ HeardInv /\ ProxyInv
    /\ SendInv /\ EventInv /\ CompletionInv
    /\ TurnsInv /\ EffectInv /\ LogInv /\ SyncInv /\ KeyInv

LEMMA InitWorld == Init => TurnsInv /\ EffectInv /\ LogInv /\ SyncInv /\ KeyInv /\ CallsTyped /\ RowsTyped
<1> SUFFICES ASSUME Init PROVE TurnsInv /\ EffectInv /\ LogInv /\ SyncInv /\ KeyInv /\ CallsTyped /\ RowsTyped
  OBVIOUS
<1>1. /\ turns = <<>> /\ effects = {} /\ DOMAIN turnLog = {} /\ DOMAIN cache = {} /\ DOMAIN approvals = {}
      /\ dispatch = [e \in Executors |-> NoCall] /\ control = [c \in Calls |-> "unsent"]
      /\ deployment \in Deployments /\ sent = 0 /\ stale = 0
  BY DEF Init, GateInit
<1>2. Under = {} /\ TurnsShape
  BY <1>1 DEF Under, TurnsShape
<1>3. Turns \subseteq Executors /\ Calls \subseteq Executors /\ Len(deployment.messages) \in Nat
  BY <1>1, TurnsAssumption
<1>4. TurnsInv /\ EffectInv /\ LogInv
  BY <1>1, <1>2, <1>3 DEF TurnsInv, EffectInv, LogInv
<1>5. SyncInv
  <2>1. PICK y : y = sync
    OBVIOUS
  <2>2. y = [seen |-> 0, pc |-> "idle"]
    BY <2>1 DEF Init
  <2>3. DOMAIN y = {"seen", "pc"} /\ y.seen = 0 /\ y.pc = "idle"
    BY <2>2
  <2> QED
    BY <1>1, <1>2, <1>3, <2>1, <2>3 DEF SyncInv, OneTurnPerMessage
<1>6. KeyInv
  BY <1>1, <1>3 DEF KeyInv, Acts, ControlStates
<1>7. CallsTyped /\ RowsTyped
  BY <1>1 DEF CallsTyped, RowsTyped
<1> QED
  BY <1>4, <1>5, <1>6, <1>7

LEMMA InitInductive == Init => InductiveInvariant
  BY InitConfigInv, InitGateInv, InitIngressInv, InitHeardInv, InitProxyInv, InitLimits, InitWorld DEF InductiveInvariant

LEMMA StepInductive == InductiveInvariant /\ [Next]_vars => InductiveInvariant'
<1> SUFFICES ASSUME InductiveInvariant, [Next]_vars PROVE InductiveInvariant'
  OBVIOUS
<1>1. ConfigInv' /\ GateInv' /\ IngressInv' /\ HeardInv' /\ ProxyInv'
  BY StepConfigInv, StepGateInv, StepIngressInv, StepHeardInv, StepProxyInv DEF InductiveInvariant
<1>2. SendInv' /\ EventInv' /\ CompletionInv'
  BY StepSendInv, StepEventInv, StepCompletionInv DEF InductiveInvariant
<1>3. CallsTyped' /\ RowsTyped'
  BY StepCallsTyped, StepRowsTyped DEF InductiveInvariant
<1>4. TurnsInv' /\ EffectInv' /\ LogInv' /\ SyncInv' /\ KeyInv'
  BY StepWorld DEF InductiveInvariant
<1> QED
  BY <1>1, <1>2, <1>3, <1>4 DEF InductiveInvariant

\* The effects of a turn that counts are numbered apart, up to its count.
LEMMA EffectsCounted ==
    ASSUME TurnsInv, EffectInv, NEW t \in Under, Counts(turns[t])
    PROVE  Cardinality({x \in effects : x.by = t}) <= turns[t].n
<1>1. PICK n \in Nat : n = turns[t].n
  BY DEF TurnsInv, TurnOK, TurnTyped
<1>2. PICK S : S = {x \in effects : x.by = t}
  OBVIOUS
<1>3. t \in Turns
  BY DEF TurnsInv
<1>4. \A x \in S : x.n \in 1..n
  BY <1>1, <1>2, <1>3 DEF EffectInv
<1>5. \A x, y \in S : x.n = y.n => x = y
  BY <1>2 DEF EffectInv
<1>6. PICK f : f = [x \in S |-> x.n]
  OBVIOUS
<1>7. f \in Injection(S, 1..n)
  BY <1>4, <1>5, <1>6 DEF Injection, IsInjective
<1>8. IsFiniteSet(1..n) /\ Cardinality(1..n) = n
  BY FS_Interval
<1>9. Cardinality(S) <= n
  BY <1>7, <1>8, FS_Injection
<1> QED
  BY <1>1, <1>2, <1>9

LEMMA LogIsRight ==
    ASSUME TurnsInv, EffectInv, LogInv
    PROVE  LogCountsEffects
<1>1. ASSUME NEW t \in DOMAIN turnLog,
             turnLog[t].result = "success" \/ (turnLog[t].result = "error" /\ turns[t].mode = "chat")
      PROVE  Cardinality({x \in effects : x.by = t}) <= turnLog[t].calls
  <2>1. t \in Under /\ RowOK(turnLog[t], turns[t])
    BY DEF LogInv
  <2>2. turnLog[t].calls = turns[t].n /\ turnLog[t].result = IF turns[t].ok = TRUE THEN "success" ELSE "error"
    BY <1>1, <2>1 DEF RowOK
  <2>3. Counts(turns[t])
    BY <1>1, <2>2 DEF Counts
  <2> QED
    BY <2>1, <2>2, <2>3, EffectsCounted
<1> QED
  BY <1>1 DEF LogCountsEffects

LEMMA KeysAreRight == KeyInv => KeyActsOnce
<1> SUFFICES ASSUME KeyInv, NEW c \in Calls, NEW o \in Calls, c # o, Key(c) = Key(o),
                    {x \in effects : x.by = c} # {}, {x \in effects : x.by = o} # {}
             PROVE  Key(c) \in shaky
  BY DEF KeyActsOnce
<1>1. Acts(c) /\ Acts(o)
  BY DEF Acts
<1> QED
  BY <1>1 DEF KeyInv

\* The events of a window's history are well typed.
LEMMA HistoryTyped ==
    ASSUME NEW recent, NEW n, History(recent, n)
    PROVE  \A i \in DOMAIN recent : recent[i] \in [left : 1..n, max : Nat \ {0}]
<1> DEFINE Entry == [left : 1..n, max : Nat \ {0}]
<1>1. recent \in Seq(Entry)
  BY DEF History
<1> HIDE DEF Entry
<1>2. \A i \in DOMAIN recent : recent[i] \in Entry
  BY <1>1
<1> QED
  BY <1>2 DEF Entry

LEMMA TypesAreRight == InductiveInvariant => TypeOK
<1> SUFFICES ASSUME InductiveInvariant PROVE TypeOK
  OBVIOUS
<1>0. MaxRounds \in Nat /\ deployment.steps \in Nat /\ Window \in Nat \ {0} /\ SendWindow \in Nat \ {0}
  BY TurnsAssumption, GateAssumption, IngressAssumption DEF InductiveInvariant, ConfigInv
<1>1. GateTypeOK
  <2>1. \A e \in Executors :
           \/ dispatch[e] = NoCall
           \/ /\ dispatch[e].pc \in {"evaluate", "request", "waiting", "execute", "ok", "failed"}
              /\ dispatch[e].n \in Nat
    BY DEF InductiveInvariant, CallsTyped, CallPcs
  <2>2. sendRate.count \in Nat /\ sendRate.left \in 0..SendWindow
    BY DEF InductiveInvariant, SendInv
  <2>3. \A x \in effects : x.by \in Executors
    BY DEF InductiveInvariant, EffectInv
  <2>4. \A i \in DOMAIN recentSends : recentSends[i] \in [left : 1..SendWindow, max : Nat \ {0}]
    BY HistoryTyped DEF InductiveInvariant, SendInv, Windowed
  <2> QED
    BY <2>1, <2>2, <2>3, <2>4 DEF InductiveInvariant, RowsTyped, GateTypeOK
<1>2. IngressTypeOK
  <2>1. \A d \in Deliveries : delivery[d] \in Statuses \cup {"unsent", "forwarded", "reading"}
    BY DEF InductiveInvariant, IngressInv, Answered, Statuses
  <2>5. \A d \in Deliveries : delivery[d] = "reading" => d \in DOMAIN heard
    BY DEF InductiveInvariant, HeardInv
  <2>2. \A i \in DOMAIN recentEvents : recentEvents[i] \in [left : 1..Window + 1, max : Nat \ {0}]
    BY HistoryTyped DEF InductiveInvariant, EventInv, Windowed
  <2>3. /\ agentRow \in [enabled : BOOLEAN, url : BOOLEAN]
        /\ \A d \in DOMAIN request : request[d].via \in {"proxy", "remote", "local"}
    BY DEF InductiveInvariant, IngressInv, ProxyInv
  <2>4. /\ \A k \in DOMAIN proxyBuckets : proxyBuckets[k] \in [count : Nat, left : 1..Window + 1]
        /\ \A k \in DOMAIN eventBuckets : eventBuckets[k] \in [count : Nat, left : 1..Window + 1]
    BY DEF InductiveInvariant, ProxyInv, EventInv, Buckets
  <2> QED
    BY <2>1, <2>2, <2>3, <2>4, <2>5 DEF IngressTypeOK
<1>3. /\ sent \in 0..Len(deployment.messages) /\ stale \in 0..sent
      /\ sync.seen \in 0..sent /\ sync.pc \in {"idle", "sender", "match", "turn"}
  <2>1. Len(deployment.messages) \in Nat
    BY TurnsAssumption DEF InductiveInvariant, ConfigInv
  <2> QED
    BY <2>1 DEF InductiveInvariant, SyncInv
<1>4. ASSUME NEW t \in Under
      PROVE  /\ turns[t].pc \in {"event", "begin", "llm", "answer", "tools", "step", "tool", "end", "done", "lost"}
             /\ turns[t].round \in 0..MaxRounds + deployment.steps
             /\ turns[t].n \in Nat
  <2>1. TurnOK(turns[t], dispatch[t], deployment.steps) /\ TurnTyped(turns[t])
    BY DEF InductiveInvariant, TurnsInv, TurnOK
  <2>2. turns[t].round \in Nat /\ (turns[t].round <= MaxRounds \/ turns[t].round <= deployment.steps)
    BY <2>1 DEF TurnOK, TurnTyped
  <2>3. turns[t].round \in 0..MaxRounds + deployment.steps
    BY <1>0, <2>2
  <2> QED
    BY <2>1, <2>3 DEF TurnTyped, TurnPcs
<1>5. \A t \in DOMAIN turnLog : turnLog[t].result \in {"running", "success", "error"}
  BY DEF InductiveInvariant, LogInv, RowOK
<1>6. \A c \in Calls : control[c] \in {"unsent", "served", "ok", "error", "lost"}
  BY DEF InductiveInvariant, KeyInv, ControlStates
<1>7. /\ deployment \in Deployments /\ config \in deployment.configs /\ latest \in deployment.configs
      /\ llmCalls \in Nat /\ completions \in Nat
  BY DEF InductiveInvariant, ConfigInv, CompletionInv
<1>8. stopping \in BOOLEAN
  BY DEF InductiveInvariant, ProxyInv
<1> QED
  BY <1>1, <1>2, <1>3, <1>4, <1>5, <1>6, <1>7, <1>8 DEF TypeOK

\* The state is well typed; a message has one turn at most although the homeserver replays
\* it after a restart (handleMessage, the timestamp check); a finished row of turn_log counts
\* at least the tools that took effect in its turn (FinishTurn); and two requests with one
\* idempotency key both act only in the cases the property names (handleToolCall), for any
\* number of messages, events, requests, pushes, decisions and restarts.
THEOREM Safe == Spec => []Inv
<1>1. InductiveInvariant => Inv
  BY TypesAreRight, LogIsRight, KeysAreRight DEF InductiveInvariant, SyncInv, Inv
<1> QED
  BY <1>1, InitInductive, StepInductive, PTL DEF Spec
=============================================================================
