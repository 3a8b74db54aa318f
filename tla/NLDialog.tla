------------------------------ MODULE NLDialog ------------------------------
(***************************************************************************)
(* Natural-language dialogue of the control plane                          *)
(* (internal/ruriko/commands/natural_language.go, nlp_provider.go and the  *)
(* quotas of internal/ruriko/nlp).  The sync loop handles one message at a *)
(* time: a message that answers a pending confirmation runs the step that  *)
(* was shown or drops it, any other goes to the classifier, or to keyword  *)
(* matching when no API key is configured.  While the loop waits for the   *)
(* model, for a dispatched command or for the archive, time passes,        *)
(* secrets and configuration change, and the archive's runner works.       *)
(*                                                                         *)
(* A message text is what the code makes of it: whether it answers yes or  *)
(* no, and the words ParseIntent looks for.  The turn's pc: idle, sealing  *)
(* (archiving what the message sealed), classify (waiting for the model),  *)
(* reading (a command the answer reads from is running), dispatch (a       *)
(* confirmed command is running), correct (waiting for a correction).      *)
(***************************************************************************)
EXTENDS ConversationMemory

CONSTANTS Deployments,   \* what is configured, sent and answered
          SessionTTL,    \* sessionTTL
          Window,        \* the rate limiter's window
          MaxRetries,    \* nlMaxCorrectionRetries
          Topology,      \* the topology.* action keys
          Commands,      \* the action keys the router knows
          NoName         \* no secret, no key, no name

IsSeq(s) == s \in Seq(Range(s))

\* The constructors replace limits that are not positive by their defaults.
ASSUME DialogAssumption ==
    /\ SessionTTL \in Nat \ {0} /\ Window \in Nat \ {0} /\ MaxRetries \in Nat
    /\ Topology \subseteq Commands /\ \A key \in Keys : DOMAIN key = {"room", "sender"}
    /\ \A d \in Deployments :
          /\ d.keys \subseteq Keys /\ d.messages \in Nat /\ d.memory \in BOOLEAN
          /\ {d.limit, d.budget, d.historyMax, d.maxMessages, d.stmTokens} \subseteq Nat \ {0}
          /\ {d.ctxTokens, d.topK, d.summarySize, d.cooldown} \subseteq Nat
          /\ \A text \in d.texts : text.size \in Nat
          /\ \A resp \in d.answers \cup d.corrections :
                IsSeq(resp.steps) /\ IsSeq(resp.reads) /\ resp.tokens \in Nat
          /\ d.malformed \subseteq Nat
          /\ \A id \in DOMAIN d.upper : d.upper[id] \notin DOMAIN d.upper

VARIABLES sessions,  \* conversationStore.sessions
          turn,      \* the message the sync loop is handling
          limiter,   \* RateLimiter.counters: ages of the calls counted, by message
          usage,     \* TokenBudget.usage: tokens, and whether their day is over
          provider,  \* Handlers.nlpProviderCache
          apiKey,    \* the secret ruriko.nlp-api-key
          model,     \* nlp.model and nlp.endpoint of the configuration store
          present,   \* refs in the secret store
          history,   \* nlHistoryStore.history
          health,    \* nlpHealthState
          left,      \* messages, secret changes, configuration changes, midnights, crashes to come
          told,      \* history: what each key was shown, agreed to and had done
          calls,     \* history: ages of each sender's classifications, by message
          spent      \* history: tokens each sender used since midnight, and how many of
                     \* them in answers that could not be read

dialogVars == <<sessions, turn, limiter, usage, provider, apiKey, model, present, history, health,
                left, told, calls, spent>>
vars == <<conf, memoryVars, dialogVars>>

Senders == {key.sender : key \in Keys}
Idle == [pc |-> "idle"]
NothingSpent == [used |-> 0, unread |-> 0]
NoStep == [action |-> "", args |-> <<>>, flags |-> <<>>]
NothingTold == [step |-> NoStep, age |-> 0, plan |-> <<>>, accepted |-> 0, corrected |-> 0, seen |-> {}]

-----------------------------------------------------------------------------
(* Commands made from the model's answers. *)

PositionalToFlag(action) == IF action = "agents.create" THEN <<"name", "template", "image">> ELSE <<>>
AgentIDFlag(action) ==
    CASE action = "agents.create" -> {"name"}
      [] action \in {"schedule.upsert", "schedule.disable", "schedule.list"} -> {"agent"}
      [] OTHER -> {}
AgentIDArg(action) ==
    IF action \in {"agents.show", "agents.stop", "agents.start", "agents.respawn", "agents.status",
                   "agents.cancel", "agents.delete", "agents.matrix", "agents.disable", "gosuto.show",
                   "gosuto.versions", "gosuto.diff", "gosuto.set", "gosuto.rollback", "gosuto.push",
                   "secrets.bind", "secrets.unbind", "secrets.push"}
    THEN {1} ELSE {}

\* Lower-casing an agent ID; conf.upper are the IDs it changes.
Lower(id) == IF id \in DOMAIN conf.upper THEN conf.upper[id] ELSE id

\* Positional arguments become the flags a handler reads, explicit flags win.
Promoted(action, args, flags) ==
    LET names == PositionalToFlag(action)
        taken == Min({Len(args), Len(names)})
    IN  [args |-> SubSeq(args, taken + 1, Len(args)),
         flags |-> [f \in DOMAIN flags \cup {names[i] : i \in 1..taken} |->
                       IF f \in DOMAIN flags THEN flags[f] ELSE args[CHOOSE i \in 1..taken : names[i] = f]]]

NormaliseIDs(action, cmd) ==
    [action |-> action,
     args |-> [i \in DOMAIN cmd.args |-> IF i \in AgentIDArg(action) THEN Lower(cmd.args[i]) ELSE cmd.args[i]],
     flags |-> [f \in DOMAIN cmd.flags |-> IF f \in AgentIDFlag(action) THEN Lower(cmd.flags[f]) ELSE cmd.flags[f]]]

ActionKeyToCommand(action, args, flags) == NormaliseIDs(action, Promoted(action, args, flags))

StepOf(s) == ActionKeyToCommand(s.action, s.args, s.flags)

\* The pending steps of a command or a plan.
StepsOf(resp) ==
    IF resp.steps # <<>> THEN [i \in DOMAIN resp.steps |-> StepOf(resp.steps[i])] ELSE <<StepOf(resp)>>

BlockedNLMutationAction(resp) ==
    resp.action \in Topology \/ \E i \in DOMAIN resp.steps : resp.steps[i].action \in Topology

\* The corrected command, for the failed action when the answer names none.
CorrectedStep(resp, failed) ==
    LET s == IF resp.steps # <<>> THEN resp.steps[1] ELSE resp
    IN  StepOf([s EXCEPT !.action = IF @ = "" THEN failed ELSE @])

CorrectionIsEmpty(resp, failed) == resp.steps = <<>> /\ resp.action = "" /\ failed = ""

-----------------------------------------------------------------------------
(* Sessions. *)

\* Mutant: a pending step does not expire.
LiveForever(key) == key \in DOMAIN sessions

Live(key) == key \in DOMAIN sessions /\ sessions[key].age <= SessionTTL

SetSession(key, s) == sessions' = Updated(sessions, key, [s EXCEPT !.age = 0])

DeleteSession(key) == sessions' = Restrict(sessions, DOMAIN sessions \ {key})

\* conversationStore.get deletes what has expired.
SessionsAfterGet(key) ==
    IF Live(key) THEN sessions ELSE Restrict(sessions, DOMAIN sessions \ {key})

Shows(key, step) == told' = [told EXCEPT ![key].step = step, ![key].age = 0]

-----------------------------------------------------------------------------
(* The quotas and the provider.  A message's number is its place among all. *)

Number == conf.messages - left.messages + 1

ResetIfNeeded(u) == IF u.over THEN [tokens |-> 0, over |-> FALSE] ELSE u

BudgetAllows(sender) == ResetIfNeeded(usage[sender]).tokens < conf.budget

RecordUsage(sender, tokens) ==
    LET account == ResetIfNeeded(usage[sender])
    IN  usage' = [usage EXCEPT ![sender] = [account EXCEPT !.tokens = @ + tokens]]

InWindow(ages) == Restrict(ages, {n \in DOMAIN ages : ages[n] < Window})

LimiterAllows(sender) == Cardinality(DOMAIN InWindow(limiter[sender])) < conf.limit
Counted(sender) ==
    [limiter EXCEPT ![sender] = IF LimiterAllows(sender) THEN Updated(InWindow(@), Number, 0) ELSE InWindow(@)]

\* The secret wins over the environment's key.
EffectiveKey == IF apiKey # NoName THEN apiKey ELSE conf.envKey

\* Mutant: the cached provider is compared by its key only.
CacheHasKey == provider.key = EffectiveKey

CacheIsCurrent == provider.key = EffectiveKey /\ provider.model = model

\* resolveNLPProvider: NoName when there is no key.
Resolved ==
    IF EffectiveKey = NoName THEN [key |-> NoName, model |-> NoName]
    ELSE IF CacheIsCurrent THEN provider
    ELSE [key |-> EffectiveKey, model |-> model]

-----------------------------------------------------------------------------
(* A message is taken up. *)

Takes(key, text) ==
    /\ turn.pc = "idle" /\ left.messages > 0
    /\ key \in conf.keys /\ text \in conf.texts
    /\ left' = [left EXCEPT !.messages = @ - 1]

\* handleKeywordIntent on a message: the agent to create, if it asks for one.
ParseIntent(text) ==
    IF ~text.verb \/ text.keyword = NoName THEN {}
    ELSE {[template |-> text.keyword, agent |-> IF text.hint = NoName THEN conf.default ELSE text.hint]}

Usable(intent) ==
    IF intent.agent \in conf.invalid THEN [intent EXCEPT !.agent = conf.default] ELSE intent

CreateCommand(intent) ==
    [action |-> "agents.create", args |-> <<>>,
     flags |-> [name |-> intent.agent, template |-> intent.template]]

\* The secrets a template requires; none when it cannot be rendered.
RequiredSecrets(template) == IF template \in conf.broken THEN {} ELSE conf.required[template]

KeywordIntent(key, text) ==
    LET known == {i \in ParseIntent(text) : i.template \in DOMAIN conf.required} IN
    \/ known = {} /\ sessions' = SessionsAfterGet(key) /\ told' = told
    \/ \E parsed \in known :
         LET intent == Usable(parsed)
             required == RequiredSecrets(intent.template)
         IN  /\ SetSession(key, [kind |-> "keyword", intent |-> intent, missing |-> required \ present, age |-> 0])
             /\ told' = [told EXCEPT ![key] = [NothingTold EXCEPT !.step = CreateCommand(intent),
                                                                  !.seen = required \cap present]]

-----------------------------------------------------------------------------
(* Answers to a pending confirmation.  A session always has a pending step. *)

AnswersNo(key, text) ==
    /\ Takes(key, text) /\ Live(key) /\ text.answer = "no"
    /\ DeleteSession(key)
    /\ UNCHANGED <<conf, memoryVars, turn, limiter, usage, provider, apiKey, model, present, history,
                   health, told, calls, spent>>

\* Anything else leaves the session as it is, without a reply.
AnswersOther(key, text) ==
    /\ Takes(key, text) /\ Live(key) /\ text.answer = "other"
    /\ UNCHANGED <<conf, memoryVars, sessions, turn, limiter, usage, provider, apiKey, model, present,
                   history, health, told, calls, spent>>

Dispatching(key, step, nl) == [pc |-> "dispatch", key |-> key, step |-> step, nl |-> nl]

AnswersYes(key, text) ==
    /\ Takes(key, text) /\ Live(key) /\ text.answer = "yes" /\ sessions[key].kind = "nl"
    /\ turn' = Dispatching(key, Head(sessions[key].pending), TRUE)
    /\ UNCHANGED <<conf, memoryVars, sessions, limiter, usage, provider, apiKey, model, present, history,
                   health, told, calls, spent>>

StillMissing(s) == s.missing \ present

\* The secrets that were missing are looked up again.
ConfirmsCreation(key, text) ==
    /\ Takes(key, text) /\ Live(key) /\ text.answer = "yes" /\ sessions[key].kind = "keyword"
    /\ LET s == sessions[key]
           step == CreateCommand(s.intent)
       IN  IF StillMissing(s) # {}
           THEN /\ SetSession(key, [s EXCEPT !.missing = StillMissing(s)])
                /\ turn' = turn
                /\ told' = [told EXCEPT ![key].step = step, ![key].age = 0,
                                        ![key].seen = @ \cup (s.missing \cap present)]
           ELSE /\ DeleteSession(key)
                /\ turn' = Dispatching(key, step, FALSE)
                /\ told' = [told EXCEPT ![key].seen = @ \cup (s.missing \cap present)]
    /\ UNCHANGED <<conf, memoryVars, limiter, usage, provider, apiKey, model, present, history, health,
                   calls, spent>>

-----------------------------------------------------------------------------
(* A message without a live session. *)

KeywordPath(key, text) ==
    /\ Takes(key, text) /\ ~Live(key) /\ EffectiveKey = NoName
    /\ KeywordIntent(key, text)
    /\ UNCHANGED <<conf, memoryVars, turn, limiter, usage, provider, apiKey, model, present, history,
                   health, calls, spent>>

\* The call is counted before the budget is looked at.
MeetsQuotas(key, text) ==
    /\ Takes(key, text) /\ ~Live(key) /\ EffectiveKey # NoName
    /\ sessions' = SessionsAfterGet(key)
    /\ provider' = Resolved
    /\ limiter' = Counted(key.sender)
    /\ usage' = IF LimiterAllows(key.sender) THEN [usage EXCEPT ![key.sender] = ResetIfNeeded(@)] ELSE usage

ClassifyRefused(key, text) ==
    /\ MeetsQuotas(key, text)
    /\ ~(LimiterAllows(key.sender) /\ BudgetAllows(key.sender))
    /\ UNCHANGED <<conf, memoryVars, turn, apiKey, model, present, history, health, told, calls, spent>>

\* The bounded history kept when there is no conversation memory.
AppendHistory(key, msg) ==
    history' = [history EXCEPT ![key] = Newest(Append(@, msg), Min({Len(@) + 1, conf.historyMax}))]

ClassifyAdmitted(key, text) ==
    LET msg == Message(Number, key, "user", text.size)
        sealed == SealedBy(key)
        admitted(pc, context) == [pc |-> pc, key |-> key, text |-> text, msg |-> msg, provider |-> Resolved,
                                  conv |-> sealed, context |-> context]
    IN
    /\ MeetsQuotas(key, text)
    /\ LimiterAllows(key.sender) /\ BudgetAllows(key.sender)
    /\ IF conf.memory
       THEN /\ RecordMessage(key, msg)
            /\ turn' = admitted(IF sealed = NoConv THEN "assemble" ELSE "sealing", <<>>)
            /\ UNCHANGED <<history, calls>>
       ELSE /\ turn' = admitted("classify", history[key])
            /\ AppendHistory(key, msg)
            /\ calls' = [calls EXCEPT ![key.sender] = Updated(@, Number, 0)]
            /\ UNCHANGED <<convos, started, said>>
    /\ UNCHANGED <<conf, runner, ltm, gone, apiKey, model, present, health, told, spent>>

\* What the message sealed is archived before the model is asked.
ArchiveSealed ==
    /\ turn.pc = "sealing"
    /\ Seal(turn.conv)
    /\ turn' = [turn EXCEPT !.pc = "assemble", !.conv = NoConv]
    /\ UNCHANGED <<conf, convos, runner, started, said, sessions, limiter, usage, provider, apiKey, model,
                   present, history, health, left, told, calls, spent>>

AssemblesContext ==
    /\ turn.pc = "assemble"
    /\ \E found \in BOOLEAN :
          turn' = [turn EXCEPT !.pc = "classify", !.context = Assemble(turn.key, found)]
    /\ calls' = [calls EXCEPT ![turn.key.sender] = Updated(@, turn.msg.n, 0)]
    /\ UNCHANGED <<conf, memoryVars, sessions, limiter, usage, provider, apiKey, model, present, history,
                   health, left, told, spent>>

-----------------------------------------------------------------------------
(* The model's answer. *)

\* 429: the sender is told.
ClassifyDegraded ==
    /\ turn.pc = "classify" /\ conf.llmFails
    /\ health' = "degraded" /\ turn' = Idle
    /\ UNCHANGED <<conf, memoryVars, sessions, limiter, usage, provider, apiKey, model, present, history,
                   left, told, calls, spent>>

\* An answer that is not the JSON asked for: its tokens are dropped with it.
ClassifyMalformed(tokens) ==
    /\ turn.pc = "classify"
    /\ health' = "degraded" /\ turn' = Idle
    /\ spent' = [spent EXCEPT ![turn.key.sender] = [used |-> @.used + tokens, unread |-> @.unread + tokens]]
    /\ UNCHANGED <<conf, memoryVars, sessions, limiter, usage, provider, apiKey, model, present, history,
                   left, told, calls>>

\* Any other failure: the keywords decide.
ClassifyUnavailable ==
    /\ turn.pc = "classify" /\ conf.llmFails
    /\ health' = "unavailable" /\ turn' = Idle
    /\ KeywordIntent(turn.key, turn.text)
    /\ UNCHANGED <<conf, memoryVars, limiter, usage, provider, apiKey, model, present, history, left,
                   calls, spent>>

\* The reply joins the conversation; a conversation it seals is archived by nobody.
RecordAssistantMessage(key, replies) ==
    LET msg == Message(turn.msg.n, key, "assistant", 1)
        sealed == SealedBy(key)
    IN
    IF ~replies THEN UNCHANGED <<convos, started, said, gone, history>>
    ELSE IF conf.memory
    THEN /\ RecordMessage(key, msg)
         /\ gone' = IF sealed = NoConv THEN gone ELSE gone \cup {sealed.id}
         /\ history' = history
    ELSE /\ AppendHistory(key, msg)
         /\ UNCHANGED <<convos, started, said, gone>>

Proposes(resp) == resp.intent \in {"command", "plan"} /\ ~BlockedNLMutationAction(resp)

\* The refusal of a topology change and a proposal are replies.
Replies(resp) == resp.intent \in {"command", "plan"} \/ resp.says

ReadsFirst(resp) == resp.intent = "conversational" /\ resp.reads # <<>>

\* The answer is accounted to its sender.
Accounts(resp) ==
    /\ turn.pc = "classify" /\ health' = "ok"
    /\ RecordUsage(turn.key.sender, resp.tokens)
    /\ spent' = [spent EXCEPT ![turn.key.sender] = [used |-> @.used + resp.tokens, unread |-> @.unread]]

ClassifyAnswered(resp) ==
    /\ Accounts(resp) /\ ~ReadsFirst(resp)
    /\ turn' = Idle
    /\ LET key == turn.key IN
       /\ IF Proposes(resp)
          THEN /\ SetSession(key, [kind |-> "nl", pending |-> StepsOf(resp), total |-> Len(StepsOf(resp)),
                                   retry |-> 0, age |-> 0])
               /\ told' = [told EXCEPT ![key] = [NothingTold EXCEPT !.step = Head(StepsOf(resp)),
                                                                    !.plan = StepsOf(resp)]]
          ELSE UNCHANGED <<sessions, told>>
       /\ RecordAssistantMessage(key, Replies(resp))
    /\ UNCHANGED <<conf, runner, ltm, limiter, provider, apiKey, model, present, left, calls>>

\* A conversational answer is followed by the results of the commands it
\* names, one after the other: whatever their keys, without asking the sender.
Reading(queries, says) ==
    [pc |-> "reading", key |-> turn.key, msg |-> turn.msg, says |-> says, queries |-> queries,
     step |-> ActionKeyToCommand(Head(queries), <<>>, <<>>)]

ClassifyReads(resp) ==
    /\ Accounts(resp) /\ ReadsFirst(resp)
    /\ turn' = Reading(resp.reads, resp.says)
    /\ UNCHANGED <<conf, memoryVars, sessions, limiter, provider, apiKey, model, present, history, left,
                   told, calls>>

\* An error, or a key the router does not know, is passed over.
ReadReturns ==
    /\ turn.pc = "reading"
    /\ \E found \in BOOLEAN :
          LET says == turn.says \/ (found /\ turn.step.action \in Commands)
              queries == Tail(turn.queries)
          IN  IF queries # <<>>
              THEN turn' = Reading(queries, says) /\ UNCHANGED <<convos, started, said, gone, history>>
              ELSE turn' = Idle /\ RecordAssistantMessage(turn.key, says)
    /\ UNCHANGED <<conf, runner, ltm, sessions, limiter, usage, provider, apiKey, model, present, health,
                   left, told, calls, spent>>

-----------------------------------------------------------------------------
(* The dispatched command returns. *)

NLStepRunning == turn.pc = "dispatch" /\ turn.nl

\* A created agent, or the error, ends the keyword flow either way.
CreationReturns ==
    /\ turn.pc = "dispatch" /\ ~turn.nl
    /\ turn' = Idle
    /\ UNCHANGED <<conf, memoryVars, sessions, limiter, usage, provider, apiKey, model, present, history,
                   health, left, told, calls, spent>>

\* Mutant: a step that was accepted stays in the plan.
RemainingAll(s) == s.pending

Remaining(s) == Tail(s.pending)

\* The handler returned no error: the operation was done, or waits for approval.
StepAccepted ==
    /\ NLStepRunning /\ turn.step.action \in Commands
    /\ LET key == turn.key
           s == sessions[key]
           remaining == Remaining(s)
       IN  IF remaining # <<>>
           THEN /\ SetSession(key, [s EXCEPT !.pending = remaining, !.retry = 0])
                /\ told' = [told EXCEPT ![key].step = Head(remaining), ![key].age = 0,
                                        ![key].accepted = @ + 1, ![key].corrected = 0]
           ELSE /\ DeleteSession(key)
                /\ told' = [told EXCEPT ![key].accepted = @ + 1, ![key].corrected = 0]
    /\ turn' = Idle
    /\ UNCHANGED <<conf, memoryVars, limiter, usage, provider, apiKey, model, present, history, health,
                   left, calls, spent>>

\* An error that is not about the command's form, or one no correction was
\* found for: the session stays as old as it is, and the sender may retry.
OffersRetry ==
    /\ Shows(turn.key, turn.step)
    /\ turn' = Idle
    /\ UNCHANGED <<conf, memoryVars, sessions, limiter, usage, apiKey, model, present, history, health,
                   left, calls, spent>>

StepFailed == NLStepRunning /\ OffersRetry /\ UNCHANGED provider

GivesUp(s) == s.retry >= MaxRetries

\* A validation error: given up after MaxRetries corrections, else the model is asked.
StepInvalid ==
    /\ NLStepRunning /\ turn.step.action \in Commands
    /\ IF GivesUp(sessions[turn.key])
       THEN DeleteSession(turn.key) /\ turn' = Idle /\ provider' = provider
       ELSE /\ EffectiveKey # NoName
            /\ turn' = [pc |-> "correct", key |-> turn.key, step |-> turn.step, provider |-> Resolved]
            /\ provider' = Resolved
            /\ sessions' = sessions
    /\ UNCHANGED <<conf, memoryVars, limiter, usage, apiKey, model, present, history, health, left, told,
                   calls, spent>>

\* Correcting asks neither the limiter nor the budget, and is not accounted.
CorrectionArrives(resp) ==
    /\ turn.pc = "correct" /\ ~CorrectionIsEmpty(resp, turn.step.action)
    /\ LET key == turn.key
           step == CorrectedStep(resp, turn.step.action)
       IN  /\ SetSession(key, [sessions[key] EXCEPT !.pending[1] = step, !.retry = @ + 1])
           /\ told' = [told EXCEPT ![key].step = step, ![key].age = 0, ![key].corrected = @ + 1]
    /\ turn' = Idle
    /\ UNCHANGED <<conf, memoryVars, limiter, usage, provider, apiKey, model, present, history, health,
                   left, calls, spent>>

CorrectionFails == turn.pc = "correct" /\ OffersRetry /\ UNCHANGED provider

-----------------------------------------------------------------------------
(* The world around the loop. *)

Capped(age, cap) == Min({age + 1, cap})
TickAges(ages, cap) == [n \in DOMAIN ages |-> Capped(ages[n], cap)]

Tick ==
    /\ MemoryTick
    /\ sessions' = [key \in DOMAIN sessions |-> [sessions[key] EXCEPT !.age = Capped(@, SessionTTL + 1)]]
    /\ told' = [key \in Keys |-> [told[key] EXCEPT !.age = Capped(@, SessionTTL + 1)]]
    /\ limiter' = [sender \in Senders |-> TickAges(limiter[sender], Window)]
    /\ calls' = [sender \in Senders |-> InWindow(TickAges(calls[sender], Window))]
    /\ UNCHANGED <<conf, turn, usage, provider, apiKey, model, present, history, health, left, spent>>

Midnight ==
    /\ left.midnights > 0
    /\ left' = [left EXCEPT !.midnights = @ - 1]
    /\ usage' = [sender \in Senders |-> [usage[sender] EXCEPT !.over = usage[sender].tokens > 0]]
    /\ spent' = [sender \in Senders |-> NothingSpent]
    /\ UNCHANGED <<conf, memoryVars, sessions, turn, limiter, provider, apiKey, model, present, history,
                   health, told, calls>>

\* Secrets are stored through Kuze and removed by commands, the
\* configuration is set by commands, of this or of another room.
SecretsChange ==
    /\ left.secrets > 0
    /\ left' = [left EXCEPT !.secrets = @ - 1]
    /\ \/ \E ref \in UNION {conf.required[t] : t \in DOMAIN conf.required} :
             /\ present' = (present \cup {ref}) \ (present \cap {ref})
             /\ UNCHANGED <<apiKey, model>>
       \/ \E key \in conf.apiKeys \ {apiKey} : apiKey' = key /\ UNCHANGED <<present, model>>
       \/ \E name \in conf.models \ {model} : model' = name /\ UNCHANGED <<present, apiKey>>
    /\ UNCHANGED <<conf, memoryVars, sessions, turn, limiter, usage, provider, history, health, told,
                   calls, spent>>

RunnerSeals == SealExpired /\ UNCHANGED dialogVars
RunnerArchives == ArchiveNext /\ UNCHANGED dialogVars

Start ==
    /\ sessions' = <<>> /\ turn' = Idle
    /\ limiter' = [sender \in Senders |-> <<>>] /\ calls' = [sender \in Senders |-> <<>>]
    /\ usage' = [sender \in Senders |-> [tokens |-> 0, over |-> FALSE]] /\ spent' = [sender \in Senders |-> NothingSpent]
    /\ provider' = [key |-> NoName, model |-> NoName]
    /\ history' = [key \in Keys |-> <<>>] /\ health' = "ok"
    /\ told' = [key \in Keys |-> NothingTold]

\* Everything but the databases is in memory.
Crash ==
    /\ left.crashes > 0
    /\ left' = [left EXCEPT !.crashes = @ - 1]
    /\ Forget(IF turn.pc = "sealing" THEN {turn.conv} ELSE {})
    /\ Start
    /\ UNCHANGED <<conf, apiKey, model, present>>

-----------------------------------------------------------------------------
Init ==
    /\ conf \in Deployments
    /\ MemoryInit
    /\ sessions = <<>> /\ turn = Idle
    /\ limiter = [sender \in Senders |-> <<>>] /\ calls = [sender \in Senders |-> <<>>]
    /\ usage = [sender \in Senders |-> [tokens |-> 0, over |-> FALSE]] /\ spent = [sender \in Senders |-> NothingSpent]
    /\ provider = [key |-> NoName, model |-> NoName]
    /\ apiKey \in conf.apiKeys /\ model \in conf.models
    /\ present \in SUBSET UNION {conf.required[t] : t \in DOMAIN conf.required}
    /\ history = [key \in Keys |-> <<>>] /\ health = "ok"
    /\ told = [key \in Keys |-> NothingTold]
    /\ left = [messages |-> conf.messages, secrets |-> conf.secrets, midnights |-> conf.midnights,
               crashes |-> conf.crashes]

Arrives ==
    \E key \in conf.keys, text \in conf.texts :
       \/ AnswersNo(key, text)       \/ AnswersOther(key, text)
       \/ AnswersYes(key, text)      \/ ConfirmsCreation(key, text)
       \/ KeywordPath(key, text)
       \/ ClassifyRefused(key, text) \/ ClassifyAdmitted(key, text)

\* What the loop waits for: the model, the summariser, the embedder (whose
\* HTTP clients have timeouts) and the databases.
Proceeds ==
    \/ ArchiveSealed \/ AssemblesContext
    \/ ClassifyDegraded \/ ClassifyUnavailable
    \/ \E tokens \in conf.malformed : ClassifyMalformed(tokens)
    \/ \E resp \in conf.answers : ClassifyAnswered(resp) \/ ClassifyReads(resp)
    \/ \E resp \in conf.corrections : CorrectionArrives(resp)
    \/ CorrectionFails

\* The dispatched command, in the loop's own goroutine.  Nothing bounds it: the
\* handlers' Docker calls have neither a timeout nor a deadline.
CommandReturns == CreationReturns \/ StepAccepted \/ StepFailed \/ StepInvalid \/ ReadReturns

Next ==
    \/ Arrives \/ Proceeds \/ CommandReturns \/ Tick \/ Midnight \/ SecretsChange
    \/ RunnerSeals \/ RunnerArchives \/ Crash

Spec == Init /\ [][Next]_vars
FairSpec == Spec /\ WF_vars(Proceeds) /\ WF_vars(RunnerSeals) /\ WF_vars(RunnerArchives)

-----------------------------------------------------------------------------
(* Properties. *)

Pcs == {"idle", "sealing", "assemble", "classify", "reading", "dispatch", "correct"}

\* The states the code's types and limits allow: a waiting session has a
\* pending step, a running step belongs to its session, no quota is exceeded.
TypeOK ==
    /\ conf \in Deployments /\ turn.pc \in Pcs
    /\ DOMAIN convos \subseteq Keys /\ DOMAIN sessions \subseteq Keys
    /\ \A key \in DOMAIN convos : convos[key].key = key /\ convos[key].idle \in 0..(conf.cooldown + 1)
    /\ \A key \in DOMAIN sessions :
          /\ sessions[key].age \in 0..(SessionTTL + 1)
          /\ sessions[key].kind = "nl" => sessions[key].pending # <<>>
    /\ turn.pc = "correct" \/ NLStepRunning =>
          /\ turn.key \in DOMAIN sessions /\ sessions[turn.key].kind = "nl"
          /\ turn.step = Head(sessions[turn.key].pending)
    /\ \A sender \in Senders : Cardinality(DOMAIN limiter[sender]) <= conf.limit
    /\ \A key \in Keys : Len(history[key]) <= conf.historyMax
    /\ health \in {"ok", "degraded", "unavailable"}
    /\ DOMAIN said = 1..started

Tracked(id) == \E key \in DOMAIN convos : convos[key].id = id
BeingSealed(id) == (\E conv \in runner : conv.id = id) \/ (turn.pc = "sealing" /\ turn.conv.id = id)
Archived(id) == \E i \in DOMAIN ltm : ltm[i].id = id
Homes == {"tracked", "sealing", "archived", "gone"}
IsHome(home, id) == \/ home = "tracked" /\ Tracked(id)
                    \/ home = "sealing" /\ BeingSealed(id)
                    \/ home = "archived" /\ Archived(id)
                    \/ home = "gone" /\ id \in gone

\* A conversation that was started is in exactly one place: active in the
\* tracker, in the hands of one sealer, archived once, or given up: its
\* store failed or keeps nothing, the process ended, or the assistant's own
\* reply sealed it (recordMessageAt and SealExpired race for it).
OneHome == \A id \in 1..started : Cardinality({home \in Homes : IsHome(home, id)}) = 1

\* What the tracker and the archive hold of a conversation are its newest
\* messages without a gap, within both limits of enforceBufferLimits (one
\* message may exceed the token limit alone).
BufferIsNewest ==
    \A conv \in {convos[key] : key \in DOMAIN convos} \cup Range(ltm) :
       /\ conv.msgs # <<>> /\ IsSuffix(conv.msgs, said[conv.id])
       /\ Len(conv.msgs) <= conf.maxMessages
       /\ Len(conv.msgs) = 1 \/ EstimateTokens(conv.msgs) <= conf.stmTokens

\* The classifier is shown messages and summaries of the same room and
\* sender only; with memory they end with the message to classify (unless
\* its conversation went stale and was sealed before it was asked) and fit
\* the context budget unless that message alone exceeds it.
ContextIsOwn ==
    [][turn'.pc = "classify" /\ turn.pc # "classify" =>
          LET context == turn'.context IN
          /\ \A i \in DOMAIN context : context[i].key = turn'.key
          /\ conf.memory /\ IsActive(turn.key) => context # <<>> /\ Last(context) = turn.msg
          /\ conf.memory => Len(context) <= 1 \/ EstimateTokens(context) <= conf.ctxTokens]_vars

\* A dialogue hands a command to the router either because the same sender
\* in the same room answered yes, at most sessionTTL after being shown this
\* very command, or to read from it.  What is read from is any command the
\* model names (handleNLReadQueries checks no key), but it carries no
\* argument and no flag, `_approved` included.
ConfirmedIsShown ==
    [][/\ turn'.pc = "dispatch" /\ turn.pc # "dispatch" =>
             turn'.step = told[turn'.key].step /\ told[turn'.key].age <= SessionTTL
       /\ turn'.pc = "reading" => turn'.step.args = <<>> /\ DOMAIN turn'.step.flags = {}]_vars

\* The pending steps are the proposal's without the ones accepted, in its
\* order, and only the first of them may have been corrected; its number in
\* the prompt is its place in the proposal.
PlanKept ==
    \A key \in DOMAIN sessions :
       sessions[key].kind = "nl" =>
          LET s == sessions[key]
              t == told[key]
          IN  /\ t.accepted = s.total - Len(s.pending)
              /\ Tail(s.pending) = SubSeq(t.plan, t.accepted + 2, Len(t.plan))
              /\ s.retry = 0 => Head(s.pending) = t.plan[t.accepted + 1]

\* A step is corrected at most MaxRetries times, however often its
\* dispatch fails in between for other reasons.
CorrectionsBounded == \A key \in Keys : told[key].corrected <= MaxRetries

\* A topology change is pending only as the correction of a failed step:
\* handleNLCommandIntent refuses an answer that proposes one, a correction
\* (correctedStepFromClassifyResponse) is not looked at.
TopologyNeedsCorrection ==
    \A key \in DOMAIN sessions :
       sessions[key].kind = "nl" =>
          \A i \in DOMAIN sessions[key].pending :
             sessions[key].pending[i].action \in Topology => i = 1 /\ told[key].corrected > 0

\* Agent IDs are lower-case in every command a dialogue may run, wherever
\* the model put them.
IdsNormalised ==
    \A key \in DOMAIN sessions :
       sessions[key].kind = "nl" =>
          \A i \in DOMAIN sessions[key].pending :
             LET step == sessions[key].pending[i] IN
             /\ \A j \in AgentIDArg(step.action) \cap DOMAIN step.args : step.args[j] \notin DOMAIN conf.upper
             /\ \A f \in AgentIDFlag(step.action) \cap DOMAIN step.flags : step.flags[f] \notin DOMAIN conf.upper

\* The keyword flow creates an agent only after it saw every required
\* secret in the store since it proposed the agent, unless the template
\* could not be rendered to find out which they are.
CreationHasSecrets ==
    [][turn'.pc = "dispatch" /\ turn.pc # "dispatch" /\ ~turn'.nl =>
          LET template == turn'.step.flags["template"] IN
          template \in conf.broken \/ conf.required[template] \subseteq told'[turn'.key].seen]_vars

\* A sender's classifications within the window stay within the limit, in
\* whatever rooms.  With memory there may be one more: the call is counted
\* before the conversation that the message sealed is archived, and the model
\* asked after it.  Corrections are not counted.
CallsWithinWindow ==
    \A sender \in Senders : Cardinality(DOMAIN calls[sender]) <= conf.limit + IF conf.memory THEN 1 ELSE 0

Accounted(sender) == spent[sender].used - spent[sender].unread

\* The tokens of a sender's classifications since midnight (or the last start)
\* pass the daily budget by less than one answer, midnight between asking and
\* accounting included, but for the tokens of answers that are not JSON:
\* those, like a correction's, are in no account.
SpentWithinBudget ==
    \A sender \in Senders :
       \/ Accounted(sender) < conf.budget
       \/ \E resp \in conf.answers : Accounted(sender) < conf.budget + resp.tokens

\* A message is classified, and a step corrected, by a provider made of the
\* key and configuration in force when the provider was resolved.
ProviderIsCurrent ==
    [][turn'.pc \in {"sealing", "assemble", "classify", "correct"} /\ turn.pc \in {"idle", "dispatch"} =>
          turn'.provider = [key |-> EffectiveKey, model |-> model]]_vars

\* Every message is finished: the loop gets back to the room, unless a
\* command it dispatched never returns.
TurnsEnd == []<>(turn.pc = "idle") \/ <>[](turn.pc \in {"dispatch", "reading"})

\* No conversation stays stale in the tracker, and the runner is not stuck
\* with one, even when nobody writes again.
StaleIsSealed == /\ \A key \in Keys : []<>(~IsStale(key))
                 /\ []<>(runner = {})

\* The state is well typed, the pending steps are what is left of the proposal but for the
\* correction of the first, and the quotas hold across rooms, windows and midnight.
Inv == TypeOK /\ PlanKept /\ CorrectionsBounded /\ TopologyNeedsCorrection /\ IdsNormalised /\ CallsWithinWindow /\ SpentWithinBudget

\* A conversation is in one place, whoever seals it, and is held without gaps, its newest
\* messages first to be kept (tracker.go, seal.go).
ConversationsKept == OneHome /\ BufferIsNewest

\* What runs is the command its sender was shown and confirmed in time, or a bare one the
\* answer reads from; an agent is created only with the secrets its template is known to require.
OnlyConfirmedRuns == ConfirmedIsShown /\ CreationHasSecrets

\* Every message is finished unless its command never returns, and a conversation that went
\* quiet is archived even when nobody writes again.
DialogProgresses == TurnsEnd /\ StaleIsSealed
=============================================================================
