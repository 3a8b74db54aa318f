------------------------------ MODULE Workflow ------------------------------
(***************************************************************************)
(* The workflow engine of an agent (internal/gitai/workflow): a message is *)
(* matched against the protocols of a validated configuration, and the     *)
(* steps of the protocol run in order, some with retries, loops with       *)
(* nested steps.  Tools and the model are called through a dispatcher.     *)
(*                                                                         *)
(* runStep calls itself for the nested steps of a for_each, so a run keeps *)
(* a stack of loops.  pc: load, inbound, step (runStep is about to run the *)
(* current step), tool and model (waiting for the dispatcher), returned    *)
(* (runStep returned ret to its caller), ended, refused, hung (Run never   *)
(* returns: a text is expanded for ever, or the stack overflows).          *)
(***************************************************************************)
EXTENDS WorkflowValues

CONSTANTS DefaultMaxIterations,   \* defaultForEachMaxIterations
          MaxNesting,             \* how deep the loops of a configuration are nested
          MaxCounted,             \* where the history's count of a place's calls stops
          Deployments             \* configurations to explore, with their inputs

VARIABLES deployment,
          pc,
          protocol,    \* the protocol that is run
          state,       \* State: input, values, outputs (StepOutputs), final
          trace,       \* State.Trace: status, completed, toolCalls
          at,          \* Run's loop: step i and the attempt
          loops,       \* the for_each calls of runStep, outermost first
          ret,         \* what runStep returned
          whole,       \* a persist step stored the map of values or outputs itself
          asked,       \* history: calls of the dispatcher, by place: the step, the loops around it, how often
          returned     \* history: what each place returned last, and its step

vars == <<deployment, pc, protocol, state, trace, at, loops, ret, whole, asked, returned>>
historyVars == <<asked, returned>>

config == deployment.config
StepKey(i) == StepKeys[i + 1]

----------------------------------------------------------------------------
(* Validation of the configuration *)

Nested(steps) == UNION {Range(s.steps) : s \in {x \in steps : x.type = "for_each"}}

\* Mutant: the validator does not look into loops.
OnlyTopLevel(p) == Range(p.steps)

(* The steps of a protocol that are in n loops, and all its steps.         *)
Levels(p) ==
    LET level[n \in 0..MaxNesting] == IF n = 0 THEN Range(p.steps) ELSE Nested(level[n - 1])
    IN  level
AllSteps(p) == UNION {Levels(p)[n] : n \in 0..MaxNesting}

(* A configuration is what the loader's YAML gives: lists of steps,        *)
(* numbers where numbers belong, and loops nested to some depth.           *)
IsList(s) == s \in Seq(Range(s)) /\ Len(s) <= Len(StepKeys)
ASSUME WorkflowAssumption ==
    /\ DefaultMaxIterations \in Nat \ {0} /\ MaxExpansions \in Nat \ {0} /\ MaxNesting \in Nat
    /\ MaxCounted \in Nat \ {0} /\ StepKeys \in Seq(Range(StepKeys))
    /\ \A i, j \in DOMAIN StepKeys : StepKeys[i] = StepKeys[j] => i = j
    /\ \A d \in Deployments :
          /\ d.config.protocols \in Seq(Range(d.config.protocols)) /\ d.config.protocols # <<>>
          /\ \A p \in Range(d.config.protocols) :
                /\ IsList(p.steps) /\ p.retries \in Int
                /\ \A s \in AllSteps(p) : IsList(s.steps) /\ s.retries \in Int /\ s.max \in Int
                /\ \A s \in Levels(p)[MaxNesting] : s.type # "for_each"

StepTypes == {"parse_input", "tool", "branch", "summarize", "plan", "send_message", "persist",
              "for_each", "collect"}

ValidRef(ref) == ref = "" \/ ref \in DOMAIN config.schemas
ValidStep(s) ==
    /\ s.type \in StepTypes /\ s.retries >= 0 /\ s.maxItems >= 0
    /\ ValidRef(s.schema) /\ ValidRef(s.iterSchema) /\ ValidRef(s.resultSchema)
    /\ s.type # "for_each" => s.iterSchema = "" /\ s.resultSchema = ""
    /\ s.type = "plan" => s.prompt # <<>> /\ s.schema # ""
    /\ s.type = "for_each" => s.items # <<>> /\ s.max >= 0 /\ s.steps # <<>>
    /\ s.type = "collect" => s.from # <<>> /\ s.mode \in {"result", "entry", "outputs", "item"}

validateWorkflowTrigger(p) ==
    p.trigger = "gateway.event" \/ (p.trigger = "matrix.protocol_message" /\ p.prefix # "")

ValidProtocol(p) ==
    /\ p.id # "" /\ validateWorkflowTrigger(p)
    /\ p.retries >= 0 /\ ValidRef(p.schema)
    /\ \A s \in AllSteps(p) : ValidStep(s)

validateWorkflow == \A k \in DOMAIN config.protocols : ValidProtocol(config.protocols[k])

----------------------------------------------------------------------------
Ended == {"ended", "refused", "hung"}
NoRun == [input |-> Obj(<<>>), values |-> <<>>, outputs |-> <<>>, final |-> -1]
NoReturn == [ok |-> TRUE, value |-> Nil, calls |-> 0, why |-> "none"]

TypeOK ==
    /\ deployment \in Deployments
    /\ pc \in {"load", "inbound", "step", "tool", "model", "returned"} \cup Ended
    /\ protocol \in 0..Len(config.protocols)
    /\ trace.status \in {"running", "success", "error"}
    /\ trace.completed \in 0..Len(StepKeys) /\ trace.toolCalls \in Nat
    /\ at.i \in 0..Len(StepKeys) /\ at.attempt \in Nat
    /\ state.final \in -1..Len(StepKeys) /\ DOMAIN state.outputs \subseteq Range(StepKeys)
    /\ \A k \in DOMAIN loops : loops[k].iter \in 0..Len(loops[k].items) - 1
    /\ ret.why \in {"none", "shape", "data", "schema", "tool", "model", "nested"}
    /\ \A place \in DOMAIN asked : asked[place].times \in Nat

Init ==
    /\ deployment \in Deployments
    /\ pc = "load" /\ protocol = 0
    /\ state = NoRun
    /\ trace = [status |-> "running", completed |-> 0, toolCalls |-> 0]
    /\ at = [i |-> 0, attempt |-> 1]
    /\ loops = <<>> /\ ret = NoReturn /\ whole = FALSE
    /\ asked = <<>> /\ returned = <<>>

LoadConfig ==
    /\ pc = "load"
    /\ pc' = IF validateWorkflow THEN "inbound" ELSE "refused"
    /\ UNCHANGED <<deployment, protocol, state, trace, at, loops, ret, whole, historyVars>>

----------------------------------------------------------------------------
(* A message [prefixes, payload, sender, room]: the triggers' prefixes it  *)
(* begins with, and the JSON object after it, Missing when there is none.  *)

Matches(p, msg) == p.trigger = "matrix.protocol_message" /\ p.prefix # "" /\ p.prefix \in msg.prefixes

isTrustedProtocolPeer(p, msg) ==
    \E peer \in config.trusted : peer.mxid = msg.sender /\ peer.room = msg.room /\ p.id \in peer.protocols

validateProtocolInputSchema(p, payload) ==
    p.schema = "" \/ (p.schema \in DOMAIN config.schemas /\ validatePayloadAgainstSchema(config.schemas[p.schema], payload))

Accepts(p, msg) ==
    msg.payload # Missing /\ validateProtocolInputSchema(p, msg.payload) /\ isTrustedProtocolPeer(p, msg)

(* The first protocol whose prefix the message has; 0 for none.            *)
FirstOf(found) == IF found = {} THEN 0 ELSE Min(found)
FirstMatch(msg) == FirstOf({k \in DOMAIN config.protocols : Matches(config.protocols[k], msg)})

(* MatchInboundProtocol, then ExecuteProtocol: the values of the new state *)
(* start as the payload.                                                   *)
MatchInboundProtocol ==
    /\ pc = "inbound"
    /\ LET msg == deployment.message
           k == FirstMatch(msg)
       IN  IF k = 0 \/ ~Accepts(config.protocols[k], msg)
           THEN pc' = "refused" /\ UNCHANGED <<protocol, state>>
           ELSE /\ pc' = IF config.protocols[k].steps = <<>> THEN "ended" ELSE "step"
                /\ protocol' = k
                /\ state' = [NoRun EXCEPT !.input = msg.payload, !.values = msg.payload[2]]
    /\ trace' = [trace EXCEPT !.status = IF pc' = "ended" THEN "success" ELSE @]
    /\ UNCHANGED <<deployment, at, loops, ret, whole, historyVars>>

----------------------------------------------------------------------------
(* runStep *)

Proto == config.protocols[protocol]
Loop == Last(loops)
InLoop == loops # <<>>
Step == IF InLoop THEN Loop.step.steps[Loop.nested + 1] ELSE Proto.steps[at.i + 1]

(* Where the current step is: the step of the protocol, then iteration and *)
(* nested step of each loop around it.                                     *)
Place == [i |-> at.i, path |-> [d \in DOMAIN loops |-> [iter |-> loops[d].iter, nested |-> loops[d].nested]]]

Value(template) == interpolateValue(template, state)

Return(value, calls) ==
    /\ pc' = "returned"
    /\ ret' = [ok |-> TRUE, value |-> value, calls |-> calls, why |-> "none"]
    /\ returned' = With(returned, Place, [step |-> Step, value |-> value])
Fail(why, calls) ==
    /\ pc' = "returned"
    /\ ret' = [ok |-> FALSE, value |-> Nil, calls |-> calls, why |-> why]
    /\ UNCHANGED returned
Hang == pc' = "hung" /\ UNCHANGED <<ret, returned>>

(* The step goes on with the values of its templates, if each has one.     *)
AnyEndless(values) == Endless \in values
Needs(values) == Missing \notin values /\ ~AnyEndless(values)
NeedFails(values) ==
    \/ AnyEndless(values) /\ Hang
    \/ Missing \in values /\ Fail("data", 0)

runs == <<deployment, protocol, trace, at, whole>>
AtStep(type) == pc = "step" /\ Step.type = type

Ask(next) ==
    /\ pc' = next
    /\ LET n == IF Place \in DOMAIN asked THEN asked[Place].times ELSE 0
       IN  asked' = With(asked, Place, [step |-> Step, around |-> [d \in DOMAIN loops |-> loops[d].step],
                                        times |-> Min({n + 1, MaxCounted})])
    /\ UNCHANGED <<ret, returned>>

ParseInput ==
    /\ AtStep("parse_input")
    /\ state' = [state EXCEPT !.values = With(@, "parsed_input", state.input)]
    /\ Return(state.input, 0)
    /\ UNCHANGED <<runs, loops, asked>>

Tool ==
    /\ AtStep("tool")
    /\ LET args == {interpolateArgs(Step.args, state)}
       IN  CASE Step.tool = "" -> Fail("shape", 0) /\ UNCHANGED asked
             [] Step.tool # "" /\ Needs(args) -> Ask("tool")
             [] OTHER -> NeedFails(args) /\ UNCHANGED asked
    /\ UNCHANGED <<runs, loops, state>>

(* A prompt, a target and a payload must be texts, and not empty; one that *)
(* is not configured never is.                                             *)
NonEmptyText(v) == Is(v, "string") /\ outputPresent(v)
NoText(template) == Fail(IF template = <<>> THEN "shape" ELSE "data", 0)

SendMessage ==
    /\ AtStep("send_message")
    /\ LET target == Value(Step.target)
           message == Value(Step.payload)
       IN  CASE ~Needs({target}) -> NeedFails({target}) /\ UNCHANGED asked
             [] Needs({target}) /\ ~NonEmptyText(target) -> NoText(Step.target) /\ UNCHANGED asked
             [] NonEmptyText(target) /\ ~Needs({message}) -> NeedFails({message}) /\ UNCHANGED asked
             [] NonEmptyText(target) /\ NonEmptyText(message) -> Ask("tool")
             [] OTHER -> NoText(Step.payload) /\ UNCHANGED asked
    /\ UNCHANGED <<runs, loops, state>>

Summarize ==
    /\ pc = "step" /\ Step.type \in {"summarize", "plan"}
    /\ LET prompt == Value(Step.prompt)
       IN  CASE Step.type = "plan" /\ Step.schema = "" -> Fail("shape", 0) /\ UNCHANGED asked
             [] ~Needs({prompt}) -> NeedFails({prompt}) /\ UNCHANGED asked
             [] NonEmptyText(prompt) -> Ask("model")
             [] OTHER -> NoText(Step.prompt) /\ UNCHANGED asked
    /\ UNCHANGED <<runs, loops, state>>

(* {{state}} and {{steps}} are the live maps: the map of values then holds *)
(* itself.  Until the step of the protocol ends the model reads the copy.  *)
LiveMaps == {<<Token(<<"state">>)>>, <<Token(<<"steps">>)>>}

Persist ==
    /\ AtStep("persist")
    /\ LET v == Value(Step.value)
       IN  CASE Step.key = "" -> Fail("shape", 0) /\ UNCHANGED <<state, whole>>
             [] Step.key # "" /\ Needs({v}) ->
                   /\ state' = [state EXCEPT !.values = With(@, Step.key, v)] /\ Return(v, 0)
                   /\ whole' = (whole \/ Step.value \in LiveMaps)
             [] OTHER -> NeedFails({v}) /\ UNCHANGED <<state, whole>>
    /\ UNCHANGED <<deployment, protocol, trace, at, loops, asked>>

Collect ==
    /\ AtStep("collect")
    /\ LET source == Value(Step.from)
           collected == Collected(asInterfaceSlice(source), Step.mode, Step.flatten)
       IN  CASE Step.from = <<>> -> Fail("shape", 0)
             [] Step.from # <<>> /\ ~Needs({source}) -> NeedFails({source})
             [] Is(source, "array") /\ collected # Missing -> Return(collected, 0)
             [] OTHER -> Fail("data", 0)
    /\ UNCHANGED <<runs, loops, state, asked>>

Branch ==
    /\ AtStep("branch")
    /\ Fail("shape", 0)
    /\ UNCHANGED <<runs, loops, state, asked>>

----------------------------------------------------------------------------
(* The dispatcher's answers.  A tool answers a text.  The model answers    *)
(* [raw, json]: its text, and what the text decodes to without a code      *)
(* fence around it, Missing when it is not JSON.                           *)

ToolAnswers ==
    /\ pc = "tool"
    /\ \/ \E v \in deployment.results : Return(v, 1)
       \/ Fail("tool", 1)
    /\ UNCHANGED <<runs, loops, state, asked>>

ModelAnswers ==
    /\ pc = "model"
    /\ \/ \E a \in deployment.answers :
             IF Step.type = "plan" \/ summarizeShouldParseStructured(config.schemas, Step.schema)
             THEN IF a.json = Missing THEN Fail("model", 0) ELSE Return(a.json, 0)
             ELSE Return(a.raw, 0)
       \/ Fail("model", 0)
    /\ UNCHANGED <<runs, loops, state, asked>>

----------------------------------------------------------------------------
(* for_each *)

MaxIterations(s) == IF s.max > 0 THEN s.max ELSE DefaultMaxIterations

(* The first items, as many as there are and the limit allows.             *)
Truncated(s, items) ==
    LET n == Max({k \in 0..MaxIterations(s) : 1..k \subseteq DOMAIN items})
    IN  [k \in 1..n |-> items[k]]

ValueOr(values, k) == IF k \in DOMAIN values THEN values[k] ELSE Missing
(* The name of the index is longer than the item's, so they never collide. *)
Bind(values, l) == With(With(values, l.step.index, Num(l.iter)), l.step.var, l.items[l.iter + 1])

(* The deferred function: the loop's variables are what they were.         *)
Put(values, k, old) ==
    IF old # Missing THEN With(values, k, old)
    ELSE [x \in DOMAIN values \ {k} |-> values[x]]
Restore(values, l) == Put(Put(values, l.step.var, l.oldItem), l.step.index, l.oldIndex)

ForEach ==
    /\ AtStep("for_each")
    /\ LET source == Value(Step.items)
           items == Truncated(Step, asInterfaceSlice(source))
           loop == [step |-> Step, items |-> items, iter |-> 0, nested |-> 0,
                    outputs |-> <<>>, final |-> Nil, results |-> <<>>, calls |-> 0,
                    oldItem |-> ValueOr(state.values, Step.var), oldIndex |-> ValueOr(state.values, Step.index)]
       IN  IF Step.items # <<>> /\ Is(source, "array") /\ Step.steps # <<>> /\ items # <<>>
           THEN /\ loops' = Append(loops, loop)
                /\ state' = [state EXCEPT !.values = Bind(@, loop)]
                /\ UNCHANGED <<pc, ret, returned>>
           ELSE /\ CASE Step.items = <<>> -> Fail("shape", 0)
                     [] Step.items # <<>> /\ ~Needs({source}) -> NeedFails({source})
                     [] Needs({source}) /\ ~Is(source, "array") -> Fail("data", 0)
                     [] Is(source, "array") /\ Step.steps = <<>> -> Fail("shape", 0)
                     [] OTHER -> Return(Arr(<<>>), 0)
                /\ UNCHANGED <<loops, state>>
    /\ UNCHANGED <<runs, asked>>

Conforms(s, v) ==
    validateOutputAgainstSchemaRef(config.schemas, s.schema, v) /\ validateStepMaxOutputItems(s.maxItems, v)

(* The iteration's record: item, index, outputs and result.                *)
Contract(l) ==
    Obj([index |-> Num(l.iter), item |-> l.items[l.iter + 1],
         outputs |-> Obj([k \in {StepKey(j - 1) : j \in DOMAIN l.outputs} |->
                             l.outputs[CHOOSE j \in DOMAIN l.outputs : StepKey(j - 1) = k]]),
         result |-> l.final])
IterationConforms(l) ==
    /\ validateOutputAgainstSchemaRef(config.schemas, l.step.resultSchema, l.final)
    /\ validateOutputAgainstSchemaRef(config.schemas, l.step.iterSchema, Contract(l))

(* The nested step returned: the loop fails, goes on with the next nested  *)
(* step, with the next item, or is done.  A loop that ends restores its    *)
(* variables and returns to the loop around it or to Run.                  *)
WithReturn(l) ==
    [l EXCEPT !.calls = @ + ret.calls, !.outputs = Append(@, ret.value),
              !.final = IF outputPresent(ret.value) THEN ret.value ELSE @]

\* Mutant: an iteration starts with the result of the one before.
KeepsFinal(l) == [l EXCEPT !.iter = @ + 1, !.nested = 0, !.outputs = <<>>, !.results = Append(@, Contract(l))]

NextIteration(l) == [KeepsFinal(l) EXCEPT !.final = Nil]

LeaveLoop == loops' = Front(loops) /\ state' = [state EXCEPT !.values = Restore(@, Loop)]

(* An end of the loop is a return of the step that is the loop.            *)
OuterPlace == [i |-> at.i, path |-> Front(Place.path)]
LoopReturns(value, calls) ==
    /\ LeaveLoop /\ pc' = "returned"
    /\ ret' = [ok |-> TRUE, value |-> value, calls |-> calls, why |-> "none"]
    /\ returned' = With(returned, OuterPlace, [step |-> Loop.step, value |-> value])
LoopFails(why, calls) == LeaveLoop /\ Fail(why, calls)

\* Mutant: the outputs of nested steps are not validated.
NestedUnchecked == TRUE

NestedConforms == Conforms(Step, ret.value)

NestedReturns ==
    /\ pc = "returned" /\ InLoop
    /\ LET l == WithReturn(Loop)
           n == NextIteration(l)
       IN  CASE ~ret.ok -> LoopFails("nested", l.calls)
             [] ret.ok /\ ~NestedConforms -> LoopFails("schema", l.calls)
             [] ret.ok /\ NestedConforms /\ l.nested + 1 < Len(l.step.steps) ->
                   /\ loops' = [loops EXCEPT ![Len(loops)] = [l EXCEPT !.nested = @ + 1]]
                   /\ pc' = "step" /\ UNCHANGED <<state, ret, returned>>
             [] OTHER ->
                   CASE ~IterationConforms(l) -> LoopFails("schema", l.calls)
                     [] IterationConforms(l) /\ n.iter < Len(n.items) ->
                           /\ loops' = [loops EXCEPT ![Len(loops)] = n]
                           /\ state' = [state EXCEPT !.values = Bind(@, n)]
                           /\ pc' = "step" /\ UNCHANGED <<ret, returned>>
                     [] OTHER -> LoopReturns(Arr(n.results), l.calls)
    /\ UNCHANGED <<runs, asked>>

----------------------------------------------------------------------------
(* Run: the step of the protocol returned.                                 *)

\* Mutant: every type of step is retried.
RetriesAll(type) == type # "persist"

isSchemaRetryStep(type) == type \in {"parse_input", "summarize", "plan"}
RetryBudget(s) == IF s.retries > 0 THEN s.retries ELSE Proto.retries
Attempts(s) == IF isSchemaRetryStep(s.type) THEN 1 + RetryBudget(s) ELSE 1

StepContract(status, value, calls) ==
    Obj([status |-> Text(<<Lit(status)>>), output |-> value, toolCalls |-> Num(calls),
         stepIndex |-> Num(at.i), retryBudget |-> Num(RetryBudget(Step))])

FinalAfter(i, v) == IF outputPresent(v) THEN i ELSE state.final

StepSucceeds ==
    LET key == StepKey(at.i)
        done == at.i + 1 = Len(Proto.steps)
    IN  /\ state' = [state EXCEPT !.outputs = With(@, key, StepContract("success", ret.value, ret.calls)),
                                  !.values = IF outputPresent(ret.value) THEN With(@, key, ret.value) ELSE @,
                                  !.final = FinalAfter(at.i, ret.value)]
        /\ trace' = [status |-> IF done THEN "success" ELSE "running",
                     completed |-> at.i + 1, toolCalls |-> trace.toolCalls + ret.calls]
        /\ at' = [i |-> at.i + 1, attempt |-> 1]
        /\ pc' = IF done THEN "ended" ELSE "step"

\* Mutant: a failed attempt is not counted.
SameAttempt(n) == n

NextAttempt(n) == n + 1
StepIsRetried ==
    /\ at.attempt < Attempts(Step)
    /\ at' = [at EXCEPT !.attempt = NextAttempt(@)]
    /\ pc' = "step"
    /\ UNCHANGED <<state, trace>>

(* The calls of a step that failed are not counted.                        *)
CallsOnFailure(n, calls) == n
StepIsRefused ==
    /\ at.attempt >= Attempts(Step)
    /\ state' = [state EXCEPT !.outputs = With(@, StepKey(at.i), StepContract("error", Nil, 0))]
    /\ trace' = [status |-> "error", completed |-> at.i,
                 toolCalls |-> CallsOnFailure(trace.toolCalls, ret.calls)]
    /\ pc' = "ended"
    /\ UNCHANGED at

StepReturns ==
    /\ pc = "returned" /\ ~InLoop
    /\ IF ret.ok /\ Conforms(Step, ret.value) THEN ~whole /\ StepSucceeds
       ELSE StepIsRetried \/ StepIsRefused
    /\ UNCHANGED <<deployment, protocol, loops, ret, whole, historyVars>>

(* The output of a step that stored a live map, or of a loop with such a   *)
(* step, contains itself once it is under its key: printing it as the      *)
(* final output overflows the stack, which ends the process.               *)
PrintsItself ==
    /\ pc = "returned" /\ ~InLoop
    /\ ret.ok /\ Conforms(Step, ret.value) /\ whole
    /\ pc' = "hung"
    /\ UNCHANGED <<deployment, protocol, state, trace, at, loops, ret, whole, historyVars>>

----------------------------------------------------------------------------
Next ==
    \/ LoadConfig \/ MatchInboundProtocol
    \/ ParseInput \/ Tool \/ SendMessage \/ Summarize \/ Persist \/ Collect \/ Branch \/ ForEach
    \/ ToolAnswers \/ ModelAnswers
    \/ NestedReturns \/ StepReturns \/ PrintsItself

(* The engine runs in one goroutine and the client of the model has a      *)
(* timeout.  A tool may never answer: a call of an MCP tool has none.      *)
Spec == Init /\ [][Next]_vars
FairSpec == Spec /\ WF_vars(pc # "tool" /\ Next)

----------------------------------------------------------------------------
(* Properties *)

PersistKeys == {s.key : s \in {x \in AllSteps(Proto) : x.type = "persist"}} \cup {"parsed_input"}

(* While the nested steps of a loop run, its variable is the item of the   *)
(* current iteration, also after a nested loop that used the same variable *)
(* has ended; only a persist step may write over it.                       *)
ItemIsCurrent ==
    pc = "step" => \A k \in DOMAIN loops :
        LET v == loops[k].step.var
            shadowed == \E j \in k + 1..Len(loops) : v \in {loops[j].step.var, loops[j].step.index}
        IN  shadowed \/ v \in PersistKeys \/ ValueOr(state.values, v) = loops[k].items[loops[k].iter + 1]

(* After the last loop has ended no variable of a loop is left in the      *)
(* values that was not there before, or is the name of a step's output.    *)
LoopVarsAreGone ==
    (protocol # 0 /\ ~InLoop) =>
        \A s \in {x \in AllSteps(Proto) : x.type = "for_each"} : \A v \in {s.var, s.index} :
            v \in DOMAIN state.values => v \in DOMAIN state.input[2] \cup PersistKeys \cup Range(StepKeys)

(* A tool is called once at most at each place of the protocol, and the    *)
(* model once more for each retry of a step of the protocol itself; a loop *)
(* never goes past its limit.  So retries repeat no side effect, and the   *)
(* calls of a run are bounded by the protocol.                             *)
CallsWithinBudget ==
    \A place \in DOMAIN asked :
        LET call == asked[place] IN
        /\ call.times <= IF place.path = <<>> /\ call.step.type \in {"summarize", "plan"}
                         THEN 1 + RetryBudget(call.step) ELSE 1
        /\ \A d \in DOMAIN place.path : place.path[d].iter < MaxIterations(call.around[d])

(* A run that succeeds reports as many tool calls as were made, and one    *)
(* that fails those of the steps it completed; the steps' contracts add up *)
(* to the same number.                                                     *)
ToolPlaces == {p \in DOMAIN asked : asked[p].step.type \in {"tool", "send_message"}}
ReportsItsCalls ==
    pc = "ended" =>
        /\ trace.toolCalls = Cardinality({p \in ToolPlaces : p.i < trace.completed})
        /\ \A i \in 0..trace.completed - 1 :
              state.outputs[StepKey(i)][2].toolCalls = Num(Cardinality({p \in ToolPlaces : p.i = i}))

(* There is a contract for each completed step, and one with the error for *)
(* the step that failed; the final output is that of the last completed    *)
(* step that had one.                                                      *)
ContractsTellTheRun ==
    LET done == {i \in 0..Len(StepKeys) - 1 : StepKey(i) \in DOMAIN state.outputs}
        of(i) == state.outputs[StepKey(i)][2]
        ok(i) == of(i).status = Text(<<Lit("success")>>)
    IN  /\ {i \in done : ok(i)} = 0..trace.completed - 1
        /\ {i \in done : ~ok(i)} = IF trace.status = "error" THEN {trace.completed} ELSE {}
        /\ state.final = Max({-1} \cup {i \in done : ok(i) /\ outputPresent(of(i).output)})

(* What a loop hands on for an iteration is what its nested steps returned *)
(* in that iteration, and as the result the last of it that is present;    *)
(* nothing is left over from the iteration before.                         *)
Inside(place, iter, nested) == [i |-> place.i, path |-> Append(place.path, [iter |-> iter, nested |-> nested])]
IterationsKeepApart ==
    \A place \in DOMAIN returned : returned[place].step.type = "for_each" =>
        LET nested == DOMAIN returned[place].step.steps
            got(k, j) == returned[Inside(place, k - 1, j - 1)].value
            present(k) == {j \in nested : outputPresent(got(k, j))}
            entries == returned[place].value[2]
        IN  \A k \in DOMAIN entries :
               LET e == entries[k][2]
               IN  /\ e.index = Num(k - 1)
                   /\ \A j \in nested : e.outputs[2][StepKey(j - 1)] = got(k, j)
                   /\ e.result = IF present(k) = {} THEN Nil ELSE got(k, Max(present(k)))

(* Every output that a later step can read conforms to the schema and the  *)
(* limit of the step that made it, in the loops too.                       *)
StoredOutputsConform ==
    /\ \A i \in 0..trace.completed - 1 : Conforms(Proto.steps[i + 1], state.outputs[StepKey(i)][2].output)
    /\ \A d \in DOMAIN loops : \A k \in DOMAIN loops[d].results : \A j \in DOMAIN loops[d].step.steps :
          Conforms(loops[d].step.steps[j], loops[d].results[k][2].outputs[2][StepKey(j - 1)])

(* A protocol that validateWorkflow accepted never fails for a plan, a     *)
(* for_each or a collect step that lacks a field or a schema, nested ones  *)
(* included.                                                               *)
ValidatedIsExecutable ==
    pc = "returned" /\ ret.why = "shape" =>
        Step.type \in {"tool", "summarize", "send_message", "persist", "branch"}

(* The run hangs only when a text that came from outside, by the message,  *)
(* a tool or the model, contains a template token, or the protocol has a   *)
(* step that persists a live map.                                          *)
OutsideTexts ==
    {deployment.message.payload[2][k] : k \in DOMAIN deployment.message.payload[2]}
        \cup deployment.results \cup {a.raw : a \in deployment.answers}
HangsOnlyOnTokens ==
    pc = "hung" => \/ \E v \in OutsideTexts : HasToken(Printed(v))
                   \/ \E s \in AllSteps(Proto) : s.type = "persist" /\ s.value \in LiveMaps

(* A message runs the first protocol whose prefix it begins with or none:  *)
(* one that refuses it does not hand it to the next.                       *)
FirstPrefixDecides ==
    protocol # 0 => ~\E k \in 1..protocol - 1 : Matches(config.protocols[k], deployment.message)

(* Every run ends, in success, in an error or refused, unless it hangs or  *)
(* waits for a tool that never answers.                                    *)
RunStops == <>(pc \in Ended) \/ <>[](pc = "tool")

\* The state is well typed, the trace tells what the run did also when it failed, and
\* outputs that later steps read conform to their schemas.
Inv == TypeOK /\ ReportsItsCalls /\ ContractsTellTheRun /\ StoredOutputsConform

\* Loops share one flat map of values, and still neither a nested loop nor the iteration
\* before leaves anything in the variables or the result of the present one (runStep, for_each).
LoopsKeepApart == ItemIsCurrent /\ LoopVarsAreGone /\ IterationsKeepApart

\* Validation reaches all that the runner runs, nested steps included, and the first
\* protocol with a fitting prefix takes the message or refuses it.
ConfigurationDecides == ValidatedIsExecutable /\ FirstPrefixDecides

\* Every run ends unless a tool never answers (DispatchTool), and it hangs only where a text
\* from outside contains a template (interpolateString) or a step persists {{state}} or {{steps}}.
RunEnds == []HangsOnlyOnTokens /\ RunStops
=============================================================================
