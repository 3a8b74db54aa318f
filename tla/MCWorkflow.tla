----------------------------- MODULE MCWorkflow -----------------------------
(***************************************************************************)
(* Each deployment is a configuration, a message, and what the tools and   *)
(* the model may answer: a protocol without loops, one with plan, for_each *)
(* and collect, loops in loops that use one variable, protocols that do    *)
(* not fit together, texts that contain templates, and live maps.          *)
(***************************************************************************)
EXTENDS Workflow

T(s) == Text(<<Lit(s)>>)
Tok(a, b) == <<Token(<<a, b>>)>>

NoStep == [type |-> "", tool |-> "", args |-> <<>>, prompt |-> <<>>, target |-> <<>>, payload |-> <<>>,
           key |-> "", value |-> <<>>, items |-> <<>>, var |-> "item", index |-> "item_index", max |-> 0,
           steps |-> <<>>, from |-> <<>>, mode |-> "result", flatten |-> FALSE,
           schema |-> "", iterSchema |-> "", resultSchema |-> "", retries |-> 0, maxItems |-> 0]
Parse == [NoStep EXCEPT !.type = "parse_input"]
ToolOn(template) == [NoStep EXCEPT !.type = "tool", !.tool = "search", !.args = [q |-> template]]
Sum(prompt) == [NoStep EXCEPT !.type = "summarize", !.prompt = prompt]
Plan(schema) == [NoStep EXCEPT !.type = "plan", !.prompt = <<Lit("plan "), Token(<<"input", "q">>)>>, !.schema = schema]
Send(payload) == [NoStep EXCEPT !.type = "send_message", !.target = <<Lit("news")>>, !.payload = payload]
Keep(key, value) == [NoStep EXCEPT !.type = "persist", !.key = key, !.value = value]
Each(items, steps) == [NoStep EXCEPT !.type = "for_each", !.items = items, !.steps = steps]
CollectOf(from, mode) == [NoStep EXCEPT !.type = "collect", !.from = from, !.mode = mode]

Schema(type, required, properties) == [type |-> type, required |-> required, properties |-> properties]
Schemas == [list |-> Schema("array", {}, <<>>), text |-> Schema("string", {}, <<>>),
            plan |-> Schema("object", {"items"}, [items |-> "array"]),
            iteration |-> Schema("", {"item", "result"}, [index |-> "integer"])]

Protocol(steps) == [id |-> "p", trigger |-> "matrix.protocol_message", prefix |-> "NEWS", schema |-> "",
                    retries |-> 0, steps |-> steps]
Config(protocols) == [protocols |-> protocols, schemas |-> Schemas,
                      trusted |-> {[mxid |-> "kairo", room |-> "r", protocols |-> {"p"}]}]
Message(payload) == [prefixes |-> {"NEWS"}, payload |-> Obj(payload), sender |-> "kairo", room |-> "r"]

Deploy(protocols, payload, results, answers) ==
    [config |-> Config(protocols), message |-> Message(payload), results |-> results, answers |-> answers]

Answer(text, json) == [raw |-> T(text), json |-> json]
NotJson == Answer("sorry", Missing)
Two == Arr(<<T("x"), T("y")>>)
Three == Arr(<<T("x"), T("y"), T("z")>>)
Pairs == Arr(<<Two, Arr(<<T("z")>>)>>)

Blank == Text(<<>>)

Straight ==
    Deploy(<<[Protocol(<<Parse, ToolOn(Tok("input", "q")),
                         [Sum(<<Lit("sum "), Token(<<"steps", "step_1", "output">>)>>) EXCEPT !.schema = "list", !.maxItems = 2, !.retries = 2],
                         [Sum(<<Token(<<"steps", "step_2">>)>>) EXCEPT !.schema = "text"],
                         Send(<<Lit("got "), Token(<<"state", "step_1">>)>>)>>) EXCEPT !.retries = 1]>>,
           [q |-> T("q")], {T("found"), Blank, Text(<<Lit("{"), Brace>>)},
           {NotJson, Answer("two", Two), Answer("three", Three)})
Talk ==
    Deploy(<<Protocol(<<[Sum(<<Lit("sum "), Token(<<"input", "q">>)>>) EXCEPT !.schema = "text", !.retries = 1],
                        Send(<<Lit("got "), Token(<<"state", "step_0">>)>>), Keep("last", <<Lit("all "), Token(<<"steps">>)>>)>>)>>,
           [q |-> Two], {Blank, T("sent")}, {NotJson, [raw |-> Blank, json |-> Missing]})
Looped ==
    Deploy(<<Protocol(<<[Plan("plan") EXCEPT !.retries = 1],
                        [Each(Tok("state", "step_0") , <<ToolOn(Tok("state", "item"))>>) EXCEPT
                            !.items = <<Token(<<"steps", "step_0", "items">>)>>, !.max = 2,
                            !.steps = <<ToolOn(Tok("state", "item")), [Sum(<<Lit("of "), Token(<<"state", "item">>)>>) EXCEPT !.schema = "list", !.maxItems = 2]>>,
                            !.iterSchema = "iteration", !.resultSchema = "list"],
                        [CollectOf(Tok("steps", "step_1"), "result") EXCEPT !.flatten = TRUE],
                        CollectOf(Tok("steps", "step_1"), "outputs"), CollectOf(Tok("input", "q"), "item")>>)>>,
           [q |-> Two], {T("found")},
           {Answer("plan", Obj([items |-> Three])), Answer("two", Two), Answer("three", Three)})
Stale ==
    Deploy(<<Protocol(<<Each(Tok("input", "q"), <<ToolOn(Tok("state", "item")), Keep("last", Tok("state", "item_index"))>>),
                        Each(Tok("input", "q"), <<ToolOn(Tok("state", "item"))>>),
                        CollectOf(Tok("steps", "step_1"), "result"), Each(Tok("steps", "step_2"), <<Keep("r", Tok("state", "item"))>>),
                        CollectOf(Tok("steps", "step_3"), "entry")>>)>>,
           [q |-> Three, item |-> T("mine")], {T("found"), Blank}, {})
Shadowed ==
    Deploy(<<Protocol(<<Each(Tok("input", "q"),
                           <<Each(Tok("state", "item"), <<ToolOn(Tok("state", "item"))>>), ToolOn(Tok("state", "item"))>>),
                        [CollectOf(Tok("steps", "step_0"), "result") EXCEPT !.flatten = TRUE], Send(Tok("steps", "step_1"))>>)>>,
           [q |-> Pairs], {T("found"), Blank}, {})
Crossed ==
    Deploy(<<Protocol(<<Each(Tok("input", "q"),
                           <<[Each(Tok("input", "q"), <<ToolOn(Tok("state", "item"))>>) EXCEPT !.var = "item_index", !.index = "item_index_index", !.max = 1],
                             Keep("n", Tok("state", "item_index"))>>)>>)>>,
           [q |-> Two], {T("found")}, {})
Shapes == {<<ToolOn(<<Token(<<"none">>)>>)>>, <<[ToolOn(<<>>) EXCEPT !.tool = ""]>>, <<Sum(<<>>)>>, <<Sum(Tok("input", "q"))>>,
           <<Send(<<>>)>>, <<[Send(<<Lit("m")>>) EXCEPT !.target = Tok("input", "q")]>>, <<[Send(<<>>) EXCEPT !.target = Tok("input", "none")]>>,
           <<Send(Tok("steps", "step_9"))>>, <<Keep("", <<>>)>>, <<Keep("k", Tok("input", "none"))>>, <<Sum(Tok("steps", "none"))>>,
           <<[NoStep EXCEPT !.type = "branch"]>>, <<[NoStep EXCEPT !.type = "loop"]>>,
           <<Plan("")>>, <<Plan("none")>>, <<Each(<<>>, <<Parse>>)>>, <<Each(Tok("input", "r"), <<Parse>>)>>,
           <<Each(Tok("input", "none"), <<Parse>>)>>, <<Each(Tok("input", "q"), <<>>)>>, <<Each(Tok("input", "q"), <<Plan("")>>)>>,
           <<Each(Tok("input", "e"), <<Parse>>), CollectOf(Tok("steps", "step_0"), "item")>>,
           <<Each(Tok("input", "q"), <<Parse, Each(Tok("input", "q"), <<CollectOf(<<>>, "result")>>)>>)>>,
           <<CollectOf(<<>>, "result")>>, <<CollectOf(Tok("input", "none"), "result")>>, <<CollectOf(Tok("input", "q"), "first")>>, <<>>}
Broken == {Deploy(<<Protocol(s)>>, [q |-> Two, r |-> T("r"), e |-> Arr(<<>>)], {}, {}) : s \in Shapes}

Self(text) == {Deploy(<<Protocol(<<s>>)>>, [q |-> text], {}, {NotJson}) :
                  s \in {Sum(<<Lit("s"), Token(<<"input", "q">>)>>), Keep("k", <<Lit("s"), Token(<<"input", "q">>)>>),
                         Send(<<Lit("s"), Token(<<"input", "q">>)>>), ToolOn(<<Lit("s"), Token(<<"input", "q">>)>>),
                         Each(<<Lit("s"), Token(<<"input", "q">>)>>, <<Parse>>), CollectOf(<<Lit("s"), Token(<<"input", "q">>)>>, "item")}}
Templates == Self(Text(Tok("input", "q"))) \cup Self(Text(<<Token(<<"input">>)>>)) \cup Self(Text(Tok("input", "none")))

State == <<Token(<<"state">>)>>
Cyclic == {Deploy(<<Protocol(s)>>, [q |-> Two], {T("found")}, {}) :
              s \in {<<Keep("k", State)>>, <<[Keep("k", State) EXCEPT !.schema = "text"]>>, <<Parse, Keep("k", <<Token(<<"steps">>)>>), Parse>>,
                     <<Each(Tok("input", "q"), <<Keep("k", State), ToolOn(Tok("state", "item"))>>), Parse>>}}

Others == [Protocol(<<Parse>>) EXCEPT !.id = "other", !.prefix = "NEW", !.schema = "plan"]
Inbound == {[Deploy(<<[Others EXCEPT !.trigger = "gateway.event"], Others, Protocol(<<Parse>>)>>, [q |-> Two], {}, {}) EXCEPT !.message = m] :
               m \in {[Message([items |-> Two]) EXCEPT !.prefixes = ps] : ps \in SUBSET {"NEW", "NEWS"}}
                     \cup {[Message(<<>>) EXCEPT !.payload = Missing], [Message(<<>>) EXCEPT !.sender = "saito"]}}
           \cup {[Deploy(<<Others>>, [items |-> T("q")], {}, {}) EXCEPT
                     !.config.trusted = {[mxid |-> "kairo", room |-> "r", protocols |-> {"other"}]}, !.message.prefixes = {"NEW"}, !.message.payload = Obj(f)] :
                   f \in {[items |-> Two], [items |-> T("q")], [q |-> Two]}}

MCStepKeys == <<"step_0", "step_1", "step_2", "step_3", "step_4">>
NoPrefix == Deploy(<<[Protocol(<<Parse>>) EXCEPT !.prefix = ""]>>, <<>>, {}, {})
MCDeployments == {Straight, Talk, Looped, Stale, Shadowed, Crossed, NoPrefix} \cup Broken \cup Templates \cup Cyclic \cup Inbound
=============================================================================
