---------------------------- MODULE MCAgentTurns ----------------------------
(***************************************************************************)
(* Each deployment makes one hazard happen: approvals that race their      *)
(* deadlines, tools of two turns at once, the model's hard limit, replayed *)
(* messages, repeated control requests, the limiters, the webhooks.        *)
(***************************************************************************)
EXTENDS AgentTurns, TLC

CONSTANTS gated, plain, send,     \* tools
          r1, r2, u1, u2,         \* rooms, users
          c1, c2, d1, d2, d3, d4, d5

MCTurns == 1..5
MCExecutors == MCTurns \cup {c1, c2}

Call(tool) == [tool |-> tool, arg |-> "none", valid |-> TRUE]
Rule(tools, approval) == [tools |-> tools, forbids |-> {"bad"}, allow |-> TRUE, approval |-> approval]
Deny(tools) == [tools |-> tools, forbids |-> {}, allow |-> FALSE, approval |-> FALSE]

Base == [name |-> "kairo", caps |-> <<Rule({gated}, TRUE), Rule({plain, send, gated}, FALSE)>>,
         approvals |-> TRUE, ttl |-> 1, targets |-> TRUE, perMinute |-> 1,
         rooms |-> {r1}, senders |-> {u1}, adminRoom |-> TRUE,
         protocol |-> "none", eventProtocol |-> "none", gateways |-> <<>>, maxEvents |-> 2]
Strict == [Base EXCEPT !.caps = <<Deny({plain}), Rule({gated}, TRUE)>>, !.ttl = 0]

ToSelf(room, sender) == [room |-> room, sender |-> sender, target |-> "kairo", protocol |-> FALSE]
Proto(target) == [room |-> r1, sender |-> u1, target |-> target, protocol |-> TRUE]

Nothing == [configs |-> {Base}, messages |-> <<>>, answers |-> {}, calls |-> <<>>, deliveries |-> <<>>,
            rows |-> {[enabled |-> TRUE, url |-> TRUE]}, logFails |-> FALSE,
            limit |-> 0, steps |-> 0, pushes |-> 0, decisions |-> 0, restarts |-> 0]

Gated == [Nothing EXCEPT !.configs = {Base, Strict}, !.messages = <<ToSelf(r1, u1)>>,
             !.answers = {<<Call(gated), Call(gated)>>,
                          <<[Call(plain) EXCEPT !.arg = "bad"], [Call(plain) EXCEPT !.valid = FALSE], Call(plain)>>},
             !.pushes = 1, !.decisions = 2]
Queue == [Nothing EXCEPT !.messages = <<ToSelf(r1, u1), ToSelf(r1, u1)>>,
             !.answers = {<<Call(gated)>>}, !.decisions = 1]
Admission == [Nothing EXCEPT
             !.configs = {Base, [Base EXCEPT !.rooms = {r2}, !.senders = {u2}, !.protocol = "reject"],
                                [Base EXCEPT !.protocol = "steps", !.name = "saito"]},
             !.messages = <<ToSelf(r1, u2), Proto(""), Proto("saito")>>, !.pushes = 1, !.restarts = 1]
Hook(type, auth) == [type |-> type, auth |-> auth]
Delivery(via, source, bearer, sig) ==
    [via |-> via, source |-> source, bearer |-> bearer, sig |-> sig, envelope |-> TRUE, after |-> {}]
Local(source, after) == [Delivery("local", source, FALSE, FALSE) EXCEPT !.after = after]
AnyRow == {[enabled |-> e, url |-> u] : e, u \in BOOLEAN}
Limited == [Nothing EXCEPT
             !.configs = {[Base EXCEPT !.gateways = "cron" :> Hook("cron", "bearer"), !.eventProtocol = "steps"]},
             !.messages = <<ToSelf(r1, u1)>>, !.deliveries = d1 :> Local("cron", {}),
             !.answers = {<<Call(plain)>>}, !.limit = 2, !.steps = 2]
Sends == [Nothing EXCEPT !.logFails = TRUE,
             !.configs = {Base, [Base EXCEPT !.targets = FALSE], [Base EXCEPT !.perMinute = 0, !.caps = <<>>]}, !.messages = <<ToSelf(r1, u1)>>,
             !.answers = {<<Call(send), Call(send)>>}]
Repeated == [Nothing EXCEPT
             !.calls = (c1 :> [kind |-> "tool", key |-> "k", call |-> Call(gated)])
                       @@ (c2 :> [kind |-> "tool", key |-> "k", call |-> Call(gated)]),
             !.decisions = 2, !.restarts = 1]
Restarted == [Nothing EXCEPT !.messages = <<ToSelf(r1, u1)>>, !.answers = {<<Call(gated)>>}, !.decisions = 1,
             !.calls = (c1 :> [kind |-> "restart", key |-> "k"]) @@ (c2 :> [kind |-> "restart", key |-> "k"])]
BusyConfig(max) ==
    [Base EXCEPT !.gateways = ("a" :> Hook("external", "bearer")) @@ ("b" :> Hook("webhook", "bearer")),
                 !.adminRoom = FALSE, !.maxEvents = max]
Busy == [Nothing EXCEPT !.configs = {BusyConfig(1), BusyConfig(2)}, !.pushes = 1,
             !.deliveries = (d1 :> Local("a", {})) @@ (d2 :> Local("a", {d1}))
                         @@ (d3 :> Local("b", {})) @@ (d4 :> Local("b", {d3})) @@ (d5 :> Local("b", {d4}))]
Bearer == [Base EXCEPT !.gateways = "b" :> Hook("webhook", "bearer"), !.eventProtocol = "reject"]
Signed == [Base EXCEPT !.gateways = ("b" :> Hook("webhook", "hmac")) @@ ("a" :> Hook("external", "bearer")),
                        !.adminRoom = FALSE]
Hooks == [Nothing EXCEPT !.logFails = TRUE, !.configs = {Bearer, Signed}, !.pushes = 1,
             !.deliveries = (d1 :> Delivery("proxy", "b", FALSE, TRUE)) @@ (d2 :> Delivery("proxy", "b", TRUE, FALSE))
                         @@ (d3 :> Delivery("remote", "b", FALSE, TRUE))]
Strangers == [Nothing EXCEPT !.rows = AnyRow, !.configs = {Bearer, Signed}, !.pushes = 1,
             !.deliveries = (d1 :> Delivery("proxy", "b", FALSE, FALSE)) @@ (d2 :> Delivery("remote", "b", FALSE, FALSE))
                         @@ (d3 :> [Delivery("remote", "a", TRUE, FALSE) EXCEPT !.envelope = FALSE])]

MCDeployments == {Gated, Queue, Admission, Limited, Sends, Repeated, Restarted, Busy, Hooks, Strangers}
SignedOnly == {[Hooks EXCEPT !.configs = {Signed}, !.pushes = 0]}
=============================================================================
