----------------------------- MODULE MCNLDialog -----------------------------
(***************************************************************************)
(* Each deployment makes one hazard happen: plans whose steps fail and are *)
(* corrected, dialogues of several rooms and senders, the keyword flow     *)
(* while secrets come and go, the quotas around midnight, keys and models  *)
(* that change, and conversations that go quiet while the runner, a        *)
(* message, a late reply or a crash gets to them first.                    *)
(***************************************************************************)
EXTENDS NLDialog

CONSTANTS r1, r2, u1, u2

Key(room, sender) == [room |-> room, sender |-> sender]
MCKeys == {Key(r1, u1), Key(r2, u1), Key(r1, u2)}

Text(answer, size) == [answer |-> answer, verb |-> FALSE, keyword |-> NoName, hint |-> NoName, size |-> size]
Yes == Text("yes", 1)
No == Text("no", 1)
Chat(size) == Text("other", size)
Setup(hint) == [Chat(1) EXCEPT !.verb = TRUE, !.keyword = "saito-agent", !.hint = hint]
Unknown == [Chat(1) EXCEPT !.verb = TRUE, !.keyword = "kairo-agent"]

S(action, args, flags) == [action |-> action, args |-> args, flags |-> flags]
Answer(intent, step, steps) ==
    [intent |-> intent, says |-> FALSE, reads |-> <<>>, tokens |-> 2, steps |-> steps,
     action |-> step.action, args |-> step.args, flags |-> step.flags]
Create == S("agents.create", <<"Saito", "saito-agent">>, <<>>)
Stop == S("agents.stop", <<"Saito">>, <<>>)
Schedule == S("schedule.upsert", <<>>, "agent" :> "Saito")
PeerSet == S("topology.peer-set", <<"Saito">>, <<>>)

Plan == Answer("plan", NoStep, <<Create, Stop, Schedule>>)
Single == Answer("command", Create, <<>>)
Empty == Answer("command", NoStep, <<>>)
Blocked == Answer("plan", NoStep, <<Stop, PeerSet>>)
Talk == [Answer("conversational", NoStep, <<>>) EXCEPT !.says = TRUE]
Reads == [Answer("conversational", NoStep, <<>>) EXCEPT !.reads = <<"agents.stop", "agents.census">>]
Mute == Answer("unknown", NoStep, <<>>)

Base == [keys |-> {Key(r1, u1)}, texts |-> {}, messages |-> 0, secrets |-> 0, midnights |-> 0, crashes |-> 0,
         memory |-> FALSE, historyMax |-> 2, maxMessages |-> 3, stmTokens |-> 3, ctxTokens |-> 3, topK |-> 1,
         embeds |-> FALSE, keeps |-> TRUE, storeFails |-> FALSE, summarySize |-> 1, cooldown |-> 1,
         limit |-> 3, budget |-> 100, envKey |-> "env", apiKeys |-> {NoName}, models |-> {"m1"},
         required |-> <<>>, broken |-> {}, malformed |-> {}, default |-> "saito", invalid |-> {"-"}, upper |-> "Saito" :> "saito",
         answers |-> {}, corrections |-> {}, llmFails |-> FALSE]

Steps == [Base EXCEPT !.texts = {Yes, No, Chat(1)}, !.messages = 5, !.answers = {Plan, Single},
             !.corrections = {Answer("command", PeerSet, <<>>), Answer("plan", NoStep, <<S("", <<"Saito">>, <<>>)>>)}]
Odd == [Base EXCEPT !.texts = {Yes, Chat(1)}, !.messages = 3, !.answers = {Empty, Blocked, Mute},
             !.llmFails = TRUE, !.malformed = {2}]
Rooms == [Base EXCEPT !.keys = MCKeys, !.texts = {Yes, Chat(1)}, !.messages = 3, !.answers = {Single, Reads},
             !.limit = 2, !.crashes = 1]
Keywords == [Base EXCEPT !.envKey = NoName, !.texts = {Yes, No, Setup("-"), Unknown}, !.messages = 4,
             !.secrets = 3, !.required = "saito-agent" :> {"s1", "s2"}]
Fallback == [Keywords EXCEPT !.apiKeys = {NoName, "k1"}, !.texts = {Yes, Setup("kumo")}, !.messages = 3,
             !.llmFails = TRUE, !.broken = {"saito-agent"}]
Quotas == [Base EXCEPT !.texts = {Chat(1)}, !.messages = 5, !.answers = {Mute}, !.limit = 2, !.budget = 3,
             !.midnights = 2, !.malformed = {2}]
Rotation == [Base EXCEPT !.texts = {Yes, Chat(1)}, !.messages = 3, !.answers = {Single}, !.secrets = 3,
             !.apiKeys = {NoName, "k1", "k2"}, !.models = {"m1", "m2"}, !.corrections = {Single}]
Memory == [Base EXCEPT !.memory = TRUE, !.keys = {Key(r1, u1), Key(r1, u2)}, !.texts = {Chat(1)},
             !.messages = 3, !.answers = {Mute}, !.embeds = TRUE]
Late == [Base EXCEPT !.memory = TRUE, !.texts = {Chat(1)}, !.messages = 2, !.answers = {Talk, Reads},
             !.storeFails = TRUE]
Long == [Base EXCEPT !.memory = TRUE, !.texts = {Chat(1), Chat(3)}, !.messages = 3, !.answers = {Talk},
             !.stmTokens = 4, !.maxMessages = 4, !.keeps = FALSE]
Mortal == [Base EXCEPT !.memory = TRUE, !.limit = 1, !.texts = {Chat(1)}, !.messages = 3, !.answers = {Mute}, !.keeps = FALSE,
             !.crashes = 1]

MCDeployments == {Steps, Odd, Rooms, Keywords, Fallback, Quotas, Rotation, Memory, Late, Long, Mortal}
MCTopology == {"topology.peer-set"}
MCCommands == MCTopology \cup {"agents.create", "agents.stop", "schedule.upsert"}
=============================================================================
