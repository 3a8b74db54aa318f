--------------------------- MODULE MCAgentRuntime ---------------------------
(***************************************************************************)
(* An agent with at most two requests and one crash.  Each deployment      *)
(* exercises one supervisor with configurations that add or remove what    *)
(* it runs, or change it; the mixed one drives two at a time.  A fresh     *)
(* agent starts without a configuration, and may get its secrets first.    *)
(***************************************************************************)
EXTENDS AgentRuntime

CONSTANTS a, g, s, c1, c2, s1, s2, key, var

MCCallers == {c1, c2, s1, s2, "run", "stop"}

None == <<>>
Server(c, auto) == [cmd |-> c, auto |-> auto]
Gateway(c, auto) == [command |-> 1, config |-> c, auto |-> auto]
Config(m, e, c) == [mcp |-> m, ext |-> e, cron |-> c, env |-> None, loaded |-> TRUE]
Keyed(c) == [c EXCEPT !.env = var :> key]

Star == [form |-> "star", step |-> 0]
Value(v) == [form |-> "value", from |-> v, step |-> 0]
Range1(v, w) == [form |-> "range", from |-> v, to |-> w, step |-> 2]
Fields(m, h) == [kind |-> "fields", minute |-> m, hour |-> h]
EveryHour == Fields(Value(0), Star)
MidDay == Fields(Value(1), Range1(1, 2))
OnceADay == Fields(Value(0), Value(1))

Quiet == [requests |-> {}, restarts |-> 0, edits |-> 0, stops |-> FALSE]
FreshDeployment == [requests |-> {c1, s1}] @@ Quiet @@ [configs |->
    {NoConfig, Keyed(Config(a :> Server(1, TRUE), None, None))}]
McpDeployment == [requests |-> {c1}] @@ Quiet @@ [configs |->
    {Config(a :> Server(1, TRUE), None, None),
     Config(a :> Server(2, TRUE), None, None),
     Config(None, None, None)}]
SecretsDeployment == [requests |-> {s1, s2}] @@ Quiet @@ [configs |->
    {Keyed(Config(a :> Server(1, FALSE), g :> Gateway(1, FALSE), None))}]
ExtDeployment == [requests |-> {c1}, stops |-> TRUE] @@ Quiet @@ [configs |->
    {Config(None, g :> Gateway(1, TRUE), None),
     Config(None, g :> Gateway(1, FALSE), None)}]
CronConfigs ==
    {Config(None, None, s :> [db |-> TRUE, boot |-> TRUE, expr |-> EveryHour]),
     Config(None, None, s :> [db |-> FALSE, boot |-> FALSE, expr |-> MidDay])}
CronReconfigured == [requests |-> {c1}] @@ Quiet @@ [configs |-> CronConfigs]
CronCrashes == [restarts |-> 1, edits |-> 1] @@ Quiet @@ [configs |-> CronConfigs]
CronEdited == [edits |-> 2] @@ Quiet @@ [configs |-> CronConfigs]
CronStops == [stops |-> TRUE, edits |-> 1] @@ Quiet @@ [configs |-> CronConfigs]
MixedDeployment == [requests |-> {c1, c2}] @@ Quiet @@ [configs |->
    {Config(None, None, None),
     Config(a :> Server(1, FALSE), g :> Gateway(1, FALSE), None)}]

MCDeployments == {FreshDeployment, McpDeployment, SecretsDeployment, ExtDeployment, MixedDeployment,
                  CronReconfigured, CronCrashes, CronEdited, CronStops}
MCUserEdits == {[expr |-> MidDay, enabled |-> TRUE], [expr |-> OnceADay, enabled |-> TRUE]}
=============================================================================
