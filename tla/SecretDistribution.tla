------------------------- MODULE SecretDistribution -------------------------
(***************************************************************************)
(* How the bound secrets of one agent get from Ruriko's store to the       *)
(* agent's memory: Distributor.distributeViaTokens (issue a Kuze token per *)
(* binding, POST /secrets/token with retries, MarkPushed), the agent's     *)
(* handleSecretsToken (redeem each lease, apply what was redeemed), and    *)
(* the commands that write, delete, bind and unbind secrets meanwhile.     *)
(* The agent holds values in memory only and for a limited time: they are  *)
(* gone when their time to live is over and when it restarts.              *)
(*                                                                         *)
(* A push is one call of PushToAgent; the command loop and a provisioning  *)
(* goroutine may both be inside one.  Its attempts are HTTP requests that  *)
(* the agent goes on serving after the client has given up on them.  The   *)
(* token store is the one of module Kuze; a redemption (burn, then Get) is *)
(* one step here.                                                          *)
(***************************************************************************)
EXTENDS Naturals, FiniteSetsExt

CONSTANTS NumRefs,      \* number of secret names; SQL orders bindings by name
          Pushes,       \* calls of PushToAgent explored
          MaxAttempts,  \* retry.DefaultConfig.MaxAttempts
          MaxWrites,    \* bound: values written to the secrets table
          MaxCalls,     \* bound: requests that reach the agent, of all pushes together
          MaxRemovals,  \* bound: deletions, unbindings, expiries, evictions and restarts
          MaxTokens     \* bound: leases issued by all pushes together

ASSUME DistributionAssumption ==
    /\ NumRefs \in Nat /\ MaxWrites \in Nat /\ MaxCalls \in Nat
    /\ MaxRemovals \in Nat /\ MaxTokens \in Nat
    /\ MaxAttempts \in Nat \ {0}

Refs == 1..NumRefs
Attempts == 1..MaxAttempts

VARIABLES secret,      \* secrets table: rotation_version and value; version 0 is no row
          lastPushed,  \* agent_secret_bindings: last_pushed_version of a bound secret
          bound,       \* agent_secret_bindings: the names bound to the agent
          token,       \* token[p][r]: the Kuze token push p issued for r
          push,        \* push[p]: what call p of distributeViaTokens is doing
          call,        \* call[p][k]: the agent serving attempt k of push p
          idemCache,   \* agent: idempotency keys of the requests that succeeded
          agent,       \* agent: the values held in memory; 0 is none
          written,     \* history: values written so far; a value is its number
          removals,    \* history: deletions, unbindings, expiries, evictions and restarts
          lost,        \* history: names whose value the agent dropped since its last Apply
          missed       \* history: names written, bound or pushed again under a push, left
                       \* out of a later push, or whose lease was not redeemed

vars == <<secret, lastPushed, bound, token, push, call, idemCache, agent, written, removals,
          lost, missed>>
ruriko == <<secret, lastPushed, bound, written>>
gitai == <<idemCache, agent, lost>>

PushState == [pc : {"ready", "send", "wait", "mark", "ok", "failed"},
              leases : SUBSET Refs, attempt : Nat, todo : SUBSET Refs]

CallState == [pc : {"none", "redeem", "reply", "done"}, todo : SUBSET Refs,
              got : [Refs -> Nat], ok : BOOLEAN]

TypeOK ==
    /\ secret \in [Refs -> [version : Nat, value : Nat]]
    /\ lastPushed \in [Refs -> Nat]
    /\ bound \in SUBSET Refs
    /\ token \in [Pushes -> [Refs -> {"none", "live", "dead"}]]
    /\ push \in [Pushes -> PushState]
    /\ call \in [Pushes -> [Attempts -> CallState]]
    /\ idemCache \in SUBSET (Pushes \X Attempts)
    /\ agent \in [Refs -> Nat]
    /\ written \in Nat
    /\ removals \in Nat
    /\ lost \in SUBSET Refs
    /\ missed \in SUBSET Refs

NoCall == [pc |-> "none", todo |-> {}, got |-> [r \in Refs |-> 0], ok |-> FALSE]

Init ==
    /\ secret = [r \in Refs |-> [version |-> 0, value |-> 0]]
    /\ lastPushed = [r \in Refs |-> 0]
    /\ bound = {}
    /\ token = [p \in Pushes |-> [r \in Refs |-> "none"]]
    /\ push = [p \in Pushes |-> [pc |-> "ready", leases |-> {}, attempt |-> 0, todo |-> {}]]
    /\ call = [p \in Pushes |-> [k \in Attempts |-> NoCall]]
    /\ idemCache = {}
    /\ agent = [r \in Refs |-> 0]
    /\ written = 0
    /\ removals = 0
    /\ lost = {}
    /\ missed = {}

-----------------------------------------------------------------------------
(* The secrets store and the commands that use it.                         *)

Exists(r) == secret[r].version > 0

\* No push is under way, and no attempt that a push gave up on is still being served.
Quiet == \A p \in Pushes : /\ push[p].pc \in {"ready", "ok", "failed"}
                           /\ \A k \in Attempts : call[p][k].pc \in {"none", "done"}

\* A write or a new binding that a push under way may not have seen.
Overtaken(r) == missed' = IF Quiet THEN missed ELSE missed \cup {r}

\* Something is taken away: counted, for the bound.
Removal == removals < MaxRemovals /\ removals' = removals + 1

\* Set: INSERT with rotation_version 1, or overwrite and count the rotation.
Set(r) ==
    /\ written < MaxWrites
    /\ written' = written + 1
    /\ secret' = [secret EXCEPT ![r] = [version |-> @.version + 1, value |-> written']]
    /\ Overtaken(r)
    /\ UNCHANGED <<removals, lastPushed, bound, token, push, call, gitai>>

\* Delete: the bindings go with the secret (ON DELETE CASCADE).
Delete(r) ==
    /\ Removal
    /\ Exists(r)
    /\ secret' = [secret EXCEPT ![r] = [version |-> 0, value |-> 0]]
    /\ bound' = bound \ {r}
    /\ lastPushed' = [lastPushed EXCEPT ![r] = 0]
    /\ UNCHANGED <<missed, written, token, push, call, gitai>>

\* Bind starts at version 0; binding again changes the scope only.
Bind(r) ==
    /\ Exists(r)
    /\ r \notin bound
    /\ bound' = bound \cup {r}
    /\ lastPushed' = [lastPushed EXCEPT ![r] = 0]
    /\ Overtaken(r)
    /\ UNCHANGED <<removals, secret, written, token, push, call, gitai>>

Unbind(r) ==
    /\ Removal
    /\ Exists(r)
    /\ r \in bound
    /\ bound' = bound \ {r}
    /\ lastPushed' = [lastPushed EXCEPT ![r] = 0]
    /\ UNCHANGED <<missed, secret, written, token, push, call, gitai>>

\* What StaleBindings returns.
StaleBindings == {r \in bound : lastPushed[r] < secret[r].version}

\* MarkPushed copies the version the secret has now.
MarkPushed(r) ==
    lastPushed' = IF r \in bound THEN [lastPushed EXCEPT ![r] = secret[r].version]
                  ELSE lastPushed

-----------------------------------------------------------------------------
(* distributeViaTokens.                                                    *)

\* The leases issued and the requests that reached the agent so far, for the bounds.
Issued == {x \in Pushes \X Refs : token[x[1]][x[2]] # "none"}
Served == {x \in Pushes \X Attempts : call[x[1]][x[2]].pc # "none"}

\* List the bindings and issue a token for each; a binding whose metadata or token fails
\* is skipped, and with no lease left the push returns without calling the agent.
IssueLeases(p) ==
    /\ push[p].pc = "ready"
    /\ \E leases \in SUBSET bound :
           /\ Cardinality(Issued) + Cardinality(leases) <= MaxTokens
           /\ push' = [push EXCEPT ![p].leases = leases,
                                   ![p].pc = IF leases # {} THEN "send"
                                             ELSE IF bound = {} THEN "ok" ELSE "failed",
                                   ![p].attempt = IF leases # {} THEN 1 ELSE 0]
           /\ token' = [token EXCEPT ![p] = [r \in Refs |->
                            IF r \in leases THEN "live" ELSE "none"]]
           /\ missed' = missed \cup {r \in bound : ~Quiet \/ (r \notin leases /\ lastPushed[r] > 0)}
    /\ UNCHANGED <<removals, ruriko, call, gitai>>

\* setCommonHeaders draws a fresh idempotency key for every request it sends.
IdempotencyKey(p, k) == <<p, k>>

\* retry.Do after a failed attempt: try again, or give up after MaxAttempts.
AttemptFailed(p) ==
    IF push[p].attempt < MaxAttempts
    THEN [push EXCEPT ![p].pc = "send", ![p].attempt = @ + 1]
    ELSE [push EXCEPT ![p].pc = "failed"]

\* client.ApplySecretsToken: the request reaches the agent, which looks the key up and
\* starts redeeming, or it is lost on the way.
Send(p) ==
    LET k      == push[p].attempt
        cached == IdempotencyKey(p, k) \in idemCache
    IN  /\ push[p].pc = "send"
        /\ \/ /\ Cardinality(Served) < MaxCalls
              /\ push' = [push EXCEPT ![p].pc = "wait"]
              /\ call' = [call EXCEPT ![p][k] =
                     [NoCall EXCEPT !.pc = IF cached THEN "reply" ELSE "redeem",
                                    !.ok = cached,
                                    !.todo = IF cached THEN {} ELSE push[p].leases]]
           \/ push' = AttemptFailed(p) /\ UNCHANGED call
        /\ UNCHANGED <<removals, missed, ruriko, token, gitai>>

\* Mutant: the HTTP client has no deadline and waits until the agent is done.
TimeoutNever(p) ==
    /\ push[p].pc = "wait"
    /\ call[p][push[p].attempt].pc = "done"
    /\ push' = AttemptFailed(p)
    /\ UNCHANGED <<removals, missed, ruriko, token, call, gitai>>

\* The client's deadline passes, or the connection breaks.
Timeout(p) ==
    /\ push[p].pc = "wait"
    /\ push' = AttemptFailed(p)
    /\ UNCHANGED <<removals, missed, ruriko, token, call, gitai>>

\* One MarkPushed per issued lease, in the order of the bindings; a failure is logged.
Mark(p) ==
    LET r == Min(push[p].todo)
    IN  /\ push[p].pc = "mark"
        /\ \/ MarkPushed(r)
           \/ UNCHANGED lastPushed
        /\ push' = [push EXCEPT ![p].todo = @ \ {r},
                                ![p].pc = IF push[p].todo = {r} THEN "ok" ELSE "mark"]
        /\ UNCHANGED <<removals, missed, secret, bound, written, token, call, gitai>>

-----------------------------------------------------------------------------
(* The agent: handleSecretsToken.                                          *)

\* Mutant: Kuze does not burn the token.
RedeemLeaseNoBurn(p, k) ==
    LET c == call[p][k]
        r == Min(c.todo)
    IN  /\ c.pc = "redeem"
        /\ c.todo # {}
        /\ token[p][r] = "live" /\ Exists(r)
        /\ call' = [call EXCEPT ![p][k] = [c EXCEPT !.todo = @ \ {r}, !.got[r] = secret[r].value]]
        /\ UNCHANGED <<removals, missed, ruriko, push, token, gitai>>

\* The next lease is redeemed: Kuze burns the token and returns the current value.
RedeemLease(p, k) ==
    LET c == call[p][k]
        r == Min(c.todo)
    IN  /\ c.pc = "redeem"
        /\ c.todo # {}
        /\ token[p][r] = "live" /\ Exists(r)
        /\ call' = [call EXCEPT ![p][k] = [c EXCEPT !.todo = @ \ {r}, !.got[r] = secret[r].value]]
        /\ token' = [token EXCEPT ![p][r] = "dead"]
        /\ UNCHANGED <<removals, missed, ruriko, push, gitai>>

\* The next lease cannot be redeemed and is skipped: its token is dead, its secret is
\* gone (the token is burned all the same), or the request or its answer is lost.
SkipLease(p, k) ==
    LET c == call[p][k]
        r == Min(c.todo)
    IN  /\ c.pc = "redeem"
        /\ c.todo # {}
        /\ call' = [call EXCEPT ![p][k].todo = @ \ {r}]
        /\ \/ UNCHANGED token
           \/ token' = [token EXCEPT ![p][r] = "dead"]
        /\ missed' = missed \cup {r}
        /\ UNCHANGED <<removals, ruriko, push, gitai>>

\* Every lease was tried.  With nothing redeemed the answer is 502; otherwise the redeemed
\* values replace everything the agent holds, and the key is remembered.
Apply(p, k) ==
    LET c   == call[p][k]
        any == \E r \in Refs : c.got[r] # 0
    IN  /\ c.pc = "redeem"
        /\ c.todo = {}
        /\ call' = [call EXCEPT ![p][k].pc = "reply", ![p][k].ok = any]
        /\ agent' = IF any THEN c.got ELSE agent
        /\ lost' = IF any THEN {} ELSE lost
        /\ idemCache' = IF any THEN idemCache \cup {IdempotencyKey(p, k)} ELSE idemCache
        /\ UNCHANGED <<removals, missed, ruriko, push, token>>

\* Mutant: every binding is marked, also one whose token could not be issued.
ReplyMarksBindings(p, k) ==
    LET c       == call[p][k]
        waiting == push[p].pc = "wait" /\ push[p].attempt = k
    IN  /\ c.pc = "reply"
        /\ call' = [call EXCEPT ![p][k].pc = "done"]
        /\ push' = IF ~waiting THEN push
                   ELSE IF c.ok THEN [push EXCEPT ![p].pc = "mark", ![p].todo = push[p].leases \cup bound]
                   ELSE AttemptFailed(p)
        /\ UNCHANGED <<removals, missed, ruriko, token, gitai>>

\* The answer: it matters only to a client that is still waiting for this attempt.
Reply(p, k) ==
    LET c       == call[p][k]
        waiting == push[p].pc = "wait" /\ push[p].attempt = k
    IN  /\ c.pc = "reply"
        /\ call' = [call EXCEPT ![p][k].pc = "done"]
        /\ push' = IF ~waiting THEN push
                   ELSE IF c.ok THEN [push EXCEPT ![p].pc = "mark", ![p].todo = push[p].leases]
                   ELSE AttemptFailed(p)
        /\ UNCHANGED <<removals, missed, ruriko, token, gitai>>

\* Manager.Evict, once a minute: the values whose time to live is over are cleared.
ValuesExpire(refs) ==
    /\ Removal
    /\ refs # {} /\ \A r \in refs : agent[r] # 0
    /\ agent' = [r \in Refs |-> IF r \in refs THEN 0 ELSE agent[r]]
    /\ lost' = lost \cup refs
    /\ UNCHANGED <<missed, ruriko, token, push, call, idemCache>>

\* The agent's process ends and starts again: what it held, the keys it remembered and the
\* requests it was serving are gone.  (With none of them a restart changes nothing.)
AgentRestarts ==
    /\ Removal
    /\ (\E r \in Refs : agent[r] # 0) \/ \E x \in Served : call[x[1]][x[2]].pc # "done"
    /\ agent' = [r \in Refs |-> 0]
    /\ idemCache' = {}
    /\ call' = [p \in Pushes |-> [k \in Attempts |->
                    IF call[p][k].pc \in {"redeem", "reply"}
                    THEN [call[p][k] EXCEPT !.pc = "done"] ELSE call[p][k]]]
    /\ lost' = Refs
    /\ UNCHANGED <<missed, ruriko, token, push>>

-----------------------------------------------------------------------------

\* AgentTTL passes for a token nobody redeemed.
TokenExpires(p, r) ==
    /\ Removal
    /\ token[p][r] = "live"
    /\ token' = [token EXCEPT ![p][r] = "dead"]
    /\ UNCHANGED <<missed, ruriko, push, call, gitai>>

Serve(p, k) == RedeemLease(p, k) \/ SkipLease(p, k) \/ Apply(p, k) \/ Reply(p, k)

Work(p) == Send(p) \/ Timeout(p) \/ Mark(p)

Next ==
    \/ \E r \in Refs : Set(r) \/ Delete(r) \/ Bind(r) \/ Unbind(r)
    \/ \E p \in Pushes : IssueLeases(p) \/ Work(p)
    \/ \E p \in Pushes, k \in Attempts : Serve(p, k)
    \/ \E p \in Pushes, r \in Refs : TokenExpires(p, r)
    \/ \E refs \in SUBSET Refs : ValuesExpire(refs)
    \/ AgentRestarts

Spec == Init /\ [][Next]_vars

\* A push that has begun goes on: the HTTP client has a deadline, so it never waits for
\* the agent for ever.
FairSpec == Spec /\ \A p \in Pushes : WF_vars(Work(p))

-----------------------------------------------------------------------------
(* Properties.                                                             *)

\* A push that reports success was answered 200 by an attempt that put at least one of
\* its own secrets into the agent, whatever was retried, lost or answered late.
SuccessMeansApplied ==
    \A p \in Pushes :
        push[p].pc \in {"mark", "ok"} /\ push[p].leases # {}
        => \E k \in Attempts : call[p][k].ok /\ \E r \in push[p].leases : call[p][k].got[r] # 0

\* The attempts of a push share its tokens, and still no lease yields its secret twice.
LeaseRedeemedOnce ==
    \A p \in Pushes, r \in Refs, j, k \in Attempts :
        call[p][j].got[r] # 0 /\ call[p][k].got[r] # 0 => j = k

\* last_pushed_version never runs ahead of rotation_version, also when a secret is deleted
\* and created again under a push: if it did, StaleBindings would miss rotations.
PushedNotAhead ==
    /\ \A r \in bound : lastPushed[r] <= secret[r].version
    /\ \A r \in Refs \ bound : lastPushed[r] = 0

\* PushToAgent returns, whatever the agent does (HTTP deadlines, bounded retries).
PushReturns ==
    \A p \in Pushes : push[p].pc = "send" ~> push[p].pc \in {"ok", "failed"}

\* A binding StaleBindings does not list has its current value in the agent's memory once
\* all is quiet, unless it was written or bound under a push, pushes overlapped, or one of
\* its leases came to nothing; or the agent got it and dropped it since, because its time to
\* live was over or the agent restarted, which StaleBindings cannot know.
UnlistedIsHeld ==
    Quiet => \A r \in bound \ (StaleBindings \cup missed) :
                 agent[r] = secret[r].value \/ r \in lost

\* The state is well typed, and whatever was lost, retried or answered late: success means
\* that the agent got something, no lease pays twice and no version is recorded that the
\* secret has not reached (distributeViaTokens, MarkPushed).
Inv == TypeOK /\ SuccessMeansApplied /\ LeaseRedeemedOnce /\ PushedNotAhead
=============================================================================
