-------------------------------- MODULE Kuze --------------------------------
(***************************************************************************)
(* Kuze, the secret plane of the Ruriko control plane                      *)
(* (internal/ruriko/kuze): one-time links through which a human enters a   *)
(* secret, one-time tokens with which an agent fetches one, and the loop   *)
(* that prunes dead tokens.                                                *)
(*                                                                         *)
(* Every HTTP request is served by a goroutine of its own; the store has   *)
(* one SQLite connection, so each statement or transaction is one step and *)
(* everything in between interleaves.                                      *)
(***************************************************************************)
EXTENDS Naturals

CONSTANTS Tokens,          \* the 32-byte random tokens
          SecretNames,     \* names of secrets
          Agents,          \* identities an agent may claim in X-Agent-ID
          None,            \* a NULL column; agent_id is NULL for a human link
          Requests,        \* goroutines serving HTTP requests
          HumanTTL,        \* lifetime of a link, in seconds
          AgentTTL,        \* lifetime of a redemption token, in seconds
          TicksPerSecond,  \* resolution of the clock; the table stores seconds
          MaxTicks,        \* bound: clock ticks explored
          MaxFaults        \* bound: crashes and failed burns explored

ASSUME KuzeAssumption ==
    /\ None \notin Agents \cup SecretNames \cup Tokens
    /\ HumanTTL \in Nat /\ AgentTTL \in Nat
    /\ TicksPerSecond \in Nat \ {0}
    /\ MaxTicks \in Nat /\ MaxFaults \in Nat

VARIABLES tokens,     \* the kuze_tokens table
          secrets,    \* names present in the secrets table
          request,    \* request[r]: what goroutine r is doing
          pruner,     \* the prune loop: "idle", or "listed" once it has sent its notices
          now,        \* wall clock, in ticks
          stores,     \* history: how often a value was stored through a token
          delivered,  \* history: delivered[t][a], values handed to agent a for token t
          notified,   \* history: tokens reported to the operators as expired
          faults      \* history: crashes and failed burns so far

kuzeVars == <<tokens, secrets, request, pruner, now, stores, delivered, notified, faults>>
history == <<stores, delivered, notified, faults>>

\* A row; "unissued" and "deleted" stand for tokens that are not in the table (the other
\* columns of a deleted row are kept for the properties).
Row == [status : {"unissued", "present", "deleted"}, used : BOOLEAN,
        ref : SecretNames \cup {None}, agent : Agents \cup {None}, expiresAt : Nat]

NoRow == [status |-> "unissued", used |-> FALSE, ref |-> None, agent |-> None, expiresAt |-> 0]

\* A request holds the token it validated (acceptSecret) or redeemed (handleRedeem, for
\* the agent it claims to be).
Local == [pc : {"idle", "store", "burn", "get"}, token : Tokens \cup {None},
          agent : Agents \cup {None}]

Idle == [pc |-> "idle", token |-> None, agent |-> None]

KuzeTypeOK ==
    /\ tokens \in [Tokens -> Row]
    /\ secrets \in SUBSET SecretNames
    /\ request \in [Requests -> Local]
    /\ pruner \in {"idle", "listed"}
    /\ now \in Nat
    /\ stores \in [Tokens -> Nat]
    /\ delivered \in [Tokens -> [Agents -> Nat]]
    /\ notified \in SUBSET Tokens
    /\ faults \in Nat

KuzeInit ==
    /\ tokens = [t \in Tokens |-> NoRow]
    /\ secrets = {}
    /\ request = [r \in Requests |-> Idle]
    /\ pruner = "idle"
    /\ now = 0
    /\ stores = [t \in Tokens |-> 0]
    /\ delivered = [t \in Tokens |-> [a \in Agents |-> 0]]
    /\ notified = {}
    /\ faults = 0

Present(t) == tokens[t].status = "present"

-----------------------------------------------------------------------------
(* The token store.  Times are stored as RFC 3339 text with a resolution   *)
(* of one second; Go compares the stored second with the full clock, SQL   *)
(* compares it with the clock truncated to a second.                       *)

Second(time) == time \div TicksPerSecond

\* time.Now().After(pt.ExpiresAt)
Expired(t) == now > tokens[t].expiresAt * TicksPerSecond

\* Mutant: the query takes in the current second.
ExpiredRowInclusive(t) == tokens[t].expiresAt <= Second(now)

\* expires_at < ?, with the current second as parameter
ExpiredRow(t) == tokens[t].expiresAt < Second(now)

\* Validate succeeds: the token exists, is unused and has not expired.
Validate(t) == Present(t) /\ ~tokens[t].used /\ ~Expired(t)

\* issue: a fresh random token for ref, of a human (agent = None) or of an agent.
Issue(t, ref, agent) ==
    /\ tokens[t].status = "unissued"
    /\ tokens' = [tokens EXCEPT ![t] =
           [status |-> "present", used |-> FALSE, ref |-> ref, agent |-> agent,
            expiresAt |-> Second(now) + IF agent = None THEN HumanTTL ELSE AgentTTL]]
    /\ UNCHANGED <<secrets, request, pruner, now, history>>

\* UPDATE kuze_tokens SET used = 1 WHERE token = t AND used = 0
Burned(t) == IF Present(t) THEN [tokens EXCEPT ![t].used = TRUE] ELSE tokens

-----------------------------------------------------------------------------
(* POST /s/<token>: acceptSecret.                                          *)

\* Validate lets the submission in; its form is then read from the client, at leisure.
Submit(r, t) ==
    /\ request[r].pc = "idle"
    /\ Validate(t)
    /\ request' = [request EXCEPT ![r] = [pc |-> "store", token |-> t, agent |-> None]]
    /\ UNCHANGED <<tokens, secrets, pruner, now, history>>

\* secrets.Set stores the value; a bad or empty form, or a failed Set, ends the request.
StoreSecret(r) ==
    LET t == request[r].token
    IN  /\ request[r].pc = "store"
        /\ \/ /\ secrets' = secrets \cup {tokens[t].ref}
              /\ stores' = [stores EXCEPT ![t] = @ + 1]
              /\ request' = [request EXCEPT ![r].pc = "burn"]
           \/ /\ request' = [request EXCEPT ![r] = Idle]
              /\ UNCHANGED <<secrets, stores>>
        /\ UNCHANGED <<tokens, pruner, now, delivered, notified, faults>>

\* Burn: a failure is logged and the submitter sees the success page all the same.
Burn(r) ==
    LET t == request[r].token
    IN  /\ request[r].pc = "burn"
        /\ \/ tokens' = Burned(t) /\ UNCHANGED faults
           \/ /\ faults < MaxFaults
              /\ faults' = faults + 1
              /\ UNCHANGED tokens
        /\ request' = [request EXCEPT ![r] = Idle]
        /\ UNCHANGED <<secrets, pruner, now, stores, delivered, notified>>

-----------------------------------------------------------------------------
(* GET /kuze/redeem/<token>: handleRedeem.                                 *)

\* Mutant: the identity check is missing.
RedeemByAnyone(r, t, a) ==
    /\ request[r].pc = "idle"
    /\ Validate(t)
    /\ tokens' = Burned(t)
    /\ request' = [request EXCEPT ![r] = [pc |-> "get", token |-> t, agent |-> a]]
    /\ UNCHANGED <<secrets, pruner, now, history>>

\* TokenStore.Redeem: one transaction validates, checks the identity and burns.
Redeem(r, t, a) ==
    /\ request[r].pc = "idle"
    /\ Validate(t)
    /\ tokens[t].agent = a
    /\ tokens' = Burned(t)
    /\ request' = [request EXCEPT ![r] = [pc |-> "get", token |-> t, agent |-> a]]
    /\ UNCHANGED <<secrets, pruner, now, history>>

\* The value is fetched after the burn: a secret that is gone costs the token.
GetSecret(r) ==
    LET t == request[r].token
    IN  /\ request[r].pc = "get"
        /\ delivered' = IF tokens[t].ref \in secrets
                        THEN [delivered EXCEPT ![t][request[r].agent] = @ + 1]
                        ELSE delivered
        /\ request' = [request EXCEPT ![r] = Idle]
        /\ UNCHANGED <<tokens, secrets, pruner, now, stores, notified, faults>>

-----------------------------------------------------------------------------
(* The prune loop, other writers and the environment.                      *)

\* PruneExpiredWithNotify: tell the operators about the links that ran out ...
ListExpiredUnused ==
    /\ pruner = "idle"
    /\ pruner' = "listed"
    /\ notified' = notified \cup {t \in Tokens : Present(t) /\ ~tokens[t].used /\ ExpiredRow(t)}
    /\ UNCHANGED <<tokens, secrets, request, now, stores, delivered, faults>>

\* Mutant: only expired tokens are deleted, used ones stay.
PruneKeepsUsed ==
    /\ pruner = "listed"
    /\ pruner' = "idle"
    /\ tokens' = [t \in Tokens |->
           IF Present(t) /\ ExpiredRow(t) /\ ~tokens[t].used
           THEN [tokens[t] EXCEPT !.status = "deleted"]
           ELSE tokens[t]]
    /\ UNCHANGED <<secrets, request, now, history>>

\* ... and delete what is expired or used.
PruneExpired ==
    /\ pruner = "listed"
    /\ pruner' = "idle"
    /\ tokens' = [t \in Tokens |->
           IF Present(t) /\ (ExpiredRow(t) \/ tokens[t].used)
           THEN [tokens[t] EXCEPT !.status = "deleted"]
           ELSE tokens[t]]
    /\ UNCHANGED <<secrets, request, now, history>>

\* Secrets also come and go by command (account registration, "secrets delete").
SecretsCommand(ref) ==
    /\ secrets' \in {secrets \cup {ref}, secrets \ {ref}}
    /\ UNCHANGED <<tokens, request, pruner, now, history>>

Tick ==
    /\ now < MaxTicks
    /\ now' = now + 1
    /\ UNCHANGED <<tokens, secrets, request, pruner, history>>

\* The process dies: the tables survive, requests and the prune loop start afresh.
Crash ==
    /\ faults < MaxFaults
    /\ faults' = faults + 1
    /\ request' = [r \in Requests |-> Idle]
    /\ pruner' = "idle"
    /\ UNCHANGED <<tokens, secrets, now, stores, delivered, notified>>

ServeRequest(r) == StoreSecret(r) \/ Burn(r) \/ GetSecret(r)

PruneExpiredWithNotify == ListExpiredUnused \/ PruneExpired

KuzeNext ==
    \/ \E t \in Tokens, ref \in SecretNames, agent \in Agents \cup {None} : Issue(t, ref, agent)
    \/ \E r \in Requests, t \in Tokens : Submit(r, t)
    \/ \E r \in Requests, t \in Tokens, a \in Agents : Redeem(r, t, a)
    \/ \E r \in Requests : ServeRequest(r)
    \/ PruneExpiredWithNotify
    \/ \E ref \in SecretNames : SecretsCommand(ref)
    \/ Tick
    \/ Crash

KuzeSpec == KuzeInit /\ [][KuzeNext]_kuzeVars

\* A request that was admitted is served, and the ticker keeps firing.
KuzeFairSpec ==
    /\ KuzeSpec
    /\ \A r \in Requests : WF_kuzeVars(ServeRequest(r))
    /\ WF_kuzeVars(PruneExpiredWithNotify)

-----------------------------------------------------------------------------
(* Properties.                                                             *)

\* A redemption token yields its secret at most once, and only to the agent it was issued
\* for, however redemptions, form submissions and the prune loop interleave; a human link
\* yields nothing (TokenStore.Redeem's transaction).
RedeemedOnceByOwner ==
    \A t \in Tokens, a \in Agents :
        delivered[t][a] > 0 => /\ delivered[t][a] = 1
                               /\ tokens[t].agent = a
                               /\ tokens[t].used

\* Submissions validated through t that have yet to store their value.
Admitted(t) == {r \in Requests : request[r].pc = "store" /\ request[r].token = t}

\* What holds of single use: once a token has been burned, reported as expired or deleted,
\* no further submission is admitted; only those already past Validate may still store.
DeadLinkAdmitsNobody ==
    [][\A t \in Tokens :
          tokens[t].used \/ t \in notified \/ tokens[t].status = "deleted"
          => Admitted(t)' \subseteq Admitted(t)]_kuzeVars

\* A link through which a value was stored is left open only by a fault between Set and
\* Burn (a crash, or the burn failure acceptSecret shrugs off).
OpenAfterStoreOnlyByFault ==
    \A t \in Tokens :
        /\ stores[t] > 0 /\ ~tokens[t].used /\ Present(t)
        /\ \A r \in Requests : ~(request[r].pc = "burn" /\ request[r].token = t)
        => faults > 0

\* The prune loop never deletes a token somebody could still use, although SQL compares
\* truncated seconds and Validate the full clock.
PruneSparesTheLiving ==
    [][\A t \in Tokens : Validate(t) => tokens'[t].status = "present"]_kuzeVars

\* A used token does not stay in the table (the prune loop in App.Run).
UsedTokensArePruned ==
    \A t \in Tokens : (Present(t) /\ tokens[t].used) ~> tokens[t].status = "deleted"

\* The state is well typed, a redemption token yields its secret once and to its owner
\* (TokenStore.Redeem), and a link that stored a value is left open by a fault only
\* (acceptSecret).
KuzeInv == KuzeTypeOK /\ RedeemedOnceByOwner /\ OpenAfterStoreOnlyByFault

\* A link that is burned, reported expired or deleted admits no further submission
\* (Validate), and the prune loop deletes none that Validate still accepts,
\* although SQL compares whole seconds and Go the full clock.
LinksDieOnTime == DeadLinkAdmitsNobody /\ PruneSparesTheLiving
=============================================================================
