---------------------------- MODULE EventIngress ----------------------------
(***************************************************************************)
(* How events reach an agent: Ruriko's webhook proxy                       *)
(* (internal/ruriko/webhook/proxy.go) and the event handlers of the        *)
(* agent's control server (internal/gitai/control/server.go), both with    *)
(* the keyed fixed-window limiter of common/ratelimit.                     *)
(*                                                                         *)
(* The proxy authenticates a webhook against the latest stored version of  *)
(* the agent's configuration and forwards the body with the agent's own    *)
(* token; the agent checks again, against the configuration it runs.  The  *)
(* two differ between a change and its push.                               *)
(*                                                                         *)
(* A delivery is one HTTP request: it comes to the proxy, or straight to   *)
(* the agent from another host or from the agent's own host.  It carries   *)
(* the agent's token or not, a valid signature or not, and, for gateways   *)
(* that are not webhooks, an envelope that is valid for its source or not. *)
(* A control token is assumed to be configured.                            *)
(***************************************************************************)
EXTENDS Naturals, Sequences, FiniteSets, RecentWindow

CONSTANTS Deliveries,   \* ids of HTTP requests
          Window,       \* the minute of the limiters, in ticks
          ProxyLimit    \* Proxy's deliveries per agent and window

ASSUME IngressAssumption ==
    /\ Window \in Nat \ {0}
    /\ ProxyLimit \in Nat \ {0}

VARIABLES agentRow,      \* Ruriko's row of the agent: enabled, control URL
          latest,        \* the latest stored version of its configuration
          request,       \* what each delivery carries
          delivery,      \* how far each delivery is, or its HTTP status
          heard,         \* the configuration each request under way has read
          proxyBuckets,  \* the proxy's limiter
          eventBuckets,  \* the agent's limiter
          recentEvents   \* history: countdowns of the agent's accepted events

ingressVars == <<agentRow, latest, request, delivery, heard, proxyBuckets, eventBuckets, recentEvents>>

Statuses == {"202", "400", "401", "404", "429", "502", "503"}

IngressTypeOK ==
    /\ agentRow \in [enabled : BOOLEAN, url : BOOLEAN]
    /\ \A d \in DOMAIN request : request[d].via \in {"proxy", "remote", "local"}
    /\ \A d \in Deliveries : delivery[d] \in Statuses \cup {"unsent", "forwarded", "reading"}
    /\ \A d \in Deliveries : delivery[d] = "reading" => d \in DOMAIN heard
    /\ \A k \in DOMAIN proxyBuckets : proxyBuckets[k] \in [count : Nat, left : 1..Window + 1]
    /\ \A k \in DOMAIN eventBuckets : eventBuckets[k] \in [count : Nat, left : 1..Window + 1]
    /\ \A i \in DOMAIN recentEvents : recentEvents[i] \in [left : 1..Window + 1, max : Nat \ {0}]

IngressInit ==
    /\ delivery = [d \in Deliveries |-> "unsent"] /\ heard = <<>>
    /\ proxyBuckets = <<>>
    /\ eventBuckets = <<>>
    /\ recentEvents = <<>>

(* AllowAll: the keys are looked at in order, each bucket being created or *)
(* reset on the way, up to the first that is full; only when none is, all  *)
(* are counted.  A bucket is reset strictly after its window's end, hence  *)
(* the Window + 1 ticks; one that has run out is left out of the function, *)
(* as it is treated like one that does not exist.                          *)
Full(buckets, k, limit) == k \in DOMAIN buckets /\ buckets[k].count >= limit
Fresh == [count |-> 0, left |-> Window + 1]
\* Mutant: a bucket is counted before the others are looked at.
CountsFirst(buckets, limit, keys) ==
    LET full == {i \in DOMAIN keys : Full(buckets, keys[i], limit)}
        seen == {keys[i] : i \in {j \in DOMAIN keys : \A f \in full : j <= f}}
        reset == [k \in DOMAIN buckets \cup seen |-> IF k \in DOMAIN buckets THEN buckets[k] ELSE Fresh]
    IN  IF limit = 0 THEN [ok |-> TRUE, buckets |-> buckets]
        ELSE [ok |-> full = {},
              buckets |-> [k \in DOMAIN reset |->
                  IF k \in seen THEN [reset[k] EXCEPT !.count = @ + 1] ELSE reset[k]]]

AllowAll(buckets, limit, keys) ==
    LET full == {i \in DOMAIN keys : Full(buckets, keys[i], limit)}
        seen == {keys[i] : i \in {j \in DOMAIN keys : \A f \in full : j <= f}}
        reset == [k \in DOMAIN buckets \cup seen |-> IF k \in DOMAIN buckets THEN buckets[k] ELSE Fresh]
    IN  IF limit = 0 THEN [ok |-> TRUE, buckets |-> buckets]
        ELSE [ok |-> full = {},
              buckets |-> IF full # {} THEN reset
                          ELSE [k \in DOMAIN reset |->
                                  IF k \in seen THEN [reset[k] EXCEPT !.count = @ + 1] ELSE reset[k]]]

HasGateway(cfg, source) == source \in DOMAIN cfg.gateways
IsWebhook(cfg, source) == HasGateway(cfg, source) /\ cfg.gateways[source].type = "webhook"

Answers(d, status) == delivery' = [delivery EXCEPT ![d] = status]

(* A sender sends its next request when it has the answer to the last.     *)
Arrives(d) ==
    /\ delivery[d] = "unsent"
    /\ \A p \in request[d].after : delivery[p] \in Statuses

\* Mutant: a webhook without a signature is not checked.
ProxyAuthIfSigned(d) ==
    LET r == request[d] IN latest.gateways[r.source].auth = "bearer" => r.bearer

(* handleWebhook of the proxy up to the forwarding.  The limiter comes     *)
(* before the gateway and the credentials are looked at.                   *)
ProxyAuth(d) ==
    LET r == request[d] IN
    IF latest.gateways[r.source].auth = "bearer" THEN r.bearer ELSE r.sig

handleWebhook(d) ==
    /\ Arrives(d) /\ request[d].via = "proxy"
    /\ LET r == request[d]
           admitted == AllowAll(proxyBuckets, ProxyLimit, <<"agent">>)
       IN  \/ ~agentRow.enabled /\ Answers(d, "404") /\ UNCHANGED proxyBuckets
           \/ agentRow.enabled /\ ~agentRow.url /\ Answers(d, "503") /\ UNCHANGED proxyBuckets
           \/ /\ agentRow.enabled /\ agentRow.url
              /\ proxyBuckets' = admitted.buckets
              /\ Answers(d, IF ~admitted.ok THEN "429"
                            ELSE IF ~IsWebhook(latest, r.source) THEN "404"
                            ELSE IF ~ProxyAuth(d) THEN "401" ELSE "forwarded")
    /\ UNCHANGED <<agentRow, latest, request, heard, eventBuckets, recentEvents>>

(* What the agent sees of a delivery.  The forwarded request carries the   *)
(* agent's token; of the sender's headers only the content type is kept.   *)
Seen(d) ==
    IF request[d].via = "proxy"
    THEN [request[d] EXCEPT !.bearer = TRUE, !.sig = FALSE, !.via = "remote"]
    ELSE request[d]

(* The token check with its bypass for requests from the agent's host.     *)
TokenOk(r) == r.via = "local" \/ r.bearer

(* handleWebhookEvent's credentials, by the gateway's authType; secret is  *)
(* whether the agent holds a live copy of the HMAC secret.                 *)
WebhookRefused(gateway, r, secret) ==
    IF gateway.auth = "bearer" THEN ~TokenOk(r) ELSE ~(r.sig /\ secret)

(* The checks of the other gateways: the token, then the envelope.         *)
EnvelopeRefused(r) ==
    IF ~TokenOk(r) THEN "401" ELSE IF ~r.envelope THEN "400" ELSE "no"

Refused(cfg, r, secret) ==
    IF ~IsWebhook(cfg, r.source) THEN EnvelopeRefused(r)
    ELSE IF WebhookRefused(cfg.gateways[r.source], r, secret) THEN "401" ELSE "no"

(* handleEventIngress and handleWebhookEvent.  The gateway and the limit   *)
(* are read first, under the configuration of that moment; then the body   *)
(* is read, for as long as its sender takes, and the event is refused, is  *)
(* over the limit that was read, or is accepted, and then the composition  *)
(* hands it to the turn engine.                                            *)
AtAgent(d) == delivery[d] = "forwarded" \/ (Arrives(d) /\ request[d].via # "proxy")
Reading(d) == delivery[d] = "reading"
Admitted(d) == AllowAll(eventBuckets, heard[d].maxEvents, <<"global", request[d].source>>)
Passes(d) == Reading(d) /\ \E secret \in BOOLEAN : Refused(heard[d], Seen(d), secret) = "no"
Forgets(S) == heard' = [x \in DOMAIN heard \ S |-> heard[x]]
ingressSame == <<agentRow, latest, request, proxyBuckets>>

EventReads(d, cfg) ==
    /\ AtAgent(d)
    /\ IF HasGateway(cfg, request[d].source)
       THEN /\ Answers(d, "reading")
            /\ heard' = [x \in DOMAIN heard \cup {d} |-> IF x = d THEN cfg ELSE heard[x]]
       ELSE Answers(d, "404") /\ UNCHANGED heard
    /\ UNCHANGED <<ingressSame, eventBuckets, recentEvents>>

EventRefused(d) ==
    /\ Reading(d)
    /\ \E secret \in BOOLEAN :
          LET status == Refused(heard[d], Seen(d), secret)
          IN  status # "no" /\ Answers(d, status)
    /\ Forgets({d})
    /\ UNCHANGED <<ingressSame, eventBuckets, recentEvents>>

EventOverLimit(d) ==
    /\ Passes(d) /\ ~Admitted(d).ok
    /\ Answers(d, "429") /\ Forgets({d})
    /\ eventBuckets' = Admitted(d).buckets
    /\ UNCHANGED <<ingressSame, recentEvents>>

EventAccepted(d) ==
    /\ Passes(d) /\ Admitted(d).ok
    /\ Answers(d, "202") /\ Forgets({d})
    /\ eventBuckets' = Admitted(d).buckets
    /\ recentEvents' = IF heard[d].maxEvents = 0 THEN recentEvents
                       ELSE Passed(recentEvents, Window + 1, heard[d].maxEvents)
    /\ UNCHANGED ingressSame

(* forward fails: the agent cannot be reached.                             *)
ForwardFails(d) ==
    /\ delivery[d] = "forwarded"
    /\ Answers(d, "502")
    /\ UNCHANGED <<agentRow, latest, request, heard, proxyBuckets, eventBuckets, recentEvents>>

(* The agent's process ends: the limiter is empty, and the sender of a     *)
(* request under way gets no answer of the agent (502 from the proxy).     *)
IngressRestarts ==
    /\ delivery' = [d \in Deliveries |-> IF Reading(d) THEN "502" ELSE delivery[d]]
    /\ Forgets(DOMAIN heard)
    /\ eventBuckets' = <<>> /\ recentEvents' = <<>>
    /\ UNCHANGED ingressSame

(* A new version of the agent's configuration is stored, not yet pushed.   *)
StoreVersion(cfg) ==
    /\ latest' = cfg
    /\ UNCHANGED <<agentRow, request, delivery, heard, proxyBuckets, eventBuckets, recentEvents>>

Aged(buckets) ==
    [k \in {b \in DOMAIN buckets : buckets[b].left > 1} |-> [buckets[k] EXCEPT !.left = @ - 1]]

IngressTick ==
    /\ proxyBuckets' = Aged(proxyBuckets)
    /\ eventBuckets' = Aged(eventBuckets)
    /\ recentEvents' = Lapse(recentEvents)
    /\ UNCHANGED <<agentRow, latest, request, delivery, heard>>

----------------------------------------------------------------------------
(* Properties *)

(* An event the agent accepts comes from its own host, or its sender       *)
(* showed the token to the agent or to the proxy, or a signature that the  *)
(* proxy or the agent verified, whichever configuration each of the two    *)
(* had at that time.                                                       *)
AcceptedIsAuthentic ==
    \A d \in DOMAIN request : delivery[d] = "202" =>
        request[d].via = "local" \/ request[d].bearer \/ request[d].sig

(* In any window's length the agent accepts at most two windows' worth of  *)
(* events, over all sources.                                               *)
EventsBounded == WithinTwoWindows(recentEvents)

(* The proxy's package comment: the forwarded request carries the agent's  *)
(* own token so that the agent can authenticate it.  A delivery the proxy  *)
(* has authenticated is then not answered 401 by the agent.                *)
ForwardedIsAuthenticated ==
    [][\A d \in DOMAIN request :
          request[d].via = "proxy" /\ Reading(d) => delivery'[d] # "401"]_ingressVars
=============================================================================
