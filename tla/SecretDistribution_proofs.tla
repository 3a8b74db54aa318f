--------------------- MODULE SecretDistribution_proofs ---------------------
(***************************************************************************)
(* Proofs about a secret's way to an agent, a section for each module.     *)
(* SecretDistribution: for any number of secrets, of pushes that overlap,  *)
(* of attempts a push makes and of values written.  SecretManager: for any *)
(* set of secrets, any number of concurrent Apply calls and any time to    *)
(* live.  Kuze: for any number of tokens, agents and concurrent requests,  *)
(* any lifetimes and any resolution of the clock.                          *)
(***************************************************************************)
EXTENDS SecretDistribution, SecretManager, Kuze, WellFoundedInduction, TLAPS

\* How far a push is: before it lists the bindings nothing was sent for it, and afterwards
\* it marks leases of its own only.
PushInv(p) ==
    /\ push[p].pc = "ready" => /\ push[p].leases = {}
                               /\ \A k \in Attempts : call[p][k].pc = "none"
    /\ push[p].pc \in {"send", "wait", "mark"} => push[p].leases # {}
    /\ push[p].pc \in {"send", "wait"} => push[p].attempt \in Attempts
    /\ push[p].pc = "mark" => push[p].todo # {}
    /\ push[p].todo \subseteq push[p].leases

\* How far an attempt is: it is served only once it was sent, what it got it got for a
\* lease of its push whose token it burned, and it is answered 200 only if it got something.
CallInv(p, k) ==
    /\ call[p][k].pc = "none" => call[p][k] = NoCall
    /\ call[p][k].pc # "none" => /\ k <= push[p].attempt
                                 /\ push[p].pc = "send" => k # push[p].attempt
    /\ <<p, k>> \in idemCache => call[p][k].pc # "none"
    /\ call[p][k].todo \subseteq push[p].leases
    /\ \A r \in Refs : call[p][k].got[r] # 0 => r \in push[p].leases /\ token[p][r] = "dead"
    /\ call[p][k].ok => /\ call[p][k].pc \in {"reply", "done"}
                        /\ \E r \in Refs : call[p][k].got[r] # 0

\* The inductive invariant behind Inv.
IInv ==
    /\ Inv
    /\ \A p \in Pushes : PushInv(p)
    /\ \A p \in Pushes, k \in Attempts : CallInv(p, k)

\* A push that lists the bindings, sends, waits or marks, or of which the agent is still
\* serving an attempt.
Active(p) == \/ push[p].pc \in {"send", "wait", "mark"}
             \/ \E k \in Attempts : call[p][k].pc \in {"redeem", "reply"}

\* The agent has the value the secret has now, or had it and dropped it since.
Holds(r) == agent[r] = secret[r].value \/ r \in lost

\* A binding nothing went wrong with: once its current version is recorded the agent holds
\* its value, and a push under way is the only one, has a lease for it (or its version was
\* never recorded), and no attempt leaves the agent without its value.
HeldInv(r) ==
    /\ lastPushed[r] >= secret[r].version => Holds(r)
    /\ \A p, q \in Pushes : Active(p) /\ Active(q) => p = q
    /\ \A p \in Pushes : Active(p) => lastPushed[r] = 0 \/ r \in push[p].leases
    /\ \A p \in Pushes, k \in Attempts :
          Active(p) /\ r \in push[p].leases =>
              /\ call[p][k].pc = "redeem" => \/ r \in call[p][k].todo
                                             \/ call[p][k].got[r] = secret[r].value
              /\ call[p][k].pc \in {"reply", "done"} => Holds(r)

\* The inductive invariant behind UnlistedIsHeld.
HInv ==
    /\ IInv
    /\ \A r \in Refs : Exists(r) => secret[r].value # 0
    /\ \A r \in bound : Exists(r)
    /\ \A r \in bound \ missed : HeldInv(r)

-----------------------------------------------------------------------------
(* The least member of a set of numbers.                                   *)

LEMMA LeastExists ==
    ASSUME NEW S, S \subseteq Nat, S # {}
    PROVE  \E x \in S : \A y \in S : x <= y
<1>1. PICK x \in S : \A y \in S : ~(<<y, x>> \in OpToRel(<, Nat))
  <2> HIDE DEF OpToRel
  <2> QED
    BY WFMin, NatLessThanWellFounded, Zenon
<1>2. \A y \in S : ~(y < x)
  BY <1>1 DEF OpToRel
<1> QED
  BY <1>2

\* Min, which picks the next lease and the next mark, picks one of the set.
LEMMA MinMember ==
    ASSUME NEW S, S \subseteq Nat, S # {}
    PROVE  Min(S) \in S /\ \A y \in S : Min(S) <= y
  BY LeastExists DEF Min

-----------------------------------------------------------------------------
(* Types.                                                                  *)

LEMMA NoCallType == NoCall \in CallState
  BY DEF NoCall, CallState

LEMMA NoCallFields ==
    /\ NoCall.pc = "none" /\ NoCall.todo = {} /\ ~NoCall.ok
    /\ \A r \in Refs : NoCall.got[r] = 0
  BY DEF NoCall

LEMMA RefsNat == Refs \subseteq Nat /\ Attempts \subseteq Nat
  BY DistributionAssumption DEF Refs, Attempts

\* What the next attempt, or giving up, makes of a push.
LEMMA FailedPush ==
    ASSUME TypeOK, NEW p \in Pushes, NEW P, P = AttemptFailed(p)
    PROVE  /\ P \in [Pushes -> PushState]
           /\ \A q \in Pushes \ {p} : P[q] = push[q]
           /\ P[p].leases = push[p].leases /\ P[p].todo = push[p].todo
           /\ \/ /\ push[p].attempt < MaxAttempts
                 /\ P[p].pc = "send" /\ P[p].attempt = push[p].attempt + 1
              \/ P[p].pc = "failed" /\ P[p].attempt = push[p].attempt
<1>1. push[p] \in PushState /\ push[p].attempt \in Nat /\ push[p].attempt + 1 \in Nat
  BY DEF TypeOK, PushState
<1>2. [push[p] EXCEPT !.pc = "send", !.attempt = @ + 1] \in PushState
  BY <1>1 DEF PushState
<1>3. [push[p] EXCEPT !.pc = "failed"] \in PushState
  BY <1>1 DEF PushState
<1>4. CASE push[p].attempt < MaxAttempts
  <2>1. P = [push EXCEPT ![p] = [push[p] EXCEPT !.pc = "send", !.attempt = @ + 1]]
    BY <1>4 DEF AttemptFailed
  <2> QED
    BY <1>1, <1>2, <1>4, <2>1 DEF TypeOK, PushState
<1>5. CASE ~(push[p].attempt < MaxAttempts)
  <2>1. P = [push EXCEPT ![p] = [push[p] EXCEPT !.pc = "failed"]]
    BY <1>5 DEF AttemptFailed
  <2> QED
    BY <1>1, <1>3, <2>1 DEF TypeOK, PushState
<1> QED
  BY <1>4, <1>5

\* The commands leave the pushes alone and keep the versions in order.
LEMMA CommandStep ==
    ASSUME TypeOK, PushedNotAhead, NEW r \in Refs, Set(r) \/ Delete(r) \/ Bind(r) \/ Unbind(r)
    PROVE  TypeOK' /\ PushedNotAhead' /\ UNCHANGED <<token, push, call, idemCache, agent, lost>>
<1>1. CASE Set(r)
  <2>1. written + 1 \in Nat /\ secret[r].version + 1 \in Nat
    BY DEF TypeOK
  <2>2. secret' = [secret EXCEPT ![r] = [version |-> secret[r].version + 1, value |-> written + 1]]
    BY <1>1 DEF Set
  <2>3. missed' \in SUBSET Refs
    BY <1>1 DEF Set, Overtaken, TypeOK
  <2>4. TypeOK'
    BY <1>1, <2>1, <2>2, <2>3 DEF Set, TypeOK, gitai
  <2>5. \A s \in Refs : secret[s].version <= secret'[s].version
    BY <2>1, <2>2 DEF TypeOK
  <2>6. \A s \in Refs : lastPushed[s] \in Nat /\ secret[s].version \in Nat /\ secret'[s].version \in Nat
    BY <2>4 DEF TypeOK
  <2> QED
    BY <1>1, <2>4, <2>5, <2>6 DEF Set, PushedNotAhead, TypeOK, gitai
<1>2. CASE Delete(r)
  BY <1>2 DEF Delete, Removal, TypeOK, PushedNotAhead, gitai
<1>3. CASE Bind(r)
  <2>1. missed' \in SUBSET Refs
    BY <1>3 DEF Bind, Overtaken, TypeOK
  <2> QED
    BY <1>3, <2>1 DEF Bind, TypeOK, PushedNotAhead, gitai
<1>4. CASE Unbind(r)
  BY <1>4 DEF Unbind, Removal, TypeOK, PushedNotAhead, gitai
<1> QED
  BY <1>1, <1>2, <1>3, <1>4

\* A step on calls, pushes and tokens does not touch the secrets and their versions.
LEMMA RurikoSame ==
    ASSUME PushedNotAhead, UNCHANGED <<secret, bound, lastPushed>>
    PROVE  PushedNotAhead'
  BY DEF PushedNotAhead

\* What a push, its tokens and its attempts keep true.
FlowInv(p) ==
    /\ SuccessMeansApplied!(p)
    /\ \A r \in Refs, j, k \in Attempts :
           call[p][j].got[r] # 0 /\ call[p][k].got[r] # 0 => j = k
    /\ PushInv(p)
    /\ \A k \in Attempts : CallInv(p, k)

LEMMA FlowInvParts ==
    (\A p \in Pushes : FlowInv(p)) <=> /\ SuccessMeansApplied /\ LeaseRedeemedOnce
                                       /\ \A p \in Pushes : PushInv(p)
                                       /\ \A p \in Pushes, k \in Attempts : CallInv(p, k)
  BY DEF FlowInv, SuccessMeansApplied, LeaseRedeemedOnce

\* A step of one push leaves the others alone.
LEMMA FlowSame ==
    ASSUME NEW q \in Pushes, FlowInv(q),
           push'[q] = push[q], call'[q] = call[q], token'[q] = token[q],
           \A k \in Attempts : <<q, k>> \in idemCache' => <<q, k>> \in idemCache
    PROVE  FlowInv(q)'
  BY DEF FlowInv, SuccessMeansApplied, PushInv, CallInv

-----------------------------------------------------------------------------
(* distributeViaTokens.                                                    *)

LEMMA IssueLeasesStep ==
    ASSUME TypeOK, \A q \in Pushes : FlowInv(q), NEW p \in Pushes, IssueLeases(p)
    PROVE  TypeOK' /\ \A q \in Pushes : FlowInv(q)'
<1>1. PICK leases \in SUBSET bound :
          /\ push' = [push EXCEPT ![p].leases = leases,
                                  ![p].pc = IF leases # {} THEN "send"
                                            ELSE IF bound = {} THEN "ok" ELSE "failed",
                                  ![p].attempt = IF leases # {} THEN 1 ELSE 0]
          /\ token' = [token EXCEPT ![p] = [r \in Refs |->
                           IF r \in leases THEN "live" ELSE "none"]]
  BY DEF IssueLeases
<1>2. push[p] \in PushState /\ push[p].pc = "ready" /\ leases \in SUBSET Refs
  BY DEF IssueLeases, TypeOK
<1>3. /\ push' \in [Pushes -> PushState]
      /\ \A q \in Pushes \ {p} : push'[q] = push[q]
      /\ push'[p].leases = leases /\ push'[p].todo = push[p].todo
      /\ push'[p].pc = IF leases # {} THEN "send" ELSE IF bound = {} THEN "ok" ELSE "failed"
      /\ push'[p].attempt = IF leases # {} THEN 1 ELSE 0
  <2> DEFINE new == [push[p] EXCEPT !.leases = leases,
                                    !.pc = IF leases # {} THEN "send"
                                           ELSE IF bound = {} THEN "ok" ELSE "failed",
                                    !.attempt = IF leases # {} THEN 1 ELSE 0]
  <2>1. push' = [push EXCEPT ![p] = new]
    BY <1>1
  <2>2. new \in PushState
    BY <1>2 DEF PushState
  <2> QED
    BY <1>2, <2>1, <2>2 DEF TypeOK, PushState
<1>4. token' \in [Pushes -> [Refs -> {"none", "live", "dead"}]]
  BY <1>1 DEF TypeOK
<1>5. missed' \in SUBSET Refs
  BY DEF IssueLeases, TypeOK
<1>6. UNCHANGED <<secret, lastPushed, bound, written, removals, call, idemCache, agent, lost>>
  BY DEF IssueLeases, ruriko, gitai
<1>7. TypeOK'
  BY <1>3, <1>4, <1>5, <1>6 DEF TypeOK
<1>8. \A k \in Attempts : call[p][k] = NoCall
  BY <1>2 DEF FlowInv, PushInv, CallInv
<1>9. push[p].todo = {}
  BY <1>2 DEF FlowInv, PushInv
<1>10. PushInv(p)'
  BY <1>3, <1>6, <1>8, <1>9, DistributionAssumption DEF PushInv, NoCall, Attempts
<1>11. ASSUME NEW k \in Attempts PROVE CallInv(p, k)'
  <2>1. <<p, k>> \notin idemCache
    BY <1>8, NoCallFields DEF FlowInv, CallInv
  <2> QED
    BY <1>6, <1>8, <2>1, NoCallFields DEF CallInv
<1>12. SuccessMeansApplied!(p)'
  BY <1>3
<1>13. FlowInv(p)'
  BY <1>6, <1>8, <1>10, <1>11, <1>12 DEF FlowInv, NoCall
<1>14. ASSUME NEW q \in Pushes \ {p} PROVE FlowInv(q)'
  BY <1>1, <1>3, <1>6, FlowSame DEF TypeOK
<1> QED
  BY <1>7, <1>13, <1>14

\* The client's side of a failed attempt: the next one was never sent.
LEMMA AttemptFailedStep ==
    ASSUME TypeOK, \A q \in Pushes : FlowInv(q), NEW p \in Pushes,
           push[p].pc \in {"send", "wait"}, push' = AttemptFailed(p),
           UNCHANGED <<token, call, idemCache>>
    PROVE  \A q \in Pushes : FlowInv(q)'
<1>1. PICK P : P = AttemptFailed(p)
  OBVIOUS
<1>2. /\ \A q \in Pushes \ {p} : push'[q] = push[q]
      /\ push'[p].leases = push[p].leases /\ push'[p].todo = push[p].todo
      /\ \/ /\ push[p].attempt < MaxAttempts
            /\ push'[p].pc = "send" /\ push'[p].attempt = push[p].attempt + 1
         \/ push'[p].pc = "failed" /\ push'[p].attempt = push[p].attempt
  BY <1>1, FailedPush
<1>3. push[p].attempt \in Attempts /\ push[p].leases # {} /\ push[p].todo \subseteq push[p].leases
  BY DEF FlowInv, PushInv
<1>4. PushInv(p)'
  BY <1>2, <1>3, DistributionAssumption DEF PushInv, Attempts
<1>5. ASSUME NEW k \in Attempts PROVE CallInv(p, k)'
  <2>1. call[p][k].pc # "none" => k <= push[p].attempt
    BY DEF FlowInv, CallInv
  <2>2. call'[p][k].pc # "none" =>
            /\ k <= push'[p].attempt
            /\ push'[p].pc = "send" => k # push'[p].attempt
    <3>1. k \in Nat /\ push[p].attempt \in Nat
      BY <1>3, RefsNat
    <3> QED
      BY <1>2, <2>1, <3>1
  <2> QED
    BY <1>2, <2>2 DEF FlowInv, CallInv
<1>6. FlowInv(p)'
  BY <1>2, <1>4, <1>5 DEF FlowInv
<1>7. ASSUME NEW q \in Pushes \ {p} PROVE FlowInv(q)'
  BY <1>2, FlowSame
<1> QED
  BY <1>6, <1>7

LEMMA SendStep ==
    ASSUME TypeOK, \A q \in Pushes : FlowInv(q), NEW p \in Pushes, Send(p)
    PROVE  TypeOK' /\ \A q \in Pushes : FlowInv(q)'
<1> DEFINE k == push[p].attempt
<1>1. /\ push[p] \in PushState /\ push[p].pc = "send" /\ k \in Attempts
      /\ UNCHANGED <<missed, secret, lastPushed, bound, written, removals, token, idemCache, agent, lost>>
  BY DEF Send, TypeOK, FlowInv, PushInv, ruriko, gitai
<1>2. call[p][k] = NoCall /\ <<p, k>> \notin idemCache
  BY <1>1 DEF FlowInv, CallInv
<1>3. CASE push' = AttemptFailed(p) /\ UNCHANGED call
  <2>1. PICK P : P = AttemptFailed(p)
    OBVIOUS
  <2>2. push' \in [Pushes -> PushState]
    BY <1>3, <2>1, FailedPush
  <2>3. TypeOK'
    BY <1>1, <1>3, <2>2 DEF TypeOK
  <2> QED
    BY <1>1, <1>3, <2>3, AttemptFailedStep
<1>4. CASE /\ push' = [push EXCEPT ![p].pc = "wait"]
           /\ call' = [call EXCEPT ![p][k] =
                  [NoCall EXCEPT !.pc = "redeem", !.ok = FALSE, !.todo = push[p].leases]]
  <2> DEFINE new == [NoCall EXCEPT !.pc = "redeem", !.ok = FALSE, !.todo = push[p].leases]
  <2>1. new \in CallState
    BY <1>1, NoCallType DEF CallState, PushState
  <2>2. new.pc = "redeem" /\ ~new.ok /\ new.todo = push[p].leases /\ \A r \in Refs : new.got[r] = 0
    BY NoCallType, NoCallFields DEF CallState
  <2>3. [push[p] EXCEPT !.pc = "wait"] \in PushState
    BY <1>1 DEF PushState
  <2>4. /\ push' \in [Pushes -> PushState]
        /\ push'[p].pc = "wait" /\ push'[p].leases = push[p].leases
        /\ push'[p].todo = push[p].todo /\ push'[p].attempt = k
        /\ \A q \in Pushes \ {p} : push'[q] = push[q]
    <3>1. push' = [push EXCEPT ![p] = [push[p] EXCEPT !.pc = "wait"]]
      BY <1>4
    <3> QED
      BY <1>1, <2>3, <3>1 DEF TypeOK, PushState
  <2>5. /\ call' \in [Pushes -> [Attempts -> CallState]]
        /\ call'[p][k] = new
        /\ \A j \in Attempts \ {k} : call'[p][j] = call[p][j]
        /\ \A q \in Pushes \ {p} : call'[q] = call[q]
    <3> HIDE DEF new
    <3>1. call' = [call EXCEPT ![p] = [call[p] EXCEPT ![k] = new]]
      BY <1>4 DEF new
    <3>2. call[p] \in [Attempts -> CallState]
      BY DEF TypeOK
    <3>3. [call[p] EXCEPT ![k] = new] \in [Attempts -> CallState]
      BY <1>1, <2>1, <3>2
    <3> QED
      BY <1>1, <3>1, <3>2, <3>3 DEF TypeOK
  <2> HIDE DEF new
  <2>6. TypeOK'
    BY <1>1, <2>4, <2>5 DEF TypeOK
  <2>7. PushInv(p)'
    BY <1>1, <2>4 DEF FlowInv, PushInv
  <2>8. ASSUME NEW j \in Attempts PROVE CallInv(p, j)'
    <3>1. CASE j = k
      BY <1>1, <1>2, <2>2, <2>4, <2>5, <3>1, RefsNat DEF CallInv
    <3>2. CASE j # k
      BY <1>1, <2>4, <2>5, <3>2 DEF FlowInv, CallInv
    <3> QED
      BY <3>1, <3>2
  <2>9. FlowInv(p)'
    <3>1. ASSUME NEW r \in Refs, NEW i \in Attempts, NEW j \in Attempts,
                 call'[p][i].got[r] # 0, call'[p][j].got[r] # 0
          PROVE  i = j
      BY <2>2, <2>5, <3>1 DEF FlowInv
    <3> QED
      BY <2>4, <2>7, <2>8, <3>1 DEF FlowInv
  <2>10. ASSUME NEW q \in Pushes \ {p} PROVE FlowInv(q)'
    BY <1>1, <2>4, <2>5, FlowSame
  <2> QED
    BY <2>6, <2>9, <2>10
<1>5. ASSUME NEW cached, cached = FALSE
      PROVE  [NoCall EXCEPT !.pc = IF cached THEN "reply" ELSE "redeem", !.ok = cached,
                            !.todo = IF cached THEN {} ELSE push[p].leases]
             = [NoCall EXCEPT !.pc = "redeem", !.ok = FALSE, !.todo = push[p].leases]
  BY <1>5
<1>6. (IdempotencyKey(p, k) \in idemCache) = FALSE
  BY <1>2 DEF IdempotencyKey
<1>7. \/ push' = AttemptFailed(p) /\ UNCHANGED call
      \/ /\ push' = [push EXCEPT ![p].pc = "wait"]
         /\ call' = [call EXCEPT ![p][k] =
                [NoCall EXCEPT !.pc = "redeem", !.ok = FALSE, !.todo = push[p].leases]]
  BY <1>5, <1>6, Zenon DEF Send
<1> QED
  BY <1>3, <1>4, <1>7

LEMMA TimeoutStep ==
    ASSUME TypeOK, \A q \in Pushes : FlowInv(q), NEW p \in Pushes, Timeout(p)
    PROVE  TypeOK' /\ \A q \in Pushes : FlowInv(q)'
<1>1. /\ push[p].pc = "wait" /\ push' = AttemptFailed(p)
      /\ UNCHANGED <<missed, secret, lastPushed, bound, written, removals, token, call, idemCache, agent, lost>>
  BY DEF Timeout, ruriko, gitai
<1>2. PICK P : P = AttemptFailed(p)
  OBVIOUS
<1>3. push' \in [Pushes -> PushState]
  BY <1>1, <1>2, FailedPush
<1>4. TypeOK'
  BY <1>1, <1>3 DEF TypeOK
<1> QED
  BY <1>1, <1>4, AttemptFailedStep

\* A push marks a lease of its own; the version recorded is one the secret has reached.
LEMMA MarkStep ==
    ASSUME TypeOK, PushedNotAhead, \A q \in Pushes : FlowInv(q), NEW p \in Pushes, Mark(p)
    PROVE  /\ TypeOK' /\ PushedNotAhead' /\ \A q \in Pushes : FlowInv(q)'
           /\ \E r \in push[p].leases : \A s \in Refs :
                 \/ lastPushed'[s] = lastPushed[s]
                 \/ s = r /\ s \in bound
           /\ push'[p].pc \in {"mark", "ok"} /\ push'[p].leases = push[p].leases
           /\ \A q \in Pushes \ {p} : push'[q] = push[q]
           /\ UNCHANGED <<missed, secret, bound, token, call, agent, lost>>
<1> DEFINE r == Min(push[p].todo)
<1>1. /\ push[p] \in PushState /\ push[p].pc = "mark"
      /\ push[p].todo # {} /\ push[p].todo \subseteq push[p].leases
      /\ push[p].todo \subseteq Refs /\ push[p].leases \subseteq Refs
      /\ push' = [push EXCEPT ![p].todo = @ \ {r},
                              ![p].pc = IF push[p].todo = {r} THEN "ok" ELSE "mark"]
      /\ UNCHANGED <<missed, secret, bound, written, removals, token, call, idemCache, agent, lost>>
  BY DEF Mark, TypeOK, FlowInv, PushInv, PushState, gitai
<1>2. r \in push[p].todo
  BY <1>1, MinMember, RefsNat
<1> HIDE DEF r
<1>3. /\ push' \in [Pushes -> PushState]
      /\ push'[p].pc = IF push[p].todo = {r} THEN "ok" ELSE "mark"
      /\ push'[p].todo = push[p].todo \ {r}
      /\ push'[p].leases = push[p].leases /\ push'[p].attempt = push[p].attempt
      /\ \A q \in Pushes \ {p} : push'[q] = push[q]
  <2> DEFINE new == [push[p] EXCEPT !.todo = @ \ {r},
                                    !.pc = IF push[p].todo = {r} THEN "ok" ELSE "mark"]
  <2>1. push' = [push EXCEPT ![p] = new]
    BY <1>1
  <2>2. /\ new \in PushState
        /\ new.pc = IF push[p].todo = {r} THEN "ok" ELSE "mark"
        /\ new.todo = push[p].todo \ {r}
        /\ new.leases = push[p].leases /\ new.attempt = push[p].attempt
    BY <1>1 DEF PushState
  <2> HIDE DEF new
  <2> QED
    BY <2>1, <2>2 DEF TypeOK
<1>4. /\ lastPushed' \in [Refs -> Nat]
      /\ \A s \in Refs : \/ lastPushed'[s] = lastPushed[s]
                         \/ s = r /\ s \in bound /\ lastPushed'[s] = secret[s].version
  <2>1. MarkPushed(r) \/ UNCHANGED lastPushed
    BY DEF Mark, r
  <2> QED
    BY <2>1 DEF MarkPushed, TypeOK
<1>5. TypeOK'
  BY <1>1, <1>3, <1>4 DEF TypeOK
<1>6. PushedNotAhead'
  <2>1. \A s \in Refs : secret[s].version \in Nat
    BY DEF TypeOK
  <2>2. bound \subseteq Refs
    BY DEF TypeOK
  <2> QED
    BY <1>1, <1>4, <2>1, <2>2 DEF PushedNotAhead
<1>7. PushInv(p)' /\ \A k \in Attempts : CallInv(p, k)'
  BY <1>1, <1>2, <1>3 DEF FlowInv, PushInv, CallInv
<1>8. SuccessMeansApplied!(p) /\ push[p].leases # {}
  BY <1>1 DEF FlowInv
<1>9. FlowInv(p)'
  BY <1>1, <1>3, <1>7, <1>8 DEF FlowInv
<1>10. ASSUME NEW q \in Pushes \ {p} PROVE FlowInv(q)'
  BY <1>1, <1>3, FlowSame
<1> QED
  BY <1>1, <1>2, <1>3, <1>4, <1>5, <1>6, <1>9, <1>10

-----------------------------------------------------------------------------
(* The agent.                                                              *)

\* What a step of one attempt changes.
LEMMA CallUpdate ==
    ASSUME TypeOK, NEW p \in Pushes, NEW k \in Attempts, NEW c \in CallState,
           call' = [call EXCEPT ![p] = [call[p] EXCEPT ![k] = c]]
    PROVE  /\ call' \in [Pushes -> [Attempts -> CallState]]
           /\ call'[p][k] = c
           /\ \A j \in Attempts \ {k} : call'[p][j] = call[p][j]
           /\ \A q \in Pushes \ {p} : call'[q] = call[q]
<1>1. call[p] \in [Attempts -> CallState]
  BY DEF TypeOK
<1>2. [call[p] EXCEPT ![k] = c] \in [Attempts -> CallState]
  BY <1>1
<1> QED
  BY <1>1, <1>2 DEF TypeOK

\* A burned or expired token is dead, and no other is touched.
LEMMA TokenDies ==
    ASSUME TypeOK, NEW p \in Pushes, NEW r \in Refs, token' = [token EXCEPT ![p][r] = "dead"]
    PROVE  /\ token' \in [Pushes -> [Refs -> {"none", "live", "dead"}]]
           /\ token'[p][r] = "dead"
           /\ \A s \in Refs \ {r} : token'[p][s] = token[p][s]
           /\ \A q \in Pushes \ {p} : token'[q] = token[q]
  BY DEF TypeOK

\* The next lease of an attempt is one of its push.
LEMMA NextLease ==
    ASSUME TypeOK, NEW p \in Pushes, NEW k \in Attempts, FlowInv(p), call[p][k].todo # {}
    PROVE  /\ Min(call[p][k].todo) \in call[p][k].todo
           /\ Min(call[p][k].todo) \in push[p].leases
           /\ Min(call[p][k].todo) \in Refs
<1>1. call[p][k].todo \subseteq Refs
  BY DEF TypeOK, CallState
<1>2. call[p][k].todo \subseteq push[p].leases
  BY DEF FlowInv, CallInv
<1> QED
  BY <1>1, <1>2, MinMember, RefsNat

LEMMA RedeemLeaseStep ==
    ASSUME TypeOK, \A q \in Pushes : FlowInv(q), NEW p \in Pushes, NEW k \in Attempts,
           RedeemLease(p, k)
    PROVE  /\ TypeOK' /\ \A q \in Pushes : FlowInv(q)'
           /\ UNCHANGED <<missed, secret, lastPushed, bound, push, agent, lost>>
           /\ \A q \in Pushes : \A j \in Attempts :
                 /\ call'[q][j].pc = call[q][j].pc
                 /\ \A s \in Refs :
                       \/ /\ s \in call[q][j].todo => s \in call'[q][j].todo
                          /\ call'[q][j].got[s] = call[q][j].got[s]
                       \/ call'[q][j].got[s] = secret[s].value
<1> DEFINE c == call[p][k]
           r == Min(c.todo)
           new == [c EXCEPT !.todo = @ \ {r}, !.got = [@ EXCEPT ![r] = secret[r].value]]
<1>1. /\ c \in CallState /\ c.pc = "redeem" /\ c.todo # {} /\ token[p][r] = "live"
      /\ token' = [token EXCEPT ![p][r] = "dead"]
      /\ UNCHANGED <<missed, secret, lastPushed, bound, written, removals, push, idemCache, agent, lost>>
  BY DEF RedeemLease, TypeOK, ruriko, gitai
<1>2. r \in c.todo /\ r \in push[p].leases /\ r \in Refs
  BY <1>1, NextLease
<1>3. call' = [call EXCEPT ![p] = [call[p] EXCEPT ![k] = new]]
  <2>1. call' = [call EXCEPT ![p][k] = new]
    BY DEF RedeemLease
  <2> HIDE DEF new
  <2> QED
    BY <2>1
<1> HIDE DEF r
<1>4. /\ new \in CallState /\ new.pc = "redeem" /\ new.ok = c.ok /\ new.todo = c.todo \ {r}
      /\ new.got[r] = secret[r].value
      /\ \A s \in Refs \ {r} : new.got[s] = c.got[s]
  <2>1. /\ [c.got EXCEPT ![r] = secret[r].value] \in [Refs -> Nat]
        /\ [c.got EXCEPT ![r] = secret[r].value][r] = secret[r].value
        /\ \A s \in Refs \ {r} : [c.got EXCEPT ![r] = secret[r].value][s] = c.got[s]
    BY <1>1, <1>2 DEF TypeOK, CallState
  <2> QED
    BY <1>1, <1>2, <2>1 DEF CallState
<1> HIDE DEF new
<1>5. /\ call' \in [Pushes -> [Attempts -> CallState]]
      /\ call'[p][k] = new
      /\ \A j \in Attempts \ {k} : call'[p][j] = call[p][j]
      /\ \A q \in Pushes \ {p} : call'[q] = call[q]
  BY <1>3, <1>4, CallUpdate
<1>6. /\ token' \in [Pushes -> [Refs -> {"none", "live", "dead"}]]
      /\ token'[p][r] = "dead"
      /\ \A s \in Refs \ {r} : token'[p][s] = token[p][s]
      /\ \A q \in Pushes \ {p} : token'[q] = token[q]
  BY <1>1, <1>2, TokenDies
<1>7. TypeOK'
  BY <1>1, <1>5, <1>6 DEF TypeOK
<1>8. \A j \in Attempts : call[p][j].got[r] = 0
  <2>1. \A j \in Attempts : CallInv(p, j)
    BY DEF FlowInv
  <2> QED
    BY <1>1, <1>2, <2>1 DEF CallInv
<1>9. PushInv(p)'
  BY <1>1, <1>4, <1>5 DEF FlowInv, PushInv
<1>10. ASSUME NEW j \in Attempts PROVE CallInv(p, j)'
  <2>1. CallInv(p, j) /\ CallInv(p, k)
    BY DEF FlowInv
  <2>2. CASE j = k
    <3>1. ~c.ok
      BY <1>1, <2>1 DEF CallInv
    <3>2. \A s \in Refs : new.got[s] # 0 => s \in push'[p].leases /\ token'[p][s] = "dead"
      BY <1>1, <1>2, <1>4, <1>6, <2>1 DEF CallInv
    <3> QED
      BY <1>1, <1>4, <1>5, <2>1, <2>2, <3>1, <3>2 DEF CallInv
  <2>3. CASE j # k
    BY <1>1, <1>5, <1>6, <2>1, <2>3 DEF CallInv
  <2> QED
    BY <2>2, <2>3
<1>11. ASSUME NEW s \in Refs, NEW i \in Attempts, NEW j \in Attempts,
              call'[p][i].got[s] # 0, call'[p][j].got[s] # 0
       PROVE  i = j
  <2>1. CASE s = r
    BY <1>5, <1>8, <1>11, <2>1
  <2>2. CASE s # r
    <3>1. call[p][i].got[s] # 0 /\ call[p][j].got[s] # 0
      BY <1>4, <1>5, <1>11, <2>2
    <3> QED
      BY <3>1 DEF FlowInv
  <2> QED
    BY <2>1, <2>2
<1>12. SuccessMeansApplied!(p)'
  <2>1. \A j \in Attempts : call[p][j].ok => call'[p][j] = call[p][j]
    BY <1>1, <1>5 DEF FlowInv, CallInv
  <2> QED
    BY <1>1, <2>1 DEF FlowInv
<1>13. FlowInv(p)'
  BY <1>9, <1>10, <1>11, <1>12 DEF FlowInv
<1>14. ASSUME NEW q \in Pushes \ {p} PROVE FlowInv(q)'
  BY <1>1, <1>5, <1>6, FlowSame
<1>15. ASSUME NEW q \in Pushes, NEW j \in Attempts
       PROVE  /\ call'[q][j].pc = call[q][j].pc
              /\ \A s \in Refs :
                    \/ /\ s \in call[q][j].todo => s \in call'[q][j].todo
                       /\ call'[q][j].got[s] = call[q][j].got[s]
                    \/ call'[q][j].got[s] = secret[s].value
  BY <1>1, <1>4, <1>5
<1> QED
  BY <1>1, <1>7, <1>13, <1>14, <1>15

\* A lease that is given up counts as missed.
LEMMA SkipLeaseStep ==
    ASSUME TypeOK, \A q \in Pushes : FlowInv(q), NEW p \in Pushes, NEW k \in Attempts,
           SkipLease(p, k)
    PROVE  /\ TypeOK' /\ \A q \in Pushes : FlowInv(q)'
           /\ UNCHANGED <<secret, lastPushed, bound, push, agent, lost>>
           /\ missed \subseteq missed'
           /\ \A q \in Pushes : \A j \in Attempts :
                 /\ call'[q][j].pc = call[q][j].pc
                 /\ call'[q][j].got = call[q][j].got
                 /\ \A s \in Refs \ missed' : s \in call[q][j].todo => s \in call'[q][j].todo
<1> DEFINE c == call[p][k]
           r == Min(c.todo)
           new == [c EXCEPT !.todo = @ \ {r}]
<1>1. /\ c \in CallState /\ c.pc = "redeem" /\ c.todo # {}
      /\ missed' = missed \cup {r}
      /\ UNCHANGED <<secret, lastPushed, bound, written, removals, push, idemCache, agent, lost>>
  BY DEF SkipLease, TypeOK, ruriko, gitai
<1>2. r \in c.todo /\ r \in push[p].leases /\ r \in Refs
  BY <1>1, NextLease
<1>3. call' = [call EXCEPT ![p] = [call[p] EXCEPT ![k] = new]]
  BY DEF SkipLease
<1>4. token' = token \/ token' = [token EXCEPT ![p][r] = "dead"]
  BY DEF SkipLease
<1> HIDE DEF r
<1>5. /\ new \in CallState /\ new.pc = "redeem" /\ new.ok = c.ok /\ new.todo = c.todo \ {r}
      /\ new.got = c.got
  BY <1>1, <1>2 DEF CallState
<1> HIDE DEF new
<1>6. /\ call' \in [Pushes -> [Attempts -> CallState]]
      /\ call'[p][k] = new
      /\ \A j \in Attempts \ {k} : call'[p][j] = call[p][j]
      /\ \A q \in Pushes \ {p} : call'[q] = call[q]
  BY <1>3, <1>5, CallUpdate
<1>7. /\ token' \in [Pushes -> [Refs -> {"none", "live", "dead"}]]
      /\ \A s \in Refs : token[p][s] = "dead" => token'[p][s] = "dead"
      /\ \A q \in Pushes \ {p} : token'[q] = token[q]
  <2>1. CASE token' = token
    BY <2>1 DEF TypeOK
  <2>2. CASE token' = [token EXCEPT ![p][r] = "dead"]
    BY <1>2, <2>2, TokenDies
  <2> QED
    BY <1>4, <2>1, <2>2
<1>8. TypeOK'
  BY <1>1, <1>2, <1>6, <1>7 DEF TypeOK
<1>9. PushInv(p)'
  BY <1>1, <1>5, <1>6 DEF FlowInv, PushInv
<1>10. ASSUME NEW j \in Attempts PROVE CallInv(p, j)'
  <2>1. CallInv(p, j) /\ CallInv(p, k)
    BY DEF FlowInv
  <2>2. CASE j = k
    BY <1>1, <1>5, <1>6, <1>7, <2>1, <2>2 DEF CallInv
  <2>3. CASE j # k
    BY <1>1, <1>6, <1>7, <2>1, <2>3 DEF CallInv
  <2> QED
    BY <2>2, <2>3
<1>11. \A j \in Attempts : call'[p][j].got = call[p][j].got /\ call'[p][j].ok = call[p][j].ok
  BY <1>5, <1>6
<1>12. FlowInv(p)'
  <2>1. SuccessMeansApplied!(p)'
    BY <1>1, <1>11 DEF FlowInv
  <2> QED
    BY <1>9, <1>10, <1>11, <2>1 DEF FlowInv
<1>13. ASSUME NEW q \in Pushes \ {p} PROVE FlowInv(q)'
  BY <1>1, <1>6, <1>7, FlowSame
<1>14. ASSUME NEW q \in Pushes, NEW j \in Attempts
       PROVE  /\ call'[q][j].pc = call[q][j].pc
              /\ call'[q][j].got = call[q][j].got
              /\ \A s \in Refs \ missed' : s \in call[q][j].todo => s \in call'[q][j].todo
  BY <1>1, <1>5, <1>6
<1> QED
  BY <1>1, <1>8, <1>12, <1>13, <1>14

\* What an attempt redeemed replaces what the agent holds, and its answer says whether it
\* redeemed anything.
LEMMA ApplyStep ==
    ASSUME TypeOK, \A q \in Pushes : FlowInv(q), NEW p \in Pushes, NEW k \in Attempts,
           Apply(p, k)
    PROVE  /\ TypeOK' /\ \A q \in Pushes : FlowInv(q)'
           /\ UNCHANGED <<missed, secret, lastPushed, bound, push>>
           /\ call[p][k].pc = "redeem" /\ call[p][k].todo = {}
           /\ agent' = IF \E r \in Refs : call[p][k].got[r] # 0 THEN call[p][k].got ELSE agent
           /\ lost' = IF \E r \in Refs : call[p][k].got[r] # 0 THEN {} ELSE lost
           /\ call'[p][k].pc = "reply"
           /\ \A j \in Attempts \ {k} : call'[p][j] = call[p][j]
           /\ \A q \in Pushes \ {p} : call'[q] = call[q]
<1> DEFINE c == call[p][k]
           any == \E r \in Refs : c.got[r] # 0
           new == [c EXCEPT !.pc = "reply", !.ok = any]
<1>1. /\ c \in CallState /\ c.pc = "redeem" /\ c.todo = {}
      /\ agent' = IF any THEN c.got ELSE agent
      /\ lost' = IF any THEN {} ELSE lost
      /\ idemCache' = IF any THEN idemCache \cup {<<p, k>>} ELSE idemCache
      /\ UNCHANGED <<missed, secret, lastPushed, bound, written, removals, push, token>>
  BY DEF Apply, TypeOK, ruriko, IdempotencyKey
<1>2. call' = [call EXCEPT ![p] = [call[p] EXCEPT ![k] = new]]
  BY DEF Apply
<1>3. /\ new \in CallState /\ new.pc = "reply" /\ new.ok = any /\ new.todo = c.todo
      /\ new.got = c.got
  <2>1. any \in BOOLEAN
    OBVIOUS
  <2> HIDE DEF any
  <2> QED
    BY <1>1, <2>1 DEF CallState
<1> HIDE DEF new
<1>4. /\ call' \in [Pushes -> [Attempts -> CallState]]
      /\ call'[p][k] = new
      /\ \A j \in Attempts \ {k} : call'[p][j] = call[p][j]
      /\ \A q \in Pushes \ {p} : call'[q] = call[q]
  BY <1>2, <1>3, CallUpdate
<1>5. TypeOK'
  <2>1. agent' \in [Refs -> Nat]
    BY <1>1 DEF TypeOK, CallState
  <2>2. idemCache' \in SUBSET (Pushes \X Attempts)
    BY <1>1 DEF TypeOK
  <2>3. lost' \in SUBSET Refs
    BY <1>1 DEF TypeOK
  <2> QED
    BY <1>1, <1>4, <2>1, <2>2, <2>3 DEF TypeOK
<1>6. PushInv(p)'
  BY <1>1, <1>4 DEF FlowInv, PushInv
<1>7. ASSUME NEW j \in Attempts PROVE CallInv(p, j)'
  <2>1. CallInv(p, j) /\ CallInv(p, k)
    BY DEF FlowInv
  <2>2. CASE j = k
    <3>1. new.ok => \E r \in Refs : new.got[r] # 0
      BY <1>3
    <3> QED
      BY <1>1, <1>3, <1>4, <2>1, <2>2, <3>1 DEF CallInv
  <2>3. CASE j # k
    <3>1. <<p, j>> \in idemCache' => <<p, j>> \in idemCache
      BY <1>1, <2>3
    <3> QED
      BY <1>1, <1>4, <2>1, <2>3, <3>1 DEF CallInv
  <2> QED
    BY <2>2, <2>3
<1>8. \A j \in Attempts : call'[p][j].got = call[p][j].got /\ (call[p][j].ok => call'[p][j] = call[p][j])
  <2>1. CallInv(p, k)
    BY DEF FlowInv
  <2>2. ~c.ok
    BY <1>1, <2>1 DEF CallInv
  <2> QED
    BY <1>3, <1>4, <2>2
<1>9. FlowInv(p)'
  <2>1. SuccessMeansApplied!(p)'
    BY <1>1, <1>8 DEF FlowInv
  <2> QED
    BY <1>6, <1>7, <1>8, <2>1 DEF FlowInv
<1>10. ASSUME NEW q \in Pushes \ {p} PROVE FlowInv(q)'
  <2>1. \A j \in Attempts : <<q, j>> \in idemCache' => <<q, j>> \in idemCache
    BY <1>1
  <2> QED
    BY <1>1, <1>4, <2>1, FlowSame
<1> QED
  BY <1>1, <1>3, <1>4, <1>5, <1>9, <1>10

\* The answer moves on the push that still waits for this attempt, and no other.
LEMMA ReplyStep ==
    ASSUME TypeOK, \A q \in Pushes : FlowInv(q), NEW p \in Pushes, NEW k \in Attempts,
           Reply(p, k)
    PROVE  /\ TypeOK' /\ \A q \in Pushes : FlowInv(q)'
           /\ UNCHANGED <<missed, secret, lastPushed, bound, agent, lost>>
           /\ call[p][k].pc = "reply" /\ call'[p][k].pc = "done"
           /\ \A j \in Attempts \ {k} : call'[p][j] = call[p][j]
           /\ \A q \in Pushes \ {p} : call'[q] = call[q] /\ push'[q] = push[q]
           /\ push'[p].leases = push[p].leases
<1> DEFINE c == call[p][k]
           new == [c EXCEPT !.pc = "done"]
           waiting == push[p].pc = "wait" /\ push[p].attempt = k
<1>1. /\ c \in CallState /\ c.pc = "reply" /\ push[p] \in PushState
      /\ push' = IF ~waiting THEN push
                 ELSE IF c.ok THEN [push EXCEPT ![p].pc = "mark", ![p].todo = push[p].leases]
                 ELSE AttemptFailed(p)
      /\ UNCHANGED <<missed, secret, lastPushed, bound, written, removals, token, idemCache, agent, lost>>
  BY DEF Reply, TypeOK, ruriko, gitai
<1>2. call' = [call EXCEPT ![p] = [call[p] EXCEPT ![k] = new]]
  BY DEF Reply
<1>3. /\ new \in CallState /\ new.pc = "done" /\ new.ok = c.ok /\ new.todo = c.todo
      /\ new.got = c.got
  BY <1>1 DEF CallState
<1> HIDE DEF new
<1>4. /\ call' \in [Pushes -> [Attempts -> CallState]]
      /\ call'[p][k] = new
      /\ \A j \in Attempts \ {k} : call'[p][j] = call[p][j]
      /\ \A q \in Pushes \ {p} : call'[q] = call[q]
  BY <1>2, <1>3, CallUpdate
<1>5. /\ push' \in [Pushes -> PushState]
      /\ \A q \in Pushes \ {p} : push'[q] = push[q]
      /\ push'[p].leases = push[p].leases
      /\ \/ push' = push
         \/ /\ waiting /\ c.ok
            /\ push'[p].pc = "mark" /\ push'[p].todo = push[p].leases /\ push'[p].attempt = push[p].attempt
         \/ /\ waiting /\ push[p].attempt < MaxAttempts
            /\ push'[p].pc = "send" /\ push'[p].attempt = push[p].attempt + 1
            /\ push'[p].todo = push[p].todo
         \/ /\ waiting
            /\ push'[p].pc = "failed" /\ push'[p].attempt = push[p].attempt
            /\ push'[p].todo = push[p].todo
  <2>1. CASE ~waiting
    BY <1>1, <2>1 DEF TypeOK
  <2>2. CASE waiting /\ c.ok
    <3> DEFINE P == [push[p] EXCEPT !.pc = "mark", !.todo = push[p].leases]
    <3>1. push' = [push EXCEPT ![p] = P]
      BY <1>1, <2>2
    <3>2. /\ P \in PushState /\ P.pc = "mark" /\ P.todo = push[p].leases
          /\ P.leases = push[p].leases /\ P.attempt = push[p].attempt
      BY <1>1 DEF PushState
    <3> HIDE DEF P
    <3> QED
      BY <2>2, <3>1, <3>2 DEF TypeOK
  <2>3. CASE waiting /\ ~c.ok
    <3>1. PICK P : P = AttemptFailed(p)
      OBVIOUS
    <3>2. push' = P
      BY <1>1, <2>3, <3>1
    <3> QED
      BY <2>3, <3>1, <3>2, FailedPush
  <2> QED
    BY <2>1, <2>2, <2>3
<1>6. TypeOK'
  BY <1>1, <1>4, <1>5 DEF TypeOK
<1>7. \A j \in Attempts : /\ CallInv(p, j) /\ j \in Nat
                          /\ call'[p][j].got = call[p][j].got /\ call'[p][j].ok = call[p][j].ok
                          /\ call'[p][j].todo = call[p][j].todo
                          /\ call[p][j].pc = "none" => call'[p][j] = call[p][j]
                          /\ call'[p][j].pc = "none" => call[p][j].pc = "none"
                          /\ call[p][j].pc \in {"reply", "done"} => call'[p][j].pc \in {"reply", "done"}
  BY <1>1, <1>3, <1>4, RefsNat DEF FlowInv
<1>8. PushInv(p)'
  <2>1. PushInv(p)
    BY DEF FlowInv
  <2>2. push[p].pc # "ready"
    BY <1>1, <2>1 DEF PushInv
  <2>3. push[p].pc = "wait" => push[p].attempt \in Attempts
    BY <2>1 DEF PushInv
  <2>4. push[p].attempt < MaxAttempts /\ push[p].attempt \in Attempts => push[p].attempt + 1 \in Attempts
    BY DistributionAssumption DEF Attempts
  <2> QED
    BY <1>5, <2>1, <2>2, <2>3, <2>4 DEF PushInv
<1>9. ASSUME NEW j \in Attempts PROVE CallInv(p, j)'
  <2>1. CallInv(p, j) /\ push[p].attempt \in Nat /\ j \in Nat
    BY <1>1, <1>7 DEF PushState
  <2>2. call'[p][j].pc # "none" =>
            /\ j <= push'[p].attempt
            /\ push'[p].pc = "send" => j # push'[p].attempt
    BY <1>5, <1>7, <2>1 DEF CallInv
  <2>3. push'[p].leases = push[p].leases /\ UNCHANGED <<token, idemCache>>
    BY <1>1, <1>5
  <2>4. CASE j = k
    <3>1. call[p][j].pc \notin {"none"} /\ call'[p][j].pc \in {"reply", "done"}
      BY <1>1, <1>3, <1>4, <2>4
    <3>2. /\ call'[p][j].got = call[p][j].got /\ call'[p][j].ok = call[p][j].ok
          /\ call'[p][j].todo = call[p][j].todo
      BY <1>7
    <3> QED
      BY <2>1, <2>2, <2>3, <3>1, <3>2 DEF CallInv
  <2>5. CASE j # k
    <3>1. call'[p][j] = call[p][j]
      BY <1>4, <2>5
    <3> QED
      BY <2>1, <2>2, <2>3, <3>1 DEF CallInv
  <2> QED
    BY <2>4, <2>5
<1>10. FlowInv(p)'
  <2>1. SuccessMeansApplied!(p)'
    <3>1. CASE push' = push
      BY <1>7, <3>1 DEF FlowInv
    <3>2. CASE c.ok /\ push'[p].pc = "mark"
      <4>1. \E r \in push[p].leases : c.got[r] # 0
        <5>1. CallInv(p, k)
          BY <1>7
        <5> QED
          BY <3>2, <5>1 DEF CallInv
      <4> QED
        BY <1>5, <1>7, <3>2, <4>1
    <3>3. CASE push'[p].pc \in {"send", "failed"}
      BY <3>3
    <3> QED
      BY <1>5, <3>1, <3>2, <3>3
  <2> QED
    BY <1>7, <1>8, <1>9, <2>1 DEF FlowInv
<1>11. ASSUME NEW q \in Pushes \ {p} PROVE FlowInv(q)'
  BY <1>1, <1>4, <1>5, FlowSame
<1> QED
  BY <1>1, <1>3, <1>4, <1>5, <1>6, <1>10, <1>11

LEMMA TokenExpiresStep ==
    ASSUME TypeOK, \A q \in Pushes : FlowInv(q), NEW p \in Pushes, NEW r \in Refs,
           TokenExpires(p, r)
    PROVE  /\ TypeOK' /\ \A q \in Pushes : FlowInv(q)'
           /\ UNCHANGED <<missed, secret, lastPushed, bound, push, call, agent, lost>>
<1>1. /\ token' = [token EXCEPT ![p][r] = "dead"]
      /\ UNCHANGED <<missed, secret, lastPushed, bound, written, push, call, idemCache, agent, lost>>
  BY DEF TokenExpires, ruriko, gitai
<1>0. removals' \in Nat
  BY DEF TokenExpires, Removal, TypeOK
<1>2. /\ token' \in [Pushes -> [Refs -> {"none", "live", "dead"}]]
      /\ token'[p][r] = "dead"
      /\ \A s \in Refs \ {r} : token'[p][s] = token[p][s]
      /\ \A q \in Pushes \ {p} : token'[q] = token[q]
  BY <1>1, TokenDies
<1>3. TypeOK'
  BY <1>0, <1>1, <1>2 DEF TypeOK
<1>4. FlowInv(p)'
  <2>1. \A k \in Attempts : CallInv(p, k)'
    BY <1>1, <1>2 DEF FlowInv, CallInv
  <2> QED
    BY <1>1, <2>1 DEF FlowInv, PushInv
<1>5. ASSUME NEW q \in Pushes \ {p} PROVE FlowInv(q)'
  BY <1>1, <1>2, FlowSame
<1> QED
  BY <1>1, <1>3, <1>4, <1>5

\* A value whose time to live is over: nothing else is touched.
LEMMA ValuesExpireStep ==
    ASSUME TypeOK, NEW refs \in SUBSET Refs, ValuesExpire(refs)
    PROVE  /\ TypeOK' /\ lost' = lost \cup refs
           /\ \A r \in Refs \ refs : agent'[r] = agent[r]
           /\ UNCHANGED <<missed, secret, lastPushed, bound, token, push, call, idemCache>>
<1>1. /\ agent' = [r \in Refs |-> IF r \in refs THEN 0 ELSE agent[r]]
      /\ lost' = lost \cup refs /\ removals' = removals + 1
      /\ UNCHANGED <<missed, secret, lastPushed, bound, written, token, push, call, idemCache>>
  BY DEF ValuesExpire, Removal, ruriko
<1>2. agent' \in [Refs -> Nat] /\ lost' \in SUBSET Refs /\ removals' \in Nat
  BY <1>1 DEF TypeOK
<1> QED
  BY <1>1, <1>2 DEF TypeOK

\* A restart of the agent ends the attempts it was serving and keeps what they redeemed.
LEMMA RestartStep ==
    ASSUME TypeOK, \A q \in Pushes : FlowInv(q), AgentRestarts
    PROVE  /\ TypeOK' /\ \A q \in Pushes : FlowInv(q)'
           /\ UNCHANGED <<missed, secret, lastPushed, bound, push>> /\ lost' = Refs
           /\ \A q \in Pushes : \A k \in Attempts :
                 call'[q][k].pc = IF call[q][k].pc \in {"redeem", "reply"} THEN "done" ELSE call[q][k].pc
<1>1. /\ agent' = [r \in Refs |-> 0] /\ idemCache' = {} /\ lost' = Refs
      /\ call' = [q \in Pushes |-> [k \in Attempts |->
                     IF call[q][k].pc \in {"redeem", "reply"}
                     THEN [call[q][k] EXCEPT !.pc = "done"] ELSE call[q][k]]]
      /\ UNCHANGED <<missed, secret, lastPushed, bound, written, token, push>>
  BY DEF AgentRestarts, ruriko
<1>2. removals' \in Nat
  BY DEF AgentRestarts, Removal, TypeOK
<1>3. ASSUME NEW q \in Pushes, NEW k \in Attempts
      PROVE  /\ call'[q][k] \in CallState
             /\ call'[q][k].pc = IF call[q][k].pc \in {"redeem", "reply"} THEN "done" ELSE call[q][k].pc
             /\ call'[q][k].todo = call[q][k].todo /\ call'[q][k].got = call[q][k].got
             /\ call'[q][k].ok = call[q][k].ok
             /\ call'[q][k].pc = "none" => call'[q][k] = call[q][k]
  <2>1. call[q][k] \in CallState
    BY DEF TypeOK
  <2>2. call'[q][k] = IF call[q][k].pc \in {"redeem", "reply"}
                      THEN [call[q][k] EXCEPT !.pc = "done"] ELSE call[q][k]
    BY <1>1
  <2>3. CASE call[q][k].pc \in {"redeem", "reply"}
    BY <2>1, <2>2, <2>3 DEF CallState
  <2>4. CASE call[q][k].pc \notin {"redeem", "reply"}
    BY <2>1, <2>2, <2>4
  <2> QED
    BY <2>3, <2>4
<1>4. call' \in [Pushes -> [Attempts -> CallState]]
  <2>1. \A q \in Pushes : call'[q] = [k \in Attempts |-> call'[q][k]] /\ call'[q] \in [Attempts -> CallState]
    BY <1>1, <1>3
  <2> QED
    BY <1>1, <2>1
<1>5. TypeOK'
  BY <1>1, <1>2, <1>4 DEF TypeOK
<1>6. ASSUME NEW q \in Pushes PROVE FlowInv(q)'
  <2>1. FlowInv(q)
    OBVIOUS
  <2>2. ASSUME NEW k \in Attempts PROVE CallInv(q, k)'
    <3>1. CallInv(q, k) /\ call[q][k] \in CallState /\ <<q, k>> \notin idemCache'
      BY <1>1, <2>1 DEF FlowInv, TypeOK
    <3>2. call[q][k].pc \in {"none", "redeem", "reply", "done"}
      BY <3>1 DEF CallState
    <3> QED
      BY <1>1, <1>3, <3>1, <3>2 DEF CallInv
  <2>3. PushInv(q)'
    BY <1>1, <1>3, <2>1 DEF FlowInv, PushInv
  <2>4. SuccessMeansApplied!(q)'
    BY <1>1, <1>3, <2>1 DEF FlowInv
  <2> QED
    BY <1>3, <2>1, <2>2, <2>3, <2>4 DEF FlowInv
<1> QED
  BY <1>1, <1>3, <1>5, <1>6

-----------------------------------------------------------------------------
(* The invariants of the specification.                                    *)

LEMMA InitIInv == Init => IInv
<1> SUFFICES ASSUME Init PROVE IInv
  OBVIOUS
<1>1. TypeOK
  <2>1. [pc |-> "ready", leases |-> {}, attempt |-> 0, todo |-> {}] \in PushState
    BY DEF PushState
  <2> QED
    BY <2>1, NoCallType DEF Init, TypeOK
<1>2. ASSUME NEW p \in Pushes PROVE FlowInv(p)
  <2>1. /\ push[p].pc = "ready" /\ push[p].leases = {} /\ push[p].todo = {}
        /\ idemCache = {}
        /\ \A k \in Attempts : call[p][k] = NoCall
    BY DEF Init
  <2>2. PushInv(p) /\ \A k \in Attempts : CallInv(p, k)
    BY <2>1, NoCallFields DEF PushInv, CallInv
  <2> QED
    BY <2>1, <2>2, NoCallFields DEF FlowInv
<1>3. PushedNotAhead
  BY DEF Init, PushedNotAhead
<1> QED
  BY <1>1, <1>2, <1>3, FlowInvParts DEF IInv, Inv

LEMMA StepIInv == IInv /\ [Next]_vars => IInv'
<1> SUFFICES ASSUME IInv, [Next]_vars PROVE IInv'
  OBVIOUS
<1>1. TypeOK /\ PushedNotAhead /\ \A q \in Pushes : FlowInv(q)
  BY FlowInvParts DEF IInv, Inv
<1> SUFFICES TypeOK' /\ PushedNotAhead' /\ \A q \in Pushes : FlowInv(q)'
  <2>1. (\A q \in Pushes : FlowInv(q))' => /\ SuccessMeansApplied' /\ LeaseRedeemedOnce'
                                           /\ (\A p \in Pushes : PushInv(p))'
                                           /\ (\A p \in Pushes, k \in Attempts : CallInv(p, k))'
    BY DEF FlowInv, SuccessMeansApplied, LeaseRedeemedOnce
  <2> QED
    BY <2>1 DEF IInv, Inv
<1>2. ASSUME NEW r \in Refs, Set(r) \/ Delete(r) \/ Bind(r) \/ Unbind(r)
      PROVE  TypeOK' /\ PushedNotAhead' /\ \A q \in Pushes : FlowInv(q)'
  BY <1>1, <1>2, CommandStep, FlowSame
<1>3. ASSUME NEW p \in Pushes, IssueLeases(p)
      PROVE  TypeOK' /\ PushedNotAhead' /\ \A q \in Pushes : FlowInv(q)'
  BY <1>1, <1>3, IssueLeasesStep, RurikoSame DEF IssueLeases, ruriko
<1>4. ASSUME NEW p \in Pushes, Work(p)
      PROVE  TypeOK' /\ PushedNotAhead' /\ \A q \in Pushes : FlowInv(q)'
  <2>1. CASE Send(p)
    BY <1>1, <2>1, SendStep, RurikoSame DEF Send, ruriko
  <2>2. CASE Timeout(p)
    BY <1>1, <2>2, TimeoutStep, RurikoSame DEF Timeout, ruriko
  <2>3. CASE Mark(p)
    BY <1>1, <2>3, MarkStep
  <2> QED
    BY <1>4, <2>1, <2>2, <2>3 DEF Work
<1>5. ASSUME NEW p \in Pushes, NEW k \in Attempts, Serve(p, k)
      PROVE  TypeOK' /\ PushedNotAhead' /\ \A q \in Pushes : FlowInv(q)'
  <2>1. CASE RedeemLease(p, k)
    BY <1>1, <2>1, RedeemLeaseStep, RurikoSame
  <2>2. CASE SkipLease(p, k)
    BY <1>1, <2>2, SkipLeaseStep, RurikoSame
  <2>3. CASE Apply(p, k)
    BY <1>1, <2>3, ApplyStep, RurikoSame
  <2>4. CASE Reply(p, k)
    BY <1>1, <2>4, ReplyStep, RurikoSame
  <2> QED
    BY <1>5, <2>1, <2>2, <2>3, <2>4 DEF Serve
<1>6. ASSUME NEW p \in Pushes, NEW r \in Refs, TokenExpires(p, r)
      PROVE  TypeOK' /\ PushedNotAhead' /\ \A q \in Pushes : FlowInv(q)'
  BY <1>1, <1>6, TokenExpiresStep, RurikoSame
<1>7. CASE UNCHANGED vars
  <2>1. TypeOK'
    BY <1>1, <1>7 DEF TypeOK, vars
  <2> QED
    BY <1>1, <1>7, <2>1, FlowSame, RurikoSame DEF vars
<1>8. ASSUME NEW refs \in SUBSET Refs, ValuesExpire(refs)
      PROVE  TypeOK' /\ PushedNotAhead' /\ \A q \in Pushes : FlowInv(q)'
  BY <1>1, <1>8, ValuesExpireStep, FlowSame, RurikoSame
<1>9. CASE AgentRestarts
  BY <1>1, <1>9, RestartStep, RurikoSame
<1> QED
  BY <1>2, <1>3, <1>4, <1>5, <1>6, <1>7, <1>8, <1>9 DEF Next

\* The pushes, the leases, the agent's token fetches and the table of bindings stay
\* consistent through every step of distributeViaTokens, handleSecretsToken and MarkPushed.
THEOREM InductiveInvariant == Spec => []IInv
  BY InitIInv, StepIInv, PTL DEF Spec

\* Success means that the agent got something, no lease pays twice and no version is
\* recorded that the secret has not reached (distributeViaTokens, handleSecretsToken,
\* MarkPushed), for any number of overlapping pushes, attempts and secrets.
THEOREM Safe == Spec => []Inv
<1>1. IInv => Inv
  BY DEF IInv
<1> QED
  BY <1>1, InductiveInvariant, PTL

-----------------------------------------------------------------------------
(* What the agent holds.                                                   *)

LEMMA QuietIsInactive ==
    ASSUME Quiet, NEW p \in Pushes PROVE ~Active(p)
  BY DEF Quiet, Active

\* A step that starts no push, writes neither the secret nor its binding and no agent
\* memory, and brings attempts further without losing the lease.
LEMMA HeldSame ==
    ASSUME NEW r \in Refs, HeldInv(r), UNCHANGED <<secret, lastPushed, agent, lost>>,
           \A q \in Pushes : /\ Active(q)' => Active(q)
                             /\ push'[q].leases = push[q].leases,
           \A q \in Pushes : \A j \in Attempts :
              Active(q) /\ r \in push[q].leases =>
                 /\ call'[q][j].pc = "redeem" =>
                       \/ r \in call'[q][j].todo
                       \/ call'[q][j].got[r] = secret[r].value
                 /\ call'[q][j].pc \in {"reply", "done"} => call[q][j].pc \in {"reply", "done"}
    PROVE  HeldInv(r)'
  BY DEF HeldInv, Holds

LEMMA InitHInv == Init => HInv
  BY InitIInv DEF Init, HInv, Exists

\* A secret has a value, and only a secret can be bound (ON DELETE CASCADE).
LEMMA StepExists ==
    ASSUME TypeOK, [Next]_vars, \A r \in Refs : Exists(r) => secret[r].value # 0,
           \A r \in bound : Exists(r)
    PROVE  /\ \A r \in Refs : Exists(r)' => secret'[r].value # 0
           /\ \A r \in bound' : Exists(r)'
           /\ missed \subseteq missed'
<1> DEFINE Goal == /\ \A r \in Refs : Exists(r)' => secret'[r].value # 0
                   /\ \A r \in bound' : Exists(r)'
                   /\ missed \subseteq missed'
<1>1. ASSUME NEW r \in Refs, Set(r) PROVE Goal
  <2>1. secret' = [secret EXCEPT ![r] = [version |-> secret[r].version + 1, value |-> written + 1]]
    BY <1>1 DEF Set
  <2>2. written + 1 # 0 /\ secret[r].version + 1 > 0 /\ bound \subseteq Refs
    BY DEF TypeOK
  <2> QED
    BY <1>1, <2>1, <2>2 DEF Set, Overtaken, Exists, TypeOK
<1>2. ASSUME NEW r \in Refs, Delete(r) PROVE Goal
  BY <1>2 DEF Delete, Exists, TypeOK
<1>3. ASSUME NEW r \in Refs, Bind(r) PROVE Goal
  BY <1>3 DEF Bind, Overtaken, Exists, TypeOK
<1>4. ASSUME NEW r \in Refs, Unbind(r) PROVE Goal
  BY <1>4 DEF Unbind, Exists, TypeOK
<1>5. ASSUME UNCHANGED <<secret, bound>>, missed \subseteq missed' PROVE Goal
  BY <1>5 DEF Exists
<1>6. ASSUME NEW p \in Pushes, IssueLeases(p) \/ Work(p) PROVE Goal
  BY <1>5, <1>6 DEF IssueLeases, Work, Send, Timeout, Mark, ruriko
<1>7. ASSUME NEW p \in Pushes, NEW k \in Attempts, Serve(p, k) PROVE Goal
  BY <1>5, <1>7 DEF Serve, RedeemLease, SkipLease, Apply, Reply, ruriko
<1>8. ASSUME NEW p \in Pushes, NEW r \in Refs, TokenExpires(p, r) PROVE Goal
  BY <1>5, <1>8 DEF TokenExpires, ruriko
<1>9. CASE UNCHANGED vars
  BY <1>5, <1>9 DEF vars
<1>10. ASSUME (\E refs \in SUBSET Refs : ValuesExpire(refs)) \/ AgentRestarts PROVE Goal
  BY <1>5, <1>10 DEF ValuesExpire, AgentRestarts, ruriko
<1> HIDE DEF Goal
<1> QED
  BY <1>1, <1>2, <1>3, <1>4, <1>6, <1>7, <1>8, <1>9, <1>10 DEF Next, Goal

\* The commands: one that could spoil a push under way marks its secret as missed.
LEMMA HeldCommand ==
    ASSUME HInv, NEW s \in Refs, Set(s) \/ Delete(s) \/ Bind(s) \/ Unbind(s),
           NEW r \in bound' \ missed', missed \subseteq missed'
    PROVE  HeldInv(r)'
<1>1. /\ TypeOK /\ TypeOK' /\ PushedNotAhead
      /\ UNCHANGED <<token, push, call, idemCache, agent, lost>>
  BY CommandStep DEF HInv, IInv, Inv
<1>2. r \in Refs /\ bound \subseteq Refs
  BY <1>1 DEF TypeOK
<1>3. \A q \in Pushes : Active(q)' <=> Active(q)
  BY <1>1 DEF Active
<1>4. ASSUME Quiet, lastPushed'[r] < secret'[r].version PROVE HeldInv(r)'
  <2>1. \A q \in Pushes : ~Active(q)'
    BY <1>3, <1>4, QuietIsInactive
  <2>2. lastPushed'[r] \in Nat /\ secret'[r].version \in Nat
    BY <1>1, <1>2 DEF TypeOK
  <2> QED
    BY <1>4, <2>1, <2>2 DEF HeldInv
<1>5. CASE s = r
  <2>1. CASE Set(s)
    <3>1. Quiet /\ r \in bound
      BY <1>5, <2>1 DEF Set, Overtaken
    <3>2. lastPushed'[r] = lastPushed[r] /\ secret'[r].version = secret[r].version + 1
      BY <1>1, <1>2, <1>5, <2>1 DEF Set, TypeOK
    <3>3. lastPushed[r] <= secret[r].version /\ lastPushed[r] \in Nat /\ secret[r].version \in Nat
      BY <1>1, <1>2, <3>1 DEF PushedNotAhead, TypeOK
    <3> QED
      BY <1>4, <3>1, <3>2, <3>3
  <2>2. CASE Delete(s)
    BY <1>5, <2>2 DEF Delete
  <2>3. CASE Bind(s)
    <3>1. Quiet
      BY <1>5, <2>3 DEF Bind, Overtaken
    <3>2. lastPushed'[r] = 0 /\ secret'[r].version > 0
      BY <1>1, <1>2, <1>5, <2>3 DEF Bind, Exists, TypeOK
    <3> QED
      BY <1>4, <3>1, <3>2
  <2>4. CASE Unbind(s)
    BY <1>5, <2>4 DEF Unbind
  <2> QED
    BY <2>1, <2>2, <2>3, <2>4
<1>6. CASE s # r
  <2>1. r \in bound \ missed /\ secret'[r] = secret[r] /\ lastPushed'[r] = lastPushed[r]
    BY <1>1, <1>2, <1>6 DEF Set, Delete, Bind, Unbind, TypeOK
  <2>2. HeldInv(r)
    BY <2>1 DEF HInv
  <2> QED
    BY <1>1, <1>3, <2>1, <2>2 DEF HeldInv, Holds
<1> QED
  BY <1>5, <1>6

\* A push that begins while all is quiet leaves no recorded binding out.
LEMMA HeldIssue ==
    ASSUME HInv, NEW p \in Pushes, IssueLeases(p), NEW r \in bound' \ missed'
    PROVE  HeldInv(r)'
<1>1. TypeOK /\ \A q \in Pushes : FlowInv(q)
  BY FlowInvParts DEF HInv, IInv, Inv
<1>2. PICK leases \in SUBSET bound :
          /\ push' = [push EXCEPT ![p].leases = leases,
                                  ![p].pc = IF leases # {} THEN "send"
                                            ELSE IF bound = {} THEN "ok" ELSE "failed",
                                  ![p].attempt = IF leases # {} THEN 1 ELSE 0]
          /\ missed' = missed \cup {s \in bound : ~Quiet \/ (s \notin leases /\ lastPushed[s] > 0)}
  BY DEF IssueLeases
<1>3. /\ UNCHANGED <<secret, lastPushed, bound, call, agent, lost>> /\ push[p].pc = "ready"
      /\ r \in bound \ missed /\ r \in Refs
  BY <1>1, <1>2 DEF IssueLeases, ruriko, gitai, TypeOK
<1>4. Quiet /\ (r \in leases \/ lastPushed[r] = 0)
  <2>1. r \notin {s \in bound : ~Quiet \/ (s \notin leases /\ lastPushed[s] > 0)}
    BY <1>2
  <2>2. Quiet /\ ~(r \notin leases /\ lastPushed[r] > 0)
    BY <1>3, <2>1
  <2>3. lastPushed[r] \in Nat
    BY <1>1, <1>3 DEF TypeOK
  <2> QED
    BY <2>2, <2>3
<1>5. push'[p].leases = leases /\ \A q \in Pushes \ {p} : push'[q] = push[q]
  BY <1>1, <1>2 DEF TypeOK, PushState
<1>6. \A q \in Pushes \ {p} : ~Active(q)'
  <2>1. \A q \in Pushes : ~Active(q)
    BY <1>4, QuietIsInactive
  <2> QED
    BY <1>3, <1>5, <2>1 DEF Active
<1>7. \A k \in Attempts : call'[p][k].pc = "none"
  BY <1>1, <1>3 DEF FlowInv, PushInv
<1>8. lastPushed[r] >= secret[r].version => Holds(r)
  BY <1>3 DEF HInv, HeldInv
<1> QED
  BY <1>3, <1>4, <1>5, <1>6, <1>7, <1>8 DEF HeldInv, Holds

\* The steps of the push itself.
LEMMA HeldWork ==
    ASSUME HInv, NEW p \in Pushes, Work(p), NEW r \in bound' \ missed'
    PROVE  HeldInv(r)'
<1>1. TypeOK /\ PushedNotAhead /\ \A q \in Pushes : FlowInv(q)
  BY FlowInvParts DEF HInv, IInv, Inv
<1>2. r \in bound \ missed /\ r \in Refs /\ UNCHANGED <<secret, bound, missed, agent, lost>>
  BY <1>1 DEF Work, Send, Timeout, Mark, TypeOK, ruriko, gitai
<1>3. HeldInv(r) /\ Exists(r)
  BY <1>2 DEF HInv
<1>4. ASSUME push' = AttemptFailed(p), push[p].pc \in {"send", "wait"}, UNCHANGED <<call, lastPushed>>
      PROVE  HeldInv(r)'
  <2>1. PICK P : P = AttemptFailed(p)
    OBVIOUS
  <2>2. push'[p].leases = push[p].leases /\ \A q \in Pushes \ {p} : push'[q] = push[q]
    BY <1>1, <1>4, <2>1, FailedPush
  <2>3. \A q \in Pushes : Active(q)' => Active(q)
    BY <1>4, <2>2 DEF Active
  <2>4. \A q \in Pushes : push'[q].leases = push[q].leases
    BY <2>2
  <2>5. \A q \in Pushes : \A j \in Attempts :
           Active(q) /\ r \in push[q].leases /\ call[q][j].pc = "redeem"
              => r \in call[q][j].todo \/ call[q][j].got[r] = secret[r].value
    BY <1>3 DEF HeldInv
  <2> QED
    BY <1>2, <1>3, <1>4, <2>3, <2>4, <2>5, HeldSame
<1>5. CASE Send(p)
  <2> DEFINE k == push[p].attempt
  <2>1. CASE push' = AttemptFailed(p) /\ UNCHANGED call
    BY <1>4, <1>5, <2>1 DEF Send, ruriko
  <2>2. CASE push' = [push EXCEPT ![p].pc = "wait"]
    <3>1. /\ push[p].pc = "send" /\ k \in Attempts /\ call[p][k] = NoCall /\ <<p, k>> \notin idemCache
          /\ UNCHANGED lastPushed
      BY <1>1, <1>5 DEF Send, FlowInv, PushInv, CallInv, ruriko
    <3>2. PICK c : /\ call' = [call EXCEPT ![p][k] = c]
                   /\ c = [NoCall EXCEPT !.pc = IF <<p, k>> \in idemCache THEN "reply" ELSE "redeem",
                                         !.ok = <<p, k>> \in idemCache,
                                         !.todo = IF <<p, k>> \in idemCache THEN {} ELSE push[p].leases]
      <4>1. push' # AttemptFailed(p)
        <5>1. PICK P : P = AttemptFailed(p)
          OBVIOUS
        <5>2. P[p].pc # "wait"
          BY <1>1, <5>1, FailedPush
        <5>3. push'[p].pc = "wait"
          BY <1>1, <2>2 DEF TypeOK, PushState
        <5> QED
          BY <5>1, <5>2, <5>3
      <4> QED
        BY <1>5, <4>1 DEF Send, IdempotencyKey
    <3>3. c.todo = push[p].leases
      BY <3>1, <3>2 DEF NoCall
    <3>4. /\ call'[p][k] = c
          /\ \A j \in Attempts \ {k} : call'[p][j] = call[p][j]
          /\ \A q \in Pushes \ {p} : call'[q] = call[q]
      BY <1>1, <3>1, <3>2 DEF TypeOK
    <3>5. c.pc = "redeem"
      BY <3>1, <3>2 DEF NoCall
    <3>6. push'[p].leases = push[p].leases /\ \A q \in Pushes \ {p} : push'[q] = push[q]
      BY <1>1, <2>2 DEF TypeOK, PushState
    <3>7. \A q \in Pushes : /\ Active(q)' => Active(q)
                            /\ push'[q].leases = push[q].leases
      BY <3>1, <3>4, <3>6 DEF Active
    <3>8. \A q \in Pushes : \A j \in Attempts :
             Active(q) /\ r \in push[q].leases =>
                /\ call'[q][j].pc = "redeem" =>
                      \/ r \in call'[q][j].todo
                      \/ call'[q][j].got[r] = secret[r].value
                /\ call'[q][j].pc \in {"reply", "done"} => call[q][j].pc \in {"reply", "done"}
      BY <1>3, <3>3, <3>4, <3>5 DEF HeldInv
    <3> QED
      BY <1>2, <1>3, <3>1, <3>7, <3>8, HeldSame
  <2> QED
    BY <1>5, <2>1, <2>2 DEF Send
<1>6. CASE Timeout(p)
  BY <1>4, <1>6 DEF Timeout, ruriko
<1>7. CASE Mark(p)
  <2>1. /\ push[p].pc = "mark" /\ push'[p].leases = push[p].leases
        /\ \A q \in Pushes \ {p} : push'[q] = push[q]
        /\ UNCHANGED call
        /\ \/ lastPushed'[r] = lastPushed[r]
           \/ r \in push[p].leases
    BY <1>1, <1>2, <1>7, MarkStep DEF Mark
  <2>2. Active(p) /\ \A q \in Pushes : Active(q)' => Active(q)
    BY <2>1 DEF Active
  <2>3. r \in push[p].leases => Holds(r)
    <3>1. PICK k \in Attempts : call[p][k].ok
      BY <1>1, <2>1 DEF FlowInv, PushInv
    <3>2. call[p][k].pc \in {"reply", "done"}
      BY <1>1, <3>1 DEF FlowInv, CallInv
    <3> QED
      BY <1>3, <2>2, <3>2 DEF HeldInv
  <2> QED
    BY <1>2, <1>3, <2>1, <2>2, <2>3 DEF HeldInv, Holds
<1> QED
  BY <1>5, <1>6, <1>7 DEF Work

\* The steps of the agent: what replaces its memory has the value of every binding that the
\* push has a lease for and that was not missed.
LEMMA HeldServe ==
    ASSUME HInv, NEW p \in Pushes, NEW k \in Attempts, Serve(p, k), NEW r \in bound' \ missed'
    PROVE  HeldInv(r)'
<1>1. TypeOK /\ \A q \in Pushes : FlowInv(q)
  BY FlowInvParts DEF HInv, IInv, Inv
<1>2. CASE RedeemLease(p, k)
  <2>1. /\ UNCHANGED <<missed, secret, lastPushed, bound, push, agent, lost>>
        /\ \A q \in Pushes : \A j \in Attempts :
              /\ call'[q][j].pc = call[q][j].pc
              /\ \A s \in Refs :
                    \/ /\ s \in call[q][j].todo => s \in call'[q][j].todo
                       /\ call'[q][j].got[s] = call[q][j].got[s]
                    \/ call'[q][j].got[s] = secret[s].value
    BY <1>1, <1>2, RedeemLeaseStep
  <2>2. r \in Refs /\ HeldInv(r)
    BY <1>1, <2>1 DEF HInv, TypeOK
  <2>3. \A q \in Pushes : Active(q)' => Active(q)
    BY <2>1 DEF Active
  <2>4. \A q \in Pushes : \A j \in Attempts :
           Active(q) /\ r \in push[q].leases /\ call'[q][j].pc = "redeem" =>
              r \in call'[q][j].todo \/ call'[q][j].got[r] = secret[r].value
    BY <2>1, <2>2 DEF HeldInv
  <2> QED
    BY <2>1, <2>2, <2>3, <2>4, HeldSame
<1>3. CASE SkipLease(p, k)
  <2>1. /\ UNCHANGED <<secret, lastPushed, bound, push, agent, lost>> /\ missed \subseteq missed'
        /\ \A q \in Pushes : \A j \in Attempts :
              /\ call'[q][j].pc = call[q][j].pc
              /\ call'[q][j].got = call[q][j].got
              /\ \A s \in Refs \ missed' : s \in call[q][j].todo => s \in call'[q][j].todo
    BY <1>1, <1>3, SkipLeaseStep
  <2>2. r \in Refs /\ HeldInv(r)
    BY <1>1, <2>1 DEF HInv, TypeOK
  <2>3. \A q \in Pushes : Active(q)' => Active(q)
    BY <2>1 DEF Active
  <2>4. \A q \in Pushes : \A j \in Attempts :
           Active(q) /\ r \in push[q].leases /\ call'[q][j].pc = "redeem" =>
              r \in call'[q][j].todo \/ call'[q][j].got[r] = secret[r].value
    BY <2>1, <2>2 DEF HeldInv
  <2> QED
    BY <2>1, <2>2, <2>3, <2>4, HeldSame
<1>4. CASE Apply(p, k)
  <2>1. /\ UNCHANGED <<missed, secret, lastPushed, bound, push>>
        /\ call[p][k].pc = "redeem" /\ call[p][k].todo = {}
        /\ agent' = IF \E s \in Refs : call[p][k].got[s] # 0 THEN call[p][k].got ELSE agent
        /\ lost' = IF \E s \in Refs : call[p][k].got[s] # 0 THEN {} ELSE lost
        /\ call'[p][k].pc = "reply"
        /\ \A j \in Attempts \ {k} : call'[p][j] = call[p][j]
        /\ \A q \in Pushes \ {p} : call'[q] = call[q]
    BY <1>1, <1>4, ApplyStep
  <2>2. r \in Refs /\ HeldInv(r) /\ Exists(r) /\ secret[r].value # 0
    BY <1>1, <2>1 DEF HInv, TypeOK
  <2>3. Active(p) /\ \A q \in Pushes : Active(q)' => Active(q)
    BY <2>1 DEF Active
  <2>4. CASE r \in push[p].leases
    <3>1. call[p][k].got[r] = secret[r].value
      BY <2>1, <2>2, <2>3, <2>4 DEF HeldInv
    <3>2. agent'[r] = secret[r].value
      BY <2>1, <2>2, <3>1
    <3>3. \A q \in Pushes : \A j \in Attempts :
             Active(q) /\ r \in push[q].leases /\ call'[q][j].pc = "redeem" =>
                r \in call'[q][j].todo \/ call'[q][j].got[r] = secret[r].value
      BY <2>1, <2>2 DEF HeldInv
    <3> QED
      BY <2>1, <2>2, <2>3, <3>2, <3>3 DEF HeldInv, Holds
  <2>5. CASE r \notin push[p].leases
    <3>1. lastPushed[r] = 0 /\ secret[r].version > 0 /\ secret[r].version \in Nat
      BY <1>1, <2>2, <2>3, <2>5 DEF HeldInv, Exists, TypeOK
    <3>2. \A q \in Pushes : Active(q)' => q = p
      BY <2>2, <2>3 DEF HeldInv
    <3> QED
      BY <2>1, <2>5, <3>1, <3>2 DEF HeldInv, Holds
  <2> QED
    BY <2>4, <2>5
<1>5. CASE Reply(p, k)
  <2>1. /\ UNCHANGED <<missed, secret, lastPushed, bound, agent, lost>>
        /\ call[p][k].pc = "reply" /\ call'[p][k].pc = "done"
        /\ \A j \in Attempts \ {k} : call'[p][j] = call[p][j]
        /\ \A q \in Pushes \ {p} : call'[q] = call[q] /\ push'[q] = push[q]
        /\ push'[p].leases = push[p].leases
    BY <1>1, <1>5, ReplyStep
  <2>2. r \in Refs /\ HeldInv(r)
    BY <1>1, <2>1 DEF HInv, TypeOK
  <2>3. Active(p) /\ \A q \in Pushes : Active(q)' => Active(q)
    BY <2>1 DEF Active
  <2>4. \A q \in Pushes : push'[q].leases = push[q].leases
    BY <2>1
  <2>5. \A q \in Pushes : \A j \in Attempts :
           Active(q) /\ r \in push[q].leases =>
              /\ call'[q][j].pc = "redeem" =>
                    \/ r \in call'[q][j].todo
                    \/ call'[q][j].got[r] = secret[r].value
              /\ call'[q][j].pc \in {"reply", "done"} => call[q][j].pc \in {"reply", "done"}
    BY <2>1, <2>2 DEF HeldInv
  <2> QED
    BY <2>1, <2>2, <2>3, <2>4, <2>5, HeldSame
<1> QED
  BY <1>2, <1>3, <1>4, <1>5 DEF Serve

LEMMA StepHInv == HInv /\ [Next]_vars => HInv'
<1> SUFFICES ASSUME HInv, [Next]_vars PROVE HInv'
  OBVIOUS
<1>1. IInv'
  BY StepIInv DEF HInv
<1>2. /\ \A r \in Refs : Exists(r)' => secret'[r].value # 0
      /\ \A r \in bound' : Exists(r)'
      /\ missed \subseteq missed'
  BY StepExists DEF HInv, IInv, Inv
<1>3. ASSUME NEW r \in bound' \ missed' PROVE HeldInv(r)'
  <2>1. ASSUME NEW s \in Refs, Set(s) \/ Delete(s) \/ Bind(s) \/ Unbind(s) PROVE HeldInv(r)'
    BY <1>2, <2>1, HeldCommand
  <2>2. ASSUME NEW p \in Pushes, IssueLeases(p) \/ Work(p) PROVE HeldInv(r)'
    BY <2>2, HeldIssue, HeldWork
  <2>3. ASSUME NEW p \in Pushes, NEW k \in Attempts, Serve(p, k) PROVE HeldInv(r)'
    BY <2>3, HeldServe
  <2>4. ASSUME UNCHANGED <<missed, secret, lastPushed, bound, push, call, agent, lost>> PROVE HeldInv(r)'
    BY <2>4 DEF HInv, HeldInv, Holds, Active
  <2>5. ASSUME NEW p \in Pushes, NEW s \in Refs, TokenExpires(p, s) PROVE HeldInv(r)'
    BY <2>4, <2>5 DEF TokenExpires, ruriko, gitai
  <2>6. CASE UNCHANGED vars
    BY <2>4, <2>6 DEF vars
  <2>7. ASSUME NEW refs \in SUBSET Refs, ValuesExpire(refs) PROVE HeldInv(r)'
    <3>1. /\ lost' = lost \cup refs /\ \A s \in Refs \ refs : agent'[s] = agent[s]
          /\ UNCHANGED <<missed, secret, lastPushed, bound, token, push, call, idemCache>>
      BY <2>7, ValuesExpireStep DEF HInv, IInv, Inv
    <3>2. r \in Refs /\ HeldInv(r) /\ (Holds(r) => Holds(r)')
      BY <3>1 DEF HInv, IInv, Inv, TypeOK, Holds
    <3>3. \A q \in Pushes : Active(q)' <=> Active(q)
      BY <3>1 DEF Active
    <3> QED
      BY <3>1, <3>2, <3>3 DEF HeldInv
  <2>8. CASE AgentRestarts
    <3>1. TypeOK /\ \A q \in Pushes : FlowInv(q)
      BY FlowInvParts DEF HInv, IInv, Inv
    <3>2. /\ UNCHANGED <<missed, secret, lastPushed, bound, push>> /\ lost' = Refs
          /\ \A q \in Pushes : \A k \in Attempts :
                call'[q][k].pc = IF call[q][k].pc \in {"redeem", "reply"} THEN "done" ELSE call[q][k].pc
      BY <2>8, <3>1, RestartStep
    <3>3. r \in Refs /\ HeldInv(r) /\ Holds(r)'
      BY <3>1, <3>2 DEF HInv, TypeOK, Holds
    <3>4. \A q \in Pushes : Active(q)' => Active(q)
      BY <3>2 DEF Active
    <3>5. \A q \in Pushes : \A k \in Attempts : call'[q][k].pc # "redeem"
      BY <3>2
    <3> QED
      BY <3>2, <3>3, <3>4, <3>5 DEF HeldInv
  <2> QED
    BY <2>1, <2>2, <2>3, <2>5, <2>6, <2>7, <2>8 DEF Next
<1> QED
  BY <1>1, <1>2, <1>3 DEF HInv

\* What StaleBindings does not list the agent holds, once all is quiet: the versions that
\* MarkPushed records are true of every binding that was not written or bound under a push,
\* pushed twice at once, or given up by an attempt, as long as the agent keeps what it got:
\* what it evicted or forgot by a restart is the other exception.
THEOREM UnlistedHeld == Spec => []UnlistedIsHeld
<1>1. HInv => UnlistedIsHeld
  <2> SUFFICES ASSUME HInv, NEW r \in bound \ (StaleBindings \cup missed)
               PROVE  Holds(r)
    BY DEF UnlistedIsHeld, Holds
  <2>1. HeldInv(r) /\ r \in Refs
    BY DEF HInv, IInv, Inv, TypeOK
  <2>2. ~(lastPushed[r] < secret[r].version)
    BY DEF StaleBindings
  <2>3. lastPushed[r] \in Nat /\ secret[r].version \in Nat
    BY <2>1 DEF HInv, IInv, Inv, TypeOK
  <2> QED
    BY <2>1, <2>2, <2>3 DEF HeldInv
<1> QED
  BY <1>1, InitHInv, StepHInv, PTL DEF Spec

-----------------------------------------------------------------------------
(* The agent's own store (SecretManager).                                  *)

LEMMA InitManagerInv == ManagerInit => ManagerInv
  BY DEF ManagerInit, ManagerInv, ManagerTypeOK, NoOrphanValue, ApplyState, EvictState

\* Every step keeps the types.
LEMMA StepManagerTypeOK == ManagerTypeOK /\ [ManagerNext]_managerVars => ManagerTypeOK'
<1> SUFFICES ASSUME ManagerTypeOK, [ManagerNext]_managerVars PROVE ManagerTypeOK'
  OBVIOUS
<1> USE DEF ManagerTypeOK
<1>1. ASSUME NEW a \in Appliers, NEW refs \in SUBSET AgentRefs \ {{}}, ApplyStore(a, refs)
      PROVE  ManagerTypeOK'
  BY <1>1 DEF ApplyStore, ApplyState
<1>2. ASSUME NEW a \in Appliers, ApplyStamp(a) PROVE ManagerTypeOK'
  <2>1. clock + TTL \in Nat
    BY ManagerAssumption
  <2>2. [apply[a] EXCEPT !.pc = "record", !.expiresAt = clock + TTL] \in ApplyState
    BY <2>1 DEF ApplyState
  <2> QED
    BY <1>2, <2>2 DEF ApplyStamp
<1>3. ASSUME NEW a \in Appliers, ApplyRecord(a) PROVE ManagerTypeOK'
  <2>1. apply[a].expiresAt \in Nat
    BY DEF ApplyState
  <2>2. [pc |-> "idle", refs |-> {}, expiresAt |-> 0] \in ApplyState
    BY DEF ApplyState
  <2> QED
    BY <1>3, <2>1, <2>2 DEF ApplyRecord
<1>4. CASE EvictCollect
  BY <1>4 DEF EvictCollect, EvictState
<1>5. CASE EvictEntries
  BY <1>5 DEF EvictEntries, EvictState
<1>6. CASE EvictClear
  BY <1>6 DEF EvictClear, EvictState
<1>7. CASE ClockTick
  BY <1>7 DEF ClockTick
<1>8. CASE UNCHANGED managerVars
  BY <1>8 DEF managerVars
<1> QED
  BY <1>1, <1>2, <1>3, <1>4, <1>5, <1>6, <1>7, <1>8 DEF ManagerNext, ApplyFinishes, Evict

\* A value in the store stays accounted for: by its entry, by the Apply that will record
\* it, or by the Evict that will clear it.
LEMMA StepNoOrphanValue == ManagerTypeOK /\ NoOrphanValue /\ [ManagerNext]_managerVars => NoOrphanValue'
<1> SUFFICES ASSUME ManagerTypeOK, NoOrphanValue, [ManagerNext]_managerVars, NEW r \in store'
             PROVE  NoOrphanValue!(r)'
  BY DEF NoOrphanValue
<1>1. ASSUME NEW a \in Appliers, NEW refs \in SUBSET AgentRefs \ {{}}, ApplyStore(a, refs)
      PROVE  NoOrphanValue!(r)'
  <2>1. apply'[a].pc = "stamp" /\ r \in apply'[a].refs
    BY <1>1 DEF ApplyStore, ManagerTypeOK
  <2> QED
    BY <2>1
<1>2. ASSUME NEW a \in Appliers, ApplyStamp(a) PROVE NoOrphanValue!(r)'
  <2>1. \A b \in Appliers : apply[b].pc # "idle" => /\ apply'[b].pc # "idle"
                                                    /\ apply'[b].refs = apply[b].refs
    BY <1>2 DEF ApplyStamp, ManagerTypeOK, ApplyState
  <2> QED
    BY <1>2, <2>1 DEF ApplyStamp, NoOrphanValue
<1>3. ASSUME NEW a \in Appliers, ApplyRecord(a) PROVE NoOrphanValue!(r)'
  <2>1. r \in AgentRefs /\ r \in store /\ UNCHANGED evict
    BY <1>3 DEF ApplyRecord, ManagerTypeOK
  <2>2. CASE r \in apply[a].refs
    <3>1. apply[a].expiresAt # NoEntry
      BY ManagerAssumption DEF ManagerTypeOK, ApplyState
    <3> QED
      BY <1>3, <2>1, <2>2, <3>1 DEF ApplyRecord
  <2>3. CASE r \notin apply[a].refs
    <3>1. entries'[r] = entries[r]
      BY <1>3, <2>1, <2>3 DEF ApplyRecord
    <3>2. \A b \in Appliers : r \in apply[b].refs => apply'[b] = apply[b]
      BY <1>3, <2>3 DEF ApplyRecord, ManagerTypeOK
    <3> QED
      BY <2>1, <3>1, <3>2 DEF NoOrphanValue
  <2> QED
    BY <2>2, <2>3
<1>4. CASE EvictCollect
  BY <1>4 DEF EvictCollect, NoOrphanValue
<1>5. CASE EvictEntries
  <2>1. r \in AgentRefs /\ r \in store /\ UNCHANGED apply /\ evict.pc = "collected"
    BY <1>5 DEF EvictEntries, ManagerTypeOK
  <2>2. CASE r \in evict.refs /\ Elapsed(r)
    BY <1>5, <2>2 DEF EvictEntries
  <2>3. CASE ~(r \in evict.refs /\ Elapsed(r))
    <3>1. entries'[r] = entries[r]
      BY <1>5, <2>1, <2>3 DEF EvictEntries
    <3> QED
      BY <2>1, <3>1 DEF NoOrphanValue
  <2> QED
    BY <2>2, <2>3
<1>6. CASE EvictClear
  BY <1>6 DEF EvictClear, NoOrphanValue
<1>7. CASE ClockTick \/ UNCHANGED managerVars
  BY <1>7 DEF ClockTick, managerVars, NoOrphanValue
<1> QED
  BY <1>1, <1>2, <1>3, <1>4, <1>5, <1>6, <1>7 DEF ManagerNext, ApplyFinishes, Evict

\* The values and their entries agree between any two critical sections of Apply and Evict
\* (Manager.Apply, Manager.Evict): nothing is stored that no entry will ever expire.
THEOREM ManagerInvHolds == ManagerSpec => []ManagerInv
<1>1. ManagerInv /\ [ManagerNext]_managerVars => ManagerInv'
  BY StepManagerTypeOK, StepNoOrphanValue DEF ManagerInv
<1> QED
  BY InitManagerInv, <1>1, PTL DEF ManagerSpec

\* Evict works from an outdated list of candidates and still never drops an entry that is
\* fresh (the second check of Manager.Evict, under the write lock).
THEOREM EvictSpares == ManagerSpec => EvictSparesFresh
<1>1. ASSUME ManagerTypeOK, ManagerNext, NEW r \in AgentRefs, Fresh(r) PROVE entries'[r] # NoEntry
  <2>1. ASSUME NEW a \in Appliers, ApplyRecord(a) PROVE entries'[r] # NoEntry
    <3>1. apply[a].expiresAt # NoEntry
      BY <1>1, ManagerAssumption DEF ManagerTypeOK, ApplyState
    <3> QED
      BY <1>1, <2>1, <3>1 DEF ApplyRecord, Fresh
  <2>2. CASE EvictEntries
    BY <1>1, <2>2 DEF EvictEntries, Fresh
  <2>3. CASE UNCHANGED entries
    BY <1>1, <2>3 DEF Fresh
  <2>4. ASSUME NEW a \in Appliers, NEW refs \in SUBSET AgentRefs \ {{}}, ApplyStore(a, refs)
        PROVE  UNCHANGED entries
    BY <2>4 DEF ApplyStore
  <2>5. ASSUME NEW a \in Appliers, ApplyStamp(a) PROVE UNCHANGED entries
    BY <2>5 DEF ApplyStamp
  <2>6. EvictCollect \/ EvictClear \/ ClockTick => UNCHANGED entries
    BY DEF EvictCollect, EvictClear, ClockTick
  <2> QED
    BY <1>1, <2>1, <2>2, <2>3, <2>4, <2>5, <2>6 DEF ManagerNext, ApplyFinishes, Evict
<1>2. ManagerInv /\ [ManagerNext]_managerVars => [\A r \in AgentRefs : Fresh(r) => entries'[r] # NoEntry]_managerVars
  BY <1>1 DEF ManagerInv
<1> QED
  BY <1>2, ManagerInvHolds, PTL DEF ManagerSpec, EvictSparesFresh

-----------------------------------------------------------------------------
(* The tokens (Kuze).                                                      *)

\* A request that is being served holds a token that was issued.
LocalsInv ==
    \A r \in Requests :
        request[r].pc # "idle" => /\ request[r].token \in Tokens
                                  /\ tokens[request[r].token].status # "unissued"

\* What has happened with a token, its row knows of.
RowsInv ==
    \A t \in Tokens :
        /\ tokens[t].status = "unissued" => ~tokens[t].used /\ stores[t] = 0
        /\ tokens[t].status # "unissued" => tokens[t].ref \in SecretNames
        /\ t \in notified => tokens[t].status # "unissued" /\ ExpiredRow(t)

\* A request that has redeemed its token is the only one, it acts for the token's owner,
\* the token is burned and nothing was handed out for it.
RedeemInv ==
    /\ \A r \in Requests :
           request[r].pc = "get" =>
               /\ request[r].agent \in Agents
               /\ tokens[request[r].token].agent = request[r].agent
               /\ tokens[request[r].token].used
               /\ \A a \in Agents : delivered[request[r].token][a] = 0
    /\ \A q, r \in Requests :
           request[q].pc = "get" /\ request[r].pc = "get"
               /\ request[q].token = request[r].token => q = r

\* The inductive invariant.
KuzeIInv ==
    /\ KuzeTypeOK
    /\ LocalsInv
    /\ RowsInv
    /\ RedeemInv
    /\ RedeemedOnceByOwner
    /\ OpenAfterStoreOnlyByFault

-----------------------------------------------------------------------------
(* Types, the clock and the burn.                                          *)

LEMMA IdleLocal == Idle \in Local /\ Idle.pc = "idle"
  BY DEF Idle, Local

LEMMA NoRowRow == NoRow \in Row
  BY DEF NoRow, Row

\* Truncating to seconds yields a number and keeps the order of two times.
LEMMA SecondMonotone ==
    ASSUME NEW m \in Nat, NEW n \in Nat, m <= n
    PROVE  Second(m) \in Nat /\ Second(n) \in Nat /\ Second(m) <= Second(n)
  BY KuzeAssumption DEF Second

\* What SQL's truncated comparison takes for expired, Go's comparison takes for expired.
LEMMA ExpiredRowExpired ==
    ASSUME KuzeTypeOK, NEW t \in Tokens, ExpiredRow(t)
    PROVE  Expired(t)
<1>1. tokens[t].expiresAt \in Nat /\ now \in Nat /\ TicksPerSecond \in Nat \ {0}
  BY KuzeAssumption DEF KuzeTypeOK, Row
<1>2. ASSUME NEW e \in Nat, NEW n \in Nat, NEW k \in Nat \ {0}, e < n \div k
      PROVE  n > e * k
  BY <1>2
<1> QED
  BY <1>1, <1>2 DEF ExpiredRow, Expired, Second

\* The burn sets one column of one row of the table.
LEMMA BurnedRows ==
    ASSUME KuzeTypeOK, NEW t \in Tokens
    PROVE  /\ Burned(t) \in [Tokens -> Row]
           /\ \A u \in Tokens :
                  /\ Burned(t)[u].status = tokens[u].status
                  /\ Burned(t)[u].ref = tokens[u].ref
                  /\ Burned(t)[u].agent = tokens[u].agent
                  /\ Burned(t)[u].expiresAt = tokens[u].expiresAt
                  /\ tokens[u].used => Burned(t)[u].used
                  /\ tokens[u].status = "unissued" => Burned(t)[u] = tokens[u]
           /\ Present(t) => Burned(t)[t].used
<1> DEFINE row == [tokens[t] EXCEPT !.used = TRUE]
<1>1. /\ row \in Row
      /\ row.status = tokens[t].status
      /\ row.ref = tokens[t].ref
      /\ row.agent = tokens[t].agent
      /\ row.expiresAt = tokens[t].expiresAt
      /\ row.used
  BY DEF KuzeTypeOK, Row
<1>2. CASE Present(t)
  <2>1. Burned(t) = [tokens EXCEPT ![t] = row]
    BY <1>2 DEF Burned, KuzeTypeOK
  <2> HIDE DEF row
  <2> QED
    BY <1>1, <1>2, <2>1 DEF KuzeTypeOK, Present
<1>3. CASE ~Present(t)
  BY <1>3 DEF Burned, KuzeTypeOK
<1> QED
  BY <1>2, <1>3

\* The prune deletes rows that are expired or used, and changes nothing else of them.
LEMMA PrunedRows ==
    ASSUME KuzeTypeOK, PruneExpired
    PROVE  /\ tokens' \in [Tokens -> Row]
           /\ \A t \in Tokens :
                  \/ tokens'[t] = tokens[t]
                  \/ /\ Present(t)
                     /\ ExpiredRow(t) \/ tokens[t].used
                     /\ tokens'[t].status = "deleted"
                     /\ tokens'[t].used = tokens[t].used
                     /\ tokens'[t].ref = tokens[t].ref
                     /\ tokens'[t].agent = tokens[t].agent
                     /\ tokens'[t].expiresAt = tokens[t].expiresAt
<1> DEFINE pruned(t) == [tokens[t] EXCEPT !.status = "deleted"]
<1>1. ASSUME NEW t \in Tokens
      PROVE  /\ pruned(t) \in Row
             /\ pruned(t).status = "deleted"
             /\ pruned(t).used = tokens[t].used
             /\ pruned(t).ref = tokens[t].ref
             /\ pruned(t).agent = tokens[t].agent
             /\ pruned(t).expiresAt = tokens[t].expiresAt
  BY DEF KuzeTypeOK, Row
<1>2. tokens' = [t \in Tokens |->
          IF Present(t) /\ (ExpiredRow(t) \/ tokens[t].used) THEN pruned(t) ELSE tokens[t]]
  BY DEF PruneExpired
<1> HIDE DEF pruned
<1> QED
  BY <1>1, <1>2 DEF KuzeTypeOK

-----------------------------------------------------------------------------
(* Every step keeps the inductive invariant.                               *)

LEMMA KuzeInitInv == KuzeInit => KuzeIInv
<1> SUFFICES ASSUME KuzeInit PROVE KuzeIInv
  OBVIOUS
<1>1. KuzeTypeOK
  BY IdleLocal, NoRowRow DEF KuzeInit, KuzeTypeOK
<1>2. \A r \in Requests : request[r].pc = "idle"
  BY IdleLocal DEF KuzeInit
<1>3. \A t \in Tokens : /\ ~tokens[t].used
                        /\ tokens[t].status = "unissued"
                        /\ stores[t] = 0
                        /\ t \notin notified
                        /\ \A a \in Agents : delivered[t][a] = 0
  BY DEF KuzeInit, NoRow
<1>4. LocalsInv /\ RedeemInv
  BY <1>2 DEF LocalsInv, RedeemInv
<1>5. RowsInv /\ RedeemedOnceByOwner /\ OpenAfterStoreOnlyByFault
  BY <1>3 DEF RowsInv, RedeemedOnceByOwner, OpenAfterStoreOnlyByFault
<1> QED
  BY <1>1, <1>4, <1>5 DEF KuzeIInv

LEMMA IssueInv ==
    ASSUME KuzeIInv, NEW t \in Tokens, NEW ref \in SecretNames, NEW owner \in Agents \cup {None},
           Issue(t, ref, owner)
    PROVE  KuzeIInv'
<1> DEFINE row == [status |-> "present", used |-> FALSE, ref |-> ref, agent |-> owner,
                   expiresAt |-> Second(now) + IF owner = None THEN HumanTTL ELSE AgentTTL]
<1> USE DEF KuzeIInv
<1>1. /\ tokens[t].status = "unissued"
      /\ tokens' = [tokens EXCEPT ![t] = row]
      /\ UNCHANGED <<secrets, request, pruner, now, stores, delivered, notified, faults>>
  BY DEF Issue, history
<1>2. row \in Row /\ row.status = "present" /\ ~row.used /\ row.ref \in SecretNames
  <2>1. Second(now) \in Nat
    BY SecondMonotone DEF KuzeTypeOK
  <2> QED
    BY <2>1, KuzeAssumption DEF Row
<1> HIDE DEF row
<1>3. t \notin notified /\ stores[t] = 0 /\ ~tokens[t].used
  BY <1>1 DEF RowsInv
<1>4. KuzeTypeOK'
  BY <1>1, <1>2 DEF KuzeTypeOK
<1>5. LocalsInv'
  BY <1>1, <1>2 DEF LocalsInv, KuzeTypeOK
<1>6. RowsInv'
  BY <1>1, <1>2, <1>3 DEF RowsInv, KuzeTypeOK, ExpiredRow
<1>7. RedeemInv'
  BY <1>1, <1>3 DEF RedeemInv, KuzeTypeOK, LocalsInv
<1>8. RedeemedOnceByOwner'
  BY <1>1, <1>3 DEF RedeemedOnceByOwner, KuzeTypeOK
<1>9. OpenAfterStoreOnlyByFault'
  BY <1>1, <1>3 DEF OpenAfterStoreOnlyByFault, KuzeTypeOK, Present
<1> QED
  BY <1>4, <1>5, <1>6, <1>7, <1>8, <1>9

LEMMA SubmitInv ==
    ASSUME KuzeIInv, NEW r \in Requests, NEW t \in Tokens, Submit(r, t)
    PROVE  KuzeIInv'
<1> DEFINE l == [pc |-> "store", token |-> t, agent |-> None]
<1> USE DEF KuzeIInv
<1>1. /\ request[r].pc = "idle"
      /\ Present(t)
      /\ request' = [request EXCEPT ![r] = l]
      /\ UNCHANGED <<tokens, secrets, pruner, now, stores, delivered, notified, faults>>
  BY DEF Submit, Validate, history
<1>2. l \in Local /\ l.pc = "store" /\ l.token = t
  BY DEF Local
<1> HIDE DEF l
<1>3. KuzeTypeOK'
  BY <1>1, <1>2 DEF KuzeTypeOK
<1>4. LocalsInv' /\ RedeemInv'
  BY <1>1, <1>2 DEF LocalsInv, RedeemInv, KuzeTypeOK, Present
<1>5. RowsInv' /\ RedeemedOnceByOwner'
  BY <1>1 DEF RowsInv, RedeemedOnceByOwner, ExpiredRow
<1>6. OpenAfterStoreOnlyByFault'
  BY <1>1, <1>2 DEF OpenAfterStoreOnlyByFault, KuzeTypeOK, Present
<1> QED
  BY <1>3, <1>4, <1>5, <1>6

LEMMA StoreSecretInv ==
    ASSUME KuzeIInv, NEW r \in Requests, StoreSecret(r)
    PROVE  KuzeIInv'
<1> DEFINE t == request[r].token
           next == request'[r]
<1> USE DEF KuzeIInv
<1>1. /\ request[r].pc = "store"
      /\ t \in Tokens
      /\ tokens[t].status # "unissued"
      /\ UNCHANGED <<tokens, pruner, now, delivered, notified, faults>>
  BY DEF StoreSecret, LocalsInv
<1>2. CASE /\ secrets' = secrets \cup {tokens[t].ref}
           /\ stores' = [stores EXCEPT ![t] = @ + 1]
           /\ request' = [request EXCEPT ![r].pc = "burn"]
  <2>1. /\ request' = [request EXCEPT ![r] = next]
        /\ next \in Local
        /\ next.pc = "burn"
        /\ next.token = t
    BY <1>2 DEF KuzeTypeOK, Local
  <2> HIDE DEF next
  <2>2. secrets' \in SUBSET SecretNames /\ stores' \in [Tokens -> Nat]
    BY <1>1, <1>2 DEF KuzeTypeOK, RowsInv
  <2>3. KuzeTypeOK'
    BY <1>1, <2>1, <2>2 DEF KuzeTypeOK
  <2>4. LocalsInv' /\ RedeemInv'
    BY <1>1, <2>1 DEF LocalsInv, RedeemInv, KuzeTypeOK
  <2>5. RowsInv' /\ RedeemedOnceByOwner'
    BY <1>1, <1>2 DEF RowsInv, RedeemedOnceByOwner, ExpiredRow, KuzeTypeOK
  <2>6. OpenAfterStoreOnlyByFault'
    BY <1>1, <1>2, <2>1 DEF OpenAfterStoreOnlyByFault, KuzeTypeOK, Present
  <2> QED
    BY <2>3, <2>4, <2>5, <2>6
<1>3. CASE request' = [request EXCEPT ![r] = Idle] /\ UNCHANGED <<secrets, stores>>
  <2>1. KuzeTypeOK'
    BY <1>1, <1>3, IdleLocal DEF KuzeTypeOK
  <2>2. LocalsInv' /\ RedeemInv'
    BY <1>1, <1>3, IdleLocal DEF LocalsInv, RedeemInv, KuzeTypeOK
  <2>3. RowsInv' /\ RedeemedOnceByOwner'
    BY <1>1, <1>3 DEF RowsInv, RedeemedOnceByOwner, ExpiredRow
  <2>4. OpenAfterStoreOnlyByFault'
    BY <1>1, <1>3, IdleLocal DEF OpenAfterStoreOnlyByFault, KuzeTypeOK, Present
  <2> QED
    BY <2>1, <2>2, <2>3, <2>4
<1> QED
  BY <1>2, <1>3 DEF StoreSecret

LEMMA BurnInv ==
    ASSUME KuzeIInv, NEW r \in Requests, Burn(r)
    PROVE  KuzeIInv'
<1> DEFINE t == request[r].token
<1> USE DEF KuzeIInv
<1>1. /\ request[r].pc = "burn"
      /\ t \in Tokens
      /\ tokens[t].status # "unissued"
      /\ request' = [request EXCEPT ![r] = Idle]
      /\ UNCHANGED <<secrets, pruner, now, stores, delivered, notified>>
  BY DEF Burn, LocalsInv
<1>2. CASE tokens' = Burned(t) /\ UNCHANGED faults
  <2>1. /\ tokens' \in [Tokens -> Row]
        /\ \A u \in Tokens :
               /\ tokens'[u].status = tokens[u].status
               /\ tokens'[u].ref = tokens[u].ref
               /\ tokens'[u].agent = tokens[u].agent
               /\ tokens'[u].expiresAt = tokens[u].expiresAt
               /\ tokens[u].used => tokens'[u].used
               /\ tokens[u].status = "unissued" => tokens'[u] = tokens[u]
        /\ Present(t) => tokens'[t].used
    BY <1>1, <1>2, BurnedRows
  <2>2. KuzeTypeOK'
    BY <1>1, <1>2, <2>1, IdleLocal DEF KuzeTypeOK
  <2>3. LocalsInv' /\ RedeemInv'
    BY <1>1, <2>1, IdleLocal DEF LocalsInv, RedeemInv, KuzeTypeOK
  <2>4. RowsInv' /\ RedeemedOnceByOwner'
    BY <1>1, <2>1 DEF RowsInv, RedeemedOnceByOwner, ExpiredRow
  <2>5. OpenAfterStoreOnlyByFault'
    BY <1>1, <1>2, <2>1, IdleLocal DEF OpenAfterStoreOnlyByFault, KuzeTypeOK, Present
  <2> QED
    BY <2>2, <2>3, <2>4, <2>5
<1>3. CASE faults' = faults + 1 /\ UNCHANGED tokens
  <2>1. KuzeTypeOK' /\ faults' > 0
    BY <1>1, <1>3, IdleLocal DEF KuzeTypeOK
  <2>2. LocalsInv' /\ RedeemInv'
    BY <1>1, <1>3, IdleLocal DEF LocalsInv, RedeemInv, KuzeTypeOK
  <2>3. RowsInv' /\ RedeemedOnceByOwner'
    BY <1>1, <1>3 DEF RowsInv, RedeemedOnceByOwner, ExpiredRow
  <2>4. OpenAfterStoreOnlyByFault'
    BY <2>1 DEF OpenAfterStoreOnlyByFault
  <2> QED
    BY <2>1, <2>2, <2>3, <2>4
<1> QED
  BY <1>2, <1>3 DEF Burn

LEMMA RedeemStepInv ==
    ASSUME KuzeIInv, NEW r \in Requests, NEW t \in Tokens, NEW a \in Agents, Redeem(r, t, a)
    PROVE  KuzeIInv'
<1> DEFINE l == [pc |-> "get", token |-> t, agent |-> a]
<1> USE DEF KuzeIInv
<1>1. /\ request[r].pc = "idle"
      /\ Present(t)
      /\ ~tokens[t].used
      /\ tokens[t].agent = a
      /\ request' = [request EXCEPT ![r] = l]
      /\ UNCHANGED <<secrets, pruner, now, stores, delivered, notified, faults>>
  BY DEF Redeem, Validate, history
<1>2. l \in Local /\ l.pc = "get" /\ l.token = t /\ l.agent = a
  BY DEF Local
<1> HIDE DEF l
<1>3. /\ tokens' \in [Tokens -> Row]
      /\ \A u \in Tokens :
             /\ tokens'[u].status = tokens[u].status
             /\ tokens'[u].ref = tokens[u].ref
             /\ tokens'[u].agent = tokens[u].agent
             /\ tokens'[u].expiresAt = tokens[u].expiresAt
             /\ tokens[u].used => tokens'[u].used
             /\ tokens[u].status = "unissued" => tokens'[u] = tokens[u]
      /\ tokens'[t].used
  BY <1>1, BurnedRows DEF Redeem
<1>4. \A b \in Agents : delivered[t][b] = 0
  BY <1>1 DEF RedeemedOnceByOwner, KuzeTypeOK
<1>5. \A q \in Requests : request[q].pc = "get" => request[q].token # t
  BY <1>1 DEF RedeemInv
<1>6. KuzeTypeOK'
  BY <1>1, <1>2, <1>3 DEF KuzeTypeOK
<1>7. LocalsInv'
  BY <1>1, <1>2, <1>3 DEF LocalsInv, KuzeTypeOK, Present
<1>8. RowsInv' /\ RedeemedOnceByOwner'
  BY <1>1, <1>3 DEF RowsInv, RedeemedOnceByOwner, ExpiredRow
<1>9. RedeemInv'
  <2>1. ASSUME NEW q \in Requests, request'[q].pc = "get"
        PROVE  /\ request'[q].agent \in Agents
               /\ tokens'[request'[q].token].agent = request'[q].agent
               /\ tokens'[request'[q].token].used
               /\ \A b \in Agents : delivered'[request'[q].token][b] = 0
    BY <1>1, <1>2, <1>3, <1>4, <2>1 DEF RedeemInv, LocalsInv, KuzeTypeOK
  <2>2. ASSUME NEW p \in Requests, NEW q \in Requests, request'[p].pc = "get",
               request'[q].pc = "get", request'[p].token = request'[q].token
        PROVE  p = q
    BY <1>1, <1>2, <1>5, <2>2 DEF RedeemInv, KuzeTypeOK
  <2> QED
    BY <2>1, <2>2 DEF RedeemInv
<1>10. OpenAfterStoreOnlyByFault'
  BY <1>1, <1>2, <1>3 DEF OpenAfterStoreOnlyByFault, KuzeTypeOK, Present
<1> QED
  BY <1>6, <1>7, <1>8, <1>9, <1>10

LEMMA GetSecretInv ==
    ASSUME KuzeIInv, NEW r \in Requests, GetSecret(r)
    PROVE  KuzeIInv'
<1> DEFINE t == request[r].token
           a == request[r].agent
<1> USE DEF KuzeIInv
<1>1. /\ request[r].pc = "get"
      /\ t \in Tokens
      /\ a \in Agents
      /\ tokens[t].agent = a
      /\ tokens[t].used
      /\ \A b \in Agents : delivered[t][b] = 0
      /\ request' = [request EXCEPT ![r] = Idle]
      /\ UNCHANGED <<tokens, secrets, pruner, now, stores, notified, faults>>
  BY DEF GetSecret, LocalsInv, RedeemInv
<1>2. /\ delivered' \in [Tokens -> [Agents -> Nat]]
      /\ \A u \in Tokens, b \in Agents :
             \/ delivered'[u][b] = delivered[u][b]
             \/ u = t /\ b = a /\ delivered'[u][b] = 1
  <2>1. CASE tokens[t].ref \in secrets
    <3>1. delivered' = [delivered EXCEPT ![t][a] = @ + 1]
      BY <2>1 DEF GetSecret
    <3> QED
      BY <1>1, <3>1 DEF KuzeTypeOK
  <2>2. CASE tokens[t].ref \notin secrets
    BY <2>2 DEF GetSecret, KuzeTypeOK
  <2> QED
    BY <2>1, <2>2
<1>3. \A q \in Requests : q # r /\ request[q].pc = "get" => request[q].token # t
  BY <1>1 DEF RedeemInv
<1>4. KuzeTypeOK'
  BY <1>1, <1>2, IdleLocal DEF KuzeTypeOK
<1>5. LocalsInv'
  BY <1>1, IdleLocal DEF LocalsInv, KuzeTypeOK
<1>6. RowsInv'
  BY <1>1 DEF RowsInv, ExpiredRow
<1>7. RedeemInv'
  BY <1>1, <1>2, <1>3, IdleLocal DEF RedeemInv, LocalsInv, KuzeTypeOK
<1>8. RedeemedOnceByOwner'
  BY <1>1, <1>2 DEF RedeemedOnceByOwner
<1>9. OpenAfterStoreOnlyByFault'
  BY <1>1, IdleLocal DEF OpenAfterStoreOnlyByFault, KuzeTypeOK, Present
<1> QED
  BY <1>4, <1>5, <1>6, <1>7, <1>8, <1>9

LEMMA ListExpiredInv ==
    ASSUME KuzeIInv, ListExpiredUnused
    PROVE  KuzeIInv'
<1> USE DEF KuzeIInv
<1>1. UNCHANGED <<tokens, secrets, request, now, stores, delivered, faults>>
  BY DEF ListExpiredUnused
<1>2. KuzeTypeOK'
  BY DEF ListExpiredUnused, KuzeTypeOK
<1>3. LocalsInv' /\ RedeemInv' /\ RedeemedOnceByOwner' /\ OpenAfterStoreOnlyByFault'
  BY <1>1 DEF LocalsInv, RedeemInv, RedeemedOnceByOwner, OpenAfterStoreOnlyByFault, Present
<1>4. \A t \in notified' : t \in notified \/ (Present(t) /\ ExpiredRow(t))
  BY DEF ListExpiredUnused
<1>5. RowsInv'
  BY <1>1, <1>4 DEF RowsInv, Present, ExpiredRow
<1> QED
  BY <1>2, <1>3, <1>5

LEMMA PruneInv ==
    ASSUME KuzeIInv, PruneExpired
    PROVE  KuzeIInv'
<1> USE DEF KuzeIInv
<1>1. UNCHANGED <<secrets, request, now, stores, delivered, notified, faults>> /\ pruner' = "idle"
  BY DEF PruneExpired, history
<1>2. KuzeTypeOK'
  BY <1>1, PrunedRows DEF KuzeTypeOK
<1>3. \A t \in Tokens : /\ \/ tokens'[t].status = tokens[t].status
                           \/ Present(t) /\ tokens'[t].status = "deleted"
                        /\ tokens'[t].used = tokens[t].used
                        /\ tokens'[t].ref = tokens[t].ref
                        /\ tokens'[t].agent = tokens[t].agent
                        /\ tokens'[t].expiresAt = tokens[t].expiresAt
  BY PrunedRows
<1>4. LocalsInv' /\ RedeemInv'
  BY <1>1, <1>3 DEF LocalsInv, RedeemInv
<1>5. RowsInv' /\ RedeemedOnceByOwner'
  BY <1>1, <1>3 DEF RowsInv, RedeemedOnceByOwner, ExpiredRow, Present
<1>6. OpenAfterStoreOnlyByFault'
  BY <1>1, <1>3 DEF OpenAfterStoreOnlyByFault, Present
<1> QED
  BY <1>2, <1>4, <1>5, <1>6

LEMMA CrashInv ==
    ASSUME KuzeIInv, Crash
    PROVE  KuzeIInv'
<1> USE DEF KuzeIInv
<1>1. /\ \A r \in Requests : request'[r].pc = "idle"
      /\ UNCHANGED <<tokens, secrets, now, stores, delivered, notified>>
      /\ faults' > 0
  BY IdleLocal DEF Crash, KuzeTypeOK
<1>2. KuzeTypeOK'
  BY IdleLocal DEF Crash, KuzeTypeOK
<1>3. LocalsInv' /\ RedeemInv'
  BY <1>1 DEF LocalsInv, RedeemInv
<1>4. RowsInv' /\ RedeemedOnceByOwner' /\ OpenAfterStoreOnlyByFault'
  BY <1>1 DEF RowsInv, RedeemedOnceByOwner, OpenAfterStoreOnlyByFault, ExpiredRow
<1> QED
  BY <1>2, <1>3, <1>4

\* The clock only moves forward, so a row that was expired stays expired.
LEMMA OtherInv ==
    ASSUME KuzeIInv, Tick \/ (\E ref \in SecretNames : SecretsCommand(ref)) \/ UNCHANGED kuzeVars
    PROVE  KuzeIInv'
<1> USE DEF KuzeIInv
<1>1. /\ UNCHANGED <<tokens, request, pruner, stores, delivered, notified, faults>>
      /\ secrets' \in SUBSET SecretNames
      /\ now' \in Nat /\ now <= now'
  BY DEF Tick, SecretsCommand, kuzeVars, history, KuzeTypeOK
<1>2. KuzeTypeOK'
  BY <1>1 DEF KuzeTypeOK
<1>3. LocalsInv' /\ RedeemInv' /\ RedeemedOnceByOwner' /\ OpenAfterStoreOnlyByFault'
  BY <1>1 DEF LocalsInv, RedeemInv, RedeemedOnceByOwner, OpenAfterStoreOnlyByFault, Present
<1>4. \A t \in Tokens : ExpiredRow(t) => ExpiredRow(t)'
  <2>1. Second(now) \in Nat /\ Second(now') \in Nat /\ Second(now) <= Second(now')
    BY <1>1, SecondMonotone DEF KuzeTypeOK
  <2>2. \A t \in Tokens : tokens[t].expiresAt \in Nat /\ tokens'[t] = tokens[t]
    BY <1>1 DEF KuzeTypeOK, Row
  <2>3. Second(now)' = Second(now')
    BY DEF Second
  <2> QED
    BY <2>1, <2>2, <2>3 DEF ExpiredRow
<1>5. RowsInv'
  BY <1>1, <1>4 DEF RowsInv
<1> QED
  BY <1>2, <1>3, <1>5

LEMMA KuzeStepInv == KuzeIInv /\ [KuzeNext]_kuzeVars => KuzeIInv'
  BY IssueInv, SubmitInv, StoreSecretInv, BurnInv, RedeemStepInv, GetSecretInv,
     ListExpiredInv, PruneInv, CrashInv, OtherInv
     DEF KuzeNext, ServeRequest, PruneExpiredWithNotify

-----------------------------------------------------------------------------
(* The theorems.                                                           *)

\* The strengthened invariant holds in every reachable state.
THEOREM KuzeIsInductive == KuzeSpec => []KuzeIInv
  BY KuzeInitInv, KuzeStepInv, PTL DEF KuzeSpec

\* Type correctness of the token table and of the requests working on it.
THEOREM KuzeTypeCorrect == KuzeSpec => []KuzeTypeOK
<1>1. KuzeIInv => KuzeTypeOK
  BY DEF KuzeIInv
<1> QED
  BY <1>1, KuzeIsInductive, PTL

\* A token is redeemed once and by its owner, however many requests carry it
\* (TokenStore.Redeem).
THEOREM RedeemedOnce == KuzeSpec => []RedeemedOnceByOwner
<1>1. KuzeIInv => RedeemedOnceByOwner
  BY DEF KuzeIInv
<1> QED
  BY <1>1, KuzeIsInductive, PTL

\* Only a fault between Set and Burn leaves a link open that has stored a value
\* (acceptSecret).
THEOREM OpenAfterStore == KuzeSpec => []OpenAfterStoreOnlyByFault
<1>1. KuzeIInv => OpenAfterStoreOnlyByFault
  BY DEF KuzeIInv
<1> QED
  BY <1>1, KuzeIsInductive, PTL

\* The prune loop spares every token Validate would accept, at any clock resolution
\* (PruneExpired).
THEOREM PruneSpares == KuzeSpec => PruneSparesTheLiving
<1>1. ASSUME KuzeIInv, KuzeNext, NEW t \in Tokens, Validate(t)
      PROVE  tokens'[t].status = "present"
  <2> USE DEF KuzeIInv
  <2>1. KuzeTypeOK /\ tokens[t].status = "present" /\ ~tokens[t].used /\ ~ExpiredRow(t)
    BY <1>1, ExpiredRowExpired DEF Validate, Present
  <2>2. ASSUME NEW u \in Tokens, NEW ref \in SecretNames, NEW owner \in Agents \cup {None},
               Issue(u, ref, owner)
        PROVE  tokens'[t].status = "present"
    BY <2>1, <2>2 DEF Issue, KuzeTypeOK
  <2>3. ASSUME NEW r \in Requests, Burn(r)
        PROVE  tokens'[t].status = "present"
    BY <2>1, <2>3, <1>1, BurnedRows DEF Burn, LocalsInv
  <2>4. ASSUME NEW r \in Requests, NEW u \in Tokens, NEW a \in Agents, Redeem(r, u, a)
        PROVE  tokens'[t].status = "present"
    BY <2>1, <2>4, BurnedRows DEF Redeem
  <2>5. CASE PruneExpired
    BY <2>1, <2>5, PrunedRows
  <2>6. CASE UNCHANGED tokens
    BY <2>1, <2>6
  <2>7. ASSUME NEW r \in Requests, StoreSecret(r) \/ GetSecret(r) PROVE UNCHANGED tokens
    BY <2>7 DEF StoreSecret, GetSecret
  <2>8. ASSUME NEW r \in Requests, NEW u \in Tokens, Submit(r, u) PROVE UNCHANGED tokens
    BY <2>8 DEF Submit
  <2>9. ASSUME NEW ref \in SecretNames, SecretsCommand(ref) PROVE UNCHANGED tokens
    BY <2>9 DEF SecretsCommand
  <2>10. ListExpiredUnused \/ Tick \/ Crash => UNCHANGED tokens
    BY DEF ListExpiredUnused, Tick, Crash
  <2> QED
    BY <1>1, <2>2, <2>3, <2>4, <2>5, <2>6, <2>7, <2>8, <2>9, <2>10
       DEF KuzeNext, ServeRequest, PruneExpiredWithNotify
<1>2. KuzeIInv /\ [KuzeNext]_kuzeVars => [\A t \in Tokens : Validate(t) => tokens'[t].status = "present"]_kuzeVars
  BY <1>1
<1> QED
  BY <1>2, KuzeIsInductive, PTL DEF KuzeSpec, PruneSparesTheLiving

\* A burned, reported or deleted link lets nobody else in: a link that was reported as
\* expired can never be valid again (Validate against ListExpiredUnused).
THEOREM DeadLink == KuzeSpec => DeadLinkAdmitsNobody
<1>1. ASSUME KuzeIInv, KuzeNext, NEW t \in Tokens,
             tokens[t].used \/ t \in notified \/ tokens[t].status = "deleted"
      PROVE  Admitted(t)' \subseteq Admitted(t)
  <2> USE DEF KuzeIInv
  <2>1. ~Validate(t)
    <3>1. t \in notified => Expired(t)
      BY <1>1, ExpiredRowExpired DEF RowsInv
    <3> QED
      BY <1>1, <3>1 DEF Validate, Present
  <2>2. KuzeTypeOK /\ request \in [Requests -> Local]
    BY <1>1 DEF KuzeTypeOK
  <2>3. ASSUME NEW q \in Requests, request'[q].pc = "store", request'[q].token = t
        PROVE  request[q].pc = "store" /\ request[q].token = t
    <3>1. ASSUME NEW r \in Requests, NEW u \in Tokens, Submit(r, u)
          PROVE  request[q].pc = "store" /\ request[q].token = t
      BY <2>1, <2>2, <2>3, <3>1 DEF Submit
    <3>2. ASSUME NEW r \in Requests, NEW u \in Tokens, NEW a \in Agents, Redeem(r, u, a)
          PROVE  request[q].pc = "store" /\ request[q].token = t
      BY <2>2, <2>3, <3>2 DEF Redeem
    <3>3. ASSUME NEW r \in Requests, ServeRequest(r)
          PROVE  request[q].pc = "store" /\ request[q].token = t
      <4>1. \/ request' = [request EXCEPT ![r].pc = "burn"]
            \/ request' = [request EXCEPT ![r] = Idle]
        BY <3>3 DEF ServeRequest, StoreSecret, Burn, GetSecret
      <4> QED
        BY <2>2, <2>3, <4>1, IdleLocal DEF Local
    <3>4. CASE Crash
      BY <2>3, <3>4, IdleLocal DEF Crash
    <3>5. CASE UNCHANGED request
      BY <2>3, <3>5
    <3>6. ASSUME NEW u \in Tokens, NEW ref \in SecretNames, NEW owner \in Agents \cup {None},
                 Issue(u, ref, owner)
          PROVE  UNCHANGED request
      BY <3>6 DEF Issue
    <3>7. ASSUME NEW ref \in SecretNames, SecretsCommand(ref) PROVE UNCHANGED request
      BY <3>7 DEF SecretsCommand
    <3>8. PruneExpiredWithNotify \/ Tick => UNCHANGED request
      BY DEF PruneExpiredWithNotify, ListExpiredUnused, PruneExpired, Tick
    <3> QED
      BY <1>1, <3>1, <3>2, <3>3, <3>4, <3>5, <3>6, <3>7, <3>8 DEF KuzeNext
  <2> QED
    BY <2>3 DEF Admitted
<1>2. KuzeIInv /\ [KuzeNext]_kuzeVars =>
          [\A t \in Tokens :
              tokens[t].used \/ t \in notified \/ tokens[t].status = "deleted"
              => Admitted(t)' \subseteq Admitted(t)]_kuzeVars
  BY <1>1
<1> QED
  BY <1>2, KuzeIsInductive, PTL DEF KuzeSpec, DeadLinkAdmitsNobody

\* The invariants of the secret plane together, as the run checks them: well typed, a token
\* yields its secret once and to its owner (Redeem), and a link that stored a value stays
\* open only after a fault between Set and Burn.
THEOREM KuzeInvHolds == KuzeSpec => []KuzeInv
  BY KuzeTypeCorrect, RedeemedOnce, OpenAfterStore, PTL DEF KuzeInv

\* Both sides of a link's end: a dead link admits nobody (Validate), and the prune loop
\* deletes no token that Validate accepts (PruneExpired).
THEOREM LinksDie == KuzeSpec => LinksDieOnTime
  BY DeadLink, PruneSpares DEF LinksDieOnTime
============================================================================
