-------------------------- MODULE NLDialog_proofs --------------------------
(***************************************************************************)
(* Proofs about NLDialog and its ConversationMemory, for any deployments,  *)
(* keys, texts, answers, limits and numbers of messages, crashes and       *)
(* changes of secrets.                                                     *)
(***************************************************************************)
EXTENDS NLDialog, FiniteSetTheorems, WellFoundedInduction, TLAPS

-----------------------------------------------------------------------------
(* What the dialogue remembers and what it says.                           *)

\* The pending steps s of a proposal, of which t tells what its sender was shown.
PlanOK(s, t) ==
    /\ DOMAIN s = {"kind", "pending", "total", "retry", "age"}
    /\ IsSeq(s.pending) /\ s.pending # <<>> /\ IsSeq(t.plan)
    /\ s.total = Len(t.plan) /\ t.accepted \in Nat /\ Len(s.pending) = s.total - t.accepted
    /\ \A i \in 2..Len(s.pending) : s.pending[i] = t.plan[t.accepted + i]
    /\ s.retry \in Nat /\ s.retry = t.corrected
    /\ s.retry = 0 => s.pending[1] = t.plan[t.accepted + 1]
    /\ t.step = s.pending[1]

\* Agent IDs of a step are lower-case.
Normal(step) ==
    /\ \A j \in AgentIDArg(step.action) \cap DOMAIN step.args : step.args[j] \notin DOMAIN conf.upper
    /\ \A f \in AgentIDFlag(step.action) \cap DOMAIN step.flags : step.flags[f] \notin DOMAIN conf.upper

\* What may be pending: lower-case IDs, and no topology change but as a correction.
StepsOK(s) ==
    /\ \A i \in DOMAIN s.pending : Normal(s.pending[i])
    /\ \A i \in DOMAIN s.pending : s.pending[i].action \in Topology => i = 1 /\ s.retry > 0

\* The agent s asks to create, every secret of which, as far as they are known, is missing or
\* was seen.
CreationOK(s, t) ==
    /\ DOMAIN s = {"kind", "intent", "missing", "age"}
    /\ t.step = CreateCommand(s.intent)
    /\ RequiredSecrets(s.intent.template) \subseteq s.missing \cup t.seen

\* A session is as old as its last prompt, or older.
SessionOK(s, t) ==
    /\ s.kind \in {"nl", "keyword"}
    /\ s.age \in 0..(SessionTTL + 1) /\ t.age <= s.age
    /\ s.kind = "nl" => PlanOK(s, t) /\ StepsOK(s)
    /\ s.kind = "keyword" => CreationOK(s, t)

Told == {"step", "age", "plan", "accepted", "corrected", "seen"}
ToldOK(t) ==
    /\ DOMAIN t = Told
    /\ t.age \in Nat /\ t.accepted \in Nat /\ t.corrected \in 0..MaxRetries

\* The command that runs, or is to be corrected, is the first pending step of its session.
Waits == turn.pc = "correct" \/ NLStepRunning
WaitOK ==
    Waits => /\ turn.key \in DOMAIN sessions /\ sessions[turn.key].kind = "nl"
             /\ turn.step = sessions[turn.key].pending[1]
             /\ turn.pc = "correct" => sessions[turn.key].retry < MaxRetries

TalkInv ==
    /\ turn.pc \in Pcs /\ (turn.pc # "idle" => turn.key \in Keys)
    /\ DOMAIN sessions \subseteq Keys /\ told = [key \in Keys |-> told[key]]
    /\ \A key \in Keys : ToldOK(told[key])
    /\ \A key \in DOMAIN sessions : SessionOK(sessions[key], told[key])
    /\ WaitOK

-----------------------------------------------------------------------------
(* Sequences.                                                              *)

LEMMA SeqFacts ==
    ASSUME NEW s, IsSeq(s)
    PROVE  /\ Len(s) \in Nat /\ DOMAIN s = 1..Len(s) /\ s = [i \in 1..Len(s) |-> s[i]]
           /\ s # <<>> <=> Len(s) > 0
<1>1. PICK S : s \in Seq(S)
  BY DEF IsSeq
<1> QED
  BY <1>1

LEMMA TailFacts ==
    ASSUME NEW s, IsSeq(s), s # <<>>
    PROVE  /\ Head(s) = s[1] /\ IsSeq(Tail(s)) /\ Len(Tail(s)) = Len(s) - 1 /\ Len(s) > 0
           /\ \A i \in 1..Len(s) - 1 : Tail(s)[i] = s[i + 1]
<1>1. PICK S : s \in Seq(S)
  BY DEF IsSeq
<1>2. PICK r : r = Tail(s)
  OBVIOUS
<1>3. /\ Head(s) = s[1] /\ r \in Seq(S) /\ Len(r) = Len(s) - 1 /\ Len(s) > 0
      /\ \A i \in 1..Len(s) - 1 : r[i] = s[i + 1]
  BY <1>1, <1>2
<1>4. IsSeq(r)
  <2>1. Len(r) \in Nat /\ r \in [1..Len(r) -> Range(r)]
    BY <1>3 DEF Range
  <2> QED
    BY <2>1 DEF IsSeq
<1> QED
  BY <1>2, <1>3, <1>4

\* A function on 1..n is a sequence.
LEMMA MakesSeq ==
    ASSUME NEW n \in Nat, NEW s, s = [i \in 1..n |-> s[i]]
    PROVE  IsSeq(s) /\ Len(s) = n
<1>1. s \in [1..n -> Range(s)]
  BY DEF Range
<1>2. s \in Seq(Range(s))
  BY <1>1
<1> QED
  BY <1>1, <1>2 DEF IsSeq

\* A set of naturals has a least element.
LEMMA LeastExists ==
    ASSUME NEW S, S \subseteq Nat, S # {}
    PROVE  \E x \in S : \A y \in S : x <= y
<1>1. PICK x \in S : \A y \in S : ~(<<y, x>> \in OpToRel(<, Nat))
  <2> HIDE DEF OpToRel
  <2> QED
    BY WFMin, NatLessThanWellFounded, Zenon
<1>2. \A y \in S : ~(y < x)
  BY <1>1 DEF OpToRel
<1> QED
  BY <1>2

\* The smaller and the larger of two numbers.
LEMMA MinOfTwo ==
    ASSUME NEW a \in Int, NEW b \in Int
    PROVE  /\ Min({a, b}) = IF a <= b THEN a ELSE b
           /\ Max({a, b}) = IF a <= b THEN b ELSE a
<1>1. (IF a <= b THEN a ELSE b) \in {a, b} /\ \A y \in {a, b} : (IF a <= b THEN a ELSE b) <= y
  OBVIOUS
<1>2. Min({a, b}) \in {a, b} /\ \A y \in {a, b} : Min({a, b}) <= y
  BY <1>1 DEF Min
<1>3. (IF a <= b THEN b ELSE a) \in {a, b} /\ \A y \in {a, b} : (IF a <= b THEN b ELSE a) >= y
  OBVIOUS
<1>4. Max({a, b}) \in {a, b} /\ \A y \in {a, b} : Max({a, b}) >= y
  BY <1>3 DEF Max
<1> QED
  BY <1>2, <1>4

-----------------------------------------------------------------------------
(* Sessions, and what their senders were told.                             *)

\* A step that changes at most one key's session and what was told to it.
LEMMA KeyStep ==
    ASSUME TalkInv, conf' = conf, NEW key \in Keys,
           told' = [k \in Keys |-> told'[k]], \A k \in Keys \ {key} : told'[k] = told[k],
           DOMAIN sessions' \subseteq DOMAIN sessions \cup {key},
           \A k \in DOMAIN sessions' \ {key} : sessions'[k] = sessions[k],
           NEW t, t = told'[key], ToldOK(t),
           NEW s, key \in DOMAIN sessions' => s = sessions'[key] /\ SessionOK(s, t),
           turn'.pc \in Pcs, turn'.pc # "idle" => turn'.key \in Keys, WaitOK'
    PROVE  TalkInv'
<1>1. \A k \in Keys : ToldOK(told'[k])
  BY DEF TalkInv
<1>2. \A k \in DOMAIN sessions' : SessionOK(sessions'[k], told'[k])
  BY DEF TalkInv
<1>3. ASSUME NEW k \in DOMAIN sessions' PROVE SessionOK(sessions[k], told[k])'
  <2>1. PICK x, y : x = sessions'[k] /\ y = told'[k]
    OBVIOUS
  <2>2. SessionOK(x, y)
    BY <1>2, <2>1
  <2>3. SessionOK(x, y)'
    BY <2>2 DEF SessionOK, PlanOK, StepsOK, Normal, CreationOK, RequiredSecrets
  <2> QED
    BY <2>1, <2>3
<1> QED
  BY <1>1, <1>3 DEF TalkInv, ToldOK

\* A step that changes no session.
LEMMA QuietStep ==
    ASSUME TalkInv, UNCHANGED <<conf, sessions, told>>,
           turn'.pc \in Pcs, turn'.pc # "idle" => turn'.key \in Keys, WaitOK'
    PROVE  TalkInv'
<1>1. ASSUME NEW k \in DOMAIN sessions' PROVE SessionOK(sessions[k], told[k])'
  <2>1. PICK x, y : x = sessions'[k] /\ y = told'[k]
    OBVIOUS
  <2>2. SessionOK(x, y)
    BY <2>1 DEF TalkInv
  <2>3. SessionOK(x, y)'
    BY <2>2 DEF SessionOK, PlanOK, StepsOK, Normal, CreationOK, RequiredSecrets
  <2> QED
    BY <2>1, <2>3
<1> QED
  BY <1>1 DEF TalkInv, ToldOK

LEMMA NotWaiting ==
    ASSUME turn'.pc \notin {"correct", "dispatch"}
    PROVE  WaitOK'
  BY DEF WaitOK, Waits, NLStepRunning

-----------------------------------------------------------------------------
(* Commands made from the model's answers.                                 *)

ConfOK == conf \in Deployments

LEMMA LowerIsLower ==
    ASSUME ConfOK, NEW id
    PROVE  Lower(id) \notin DOMAIN conf.upper
  BY DialogAssumption DEF ConfOK, Lower

LEMMA StepIsNormal ==
    ASSUME ConfOK, NEW s, NEW step, step = StepOf(s)
    PROVE  Normal(step) /\ step.action = s.action
<1>1. PICK args, flags : Promoted(s.action, s.args, s.flags) = [args |-> args, flags |-> flags]
  BY DEF Promoted
<1>2. PICK cmd : cmd = [args |-> args, flags |-> flags]
  OBVIOUS
<1>3. PICK a : a = [i \in DOMAIN cmd.args |-> IF i \in AgentIDArg(s.action) THEN Lower(cmd.args[i]) ELSE cmd.args[i]]
  OBVIOUS
<1>4. PICK f : f = [x \in DOMAIN cmd.flags |-> IF x \in AgentIDFlag(s.action) THEN Lower(cmd.flags[x]) ELSE cmd.flags[x]]
  OBVIOUS
<1>5. step = [action |-> s.action, args |-> a, flags |-> f]
  BY <1>1, <1>2, <1>3, <1>4 DEF StepOf, ActionKeyToCommand, NormaliseIDs
<1>6. \A j \in AgentIDArg(s.action) \cap DOMAIN a : a[j] \notin DOMAIN conf.upper
  BY <1>3, LowerIsLower
<1>7. \A x \in AgentIDFlag(s.action) \cap DOMAIN f : f[x] \notin DOMAIN conf.upper
  BY <1>4, LowerIsLower
<1> QED
  BY <1>5, <1>6, <1>7 DEF Normal

\* What is proposed: at least one step, with lower-case IDs and no topology change.
LEMMA ProposalIsFit ==
    ASSUME ConfOK, NEW resp, IsSeq(resp.steps), ~BlockedNLMutationAction(resp), NEW plan, plan = StepsOf(resp)
    PROVE  /\ IsSeq(plan) /\ plan # <<>>
           /\ \A i \in DOMAIN plan : Normal(plan[i]) /\ plan[i].action \notin Topology
<1>1. CASE resp.steps # <<>>
  <2>1. PICK n \in Nat : n = Len(resp.steps) /\ DOMAIN resp.steps = 1..n /\ n > 0
    BY <1>1, SeqFacts
  <2>2. DOMAIN plan = 1..n /\ \A i \in 1..n : plan[i] = StepOf(resp.steps[i])
    BY <1>1, <2>1 DEF StepsOf
  <2>3. plan = [i \in 1..n |-> plan[i]]
    BY <1>1, <2>1 DEF StepsOf
  <2>4. IsSeq(plan) /\ Len(plan) = n
    BY <2>1, <2>3, MakesSeq
  <2>5. plan # <<>>
    BY <2>1, <2>4
  <2>6. \A i \in 1..n : Normal(plan[i]) /\ plan[i].action = resp.steps[i].action
    BY <2>2, StepIsNormal
  <2> QED
    BY <2>1, <2>2, <2>4, <2>5, <2>6 DEF BlockedNLMutationAction
<1>2. CASE resp.steps = <<>>
  <2>1. PICK step : step = StepOf(resp)
    OBVIOUS
  <2>2. plan = <<step>>
    BY <1>2, <2>1 DEF StepsOf
  <2>3. Normal(step) /\ step.action = resp.action
    BY <2>1, StepIsNormal
  <2>4. IsSeq(plan)
    BY <2>2 DEF IsSeq, Range
  <2> QED
    BY <2>2, <2>3, <2>4 DEF BlockedNLMutationAction
<1> QED
  BY <1>1, <1>2

LEMMA CorrectionIsNormal ==
    ASSUME ConfOK, NEW resp, NEW failed
    PROVE  Normal(CorrectedStep(resp, failed))
<1>1. PICK s : CorrectedStep(resp, failed) = StepOf(s)
  BY DEF CorrectedStep
<1> QED
  BY <1>1, StepIsNormal

-----------------------------------------------------------------------------
(* The steps of a dialogue.                                                *)

\* A session is deleted.
LEMMA DeleteStep ==
    ASSUME TalkInv, conf' = conf, NEW key \in Keys, sessions' = Restrict(sessions, DOMAIN sessions \ {key}),
           told' = [k \in Keys |-> told'[k]], \A k \in Keys \ {key} : told'[k] = told[k], ToldOK(told'[key]),
           turn'.pc \in Pcs, turn'.pc # "idle" => turn'.key \in Keys, WaitOK'
    PROVE  TalkInv'
<1>1. /\ DOMAIN sessions' = DOMAIN sessions \ {key}
      /\ \A k \in DOMAIN sessions' \ {key} : sessions'[k] = sessions[k]
  BY DEF Restrict
<1>2. PICK t : t = told'[key]
  OBVIOUS
<1> QED
  BY <1>1, <1>2, KeyStep

\* conversationStore.get of a key deletes its session or leaves it alone.
LEMMA GetStep ==
    ASSUME TalkInv, conf' = conf, NEW key \in Keys, sessions' = SessionsAfterGet(key), told' = told,
           turn'.pc \in Pcs, turn'.pc # "idle" => turn'.key \in Keys, WaitOK'
    PROVE  TalkInv'
<1>1. ToldOK(told'[key]) /\ told' = [k \in Keys |-> told'[k]] /\ \A k \in Keys \ {key} : told'[k] = told[k]
  BY DEF TalkInv
<1> QED
  BY <1>1, DeleteStep, QuietStep DEF SessionsAfterGet

\* A session is set, with the prompt its sender is shown.
LEMMA SetStep ==
    ASSUME TalkInv, conf' = conf, NEW key \in Keys, NEW new, SetSession(key, new),
           NEW s, s = [new EXCEPT !.age = 0],
           told' = [k \in Keys |-> told'[k]], \A k \in Keys \ {key} : told'[k] = told[k],
           NEW t, t = told'[key], ToldOK(t), SessionOK(s, t),
           turn'.pc \in Pcs, turn'.pc # "idle" => turn'.key \in Keys, WaitOK'
    PROVE  TalkInv'
<1>1. /\ DOMAIN sessions' = DOMAIN sessions \cup {key} /\ sessions'[key] = s
      /\ \A k \in DOMAIN sessions' \ {key} : sessions'[k] = sessions[k]
  BY DEF SetSession, Updated
<1> QED
  BY <1>1, KeyStep

LEMMA ToldSet ==
    ASSUME TalkInv, NEW key \in Keys, NEW t, told' = [told EXCEPT ![key] = t]
    PROVE  /\ told' = [k \in Keys |-> told'[k]] /\ \A k \in Keys \ {key} : told'[k] = told[k]
           /\ told'[key] = t
<1>1. told = [k \in Keys |-> told[k]]
  BY DEF TalkInv
<1> QED
  BY <1>1

\* A prompt to a key: its other facts are kept or set.
LEMMA ToldFacts ==
    ASSUME TalkInv, NEW key \in Keys
    PROVE  ToldOK(told[key]) /\ told = [k \in Keys |-> told[k]]
  BY DEF TalkInv

\* The session of a waiting turn.
LEMMA WaitFacts ==
    ASSUME TalkInv, Waits
    PROVE  /\ turn.key \in Keys /\ turn.key \in DOMAIN sessions /\ sessions[turn.key].kind = "nl"
           /\ SessionOK(sessions[turn.key], told[turn.key])
           /\ turn.step = sessions[turn.key].pending[1]
           /\ turn.pc = "correct" => sessions[turn.key].retry < MaxRetries
  BY DEF TalkInv, WaitOK

\* The turn is idle after the step.
LEMMA IdleFacts ==
    ASSUME turn' = Idle
    PROVE  turn'.pc = "idle" /\ turn'.pc \in Pcs /\ (turn'.pc # "idle" => turn'.key \in Keys) /\ WaitOK'
<1>1. turn'.pc = "idle"
  BY DEF Idle
<1> QED
  BY <1>1, NotWaiting DEF Pcs

\* The turn is not disturbed, and it was idle.
LEMMA IdleStays ==
    ASSUME turn.pc = "idle", turn' = turn
    PROVE  turn'.pc = "idle" /\ turn'.pc \in Pcs /\ (turn'.pc # "idle" => turn'.key \in Keys) /\ WaitOK'
<1>1. turn'.pc = "idle"
  OBVIOUS
<1> QED
  BY <1>1, NotWaiting DEF Pcs

-----------------------------------------------------------------------------
(* Answers to a pending confirmation.                                      *)

LEMMA KeysOK ==
    ASSUME ConfOK
    PROVE  conf.keys \subseteq Keys
  BY DialogAssumption DEF ConfOK

LEMMA TalkAnswersNo ==
    ASSUME ConfOK, TalkInv, NEW key \in conf.keys, NEW text \in conf.texts, AnswersNo(key, text)
    PROVE  TalkInv'
<1>1. key \in Keys /\ turn.pc = "idle" /\ turn' = turn /\ told' = told /\ conf' = conf
      /\ sessions' = Restrict(sessions, DOMAIN sessions \ {key})
  BY KeysOK DEF AnswersNo, Takes, DeleteSession
<1>2. ToldOK(told'[key]) /\ told' = [k \in Keys |-> told'[k]] /\ \A k \in Keys \ {key} : told'[k] = told[k]
  BY <1>1, ToldFacts
<1> QED
  BY <1>1, <1>2, IdleStays, DeleteStep

LEMMA TalkAnswersOther ==
    ASSUME ConfOK, TalkInv, NEW key \in conf.keys, NEW text \in conf.texts, AnswersOther(key, text)
    PROVE  TalkInv'
<1>1. turn.pc = "idle" /\ UNCHANGED <<conf, turn, sessions, told>>
  BY DEF AnswersOther, Takes
<1> QED
  BY <1>1, IdleStays, QuietStep

LEMMA TalkAnswersYes ==
    ASSUME ConfOK, TalkInv, NEW key \in conf.keys, NEW text \in conf.texts, AnswersYes(key, text)
    PROVE  TalkInv'
<1>1. /\ key \in Keys /\ key \in DOMAIN sessions /\ sessions[key].kind = "nl"
      /\ turn' = Dispatching(key, Head(sessions[key].pending), TRUE) /\ UNCHANGED <<conf, sessions, told>>
  BY KeysOK DEF AnswersYes, Takes, Live
<1>2. PlanOK(sessions[key], told[key])
  BY <1>1 DEF TalkInv, SessionOK
<1>3. Head(sessions[key].pending) = sessions[key].pending[1]
  BY <1>2, TailFacts DEF PlanOK
<1>4. turn'.pc = "dispatch" /\ turn'.key = key /\ turn'.step = sessions'[key].pending[1]
  BY <1>1, <1>3 DEF Dispatching
<1>5. turn'.pc \in Pcs /\ WaitOK'
  BY <1>1, <1>4 DEF Pcs, WaitOK
<1> QED
  BY <1>1, <1>4, <1>5, QuietStep

LEMMA TalkConfirmsCreation ==
    ASSUME ConfOK, TalkInv, NEW key \in conf.keys, NEW text \in conf.texts, ConfirmsCreation(key, text)
    PROVE  TalkInv'
<1>1. PICK s : s = sessions[key]
  OBVIOUS
<1>2. PICK t : t = told[key]
  OBVIOUS
<1>3. PICK step : step = CreateCommand(s.intent)
  OBVIOUS
<1>4. /\ key \in Keys /\ key \in DOMAIN sessions /\ s.kind = "keyword" /\ turn.pc = "idle"
      /\ conf' = conf /\ present' = present
  BY <1>1, KeysOK DEF ConfirmsCreation, Takes, Live
<1>5. CreationOK(s, t) /\ ToldOK(t) /\ told = [k \in Keys |-> told[k]]
  BY <1>1, <1>2, <1>4, ToldFacts DEF TalkInv, SessionOK
<1>6. CASE StillMissing(s) # {}
  <2>1. /\ SetSession(key, [s EXCEPT !.missing = StillMissing(s)]) /\ turn' = turn
        /\ told' = [told EXCEPT ![key].step = step, ![key].age = 0, ![key].seen = @ \cup (s.missing \cap present)]
    BY <1>1, <1>3, <1>6 DEF ConfirmsCreation
  <2>2. PICK u : u = [t EXCEPT !.step = step, !.age = 0, !.seen = @ \cup (s.missing \cap present)]
    OBVIOUS
  <2>3. told' = [told EXCEPT ![key] = u]
    BY <1>2, <1>5, <2>1, <2>2
  <2>4. ToldOK(u) /\ u.step = step /\ u.age = 0 /\ u.seen = t.seen \cup (s.missing \cap present)
    BY <1>5, <2>2 DEF ToldOK, Told
  <2>5. PICK new : new = [s EXCEPT !.missing = StillMissing(s)]
    OBVIOUS
  <2>6. PICK r : r = [new EXCEPT !.age = 0]
    OBVIOUS
  <2>7. /\ DOMAIN r = {"kind", "intent", "missing", "age"} /\ r.kind = "keyword" /\ r.intent = s.intent
        /\ r.missing = s.missing \ present /\ r.age = 0
    BY <1>4, <1>5, <2>5, <2>6 DEF CreationOK, StillMissing
  <2>8. RequiredSecrets(r.intent.template) \subseteq r.missing \cup u.seen
    BY <1>5, <2>4, <2>7 DEF CreationOK
  <2>9. CreationOK(r, u)
    BY <1>3, <2>4, <2>7, <2>8 DEF CreationOK
  <2>10. SessionOK(r, u)
    BY <2>4, <2>7, <2>9, DialogAssumption DEF SessionOK
  <2> QED
    BY <1>4, <2>1, <2>3, <2>4, <2>5, <2>6, <2>10, ToldSet, IdleStays, SetStep
<1>7. CASE StillMissing(s) = {}
  <2>1. /\ sessions' = Restrict(sessions, DOMAIN sessions \ {key}) /\ turn' = Dispatching(key, step, FALSE)
        /\ told' = [told EXCEPT ![key].seen = @ \cup (s.missing \cap present)]
    BY <1>1, <1>3, <1>7 DEF ConfirmsCreation, DeleteSession
  <2>2. PICK u : u = [t EXCEPT !.seen = @ \cup (s.missing \cap present)]
    OBVIOUS
  <2>3. told' = [told EXCEPT ![key] = u]
    BY <1>2, <1>5, <2>1, <2>2
  <2>4. ToldOK(u)
    BY <1>5, <2>2 DEF ToldOK, Told
  <2>5. turn'.pc = "dispatch" /\ turn'.key = key /\ ~turn'.nl
    BY <2>1 DEF Dispatching
  <2>6. turn'.pc \in Pcs /\ WaitOK'
    BY <2>5 DEF Pcs, WaitOK, Waits, NLStepRunning
  <2> QED
    BY <1>4, <2>1, <2>3, <2>4, <2>5, <2>6, ToldSet, DeleteStep
<1> QED
  BY <1>6, <1>7

-----------------------------------------------------------------------------
(* Messages without a live session, and the model's answers.               *)

LEMMA TalkKeywordIntent ==
    ASSUME ConfOK, TalkInv, NEW key \in Keys, NEW text, KeywordIntent(key, text), conf' = conf,
           turn'.pc \in Pcs, turn'.pc # "idle" => turn'.key \in Keys, WaitOK'
    PROVE  TalkInv'
<1>1. CASE sessions' = SessionsAfterGet(key) /\ told' = told
  BY <1>1, GetStep
<1>2. ASSUME NEW intent,
             SetSession(key, [kind |-> "keyword", intent |-> intent,
                              missing |-> RequiredSecrets(intent.template) \ present, age |-> 0]),
             told' = [told EXCEPT ![key] = [NothingTold EXCEPT !.step = CreateCommand(intent),
                                              !.seen = RequiredSecrets(intent.template) \cap present]]
      PROVE  TalkInv'
  <2>1. PICK need : need = RequiredSecrets(intent.template)
    OBVIOUS
  <2>2. PICK new : new = [kind |-> "keyword", intent |-> intent, missing |-> need \ present, age |-> 0]
    OBVIOUS
  <2>3. PICK r : r = [new EXCEPT !.age = 0]
    OBVIOUS
  <2>4. PICK step : step = CreateCommand(intent)
    OBVIOUS
  <2>5. PICK u : u = [NothingTold EXCEPT !.step = step, !.seen = need \cap present]
    OBVIOUS
  <2>6. ToldOK(u) /\ u.step = step /\ u.age = 0 /\ u.seen = need \cap present
    BY <2>5, DialogAssumption DEF ToldOK, Told, NothingTold
  <2>7. /\ DOMAIN r = {"kind", "intent", "missing", "age"} /\ r.kind = "keyword" /\ r.intent = intent
        /\ r.missing = need \ present /\ r.age = 0
    BY <2>2, <2>3
  <2>8. CreationOK(r, u)
    BY <2>1, <2>4, <2>6, <2>7 DEF CreationOK
  <2>9. SessionOK(r, u)
    BY <2>6, <2>7, <2>8, DialogAssumption DEF SessionOK
  <2>10. SetSession(key, new) /\ told' = [told EXCEPT ![key] = u]
    BY <1>2, <2>1, <2>2, <2>4, <2>5
  <2> QED
    BY <2>3, <2>6, <2>9, <2>10, ToldSet, SetStep
<1>3. \/ sessions' = SessionsAfterGet(key) /\ told' = told
      \/ \E intent :
           /\ SetSession(key, [kind |-> "keyword", intent |-> intent,
                               missing |-> RequiredSecrets(intent.template) \ present, age |-> 0])
           /\ told' = [told EXCEPT ![key] = [NothingTold EXCEPT !.step = CreateCommand(intent),
                                               !.seen = RequiredSecrets(intent.template) \cap present]]
  BY DEF KeywordIntent
<1> QED
  BY <1>1, <1>2, <1>3

LEMMA TalkKeywordPath ==
    ASSUME ConfOK, TalkInv, NEW key \in conf.keys, NEW text \in conf.texts, KeywordPath(key, text)
    PROVE  TalkInv'
<1>1. key \in Keys /\ turn.pc = "idle" /\ turn' = turn /\ conf' = conf /\ KeywordIntent(key, text)
  BY KeysOK DEF KeywordPath, Takes
<1> QED
  BY <1>1, IdleStays, TalkKeywordIntent

LEMMA TalkClassifyRefused ==
    ASSUME ConfOK, TalkInv, NEW key \in conf.keys, NEW text \in conf.texts, ClassifyRefused(key, text)
    PROVE  TalkInv'
<1>1. /\ key \in Keys /\ turn.pc = "idle" /\ turn' = turn /\ conf' = conf /\ told' = told
      /\ sessions' = SessionsAfterGet(key)
  BY KeysOK DEF ClassifyRefused, MeetsQuotas, Takes
<1> QED
  BY <1>1, IdleStays, GetStep

\* The turn of an admitted message.
LEMMA AdmittedTurn ==
    ASSUME NEW key, NEW text, ClassifyAdmitted(key, text)
    PROVE  /\ turn'.pc \in {"sealing", "assemble", "classify"} /\ turn'.key = key
           /\ (turn'.pc = "classify" <=> ~conf.memory)
           /\ turn'.provider = Resolved
           /\ turn'.msg = Message(Number, key, "user", text.size)
           /\ turn'.conv = SealedBy(key)
           /\ (conf.memory => (turn'.pc = "sealing" <=> SealedBy(key) # NoConv))
           /\ (~conf.memory => turn'.context = history[key])
<1> PICK msg : msg = Message(Number, key, "user", text.size)
  OBVIOUS
<1> PICK sealed : sealed = SealedBy(key)
  OBVIOUS
<1> PICK prov : prov = Resolved
  OBVIOUS
<1>1. CASE conf.memory
  <2>1. turn' = [pc |-> IF sealed = NoConv THEN "assemble" ELSE "sealing", key |-> key, text |-> text, msg |-> msg,
                 provider |-> prov, conv |-> sealed, context |-> <<>>]
    BY <1>1 DEF ClassifyAdmitted
  <2> QED
    BY <1>1, <2>1
<1>2. CASE ~conf.memory
  <2>1. turn' = [pc |-> "classify", key |-> key, text |-> text, msg |-> msg,
                 provider |-> prov, conv |-> sealed, context |-> history[key]]
    BY <1>2 DEF ClassifyAdmitted
  <2> QED
    BY <1>2, <2>1
<1> QED
  BY <1>1, <1>2

LEMMA TalkClassifyAdmitted ==
    ASSUME ConfOK, TalkInv, NEW key \in conf.keys, NEW text \in conf.texts, ClassifyAdmitted(key, text)
    PROVE  TalkInv'
<1>1. key \in Keys /\ conf' = conf /\ told' = told /\ sessions' = SessionsAfterGet(key)
  BY KeysOK DEF ClassifyAdmitted, MeetsQuotas, Takes
<1>2. turn'.pc \in Pcs /\ turn'.key = key /\ WaitOK'
  BY AdmittedTurn, NotWaiting DEF Pcs
<1> QED
  BY <1>1, <1>2, GetStep

LEMMA TalkClassifyAnswered ==
    ASSUME ConfOK, TalkInv, NEW resp \in conf.answers, ClassifyAnswered(resp)
    PROVE  TalkInv'
<1>1. turn.pc = "classify" /\ turn' = Idle /\ conf' = conf
  BY DEF ClassifyAnswered, Accounts
<1>2. CASE ~Proposes(resp)
  BY <1>1, <1>2, IdleFacts, QuietStep DEF ClassifyAnswered
<1>3. CASE Proposes(resp)
  <2>1. PICK key \in Keys : key = turn.key
    BY <1>1 DEF TalkInv
  <2>2. PICK plan : plan = StepsOf(resp)
    OBVIOUS
  <2>3. IsSeq(resp.steps) /\ ~BlockedNLMutationAction(resp)
    BY <1>3, DialogAssumption DEF Proposes, ConfOK
  <2>4. /\ IsSeq(plan) /\ plan # <<>>
        /\ \A i \in DOMAIN plan : Normal(plan[i]) /\ plan[i].action \notin Topology
    BY <2>2, <2>3, ProposalIsFit
  <2>5. Len(plan) \in Nat /\ DOMAIN plan = 1..Len(plan) /\ Len(plan) > 0 /\ Head(plan) = plan[1]
    BY <2>4, SeqFacts, TailFacts
  <2>6. PICK new : new = [kind |-> "nl", pending |-> plan, total |-> Len(plan), retry |-> 0, age |-> 0]
    OBVIOUS
  <2>7. PICK u : u = [NothingTold EXCEPT !.step = Head(plan), !.plan = plan]
    OBVIOUS
  <2>8. SetSession(key, new) /\ told' = [told EXCEPT ![key] = u]
    BY <1>3, <2>1, <2>2, <2>6, <2>7 DEF ClassifyAnswered
  <2>9. PICK r : r = [new EXCEPT !.age = 0]
    OBVIOUS
  <2>10. /\ DOMAIN r = {"kind", "pending", "total", "retry", "age"} /\ r.kind = "nl" /\ r.pending = plan
         /\ r.total = Len(plan) /\ r.retry = 0 /\ r.age = 0
    BY <2>6, <2>9
  <2>11. ToldOK(u) /\ u.step = plan[1] /\ u.plan = plan /\ u.accepted = 0 /\ u.corrected = 0 /\ u.age = 0
    BY <2>5, <2>7, DialogAssumption DEF ToldOK, Told, NothingTold
  <2>12. PlanOK(r, u)
    <3>1. \A i \in 2..Len(r.pending) : r.pending[i] = u.plan[u.accepted + i]
      BY <2>5, <2>10, <2>11
    <3>2. r.pending[1] = u.plan[u.accepted + 1]
      BY <2>10, <2>11
    <3>3. Len(r.pending) = r.total - u.accepted
      BY <2>5, <2>10, <2>11
    <3> QED
      BY <2>4, <2>5, <2>10, <2>11, <3>1, <3>2, <3>3 DEF PlanOK
  <2>13. StepsOK(r)
    BY <2>4, <2>10 DEF StepsOK
  <2>14. SessionOK(r, u)
    BY <2>10, <2>11, <2>12, <2>13, DialogAssumption DEF SessionOK
  <2> QED
    BY <1>1, <2>8, <2>9, <2>11, <2>14, IdleFacts, ToldSet, SetStep
<1> QED
  BY <1>2, <1>3

LEMMA TalkClassifyUnavailable ==
    ASSUME ConfOK, TalkInv, ClassifyUnavailable
    PROVE  TalkInv'
<1>1. turn.pc = "classify" /\ turn' = Idle /\ conf' = conf /\ KeywordIntent(turn.key, turn.text)
  BY DEF ClassifyUnavailable
<1>2. turn.key \in Keys
  BY <1>1 DEF TalkInv
<1> QED
  BY <1>1, <1>2, IdleFacts, TalkKeywordIntent

-----------------------------------------------------------------------------
(* The dispatched command returns.                                         *)

LEMMA TalkStepAccepted ==
    ASSUME ConfOK, TalkInv, StepAccepted
    PROVE  TalkInv'
<1>1. PICK key : key = turn.key
  OBVIOUS
<1>2. PICK s : s = sessions[key]
  OBVIOUS
<1>3. PICK t : t = told[key]
  OBVIOUS
<1>4. NLStepRunning /\ turn' = Idle /\ conf' = conf
  BY DEF StepAccepted
<1>5. /\ key \in Keys /\ key \in DOMAIN sessions /\ s.kind = "nl" /\ PlanOK(s, t) /\ StepsOK(s)
      /\ ToldOK(t) /\ told = [k \in Keys |-> told[k]]
  BY <1>1, <1>2, <1>3, <1>4, WaitFacts, ToldFacts DEF Waits, SessionOK
<1>6. PICK rest : rest = Tail(s.pending)
  OBVIOUS
<1>7. PICK n \in Nat : n = Len(s.pending) /\ n > 0 /\ DOMAIN s.pending = 1..n
  BY <1>5, SeqFacts DEF PlanOK
<1>8. /\ IsSeq(rest) /\ Len(rest) = n - 1 /\ DOMAIN rest = 1..(n - 1)
      /\ \A i \in 1..(n - 1) : rest[i] = s.pending[i + 1]
  BY <1>5, <1>6, <1>7, TailFacts, SeqFacts DEF PlanOK
<1>9. CASE rest # <<>>
  <2>1. PICK new : new = [s EXCEPT !.pending = rest, !.retry = 0]
    OBVIOUS
  <2>2. PICK u : u = [t EXCEPT !.step = Head(rest), !.age = 0, !.accepted = @ + 1, !.corrected = 0]
    OBVIOUS
  <2>3. SetSession(key, new)
    BY <1>1, <1>2, <1>6, <1>9, <2>1 DEF StepAccepted, Remaining
  <2>4. told' = [told EXCEPT ![key].step = Head(rest), ![key].age = 0,
                             ![key].accepted = @ + 1, ![key].corrected = 0]
    BY <1>1, <1>2, <1>6, <1>9 DEF StepAccepted, Remaining
  <2>5. told' = [told EXCEPT ![key] = u]
    BY <1>3, <1>5, <2>2, <2>4
  <2>6. Head(rest) = rest[1] /\ n > 1
    BY <1>7, <1>8, <1>9, TailFacts, SeqFacts
  <2>7. /\ ToldOK(u) /\ u.step = rest[1] /\ u.plan = t.plan /\ u.accepted = t.accepted + 1
        /\ u.corrected = 0 /\ u.age = 0
    BY <1>5, <2>2, <2>6, DialogAssumption DEF ToldOK, Told
  <2>8. PICK r : r = [new EXCEPT !.age = 0]
    OBVIOUS
  <2>9. /\ DOMAIN r = {"kind", "pending", "total", "retry", "age"} /\ r.kind = "nl" /\ r.pending = rest
        /\ r.total = s.total /\ r.retry = 0 /\ r.age = 0
    BY <1>5, <2>1, <2>8 DEF PlanOK
  <2>10. PICK a \in Nat : a = t.accepted
    BY <1>5 DEF PlanOK
  <2>11. /\ IsSeq(t.plan) /\ s.total = Len(t.plan) /\ n = s.total - a
         /\ \A i \in 2..n : s.pending[i] = t.plan[a + i]
    BY <1>5, <1>7, <2>10 DEF PlanOK
  <2>12. \A i \in 1..(n - 1) : rest[i] = t.plan[(a + 1) + i]
    <3>1. SUFFICES ASSUME NEW i \in 1..(n - 1) PROVE rest[i] = t.plan[(a + 1) + i]
      OBVIOUS
    <3>2. i + 1 \in 2..n /\ a + (i + 1) = (a + 1) + i
      OBVIOUS
    <3> QED
      BY <1>8, <2>11, <3>2
  <2>13. PICK l \in Nat : l = Len(t.plan)
    BY <2>11, SeqFacts
  <2>14. n - 1 = l - (a + 1)
    BY <2>11, <2>13
  <2>15. PlanOK(r, u)
    <3>1. /\ DOMAIN r = {"kind", "pending", "total", "retry", "age"}
          /\ IsSeq(r.pending) /\ r.pending # <<>> /\ IsSeq(u.plan) /\ r.total = Len(u.plan)
          /\ r.retry = 0 /\ u.corrected = 0 /\ u.step = r.pending[1] /\ r.pending = rest /\ u.plan = t.plan
      BY <1>8, <1>9, <2>7, <2>9, <2>11
    <3>2. u.accepted = a + 1 /\ Len(r.pending) = r.total - (a + 1)
      BY <1>8, <2>7, <2>9, <2>10, <2>11, <2>13, <2>14
    <3>3. Len(r.pending) = n - 1 /\ rest[1] = t.plan[(a + 1) + 1]
      BY <1>8, <2>6, <2>9, <2>12
    <3>4. \A i \in 2..(n - 1) : rest[i] = t.plan[(a + 1) + i]
      BY <2>12
    <3>5. a + 1 \in Nat /\ 0 \in Nat
      OBVIOUS
    <3> QED
      BY <3>1, <3>2, <3>3, <3>4, <3>5 DEF PlanOK
  <2>16. StepsOK(r)
    <3>1. \A i \in 1..(n - 1) : Normal(rest[i])
      BY <1>5, <1>7, <1>8 DEF StepsOK
    <3>2. \A i \in 1..(n - 1) : rest[i].action \notin Topology
      <4>1. SUFFICES ASSUME NEW i \in 1..(n - 1) PROVE rest[i].action \notin Topology
        OBVIOUS
      <4>2. i + 1 \in 1..n /\ i + 1 # 1
        OBVIOUS
      <4> QED
        BY <1>5, <1>7, <1>8, <4>2 DEF StepsOK
    <3> QED
      BY <1>8, <2>9, <3>1, <3>2 DEF StepsOK
  <2>17. SessionOK(r, u)
    BY <2>7, <2>9, <2>15, <2>16, DialogAssumption DEF SessionOK
  <2> QED
    BY <1>4, <1>5, <2>3, <2>5, <2>7, <2>8, <2>17, IdleFacts, ToldSet, SetStep
<1>10. CASE rest = <<>>
  <2>1. /\ sessions' = Restrict(sessions, DOMAIN sessions \ {key})
        /\ told' = [told EXCEPT ![key].accepted = @ + 1, ![key].corrected = 0]
    BY <1>1, <1>2, <1>6, <1>10 DEF StepAccepted, Remaining, DeleteSession
  <2>2. PICK u : u = [t EXCEPT !.accepted = @ + 1, !.corrected = 0]
    OBVIOUS
  <2>3. told' = [told EXCEPT ![key] = u]
    BY <1>3, <1>5, <2>1, <2>2
  <2>4. ToldOK(u)
    BY <1>5, <2>2, DialogAssumption DEF ToldOK, Told
  <2>5. /\ told' = [k \in Keys |-> told'[k]] /\ \A k \in Keys \ {key} : told'[k] = told[k]
        /\ ToldOK(told'[key])
    BY <1>5, <2>3, <2>4, ToldSet
  <2> QED
    BY <1>4, <1>5, <2>1, <2>5, IdleFacts, DeleteStep
<1> QED
  BY <1>9, <1>10

LEMMA TalkOffersRetry ==
    ASSUME ConfOK, TalkInv, Waits, OffersRetry
    PROVE  TalkInv'
<1>1. PICK key : key = turn.key
  OBVIOUS
<1>2. PICK s : s = sessions[key]
  OBVIOUS
<1>3. PICK t : t = told[key]
  OBVIOUS
<1>4. /\ turn' = Idle /\ conf' = conf /\ sessions' = sessions
      /\ told' = [told EXCEPT ![key].step = turn.step, ![key].age = 0]
  BY <1>1 DEF OffersRetry, Shows
<1>5. /\ key \in Keys /\ key \in DOMAIN sessions /\ SessionOK(s, t) /\ turn.step = s.pending[1]
      /\ s.kind = "nl" /\ ToldOK(t) /\ told = [k \in Keys |-> told[k]]
  BY <1>1, <1>2, <1>3, WaitFacts, ToldFacts
<1>6. PICK u : u = [t EXCEPT !.step = turn.step, !.age = 0]
  OBVIOUS
<1>7. told' = [told EXCEPT ![key] = u]
  BY <1>3, <1>4, <1>5, <1>6
<1>8. /\ ToldOK(u) /\ u.step = s.pending[1] /\ u.plan = t.plan /\ u.accepted = t.accepted
      /\ u.corrected = t.corrected /\ u.age = 0
  BY <1>5, <1>6 DEF ToldOK, Told
<1>9. PlanOK(s, u)
  BY <1>5, <1>8 DEF PlanOK, SessionOK
<1>10. SessionOK(s, u)
  BY <1>5, <1>8, <1>9 DEF SessionOK
<1>11. DOMAIN sessions' \subseteq DOMAIN sessions \cup {key} /\ s = sessions'[key]
       /\ \A k \in DOMAIN sessions' \ {key} : sessions'[k] = sessions[k]
  BY <1>2, <1>4
<1>12. /\ told' = [k \in Keys |-> told'[k]] /\ \A k \in Keys \ {key} : told'[k] = told[k]
       /\ u = told'[key]
  BY <1>5, <1>7, ToldSet
<1>13. turn'.pc \in Pcs /\ (turn'.pc # "idle" => turn'.key \in Keys) /\ WaitOK'
  BY <1>4, IdleFacts
<1> QED
  BY <1>4, <1>5, <1>8, <1>10, <1>11, <1>12, <1>13, KeyStep

LEMMA TalkStepInvalid ==
    ASSUME ConfOK, TalkInv, StepInvalid
    PROVE  TalkInv'
<1>1. PICK key : key = turn.key
  OBVIOUS
<1>2. NLStepRunning /\ conf' = conf /\ told' = told
  BY DEF StepInvalid
<1>3. /\ key \in Keys /\ key \in DOMAIN sessions /\ sessions[key].kind = "nl" /\ ToldOK(told[key])
      /\ turn.step = sessions[key].pending[1] /\ sessions[key].retry \in Nat /\ told = [k \in Keys |-> told[k]]
  BY <1>1, <1>2, WaitFacts, ToldFacts DEF Waits, SessionOK, PlanOK
<1>4. CASE GivesUp(sessions[key])
  <2>1. sessions' = Restrict(sessions, DOMAIN sessions \ {key}) /\ turn' = Idle
    BY <1>1, <1>4 DEF StepInvalid, DeleteSession
  <2> QED
    BY <1>2, <1>3, <2>1, IdleFacts, DeleteStep
<1>5. CASE ~GivesUp(sessions[key])
  <2>1. /\ sessions' = sessions
        /\ turn' = [pc |-> "correct", key |-> turn.key, step |-> turn.step, provider |-> Resolved]
    BY <1>1, <1>5 DEF StepInvalid
  <2>2. turn'.pc = "correct" /\ turn'.key = key /\ turn'.step = turn.step
    BY <1>1, <2>1
  <2>3. sessions[key].retry < MaxRetries
    BY <1>3, <1>5, DialogAssumption DEF GivesUp
  <2>4. WaitOK' /\ turn'.pc \in Pcs
    BY <1>3, <2>1, <2>2, <2>3 DEF WaitOK, Pcs
  <2> QED
    BY <1>2, <1>3, <2>1, <2>2, <2>4, QuietStep
<1> QED
  BY <1>4, <1>5

LEMMA TalkCorrectionArrives ==
    ASSUME ConfOK, TalkInv, NEW resp \in conf.corrections, CorrectionArrives(resp)
    PROVE  TalkInv'
<1>1. PICK key : key = turn.key
  OBVIOUS
<1>2. PICK s : s = sessions[key]
  OBVIOUS
<1>3. PICK t : t = told[key]
  OBVIOUS
<1>4. PICK step : step = CorrectedStep(resp, turn.step.action)
  OBVIOUS
<1>5. turn.pc = "correct" /\ turn' = Idle /\ conf' = conf
  BY DEF CorrectionArrives
<1>6. /\ key \in Keys /\ key \in DOMAIN sessions /\ s.kind = "nl" /\ PlanOK(s, t) /\ StepsOK(s)
      /\ ToldOK(t) /\ told = [k \in Keys |-> told[k]] /\ s.retry < MaxRetries
  BY <1>1, <1>2, <1>3, <1>5, WaitFacts, ToldFacts DEF Waits, SessionOK
<1>7. Normal(step)
  BY <1>4, CorrectionIsNormal
<1>8. PICK new : new = [s EXCEPT !.pending[1] = step, !.retry = @ + 1]
  OBVIOUS
<1>9. PICK u : u = [t EXCEPT !.step = step, !.age = 0, !.corrected = @ + 1]
  OBVIOUS
<1>10. /\ SetSession(key, new)
       /\ told' = [told EXCEPT ![key].step = step, ![key].age = 0, ![key].corrected = @ + 1]
  BY <1>1, <1>2, <1>4, <1>8 DEF CorrectionArrives
<1>11. told' = [told EXCEPT ![key] = u]
  BY <1>3, <1>6, <1>9, <1>10
<1>12. PICK c \in Nat : c = s.retry /\ c = t.corrected /\ c < MaxRetries
  BY <1>6 DEF PlanOK
<1>13. /\ ToldOK(u) /\ u.step = step /\ u.plan = t.plan /\ u.accepted = t.accepted
       /\ u.corrected = c + 1 /\ u.age = 0
  BY <1>6, <1>9, <1>12, DialogAssumption DEF ToldOK, Told
<1>14. PICK n \in Nat : n = Len(s.pending) /\ n > 0 /\ DOMAIN s.pending = 1..n
  BY <1>6, SeqFacts DEF PlanOK
<1>15. PICK p : p = [s.pending EXCEPT ![1] = step]
  OBVIOUS
<1>16. p[1] = step /\ DOMAIN p = 1..n /\ (\A i \in 2..n : p[i] = s.pending[i]) /\ p = [i \in 1..n |-> p[i]]
  BY <1>14, <1>15
<1>17. IsSeq(p) /\ Len(p) = n /\ p # <<>>
  <2>1. IsSeq(p) /\ Len(p) = n
    BY <1>16, MakesSeq
  <2> QED
    BY <1>14, <2>1
<1>18. PICK r : r = [new EXCEPT !.age = 0]
  OBVIOUS
<1>19. /\ DOMAIN r = {"kind", "pending", "total", "retry", "age"} /\ r.kind = "nl" /\ r.pending = p
       /\ r.total = s.total /\ r.retry = c + 1 /\ r.age = 0
  BY <1>6, <1>8, <1>12, <1>15, <1>18 DEF PlanOK
<1>20. PlanOK(r, u)
  <2>1. /\ IsSeq(t.plan) /\ s.total = Len(t.plan) /\ t.accepted \in Nat /\ n = s.total - t.accepted
        /\ \A i \in 2..n : s.pending[i] = t.plan[t.accepted + i]
    BY <1>6, <1>14 DEF PlanOK
  <2>2. \A i \in 2..n : p[i] = t.plan[t.accepted + i]
    BY <1>16, <2>1
  <2>3. c + 1 \in Nat /\ c + 1 # 0
    OBVIOUS
  <2> QED
    BY <1>13, <1>16, <1>17, <1>19, <2>1, <2>2, <2>3 DEF PlanOK
<1>21. StepsOK(r)
  <2>1. ASSUME NEW i \in 1..n PROVE Normal(p[i]) /\ (p[i].action \in Topology => i = 1)
    <3>1. CASE i = 1
      BY <1>7, <1>16, <3>1
    <3>2. CASE i # 1
      <4>1. i \in 2..n /\ i \in DOMAIN s.pending
        BY <1>14, <3>2
      <4>2. p[i] = s.pending[i]
        BY <1>16, <4>1
      <4>3. Normal(s.pending[i]) /\ s.pending[i].action \notin Topology
        BY <1>6, <3>2, <4>1 DEF StepsOK
      <4> QED
        BY <4>2, <4>3
    <3> QED
      BY <3>1, <3>2
  <2>2. r.retry > 0 /\ DOMAIN r.pending = 1..n
    BY <1>12, <1>16, <1>19
  <2> QED
    BY <1>19, <2>1, <2>2 DEF StepsOK
<1>22. SessionOK(r, u)
  BY <1>13, <1>19, <1>20, <1>21, DialogAssumption DEF SessionOK
<1>23. /\ told' = [k \in Keys |-> told'[k]] /\ \A k \in Keys \ {key} : told'[k] = told[k]
       /\ told'[key] = u
  BY <1>6, <1>11, ToldSet
<1>24. turn'.pc \in Pcs /\ (turn'.pc # "idle" => turn'.key \in Keys) /\ WaitOK'
  BY <1>5, IdleFacts
<1> QED
  BY <1>5, <1>6, <1>10, <1>13, <1>18, <1>22, <1>23, <1>24, SetStep

-----------------------------------------------------------------------------
(* The world around the loop, and all steps together.                      *)

LEMMA CappedFacts ==
    ASSUME NEW age \in Nat, NEW cap \in Nat, age <= cap
    PROVE  /\ Capped(age, cap) \in Nat /\ Capped(age, cap) <= cap /\ age <= Capped(age, cap)
           /\ (age < cap => Capped(age, cap) = age + 1) /\ (age = cap => Capped(age, cap) = cap)
  BY MinOfTwo DEF Capped

LEMMA CappedGrows ==
    ASSUME NEW a \in Nat, NEW b \in Nat, NEW cap \in Nat, a <= b
    PROVE  Capped(a, cap) <= Capped(b, cap) /\ Capped(a, cap) \in Nat /\ Capped(b, cap) \in Nat
           /\ Capped(b, cap) <= cap
  BY MinOfTwo DEF Capped

LEMMA TalkTick ==
    ASSUME ConfOK, TalkInv, Tick
    PROVE  TalkInv'
<1>1. /\ sessions' = [key \in DOMAIN sessions |-> [sessions[key] EXCEPT !.age = Capped(@, SessionTTL + 1)]]
      /\ told' = [key \in Keys |-> [told[key] EXCEPT !.age = Capped(@, SessionTTL + 1)]]
      /\ conf' = conf /\ turn' = turn
  BY DEF Tick
<1>2. PICK cap \in Nat : cap = SessionTTL + 1
  BY DialogAssumption
<1>3. ASSUME NEW key \in Keys PROVE ToldOK(told'[key])
  <2>1. PICK t : t = told[key]
    OBVIOUS
  <2>2. ToldOK(t)
    BY <2>1 DEF TalkInv
  <2>3. PICK u : u = [t EXCEPT !.age = Capped(@, SessionTTL + 1)]
    OBVIOUS
  <2>4. Capped(t.age, SessionTTL + 1) \in Nat
    <3>1. PICK a \in Nat : a = t.age
      BY <2>2 DEF ToldOK
    <3>2. Capped(a, cap) \in Nat
      BY CappedGrows
    <3> QED
      BY <1>2, <3>1, <3>2
  <2>5. ToldOK(u)
    BY <2>2, <2>3, <2>4 DEF ToldOK, Told
  <2> QED
    BY <1>1, <2>1, <2>3, <2>5
<1>4. ASSUME NEW key \in DOMAIN sessions' PROVE SessionOK(sessions'[key], told'[key])
  <2>1. PICK s, t : s = sessions[key] /\ t = told[key]
    OBVIOUS
  <2>2. key \in Keys /\ key \in DOMAIN sessions /\ SessionOK(s, t) /\ ToldOK(t)
    BY <1>1, <2>1 DEF TalkInv
  <2>3. PICK r : r = [s EXCEPT !.age = Capped(@, SessionTTL + 1)]
    OBVIOUS
  <2>4. PICK u : u = [t EXCEPT !.age = Capped(@, SessionTTL + 1)]
    OBVIOUS
  <2>5. /\ DOMAIN r = DOMAIN s /\ DOMAIN u = Told /\ "age" \in DOMAIN s
        /\ \A f \in DOMAIN s \ {"age"} : r[f] = s[f]
        /\ \A f \in Told \ {"age"} : u[f] = t[f]
    BY <2>2, <2>3, <2>4 DEF ToldOK, SessionOK, PlanOK, CreationOK
  <2>6. r.age = Capped(s.age, SessionTTL + 1) /\ u.age = Capped(t.age, SessionTTL + 1)
    BY <2>2, <2>3, <2>4, <2>5 DEF ToldOK, Told
  <2>7. s.age \in Nat /\ t.age \in Nat /\ t.age <= s.age
    BY <1>2, <2>2 DEF SessionOK, ToldOK
  <2>8. r.age \in 0..(SessionTTL + 1) /\ u.age <= r.age
    <3>1. PICK a \in Nat, b \in Nat : a = t.age /\ b = s.age /\ a <= b
      BY <2>7
    <3>2. Capped(a, cap) <= Capped(b, cap) /\ Capped(a, cap) \in Nat /\ Capped(b, cap) \in Nat /\ Capped(b, cap) <= cap
      BY <3>1, CappedGrows
    <3> QED
      BY <1>2, <2>6, <3>1, <3>2
  <2>9. "kind" \in DOMAIN s /\ r.kind = s.kind
    BY <2>2, <2>5 DEF SessionOK, PlanOK, CreationOK
  <2>10. ASSUME s.kind = "nl" PROVE PlanOK(r, u) /\ StepsOK(r)
    <3>1. PlanOK(s, t) /\ StepsOK(s)
      BY <2>2, <2>10 DEF SessionOK
    <3>2. r.pending = s.pending /\ r.total = s.total /\ r.retry = s.retry
      BY <2>5, <3>1 DEF PlanOK
    <3>3. u.plan = t.plan /\ u.accepted = t.accepted /\ u.corrected = t.corrected /\ u.step = t.step
      BY <2>5 DEF Told
    <3> QED
      BY <2>5, <3>1, <3>2, <3>3 DEF PlanOK, StepsOK
  <2>11. ASSUME s.kind = "keyword" PROVE CreationOK(r, u)
    <3>1. CreationOK(s, t)
      BY <2>2, <2>11 DEF SessionOK
    <3>2. r.intent = s.intent /\ r.missing = s.missing
      BY <2>5, <3>1 DEF CreationOK
    <3>3. u.seen = t.seen /\ u.step = t.step
      BY <2>5 DEF Told
    <3> QED
      BY <2>5, <3>1, <3>2, <3>3 DEF CreationOK
  <2>12. SessionOK(r, u)
    BY <2>2, <2>8, <2>9, <2>10, <2>11 DEF SessionOK
  <2> QED
    BY <1>1, <2>1, <2>2, <2>3, <2>4, <2>12
<1>5. WaitOK'
  <2>1. SUFFICES ASSUME Waits
                 PROVE  /\ turn.key \in DOMAIN sessions' /\ sessions'[turn.key].kind = "nl"
                        /\ turn.step = sessions'[turn.key].pending[1]
                        /\ turn.pc = "correct" => sessions'[turn.key].retry < MaxRetries
    BY <1>1 DEF WaitOK, Waits, NLStepRunning
  <2>2. PICK s : s = sessions[turn.key]
    OBVIOUS
  <2>3. /\ turn.key \in DOMAIN sessions /\ s.kind = "nl" /\ turn.step = s.pending[1]
        /\ (turn.pc = "correct" => s.retry < MaxRetries) /\ DOMAIN s = {"kind", "pending", "total", "retry", "age"}
    BY <2>1, <2>2, WaitFacts DEF SessionOK, PlanOK
  <2>4. sessions'[turn.key] = [s EXCEPT !.age = Capped(@, SessionTTL + 1)]
    BY <1>1, <2>2, <2>3
  <2>5. /\ sessions'[turn.key].kind = s.kind /\ sessions'[turn.key].pending = s.pending
        /\ sessions'[turn.key].retry = s.retry
    BY <2>3, <2>4
  <2> QED
    BY <1>1, <2>3, <2>5
<1>6. ASSUME NEW k \in DOMAIN sessions' PROVE SessionOK(sessions[k], told[k])'
  <2>1. PICK x, y : x = sessions'[k] /\ y = told'[k]
    OBVIOUS
  <2>2. SessionOK(x, y)
    BY <1>4, <2>1
  <2>3. SessionOK(x, y)'
    BY <1>1, <2>2 DEF SessionOK, PlanOK, StepsOK, Normal, CreationOK, RequiredSecrets
  <2> QED
    BY <2>1, <2>3
<1>7. turn'.pc \in Pcs /\ (turn'.pc # "idle" => turn'.key \in Keys) /\ DOMAIN sessions' \subseteq Keys
      /\ told' = [key \in Keys |-> told'[key]]
  BY <1>1 DEF TalkInv
<1> QED
  BY <1>3, <1>5, <1>6, <1>7 DEF TalkInv, ToldOK

LEMMA NothingToldOK == ToldOK(NothingTold)
  BY DialogAssumption DEF ToldOK, Told, NothingTold

LEMMA TalkCrash ==
    ASSUME Crash
    PROVE  TalkInv'
<1>1. sessions' = <<>> /\ turn' = Idle /\ told' = [key \in Keys |-> NothingTold]
  BY DEF Crash, Start
<1>2. DOMAIN sessions' = {}
  BY <1>1
<1>3. \A key \in Keys : ToldOK(told'[key])
  BY <1>1, NothingToldOK
<1> QED
  BY <1>1, <1>2, <1>3, IdleFacts DEF TalkInv, ToldOK

LEMMA TalkInit ==
    ASSUME Init
    PROVE  TalkInv
<1>1. sessions = <<>> /\ turn = Idle /\ told = [key \in Keys |-> NothingTold]
  BY DEF Init
<1>2. DOMAIN sessions = {} /\ turn.pc = "idle"
  BY <1>1 DEF Idle
<1>3. \A key \in Keys : ToldOK(told[key])
  BY <1>1, NothingToldOK
<1> QED
  BY <1>1, <1>2, <1>3 DEF TalkInv, WaitOK, Waits, NLStepRunning, Pcs

LEMMA TalkArrives ==
    ASSUME ConfOK, TalkInv, Arrives
    PROVE  TalkInv'
<1>1. PICK key \in conf.keys, text \in conf.texts :
       \/ AnswersNo(key, text)       \/ AnswersOther(key, text)
       \/ AnswersYes(key, text)      \/ ConfirmsCreation(key, text)
       \/ KeywordPath(key, text)
       \/ ClassifyRefused(key, text) \/ ClassifyAdmitted(key, text)
  BY DEF Arrives
<1> QED
  BY <1>1, TalkAnswersNo, TalkAnswersOther, TalkAnswersYes, TalkConfirmsCreation, TalkKeywordPath,
     TalkClassifyRefused, TalkClassifyAdmitted

Turn == {"pc", "key", "text", "msg", "provider", "conv", "context"}
\* A command without arguments and flags.
Bare(step) == step.args = <<>> /\ DOMAIN step.flags = {}
TurnOK ==
    /\ turn.pc \in {"sealing", "assemble", "classify"} => DOMAIN turn = Turn
    /\ turn.pc = "reading" => Bare(turn.step)

\* What an answer reads from carries nothing.
LEMMA ReadIsBare ==
    ASSUME NEW action
    PROVE  Bare(ActionKeyToCommand(action, <<>>, <<>>))
<1>1. PICK names : names = PositionalToFlag(action) /\ Len(names) \in Nat
  <2>1. PICK long, none : long = <<"name", "template", "image">> /\ none = <<>>
    OBVIOUS
  <2>2. Len(long) = 3 /\ Len(none) = 0
    BY <2>1
  <2>3. PositionalToFlag(action) = long \/ PositionalToFlag(action) = none
    BY <2>1 DEF PositionalToFlag
  <2> QED
    BY <2>2, <2>3
<1>2. PICK e : e = <<>> /\ Len(e) = 0 /\ DOMAIN e = {}
  OBVIOUS
<1>3. Min({Len(e), Len(names)}) = 0
  BY <1>1, <1>2, MinOfTwo
<1>4. PICK cmd : cmd = Promoted(action, e, e)
  OBVIOUS
<1>5. cmd.args = SubSeq(e, 1, 0) /\ DOMAIN cmd.flags = {}
  <2>1. 1..0 = {} /\ 0 + 1 = 1
    OBVIOUS
  <2> QED
    BY <1>1, <1>2, <1>3, <1>4, <2>1 DEF Promoted
<1>6. DOMAIN cmd.args = {}
  BY <1>2, <1>5
<1>7. PICK step : step = NormaliseIDs(action, cmd)
  OBVIOUS
<1>8. DOMAIN step.args = {} /\ step.args = [i \in DOMAIN step.args |-> step.args[i]] /\ DOMAIN step.flags = {}
  BY <1>5, <1>6, <1>7 DEF NormaliseIDs
<1>9. step.args = <<>>
  BY <1>8
<1>10. Bare(step)
  BY <1>8, <1>9 DEF Bare
<1> QED
  BY <1>2, <1>4, <1>7, <1>10 DEF ActionKeyToCommand

\* A read is begun or returns.
LEMMA ReadTurn ==
    ASSUME NEW resp, ClassifyReads(resp) \/ ReadReturns
    PROVE  /\ turn.pc \in {"classify", "reading"}
           /\ turn' = Idle \/ (turn'.pc = "reading" /\ turn'.key = turn.key /\ Bare(turn'.step))
           /\ UNCHANGED <<conf, runner, ltm, sessions, limiter, provider, left, told, calls>>
<1>1. ASSUME NEW queries, NEW says, turn' = Reading(queries, says)
      PROVE  turn'.pc = "reading" /\ turn'.key = turn.key /\ Bare(turn'.step)
  <2>1. PICK step : step = ActionKeyToCommand(Head(queries), <<>>, <<>>)
    OBVIOUS
  <2>2. Bare(step)
    BY <2>1, ReadIsBare
  <2>3. turn'.pc = "reading" /\ turn'.key = turn.key /\ turn'.step = step
    BY <1>1, <2>1 DEF Reading
  <2> QED
    BY <2>2, <2>3
<1>2. CASE ClassifyReads(resp)
  <2>1. turn.pc = "classify" /\ turn' = Reading(resp.reads, resp.says)
    BY <1>2 DEF ClassifyReads, Accounts
  <2>2. UNCHANGED <<conf, runner, ltm, sessions, limiter, provider, left, told, calls>>
    BY <1>2 DEF ClassifyReads, memoryVars
  <2> QED
    BY <1>1, <2>1, <2>2
<1>3. CASE ReadReturns
  <2>1. turn.pc = "reading" /\ (turn' = Idle \/ \E queries, says : turn' = Reading(queries, says))
    BY <1>3 DEF ReadReturns
  <2>2. UNCHANGED <<conf, runner, ltm, sessions, limiter, provider, left, told, calls>>
    BY <1>3 DEF ReadReturns
  <2> QED
    BY <1>1, <2>1, <2>2
<1> QED
  BY <1>2, <1>3

LEMMA TurnStep ==
    ASSUME TurnOK, [Next]_vars
    PROVE  TurnOK'
<1>1. CASE turn' = turn
  BY <1>1 DEF TurnOK
<1>2. CASE turn' = Idle
  BY <1>2 DEF TurnOK, Idle
<1>3. ASSUME NEW key, NEW step, NEW nl, turn' = Dispatching(key, step, nl) PROVE TurnOK'
  BY <1>3 DEF TurnOK, Dispatching
<1>4. CASE StepInvalid
  BY <1>2, <1>4 DEF TurnOK, StepInvalid
<1>5. ASSUME NEW key, NEW text, ClassifyAdmitted(key, text) PROVE TurnOK'
  <2>1. \E pc \in {"sealing", "assemble", "classify"} : \E msg, provided, sealed, context :
           turn' = [pc |-> pc, key |-> key, text |-> text, msg |-> msg, provider |-> provided,
                    conv |-> sealed, context |-> context]
    BY <1>5 DEF ClassifyAdmitted
  <2>2. DOMAIN turn' = Turn /\ turn'.pc # "reading"
    BY <2>1 DEF Turn
  <2> QED
    BY <2>2 DEF TurnOK, Turn
<1>6. CASE ArchiveSealed \/ AssemblesContext
  <2>1. /\ turn.pc \in {"sealing", "assemble"}
        /\ \E x \in {"assemble", "classify"} : \E y :
              turn' = [turn EXCEPT !.pc = x, !.conv = y] \/ turn' = [turn EXCEPT !.pc = x, !.context = y]
    BY <1>6 DEF ArchiveSealed, AssemblesContext
  <2>2. DOMAIN turn' = Turn /\ turn'.pc # "reading"
    BY <2>1 DEF TurnOK, Turn
  <2> QED
    BY <2>2 DEF TurnOK, Turn
<1>7. ASSUME NEW key, NEW text,
             \/ AnswersNo(key, text)  \/ AnswersOther(key, text) \/ AnswersYes(key, text)
             \/ ConfirmsCreation(key, text) \/ KeywordPath(key, text) \/ ClassifyRefused(key, text)
      PROVE  TurnOK'
  BY <1>1, <1>3, <1>7 DEF AnswersNo, AnswersOther, AnswersYes, ConfirmsCreation, KeywordPath, ClassifyRefused
<1>8. CASE ClassifyDegraded \/ ClassifyUnavailable \/ CreationReturns \/ StepAccepted \/ StepFailed \/ CorrectionFails \/ Crash
  BY <1>2, <1>8 DEF ClassifyDegraded, ClassifyUnavailable, CreationReturns, StepAccepted, StepFailed,
     CorrectionFails, OffersRetry, Crash, Start
<1>9. ASSUME NEW resp, ClassifyAnswered(resp) \/ CorrectionArrives(resp) \/ ClassifyMalformed(resp) PROVE TurnOK'
  BY <1>2, <1>9 DEF ClassifyAnswered, CorrectionArrives, ClassifyMalformed
<1>10. CASE Tick \/ Midnight \/ SecretsChange \/ RunnerSeals \/ RunnerArchives \/ UNCHANGED vars
  BY <1>1, <1>10 DEF Tick, Midnight, SecretsChange, RunnerSeals, RunnerArchives, dialogVars, vars
<1>11. ASSUME NEW resp, ClassifyReads(resp) \/ ReadReturns PROVE TurnOK'
  <2>1. turn' = Idle \/ (turn'.pc = "reading" /\ Bare(turn'.step))
    BY <1>11, ReadTurn
  <2> QED
    BY <1>2, <2>1 DEF TurnOK, Bare
<1> QED
  BY <1>4, <1>5, <1>6, <1>7, <1>8, <1>9, <1>10, <1>11 DEF Next, Arrives, Proceeds, CommandReturns

\* A step of the loop from one wait to the next.
LEMMA TalkWaits ==
    ASSUME TalkInv, UNCHANGED <<conf, sessions, told>>, turn.pc # "idle", turn'.key = turn.key,
           turn'.pc \in {"assemble", "classify", "reading"}
    PROVE  TalkInv'
<1>1. turn'.pc \in Pcs /\ turn'.key \in Keys /\ WaitOK'
  BY NotWaiting DEF TalkInv, Pcs
<1> QED
  BY <1>1, QuietStep

LEMMA TalkProceeds ==
    ASSUME ConfOK, TurnOK, TalkInv, Proceeds \/ CommandReturns
    PROVE  TalkInv'
<1>1. CASE ArchiveSealed
  <2>1. /\ turn.pc = "sealing" /\ UNCHANGED <<conf, sessions, told>>
        /\ turn' = [turn EXCEPT !.pc = "assemble", !.conv = NoConv]
    BY <1>1 DEF ArchiveSealed
  <2>2. turn'.pc = "assemble" /\ turn'.key = turn.key
    BY <2>1 DEF TurnOK, Turn
  <2> QED
    BY <2>1, <2>2, TalkWaits
<1>2. CASE AssemblesContext
  <2>1. /\ turn.pc = "assemble" /\ UNCHANGED <<conf, sessions, told>>
        /\ \E context : turn' = [turn EXCEPT !.pc = "classify", !.context = context]
    BY <1>2 DEF AssemblesContext
  <2>2. turn'.pc = "classify" /\ turn'.key = turn.key
    BY <2>1 DEF TurnOK, Turn
  <2> QED
    BY <2>1, <2>2, TalkWaits
<1>3. CASE ClassifyDegraded \/ CreationReturns
  BY <1>3, IdleFacts, QuietStep DEF ClassifyDegraded, CreationReturns
<1>4. CASE StepFailed \/ CorrectionFails
  BY <1>4, TalkOffersRetry DEF StepFailed, CorrectionFails, Waits
<1>5. ASSUME NEW tokens, ClassifyMalformed(tokens) PROVE TalkInv'
  BY <1>5, IdleFacts, QuietStep DEF ClassifyMalformed
<1>6. ASSUME NEW resp, ClassifyReads(resp) \/ ReadReturns PROVE TalkInv'
  <2>1. /\ UNCHANGED <<conf, sessions, told>> /\ turn.pc # "idle"
        /\ turn' = Idle \/ (turn'.pc = "reading" /\ turn'.key = turn.key)
    BY <1>6, ReadTurn
  <2> QED
    BY <2>1, IdleFacts, QuietStep, TalkWaits
<1> QED
  BY <1>1, <1>2, <1>3, <1>4, <1>5, <1>6, TalkClassifyUnavailable, TalkClassifyAnswered, TalkStepAccepted,
     TalkStepInvalid, TalkCorrectionArrives DEF Proceeds, CommandReturns

LEMMA TalkStep ==
    ASSUME ConfOK, TurnOK, TalkInv, [Next]_vars
    PROVE  TalkInv'
<1>1. ASSUME UNCHANGED <<conf, sessions, told, turn>> PROVE TalkInv'
  <2>1. turn'.pc \in Pcs /\ (turn'.pc # "idle" => turn'.key \in Keys) /\ WaitOK'
    BY <1>1 DEF TalkInv, WaitOK, Waits, NLStepRunning
  <2> QED
    BY <1>1, <2>1, QuietStep
<1>2. Midnight \/ SecretsChange \/ RunnerSeals \/ RunnerArchives \/ UNCHANGED vars
        => UNCHANGED <<conf, sessions, told, turn>>
  BY DEF Midnight, SecretsChange, RunnerSeals, RunnerArchives, SealExpired, ArchiveNext, dialogVars, vars
<1> QED
  BY <1>1, <1>2, TalkArrives, TalkProceeds, TalkTick, TalkCrash DEF Next

-----------------------------------------------------------------------------
(* What follows for the sender.                                            *)

LEMMA PlanIsKept ==
    ASSUME TalkInv
    PROVE  PlanKept
<1>1. SUFFICES ASSUME NEW key \in DOMAIN sessions, sessions[key].kind = "nl"
               PROVE  /\ told[key].accepted = sessions[key].total - Len(sessions[key].pending)
                      /\ Tail(sessions[key].pending) =
                            SubSeq(told[key].plan, told[key].accepted + 2, Len(told[key].plan))
                      /\ sessions[key].retry = 0 => Head(sessions[key].pending) = told[key].plan[told[key].accepted + 1]
  BY DEF PlanKept
<1>2. PICK s, t : s = sessions[key] /\ t = told[key]
  OBVIOUS
<1>3. PlanOK(s, t)
  BY <1>1, <1>2 DEF TalkInv, SessionOK
<1>4. PICK plan, p : plan = t.plan /\ p = s.pending /\ IsSeq(plan) /\ IsSeq(p) /\ p # <<>>
  BY <1>3 DEF PlanOK
<1>5. PICK a \in Nat, n \in Nat, l \in Nat : a = t.accepted /\ n = Len(p) /\ l = Len(plan)
  BY <1>3, <1>4, SeqFacts DEF PlanOK
<1>6. n = l - a /\ s.total = l /\ \A i \in 2..n : p[i] = plan[a + i]
  BY <1>3, <1>4, <1>5 DEF PlanOK
<1>7. n > 0 /\ Head(p) = p[1] /\ (s.retry = 0 => p[1] = plan[a + 1])
  BY <1>3, <1>4, <1>5, TailFacts DEF PlanOK
<1>8. PICK S : plan \in Seq(S)
  BY <1>4 DEF IsSeq
<1>9. PICK sub : sub = SubSeq(plan, a + 2, l)
  OBVIOUS
<1>10. Len(sub) = n - 1 /\ sub = [i \in 1..(n - 1) |-> plan[a + 1 + i]]
  <2>1. l - (a + 2) + 1 = n - 1 /\ n - 1 \in Nat
    BY <1>6, <1>7
  <2>2. sub = [i \in 1..(n - 1) |-> plan[i + (a + 2) - 1]]
    BY <1>9, <2>1 DEF SubSeq
  <2>3. \A i \in 1..(n - 1) : i + (a + 2) - 1 = a + 1 + i
    OBVIOUS
  <2>4. sub = [i \in 1..(n - 1) |-> plan[a + 1 + i]]
    BY <2>2, <2>3
  <2>5. sub = [i \in 1..(n - 1) |-> sub[i]]
    BY <2>4
  <2> QED
    BY <2>1, <2>4, <2>5, MakesSeq
<1>11. PICK tl : tl = Tail(p)
  OBVIOUS
<1>12. IsSeq(tl) /\ Len(tl) = n - 1 /\ \A i \in 1..(n - 1) : tl[i] = p[i + 1]
  BY <1>4, <1>5, <1>11, TailFacts
<1>13. \A i \in 1..(n - 1) : tl[i] = plan[a + 1 + i]
  <2>1. SUFFICES ASSUME NEW i \in 1..(n - 1) PROVE tl[i] = plan[a + 1 + i]
    OBVIOUS
  <2>2. i + 1 \in 2..n /\ a + (i + 1) = a + 1 + i
    OBVIOUS
  <2> QED
    BY <1>6, <1>12, <2>2
<1>14. tl = [i \in 1..(n - 1) |-> tl[i]]
  BY <1>12, SeqFacts
<1>15. tl = sub
  BY <1>10, <1>13, <1>14
<1>16. t.accepted = s.total - Len(s.pending)
  BY <1>4, <1>5, <1>6
<1> QED
  BY <1>2, <1>4, <1>5, <1>7, <1>9, <1>11, <1>15, <1>16

LEMMA TalkImplies ==
    ASSUME TalkInv
    PROVE  PlanKept /\ CorrectionsBounded /\ TopologyNeedsCorrection /\ IdsNormalised
<1>1. CorrectionsBounded
  <2>1. \A key \in Keys : told[key].corrected \in 0..MaxRetries
    BY DEF TalkInv, ToldOK
  <2> QED
    BY <2>1, DialogAssumption DEF CorrectionsBounded
<1>2. TopologyNeedsCorrection
  BY DEF TalkInv, SessionOK, PlanOK, StepsOK, TopologyNeedsCorrection
<1>3. IdsNormalised
  BY DEF TalkInv, SessionOK, StepsOK, Normal, IdsNormalised
<1> QED
  BY <1>1, <1>2, <1>3, PlanIsKept

\* Only an answer dispatches a command.
LEMMA DispatchedBy ==
    ASSUME TurnOK, [Next]_vars, turn'.pc = "dispatch", turn.pc # "dispatch"
    PROVE  \E key \in conf.keys, text \in conf.texts : AnswersYes(key, text) \/ ConfirmsCreation(key, text)
<1>1. turn' # turn /\ turn' # Idle
  BY DEF Idle
<1>2. ~StepInvalid
  BY <1>1 DEF StepInvalid
<1>3. ~ArchiveSealed /\ ~AssemblesContext
  BY DEF ArchiveSealed, AssemblesContext, TurnOK, Turn
<1>4. ASSUME NEW key, NEW text PROVE ~ClassifyAdmitted(key, text)
  BY AdmittedTurn
<1>5. ASSUME NEW key, NEW text
      PROVE  ~(AnswersNo(key, text) \/ AnswersOther(key, text) \/ KeywordPath(key, text) \/ ClassifyRefused(key, text))
  BY <1>1 DEF AnswersNo, AnswersOther, KeywordPath, ClassifyRefused
<1>6. ~(ClassifyDegraded \/ ClassifyUnavailable \/ CreationReturns \/ StepAccepted \/ StepFailed
        \/ CorrectionFails \/ Crash)
  BY <1>1 DEF ClassifyDegraded, ClassifyUnavailable, CreationReturns, StepAccepted, StepFailed,
     CorrectionFails, OffersRetry, Crash, Start
<1>7. ASSUME NEW resp PROVE ~(ClassifyAnswered(resp) \/ CorrectionArrives(resp) \/ ClassifyMalformed(resp))
  BY <1>1 DEF ClassifyAnswered, CorrectionArrives, ClassifyMalformed
<1>8. ~(Tick \/ Midnight \/ SecretsChange \/ RunnerSeals \/ RunnerArchives \/ UNCHANGED vars)
  BY <1>1 DEF Tick, Midnight, SecretsChange, RunnerSeals, RunnerArchives, dialogVars, vars
<1>9. ASSUME NEW resp PROVE ~(ClassifyReads(resp) \/ ReadReturns)
  BY <1>1, ReadTurn
<1> QED
  BY <1>2, <1>3, <1>4, <1>5, <1>6, <1>7, <1>8, <1>9 DEF Next, Arrives, Proceeds, CommandReturns

LEMMA DispatchedIsShown ==
    ASSUME ConfOK, TurnOK, TalkInv, [Next]_vars, turn'.pc = "dispatch", turn.pc # "dispatch"
    PROVE  /\ turn'.step = told[turn'.key].step /\ told[turn'.key].age <= SessionTTL
           /\ ~turn'.nl => \/ turn'.step.flags["template"] \in conf.broken
                          \/ conf.required[turn'.step.flags["template"]] \subseteq told'[turn'.key].seen
<1>1. PICK key \in conf.keys, text \in conf.texts : AnswersYes(key, text) \/ ConfirmsCreation(key, text)
  BY DispatchedBy
<1>2. PICK s, t : s = sessions[key] /\ t = told[key]
  OBVIOUS
<1>3. key \in Keys /\ key \in DOMAIN sessions /\ s.age <= SessionTTL
  BY <1>1, <1>2, KeysOK DEF AnswersYes, ConfirmsCreation, Takes, Live
<1>4. SessionOK(s, t) /\ ToldOK(t) /\ told = [k \in Keys |-> told[k]]
  BY <1>2, <1>3, ToldFacts DEF TalkInv
<1>5. t.age <= SessionTTL
  BY <1>3, <1>4, DialogAssumption DEF SessionOK, ToldOK
<1>6. CASE AnswersYes(key, text)
  <2>1. turn' = Dispatching(key, Head(s.pending), TRUE) /\ s.kind = "nl"
    BY <1>2, <1>6 DEF AnswersYes
  <2>2. Head(s.pending) = t.step
    BY <1>4, <2>1, TailFacts DEF SessionOK, PlanOK
  <2>3. turn'.step = t.step /\ turn'.key = key /\ turn'.nl
    BY <2>1, <2>2 DEF Dispatching
  <2> QED
    BY <1>2, <1>5, <2>3
<1>7. CASE ConfirmsCreation(key, text)
  <2>1. s.kind = "keyword" /\ turn.pc = "idle"
    BY <1>2, <1>7 DEF ConfirmsCreation, Takes
  <2>2. CreationOK(s, t)
    BY <1>4, <2>1 DEF SessionOK
  <2>3. StillMissing(s) = {}
    BY <1>2, <1>7, <2>1 DEF ConfirmsCreation
  <2>4. PICK step : step = CreateCommand(s.intent)
    OBVIOUS
  <2>5. /\ turn' = Dispatching(key, step, FALSE)
        /\ told' = [told EXCEPT ![key].seen = @ \cup (s.missing \cap present)]
    BY <1>2, <1>7, <2>3, <2>4 DEF ConfirmsCreation
  <2>6. turn'.step = step /\ turn'.key = key
    BY <2>5 DEF Dispatching
  <2>7. told'[key].seen = t.seen \cup (s.missing \cap present)
    BY <1>2, <1>3, <1>4, <2>5 DEF ToldOK, Told
  <2>8. s.missing \subseteq present
    BY <2>3 DEF StillMissing
  <2>9. RequiredSecrets(s.intent.template) \subseteq told'[key].seen
    BY <2>2, <2>7, <2>8 DEF CreationOK
  <2>10. step = t.step /\ step.flags["template"] = s.intent.template
    BY <2>2, <2>4 DEF CreationOK, CreateCommand
  <2> QED
    BY <1>2, <1>5, <2>6, <2>9, <2>10 DEF RequiredSecrets
<1> QED
  BY <1>1, <1>6, <1>7

-----------------------------------------------------------------------------
(* The rate limiter.  L are the ages of the calls it counted, C those of   *)
(* the classifications, both by message, when `top` messages were taken.   *)

LimiterOK(L, top) ==
    /\ DOMAIN L \subseteq 1..top /\ \A n \in DOMAIN L : L[n] \in 0..Window
    /\ Cardinality(DOMAIN L) <= conf.limit

CallsOK(C, top) == DOMAIN C \subseteq 1..top /\ \A n \in DOMAIN C : C[n] \in 0..(Window - 1)

\* A classification that is not the first of the window was counted since the first.
Backed(L, C) ==
    /\ \A m, n \in DOMAIN C : m < n => n \in DOMAIN L /\ L[n] <= C[m]
    /\ ~conf.memory => \A n \in DOMAIN C : n \in DOMAIN L /\ L[n] <= C[n]

\* So was message n, which is yet to be classified.
Awaits(L, C, n) == n \in DOMAIN L /\ \A m \in DOMAIN C : m < n /\ L[n] <= C[m]

LEMMA InWindowFacts ==
    ASSUME NEW L, NEW P, P = InWindow(L)
    PROVE  /\ DOMAIN P = {n \in DOMAIN L : L[n] < Window} /\ \A n \in DOMAIN P : P[n] = L[n]
  BY DEF InWindow, Restrict

LEMMA TopFinite ==
    ASSUME NEW top \in Nat, NEW D, D \subseteq 1..top
    PROVE  IsFiniteSet(D) /\ Cardinality(D) \in Nat
<1>1. IsFiniteSet(1..top)
  BY FS_Interval
<1> QED
  BY <1>1, FS_Subset, FS_CardinalityType

LEMMA ConfNumbers ==
    ASSUME ConfOK
    PROVE  /\ conf.messages \in Nat /\ conf.limit \in Nat /\ conf.limit > 0 /\ conf.budget \in Nat /\ conf.budget > 0
           /\ conf.memory \in BOOLEAN
  BY DialogAssumption DEF ConfOK

\* Calls that left the window are forgotten.
LEMMA PruneLimiter ==
    ASSUME ConfOK, NEW top \in Nat, NEW L, LimiterOK(L, top), NEW P, P = InWindow(L)
    PROVE  LimiterOK(P, top) /\ \A n \in DOMAIN P : P[n] < Window
<1>1. /\ DOMAIN P \subseteq DOMAIN L /\ (\A n \in DOMAIN P : P[n] = L[n]) /\ \A n \in DOMAIN P : P[n] < Window
  <2>1. DOMAIN P = {n \in DOMAIN L : L[n] < Window} /\ \A n \in DOMAIN P : P[n] = L[n]
    BY InWindowFacts
  <2> QED
    BY <2>1
<1>2. IsFiniteSet(DOMAIN L) /\ Cardinality(DOMAIN L) \in Nat /\ IsFiniteSet(DOMAIN P) /\ Cardinality(DOMAIN P) \in Nat
  BY <1>1, TopFinite DEF LimiterOK
<1>3. Cardinality(DOMAIN P) <= Cardinality(DOMAIN L)
  BY <1>1, <1>2, FS_Subset
<1>4. conf.limit \in Nat
  BY ConfNumbers
<1> QED
  BY <1>1, <1>2, <1>3, <1>4 DEF LimiterOK

\* What is classified was counted in the window.
LEMMA PruneBacked ==
    ASSUME ConfOK, NEW top \in Nat, NEW L, LimiterOK(L, top), NEW C, CallsOK(C, top), Backed(L, C),
           NEW P, P = InWindow(L)
    PROVE  Backed(P, C)
<1>1. \A n \in DOMAIN L : L[n] < Window => n \in DOMAIN P /\ P[n] = L[n]
  BY InWindowFacts
<1>2. \A n \in DOMAIN C : C[n] \in Nat /\ C[n] < Window
  BY DialogAssumption DEF CallsOK
<1>3. \A n \in DOMAIN L : L[n] \in Nat
  BY DialogAssumption DEF LimiterOK
<1>4. ASSUME NEW m \in DOMAIN C, NEW n \in DOMAIN C, m < n PROVE n \in DOMAIN P /\ P[n] <= C[m]
  <2>1. n \in DOMAIN L /\ L[n] <= C[m]
    BY <1>4 DEF Backed
  <2>2. L[n] < Window
    BY <1>2, <1>3, <2>1, DialogAssumption
  <2> QED
    BY <1>1, <2>1, <2>2
<1>5. ASSUME ~conf.memory, NEW n \in DOMAIN C PROVE n \in DOMAIN P /\ P[n] <= C[n]
  <2>1. n \in DOMAIN L /\ L[n] <= C[n]
    BY <1>5 DEF Backed
  <2>2. L[n] < Window
    BY <1>2, <1>3, <2>1, DialogAssumption
  <2> QED
    BY <1>1, <2>1, <2>2
<1> QED
  BY <1>4, <1>5 DEF Backed

\* A call is counted.
LEMMA CountLimiter ==
    ASSUME ConfOK, NEW top \in Nat, NEW P, LimiterOK(P, top), Cardinality(DOMAIN P) < conf.limit,
           NEW U, U = Updated(P, top + 1, 0)
    PROVE  /\ LimiterOK(U, top + 1) /\ top + 1 \in DOMAIN U /\ U[top + 1] = 0
           /\ \A n \in DOMAIN P : n \in DOMAIN U /\ U[n] = P[n]
<1>1. PICK next \in Nat : next = top + 1
  OBVIOUS
<1>2. next \notin DOMAIN P /\ IsFiniteSet(DOMAIN P) /\ Cardinality(DOMAIN P) \in Nat
  BY <1>1, TopFinite DEF LimiterOK
<1>3. DOMAIN U = DOMAIN P \cup {next} /\ U[next] = 0 /\ \A n \in DOMAIN P : U[n] = P[n]
  BY <1>1, <1>2 DEF Updated
<1>4. Cardinality(DOMAIN U) = Cardinality(DOMAIN P) + 1
  BY <1>2, <1>3, FS_AddElement
<1>5. Cardinality(DOMAIN U) <= conf.limit
  BY <1>2, <1>4, ConfNumbers
<1>6. DOMAIN U \subseteq 1..next
  BY <1>1, <1>3 DEF LimiterOK
<1>7. \A n \in DOMAIN U : U[n] \in 0..Window
  <2>1. 0 \in 0..Window
    BY DialogAssumption
  <2> QED
    BY <1>2, <1>3, <2>1 DEF LimiterOK
<1> QED
  BY <1>1, <1>3, <1>5, <1>6, <1>7 DEF LimiterOK

\* More messages may have been taken.
LEMMA TopGrows ==
    ASSUME NEW top \in Nat, NEW L, NEW C, LimiterOK(L, top), CallsOK(C, top)
    PROVE  LimiterOK(L, top + 1) /\ CallsOK(C, top + 1)
  BY DEF LimiterOK, CallsOK

\* A counted message is classified.
LEMMA ClassifyCalls ==
    ASSUME NEW top \in Nat, NEW L, NEW C, CallsOK(C, top), Backed(L, C), NEW n \in 1..top, Awaits(L, C, n),
           conf.memory \/ L[n] = 0, NEW U, U = Updated(C, n, 0)
    PROVE  CallsOK(U, top) /\ Backed(L, U)
<1>1. n \notin DOMAIN C
  BY DEF Awaits
<1>2. DOMAIN U = DOMAIN C \cup {n} /\ U[n] = 0 /\ \A m \in DOMAIN C : U[m] = C[m]
  BY <1>1 DEF Updated
<1>3. CallsOK(U, top)
  <2>1. 0 \in 0..(Window - 1)
    BY DialogAssumption
  <2> QED
    BY <1>2, <2>1 DEF CallsOK
<1>4. ASSUME NEW a \in DOMAIN U, NEW b \in DOMAIN U, a < b PROVE b \in DOMAIN L /\ L[b] <= U[a]
  <2>1. CASE a = n
    <3>1. b \in DOMAIN C
      BY <1>2, <1>4, <2>1
    <3>2. b < n /\ b \in Int /\ n \in Int
      BY <3>1 DEF Awaits, CallsOK
    <3> QED
      BY <1>4, <2>1, <3>2
  <2>2. CASE a # n /\ b = n
    BY <1>2, <2>2 DEF Awaits
  <2>3. CASE a # n /\ b # n
    BY <1>2, <1>4, <2>3 DEF Backed
  <2> QED
    BY <2>1, <2>2, <2>3
<1>5. ASSUME ~conf.memory, NEW m \in DOMAIN U PROVE m \in DOMAIN L /\ L[m] <= U[m]
  BY <1>2, <1>5 DEF Backed, Awaits
<1> QED
  BY <1>3, <1>4, <1>5 DEF Backed

\* Time passes.
LEMMA TickWindow ==
    ASSUME ConfOK, NEW top \in Nat, NEW L, LimiterOK(L, top), NEW C, CallsOK(C, top),
           NEW M, M = TickAges(L, Window), NEW D, D = InWindow(TickAges(C, Window))
    PROVE  /\ LimiterOK(M, top) /\ CallsOK(D, top) /\ (Backed(L, C) => Backed(M, D))
           /\ \A n : Awaits(L, C, n) => Awaits(M, D, n)
<1>1. Window \in Nat
  BY DialogAssumption
<1>2. DOMAIN M = DOMAIN L /\ \A n \in DOMAIN L : M[n] = Capped(L[n], Window)
  BY DEF TickAges
<1>3. DOMAIN D \subseteq DOMAIN C /\ \A n \in DOMAIN D : D[n] = Capped(C[n], Window) /\ D[n] < Window
  <2>1. PICK E : E = TickAges(C, Window)
    OBVIOUS
  <2>2. DOMAIN E = DOMAIN C /\ \A n \in DOMAIN C : E[n] = Capped(C[n], Window)
    BY <2>1 DEF TickAges
  <2>3. DOMAIN D = {n \in DOMAIN E : E[n] < Window} /\ \A n \in DOMAIN D : D[n] = E[n]
    BY <2>1, InWindowFacts
  <2> QED
    BY <2>2, <2>3
<1>4. \A n \in DOMAIN L : L[n] \in Nat /\ L[n] <= Window
  BY <1>1 DEF LimiterOK
<1>5. \A n \in DOMAIN C : C[n] \in Nat
  BY <1>1 DEF CallsOK
<1>6. ASSUME NEW n \in DOMAIN L PROVE M[n] \in 0..Window
  <2>1. PICK a \in Nat : a = L[n] /\ a <= Window
    BY <1>4
  <2>2. Capped(a, Window) \in Nat /\ Capped(a, Window) <= Window
    BY <1>1, <2>1, CappedFacts
  <2> QED
    BY <1>1, <1>2, <2>1, <2>2
<1>7. ASSUME NEW n \in DOMAIN D PROVE D[n] \in 0..(Window - 1)
  <2>1. PICK a \in Nat : a = C[n]
    BY <1>3, <1>5
  <2>2. Capped(a, Window) \in Nat
    <3>1. a <= a
      OBVIOUS
    <3> QED
      BY <1>1, <3>1, CappedGrows
  <2> QED
    BY <1>1, <1>3, <2>1, <2>2
<1>8. ASSUME NEW n \in DOMAIN L, NEW m \in DOMAIN D, L[n] <= C[m] PROVE M[n] <= D[m]
  <2>1. PICK a \in Nat, b \in Nat : a = L[n] /\ b = C[m] /\ a <= b
    BY <1>3, <1>4, <1>5, <1>8
  <2>2. Capped(a, Window) <= Capped(b, Window)
    BY <1>1, <2>1, CappedGrows
  <2> QED
    BY <1>2, <1>3, <2>1, <2>2
<1>9. LimiterOK(M, top) /\ CallsOK(D, top)
  BY <1>2, <1>3, <1>6, <1>7 DEF LimiterOK, CallsOK
<1>10. ASSUME Backed(L, C) PROVE Backed(M, D)
  <2>1. ASSUME NEW m \in DOMAIN D, NEW n \in DOMAIN D, m < n PROVE n \in DOMAIN M /\ M[n] <= D[m]
    <3>1. n \in DOMAIN L /\ L[n] <= C[m]
      BY <1>3, <1>10, <2>1 DEF Backed
    <3> QED
      BY <1>2, <1>8, <3>1
  <2>2. ASSUME ~conf.memory, NEW n \in DOMAIN D PROVE n \in DOMAIN M /\ M[n] <= D[n]
    <3>1. n \in DOMAIN L /\ L[n] <= C[n]
      BY <1>3, <1>10, <2>2 DEF Backed
    <3> QED
      BY <1>2, <1>8, <3>1
  <2> QED
    BY <2>1, <2>2 DEF Backed
<1>11. ASSUME NEW n, Awaits(L, C, n) PROVE Awaits(M, D, n)
  BY <1>2, <1>3, <1>8, <1>11 DEF Awaits
<1> QED
  BY <1>9, <1>10, <1>11

\* The classifications of a window were counted, but for the first one.
LEMMA CallsBounded ==
    ASSUME ConfOK, NEW top \in Nat, NEW L, LimiterOK(L, top), NEW C, CallsOK(C, top), Backed(L, C)
    PROVE  Cardinality(DOMAIN C) <= conf.limit + IF conf.memory THEN 1 ELSE 0
<1>1. IsFiniteSet(DOMAIN L) /\ Cardinality(DOMAIN L) \in Nat /\ IsFiniteSet(DOMAIN C) /\ Cardinality(DOMAIN C) \in Nat
  BY TopFinite DEF LimiterOK, CallsOK
<1>2. Cardinality(DOMAIN L) <= conf.limit /\ conf.limit \in Nat
  BY ConfNumbers DEF LimiterOK
<1>3. CASE ~conf.memory
  <2>1. DOMAIN C \subseteq DOMAIN L
    BY <1>3 DEF Backed
  <2>2. Cardinality(DOMAIN C) <= Cardinality(DOMAIN L)
    BY <1>1, <2>1, FS_Subset
  <2> QED
    BY <1>1, <1>2, <1>3, <2>2
<1>4. CASE conf.memory /\ DOMAIN C # {}
  <2>1. DOMAIN C \subseteq Nat
    BY DEF CallsOK
  <2>2. PICK m \in DOMAIN C : \A n \in DOMAIN C : m <= n
    BY <1>4, <2>1, LeastExists
  <2>3. PICK R : R = DOMAIN C \ {m}
    OBVIOUS
  <2>4. R \subseteq DOMAIN L
    BY <2>1, <2>2, <2>3 DEF Backed
  <2>5. IsFiniteSet(R) /\ Cardinality(R) \in Nat /\ Cardinality(R) <= Cardinality(DOMAIN L)
    BY <1>1, <2>4, FS_Subset, FS_CardinalityType
  <2>6. Cardinality(R) = Cardinality(DOMAIN C) - 1
    BY <1>1, <2>2, <2>3, FS_RemoveElement
  <2> QED
    BY <1>1, <1>2, <1>4, <2>5, <2>6
<1>5. CASE conf.memory /\ DOMAIN C = {}
  <2>1. Cardinality(DOMAIN C) = 0
    BY <1>5, FS_EmptySet
  <2> QED
    BY <1>2, <1>5, <2>1
<1>6. conf.memory \in BOOLEAN
  BY ConfNumbers
<1> QED
  BY <1>3, <1>4, <1>5, <1>6

-----------------------------------------------------------------------------
(* The window of each sender.                                              *)

Taken == conf.messages - left.messages
Left == {"messages", "secrets", "midnights", "crashes"}

WindowOK(L, C, top) == LimiterOK(L, top) /\ CallsOK(C, top) /\ Backed(L, C)
Recorded == {"sealing", "assemble"}
AwaitsOK(L, C, n, top) == conf.memory /\ n \in 1..top /\ Awaits(L, C, n)

WindowInv ==
    /\ DOMAIN left = Left /\ left.messages \in 0..conf.messages
    /\ limiter = [sender \in Senders |-> limiter[sender]] /\ calls = [sender \in Senders |-> calls[sender]]
    /\ \A sender \in Senders : WindowOK(limiter[sender], calls[sender], Taken)
    /\ turn.pc \in Recorded => AwaitsOK(limiter[turn.key.sender], calls[turn.key.sender], turn.msg.n, Taken)

LEMMA WindowNext ==
    ASSUME conf' = conf, DOMAIN left' = Left, left'.messages \in 0..conf.messages,
           limiter' = [sender \in Senders |-> limiter'[sender]], calls' = [sender \in Senders |-> calls'[sender]],
           NEW top, top = conf.messages - left'.messages,
           \A sender \in Senders : WindowOK(limiter'[sender], calls'[sender], top),
           turn'.pc \in Recorded => AwaitsOK(limiter'[turn'.key.sender], calls'[turn'.key.sender], turn'.msg.n, top)
    PROVE  WindowInv'
<1>1. ASSUME NEW sender \in Senders PROVE WindowOK(limiter[sender], calls[sender], Taken)'
  <2>1. PICK x, y : x = limiter'[sender] /\ y = calls'[sender]
    OBVIOUS
  <2>2. WindowOK(x, y, top)
    BY <2>1
  <2>3. WindowOK(x, y, top)'
    BY <2>2 DEF WindowOK, LimiterOK, CallsOK, Backed
  <2> QED
    BY <2>1, <2>3 DEF Taken
<1>2. ASSUME turn'.pc \in Recorded
      PROVE  AwaitsOK(limiter[turn.key.sender], calls[turn.key.sender], turn.msg.n, Taken)'
  <2>1. PICK x, y, n : x = limiter'[turn'.key.sender] /\ y = calls'[turn'.key.sender] /\ n = turn'.msg.n
    OBVIOUS
  <2>2. AwaitsOK(x, y, n, top)
    BY <1>2, <2>1
  <2>3. AwaitsOK(x, y, n, top)'
    BY <2>2 DEF AwaitsOK, Awaits
  <2> QED
    BY <2>1, <2>3 DEF Taken
<1> QED
  BY <1>1, <1>2 DEF WindowInv, Left, Recorded, Senders

\* A step that neither counts a call nor makes one.
LEMMA WindowQuiet ==
    ASSUME ConfOK, WindowInv, UNCHANGED <<conf, limiter, calls>>, DOMAIN left' = Left, left'.messages = left.messages,
           \/ turn'.pc \notin Recorded
           \/ turn.pc \in Recorded /\ turn'.key = turn.key /\ turn'.msg = turn.msg
    PROVE  WindowInv'
  BY WindowNext DEF WindowInv, Taken

\* A message is taken.
LEMMA TakenGrows ==
    ASSUME ConfOK, WindowInv, NEW key \in conf.keys, NEW text \in conf.texts, Takes(key, text), conf' = conf,
           NEW top, top = Taken
    PROVE  /\ DOMAIN left' = Left /\ left'.messages \in 0..conf.messages /\ top \in Nat
           /\ conf.messages - left'.messages = top + 1 /\ Number = top + 1
           /\ key \in Keys /\ key.sender \in Senders
<1>1. PICK total \in Nat, ahead \in Nat : total = conf.messages /\ ahead = left.messages /\ ahead \in 0..total
  BY ConfNumbers DEF WindowInv
<1>2. DOMAIN left = Left /\ ahead > 0 /\ left' = [left EXCEPT !.messages = @ - 1]
  BY <1>1 DEF WindowInv, Takes
<1>3. DOMAIN left' = Left /\ left'.messages = ahead - 1
  BY <1>1, <1>2 DEF Left
<1>4. key \in Keys /\ key.sender \in Senders
  BY KeysOK DEF Senders
<1> QED
  BY <1>1, <1>2, <1>3, <1>4 DEF Taken, Number

\* A message is taken that is not counted.
LEMMA WindowTaken ==
    ASSUME ConfOK, WindowInv, NEW key \in conf.keys, NEW text \in conf.texts, Takes(key, text),
           UNCHANGED <<conf, limiter, calls>>, turn'.pc \notin Recorded
    PROVE  WindowInv'
<1>1. PICK top : top = Taken
  OBVIOUS
<1>2. /\ DOMAIN left' = Left /\ left'.messages \in 0..conf.messages /\ top \in Nat
      /\ conf.messages - left'.messages = top + 1
  BY <1>1, TakenGrows
<1>3. \A sender \in Senders : WindowOK(limiter'[sender], calls'[sender], top + 1)
  BY <1>1, <1>2, TopGrows DEF WindowInv, WindowOK
<1> QED
  BY <1>2, <1>3, WindowNext DEF WindowInv

\* The sender's calls are looked at, and this one is counted if there is room.
LEMMA CountedFacts ==
    ASSUME ConfOK, WindowInv, NEW key \in conf.keys, NEW text \in conf.texts, MeetsQuotas(key, text), conf' = conf,
           NEW top, top = Taken
    PROVE  /\ top \in Nat /\ limiter' = [sender \in Senders |-> limiter'[sender]]
           /\ \A sender \in Senders : LimiterOK(limiter'[sender], top + 1) /\ Backed(limiter'[sender], calls[sender])
           /\ LimiterAllows(key.sender) => Awaits(limiter'[key.sender], calls[key.sender], top + 1)
                                           /\ limiter'[key.sender][top + 1] = 0
<1>1. Takes(key, text) /\ limiter' = Counted(key.sender)
  BY DEF MeetsQuotas
<1>2. top \in Nat /\ Number = top + 1 /\ key.sender \in Senders
  BY <1>1, TakenGrows
<1>3. PICK me \in Senders : me = key.sender
  BY <1>2
<1>4. PICK L, C, P : L = limiter[me] /\ C = calls[me] /\ P = InWindow(L)
  OBVIOUS
<1>5. LimiterOK(L, top) /\ CallsOK(C, top) /\ Backed(L, C)
  BY <1>4 DEF WindowInv, WindowOK
<1>6. LimiterOK(P, top) /\ Backed(P, C) /\ \A n \in DOMAIN P : P[n] < Window
  BY <1>2, <1>4, <1>5, PruneLimiter, PruneBacked
<1>7. PICK U : U = Updated(P, top + 1, 0)
  OBVIOUS
<1>8. PICK M : M = IF LimiterAllows(me) THEN U ELSE P
  OBVIOUS
<1>9. limiter' = [limiter EXCEPT ![me] = M] /\ limiter = [sender \in Senders |-> limiter[sender]]
  BY <1>1, <1>2, <1>3, <1>4, <1>7, <1>8 DEF Counted, WindowInv
<1>10. /\ limiter' = [sender \in Senders |-> limiter'[sender]] /\ limiter'[me] = M
       /\ \A sender \in Senders \ {me} : limiter'[sender] = limiter[sender]
  BY <1>9
<1>11. LimiterAllows(me) <=> Cardinality(DOMAIN P) < conf.limit
  BY <1>4 DEF LimiterAllows
<1>12. LimiterOK(M, top + 1) /\ Backed(M, C) /\ (LimiterAllows(me) => Awaits(M, C, top + 1) /\ M[top + 1] = 0)
  <2>1. CASE LimiterAllows(me)
    <3>1. /\ LimiterOK(U, top + 1) /\ top + 1 \in DOMAIN U /\ U[top + 1] = 0
          /\ \A n \in DOMAIN P : n \in DOMAIN U /\ U[n] = P[n]
      BY <1>2, <1>6, <1>7, <1>11, <2>1, CountLimiter
    <3>2. Backed(U, C)
      BY <1>6, <3>1 DEF Backed
    <3>3. Awaits(U, C, top + 1)
      <4>1. \A m \in DOMAIN C : m < top + 1 /\ 0 <= C[m]
        BY <1>2, <1>5, DialogAssumption DEF CallsOK
      <4> QED
        BY <3>1, <4>1 DEF Awaits
    <3> QED
      BY <1>8, <2>1, <3>1, <3>2, <3>3
  <2>2. CASE ~LimiterAllows(me)
    BY <1>2, <1>5, <1>6, <1>8, <2>2, TopGrows
  <2> QED
    BY <2>1, <2>2
<1>13. ASSUME NEW sender \in Senders \ {me}
       PROVE  LimiterOK(limiter'[sender], top + 1) /\ Backed(limiter'[sender], calls[sender])
  <2>1. WindowOK(limiter[sender], calls[sender], top)
    BY DEF WindowInv
  <2> QED
    BY <1>2, <1>10, <2>1, TopGrows DEF WindowOK
<1> QED
  BY <1>2, <1>3, <1>4, <1>10, <1>12, <1>13

LEMMA WindowRefused ==
    ASSUME ConfOK, WindowInv, NEW key \in conf.keys, NEW text \in conf.texts, ClassifyRefused(key, text)
    PROVE  WindowInv'
<1>1. PICK top : top = Taken
  OBVIOUS
<1>2. MeetsQuotas(key, text) /\ Takes(key, text) /\ UNCHANGED <<conf, calls, turn>> /\ turn.pc = "idle"
  BY DEF ClassifyRefused, MeetsQuotas, Takes
<1>3. /\ DOMAIN left' = Left /\ left'.messages \in 0..conf.messages /\ top \in Nat
      /\ conf.messages - left'.messages = top + 1
  BY <1>1, <1>2, TakenGrows
<1>4. /\ limiter' = [sender \in Senders |-> limiter'[sender]]
      /\ \A sender \in Senders : LimiterOK(limiter'[sender], top + 1) /\ Backed(limiter'[sender], calls[sender])
  BY <1>1, <1>2, CountedFacts
<1>5. \A sender \in Senders : WindowOK(limiter'[sender], calls'[sender], top + 1)
  <2>1. \A sender \in Senders : LimiterOK(limiter[sender], top) /\ CallsOK(calls[sender], top)
    BY <1>1 DEF WindowInv, WindowOK
  <2> QED
    BY <1>2, <1>3, <1>4, <2>1, TopGrows DEF WindowOK
<1>6. calls' = [sender \in Senders |-> calls'[sender]] /\ turn'.pc \notin Recorded
  BY <1>2 DEF WindowInv, Recorded
<1> QED
  BY <1>2, <1>3, <1>4, <1>5, <1>6, WindowNext

LEMMA WindowAdmitted ==
    ASSUME ConfOK, WindowInv, NEW key \in conf.keys, NEW text \in conf.texts, ClassifyAdmitted(key, text)
    PROVE  WindowInv'
<1>1. PICK top : top = Taken
  OBVIOUS
<1>2. MeetsQuotas(key, text) /\ Takes(key, text) /\ conf' = conf /\ LimiterAllows(key.sender)
  BY DEF ClassifyAdmitted, MeetsQuotas
<1>3. /\ DOMAIN left' = Left /\ left'.messages \in 0..conf.messages /\ top \in Nat
      /\ conf.messages - left'.messages = top + 1 /\ Number = top + 1 /\ key.sender \in Senders
  BY <1>1, <1>2, TakenGrows
<1>4. PICK next \in Nat : next = top + 1
  BY <1>3
<1>5. /\ limiter' = [sender \in Senders |-> limiter'[sender]]
      /\ \A sender \in Senders : LimiterOK(limiter'[sender], next) /\ Backed(limiter'[sender], calls[sender])
      /\ Awaits(limiter'[key.sender], calls[key.sender], next) /\ limiter'[key.sender][next] = 0
  BY <1>1, <1>2, <1>4, CountedFacts
<1>6. \A sender \in Senders : CallsOK(calls[sender], next)
  <2>1. \A sender \in Senders : LimiterOK(limiter[sender], top) /\ CallsOK(calls[sender], top)
    BY <1>1 DEF WindowInv, WindowOK
  <2> QED
    BY <1>3, <1>4, <2>1, TopGrows
<1>7. next \in 1..next /\ turn'.key = key /\ turn'.msg.n = next
  <2>1. turn'.key = key /\ turn'.msg = Message(Number, key, "user", text.size)
    BY AdmittedTurn
  <2>2. next = Number /\ next \in 1..next
    BY <1>3, <1>4
  <2>3. Message(next, key, "user", text.size).n = next
    BY DEF Message
  <2> QED
    BY <2>1, <2>2, <2>3
<1>8. CASE conf.memory
  <2>1. calls' = calls
    BY <1>8 DEF ClassifyAdmitted
  <2>2. \A sender \in Senders : WindowOK(limiter'[sender], calls'[sender], next)
    BY <1>5, <1>6, <2>1 DEF WindowOK
  <2>3. AwaitsOK(limiter'[turn'.key.sender], calls'[turn'.key.sender], turn'.msg.n, next)
    BY <1>5, <1>7, <1>8, <2>1 DEF AwaitsOK
  <2> QED
    BY <1>2, <1>3, <1>4, <1>5, <2>1, <2>2, <2>3, WindowNext DEF WindowInv
<1>9. CASE ~conf.memory
  <2>1. PICK me \in Senders : me = key.sender
    BY <1>3
  <2>2. PICK L, C, U : L = limiter'[me] /\ C = calls[me] /\ U = Updated(C, next, 0)
    OBVIOUS
  <2>3. calls' = [calls EXCEPT ![me] = U] /\ calls = [sender \in Senders |-> calls[sender]]
    BY <1>3, <1>4, <1>9, <2>1, <2>2 DEF ClassifyAdmitted, WindowInv
  <2>4. LimiterOK(L, next) /\ Backed(L, C) /\ Awaits(L, C, next) /\ L[next] = 0 /\ CallsOK(C, next)
    BY <1>5, <1>6, <2>1, <2>2
  <2>5. CallsOK(U, next) /\ Backed(L, U)
    BY <1>7, <2>2, <2>4, ClassifyCalls
  <2>6. calls' = [sender \in Senders |-> calls'[sender]] /\ calls'[me] = U
        /\ \A sender \in Senders \ {me} : calls'[sender] = calls[sender]
    BY <2>3
  <2>7. \A sender \in Senders : WindowOK(limiter'[sender], calls'[sender], next)
    BY <1>5, <1>6, <2>2, <2>4, <2>5, <2>6 DEF WindowOK
  <2>8. turn'.pc \notin Recorded
    BY <1>9, AdmittedTurn DEF Recorded
  <2> QED
    BY <1>2, <1>3, <1>4, <1>5, <2>6, <2>7, <2>8, WindowNext
<1> QED
  BY <1>8, <1>9

LEMMA WindowAssembles ==
    ASSUME ConfOK, TurnOK, TalkInv, WindowInv, AssemblesContext
    PROVE  WindowInv'
<1>1. /\ turn.pc = "assemble" /\ UNCHANGED <<conf, limiter, left>>
      /\ calls' = [calls EXCEPT ![turn.key.sender] = Updated(@, turn.msg.n, 0)]
      /\ \E context : turn' = [turn EXCEPT !.pc = "classify", !.context = context]
  BY DEF AssemblesContext
<1>2. turn'.pc = "classify" /\ turn.key \in Keys
  BY <1>1 DEF TurnOK, Turn, TalkInv
<1>3. PICK me \in Senders : me = turn.key.sender
  BY <1>2 DEF Senders
<1>4. PICK n, L, C, U : n = turn.msg.n /\ L = limiter[me] /\ C = calls[me] /\ U = Updated(C, n, 0)
  OBVIOUS
<1>5. PICK top : top = Taken
  OBVIOUS
<1>6. top \in Nat
  BY <1>5, ConfNumbers DEF WindowInv, Taken
<1>7. /\ conf.memory /\ n \in 1..top /\ Awaits(L, C, n) /\ CallsOK(C, top) /\ Backed(L, C) /\ LimiterOK(L, top)
      /\ calls = [sender \in Senders |-> calls[sender]]
  BY <1>1, <1>3, <1>4, <1>5 DEF WindowInv, Recorded, AwaitsOK, WindowOK
<1>8. CallsOK(U, top) /\ Backed(L, U)
  BY <1>4, <1>6, <1>7, ClassifyCalls
<1>9. /\ calls' = [sender \in Senders |-> calls'[sender]] /\ calls'[me] = U
      /\ \A sender \in Senders \ {me} : calls'[sender] = calls[sender]
  BY <1>1, <1>3, <1>4, <1>7
<1>10. \A sender \in Senders : WindowOK(limiter'[sender], calls'[sender], top)
  BY <1>1, <1>4, <1>5, <1>7, <1>8, <1>9 DEF WindowInv, WindowOK
<1>11. /\ DOMAIN left' = Left /\ left'.messages \in 0..conf.messages /\ top = conf.messages - left'.messages
       /\ limiter' = [sender \in Senders |-> limiter'[sender]] /\ turn'.pc \notin Recorded
  BY <1>1, <1>2, <1>5 DEF WindowInv, Taken, Recorded
<1> QED
  BY <1>1, <1>9, <1>10, <1>11, WindowNext

LEMMA WindowTick ==
    ASSUME ConfOK, TalkInv, WindowInv, Tick
    PROVE  WindowInv'
<1>1. /\ UNCHANGED <<conf, turn, left>>
      /\ limiter' = [sender \in Senders |-> TickAges(limiter[sender], Window)]
      /\ calls' = [sender \in Senders |-> InWindow(TickAges(calls[sender], Window))]
  BY DEF Tick
<1>2. PICK top : top = Taken
  OBVIOUS
<1>3. top \in Nat /\ DOMAIN left' = Left /\ left'.messages \in 0..conf.messages /\ top = conf.messages - left'.messages
  BY <1>1, <1>2, ConfNumbers DEF WindowInv, Taken
<1>4. ASSUME NEW sender \in Senders
      PROVE  /\ WindowOK(limiter'[sender], calls'[sender], top)
             /\ \A n : Awaits(limiter[sender], calls[sender], n) => Awaits(limiter'[sender], calls'[sender], n)
  <2>1. PICK L, C, M, D : L = limiter[sender] /\ C = calls[sender] /\ M = TickAges(L, Window)
                          /\ D = InWindow(TickAges(C, Window))
    OBVIOUS
  <2>2. LimiterOK(L, top) /\ CallsOK(C, top) /\ Backed(L, C)
    BY <1>2, <2>1 DEF WindowInv, WindowOK
  <2>3. LimiterOK(M, top) /\ CallsOK(D, top) /\ Backed(M, D) /\ \A n : Awaits(L, C, n) => Awaits(M, D, n)
    BY <1>3, <2>1, <2>2, TickWindow
  <2>4. M = limiter'[sender] /\ D = calls'[sender]
    BY <1>1, <2>1
  <2> QED
    BY <2>1, <2>3, <2>4 DEF WindowOK
<1>5. ASSUME turn'.pc \in Recorded
      PROVE  AwaitsOK(limiter'[turn'.key.sender], calls'[turn'.key.sender], turn'.msg.n, top)
  <2>1. PICK me : me = turn.key.sender
    OBVIOUS
  <2>2. me \in Senders
    BY <1>1, <1>5, <2>1 DEF TalkInv, Senders, Recorded
  <2>3. AwaitsOK(limiter[me], calls[me], turn.msg.n, top)
    BY <1>1, <1>2, <1>5, <2>1 DEF WindowInv
  <2> QED
    BY <1>1, <1>4, <2>1, <2>2, <2>3 DEF AwaitsOK
<1>6. limiter' = [sender \in Senders |-> limiter'[sender]] /\ calls' = [sender \in Senders |-> calls'[sender]]
  BY <1>1
<1> QED
  BY <1>1, <1>3, <1>4, <1>5, <1>6, WindowNext

LEMMA WindowInit ==
    ASSUME Init
    PROVE  WindowInv
<1>1. /\ ConfOK /\ turn = Idle /\ limiter = [sender \in Senders |-> <<>>] /\ calls = [sender \in Senders |-> <<>>]
      /\ left = [messages |-> conf.messages, secrets |-> conf.secrets, midnights |-> conf.midnights,
                 crashes |-> conf.crashes]
  BY DEF Init, ConfOK
<1>2. WindowOK(<<>>, <<>>, Taken)
  <2>1. DOMAIN <<>> = {}
    OBVIOUS
  <2>2. Cardinality(DOMAIN <<>>) <= conf.limit
    BY <1>1, <2>1, FS_EmptySet, ConfNumbers
  <2> QED
    BY <2>1, <2>2 DEF WindowOK, LimiterOK, CallsOK, Backed
<1>3. DOMAIN left = Left /\ left.messages \in 0..conf.messages
  BY <1>1, ConfNumbers DEF Left
<1>4. turn.pc \notin Recorded
  BY <1>1 DEF Idle, Recorded
<1> QED
  BY <1>1, <1>2, <1>3, <1>4 DEF WindowInv

LEMMA WindowCrash ==
    ASSUME ConfOK, WindowInv, Crash
    PROVE  WindowInv'
<1>1. /\ turn' = Idle /\ limiter' = [sender \in Senders |-> <<>>] /\ calls' = [sender \in Senders |-> <<>>]
      /\ left' = [left EXCEPT !.crashes = @ - 1] /\ conf' = conf
  BY DEF Crash, Start
<1>2. PICK top : top = Taken
  OBVIOUS
<1>3. /\ DOMAIN left' = Left /\ left'.messages = left.messages /\ left'.messages \in 0..conf.messages
      /\ top = conf.messages - left'.messages
  BY <1>1, <1>2 DEF WindowInv, Left, Taken
<1>4. WindowOK(<<>>, <<>>, top)
  <2>1. DOMAIN <<>> = {}
    OBVIOUS
  <2>2. Cardinality(DOMAIN <<>>) <= conf.limit
    BY <2>1, FS_EmptySet, ConfNumbers
  <2> QED
    BY <2>1, <2>2 DEF WindowOK, LimiterOK, CallsOK, Backed
<1>5. /\ turn'.pc \notin Recorded /\ limiter' = [sender \in Senders |-> limiter'[sender]]
      /\ calls' = [sender \in Senders |-> calls'[sender]]
      /\ \A sender \in Senders : WindowOK(limiter'[sender], calls'[sender], top)
  BY <1>1, <1>4 DEF Idle, Recorded
<1> QED
  BY <1>1, <1>3, <1>5, WindowNext

LEMMA WindowStep ==
    ASSUME ConfOK, TurnOK, TalkInv, WindowInv, [Next]_vars
    PROVE  WindowInv'
<1> DOMAIN left = Left
  BY DEF WindowInv
<1>1. ASSUME NEW key \in conf.keys, NEW text \in conf.texts,
             \/ AnswersNo(key, text) \/ AnswersOther(key, text) \/ AnswersYes(key, text)
             \/ ConfirmsCreation(key, text) \/ KeywordPath(key, text)
      PROVE  WindowInv'
  <2>1. Takes(key, text) /\ UNCHANGED <<conf, limiter, calls>> /\ turn.pc = "idle"
    BY <1>1 DEF AnswersNo, AnswersOther, AnswersYes, ConfirmsCreation, KeywordPath, Takes
  <2>2. turn' = turn \/ \E step, nl : turn' = Dispatching(key, step, nl)
    BY <1>1 DEF AnswersNo, AnswersOther, AnswersYes, ConfirmsCreation, KeywordPath
  <2>3. turn'.pc \notin Recorded
    BY <2>1, <2>2 DEF Dispatching, Recorded
  <2> QED
    BY <2>1, <2>3, WindowTaken
<1>2. CASE Arrives
  BY <1>1, <1>2, WindowRefused, WindowAdmitted DEF Arrives
<1>3. CASE ArchiveSealed
  <2>1. /\ turn.pc = "sealing" /\ UNCHANGED <<conf, limiter, calls, left>>
        /\ turn' = [turn EXCEPT !.pc = "assemble", !.conv = NoConv]
    BY <1>3 DEF ArchiveSealed
  <2>2. turn'.key = turn.key /\ turn'.msg = turn.msg /\ turn.pc \in Recorded
    BY <2>1 DEF TurnOK, Turn, Recorded
  <2> QED
    BY <2>1, <2>2, WindowQuiet
<1>4. ASSUME UNCHANGED <<conf, limiter, calls, left>>, turn' = Idle PROVE WindowInv'
  BY <1>4, WindowQuiet DEF Idle, Recorded
<1>5. CASE ClassifyDegraded \/ ClassifyUnavailable \/ CreationReturns \/ StepAccepted \/ StepFailed \/ CorrectionFails
  BY <1>4, <1>5 DEF ClassifyDegraded, ClassifyUnavailable, CreationReturns, StepAccepted, StepFailed,
     CorrectionFails, OffersRetry
<1>6. ASSUME NEW resp, ClassifyAnswered(resp) \/ CorrectionArrives(resp) \/ ClassifyMalformed(resp) PROVE WindowInv'
  BY <1>4, <1>6 DEF ClassifyAnswered, CorrectionArrives, ClassifyMalformed
<1>7. CASE StepInvalid
  <2>1. UNCHANGED <<conf, limiter, calls, left>> /\ turn'.pc \notin Recorded
    BY <1>7 DEF StepInvalid, Idle, Recorded
  <2> QED
    BY <2>1, WindowQuiet
<1>12. ASSUME NEW resp, ClassifyReads(resp) \/ ReadReturns PROVE WindowInv'
  <2>1. UNCHANGED <<conf, limiter, calls, left>> /\ (turn' = Idle \/ turn'.pc = "reading")
    BY <1>12, ReadTurn
  <2>2. turn'.pc \notin Recorded
    BY <2>1 DEF Idle, Recorded
  <2> QED
    BY <2>1, <2>2, WindowQuiet
<1>8. CASE Proceeds \/ CommandReturns
  BY <1>3, <1>5, <1>6, <1>7, <1>8, <1>12, WindowAssembles DEF Proceeds, CommandReturns
<1>9. ASSUME UNCHANGED <<conf, turn, limiter, calls>>, DOMAIN left' = Left, left'.messages = left.messages
      PROVE  WindowInv'
  BY <1>9, WindowQuiet
<1>10. CASE Midnight \/ SecretsChange
  <2>1. \/ left' = [left EXCEPT !.midnights = @ - 1] \/ left' = [left EXCEPT !.secrets = @ - 1]
    BY <1>10 DEF Midnight, SecretsChange
  <2>2. DOMAIN left' = Left /\ left'.messages = left.messages
    BY <2>1 DEF Left
  <2> QED
    BY <1>9, <1>10, <2>2 DEF Midnight, SecretsChange
<1>11. CASE RunnerSeals \/ RunnerArchives \/ UNCHANGED vars
  BY <1>9, <1>11 DEF RunnerSeals, RunnerArchives, SealExpired, ArchiveNext, dialogVars, vars
<1> QED
  BY <1>2, <1>8, <1>10, <1>11, WindowTick, WindowCrash DEF Next

LEMMA WindowImplies ==
    ASSUME ConfOK, WindowInv
    PROVE  CallsWithinWindow /\ \A sender \in Senders : Cardinality(DOMAIN limiter[sender]) <= conf.limit
<1>1. PICK top : top = Taken
  OBVIOUS
<1>2. top \in Nat
  BY <1>1, ConfNumbers DEF WindowInv, Taken
<1>3. ASSUME NEW sender \in Senders
      PROVE  /\ Cardinality(DOMAIN calls[sender]) <= conf.limit + IF conf.memory THEN 1 ELSE 0
             /\ Cardinality(DOMAIN limiter[sender]) <= conf.limit
  <2>1. PICK L, C : L = limiter[sender] /\ C = calls[sender]
    OBVIOUS
  <2>2. LimiterOK(L, top) /\ CallsOK(C, top) /\ Backed(L, C)
    BY <1>1, <2>1 DEF WindowInv, WindowOK
  <2>3. Cardinality(DOMAIN C) <= conf.limit + IF conf.memory THEN 1 ELSE 0
    BY <1>2, <2>2, CallsBounded
  <2> QED
    BY <2>1, <2>2, <2>3 DEF LimiterOK
<1> QED
  BY <1>3 DEF CallsWithinWindow

-----------------------------------------------------------------------------
(* The daily budget.                                                       *)

\* What was spent since midnight is what the next call finds in the account.
UsageOK(u, t) ==
    /\ DOMAIN u = {"tokens", "over"} /\ u.tokens \in Nat /\ t \in Nat
    /\ t = IF u.over THEN 0 ELSE u.tokens

Admitted == {"sealing", "assemble", "classify"}

SpentOK(p) == p.used \in Nat /\ p.unread \in Nat

BudgetInv ==
    /\ usage = [sender \in Senders |-> usage[sender]] /\ spent = [sender \in Senders |-> spent[sender]]
    /\ \A sender \in Senders : UsageOK(usage[sender], Accounted(sender)) /\ SpentOK(spent[sender])
    /\ turn.pc \in Admitted => Accounted(turn.key.sender) < conf.budget
    /\ SpentWithinBudget

LEMMA ResetFacts ==
    ASSUME NEW u, NEW t, UsageOK(u, t)
    PROVE  /\ ResetIfNeeded(u).tokens = t /\ UsageOK(ResetIfNeeded(u), t)
           /\ ResetIfNeeded(u) = [tokens |-> t, over |-> FALSE] \/ (ResetIfNeeded(u) = u /\ ~u.over)
<1>1. CASE u.over
  <2>1. ResetIfNeeded(u) = [tokens |-> 0, over |-> FALSE] /\ t = 0
    BY <1>1 DEF ResetIfNeeded, UsageOK
  <2>2. PICK r : r = [tokens |-> 0, over |-> FALSE]
    OBVIOUS
  <2>3. UsageOK(r, 0)
    BY <2>2 DEF UsageOK
  <2> QED
    BY <2>1, <2>2, <2>3
<1>2. CASE ~u.over
  <2>1. PICK r : r = ResetIfNeeded(u)
    OBVIOUS
  <2>2. r = u /\ t = u.tokens
    BY <1>2, <2>1 DEF ResetIfNeeded, UsageOK
  <2>3. r.tokens = t /\ UsageOK(r, t) /\ r = u
    BY <2>2
  <2> QED
    BY <1>2, <2>1, <2>3
<1> QED
  BY <1>1, <1>2

\* What is accounted after the step.
After(sender) == spent'[sender].used - spent'[sender].unread

LEMMA BudgetNext ==
    ASSUME conf' = conf,
           usage' = [sender \in Senders |-> usage'[sender]], spent' = [sender \in Senders |-> spent'[sender]],
           \A sender \in Senders : UsageOK(usage'[sender], After(sender)) /\ SpentOK(spent'[sender]),
           \A sender \in Senders :
              After(sender) < conf.budget \/ \E resp \in conf.answers : After(sender) < conf.budget + resp.tokens,
           turn'.pc \in Admitted => After(turn'.key.sender) < conf.budget
    PROVE  BudgetInv'
<1>1. ASSUME NEW sender \in Senders PROVE UsageOK(usage[sender], Accounted(sender))'
  <2>1. PICK x, y : x = usage'[sender] /\ y = After(sender)
    OBVIOUS
  <2>2. UsageOK(x, y)
    BY <2>1
  <2>3. UsageOK(x, y)'
    BY <2>2 DEF UsageOK
  <2>4. Accounted(sender)' = y
    BY <2>1 DEF Accounted, After
  <2> QED
    BY <2>1, <2>3, <2>4
<1>2. SpentWithinBudget'
  BY DEF SpentWithinBudget, Senders, Accounted, After
<1>3. \A sender \in Senders : SpentOK(spent[sender])'
  BY DEF SpentOK
<1>4. turn'.pc \in Admitted => (Accounted(turn.key.sender) < conf.budget)'
  BY DEF Accounted, After
<1> QED
  BY <1>1, <1>2, <1>3, <1>4 DEF BudgetInv, Admitted, Senders

\* A step that accounts nothing.
LEMMA BudgetQuiet ==
    ASSUME BudgetInv, conf' = conf, usage' = [sender \in Senders |-> usage'[sender]],
           spent' = [sender \in Senders |-> spent'[sender]],
           \A sender \in Senders : SpentOK(spent'[sender]) /\ After(sender) = Accounted(sender),
           \A sender \in Senders : UsageOK(usage'[sender], Accounted(sender)),
           turn'.pc \in Admitted => turn'.key.sender \in Senders /\ Accounted(turn'.key.sender) < conf.budget
    PROVE  BudgetInv'
<1>1. \A sender \in Senders :
         After(sender) < conf.budget \/ \E resp \in conf.answers : After(sender) < conf.budget + resp.tokens
  BY DEF BudgetInv, SpentWithinBudget
<1> QED
  BY <1>1, BudgetNext

\* A step that spends nothing.
LEMMA BudgetUnspent ==
    ASSUME BudgetInv, UNCHANGED <<conf, spent>>, usage' = [sender \in Senders |-> usage'[sender]],
           \A sender \in Senders : UsageOK(usage'[sender], Accounted(sender)),
           turn'.pc \in Admitted => turn'.key.sender \in Senders /\ Accounted(turn'.key.sender) < conf.budget
    PROVE  BudgetInv'
<1>1. /\ spent' = [sender \in Senders |-> spent'[sender]]
      /\ \A sender \in Senders : SpentOK(spent'[sender]) /\ After(sender) = Accounted(sender)
  BY DEF BudgetInv, After, Accounted
<1> QED
  BY <1>1, BudgetQuiet

LEMMA BudgetSame ==
    ASSUME TalkInv, BudgetInv, UNCHANGED <<conf, spent, usage>>,
           turn'.pc \notin Admitted \/ (turn.pc \in Admitted /\ turn'.key = turn.key)
    PROVE  BudgetInv'
<1>1. turn.pc \in Admitted => turn.key.sender \in Senders
  BY DEF TalkInv, Admitted, Senders
<1> QED
  BY <1>1, BudgetUnspent DEF BudgetInv

LEMMA UsageReset ==
    ASSUME ConfOK, BudgetInv, NEW key \in conf.keys, NEW text, MeetsQuotas(key, text)
    PROVE  /\ usage' = [sender \in Senders |-> usage'[sender]]
           /\ \A sender \in Senders : UsageOK(usage'[sender], Accounted(sender))
           /\ BudgetAllows(key.sender) => Accounted(key.sender) < conf.budget
<1>1. PICK me \in Senders : me = key.sender
  BY KeysOK DEF Senders
<1>2. PICK u, t, r : u = usage[me] /\ t = Accounted(me) /\ r = ResetIfNeeded(u)
  OBVIOUS
<1>3. UsageOK(u, t) /\ usage = [sender \in Senders |-> usage[sender]]
  BY <1>2 DEF BudgetInv
<1>4. r.tokens = t /\ UsageOK(r, t)
  BY <1>2, <1>3, ResetFacts
<1>5. usage' = usage \/ usage' = [usage EXCEPT ![me] = r]
  BY <1>1, <1>2 DEF MeetsQuotas
<1> QED
  BY <1>1, <1>2, <1>3, <1>4, <1>5 DEF BudgetInv, BudgetAllows

LEMMA BudgetAccounts ==
    ASSUME ConfOK, TalkInv, BudgetInv, NEW resp \in conf.answers, Accounts(resp), conf' = conf,
           turn'.pc \notin Admitted
    PROVE  BudgetInv'
<1>1. /\ turn.pc = "classify" /\ RecordUsage(turn.key.sender, resp.tokens)
      /\ spent' = [spent EXCEPT ![turn.key.sender] = [used |-> @.used + resp.tokens, unread |-> @.unread]]
  BY DEF Accounts
<1>2. PICK me \in Senders : me = turn.key.sender
  BY <1>1 DEF TalkInv, Senders
<1>3. PICK n \in Nat : n = resp.tokens
  BY DialogAssumption DEF ConfOK
<1>4. PICK u, t, r : u = usage[me] /\ t = Accounted(me) /\ r = ResetIfNeeded(u)
  OBVIOUS
<1>5. /\ UsageOK(u, t) /\ usage = [sender \in Senders |-> usage[sender]]
      /\ spent = [sender \in Senders |-> spent[sender]] /\ t < conf.budget /\ SpentOK(spent[me])
  BY <1>1, <1>2, <1>4 DEF BudgetInv, Admitted
<1>6. r.tokens = t /\ UsageOK(r, t) /\ ~r.over
  <2>1. r.tokens = t /\ UsageOK(r, t) /\ (r = [tokens |-> t, over |-> FALSE] \/ (r = u /\ ~u.over))
    BY <1>4, <1>5, ResetFacts
  <2> QED
    BY <2>1
<1>7. PICK v : v = [r EXCEPT !.tokens = @ + n]
  OBVIOUS
<1>8. PICK a \in Nat, b \in Nat : a = spent[me].used /\ b = spent[me].unread
  BY <1>5 DEF SpentOK
<1>9. PICK p : p = [used |-> a + n, unread |-> b]
  OBVIOUS
<1>10. usage' = [usage EXCEPT ![me] = v] /\ spent' = [spent EXCEPT ![me] = p]
  <2>1. usage' = [usage EXCEPT ![me] = v]
    BY <1>1, <1>2, <1>3, <1>4, <1>7 DEF RecordUsage
  <2>2. spent' = [spent EXCEPT ![me] = p]
    BY <1>1, <1>2, <1>3, <1>8, <1>9
  <2> QED
    BY <2>1, <2>2
<1>11. t \in Nat /\ DOMAIN r = {"tokens", "over"} /\ t = a - b
  BY <1>4, <1>6, <1>8 DEF UsageOK, Accounted
<1>12. v.tokens = t + n /\ DOMAIN v = {"tokens", "over"} /\ v.over = r.over
  BY <1>6, <1>7, <1>11
<1>13. UsageOK(v, t + n)
  BY <1>3, <1>6, <1>11, <1>12 DEF UsageOK
<1>14. /\ usage' = [sender \in Senders |-> usage'[sender]] /\ usage'[me] = v
       /\ \A sender \in Senders \ {me} : usage'[sender] = usage[sender]
  BY <1>5, <1>10
<1>15. /\ spent' = [sender \in Senders |-> spent'[sender]] /\ spent'[me] = p
       /\ \A sender \in Senders \ {me} : spent'[sender] = spent[sender]
  BY <1>5, <1>10
<1>16. p.used = a + n /\ p.unread = b
  BY <1>9
<1>17. After(me) = t + n /\ SpentOK(p)
  BY <1>11, <1>15, <1>16 DEF After, SpentOK
<1>18. \A sender \in Senders \ {me} : After(sender) = Accounted(sender)
  BY <1>15 DEF After, Accounted
<1>19. t + n < conf.budget + resp.tokens
  BY <1>3, <1>5, <1>11, ConfNumbers
<1>20. \A sender \in Senders :
          After(sender) < conf.budget \/ \E x \in conf.answers : After(sender) < conf.budget + x.tokens
  <2>1. ASSUME NEW sender \in Senders \ {me}
        PROVE  After(sender) < conf.budget \/ \E x \in conf.answers : After(sender) < conf.budget + x.tokens
    BY <1>18 DEF BudgetInv, SpentWithinBudget
  <2>2. After(me) < conf.budget + resp.tokens
    BY <1>17, <1>19
  <2> QED
    BY <2>1, <2>2
<1>21. \A sender \in Senders : UsageOK(usage'[sender], After(sender)) /\ SpentOK(spent'[sender])
  BY <1>13, <1>14, <1>15, <1>17, <1>18 DEF BudgetInv
<1> QED
  BY <1>14, <1>15, <1>20, <1>21, BudgetNext

\* The tokens of an answer that cannot be read are used and not accounted.
LEMMA BudgetMalformed ==
    ASSUME ConfOK, TalkInv, BudgetInv, NEW tokens \in conf.malformed, ClassifyMalformed(tokens)
    PROVE  BudgetInv'
<1>1. /\ turn.pc = "classify" /\ turn' = Idle /\ UNCHANGED <<conf, usage>>
      /\ spent' = [spent EXCEPT ![turn.key.sender] = [used |-> @.used + tokens, unread |-> @.unread + tokens]]
  BY DEF ClassifyMalformed
<1>2. PICK me \in Senders : me = turn.key.sender
  BY <1>1 DEF TalkInv, Senders
<1>3. tokens \in Nat
  BY DialogAssumption DEF ConfOK
<1>4. PICK a \in Nat, b \in Nat : a = spent[me].used /\ b = spent[me].unread
  BY DEF BudgetInv, SpentOK
<1>5. PICK p : p = [used |-> a + tokens, unread |-> b + tokens]
  OBVIOUS
<1>6. spent' = [spent EXCEPT ![me] = p] /\ spent = [sender \in Senders |-> spent[sender]]
  BY <1>1, <1>2, <1>4, <1>5 DEF BudgetInv
<1>7. /\ spent' = [sender \in Senders |-> spent'[sender]] /\ spent'[me] = p
      /\ \A sender \in Senders \ {me} : spent'[sender] = spent[sender]
  BY <1>6
<1>8. p.used = a + tokens /\ p.unread = b + tokens /\ (a + tokens) - (b + tokens) = a - b
  BY <1>3, <1>5
<1>9. SpentOK(p) /\ After(me) = Accounted(me)
  BY <1>3, <1>4, <1>7, <1>8 DEF SpentOK, After, Accounted
<1>10. \A sender \in Senders : SpentOK(spent'[sender]) /\ After(sender) = Accounted(sender)
  BY <1>7, <1>9 DEF BudgetInv, After, Accounted
<1>11. turn'.pc \notin Admitted
  BY <1>1 DEF Idle, Admitted
<1> QED
  BY <1>1, <1>7, <1>10, <1>11, BudgetQuiet DEF BudgetInv

LEMMA BudgetMidnight ==
    ASSUME ConfOK, TalkInv, BudgetInv, Midnight
    PROVE  BudgetInv'
<1>1. /\ usage' = [sender \in Senders |-> [usage[sender] EXCEPT !.over = usage[sender].tokens > 0]]
      /\ spent' = [sender \in Senders |-> NothingSpent] /\ UNCHANGED <<conf, turn>>
  BY DEF Midnight
<1>0. \A sender \in Senders : After(sender) = 0 /\ SpentOK(spent'[sender])
  BY <1>1 DEF NothingSpent, After, SpentOK
<1>2. ASSUME NEW sender \in Senders PROVE UsageOK(usage'[sender], After(sender))
  <2>1. PICK u, t : u = usage[sender] /\ t = Accounted(sender)
    OBVIOUS
  <2>2. UsageOK(u, t)
    BY <2>1 DEF BudgetInv
  <2>3. PICK n \in Nat : n = u.tokens
    BY <2>2 DEF UsageOK
  <2>4. PICK b \in BOOLEAN : b <=> n > 0
    <3>1. CASE n > 0
      BY <3>1
    <3>2. CASE ~(n > 0)
      BY <3>2
    <3> QED
      BY <3>1, <3>2
  <2>5. PICK v : v = [u EXCEPT !.over = b]
    OBVIOUS
  <2>6. usage'[sender] = v /\ After(sender) = 0
    BY <1>0, <1>1, <2>1, <2>3, <2>4, <2>5
  <2>7. DOMAIN v = {"tokens", "over"} /\ v.tokens = n /\ v.over = b
    BY <2>2, <2>3, <2>5 DEF UsageOK
  <2>8. UsageOK(v, 0)
    <3>1. CASE n > 0
      BY <2>3, <2>4, <2>7, <3>1 DEF UsageOK
    <3>2. CASE n = 0
      BY <2>3, <2>4, <2>7, <3>2 DEF UsageOK
    <3> QED
      BY <3>1, <3>2
  <2> QED
    BY <2>6, <2>8
<1>3. /\ usage' = [sender \in Senders |-> usage'[sender]] /\ spent' = [sender \in Senders |-> spent'[sender]]
      /\ \A sender \in Senders : After(sender) < conf.budget
  BY <1>0, <1>1, ConfNumbers
<1>4. turn'.pc \in Admitted => After(turn'.key.sender) < conf.budget
  BY <1>1, <1>3 DEF TalkInv, Senders, Admitted
<1> QED
  BY <1>0, <1>1, <1>2, <1>3, <1>4, BudgetNext

LEMMA FreshBudget ==
    ASSUME ConfOK, NEW u, NEW p, u = [sender \in Senders |-> [tokens |-> 0, over |-> FALSE]],
           p = [sender \in Senders |-> NothingSpent]
    PROVE  /\ u = [sender \in Senders |-> u[sender]] /\ p = [sender \in Senders |-> p[sender]]
           /\ \A sender \in Senders :
                 /\ UsageOK(u[sender], 0) /\ SpentOK(p[sender]) /\ p[sender].used - p[sender].unread = 0
                 /\ 0 < conf.budget
<1>1. UsageOK([tokens |-> 0, over |-> FALSE], 0) /\ 0 < conf.budget
  BY ConfNumbers DEF UsageOK
<1>2. SpentOK(NothingSpent) /\ NothingSpent.used - NothingSpent.unread = 0
  BY DEF SpentOK, NothingSpent
<1> QED
  BY <1>1, <1>2

LEMMA BudgetInit ==
    ASSUME Init
    PROVE  BudgetInv
<1>1. /\ ConfOK /\ turn.pc = "idle"
      /\ usage = [sender \in Senders |-> [tokens |-> 0, over |-> FALSE]]
      /\ spent = [sender \in Senders |-> NothingSpent]
  BY DEF Init, Idle, ConfOK
<1>2. /\ usage = [sender \in Senders |-> usage[sender]] /\ spent = [sender \in Senders |-> spent[sender]]
      /\ \A sender \in Senders :
            UsageOK(usage[sender], 0) /\ SpentOK(spent[sender]) /\ Accounted(sender) = 0 /\ 0 < conf.budget
  BY <1>1, FreshBudget DEF Accounted
<1> QED
  BY <1>1, <1>2 DEF BudgetInv, Admitted, SpentWithinBudget

LEMMA BudgetStep ==
    ASSUME ConfOK, TurnOK, TalkInv, BudgetInv, [Next]_vars
    PROVE  BudgetInv'
<1>1. ASSUME NEW key \in conf.keys, NEW text \in conf.texts,
             \/ AnswersNo(key, text) \/ AnswersOther(key, text) \/ AnswersYes(key, text)
             \/ ConfirmsCreation(key, text) \/ KeywordPath(key, text)
      PROVE  BudgetInv'
  <2>1. UNCHANGED <<conf, usage, spent>> /\ turn.pc = "idle"
    BY <1>1 DEF AnswersNo, AnswersOther, AnswersYes, ConfirmsCreation, KeywordPath, Takes
  <2>2. turn' = turn \/ \E step, nl : turn' = Dispatching(key, step, nl)
    BY <1>1 DEF AnswersNo, AnswersOther, AnswersYes, ConfirmsCreation, KeywordPath
  <2>3. turn'.pc \notin Admitted
    BY <2>1, <2>2 DEF Dispatching, Admitted
  <2> QED
    BY <2>1, <2>3, BudgetSame
<1>2. ASSUME NEW key \in conf.keys, NEW text \in conf.texts, ClassifyRefused(key, text) PROVE BudgetInv'
  <2>1. MeetsQuotas(key, text) /\ UNCHANGED <<conf, spent>> /\ turn'.pc \notin Admitted
    BY <1>2 DEF ClassifyRefused, MeetsQuotas, Takes, Admitted
  <2> QED
    BY <2>1, UsageReset, BudgetUnspent
<1>3. ASSUME NEW key \in conf.keys, NEW text \in conf.texts, ClassifyAdmitted(key, text) PROVE BudgetInv'
  <2>1. /\ MeetsQuotas(key, text) /\ UNCHANGED <<conf, spent>> /\ BudgetAllows(key.sender) /\ turn'.key = key
        /\ key.sender \in Senders
    BY <1>3, AdmittedTurn, KeysOK DEF ClassifyAdmitted, Senders
  <2> QED
    BY <2>1, UsageReset, BudgetUnspent
<1>4. CASE Arrives
  BY <1>1, <1>2, <1>3, <1>4 DEF Arrives
<1>5. CASE ArchiveSealed \/ AssemblesContext
  <2>1. /\ turn.pc \in {"sealing", "assemble"} /\ UNCHANGED <<conf, usage, spent>>
        /\ \E x, y : turn' = [turn EXCEPT !.pc = x, !.conv = y] \/ turn' = [turn EXCEPT !.pc = x, !.context = y]
    BY <1>5 DEF ArchiveSealed, AssemblesContext
  <2>2. turn'.key = turn.key /\ turn.pc \in Admitted
    BY <2>1 DEF TurnOK, Turn, Admitted
  <2> QED
    BY <2>1, <2>2, BudgetSame
<1>6. ASSUME UNCHANGED <<conf, usage, spent>>, turn' = Idle PROVE BudgetInv'
  BY <1>6, BudgetSame DEF Idle, Admitted
<1>7. CASE ClassifyDegraded \/ ClassifyUnavailable \/ CreationReturns \/ StepAccepted \/ StepFailed \/ CorrectionFails
  BY <1>6, <1>7 DEF ClassifyDegraded, ClassifyUnavailable, CreationReturns, StepAccepted, StepFailed,
     CorrectionFails, OffersRetry
<1>8. ASSUME NEW resp, CorrectionArrives(resp) PROVE BudgetInv'
  BY <1>6, <1>8 DEF CorrectionArrives
<1>9. CASE StepInvalid
  <2>1. UNCHANGED <<conf, usage, spent>> /\ turn'.pc \notin Admitted
    BY <1>9 DEF StepInvalid, Idle, Admitted
  <2> QED
    BY <2>1, BudgetSame
<1>13. ASSUME NEW resp \in conf.answers, ClassifyAnswered(resp) \/ ClassifyReads(resp) PROVE BudgetInv'
  <2>1. Accounts(resp) /\ conf' = conf /\ (turn' = Idle \/ turn'.pc = "reading")
    BY <1>13 DEF ClassifyAnswered, ClassifyReads, Reading
  <2>2. turn'.pc \notin Admitted
    BY <2>1 DEF Idle, Admitted
  <2> QED
    BY <2>1, <2>2, BudgetAccounts
<1>14. CASE ReadReturns
  <2>1. UNCHANGED <<conf, usage, spent>> /\ (turn' = Idle \/ turn'.pc = "reading")
    BY <1>14 DEF ReadReturns, Reading
  <2>2. turn'.pc \notin Admitted
    BY <2>1 DEF Idle, Admitted
  <2> QED
    BY <2>1, <2>2, BudgetSame
<1>10. CASE Proceeds \/ CommandReturns
  BY <1>5, <1>7, <1>8, <1>9, <1>10, <1>13, <1>14, BudgetMalformed DEF Proceeds, CommandReturns
<1>11. CASE Tick \/ SecretsChange \/ RunnerSeals \/ RunnerArchives \/ UNCHANGED vars
  BY <1>11, BudgetSame DEF Tick, SecretsChange, RunnerSeals, RunnerArchives, SealExpired, ArchiveNext, dialogVars, vars
<1>12. CASE Crash
  <2>1. /\ conf' = conf /\ turn' = Idle /\ spent' = [sender \in Senders |-> NothingSpent]
        /\ usage' = [sender \in Senders |-> [tokens |-> 0, over |-> FALSE]]
    BY <1>12 DEF Crash, Start
  <2>2. turn'.pc \notin Admitted
    BY <2>1 DEF Idle, Admitted
  <2>3. /\ usage' = [sender \in Senders |-> usage'[sender]] /\ spent' = [sender \in Senders |-> spent'[sender]]
        /\ \A sender \in Senders :
              UsageOK(usage'[sender], 0) /\ SpentOK(spent'[sender]) /\ After(sender) = 0 /\ 0 < conf.budget
    BY <2>1, FreshBudget DEF After
  <2> QED
    BY <2>1, <2>2, <2>3, BudgetNext
<1> QED
  BY <1>4, <1>10, <1>11, <1>12, BudgetMidnight DEF Next

-----------------------------------------------------------------------------
(* Buffers of messages.                                                    *)

LEMMA MaxMember ==
    ASSUME NEW S, S \subseteq Nat, S # {}, NEW n \in Nat, \A x \in S : x <= n
    PROVE  Max(S) \in S /\ \A y \in S : y <= Max(S)
<1>1. PICK U : U = {u \in Nat : \A x \in S : x <= u}
  OBVIOUS
<1>2. U \subseteq Nat /\ n \in U
  BY <1>1
<1>3. PICK u \in U : \A v \in U : u <= v
  BY <1>2, LeastExists
<1>4. u \in Nat /\ \A x \in S : x <= u
  BY <1>1
<1>5. u \in S
  <2>1. SUFFICES ASSUME u \notin S PROVE FALSE
    OBVIOUS
  <2>2. PICK x \in S : TRUE
    OBVIOUS
  <2>3. u > 0
    BY <1>4, <2>1, <2>2
  <2>4. \A y \in S : y <= u - 1
    BY <1>4, <2>1
  <2>5. u - 1 \in U
    BY <1>1, <1>4, <2>3, <2>4
  <2> QED
    BY <1>3, <1>4, <2>5
<1>6. u \in S /\ \A y \in S : u >= y
  BY <1>4, <1>5
<1>7. Max(S) \in S /\ \A y \in S : Max(S) >= y
  BY <1>6 DEF Max
<1> QED
  BY <1>7

LEMMA SeqIsSeq ==
    ASSUME NEW S, NEW s \in Seq(S)
    PROVE  IsSeq(s)
<1>1. Len(s) \in Nat /\ s \in [1..Len(s) -> Range(s)]
  BY DEF Range
<1> QED
  BY <1>1 DEF IsSeq

\* r are the n elements of s after the first k.
Slice(r, s, k, n) == IsSeq(r) /\ Len(r) = n /\ \A i \in 1..n : r[i] = s[k + i]

LEMMA SubSeqFacts ==
    ASSUME NEW s, IsSeq(s), NEW k \in Nat, NEW n \in Nat, k + n <= Len(s), NEW a, a = k + 1, NEW b, b = k + n,
           NEW r, r = SubSeq(s, a, b)
    PROVE  Slice(r, s, k, n)
<1>1. Len(s) \in Nat /\ DOMAIN s = 1..Len(s)
  BY SeqFacts
<1>2. b - a + 1 = n
  OBVIOUS
<1>3. r = [i \in 1..n |-> s[i + a - 1]]
  BY <1>2 DEF SubSeq
<1>4. r = [i \in 1..n |-> r[i]]
  BY <1>3
<1>5. IsSeq(r) /\ Len(r) = n
  BY <1>4, MakesSeq
<1>6. ASSUME NEW i \in 1..n PROVE r[i] = s[k + i]
  <2>1. i + a - 1 = k + i
    OBVIOUS
  <2> QED
    BY <1>3, <2>1
<1> QED
  BY <1>5, <1>6 DEF Slice

LEMMA NewestFacts ==
    ASSUME NEW s, IsSeq(s), NEW n \in Nat, n <= Len(s), NEW r, r = Newest(s, n), NEW k, k = Len(s) - n
    PROVE  Slice(r, s, k, n) /\ k \in Nat
<1>1. PICK l \in Nat : l = Len(s)
  BY SeqFacts
<1>2. k \in Nat /\ k + n = l
  BY <1>1
<1>3. PICK a : a = k + 1
  OBVIOUS
<1>4. r = SubSeq(s, a, l) /\ k + n <= Len(s)
  BY <1>1, <1>2, <1>3 DEF Newest
<1> QED
  BY <1>2, <1>3, <1>4, SubSeqFacts

\* r are the n elements of s, and x.
Appended(r, s, x, n) == IsSeq(r) /\ Len(r) = n + 1 /\ r[n + 1] = x /\ \A i \in 1..n : r[i] = s[i]

LEMMA AppendFacts ==
    ASSUME NEW s, IsSeq(s), NEW x, NEW r, r = Append(s, x), NEW n, n = Len(s)
    PROVE  Appended(r, s, x, n)
<1>1. PICK S : s \in Seq(S) /\ x \in S
  <2>1. PICK T : s \in Seq(T)
    BY DEF IsSeq
  <2>2. s \in Seq(T \cup {x})
    BY <2>1
  <2> QED
    BY <2>2
<1>2. r \in Seq(S) /\ Len(r) = Len(s) + 1 /\ r[Len(s) + 1] = x /\ \A i \in 1..Len(s) : r[i] = s[i]
  BY <1>1
<1>3. IsSeq(r)
  BY <1>2, SeqIsSeq
<1> QED
  BY <1>2, <1>3 DEF Appended

\* r is s followed by t.
Joined(r, s, t, a, b) ==
    /\ IsSeq(r) /\ Len(r) = a + b
    /\ \A i \in 1..a : r[i] = s[i]
    /\ \A i \in 1..b : r[a + i] = t[i]

LEMMA ConcatFacts ==
    ASSUME NEW s, IsSeq(s), NEW t, IsSeq(t), NEW r, r = s \o t, NEW a, a = Len(s), NEW b, b = Len(t)
    PROVE  Joined(r, s, t, a, b)
<1>1. PICK S : s \in Seq(S)
  BY DEF IsSeq
<1>2. PICK T : t \in Seq(T)
  BY DEF IsSeq
<1>3. s \in Seq(S \cup T) /\ t \in Seq(S \cup T)
  BY <1>1, <1>2
<1>4. a \in Nat /\ b \in Nat
  BY SeqFacts
<1>5. r \in Seq(S \cup T) /\ Len(r) = a + b
  BY <1>3, <1>4
<1>6. \A i \in 1..(a + b) : r[i] = IF i <= a THEN s[i] ELSE t[i - a]
  BY <1>3, <1>4
<1>7. ASSUME NEW i \in 1..a PROVE r[i] = s[i]
  <2>1. i \in 1..(a + b) /\ i <= a
    OBVIOUS
  <2> QED
    BY <1>6, <2>1
<1>8. \A i \in 1..b : r[a + i] = t[i]
  <2>1. SUFFICES ASSUME NEW i \in 1..b PROVE r[a + i] = t[i]
    OBVIOUS
  <2>2. a + i \in 1..(a + b) /\ ~(a + i <= a) /\ (a + i) - a = i
    OBVIOUS
  <2> QED
    BY <1>6, <2>2
<1> QED
  BY <1>5, <1>7, <1>8, SeqIsSeq DEF Joined

-----------------------------------------------------------------------------
(* EstimateTokens adds the sizes up, whatever the sequence.                *)

\* The partial sums of s up to k.
Sums(s, k, g) ==
    /\ g[0] = 0
    /\ \A n \in 1..k : g[n] = g[n - 1] + s[n].size

Sized(s) == \A i \in 1..Len(s) : s[i].size \in Nat

LEMMA SumsExist ==
    ASSUME NEW s, NEW l \in Nat
    PROVE  \E g : Sums(s, l, g)
<1>1. PICK bad : bad = {k \in 0..l : ~\E g : Sums(s, k, g)}
  OBVIOUS
<1>2. SUFFICES ASSUME bad # {} PROVE FALSE
  BY <1>1
<1>3. bad \subseteq Nat
  BY <1>1
<1>4. PICK k \in bad : \A j \in bad : k <= j
  BY <1>2, <1>3, LeastExists
<1>5. k \in 0..l /\ ~\E g : Sums(s, k, g)
  BY <1>1
<1>6. CASE k = 0
  <2>1. PICK g : g = [n \in 0..0 |-> 0]
    OBVIOUS
  <2>2. Sums(s, 0, g)
    BY <2>1 DEF Sums
  <2> QED
    BY <1>5, <1>6, <2>2
<1>7. CASE k # 0
  <2>1. k - 1 \in 0..l /\ k - 1 \notin bad
    BY <1>3, <1>4, <1>5, <1>7
  <2>2. PICK g : Sums(s, k - 1, g)
    BY <1>1, <2>1
  <2>3. PICK h : h = [n \in 0..k |-> IF n = k THEN g[k - 1] + s[k].size ELSE g[n]]
    OBVIOUS
  <2>4. h[0] = 0 /\ h[k] = g[k - 1] + s[k].size /\ \A n \in 0..(k - 1) : h[n] = g[n]
    BY <1>5, <1>7, <2>2, <2>3 DEF Sums
  <2>5. ASSUME NEW n \in 1..k PROVE h[n] = h[n - 1] + s[n].size
    <3>1. CASE n = k
      <4>1. k - 1 \in 0..(k - 1)
        BY <1>5, <1>7
      <4> QED
        BY <2>4, <3>1, <4>1
    <3>2. CASE n # k
      <4>1. n \in 1..(k - 1) /\ n - 1 \in 0..(k - 1) /\ n \in 0..(k - 1)
        BY <1>5, <3>2
      <4>2. g[n] = g[n - 1] + s[n].size
        BY <2>2, <4>1 DEF Sums
      <4> QED
        BY <2>4, <4>1, <4>2
    <3> QED
      BY <3>1, <3>2
  <2>6. Sums(s, k, h)
    BY <2>4, <2>5 DEF Sums
  <2> QED
    BY <1>5, <2>6
<1> QED
  BY <1>6, <1>7

LEMMA EstimateIsSum ==
    ASSUME NEW s, IsSeq(s)
    PROVE  \E g : Sums(s, Len(s), g) /\ EstimateTokens(s) = g[Len(s)]
<1>1. PICK l \in Nat : l = Len(s)
  BY SeqFacts
<1>2. PICK g : Sums(s, l, g)
  BY SumsExist
<1>3. PICK h : h = [n \in 0..l |-> g[n]]
  OBVIOUS
<1>4. h = [n \in 0..l |-> IF n = 0 THEN 0 ELSE h[n - 1] + s[n].size]
  <2>1. ASSUME NEW n \in 0..l PROVE h[n] = IF n = 0 THEN 0 ELSE h[n - 1] + s[n].size
    <3>1. CASE n = 0
      BY <1>2, <1>3, <3>1 DEF Sums
    <3>2. CASE n # 0
      <4>1. n \in 1..l /\ n - 1 \in 0..l
        BY <3>2
      <4> QED
        BY <1>2, <1>3, <3>2, <4>1 DEF Sums
    <3> QED
      BY <3>1, <3>2
  <2> QED
    BY <1>3, <2>1
<1>5. PICK f : /\ f = [n \in 0..l |-> IF n = 0 THEN 0 ELSE f[n - 1] + s[n].size]
               /\ EstimateTokens(s) = f[l]
  <2>1. PICK f : f = CHOOSE x : x = [n \in 0..Len(s) |-> IF n = 0 THEN 0 ELSE x[n - 1] + s[n].size]
    OBVIOUS
  <2>2. EstimateTokens(s) = f[Len(s)]
    BY <2>1 DEF EstimateTokens
  <2>3. h = [n \in 0..Len(s) |-> IF n = 0 THEN 0 ELSE h[n - 1] + s[n].size]
    BY <1>1, <1>4
  <2>4. f = [n \in 0..Len(s) |-> IF n = 0 THEN 0 ELSE f[n - 1] + s[n].size]
    BY <2>1, <2>3
  <2> QED
    BY <1>1, <2>2, <2>4
<1>6. Sums(s, l, f)
  <2>1. f[0] = 0
    BY <1>5
  <2>2. ASSUME NEW n \in 1..l PROVE f[n] = f[n - 1] + s[n].size
    BY <1>5
  <2> QED
    BY <2>1, <2>2 DEF Sums
<1> QED
  BY <1>1, <1>5, <1>6

LEMMA SumsNat ==
    ASSUME NEW s, NEW l \in Nat, \A i \in 1..l : s[i].size \in Nat, NEW g, Sums(s, l, g)
    PROVE  \A n \in 0..l : g[n] \in Nat
<1>1. PICK bad : bad = {n \in 0..l : g[n] \notin Nat}
  OBVIOUS
<1>2. SUFFICES ASSUME bad # {} PROVE FALSE
  BY <1>1
<1>3. bad \subseteq Nat
  BY <1>1
<1>4. PICK k \in bad : \A j \in bad : k <= j
  BY <1>2, <1>3, LeastExists
<1>5. k \in 0..l /\ g[k] \notin Nat
  BY <1>1
<1>6. CASE k = 0
  BY <1>5, <1>6 DEF Sums
<1>7. CASE k # 0
  <2>1. k \in 1..l /\ k - 1 \in 0..l /\ ~(k <= k - 1)
    BY <1>5, <1>7
  <2>2. g[k - 1] \in Nat
    BY <1>1, <1>4, <2>1
  <2>3. g[k] = g[k - 1] + s[k].size
    BY <2>1 DEF Sums
  <2> QED
    BY <1>5, <2>1, <2>2, <2>3
<1> QED
  BY <1>6, <1>7

\* From a on, s goes on like t for b elements.
Agree(s, t, a, b) == \A i \in 1..b : s[a + i] = t[i]
IsSum(c, a, b) == c = a + b
SizedTo(s, n) == \A i \in 1..n : s[i].size \in Nat

\* Two sums of sequences that agree on a stretch grow alike on it.
LEMMA SumsShift ==
    ASSUME NEW s, NEW t, NEW a \in Nat, NEW b \in Nat, NEW c, IsSum(c, a, b), NEW g, NEW h, Sums(s, c, g), Sums(t, b, h),
           Agree(s, t, a, b), SizedTo(s, c)
    PROVE  g[c] = g[a] + h[b]
<1>0. c = a + b /\ (\A i \in 1..b : s[a + i] = t[i]) /\ \A i \in 1..(a + b) : s[i].size \in Nat
  BY DEF Agree, SizedTo, IsSum
<1>1. \A n \in 0..(a + b) : g[n] \in Nat
  BY <1>0, SumsNat
<1>2. \A i \in 1..b : t[i].size \in Nat
  <2>1. ASSUME NEW i \in 1..b PROVE t[i].size \in Nat
    <3>1. a + i \in 1..(a + b)
      OBVIOUS
    <3> QED
      BY <1>0, <3>1
  <2> QED
    BY <2>1
<1>3. \A n \in 0..b : h[n] \in Nat
  BY <1>2, SumsNat
<1>4. PICK bad : bad = {n \in 0..b : g[a + n] # g[a] + h[n]}
  OBVIOUS
<1>5. SUFFICES ASSUME bad # {} PROVE FALSE
  BY <1>0, <1>4
<1>6. bad \subseteq Nat
  BY <1>4
<1>7. PICK k \in bad : \A j \in bad : k <= j
  BY <1>5, <1>6, LeastExists
<1>8. k \in 0..b /\ g[a + k] # g[a] + h[k]
  BY <1>4
<1>9. g[a] \in Nat
  BY <1>1
<1>10. CASE k = 0
  BY <1>0, <1>8, <1>9, <1>10 DEF Sums
<1>11. CASE k # 0
  <2>1. PICK j \in Nat : k = j + 1 /\ j \in 0..b /\ ~(k <= j)
    BY <1>8, <1>11
  <2>2. g[a + j] = g[a] + h[j]
    BY <1>4, <1>7, <2>1
  <2>3. PICK m \in Nat : m = a + k /\ m \in 1..(a + b) /\ m - 1 = a + j /\ k \in 1..b /\ k - 1 = j
    BY <1>8, <1>11, <2>1
  <2>4. g[m] = g[m - 1] + s[m].size
    BY <1>0, <2>3 DEF Sums
  <2>5. h[k] = h[k - 1] + t[k].size
    BY <2>3 DEF Sums
  <2>6. s[m] = t[k]
    BY <1>0, <2>3
  <2>7. h[j] \in Nat /\ t[k].size \in Nat
    BY <1>2, <1>3, <2>1, <2>3
  <2>8. g[m] = g[a] + h[k]
    BY <1>9, <2>2, <2>3, <2>4, <2>5, <2>6, <2>7
  <2> QED
    BY <1>8, <2>3, <2>8
<1> QED
  BY <1>10, <1>11

LEMMA EstimateConcat ==
    ASSUME NEW s, IsSeq(s), Sized(s), NEW t, IsSeq(t), Sized(t), NEW r, r = s \o t
    PROVE  /\ EstimateTokens(r) = EstimateTokens(s) + EstimateTokens(t)
           /\ EstimateTokens(s) \in Nat /\ EstimateTokens(t) \in Nat
<1>1. PICK a \in Nat, b \in Nat : a = Len(s) /\ b = Len(t)
  BY SeqFacts
<1>2. Joined(r, s, t, a, b)
  BY <1>1, ConcatFacts
<1>3. PICK c \in Nat : c = a + b
  OBVIOUS
<1>4. /\ IsSeq(r) /\ Len(r) = c /\ (\A i \in 1..a : r[i] = s[i]) /\ \A i \in 1..b : r[a + i] = t[i]
  BY <1>2, <1>3 DEF Joined
<1>5. PICK g : Sums(r, c, g) /\ EstimateTokens(r) = g[c]
  BY <1>4, EstimateIsSum
<1>6. PICK h : Sums(t, b, h) /\ EstimateTokens(t) = h[b]
  BY <1>1, EstimateIsSum
<1>7. PICK f : Sums(s, a, f) /\ EstimateTokens(s) = f[a]
  BY <1>1, EstimateIsSum
<1>8. (\A i \in 1..a : s[i].size \in Nat) /\ \A i \in 1..b : t[i].size \in Nat
  BY <1>1 DEF Sized
<1>9. SizedTo(r, c)
  <2>1. ASSUME NEW i \in 1..c PROVE r[i].size \in Nat
    <3>1. CASE i \in 1..a
      BY <1>4, <1>8, <3>1
    <3>2. CASE i \notin 1..a
      <4>1. PICK j \in 1..b : i = a + j
        <5>1. i - a \in 1..b /\ i = a + (i - a)
          BY <1>3, <3>2
        <5> QED
          BY <5>1
      <4> QED
        BY <1>4, <1>8, <4>1
    <3> QED
      BY <3>1, <3>2
  <2> QED
    BY <2>1 DEF SizedTo
<1>10. Agree(r, t, a, b) /\ IsSum(c, a, b)
  BY <1>3, <1>4 DEF Agree, IsSum
<1>11. g[c] = g[a] + h[b]
  BY <1>3, <1>5, <1>6, <1>9, <1>10, SumsShift
<1>12. Sums(r, a, g)
  <2>1. ASSUME NEW n \in 1..a PROVE g[n] = g[n - 1] + r[n].size
    <3>1. n \in 1..c
      BY <1>3
    <3> QED
      BY <1>5, <3>1 DEF Sums
  <2> QED
    BY <1>5, <2>1 DEF Sums
<1>13. PICK z : z = 0
  OBVIOUS
<1>14. Agree(r, s, z, a) /\ SizedTo(r, a)
  <2>1. ASSUME NEW i \in 1..a PROVE r[z + i] = s[i] /\ r[i].size \in Nat
    <3>1. z + i = i
      BY <1>13
    <3> QED
      BY <1>4, <1>8, <3>1
  <2> QED
    BY <2>1 DEF Agree, SizedTo
<1>141. z \in Nat /\ IsSum(a, z, a)
  BY <1>13 DEF IsSum
<1>15. g[a] = g[z] + f[a]
  BY <1>7, <1>141, <1>12, <1>14, SumsShift
<1>16. f[a] \in Nat /\ h[b] \in Nat
  <2>1. \A n \in 0..a : f[n] \in Nat
    BY <1>7, <1>8, SumsNat
  <2>2. \A n \in 0..b : h[n] \in Nat
    BY <1>6, <1>8, SumsNat
  <2> QED
    BY <2>1, <2>2
<1>17. g[a] = f[a]
  <2>1. g[0] = 0
    BY <1>5 DEF Sums
  <2> QED
    BY <1>13, <1>15, <1>16, <2>1
<1> QED
  BY <1>5, <1>6, <1>7, <1>11, <1>16, <1>17

-----------------------------------------------------------------------------
(* The newest messages of a conversation.                                  *)

\* r are the last elements of s.
Ends(r, s) == IsSeq(s) /\ \E k \in Nat, n \in Nat : Slice(r, s, k, n) /\ k + n = Len(s)

LEMMA EndsFacts ==
    ASSUME NEW r, NEW s, Ends(r, s)
    PROVE  IsSeq(r) /\ IsSeq(s) /\ \A i \in 1..Len(r) : \E j \in 1..Len(s) : r[i] = s[j]
<1>1. PICK k \in Nat, n \in Nat : Slice(r, s, k, n) /\ k + n = Len(s)
  BY DEF Ends
<1>2. IsSeq(r) /\ Len(r) = n /\ \A i \in 1..n : r[i] = s[k + i]
  BY <1>1 DEF Slice
<1>3. \A i \in 1..n : k + i \in 1..(k + n)
  OBVIOUS
<1> QED
  BY <1>1, <1>2, <1>3 DEF Ends

LEMMA EndsTrans ==
    ASSUME NEW q, NEW r, NEW s, Ends(q, r), Ends(r, s)
    PROVE  Ends(q, s)
<1>1. PICK k \in Nat, n \in Nat : Slice(q, r, k, n) /\ k + n = Len(r)
  BY DEF Ends
<1>2. PICK m \in Nat, l \in Nat : Slice(r, s, m, l) /\ m + l = Len(s)
  BY DEF Ends
<1>3. l = k + n
  BY <1>1, <1>2 DEF Slice
<1>4. ASSUME NEW i \in 1..n PROVE q[i] = s[(m + k) + i]
  <2>1. k + i \in 1..l /\ m + (k + i) = (m + k) + i
    BY <1>3
  <2>2. q[i] = r[k + i]
    BY <1>1 DEF Slice
  <2>3. r[k + i] = s[m + (k + i)]
    BY <1>2, <2>1 DEF Slice
  <2> QED
    BY <2>1, <2>2, <2>3
<1>5. PICK j \in Nat : j = m + k
  OBVIOUS
<1>6. Slice(q, s, j, n)
  BY <1>1, <1>4, <1>5 DEF Slice
<1>7. j + n = Len(s)
  BY <1>2, <1>3, <1>5
<1> QED
  BY <1>6, <1>7 DEF Ends

LEMMA NewestEnds ==
    ASSUME NEW s, IsSeq(s), NEW n \in Nat, n <= Len(s), NEW r, r = Newest(s, n)
    PROVE  Ends(r, s) /\ Len(r) = n
<1>1. PICK l \in Nat : l = Len(s)
  BY SeqFacts
<1>2. PICK k : k = Len(s) - n
  OBVIOUS
<1>3. Slice(r, s, k, n) /\ k \in Nat
  BY <1>2, NewestFacts
<1>4. k + n = Len(s)
  BY <1>1, <1>2
<1>5. Len(r) = n
  BY <1>3 DEF Slice
<1> QED
  BY <1>3, <1>4, <1>5 DEF Ends

LEMMA AppendEnds ==
    ASSUME NEW r, NEW s, Ends(r, s), NEW x, NEW q, q = Append(r, x), NEW t, t = Append(s, x)
    PROVE  Ends(q, t)
<1>1. PICK k \in Nat, n \in Nat : Slice(r, s, k, n) /\ k + n = Len(s)
  BY DEF Ends
<1>2. IsSeq(r) /\ Len(r) = n /\ (\A i \in 1..n : r[i] = s[k + i]) /\ IsSeq(s)
  BY <1>1 DEF Slice, Ends
<1>3. Appended(q, r, x, n)
  BY <1>2, AppendFacts
<1>4. PICK l \in Nat : l = Len(s) /\ l = k + n
  BY <1>1
<1>5. Appended(t, s, x, l)
  BY <1>2, <1>4, AppendFacts
<1>6. ASSUME NEW i \in 1..(n + 1) PROVE q[i] = t[k + i]
  <2>1. CASE i = n + 1
    BY <1>3, <1>4, <1>5, <2>1 DEF Appended
  <2>2. CASE i # n + 1
    <3>1. i \in 1..n /\ k + i \in 1..l
      BY <1>4, <2>2
    <3> QED
      BY <1>2, <1>3, <1>5, <3>1 DEF Appended
  <2> QED
    BY <2>1, <2>2
<1>7. PICK m \in Nat : m = n + 1
  OBVIOUS
<1>8. Slice(q, t, k, m)
  BY <1>3, <1>6, <1>7 DEF Slice, Appended
<1>9. k + m = Len(t)
  BY <1>4, <1>5, <1>7 DEF Appended
<1> QED
  BY <1>5, <1>8, <1>9 DEF Ends, Appended

LEMMA EndsIsSuffix ==
    ASSUME NEW r, NEW s, Ends(r, s)
    PROVE  IsSuffix(r, s)
<1>1. PICK k \in Nat, n \in Nat : Slice(r, s, k, n) /\ k + n = Len(s)
  BY DEF Ends
<1>2. Len(r) = n /\ \A i \in 1..n : r[i] = s[k + i]
  BY <1>1 DEF Slice
<1>3. PICK l \in Nat : l = Len(s) /\ l = k + n
  BY <1>1
<1>4. PICK p : p = Reverse(r)
  OBVIOUS
<1>5. PICK q : q = Reverse(s)
  OBVIOUS
<1>6. p = [i \in 1..n |-> r[(n - i) + 1]]
  BY <1>2, <1>4 DEF Reverse
<1>7. q = [i \in 1..l |-> s[(l - i) + 1]]
  BY <1>3, <1>5 DEF Reverse
<1>8. IsSeq(p) /\ Len(p) = n
  <2>1. p = [i \in 1..n |-> p[i]]
    BY <1>6
  <2> QED
    BY <2>1, MakesSeq
<1>9. IsSeq(q) /\ Len(q) = l
  <2>1. q = [i \in 1..l |-> q[i]]
    BY <1>7
  <2> QED
    BY <2>1, MakesSeq
<1>10. \A i \in 1..n : p[i] = q[i]
  <2>1. SUFFICES ASSUME NEW i \in 1..n PROVE p[i] = q[i]
    OBVIOUS
  <2>2. (n - i) + 1 \in 1..n /\ k + ((n - i) + 1) = (l - i) + 1 /\ i \in 1..l
    BY <1>3
  <2>3. r[(n - i) + 1] = s[k + ((n - i) + 1)]
    BY <1>2, <2>2
  <2> QED
    BY <1>6, <1>7, <2>2, <2>3
<1>11. PICK x : x = SubSeq(p, 1, n)
  OBVIOUS
<1>12. PICK y : y = SubSeq(q, 1, n)
  OBVIOUS
<1>13. x = [i \in 1..n |-> p[i]] /\ y = [i \in 1..n |-> q[i]]
  <2>1. n - 1 + 1 = n /\ \A i \in 1..n : i + 1 - 1 = i
    OBVIOUS
  <2> QED
    BY <1>11, <1>12, <2>1 DEF SubSeq
<1>14. x = y
  BY <1>10, <1>13
<1>15. n <= l
  BY <1>3
<1> QED
  BY <1>4, <1>5, <1>8, <1>9, <1>11, <1>12, <1>14, <1>15 DEF IsSuffix, IsPrefix

LEMMA TrimFacts ==
    ASSUME NEW s, IsSeq(s), NEW budget \in Nat, NEW r, r = TrimToTokenBudget(s, budget)
    PROVE  /\ Ends(r, s) /\ (s # <<>> => r # <<>>)
           /\ Len(r) <= 1 \/ EstimateTokens(r) <= budget
<1>1. PICK l \in Nat : l = Len(s)
  BY SeqFacts
<1>2. CASE s = <<>>
  <2>1. r = Newest(s, 0)
    BY <1>2 DEF TrimToTokenBudget
  <2>2. Ends(r, s) /\ Len(r) = 0
    BY <1>1, <2>1, NewestEnds
  <2> QED
    BY <1>2, <2>2
<1>3. CASE s # <<>>
  <2>1. PICK within : within = {n \in 1..Len(s) : n = 1 \/ EstimateTokens(Newest(s, n)) <= budget}
    OBVIOUS
  <2>2. l > 0
    BY <1>1, <1>3, SeqFacts
  <2>3. within \subseteq Nat /\ 1 \in within /\ \A x \in within : x <= l
    BY <1>1, <2>1, <2>2
  <2>4. PICK n : n = Max(within)
    OBVIOUS
  <2>5. n \in within
    BY <2>3, <2>4, MaxMember
  <2>6. n \in 1..l /\ (n = 1 \/ EstimateTokens(Newest(s, n)) <= budget)
    BY <1>1, <2>1, <2>5
  <2>7. r = Newest(s, n)
    BY <1>3, <2>1, <2>4 DEF TrimToTokenBudget
  <2>8. n \in Nat /\ n <= Len(s)
    BY <1>1, <2>6
  <2>9. Ends(r, s) /\ Len(r) = n
    BY <2>7, <2>8, NewestEnds
  <2>10. r # <<>>
    BY <2>6, <2>9, EndsFacts, SeqFacts
  <2>11. Len(r) <= 1 \/ EstimateTokens(r) <= budget
    BY <2>6, <2>7, <2>9
  <2> QED
    BY <2>9, <2>10, <2>11
<1> QED
  BY <1>2, <1>3

LEMMA MemoryNumbers ==
    ASSUME ConfOK
    PROVE  /\ conf.maxMessages \in Nat /\ conf.maxMessages > 0 /\ conf.stmTokens \in Nat /\ conf.ctxTokens \in Nat
           /\ conf.topK \in Nat /\ conf.summarySize \in Nat /\ conf.cooldown \in Nat
           /\ conf.historyMax \in Nat /\ conf.historyMax > 0
  BY DialogAssumption DEF ConfOK

LEMMA EnforceFacts ==
    ASSUME ConfOK, NEW s, IsSeq(s), s # <<>>, NEW r, r = EnforceBufferLimits(s)
    PROVE  /\ Ends(r, s) /\ r # <<>> /\ Len(r) <= conf.maxMessages
           /\ Len(r) = 1 \/ EstimateTokens(r) <= conf.stmTokens
<1>1. PICK l \in Nat : l = Len(s) /\ l > 0
  BY SeqFacts
<1>2. PICK top \in Nat : top = conf.maxMessages /\ top > 0
  BY MemoryNumbers
<1>3. PICK m : m = Min({Len(s), conf.maxMessages})
  OBVIOUS
<1>4. m \in Nat /\ m <= l /\ m <= top /\ m > 0
  BY <1>1, <1>2, <1>3, MinOfTwo
<1>5. PICK q : q = Newest(s, m)
  OBVIOUS
<1>6. Ends(q, s) /\ Len(q) = m
  BY <1>1, <1>4, <1>5, NewestEnds
<1>7. IsSeq(q) /\ q # <<>>
  BY <1>4, <1>6, EndsFacts, SeqFacts
<1>8. conf.stmTokens \in Nat
  BY MemoryNumbers
<1>9. PICK budget \in Nat : budget = conf.stmTokens
  BY <1>8
<1>10. r = TrimToTokenBudget(q, budget)
  BY <1>3, <1>5, <1>9 DEF EnforceBufferLimits
<1>11. /\ Ends(r, q) /\ r # <<>>
       /\ Len(r) <= 1 \/ EstimateTokens(r) <= budget
  BY <1>7, <1>10, TrimFacts
<1>12. Ends(r, s)
  BY <1>6, <1>11, EndsTrans
<1>13. PICK k \in Nat, n \in Nat : Slice(r, q, k, n) /\ k + n = Len(q)
  BY <1>11 DEF Ends
<1>14. Len(r) = n /\ n <= m
  BY <1>6, <1>13 DEF Slice
<1>15. n > 0
  BY <1>11, <1>14, EndsFacts, SeqFacts
<1> QED
  BY <1>2, <1>4, <1>9, <1>11, <1>12, <1>14, <1>15

-----------------------------------------------------------------------------
(* The elements at given places.                                           *)

Ordered(f, P, n) == f \in [1..n -> P] /\ \A i, j \in 1..n : i < j => f[i] < f[j]

LEMMA OrderedExists ==
    ASSUME NEW l \in Nat, NEW P, P \subseteq 1..l
    PROVE  \E f : Ordered(f, P, Cardinality(P))
<1>1. PICK bad : bad = {k \in 0..l : ~\E f : Ordered(f, P \cap (1..k), Cardinality(P \cap (1..k)))}
  OBVIOUS
<1>2. P \cap (1..l) = P
  OBVIOUS
<1>3. SUFFICES ASSUME bad # {} PROVE FALSE
  <2>1. SUFFICES ASSUME bad = {} PROVE \E f : Ordered(f, P, Cardinality(P))
    OBVIOUS
  <2>2. l \in 0..l /\ l \notin bad
    BY <2>1
  <2>3. \E f : Ordered(f, P \cap (1..l), Cardinality(P \cap (1..l)))
    BY <1>1, <2>2
  <2> QED
    BY <1>2, <2>3
<1>4. bad \subseteq Nat
  BY <1>1
<1>5. PICK k \in bad : \A j \in bad : k <= j
  BY <1>3, <1>4, LeastExists
<1>6. k \in 0..l /\ ~\E f : Ordered(f, P \cap (1..k), Cardinality(P \cap (1..k)))
  BY <1>1
<1>7. CASE k = 0
  <2>1. P \cap (1..k) = {}
    BY <1>7
  <2>2. Cardinality({}) = 0
    BY FS_EmptySet
  <2>3. PICK f : f = [i \in 1..0 |-> i]
    OBVIOUS
  <2>4. Ordered(f, {}, 0)
    BY <2>3 DEF Ordered
  <2> QED
    BY <1>6, <2>1, <2>2, <2>4
<1>8. CASE k # 0
  <2>1. PICK j \in 0..l : k = j + 1 /\ j \notin bad
    <3>1. k - 1 \in 0..l /\ k = (k - 1) + 1 /\ ~(k <= k - 1)
      BY <1>6, <1>8
    <3> QED
      BY <1>5, <3>1
  <2>2. PICK Q : Q = P \cap (1..j)
    OBVIOUS
  <2>3. PICK f : Ordered(f, Q, Cardinality(Q))
    BY <1>1, <2>1, <2>2
  <2>4. IsFiniteSet(Q) /\ Cardinality(Q) \in Nat
    BY <2>1, <2>2, TopFinite
  <2>5. PICK n \in Nat : n = Cardinality(Q)
    BY <2>4
  <2>6. CASE k \notin P
    <3>1. P \cap (1..k) = Q
      BY <2>1, <2>2, <2>6
    <3> QED
      BY <1>6, <2>3, <3>1
  <2>7. CASE k \in P
    <3>1. P \cap (1..k) = Q \cup {k}
      BY <2>1, <2>2, <2>7
    <3>2. k \notin Q /\ \A q \in Q : q \in Nat /\ q < k
      BY <2>1, <2>2
    <3>3. Cardinality(Q \cup {k}) = n + 1
      BY <2>4, <2>5, <3>2, FS_AddElement
    <3>4. PICK h : h = [i \in 1..(n + 1) |-> IF i = n + 1 THEN k ELSE f[i]]
      OBVIOUS
    <3>5. \A i \in 1..n : f[i] \in Q
      BY <2>3, <2>5 DEF Ordered
    <3>6. h[n + 1] = k /\ \A i \in 1..n : h[i] = f[i]
      BY <3>4
    <3>7. h \in [1..(n + 1) -> Q \cup {k}]
      BY <3>4, <3>5
    <3>8. ASSUME NEW a \in 1..(n + 1), NEW b \in 1..(n + 1), a < b PROVE h[a] < h[b]
      <4>1. a \in 1..n
        BY <3>8
      <4>2. CASE b = n + 1
        BY <3>2, <3>5, <3>6, <4>1, <4>2
      <4>3. CASE b # n + 1
        <5>1. b \in 1..n
          BY <4>3
        <5>2. f[a] < f[b]
          BY <2>3, <2>5, <3>8, <4>1, <5>1 DEF Ordered
        <5> QED
          BY <3>6, <4>1, <5>1, <5>2
      <4> QED
        BY <4>2, <4>3
    <3>9. Ordered(h, Q \cup {k}, n + 1)
      BY <3>7, <3>8 DEF Ordered
    <3> QED
      BY <1>6, <3>1, <3>3, <3>9
  <2> QED
    BY <2>6, <2>7
<1> QED
  BY <1>7, <1>8

Covers(f, P, n) == n \in Nat /\ f \in [1..n -> P] /\ \A p \in P : \E i \in 1..n : f[i] = p

LEMMA InOrderFacts ==
    ASSUME NEW l \in Nat, NEW P, P \subseteq 1..l, NEW f, f = InOrder(P), NEW n, n = Cardinality(P)
    PROVE  Covers(f, P, n)
<1>1. IsFiniteSet(P) /\ n \in Nat
  BY TopFinite
<1>2. PICK g : Ordered(g, P, n)
  BY OrderedExists
<1>3. g \in [1..n -> P] /\ \A i, j \in DOMAIN g : i < j => g[i] < g[j]
  BY <1>2 DEF Ordered
<1>4. f \in [1..n -> P] /\ \A i, j \in DOMAIN f : i < j => f[i] < f[j]
  BY <1>3 DEF InOrder
<1>5. ASSUME NEW i \in 1..n PROVE f[i] \in Nat
  <2>1. f[i] \in P
    BY <1>4
  <2>2. PICK x : x = f[i]
    OBVIOUS
  <2>3. x \in 1..l
    BY <2>1, <2>2
  <2>4. x \in Nat
    BY <2>3
  <2> QED
    BY <2>2, <2>4
<1>6. ASSUME NEW i \in 1..n, NEW j \in 1..n, f[i] = f[j] PROVE i = j
  <2>1. ~(i < j) /\ ~(j < i)
    BY <1>4, <1>5, <1>6
  <2> QED
    BY <2>1
<1>7. PICK S : S = 1..n
  OBVIOUS
<1>8. f \in Injection(S, P)
  BY <1>4, <1>6, <1>7 DEF Injection, IsInjective
<1>9. Cardinality(S) = Cardinality(P)
  <2>1. PICK a \in Int : a = 1
    OBVIOUS
  <2>2. n \in Int
    BY <1>1
  <2>3. Cardinality(a..n) = IF a > n THEN 0 ELSE n - a + 1
    BY <2>2, FS_Interval
  <2> QED
    BY <1>1, <1>7, <2>1, <2>3
<1>10. f \in Surjection(S, P)
  BY <1>1, <1>8, <1>9, FS_Injection
<1> QED
  BY <1>1, <1>4, <1>7, <1>10 DEF Surjection, Covers

\* r are the elements of s at the places P.
Picked(r, s, P) ==
    /\ IsSeq(r) /\ \A i \in 1..Len(r) : \E p \in P : r[i] = s[p]
    /\ \A p \in P : \E i \in 1..Len(r) : r[i] = s[p]

LEMMA AtFacts ==
    ASSUME NEW s, NEW l \in Nat, NEW P, P \subseteq 1..l, NEW r, r = At(s, P)
    PROVE  Picked(r, s, P)
<1>1. PICK f : f = InOrder(P)
  OBVIOUS
<1>2. PICK n : n = Cardinality(P)
  OBVIOUS
<1>21. Covers(f, P, n)
  BY <1>1, <1>2, InOrderFacts
<1>3. n \in Nat /\ f \in [1..n -> P] /\ \A p \in P : \E i \in 1..n : f[i] = p
  BY <1>21 DEF Covers
<1>4. r = [i \in 1..n |-> s[f[i]]]
  BY <1>1, <1>2 DEF At
<1>5. r = [i \in 1..n |-> r[i]]
  BY <1>4
<1>6. IsSeq(r) /\ Len(r) = n
  BY <1>3, <1>5, MakesSeq
<1>7. \A i \in 1..n : r[i] = s[f[i]] /\ f[i] \in P
  BY <1>3, <1>4
<1>8. ASSUME NEW p \in P PROVE \E i \in 1..n : r[i] = s[p]
  BY <1>3, <1>7
<1>9. \A i \in 1..n : \E p \in P : r[i] = s[p]
  BY <1>7
<1> QED
  BY <1>6, <1>8, <1>9 DEF Picked

-----------------------------------------------------------------------------
(* Conversations.  C is the tracker, R what the runner took, S what the    *)
(* turn has to archive, L the archive, G the conversations that are kept   *)
(* nowhere; n were started, and talk is what was said in them.             *)

Own(msgs, key) == \A i \in 1..Len(msgs) : msgs[i].key = key /\ msgs[i].size \in Nat

\* The newest messages of all that was said, within both limits.
Held(msgs, key, all) ==
    /\ msgs # <<>> /\ Ends(msgs, all) /\ Own(msgs, key)
    /\ Len(msgs) <= conf.maxMessages
    /\ Len(msgs) = 1 \/ EstimateTokens(msgs) <= conf.stmTokens

ConvOK(c, n, talk) == c.id \in 1..n /\ Held(c.msgs, c.key, talk[c.id])

Conv == {"id", "key", "msgs", "idle"}
ActiveOK(c, key) == DOMAIN c = Conv /\ c.key = key /\ c.idle \in 0..(conf.cooldown + 1)

TracksOK(C, n, talk) ==
    /\ DOMAIN C \subseteq Keys
    /\ \A k \in DOMAIN C : ActiveOK(C[k], k) /\ ConvOK(C[k], n, talk)
    /\ \A k, m \in DOMAIN C : C[k].id = C[m].id => k = m
HandsOK(D, n, talk) ==
    /\ \A c \in D : ConvOK(c, n, talk)
    /\ \A c, d \in D : c.id = d.id => c = d
LtmOK(L, n, talk) == IsSeq(L) /\ \A i \in 1..Len(L) : ConvOK(L[i], n, talk)

InTracker(C, id) == \E k \in DOMAIN C : C[k].id = id
InHands(D, id) == \E c \in D : c.id = id
InLtm(L, id) == \E i \in 1..Len(L) : L[i].id = id

\* H says where each conversation is, and it is nowhere else.
HomeOK(C, R, S, L, G, n, H) ==
    \A id \in 1..n :
       /\ InTracker(C, id) <=> H[id] = "tracker"
       /\ InHands(R, id) <=> H[id] = "runner"
       /\ InHands(S, id) <=> H[id] = "turn"
       /\ InLtm(L, id) <=> H[id] = "archive"
       /\ id \in G <=> H[id] = "gone"
       /\ H[id] \in {"tracker", "runner", "turn", "archive", "gone"}

MemOK(C, R, S, L, G, n, talk) ==
    /\ n \in Nat /\ DOMAIN talk = 1..n /\ G \subseteq 1..n
    /\ TracksOK(C, n, talk) /\ HandsOK(R, n, talk) /\ HandsOK(S, n, talk) /\ LtmOK(L, n, talk)
    /\ \E H : HomeOK(C, R, S, L, G, n, H)

LEMMA OwnEnds ==
    ASSUME NEW r, NEW s, Ends(r, s), NEW key, Own(s, key)
    PROVE  Own(r, key)
  BY EndsFacts DEF Own

LEMMA OwnAppend ==
    ASSUME NEW s, IsSeq(s), NEW key, Own(s, key), NEW msg, msg.key = key, msg.size \in Nat, NEW r, r = Append(s, msg)
    PROVE  Own(r, key)
<1>1. PICK l \in Nat : l = Len(s)
  BY SeqFacts
<1>2. Appended(r, s, msg, l)
  BY <1>1, AppendFacts
<1>3. ASSUME NEW i \in 1..(l + 1) PROVE r[i].key = key /\ r[i].size \in Nat
  <2>1. CASE i = l + 1
    BY <1>2, <2>1 DEF Appended
  <2>2. CASE i # l + 1
    <3>1. i \in 1..l
      BY <2>2
    <3> QED
      BY <1>1, <1>2, <3>1 DEF Appended, Own
  <2> QED
    BY <2>1, <2>2
<1> QED
  BY <1>2, <1>3 DEF Own, Appended

\* The last of the newest is the newest.
LEMMA EndsLast ==
    ASSUME NEW r, NEW s, Ends(r, s), r # <<>>
    PROVE  r[Len(r)] = s[Len(s)] /\ Len(r) \in Nat /\ Len(r) > 0
<1>1. PICK k \in Nat, n \in Nat : Slice(r, s, k, n) /\ k + n = Len(s)
  BY DEF Ends
<1>2. Len(r) = n /\ IsSeq(r) /\ \A i \in 1..n : r[i] = s[k + i]
  BY <1>1 DEF Slice
<1>3. n > 0 /\ n \in 1..n
  BY <1>2, SeqFacts
<1> QED
  BY <1>1, <1>2, <1>3

Grows(r, key, all, msg) == Held(r, key, all) /\ r[Len(r)] = msg

LEMMA HeldAppend ==
    ASSUME ConfOK, NEW msgs, NEW all, Ends(msgs, all), NEW key, Own(msgs, key),
           NEW msg, msg.key = key, msg.size \in Nat,
           NEW q, q = Append(msgs, msg), NEW r, r = EnforceBufferLimits(q), NEW t, t = Append(all, msg)
    PROVE  Grows(r, key, t, msg)
<1>1. IsSeq(msgs)
  BY EndsFacts
<1>2. PICK l \in Nat : l = Len(msgs)
  BY <1>1, SeqFacts
<1>3. Appended(q, msgs, msg, l)
  BY <1>1, <1>2, AppendFacts
<1>4. IsSeq(q) /\ Len(q) = l + 1 /\ q[l + 1] = msg
  BY <1>3 DEF Appended
<1>5. q # <<>>
  BY <1>2, <1>4, SeqFacts
<1>6. /\ Ends(r, q) /\ r # <<>> /\ Len(r) <= conf.maxMessages
      /\ Len(r) = 1 \/ EstimateTokens(r) <= conf.stmTokens
  BY <1>4, <1>5, EnforceFacts
<1>7. Ends(q, t)
  BY AppendEnds
<1>8. Ends(r, t)
  BY <1>6, <1>7, EndsTrans
<1>9. Own(q, key)
  BY <1>1, OwnAppend
<1>10. Own(r, key)
  BY <1>6, <1>9, OwnEnds
<1>11. r[Len(r)] = msg
  BY <1>4, <1>6, EndsLast
<1> QED
  BY <1>6, <1>8, <1>10, <1>11 DEF Held, Grows

LEMMA ConvKept ==
    ASSUME NEW c, NEW n \in Nat, NEW talk, ConvOK(c, n, talk), NEW m \in Nat, n <= m, NEW now, now[c.id] = talk[c.id]
    PROVE  ConvOK(c, m, now)
  BY DEF ConvOK

LEMMA HandsKept ==
    ASSUME NEW D, NEW n \in Nat, NEW talk, HandsOK(D, n, talk), NEW m \in Nat, n <= m, NEW now,
           \A c \in D : now[c.id] = talk[c.id]
    PROVE  HandsOK(D, m, now)
  BY ConvKept DEF HandsOK

LEMMA LtmKept ==
    ASSUME NEW L, NEW n \in Nat, NEW talk, LtmOK(L, n, talk), NEW m \in Nat, n <= m, NEW now,
           \A i \in 1..Len(L) : now[L[i].id] = talk[L[i].id]
    PROVE  LtmOK(L, m, now)
  BY ConvKept DEF LtmOK

-----------------------------------------------------------------------------
(* A message is recorded.                                                  *)

Elsewhere(now, talk, n, id) == \A x \in 1..n : x # id => now[x] = talk[x]
MayRecord(H, n, id) == id \in 1..n => H[id] = "tracker"

\* Recording in a conversation that is not in anyone's hands changes none that is.
LEMMA OthersKept ==
    ASSUME NEW C, NEW R, NEW S, NEW L, NEW G, NEW n \in Nat, NEW H, HomeOK(C, R, S, L, G, n, H), NEW talk,
           HandsOK(R, n, talk), HandsOK(S, n, talk), LtmOK(L, n, talk),
           NEW m \in Nat, n <= m, NEW id, MayRecord(H, n, id), NEW now, Elsewhere(now, talk, n, id)
    PROVE  HandsOK(R, m, now) /\ HandsOK(S, m, now) /\ LtmOK(L, m, now)
<1>1. ASSUME NEW c \in R PROVE now[c.id] = talk[c.id]
  <2>1. c.id \in 1..n /\ InHands(R, c.id)
    BY DEF HandsOK, ConvOK, InHands
  <2>2. H[c.id] = "runner"
    BY <2>1 DEF HomeOK
  <2> QED
    BY <2>1, <2>2 DEF Elsewhere, MayRecord
<1>2. ASSUME NEW c \in S PROVE now[c.id] = talk[c.id]
  <2>1. c.id \in 1..n /\ InHands(S, c.id)
    BY DEF HandsOK, ConvOK, InHands
  <2>2. H[c.id] = "turn"
    BY <2>1 DEF HomeOK
  <2> QED
    BY <2>1, <2>2 DEF Elsewhere, MayRecord
<1>3. ASSUME NEW i \in 1..Len(L) PROVE now[L[i].id] = talk[L[i].id]
  <2>1. L[i].id \in 1..n /\ InLtm(L, L[i].id)
    BY DEF LtmOK, ConvOK, InLtm
  <2>2. H[L[i].id] = "archive"
    BY <2>1 DEF HomeOK
  <2> QED
    BY <2>1, <2>2 DEF Elsewhere, MayRecord
<1> QED
  BY <1>1, <1>2, <1>3, HandsKept, LtmKept

IsUpdate(g, f, key, v) ==
    /\ DOMAIN g = DOMAIN f \cup {key} /\ g[key] = v
    /\ \A k \in DOMAIN f : k # key => g[k] = f[k]

LEMMA UpdatedFacts ==
    ASSUME NEW f, NEW key, NEW v, NEW g, g = Updated(f, key, v)
    PROVE  IsUpdate(g, f, key, v)
  BY DEF Updated, IsUpdate

\* What a record makes of the tracker C, when n were started and talk was said.
Record(C, key, msg, D, n, m, talk, now) ==
    \/ /\ key \in DOMAIN C
       /\ LET c == C[key] IN
          /\ D = Updated(C, key, [c EXCEPT !.msgs = EnforceBufferLimits(Append(c.msgs, msg)), !.idle = 0])
          /\ m = n /\ now = Updated(talk, c.id, Append(talk[c.id], msg))
    \/ /\ key \notin DOMAIN C
       /\ D = Updated(C, key, [id |-> n + 1, key |-> key, msgs |-> EnforceBufferLimits(Append(<<>>, msg)), idle |-> 0])
       /\ m = n + 1 /\ now = Updated(talk, n + 1, Append(<<>>, msg))

NewestIs(D, key, msg) == key \in DOMAIN D /\ D[key].msgs[Len(D[key].msgs)] = msg

\* The message goes to the active conversation of its key.
LEMMA RecordsOn ==
    ASSUME ConfOK, NEW C, NEW R, NEW S, NEW L, NEW G, NEW n, NEW talk, MemOK(C, R, S, L, G, n, talk),
           NEW key \in DOMAIN C, NEW msg, msg.key = key, msg.size \in Nat,
           NEW D, NEW m, NEW now, Record(C, key, msg, D, n, m, talk, now)
    PROVE  MemOK(D, R, S, L, G, m, now) /\ NewestIs(D, key, msg)
<1>a. PICK c : c = C[key]
  OBVIOUS
<1>b. PICK msgs, id : msgs = c.msgs /\ id = c.id
  OBVIOUS
<1>c. PICK q : q = Append(msgs, msg)
  OBVIOUS
<1>d. PICK r : r = EnforceBufferLimits(q)
  OBVIOUS
<1>e. PICK d : d = [c EXCEPT !.msgs = r, !.idle = 0]
  OBVIOUS
<1>f. PICK all : all = talk[id]
  OBVIOUS
<1>g. PICK t : t = Append(all, msg)
  OBVIOUS
<1>h. D = Updated(C, key, d) /\ m = n /\ now = Updated(talk, id, t)
  BY <1>a, <1>b, <1>c, <1>d, <1>e, <1>f, <1>g DEF Record
<1>i. IsUpdate(D, C, key, d) /\ IsUpdate(now, talk, id, t)
  BY <1>h, UpdatedFacts
<1>1. n \in Nat /\ DOMAIN talk = 1..n /\ TracksOK(C, n, talk)
  BY DEF MemOK
<1>2. ActiveOK(c, key) /\ ConvOK(c, n, talk)
  BY <1>1, <1>a DEF TracksOK
<1>3. id \in 1..n /\ c.key = key /\ Ends(msgs, all) /\ Own(msgs, key)
  BY <1>2, <1>b, <1>f DEF ConvOK, ActiveOK, Held
<1>4. Grows(r, key, t, msg)
  BY <1>3, <1>c, <1>d, <1>g, HeldAppend
<1>5. DOMAIN now = 1..n /\ now[id] = t
  BY <1>1, <1>3, <1>i DEF IsUpdate
<1>6. Elsewhere(now, talk, n, id)
  BY <1>1, <1>i DEF IsUpdate, Elsewhere
<1>7. DOMAIN D = DOMAIN C /\ D[key] = d /\ \A k \in DOMAIN C : k # key => D[k] = C[k]
  BY <1>i DEF IsUpdate
<1>8. DOMAIN d = Conv /\ d.id = id /\ d.key = key /\ d.msgs = r /\ d.idle = 0
  BY <1>2, <1>b, <1>e DEF ActiveOK, Conv
<1>9. ConvOK(d, n, now) /\ ActiveOK(d, key)
  <2>1. 0 \in 0..(conf.cooldown + 1)
    BY MemoryNumbers
  <2> QED
    BY <1>3, <1>4, <1>5, <1>8, <2>1 DEF ConvOK, ActiveOK, Grows
<1>10. \A k \in DOMAIN C : D[k].id = C[k].id
  BY <1>7, <1>8, <1>a, <1>b
<1>11. TracksOK(D, n, now)
  <2>1. ASSUME NEW k \in DOMAIN D PROVE ActiveOK(D[k], k) /\ ConvOK(D[k], n, now)
    <3>1. CASE k = key
      BY <1>7, <1>9, <3>1
    <3>2. CASE k # key
      <4>1. k \in DOMAIN C /\ D[k] = C[k]
        BY <1>7, <3>2
      <4>2. PICK e : e = C[k]
        OBVIOUS
      <4>3. ActiveOK(e, k) /\ ConvOK(e, n, talk) /\ e.id # id
        BY <1>1, <1>a, <1>b, <3>2, <4>1, <4>2 DEF TracksOK
      <4>4. e.id \in 1..n
        BY <4>3 DEF ConvOK
      <4>5. now[e.id] = talk[e.id] /\ n <= n
        BY <1>1, <1>6, <4>3, <4>4 DEF Elsewhere
      <4>6. ConvOK(e, n, now)
        BY <1>1, <4>3, <4>5, ConvKept
      <4> QED
        BY <4>1, <4>2, <4>3, <4>6
    <3> QED
      BY <3>1, <3>2
  <2>2. \A k, o \in DOMAIN D : D[k].id = D[o].id => k = o
    BY <1>1, <1>7, <1>10 DEF TracksOK
  <2>3. DOMAIN D \subseteq Keys
    BY <1>1, <1>7 DEF TracksOK
  <2> QED
    BY <2>1, <2>2, <2>3 DEF TracksOK
<1>12. PICK H : HomeOK(C, R, S, L, G, n, H)
  BY DEF MemOK
<1>13. MayRecord(H, n, id)
  <2>1. InTracker(C, id)
    BY <1>a, <1>b DEF InTracker
  <2> QED
    BY <1>3, <1>12, <2>1 DEF HomeOK, MayRecord
<1>14. HandsOK(R, n, now) /\ HandsOK(S, n, now) /\ LtmOK(L, n, now)
  <2>1. HandsOK(R, n, talk) /\ HandsOK(S, n, talk) /\ LtmOK(L, n, talk) /\ n <= n
    BY <1>1 DEF MemOK
  <2> QED
    BY <1>1, <1>6, <1>12, <1>13, <2>1, OthersKept
<1>15. \A x \in 1..n : InTracker(D, x) <=> InTracker(C, x)
  BY <1>7, <1>10 DEF InTracker
<1>16. HomeOK(D, R, S, L, G, n, H)
  BY <1>12, <1>15 DEF HomeOK
<1>17. NewestIs(D, key, msg)
  BY <1>4, <1>7, <1>8 DEF NewestIs, Grows
<1>18. G \subseteq 1..n
  BY DEF MemOK
<1> QED
  BY <1>1, <1>5, <1>11, <1>14, <1>16, <1>17, <1>18, <1>h DEF MemOK

\* The message starts the conversation of its key.
LEMMA RecordsFirst ==
    ASSUME ConfOK, NEW C, NEW R, NEW S, NEW L, NEW G, NEW n, NEW talk, MemOK(C, R, S, L, G, n, talk),
           NEW key \in Keys, key \notin DOMAIN C, NEW msg, msg.key = key, msg.size \in Nat,
           NEW D, NEW m, NEW now, Record(C, key, msg, D, n, m, talk, now)
    PROVE  MemOK(D, R, S, L, G, m, now) /\ NewestIs(D, key, msg)
<1>a. PICK e : e = <<>>
  OBVIOUS
<1>b. PICK id : id = n + 1
  OBVIOUS
<1>c. PICK q : q = Append(e, msg)
  OBVIOUS
<1>d. PICK r : r = EnforceBufferLimits(q)
  OBVIOUS
<1>e. PICK d : d = [id |-> id, key |-> key, msgs |-> r, idle |-> 0]
  OBVIOUS
<1>f. D = Updated(C, key, d) /\ m = id /\ now = Updated(talk, id, q)
  BY <1>a, <1>b, <1>c, <1>d, <1>e DEF Record
<1>g. IsUpdate(D, C, key, d) /\ IsUpdate(now, talk, id, q)
  BY <1>f, UpdatedFacts
<1>1. n \in Nat /\ DOMAIN talk = 1..n /\ TracksOK(C, n, talk) /\ G \subseteq 1..n
  BY DEF MemOK
<1>2. id \in Nat /\ n <= id /\ id \in 1..id /\ id \notin 1..n /\ 1..id = (1..n) \cup {id}
  BY <1>1, <1>b
<1>4. IsSeq(e) /\ Len(e) = 0
  BY <1>a DEF IsSeq, Range
<1>5. Ends(e, e) /\ Own(e, key)
  <2>1. PICK z \in Nat : z = 0
    OBVIOUS
  <2>2. Slice(e, e, z, z) /\ z + z = Len(e)
    BY <1>4, <2>1 DEF Slice
  <2> QED
    BY <1>4, <2>2 DEF Ends, Own
<1>6. Grows(r, key, q, msg)
  BY <1>5, <1>c, <1>d, HeldAppend
<1>7. DOMAIN now = 1..id /\ now[id] = q
  BY <1>1, <1>2, <1>g DEF IsUpdate
<1>8. Elsewhere(now, talk, n, id)
  BY <1>1, <1>g DEF IsUpdate, Elsewhere
<1>9. DOMAIN D = DOMAIN C \cup {key} /\ D[key] = d /\ \A k \in DOMAIN C : k # key => D[k] = C[k]
  BY <1>g DEF IsUpdate
<1>10. DOMAIN d = Conv /\ d.id = id /\ d.key = key /\ d.msgs = r /\ d.idle = 0
  BY <1>e DEF Conv
<1>11. ConvOK(d, id, now) /\ ActiveOK(d, key)
  <2>1. 0 \in 0..(conf.cooldown + 1)
    BY MemoryNumbers
  <2> QED
    BY <1>2, <1>6, <1>7, <1>10, <2>1 DEF ConvOK, ActiveOK, Grows
<1>12. \A k \in DOMAIN C : D[k] = C[k] /\ C[k].id \in 1..n /\ C[k].id # id
  BY <1>1, <1>2, <1>9 DEF TracksOK, ConvOK
<1>13. TracksOK(D, id, now)
  <2>1. ASSUME NEW k \in DOMAIN D PROVE ActiveOK(D[k], k) /\ ConvOK(D[k], id, now)
    <3>1. CASE k = key
      BY <1>9, <1>11, <3>1
    <3>2. CASE k # key
      <4>1. k \in DOMAIN C /\ D[k] = C[k] /\ C[k].id \in 1..n /\ C[k].id # id
        BY <1>9, <1>12, <3>2
      <4>2. PICK c : c = C[k]
        OBVIOUS
      <4>3. ActiveOK(c, k) /\ ConvOK(c, n, talk)
        BY <1>1, <4>1, <4>2 DEF TracksOK
      <4>4. now[c.id] = talk[c.id]
        BY <1>8, <4>1, <4>2 DEF Elsewhere
      <4>5. ConvOK(c, id, now)
        BY <1>1, <1>2, <4>3, <4>4, ConvKept
      <4> QED
        BY <4>1, <4>2, <4>3, <4>5
    <3> QED
      BY <3>1, <3>2
  <2>2. ASSUME NEW k \in DOMAIN D, NEW o \in DOMAIN D, D[k].id = D[o].id PROVE k = o
    <3>1. CASE k \in DOMAIN C /\ o \in DOMAIN C
      BY <1>1, <1>12, <2>2, <3>1 DEF TracksOK
    <3>2. CASE k \notin DOMAIN C \/ o \notin DOMAIN C
      BY <1>9, <1>10, <1>12, <2>2, <3>2
    <3> QED
      BY <3>1, <3>2
  <2>3. DOMAIN D \subseteq Keys
    BY <1>1, <1>9 DEF TracksOK
  <2> QED
    BY <2>1, <2>2, <2>3 DEF TracksOK
<1>14. PICK H : HomeOK(C, R, S, L, G, n, H)
  BY DEF MemOK
<1>15. HandsOK(R, n, talk) /\ HandsOK(S, n, talk) /\ LtmOK(L, n, talk)
  BY DEF MemOK
<1>16. HandsOK(R, id, now) /\ HandsOK(S, id, now) /\ LtmOK(L, id, now)
  <2>1. MayRecord(H, n, id)
    BY <1>2 DEF MayRecord
  <2> QED
    BY <1>1, <1>2, <1>8, <1>14, <1>15, <2>1, OthersKept
<1>17. \E J : HomeOK(D, R, S, L, G, id, J)
  <2>1. PICK J : J = [x \in 1..id |-> IF x = id THEN "tracker" ELSE H[x]]
    OBVIOUS
  <2>2. ASSUME NEW x \in 1..n
        PROVE  J[x] = H[x] /\ (InTracker(D, x) <=> InTracker(C, x))
    BY <1>2, <1>9, <1>10, <1>12, <2>1 DEF InTracker
  <2>3. J[id] = "tracker" /\ InTracker(D, id)
    BY <1>2, <1>9, <1>10, <2>1 DEF InTracker
  <2>4. ~InHands(R, id) /\ ~InHands(S, id) /\ ~InLtm(L, id) /\ id \notin G
    BY <1>1, <1>2, <1>15 DEF HandsOK, LtmOK, ConvOK, InHands, InLtm
  <2>5. HomeOK(D, R, S, L, G, id, J)
    BY <1>2, <1>14, <2>2, <2>3, <2>4 DEF HomeOK
  <2> QED
    BY <2>5
<1> QED
  <2>1. G \subseteq 1..id
    BY <1>1, <1>2
  <2>2. NewestIs(D, key, msg)
    BY <1>6, <1>9, <1>10 DEF NewestIs, Grows
  <2> QED
    BY <1>1, <1>2, <1>7, <1>13, <1>16, <1>17, <1>f, <2>1, <2>2 DEF MemOK

-----------------------------------------------------------------------------
(* A conversation moves.                                                   *)

LEMMA HandsSwap ==
    ASSUME NEW C, NEW R, NEW S, NEW L, NEW G, NEW n, NEW talk, MemOK(C, R, S, L, G, n, talk)
    PROVE  MemOK(C, S, R, L, G, n, talk)
<1>1. PICK H : HomeOK(C, R, S, L, G, n, H)
  BY DEF MemOK
<1>2. PICK J : J = [id \in 1..n |-> IF H[id] = "runner" THEN "turn" ELSE IF H[id] = "turn" THEN "runner" ELSE H[id]]
  OBVIOUS
<1>3. HomeOK(C, S, R, L, G, n, J)
  BY <1>1, <1>2 DEF HomeOK
<1> QED
  BY <1>3 DEF MemOK

\* Those of the keys E leave the tracker.
LEMMA TracksLess ==
    ASSUME NEW C, NEW n, NEW talk, TracksOK(C, n, talk), NEW E, E \subseteq DOMAIN C, NEW D,
           D = Restrict(C, DOMAIN C \ E)
    PROVE  /\ TracksOK(D, n, talk)
           /\ \A id : InTracker(D, id) <=> InTracker(C, id) /\ ~\E k \in E : C[k].id = id
<1>1. DOMAIN D = DOMAIN C \ E /\ \A k \in DOMAIN D : D[k] = C[k]
  BY DEF Restrict
<1> QED
  BY <1>1 DEF TracksOK, InTracker

\* The runner takes the conversations of the keys E.
LEMMA RunnerTakes ==
    ASSUME NEW C, NEW R, NEW S, NEW L, NEW G, NEW n, NEW talk, MemOK(C, R, S, L, G, n, talk), R = {},
           NEW E, E \subseteq DOMAIN C, NEW D, D = Restrict(C, DOMAIN C \ E), NEW Q, Q = {C[k] : k \in E}
    PROVE  MemOK(D, Q, S, L, G, n, talk)
<1>1. n \in Nat /\ TracksOK(C, n, talk)
  BY DEF MemOK
<1>2. TracksOK(D, n, talk) /\ \A id : InTracker(D, id) <=> InTracker(C, id) /\ ~\E k \in E : C[k].id = id
  BY <1>1, TracksLess
<1>3. HandsOK(Q, n, talk)
  BY <1>1 DEF HandsOK, TracksOK
<1>4. \A id : InHands(Q, id) <=> \E k \in E : C[k].id = id
  BY DEF InHands
<1>5. \A id : ~InHands(R, id)
  BY DEF InHands
<1>6. \A id : (\E k \in E : C[k].id = id) => InTracker(C, id)
  BY DEF InTracker
<1>7. PICK H : HomeOK(C, R, S, L, G, n, H)
  BY DEF MemOK
<1>8. PICK J : J = [id \in 1..n |-> IF InHands(Q, id) THEN "runner" ELSE H[id]]
  OBVIOUS
<1>9. ASSUME NEW id \in 1..n
      PROVE  /\ InTracker(D, id) <=> J[id] = "tracker"
             /\ InHands(Q, id) <=> J[id] = "runner"
             /\ InHands(S, id) <=> J[id] = "turn"
             /\ InLtm(L, id) <=> J[id] = "archive"
             /\ id \in G <=> J[id] = "gone"
             /\ J[id] \in {"tracker", "runner", "turn", "archive", "gone"}
  <2>1. CASE InHands(Q, id)
    <3>1. J[id] = "runner" /\ H[id] = "tracker" /\ ~InTracker(D, id)
      BY <1>2, <1>4, <1>6, <1>7, <1>8, <2>1 DEF HomeOK
    <3> QED
      BY <1>7, <2>1, <3>1 DEF HomeOK
  <2>2. CASE ~InHands(Q, id)
    <3>1. J[id] = H[id] /\ (InTracker(D, id) <=> InTracker(C, id)) /\ H[id] # "runner"
      BY <1>2, <1>4, <1>5, <1>7, <1>8, <2>2 DEF HomeOK
    <3> QED
      BY <1>7, <2>2, <3>1 DEF HomeOK
  <2> QED
    BY <2>1, <2>2
<1>10. HomeOK(D, Q, S, L, G, n, J)
  BY <1>9 DEF HomeOK
<1> QED
  BY <1>2, <1>3, <1>10 DEF MemOK

\* A conversation is given up.
LEMMA RunnerDrops ==
    ASSUME NEW C, NEW R, NEW S, NEW L, NEW G, NEW n, NEW talk, MemOK(C, R, S, L, G, n, talk),
           NEW c \in R, NEW Q, Q = R \ {c}, NEW F, F = G \cup {c.id}
    PROVE  MemOK(C, Q, S, L, F, n, talk)
<1>1. n \in Nat /\ HandsOK(R, n, talk) /\ G \subseteq 1..n
  BY DEF MemOK
<1>2. c.id \in 1..n
  BY <1>1 DEF HandsOK, ConvOK
<1>3. HandsOK(Q, n, talk) /\ F \subseteq 1..n
  BY <1>1, <1>2 DEF HandsOK
<1>4. PICK H : HomeOK(C, R, S, L, G, n, H)
  BY DEF MemOK
<1>5. PICK J : J = [id \in 1..n |-> IF id = c.id THEN "gone" ELSE H[id]]
  OBVIOUS
<1>6. H[c.id] = "runner" /\ ~InHands(Q, c.id) /\ J[c.id] = "gone"
  <2>1. InHands(R, c.id)
    BY DEF InHands
  <2> QED
    BY <1>1, <1>2, <1>4, <1>5, <2>1 DEF HomeOK, HandsOK, InHands
<1>7. \A id \in 1..n : id # c.id => J[id] = H[id] /\ (InHands(Q, id) <=> InHands(R, id)) /\ (id \in F <=> id \in G)
  BY <1>5 DEF InHands
<1>8. HomeOK(C, Q, S, L, F, n, J)
  BY <1>4, <1>6, <1>7 DEF HomeOK
<1> QED
  BY <1>3, <1>8 DEF MemOK

\* The archive M is the archive L with the entry e stored in it.
Stores(M, L, e) ==
    /\ IsSeq(M) /\ \E i \in 1..Len(M) : M[i] = e
    /\ \A i \in 1..Len(M) : M[i] = e \/ \E j \in 1..Len(L) : M[i] = L[j]
    /\ \A j \in 1..Len(L) : L[j].id = e.id \/ \E i \in 1..Len(M) : M[i] = L[j]

LEMMA StoredFacts ==
    ASSUME NEW L, IsSeq(L), NEW e, NEW P, P = {i \in DOMAIN L : L[i].id # e.id}, NEW M, M = <<e>> \o At(L, P)
    PROVE  Stores(M, L, e)
<1>1. PICK l \in Nat : l = Len(L) /\ DOMAIN L = 1..l
  BY SeqFacts
<1>2. P \subseteq 1..l
  BY <1>1
<1>3. PICK r : r = At(L, P)
  OBVIOUS
<1>4. Picked(r, L, P)
  BY <1>2, <1>3, AtFacts
<1>5. IsSeq(r)
  BY <1>4 DEF Picked
<1>6. PICK b \in Nat : b = Len(r)
  BY <1>5, SeqFacts
<1>7. PICK s : s = <<e>>
  OBVIOUS
<1>8. IsSeq(s) /\ Len(s) = 1 /\ s[1] = e
  BY <1>7 DEF IsSeq, Range
<1>9. PICK a \in Nat : a = 1
  OBVIOUS
<1>10. Joined(M, s, r, a, b)
  BY <1>3, <1>5, <1>6, <1>7, <1>8, <1>9, ConcatFacts
<1>11. IsSeq(M) /\ Len(M) = 1 + b /\ M[1] = e /\ \A i \in 1..b : M[1 + i] = r[i]
  <2>1. IsSeq(M) /\ Len(M) = a + b /\ (\A i \in 1..a : M[i] = s[i]) /\ \A i \in 1..b : M[a + i] = r[i]
    BY <1>10 DEF Joined
  <2>2. 1 \in 1..a
    BY <1>9
  <2>3. M[1] = e
    BY <1>8, <2>1, <2>2
  <2> QED
    BY <1>9, <2>1, <2>3
<1>12. \E i \in 1..Len(M) : M[i] = e
  BY <1>11
<1>13. ASSUME NEW i \in 1..(1 + b) PROVE M[i] = e \/ \E j \in 1..l : M[i] = L[j]
  <2>1. CASE i = 1
    BY <1>11, <2>1
  <2>2. CASE i # 1
    <3>1. i - 1 \in 1..b /\ 1 + (i - 1) = i
      BY <2>2
    <3>2. M[i] = r[i - 1]
      BY <1>11, <3>1
    <3>3. PICK p \in P : r[i - 1] = L[p]
      BY <1>4, <1>6, <3>1 DEF Picked
    <3> QED
      BY <1>2, <3>2, <3>3
  <2> QED
    BY <2>1, <2>2
<1>14. ASSUME NEW j \in 1..l, L[j].id # e.id PROVE \E i \in 1..(1 + b) : M[i] = L[j]
  <2>1. j \in P
    BY <1>1, <1>14
  <2>2. PICK i \in 1..b : r[i] = L[j]
    BY <1>4, <1>6, <2>1 DEF Picked
  <2>3. 1 + i \in 1..(1 + b)
    OBVIOUS
  <2>4. M[1 + i] = r[i]
    BY <1>11
  <2> QED
    BY <2>2, <2>3, <2>4
<1>15. \A i \in 1..Len(M) : M[i] = e \/ \E j \in 1..Len(L) : M[i] = L[j]
  BY <1>1, <1>11, <1>13
<1>16. \A j \in 1..Len(L) : L[j].id = e.id \/ \E i \in 1..Len(M) : M[i] = L[j]
  BY <1>1, <1>11, <1>14
<1> QED
  BY <1>11, <1>12, <1>15, <1>16 DEF Stores

LEMMA RunnerStores ==
    ASSUME NEW C, NEW R, NEW S, NEW L, NEW G, NEW n, NEW talk, MemOK(C, R, S, L, G, n, talk),
           NEW c \in R, NEW Q, Q = R \ {c}, NEW e, e.id = c.id, e.key = c.key, e.msgs = c.msgs, NEW M, Stores(M, L, e)
    PROVE  MemOK(C, Q, S, M, G, n, talk)
<1>1. n \in Nat /\ HandsOK(R, n, talk) /\ LtmOK(L, n, talk)
  BY DEF MemOK
<1>2. c.id \in 1..n /\ ConvOK(e, n, talk)
  BY <1>1 DEF HandsOK, ConvOK
<1>3. HandsOK(Q, n, talk) /\ LtmOK(M, n, talk)
  BY <1>1, <1>2 DEF HandsOK, LtmOK, Stores
<1>4. PICK H : HomeOK(C, R, S, L, G, n, H)
  BY DEF MemOK
<1>5. PICK J : J = [id \in 1..n |-> IF id = c.id THEN "archive" ELSE H[id]]
  OBVIOUS
<1>6. H[c.id] = "runner" /\ ~InHands(Q, c.id) /\ J[c.id] = "archive" /\ InLtm(M, c.id)
  <2>1. InHands(R, c.id)
    BY DEF InHands
  <2>2. InLtm(M, c.id)
    BY DEF Stores, InLtm
  <2> QED
    BY <1>1, <1>2, <1>4, <1>5, <2>1, <2>2 DEF HomeOK, HandsOK, InHands
<1>7. ASSUME NEW id \in 1..n, id # c.id
      PROVE  J[id] = H[id] /\ (InHands(Q, id) <=> InHands(R, id)) /\ (InLtm(M, id) <=> InLtm(L, id))
  <2>1. J[id] = H[id] /\ (InHands(Q, id) <=> InHands(R, id))
    BY <1>5, <1>7 DEF InHands
  <2>2. InLtm(M, id) <=> InLtm(L, id)
    BY <1>7 DEF Stores, InLtm
  <2> QED
    BY <2>1, <2>2
<1>8. HomeOK(C, Q, S, M, G, n, J)
  BY <1>4, <1>6, <1>7 DEF HomeOK
<1> QED
  BY <1>3, <1>8 DEF MemOK

\* Time passes for the active conversations.
LEMMA TracksAge ==
    ASSUME NEW C, NEW R, NEW S, NEW L, NEW G, NEW n, NEW talk, MemOK(C, R, S, L, G, n, talk),
           NEW D, DOMAIN D = DOMAIN C,
           \A k \in DOMAIN C : ActiveOK(D[k], k) /\ D[k].id = C[k].id /\ D[k].msgs = C[k].msgs
    PROVE  MemOK(D, R, S, L, G, n, talk)
<1>1. TracksOK(C, n, talk)
  BY DEF MemOK
<1>2. TracksOK(D, n, talk)
  BY <1>1 DEF TracksOK, ConvOK, ActiveOK
<1>3. \A id : InTracker(D, id) <=> InTracker(C, id)
  BY DEF InTracker
<1>4. PICK H : HomeOK(C, R, S, L, G, n, H)
  BY DEF MemOK
<1>5. HomeOK(D, R, S, L, G, n, H)
  BY <1>3, <1>4 DEF HomeOK
<1> QED
  BY <1>2, <1>5 DEF MemOK

\* The process ends.
LEMMA AllForgotten ==
    ASSUME NEW C, NEW R, NEW S, NEW L, NEW G, NEW n, NEW talk, MemOK(C, R, S, L, G, n, talk),
           NEW F, F = G \cup {C[k].id : k \in DOMAIN C} \cup {c.id : c \in R \cup S}, NEW D, D = <<>>
    PROVE  MemOK(D, {}, {}, L, F, n, talk)
<1>1. n \in Nat /\ TracksOK(C, n, talk) /\ HandsOK(R, n, talk) /\ HandsOK(S, n, talk) /\ G \subseteq 1..n
  BY DEF MemOK
<1>2. F \subseteq 1..n
  <2>1. \A k \in DOMAIN C : C[k].id \in 1..n
    BY <1>1 DEF TracksOK, ConvOK
  <2>2. \A c \in R \cup S : c.id \in 1..n
    BY <1>1 DEF HandsOK, ConvOK
  <2> QED
    BY <1>1, <2>1, <2>2
<1>3. DOMAIN D = {}
  OBVIOUS
<1>4. TracksOK(D, n, talk) /\ HandsOK({}, n, talk) /\ \A id : ~InTracker(D, id) /\ ~InHands({}, id)
  BY <1>3 DEF TracksOK, HandsOK, InTracker, InHands
<1>5. \A id : id \in F <=> id \in G \/ InTracker(C, id) \/ InHands(R, id) \/ InHands(S, id)
  BY DEF InTracker, InHands
<1>6. PICK H : HomeOK(C, R, S, L, G, n, H)
  BY DEF MemOK
<1>7. PICK J : J = [id \in 1..n |-> IF H[id] = "archive" THEN "archive" ELSE "gone"]
  OBVIOUS
<1>8. HomeOK(D, {}, {}, L, F, n, J)
  BY <1>4, <1>5, <1>6, <1>7 DEF HomeOK
<1> QED
  BY <1>2, <1>4, <1>8 DEF MemOK

-----------------------------------------------------------------------------
(* The memory of the running system.                                       *)

Sealing == IF turn.pc = "sealing" THEN {turn.conv} ELSE {}
MemInv == MemOK(convos, runner, Sealing, ltm, gone, started, said)

LEMMA MemNext ==
    ASSUME conf' = conf, NEW C, C = convos', NEW R, R = runner', NEW S, S = Sealing', NEW L, L = ltm',
           NEW G, G = gone', NEW n, n = started', NEW talk, talk = said', MemOK(C, R, S, L, G, n, talk)
    PROVE  MemInv'
<1>1. MemOK(C, R, S, L, G, n, talk)'
  BY DEF MemOK, TracksOK, HandsOK, LtmOK, ConvOK, ActiveOK, Held
<1> QED
  BY <1>1 DEF MemInv

LEMMA MemQuiet ==
    ASSUME MemInv, UNCHANGED <<conf, memoryVars>>, Sealing' = Sealing
    PROVE  MemInv'
<1>1. MemOK(convos, runner, Sealing, ltm, gone, started, said)
  BY DEF MemInv
<1>2. PICK S : S = Sealing
  OBVIOUS
<1>3. MemOK(convos, runner, S, ltm, gone, started, said) /\ S = Sealing'
  BY <1>1, <1>2
<1> QED
  BY <1>3, MemNext DEF memoryVars

\* Where the conversation that a message seals goes.
SealedConvs(key) == IF IsStale(key) THEN {convos[key]} ELSE {}

LEMMA RecordKeeps ==
    ASSUME ConfOK, NEW C, NEW R, NEW S, NEW L, NEW G, NEW n, NEW talk, MemOK(C, R, S, L, G, n, talk),
           NEW key \in Keys, NEW msg, msg.key = key, msg.size \in Nat,
           NEW D, NEW m, NEW now, Record(C, key, msg, D, n, m, talk, now)
    PROVE  MemOK(D, R, S, L, G, m, now) /\ NewestIs(D, key, msg)
<1>1. CASE key \in DOMAIN C
  BY <1>1, RecordsOn
<1>2. CASE key \notin DOMAIN C
  BY <1>2, RecordsFirst
<1> QED
  BY <1>1, <1>2

\* RecordMessage records in the tracker without the conversation it seals.
LEMMA RecordMessageRecords ==
    ASSUME ConfOK, NEW S, MemOK(convos, runner, S, ltm, gone, started, said), NEW key \in Keys, NEW msg,
           RecordMessage(key, msg), NEW C, C = Restrict(convos, DOMAIN convos \ {k \in {key} : IsStale(k)})
    PROVE  Record(C, key, msg, convos', started, started', said, said')
<1>1. started \in Nat /\ TracksOK(convos, started, said) /\ DOMAIN said = 1..started
  BY DEF MemOK
<1>2. DOMAIN C = DOMAIN convos \ {k \in {key} : IsStale(k)} /\ \A k \in DOMAIN C : C[k] = convos[k]
  BY DEF Restrict
<1>3. CASE IsActive(key) /\ ~IsStale(key)
  <2>1. PICK c : c = convos[key]
    OBVIOUS
  <2>2. ConversationFor(key) = c
    BY <1>3, <2>1 DEF ConversationFor
  <2>3. c.id \in 1..started /\ DOMAIN c = Conv /\ key \in DOMAIN convos
    BY <1>1, <1>3, <2>1 DEF TracksOK, ConvOK, ActiveOK, IsActive
  <2>4. /\ convos' = Updated(convos, key, [c EXCEPT !.msgs = EnforceBufferLimits(Append(c.msgs, msg)), !.idle = 0])
        /\ started' = Max({started, c.id}) /\ said' = Updated(said, c.id, Append(said[c.id], msg))
    BY <1>1, <2>2, <2>3 DEF RecordMessage, Conv
  <2>5. PICK i \in Int : i = c.id /\ i <= started
    BY <1>1, <2>3
  <2>6. Max({started, i}) = started
    <3>1. PICK a \in Int : a = started
      BY <1>1
    <3>2. Max({a, i}) = IF a <= i THEN i ELSE a
      BY MinOfTwo
    <3> QED
      BY <2>5, <3>1, <3>2
  <2>7. started' = started
    BY <2>4, <2>5, <2>6
  <2>8. PICK d : d = [c EXCEPT !.msgs = EnforceBufferLimits(Append(c.msgs, msg)), !.idle = 0]
    OBVIOUS
  <2>9. Updated(convos, key, d) = Updated(C, key, d)
    <3>1. DOMAIN C \cup {key} = DOMAIN convos \cup {key}
      BY <1>2
    <3>2. \A k \in DOMAIN convos \cup {key} : k # key => C[k] = convos[k]
      BY <1>2
    <3> QED
      BY <3>1, <3>2 DEF Updated
  <2>10. key \in DOMAIN C /\ C[key] = c
    BY <1>2, <1>3, <2>1, <2>3
  <2>11. convos' = Updated(C, key, d)
    BY <2>4, <2>8, <2>9
  <2> QED
    BY <2>4, <2>7, <2>8, <2>10, <2>11 DEF Record
<1>4. CASE ~(IsActive(key) /\ ~IsStale(key))
  <2>1. key \notin DOMAIN C
    BY <1>2, <1>4 DEF IsActive
  <2>2. PICK id : id = started + 1
    OBVIOUS
  <2>3. PICK c : c = [id |-> id, key |-> key, msgs |-> <<>>, idle |-> 0]
    OBVIOUS
  <2>4. ConversationFor(key) = c
    BY <1>4, <2>2, <2>3 DEF ConversationFor, StartConversation
  <2>5. id \in Int /\ started \in Int /\ started <= id /\ id \notin DOMAIN said
    BY <1>1, <2>2
  <2>6. Max({started, id}) = id
    BY <2>5, MinOfTwo
  <2>7. PICK r : r = EnforceBufferLimits(Append(<<>>, msg))
    OBVIOUS
  <2>8. PICK d : d = [id |-> id, key |-> key, msgs |-> r, idle |-> 0]
    OBVIOUS
  <2>9. [c EXCEPT !.msgs = EnforceBufferLimits(Append(c.msgs, msg)), !.idle = 0] = d
    <3>1. c.msgs = <<>>
      BY <2>3
    <3>2. EnforceBufferLimits(Append(c.msgs, msg)) = r
      BY <2>7, <3>1
    <3>3. ASSUME NEW e, NEW b, b = [id |-> id, key |-> key, msgs |-> e, idle |-> 0]
          PROVE  [b EXCEPT !.msgs = r, !.idle = 0] = [id |-> id, key |-> key, msgs |-> r, idle |-> 0]
      <4>1. PICK z : z = 0
        OBVIOUS
      <4>2. PICK x : x = [b EXCEPT !.msgs = r, !.idle = z]
        OBVIOUS
      <4>3. b = [id |-> id, key |-> key, msgs |-> e, idle |-> z]
        BY <3>3, <4>1
      <4>4. x = [id |-> id, key |-> key, msgs |-> r, idle |-> z]
        BY <4>2, <4>3
      <4> QED
        BY <4>1, <4>2, <4>4
    <3>4. PICK e : e = <<>>
      OBVIOUS
    <3>5. [c EXCEPT !.msgs = r, !.idle = 0] = d
      BY <2>3, <2>8, <3>3, <3>4
    <3> QED
      BY <3>2, <3>5
  <2>10. /\ convos' = Updated(convos, key, d)
         /\ started' = Max({started, id}) /\ said' = Updated(said, id, Append(<<>>, msg))
    BY <2>3, <2>4, <2>5, <2>9 DEF RecordMessage
  <2>11. Updated(convos, key, d) = Updated(C, key, d)
    <3>1. DOMAIN C \cup {key} = DOMAIN convos \cup {key}
      BY <1>2
    <3>2. \A k \in DOMAIN convos \cup {key} : k # key => C[k] = convos[k]
      BY <1>2
    <3> QED
      BY <3>1, <3>2 DEF Updated
  <2> QED
    BY <2>1, <2>2, <2>6, <2>7, <2>8, <2>10, <2>11 DEF Record
<1> QED
  BY <1>3, <1>4

\* A message joins the active conversation of its key, or starts one and
\* leaves the stale one to be archived, or to nobody.
LEMMA RecordSeals ==
    ASSUME ConfOK, NEW none, none = {}, MemOK(convos, runner, none, ltm, gone, started, said), NEW key \in Keys,
           NEW msg, msg.key = key, msg.size \in Nat, RecordMessage(key, msg),
           NEW Q, Q = SealedConvs(key), NEW F, F = gone \cup {c.id : c \in Q}
    PROVE  /\ MemOK(convos', runner, Q, ltm, gone, started', said')
           /\ MemOK(convos', runner, none, ltm, F, started', said')
           /\ NewestIs(convos', key, msg)
<1>1. PICK E : E = {k \in {key} : IsStale(k)}
  OBVIOUS
<1>2. E \subseteq DOMAIN convos
  BY <1>1 DEF IsStale, IsActive
<1>3. Q = {convos[k] : k \in E}
  BY <1>1 DEF SealedConvs
<1>4. PICK C : C = Restrict(convos, DOMAIN convos \ E)
  OBVIOUS
<1>5. MemOK(convos, none, runner, ltm, gone, started, said)
  BY HandsSwap
<1>6. MemOK(C, Q, runner, ltm, gone, started, said)
  BY <1>2, <1>3, <1>4, <1>5, RunnerTakes
<1>7. Record(C, key, msg, convos', started, started', said, said')
  BY <1>1, <1>4, RecordMessageRecords
<1>8. MemOK(convos', Q, runner, ltm, gone, started', said') /\ NewestIs(convos', key, msg)
  BY <1>6, <1>7, RecordKeeps
<1>9. MemOK(convos', runner, Q, ltm, gone, started', said')
  BY <1>8, HandsSwap
<1>10. CASE ~IsStale(key)
  <2>1. Q = none /\ F = gone
    BY <1>10 DEF SealedConvs
  <2> QED
    BY <1>8, <1>9, <2>1
<1>11. CASE IsStale(key)
  <2>1. PICK c : Q = {c}
    BY <1>11 DEF SealedConvs
  <2>2. c \in Q /\ none = Q \ {c} /\ F = gone \cup {c.id}
    BY <2>1
  <2>3. MemOK(convos', none, runner, ltm, F, started', said')
    BY <1>8, <2>2, RunnerDrops
  <2> QED
    BY <1>8, <1>9, <2>3, HandsSwap
<1> QED
  BY <1>10, <1>11

LEMMA SealedFacts ==
    ASSUME MemInv, NEW key
    PROVE  /\ SealedConvs(key) = IF SealedBy(key) = NoConv THEN {} ELSE {SealedBy(key)}
<1>1. TracksOK(convos, started, said)
  BY DEF MemInv, MemOK
<1>2. CASE IsStale(key)
  <2>1. DOMAIN convos[key] = Conv
    BY <1>1, <1>2 DEF TracksOK, ActiveOK, IsStale, IsActive
  <2>2. convos[key] # NoConv
    BY <2>1 DEF NoConv, Conv
  <2> QED
    BY <1>2, <2>2 DEF SealedBy, SealedConvs
<1>3. CASE ~IsStale(key)
  BY <1>3 DEF SealedBy, SealedConvs
<1> QED
  BY <1>2, <1>3

NewestInv == turn.pc \in Recorded /\ IsActive(turn.key) => NewestIs(convos, turn.key, turn.msg)

LEMMA MemAdmitted ==
    ASSUME ConfOK, MemInv, NEW key \in conf.keys, NEW text \in conf.texts, ClassifyAdmitted(key, text)
    PROVE  MemInv' /\ NewestInv'
<1>1. key \in Keys /\ turn.pc = "idle" /\ conf' = conf /\ UNCHANGED <<runner, ltm, gone>>
  BY KeysOK DEF ClassifyAdmitted, MeetsQuotas, Takes
<1>2. /\ turn'.key = key /\ (turn'.pc = "classify" <=> ~conf.memory) /\ turn'.conv = SealedBy(key)
      /\ (conf.memory => (turn'.pc = "sealing" <=> SealedBy(key) # NoConv))
      /\ turn'.msg = Message(Number, key, "user", text.size)
  BY AdmittedTurn
<1>3. PICK none : none = {}
  OBVIOUS
<1>4. MemOK(convos, runner, none, ltm, gone, started, said)
  BY <1>1, <1>3 DEF MemInv, Sealing
<1>5. CASE conf.memory
  <2>1. PICK msg : msg = Message(Number, key, "user", text.size)
    OBVIOUS
  <2>2. RecordMessage(key, msg)
    BY <1>5, <2>1 DEF ClassifyAdmitted
  <2>3. msg.key = key /\ msg.size \in Nat
    BY <2>1, DialogAssumption DEF ConfOK, Message
  <2>4. PICK Q : Q = SealedConvs(key)
    OBVIOUS
  <2>5. PICK F : F = gone \cup {c.id : c \in Q}
    OBVIOUS
  <2>6. MemOK(convos', runner, Q, ltm, gone, started', said') /\ NewestIs(convos', key, msg)
    BY <1>1, <1>3, <1>4, <2>2, <2>3, <2>4, <2>5, RecordSeals
  <2>7. Q = Sealing'
    BY <1>2, <1>5, <2>4, SealedFacts DEF Sealing
  <2>8. MemInv'
    BY <1>1, <2>6, <2>7, MemNext
  <2>9. NewestInv'
    BY <1>2, <2>1, <2>6 DEF NewestInv, NewestIs
  <2> QED
    BY <2>8, <2>9
<1>6. CASE ~conf.memory
  <2>1. UNCHANGED <<convos, started, said>>
    BY <1>6 DEF ClassifyAdmitted
  <2>2. Sealing' = none /\ turn'.pc = "classify"
    BY <1>2, <1>3, <1>6 DEF Sealing
  <2>3. MemInv'
    BY <1>1, <1>4, <2>1, <2>2, MemNext
  <2> QED
    BY <2>2, <2>3 DEF NewestInv, Recorded
<1> QED
  BY <1>5, <1>6

LEMMA MemReplied ==
    ASSUME ConfOK, TalkInv, MemInv, turn.pc \in {"classify", "reading"}, turn' = Idle,
           UNCHANGED <<conf, runner, ltm>>, NEW replies, RecordAssistantMessage(turn.key, replies)
    PROVE  MemInv'
<1>1. turn.key \in Keys /\ turn.pc # "sealing"
  BY DEF TalkInv
<1>2. PICK key \in Keys : key = turn.key
  BY <1>1
<1>3. PICK none : none = {}
  OBVIOUS
<1>4. MemOK(convos, runner, none, ltm, gone, started, said)
  BY <1>1, <1>3 DEF MemInv, Sealing
<1>5. Sealing' = none
  BY <1>3 DEF Sealing, Idle
<1>6. CASE UNCHANGED <<convos, started, said, gone>>
  BY <1>4, <1>5, <1>6, MemNext
<1>7. CASE ~UNCHANGED <<convos, started, said, gone>>
  <2>1. PICK msg : msg = Message(turn.msg.n, key, "assistant", 1)
    OBVIOUS
  <2>2. RecordMessage(key, msg) /\ gone' = IF SealedBy(key) = NoConv THEN gone ELSE gone \cup {SealedBy(key).id}
    BY <1>2, <1>7, <2>1 DEF RecordAssistantMessage
  <2>3. msg.key = key /\ msg.size \in Nat
    BY <2>1 DEF Message
  <2>4. PICK Q : Q = SealedConvs(key)
    OBVIOUS
  <2>5. PICK F : F = gone \cup {c.id : c \in Q}
    OBVIOUS
  <2>6. MemOK(convos', runner, none, ltm, F, started', said')
    BY <1>3, <1>4, <2>2, <2>3, <2>4, <2>5, RecordSeals
  <2>7. gone' = F
    BY <2>2, <2>4, <2>5, SealedFacts
  <2> QED
    BY <1>5, <2>6, <2>7, MemNext
<1> QED
  BY <1>6, <1>7

\* Archiving one conversation that is in hand.
LEMMA SealMoves ==
    ASSUME NEW C, NEW R, NEW S, NEW n, NEW talk, MemOK(C, R, S, ltm, gone, n, talk), NEW conv \in R, Seal(conv),
           NEW Q, Q = R \ {conv}
    PROVE  MemOK(C, Q, S, ltm', gone', n, talk)
<1>1. CASE gone' = gone \cup {conv.id} /\ ltm' = ltm
  BY <1>1, RunnerDrops
<1>2. CASE gone' = gone /\ \E entry \in Entries(conv) : ltm' = Stored(entry)
  <2>1. PICK e \in Entries(conv) : ltm' = Stored(e)
    BY <1>2
  <2>2. e.id = conv.id /\ e.key = conv.key /\ e.msgs = conv.msgs
    BY <2>1 DEF Entries
  <2>3. PICK P : P = {i \in DOMAIN ltm : ltm[i].id # e.id}
    OBVIOUS
  <2>4. PICK M : M = <<e>> \o At(ltm, P)
    OBVIOUS
  <2>5. IsSeq(ltm)
    BY DEF MemOK, LtmOK
  <2>6. Stores(M, ltm, e)
    BY <2>3, <2>4, <2>5, StoredFacts
  <2>7. ltm' = M
    BY <2>1, <2>3, <2>4 DEF Stored
  <2>8. MemOK(C, Q, S, M, gone, n, talk)
    BY <2>2, <2>6, RunnerStores
  <2> QED
    BY <1>2, <2>7, <2>8
<1> QED
  BY <1>1, <1>2 DEF Seal

LEMMA MemArchiveSealed ==
    ASSUME TurnOK, MemInv, ArchiveSealed
    PROVE  MemInv'
<1>1. /\ turn.pc = "sealing" /\ Seal(turn.conv) /\ UNCHANGED <<conf, convos, runner, started, said>>
      /\ turn' = [turn EXCEPT !.pc = "assemble", !.conv = NoConv]
  BY DEF ArchiveSealed
<1>2. turn'.pc = "assemble"
  BY <1>1 DEF TurnOK, Turn
<1>3. PICK none : none = {}
  OBVIOUS
<1>4. Sealing' = none
  BY <1>2, <1>3 DEF Sealing
<1>5. PICK conv : conv = turn.conv
  OBVIOUS
<1>6. PICK S : S = {conv}
  OBVIOUS
<1>7. MemOK(convos, runner, S, ltm, gone, started, said)
  BY <1>1, <1>5, <1>6 DEF MemInv, Sealing
<1>8. MemOK(convos, S, runner, ltm, gone, started, said)
  BY <1>7, HandsSwap
<1>9. conv \in S /\ none = S \ {conv} /\ Seal(conv)
  BY <1>1, <1>3, <1>5, <1>6
<1>10. MemOK(convos, none, runner, ltm', gone', started, said)
  BY <1>8, <1>9, SealMoves
<1>11. MemOK(convos, runner, none, ltm', gone', started, said)
  BY <1>10, HandsSwap
<1> QED
  BY <1>1, <1>4, <1>11, MemNext

LEMMA MemRunner ==
    ASSUME MemInv, RunnerSeals \/ RunnerArchives
    PROVE  MemInv'
<1>1. PICK S : S = Sealing
  OBVIOUS
<1>2. MemOK(convos, runner, S, ltm, gone, started, said)
  BY <1>1 DEF MemInv
<1>3. turn' = turn /\ S = Sealing'
  BY <1>1 DEF RunnerSeals, RunnerArchives, dialogVars, Sealing
<1>4. CASE RunnerSeals
  <2>1. PICK E : E = {key \in DOMAIN convos : IsStale(key)}
    OBVIOUS
  <2>2. /\ runner = {} /\ runner' = {convos[key] : key \in E} /\ convos' = Restrict(convos, DOMAIN convos \ E)
        /\ UNCHANGED <<conf, ltm, started, said, gone>>
    BY <1>4, <2>1 DEF RunnerSeals, SealExpired
  <2>3. E \subseteq DOMAIN convos
    BY <2>1
  <2>4. MemOK(convos', runner', S, ltm, gone, started, said)
    BY <1>2, <2>2, <2>3, RunnerTakes
  <2> QED
    BY <1>3, <2>2, <2>4, MemNext
<1>5. CASE RunnerArchives
  <2>1. PICK conv \in runner : Seal(conv) /\ runner' = runner \ {conv} /\ UNCHANGED <<conf, convos, started, said>>
    BY <1>5 DEF RunnerArchives, ArchiveNext
  <2>2. MemOK(convos, runner', S, ltm', gone', started, said)
    BY <1>2, <2>1, SealMoves
  <2> QED
    BY <1>3, <2>1, <2>2, MemNext
<1> QED
  BY <1>4, <1>5

LEMMA OlderFacts ==
    ASSUME ConfOK, NEW c, NEW key, ActiveOK(c, key), NEW d, d = Older(c)
    PROVE  ActiveOK(d, key) /\ d.id = c.id /\ d.msgs = c.msgs
<1>1. PICK cool \in Nat : cool = conf.cooldown
  BY MemoryNumbers
<1>2. PICK a \in Nat : a = c.idle /\ a <= cool + 1
  BY <1>1 DEF ActiveOK
<1>3. PICK b : b = Min({a + 1, cool + 1})
  OBVIOUS
<1>4. b \in 0..(cool + 1)
  BY <1>2, <1>3, MinOfTwo
<1>5. d = [c EXCEPT !.idle = b]
  BY <1>1, <1>2, <1>3 DEF Older
<1>6. DOMAIN c = Conv /\ c.key = key
  BY DEF ActiveOK
<1>7. DOMAIN d = Conv /\ d.id = c.id /\ d.key = key /\ d.msgs = c.msgs /\ d.idle = b
  BY <1>5, <1>6 DEF Conv
<1> QED
  BY <1>1, <1>4, <1>7 DEF ActiveOK

LEMMA MemTick ==
    ASSUME ConfOK, MemInv, Tick
    PROVE  MemInv' /\ (NewestInv => NewestInv')
<1>1. /\ convos' = [key \in DOMAIN convos |-> Older(convos[key])]
      /\ UNCHANGED <<conf, turn, runner, ltm, started, said, gone>>
  BY DEF Tick, MemoryTick
<1>2. PICK S : S = Sealing
  OBVIOUS
<1>3. MemOK(convos, runner, S, ltm, gone, started, said) /\ S = Sealing'
  BY <1>1, <1>2 DEF MemInv, Sealing
<1>4. PICK D : D = convos'
  OBVIOUS
<1>5. DOMAIN D = DOMAIN convos
  BY <1>1, <1>4
<1>6. ASSUME NEW k \in DOMAIN convos
      PROVE  ActiveOK(D[k], k) /\ D[k].id = convos[k].id /\ D[k].msgs = convos[k].msgs
  <2>1. PICK c, d : c = convos[k] /\ d = D[k]
    OBVIOUS
  <2>2. ActiveOK(c, k)
    BY <1>3, <2>1 DEF MemOK, TracksOK
  <2>3. d = Older(c)
    BY <1>1, <1>4, <2>1
  <2>4. ActiveOK(d, k) /\ d.id = c.id /\ d.msgs = c.msgs
    BY <2>2, <2>3, OlderFacts
  <2> QED
    BY <2>1, <2>4
<1>7. MemOK(D, runner, S, ltm, gone, started, said)
  BY <1>3, <1>5, <1>6, TracksAge
<1>8. MemInv'
  BY <1>1, <1>3, <1>4, <1>7, MemNext
<1>9. NewestInv => NewestInv'
  BY <1>1, <1>4, <1>5, <1>6 DEF NewestInv, NewestIs, IsActive
<1> QED
  BY <1>8, <1>9

LEMMA MemCrash ==
    ASSUME MemInv, Crash
    PROVE  MemInv'
<1>1. /\ conf' = conf /\ turn' = Idle /\ convos' = <<>> /\ runner' = {} /\ UNCHANGED <<ltm, started, said>>
      /\ gone' = gone \cup {convos[key].id : key \in DOMAIN convos}
                      \cup {conv.id : conv \in runner \cup (IF turn.pc = "sealing" THEN {turn.conv} ELSE {})}
  BY DEF Crash, Start, Forget
<1>2. PICK S : S = Sealing
  OBVIOUS
<1>3. PICK F : F = gone \cup {convos[key].id : key \in DOMAIN convos} \cup {conv.id : conv \in runner \cup S}
  OBVIOUS
<1>4. gone' = F
  BY <1>1, <1>2, <1>3 DEF Sealing
<1>5. PICK D : D = <<>>
  OBVIOUS
<1>6. MemOK(convos, runner, S, ltm, gone, started, said)
  BY <1>2 DEF MemInv
<1>7. MemOK(D, {}, {}, ltm, F, started, said)
  BY <1>3, <1>5, <1>6, AllForgotten
<1>8. Sealing' = {}
  BY <1>1 DEF Sealing, Idle
<1> QED
  BY <1>1, <1>4, <1>5, <1>7, <1>8, MemNext

LEMMA MemInit ==
    ASSUME Init
    PROVE  MemInv /\ NewestInv
<1>1. /\ convos = <<>> /\ runner = {} /\ ltm = <<>> /\ started = 0 /\ said = <<>> /\ gone = {} /\ turn = Idle
  BY DEF Init, MemoryInit
<1>2. Sealing = {} /\ DOMAIN convos = {} /\ DOMAIN said = {} /\ 1..started = {} /\ Len(ltm) = 0
  BY <1>1 DEF Sealing, Idle
<1>3. IsSeq(ltm)
  BY <1>1 DEF IsSeq, Range
<1>4. TracksOK(convos, started, said) /\ HandsOK(runner, started, said) /\ HandsOK(Sealing, started, said)
  BY <1>1, <1>2 DEF TracksOK, HandsOK
<1>5. LtmOK(ltm, started, said)
  BY <1>2, <1>3 DEF LtmOK
<1>6. PICK H : H = <<>>
  OBVIOUS
<1>7. HomeOK(convos, runner, Sealing, ltm, gone, started, H)
  BY <1>2 DEF HomeOK
<1>8. started \in Nat /\ DOMAIN said = 1..started /\ gone \subseteq 1..started
  BY <1>1, <1>2
<1> QED
  BY <1>1, <1>4, <1>5, <1>7, <1>8 DEF MemInv, MemOK, NewestInv, Idle, Recorded

\* Steps that neither record nor seal.
LEMMA MemSame ==
    ASSUME MemInv, NewestInv, UNCHANGED <<conf, memoryVars>>,
           turn' = turn \/ (turn.pc # "sealing" /\ turn'.pc \notin Recorded)
    PROVE  MemInv' /\ NewestInv'
<1>1. Sealing' = Sealing
  BY DEF Sealing, Recorded
<1>2. MemInv'
  BY <1>1, MemQuiet
<1>3. NewestInv'
  BY DEF NewestInv, NewestIs, IsActive, memoryVars
<1> QED
  BY <1>2, <1>3

LEMMA MemStep ==
    ASSUME ConfOK, TurnOK, TalkInv, MemInv, NewestInv, [Next]_vars
    PROVE  MemInv' /\ NewestInv'
<1>1. ASSUME NEW key \in conf.keys, NEW text \in conf.texts,
             \/ AnswersNo(key, text) \/ AnswersOther(key, text) \/ AnswersYes(key, text)
             \/ ConfirmsCreation(key, text) \/ KeywordPath(key, text) \/ ClassifyRefused(key, text)
      PROVE  MemInv' /\ NewestInv'
  <2>1. UNCHANGED <<conf, memoryVars>> /\ turn.pc = "idle"
    BY <1>1 DEF AnswersNo, AnswersOther, AnswersYes, ConfirmsCreation, KeywordPath, ClassifyRefused, MeetsQuotas, Takes
  <2>2. turn' = turn \/ \E step, nl : turn' = Dispatching(key, step, nl)
    BY <1>1 DEF AnswersNo, AnswersOther, AnswersYes, ConfirmsCreation, KeywordPath, ClassifyRefused
  <2>3. turn' = turn \/ turn'.pc \notin Recorded
    BY <2>2 DEF Dispatching, Recorded
  <2> QED
    BY <2>1, <2>3, MemSame
<1>2. CASE Arrives
  BY <1>1, <1>2, MemAdmitted DEF Arrives
<1>3. CASE ArchiveSealed
  <2>1. /\ turn.pc = "sealing" /\ convos' = convos /\ turn' = [turn EXCEPT !.pc = "assemble", !.conv = NoConv]
    BY <1>3 DEF ArchiveSealed
  <2>2. turn'.key = turn.key /\ turn'.msg = turn.msg
    BY <2>1 DEF TurnOK, Turn
  <2>3. NewestInv'
    BY <2>1, <2>2 DEF NewestInv, NewestIs, IsActive, Recorded
  <2> QED
    BY <1>3, <2>3, MemArchiveSealed
<1>4. CASE AssemblesContext
  <2>1. /\ turn.pc = "assemble" /\ UNCHANGED <<conf, memoryVars>>
        /\ \E context : turn' = [turn EXCEPT !.pc = "classify", !.context = context]
    BY <1>4 DEF AssemblesContext
  <2>2. turn'.pc = "classify"
    BY <2>1 DEF TurnOK, Turn
  <2> QED
    BY <2>1, <2>2, MemSame DEF Recorded
<1>5. ASSUME UNCHANGED <<conf, memoryVars>>, turn' = Idle, turn.pc \in {"classify", "dispatch", "correct"}
      PROVE  MemInv' /\ NewestInv'
  <2>1. turn'.pc \notin Recorded /\ turn.pc # "sealing"
    BY <1>5 DEF Idle, Recorded
  <2> QED
    BY <1>5, <2>1, MemSame
<1>6. CASE ClassifyDegraded \/ ClassifyUnavailable \/ CreationReturns \/ StepAccepted \/ StepFailed \/ CorrectionFails
  BY <1>5, <1>6 DEF ClassifyDegraded, ClassifyUnavailable, CreationReturns, StepAccepted, StepFailed,
     CorrectionFails, OffersRetry, NLStepRunning
<1>7. ASSUME NEW resp, CorrectionArrives(resp) PROVE MemInv' /\ NewestInv'
  BY <1>5, <1>7 DEF CorrectionArrives
<1>8. ASSUME NEW resp, ClassifyAnswered(resp) PROVE MemInv' /\ NewestInv'
  <2>1. /\ turn.pc = "classify" /\ turn' = Idle /\ UNCHANGED <<conf, runner, ltm>>
        /\ RecordAssistantMessage(turn.key, Replies(resp))
    BY <1>8 DEF ClassifyAnswered, Accounts
  <2>2. NewestInv'
    BY <2>1 DEF NewestInv, Idle, Recorded
  <2> QED
    BY <2>1, <2>2, MemReplied
<1>14. ASSUME NEW resp, ClassifyReads(resp) PROVE MemInv' /\ NewestInv'
  <2>1. UNCHANGED <<conf, memoryVars>> /\ turn.pc = "classify" /\ turn'.pc = "reading"
    BY <1>14 DEF ClassifyReads, Accounts, Reading
  <2> QED
    BY <2>1, MemSame DEF Recorded
<1>15. CASE ReadReturns
  <2>1. turn.pc = "reading" /\ UNCHANGED <<conf, runner, ltm>>
    BY <1>15 DEF ReadReturns
  <2>2. \/ (\E queries, says : turn' = Reading(queries, says)) /\ UNCHANGED <<convos, started, said, gone>>
        \/ turn' = Idle /\ \E says : RecordAssistantMessage(turn.key, says)
    BY <1>15 DEF ReadReturns
  <2>3. CASE (\E queries, says : turn' = Reading(queries, says)) /\ UNCHANGED <<convos, started, said, gone>>
    <3>1. turn'.pc = "reading" /\ UNCHANGED <<conf, memoryVars>>
      BY <2>1, <2>3 DEF Reading, memoryVars
    <3> QED
      BY <2>1, <3>1, MemSame DEF Recorded
  <2>4. CASE turn' = Idle /\ \E says : RecordAssistantMessage(turn.key, says)
    <3>1. NewestInv'
      BY <2>4 DEF NewestInv, Idle, Recorded
    <3> QED
      BY <2>1, <2>4, <3>1, MemReplied
  <2> QED
    BY <2>2, <2>3, <2>4
<1>16. ASSUME NEW tokens, ClassifyMalformed(tokens) PROVE MemInv' /\ NewestInv'
  BY <1>5, <1>16 DEF ClassifyMalformed
<1>9. CASE StepInvalid
  <2>1. UNCHANGED <<conf, memoryVars>> /\ turn.pc = "dispatch" /\ turn'.pc \notin Recorded
    BY <1>9 DEF StepInvalid, NLStepRunning, Idle, Recorded
  <2> QED
    BY <2>1, MemSame
<1>10. CASE Proceeds \/ CommandReturns
  BY <1>3, <1>4, <1>6, <1>7, <1>8, <1>9, <1>10, <1>14, <1>15, <1>16 DEF Proceeds, CommandReturns
<1>11. CASE Midnight \/ SecretsChange \/ UNCHANGED vars
  BY <1>11, MemSame DEF Midnight, SecretsChange, dialogVars, vars
<1>12. CASE RunnerSeals \/ RunnerArchives
  <2>1. turn' = turn
    BY <1>12 DEF RunnerSeals, RunnerArchives, dialogVars
  <2>2. \A k \in DOMAIN convos' : k \in DOMAIN convos /\ convos'[k] = convos[k]
    BY <1>12 DEF RunnerSeals, RunnerArchives, SealExpired, ArchiveNext, Restrict
  <2>3. NewestInv'
    BY <2>1, <2>2 DEF NewestInv, NewestIs, IsActive
  <2> QED
    BY <1>12, <2>3, MemRunner
<1>13. CASE Crash
  <2>1. turn' = Idle
    BY <1>13 DEF Crash, Start
  <2>2. NewestInv'
    BY <2>1 DEF NewestInv, Idle, Recorded
  <2> QED
    BY <1>13, <2>2, MemCrash
<1> QED
  BY <1>2, <1>10, <1>11, <1>12, <1>13, MemTick DEF Next

-----------------------------------------------------------------------------
(* What follows for the conversations.                                     *)

LEMMA HomesAreOne ==
    ASSUME MemInv
    PROVE  OneHome
<1>1. SUFFICES ASSUME NEW id \in 1..started PROVE Cardinality({home \in Homes : IsHome(home, id)}) = 1
  BY DEF OneHome
<1>2. PICK H : HomeOK(convos, runner, Sealing, ltm, gone, started, H)
  BY DEF MemInv, MemOK
<1>3. /\ InTracker(convos, id) <=> H[id] = "tracker"
      /\ InHands(runner, id) <=> H[id] = "runner"
      /\ InHands(Sealing, id) <=> H[id] = "turn"
      /\ InLtm(ltm, id) <=> H[id] = "archive"
      /\ id \in gone <=> H[id] = "gone"
      /\ H[id] \in {"tracker", "runner", "turn", "archive", "gone"}
  BY <1>2 DEF HomeOK
<1>4. DOMAIN ltm = 1..Len(ltm)
  BY SeqFacts DEF MemInv, MemOK, LtmOK
<1>5. Tracked(id) <=> InTracker(convos, id)
  BY DEF Tracked, InTracker
<1>6. BeingSealed(id) <=> InHands(runner, id) \/ InHands(Sealing, id)
  BY DEF BeingSealed, InHands, Sealing
<1>7. Archived(id) <=> InLtm(ltm, id)
  BY <1>4 DEF Archived, InLtm
<1>8. \/ Tracked(id) /\ ~BeingSealed(id) /\ ~Archived(id) /\ id \notin gone
      \/ ~Tracked(id) /\ BeingSealed(id) /\ ~Archived(id) /\ id \notin gone
      \/ ~Tracked(id) /\ ~BeingSealed(id) /\ Archived(id) /\ id \notin gone
      \/ ~Tracked(id) /\ ~BeingSealed(id) /\ ~Archived(id) /\ id \in gone
  BY <1>3, <1>5, <1>6, <1>7
<1>9. \E h : {home \in Homes : IsHome(home, id)} = {h}
  <2>1. CASE Tracked(id) /\ ~BeingSealed(id) /\ ~Archived(id) /\ id \notin gone
    <3>1. {home \in Homes : IsHome(home, id)} = {"tracked"}
      BY <2>1 DEF Homes, IsHome
    <3> QED
      BY <3>1
  <2>2. CASE ~Tracked(id) /\ BeingSealed(id) /\ ~Archived(id) /\ id \notin gone
    <3>1. {home \in Homes : IsHome(home, id)} = {"sealing"}
      BY <2>2 DEF Homes, IsHome
    <3> QED
      BY <3>1
  <2>3. CASE ~Tracked(id) /\ ~BeingSealed(id) /\ Archived(id) /\ id \notin gone
    <3>1. {home \in Homes : IsHome(home, id)} = {"archived"}
      BY <2>3 DEF Homes, IsHome
    <3> QED
      BY <3>1
  <2>4. CASE ~Tracked(id) /\ ~BeingSealed(id) /\ ~Archived(id) /\ id \in gone
    <3>1. {home \in Homes : IsHome(home, id)} = {"gone"}
      BY <2>4 DEF Homes, IsHome
    <3> QED
      BY <3>1
  <2> QED
    BY <1>8, <2>1, <2>2, <2>3, <2>4
<1> QED
  BY <1>9, FS_Singleton

LEMMA NewestAreHeld ==
    ASSUME MemInv
    PROVE  BufferIsNewest
<1>1. TracksOK(convos, started, said) /\ LtmOK(ltm, started, said)
  BY DEF MemInv, MemOK
<1>2. SUFFICES ASSUME NEW conv \in {convos[key] : key \in DOMAIN convos} \cup Range(ltm)
               PROVE  /\ conv.msgs # <<>> /\ IsSuffix(conv.msgs, said[conv.id])
                      /\ Len(conv.msgs) <= conf.maxMessages
                      /\ Len(conv.msgs) = 1 \/ EstimateTokens(conv.msgs) <= conf.stmTokens
  BY DEF BufferIsNewest
<1>3. DOMAIN ltm = 1..Len(ltm)
  BY <1>1, SeqFacts DEF LtmOK
<1>4. ConvOK(conv, started, said)
  BY <1>1, <1>2, <1>3 DEF TracksOK, LtmOK, Range
<1>5. PICK msgs, all : msgs = conv.msgs /\ all = said[conv.id]
  OBVIOUS
<1>6. /\ msgs # <<>> /\ Ends(msgs, all) /\ Len(msgs) <= conf.maxMessages
      /\ Len(msgs) = 1 \/ EstimateTokens(msgs) <= conf.stmTokens
  BY <1>4, <1>5 DEF ConvOK, Held
<1>7. IsSuffix(msgs, all)
  BY <1>6, EndsIsSuffix
<1> QED
  BY <1>5, <1>6, <1>7

-----------------------------------------------------------------------------
(* The history kept without memory.                                        *)

HistoryOK(h, key) == IsSeq(h) /\ Len(h) <= conf.historyMax /\ \A i \in 1..Len(h) : h[i].key = key
HistoryInv == history = [key \in Keys |-> history[key]] /\ \A key \in Keys : HistoryOK(history[key], key)

LEMMA HistoryNext ==
    ASSUME conf' = conf, history' = [key \in Keys |-> history'[key]],
           \A key \in Keys : HistoryOK(history'[key], key)
    PROVE  HistoryInv'
  BY DEF HistoryInv, HistoryOK

LEMMA HistoryAppend ==
    ASSUME ConfOK, HistoryInv, conf' = conf, NEW key \in Keys, NEW msg, msg.key = key, AppendHistory(key, msg)
    PROVE  HistoryInv'
<1>1. PICK h : h = history[key]
  OBVIOUS
<1>2. HistoryOK(h, key)
  BY <1>1 DEF HistoryInv
<1>3. PICK l \in Nat : l = Len(h)
  BY <1>2, SeqFacts DEF HistoryOK
<1>4. PICK top \in Nat : top = conf.historyMax /\ top > 0
  BY MemoryNumbers
<1>5. PICK q : q = Append(h, msg)
  OBVIOUS
<1>6. PICK m : m = Min({l + 1, top})
  OBVIOUS
<1>7. PICK r : r = Newest(q, m)
  OBVIOUS
<1>8. history' = [history EXCEPT ![key] = r]
  BY <1>1, <1>3, <1>4, <1>5, <1>6, <1>7 DEF AppendHistory
<1>9. IsSeq(h) /\ \A i \in 1..l : h[i].key = key
  BY <1>2, <1>3 DEF HistoryOK
<1>10. Appended(q, h, msg, l)
  BY <1>3, <1>5, <1>9, AppendFacts
<1>11. IsSeq(q) /\ Len(q) = l + 1
  BY <1>10 DEF Appended
<1>12. ASSUME NEW i \in 1..(l + 1) PROVE q[i].key = key
  <2>1. CASE i = l + 1
    BY <1>10, <2>1 DEF Appended
  <2>2. CASE i # l + 1
    <3>1. i \in 1..l
      BY <2>2
    <3> QED
      BY <1>9, <1>10, <3>1 DEF Appended
  <2> QED
    BY <2>1, <2>2
<1>13. m \in Nat /\ m <= l + 1 /\ m <= top
  BY <1>6, MinOfTwo
<1>14. Ends(r, q) /\ Len(r) = m
  BY <1>7, <1>11, <1>13, NewestEnds
<1>15. IsSeq(r) /\ \A i \in 1..Len(r) : \E j \in 1..Len(q) : r[i] = q[j]
  BY <1>14, EndsFacts
<1>16. HistoryOK(r, key)
  BY <1>4, <1>11, <1>12, <1>13, <1>14, <1>15 DEF HistoryOK
<1>17. history = [k \in Keys |-> history[k]] /\ \A k \in Keys : HistoryOK(history[k], k)
  BY DEF HistoryInv
<1>18. history' = [k \in Keys |-> history'[k]] /\ history'[key] = r /\ \A k \in Keys : k # key => history'[k] = history[k]
  BY <1>8, <1>17
<1>19. \A k \in Keys : HistoryOK(history'[k], k)
  BY <1>16, <1>17, <1>18
<1> QED
  BY <1>18, <1>19, HistoryNext

LEMMA FreshHistory ==
    ASSUME ConfOK, NEW h, h = [key \in Keys |-> <<>>]
    PROVE  h = [key \in Keys |-> h[key]] /\ \A key \in Keys : HistoryOK(h[key], key)
<1>1. PICK e : e = <<>>
  OBVIOUS
<1>2. IsSeq(e) /\ Len(e) = 0
  BY <1>1 DEF IsSeq, Range
<1>3. ASSUME NEW key PROVE HistoryOK(e, key)
  BY <1>2, MemoryNumbers DEF HistoryOK
<1>4. h = [key \in Keys |-> e]
  BY <1>1
<1> QED
  BY <1>3, <1>4

LEMMA HistoryStep ==
    ASSUME ConfOK, TalkInv, HistoryInv, [Next]_vars
    PROVE  HistoryInv'
<1>1. ASSUME UNCHANGED <<conf, history>> PROVE HistoryInv'
  BY <1>1 DEF HistoryInv, HistoryOK
<1>2. ASSUME NEW key \in conf.keys, NEW text \in conf.texts, ClassifyAdmitted(key, text) PROVE HistoryInv'
  <2>1. conf' = conf /\ key \in Keys
    BY <1>2, KeysOK DEF ClassifyAdmitted
  <2>2. CASE conf.memory
    BY <1>1, <1>2, <2>1, <2>2 DEF ClassifyAdmitted
  <2>3. CASE ~conf.memory
    <3>1. PICK msg : msg = Message(Number, key, "user", text.size)
      OBVIOUS
    <3>2. AppendHistory(key, msg) /\ msg.key = key
      BY <1>2, <2>3, <3>1 DEF ClassifyAdmitted, Message
    <3> QED
      BY <2>1, <3>2, HistoryAppend
  <2> QED
    BY <2>2, <2>3
<1>3. ASSUME NEW replies, conf' = conf, turn.pc # "idle", RecordAssistantMessage(turn.key, replies)
      PROVE  HistoryInv'
  <2>2. PICK key \in Keys : key = turn.key
    BY <1>3 DEF TalkInv
  <2>3. PICK msg : msg = Message(turn.msg.n, key, "assistant", 1)
    OBVIOUS
  <2>4. history' = history \/ AppendHistory(key, msg)
    BY <1>3, <2>2, <2>3 DEF RecordAssistantMessage
  <2>5. msg.key = key
    BY <2>3 DEF Message
  <2> QED
    BY <1>1, <1>3, <2>4, <2>5, HistoryAppend
<1>9. ASSUME NEW resp, ClassifyAnswered(resp) PROVE HistoryInv'
  <2>1. conf' = conf /\ turn.pc = "classify" /\ RecordAssistantMessage(turn.key, Replies(resp))
    BY <1>9 DEF ClassifyAnswered, Accounts
  <2> QED
    BY <1>3, <2>1
<1>10. CASE ReadReturns
  <2>1. /\ conf' = conf /\ turn.pc = "reading"
        /\ history' = history \/ \E says : RecordAssistantMessage(turn.key, says)
    BY <1>10 DEF ReadReturns
  <2> QED
    BY <1>1, <1>3, <2>1
<1>4. ASSUME NEW key, NEW text,
             \/ AnswersNo(key, text) \/ AnswersOther(key, text) \/ AnswersYes(key, text)
             \/ ConfirmsCreation(key, text) \/ KeywordPath(key, text) \/ ClassifyRefused(key, text)
      PROVE  HistoryInv'
  BY <1>1, <1>4 DEF AnswersNo, AnswersOther, AnswersYes, ConfirmsCreation, KeywordPath, ClassifyRefused
<1>5. CASE \/ ArchiveSealed \/ AssemblesContext \/ ClassifyDegraded \/ ClassifyUnavailable \/ CreationReturns
           \/ StepAccepted \/ StepFailed \/ StepInvalid \/ CorrectionFails
  BY <1>1, <1>5 DEF ArchiveSealed, AssemblesContext, ClassifyDegraded, ClassifyUnavailable, CreationReturns,
     StepAccepted, StepFailed, StepInvalid, CorrectionFails, OffersRetry
<1>6. ASSUME NEW resp, CorrectionArrives(resp) \/ ClassifyReads(resp) \/ ClassifyMalformed(resp) PROVE HistoryInv'
  BY <1>1, <1>6 DEF CorrectionArrives, ClassifyReads, ClassifyMalformed
<1>7. CASE Tick \/ Midnight \/ SecretsChange \/ RunnerSeals \/ RunnerArchives \/ UNCHANGED vars
  BY <1>1, <1>7 DEF Tick, Midnight, SecretsChange, RunnerSeals, RunnerArchives, SealExpired, ArchiveNext,
     dialogVars, vars
<1>8. CASE Crash
  <2>1. conf' = conf /\ history' = [key \in Keys |-> <<>>]
    BY <1>8 DEF Crash, Start
  <2> QED
    BY <2>1, FreshHistory, HistoryNext
<1> QED
  BY <1>2, <1>4, <1>5, <1>6, <1>7, <1>8, <1>9, <1>10 DEF Next, Arrives, Proceeds, CommandReturns

-----------------------------------------------------------------------------
(* The context given to the classifier.                                    *)

First(r, s, n) == IsSeq(r) /\ Len(r) = n /\ \A i \in 1..n : r[i] = s[i] /\ i \in 1..Len(s)

LEMMA FirstFacts ==
    ASSUME NEW s, IsSeq(s), NEW n \in Nat, n <= Len(s), NEW r, r = SubSeq(s, 1, n)
    PROVE  First(r, s, n)
<1>1. PICK k \in Nat : k = 0
  OBVIOUS
<1>2. PICK a : a = k + 1
  OBVIOUS
<1>3. PICK b : b = k + n
  OBVIOUS
<1>4. PICK l \in Nat : l = Len(s)
  BY SeqFacts
<1>5. a = 1 /\ b = n /\ k + n <= Len(s)
  BY <1>1, <1>2, <1>3, <1>4
<1>6. r = SubSeq(s, a, b)
  BY <1>5
<1>7. Slice(r, s, k, n)
  BY <1>2, <1>3, <1>5, <1>6, SubSeqFacts
<1>8. \A i \in 1..n : k + i = i /\ i \in 1..l
  BY <1>1, <1>4
<1> QED
  BY <1>4, <1>7, <1>8 DEF Slice, First

\* What is retrieved for a key are summaries of its own conversations.
LEMMA RetrievedIsOwn ==
    ASSUME ConfOK, IsSeq(ltm), NEW key, NEW found, NEW old, old = RetrieveLTM(key, found)
    PROVE  IsSeq(old) /\ Own(old, key)
<1>1. CASE old = <<>>
  BY <1>1 DEF IsSeq, Range, Own
<1>2. CASE old # <<>>
  <2>1. PICK l \in Nat : l = Len(ltm) /\ DOMAIN ltm = 1..l
    BY SeqFacts
  <2>2. PICK P : P = {i \in DOMAIN ltm : ltm[i].key = key /\ ltm[i].vector}
    OBVIOUS
  <2>3. PICK own : own = At(ltm, P)
    OBVIOUS
  <2>4. Picked(own, ltm, P)
    BY <2>1, <2>2, <2>3, AtFacts
  <2>5. IsSeq(own) /\ \A i \in 1..Len(own) : own[i].key = key
    BY <2>2, <2>4 DEF Picked
  <2>6. PICK o \in Nat : o = Len(own)
    BY <2>5, SeqFacts
  <2>7. PICK top \in Nat : top = conf.topK
    BY MemoryNumbers
  <2>8. PICK m : m = Min({top, o})
    OBVIOUS
  <2>9. m \in Nat /\ m <= o
    BY <2>8, MinOfTwo
  <2>10. PICK hits : hits = SubSeq(own, 1, m)
    OBVIOUS
  <2>11. First(hits, own, m)
    BY <2>5, <2>6, <2>9, <2>10, FirstFacts
  <2>12. \A i \in 1..m : hits[i].key = key
    BY <2>5, <2>11 DEF First
  <2>13. PICK Q : Q = {i \in DOMAIN hits : hits[i].summary}
    OBVIOUS
  <2>14. Q \subseteq 1..m
    BY <2>11, <2>13, SeqFacts DEF First
  <2>15. PICK notes : notes = At(hits, Q)
    OBVIOUS
  <2>16. Picked(notes, hits, Q)
    BY <2>9, <2>14, <2>15, AtFacts
  <2>17. IsSeq(notes) /\ \A i \in 1..Len(notes) : notes[i].key = key
    BY <2>12, <2>14, <2>16 DEF Picked
  <2>18. PICK k \in Nat : k = Len(notes) /\ DOMAIN notes = 1..k
    BY <2>17, SeqFacts
  <2>19. Search(key, conf.topK) = hits
    BY <2>2, <2>3, <2>6, <2>7, <2>8, <2>10 DEF Search
  <2>20. old = [i \in DOMAIN notes |-> Message(notes[i].id, notes[i].key, "system", conf.summarySize)]
    BY <1>2, <2>13, <2>15, <2>19 DEF RetrieveLTM
  <2>21. old = [i \in 1..k |-> old[i]]
    BY <2>18, <2>20
  <2>22. IsSeq(old) /\ Len(old) = k
    BY <2>21, MakesSeq
  <2>23. ASSUME NEW i \in 1..k PROVE old[i].key = key /\ old[i].size \in Nat
    <3>1. old[i] = Message(notes[i].id, notes[i].key, "system", conf.summarySize)
      BY <2>18, <2>20
    <3>2. notes[i].key = key
      BY <2>17, <2>18
    <3> QED
      BY <3>1, <3>2, MemoryNumbers DEF Message
  <2> QED
    BY <2>22, <2>23 DEF Own
<1> QED
  BY <1>1, <1>2

LEMMA OwnSized ==
    ASSUME NEW s, NEW key, Own(s, key)
    PROVE  Sized(s)
  BY DEF Own, Sized

LEMMA FirstOwn ==
    ASSUME NEW r, NEW s, NEW n, First(r, s, n), NEW key, Own(s, key)
    PROVE  Own(r, key)
  BY DEF First, Own

LEMMA JoinedOwn ==
    ASSUME NEW a \in Nat, NEW b \in Nat, NEW r, NEW s, NEW t, Joined(r, s, t, a, b), NEW key,
           a = Len(s), b = Len(t), Own(s, key), Own(t, key)
    PROVE  Own(r, key)
<1>1. ASSUME NEW i \in 1..(a + b) PROVE r[i].key = key /\ r[i].size \in Nat
  <2>1. CASE i \in 1..a
    BY <2>1 DEF Joined, Own
  <2>2. CASE i \notin 1..a
    <3>1. PICK j \in 1..b : i = a + j
      <4>1. i - a \in 1..b /\ i = a + (i - a)
        BY <2>2
      <4> QED
        BY <4>1
    <3> QED
      BY <3>1 DEF Joined, Own
  <2> QED
    BY <2>1, <2>2
<1> QED
  BY <1>1 DEF Joined, Own

\* The context of a key: its own messages and summaries, the newest message
\* last, and within the budget but for a message that exceeds it alone.
ContextOK(context, stm, key) ==
    /\ IsSeq(context) /\ Own(context, key)
    /\ stm # <<>> => context # <<>> /\ context[Len(context)] = stm[Len(stm)]
    /\ Len(context) <= 1 \/ EstimateTokens(context) <= conf.ctxTokens

LEMMA AssembledFits ==
    ASSUME ConfOK, NEW key, NEW stm, IsSeq(stm), Own(stm, key), NEW old, IsSeq(old), Own(old, key),
           NEW context, context = AssembleWithBudget(stm, old)
    PROVE  ContextOK(context, stm, key)
<1>1. PICK budget \in Nat : budget = conf.ctxTokens
  BY MemoryNumbers
<1>2. PICK recent : recent = TrimToTokenBudget(stm, budget)
  OBVIOUS
<1>3. /\ Ends(recent, stm) /\ (stm # <<>> => recent # <<>>)
      /\ Len(recent) <= 1 \/ EstimateTokens(recent) <= budget
  BY <1>2, TrimFacts
<1>4. IsSeq(recent) /\ Own(recent, key) /\ Sized(recent)
  BY <1>3, EndsFacts, OwnEnds, OwnSized
<1>5. PICK l \in Nat, b \in Nat : l = Len(old) /\ b = Len(recent)
  BY <1>4, SeqFacts
<1>6. PICK room : room = budget - EstimateTokens(recent)
  OBVIOUS
<1>7. PICK fits : fits = {n \in 0..Len(old) : n = 0 \/ EstimateTokens(SubSeq(old, 1, n)) <= room}
  OBVIOUS
<1>8. PICK m : m = Max(fits)
  OBVIOUS
<1>9. m \in 0..l /\ (m = 0 \/ EstimateTokens(SubSeq(old, 1, m)) <= room)
  <2>1. fits \subseteq Nat /\ 0 \in fits /\ \A x \in fits : x <= l
    BY <1>5, <1>7
  <2>2. m \in fits
    BY <1>8, <2>1, MaxMember
  <2> QED
    BY <1>5, <1>7, <2>2
<1>10. PICK first : first = SubSeq(old, 1, m)
  OBVIOUS
<1>11. m \in Nat /\ m <= Len(old)
  BY <1>5, <1>9
<1>12. First(first, old, m)
  BY <1>10, <1>11, FirstFacts
<1>13. IsSeq(first) /\ Len(first) = m /\ Own(first, key) /\ Sized(first)
  <2>1. Own(first, key)
    BY <1>12, FirstOwn
  <2> QED
    BY <1>12, <2>1, OwnSized DEF First
<1>14. context = first \o recent
  BY <1>1, <1>2, <1>6, <1>7, <1>8, <1>10 DEF AssembleWithBudget
<1>15. Joined(context, first, recent, m, b)
  BY <1>4, <1>5, <1>13, <1>14, ConcatFacts
<1>16. /\ IsSeq(context) /\ Len(context) = m + b /\ \A i \in 1..b : context[m + i] = recent[i]
  BY <1>15 DEF Joined
<1>17. Own(context, key)
  BY <1>4, <1>5, <1>11, <1>13, <1>15, JoinedOwn
<1>18. ASSUME stm # <<>> PROVE context # <<>> /\ context[Len(context)] = stm[Len(stm)]
  <2>1. recent # <<>>
    BY <1>3, <1>18
  <2>2. recent[Len(recent)] = stm[Len(stm)] /\ b > 0
    BY <1>3, <1>5, <2>1, EndsLast
  <2>3. b \in 1..b /\ Len(context) > 0
    BY <1>5, <1>11, <1>16, <2>2
  <2>4. context[m + b] = recent[b]
    BY <1>16, <2>3
  <2> QED
    BY <1>5, <1>16, <2>2, <2>3, <2>4, SeqFacts
<1>19. /\ EstimateTokens(context) = EstimateTokens(first) + EstimateTokens(recent)
       /\ EstimateTokens(first) \in Nat /\ EstimateTokens(recent) \in Nat
  BY <1>4, <1>13, <1>14, EstimateConcat
<1>20. Len(context) <= 1 \/ EstimateTokens(context) <= budget
  <2>1. CASE m = 0
    <3>1. Len(context) = b
      BY <1>5, <1>16, <2>1
    <3>2. context = recent
      <4>1. \A i \in 1..b : m + i = i
        BY <2>1
      <4>2. \A i \in 1..b : context[i] = recent[i]
        BY <1>16, <4>1
      <4>3. context = [i \in 1..b |-> context[i]] /\ recent = [i \in 1..b |-> recent[i]]
        BY <1>4, <1>5, <1>16, <3>1, SeqFacts
      <4> QED
        BY <4>2, <4>3
    <3> QED
      BY <1>3, <3>2
  <2>2. CASE m # 0
    <3>1. PICK x \in Nat, y \in Nat : x = EstimateTokens(first) /\ y = EstimateTokens(recent)
      BY <1>19
    <3>2. x <= budget - y
      BY <1>6, <1>9, <1>10, <2>2, <3>1
    <3>3. EstimateTokens(context) = x + y
      BY <1>19, <3>1
    <3> QED
      BY <3>1, <3>2, <3>3
  <2> QED
    BY <2>1, <2>2
<1> QED
  BY <1>1, <1>16, <1>17, <1>18, <1>20 DEF ContextOK

\* Only admission without memory and assembly hand a context to the classifier.
LEMMA ClassifiedBy ==
    ASSUME TurnOK, [Next]_vars, turn'.pc = "classify", turn.pc # "classify"
    PROVE  AssemblesContext \/ \E key \in conf.keys, text \in conf.texts : ClassifyAdmitted(key, text)
<1>1. turn' # turn /\ turn' # Idle
  BY DEF Idle
<1>2. ~StepInvalid
  BY <1>1 DEF StepInvalid
<1>3. ~ArchiveSealed
  <2>1. ASSUME ArchiveSealed PROVE FALSE
    <3>1. turn.pc = "sealing" /\ turn' = [turn EXCEPT !.pc = "assemble", !.conv = NoConv]
      BY <2>1 DEF ArchiveSealed
    <3> QED
      BY <3>1 DEF TurnOK, Turn
  <2> QED
    BY <2>1
<1>4. ASSUME NEW key, NEW text
      PROVE  ~(AnswersNo(key, text) \/ AnswersOther(key, text) \/ KeywordPath(key, text) \/ ClassifyRefused(key, text)
               \/ AnswersYes(key, text) \/ ConfirmsCreation(key, text))
  BY <1>1 DEF AnswersNo, AnswersOther, KeywordPath, ClassifyRefused, AnswersYes, ConfirmsCreation, Dispatching
<1>5. ~(ClassifyDegraded \/ ClassifyUnavailable \/ CreationReturns \/ StepAccepted \/ StepFailed
        \/ CorrectionFails \/ Crash)
  BY <1>1 DEF ClassifyDegraded, ClassifyUnavailable, CreationReturns, StepAccepted, StepFailed,
     CorrectionFails, OffersRetry, Crash, Start
<1>6. ASSUME NEW resp PROVE ~(ClassifyAnswered(resp) \/ CorrectionArrives(resp) \/ ClassifyMalformed(resp))
  BY <1>1 DEF ClassifyAnswered, CorrectionArrives, ClassifyMalformed
<1>7. ~(Tick \/ Midnight \/ SecretsChange \/ RunnerSeals \/ RunnerArchives \/ UNCHANGED vars)
  BY <1>1 DEF Tick, Midnight, SecretsChange, RunnerSeals, RunnerArchives, dialogVars, vars
<1>8. ASSUME NEW resp PROVE ~(ClassifyReads(resp) \/ ReadReturns)
  BY <1>1, ReadTurn
<1> QED
  BY <1>2, <1>3, <1>4, <1>5, <1>6, <1>7, <1>8 DEF Next, Arrives, Proceeds, CommandReturns

\* What ContextIsOwn says of the message and the key that is classified.
ShownIsOwn(context, key) == \A i \in DOMAIN context : context[i].key = key
ShownEnds(context) == conf.memory /\ IsActive(turn.key) => context # <<>> /\ Last(context) = turn.msg
ShownFits(context) == conf.memory => Len(context) <= 1 \/ EstimateTokens(context) <= conf.ctxTokens

LEMMA ContextAssembled ==
    ASSUME ConfOK, TurnOK, TalkInv, MemInv, NewestInv, AssemblesContext, NEW context, context = turn'.context
    PROVE  ShownIsOwn(context, turn'.key) /\ ShownEnds(context) /\ ShownFits(context)
<1>1. PICK found \in BOOLEAN : turn' = [turn EXCEPT !.pc = "classify", !.context = Assemble(turn.key, found)]
  BY DEF AssemblesContext
<1>2. turn.pc = "assemble" /\ DOMAIN turn = Turn
  BY DEF AssemblesContext, TurnOK
<1>3. PICK key \in Keys : key = turn.key
  BY <1>2 DEF TalkInv
<1>4. turn'.key = key /\ context = Assemble(key, found)
  BY <1>1, <1>2, <1>3 DEF Turn
<1>5. PICK stm : stm = GetActiveConversation(key)
  OBVIOUS
<1>6. PICK old : old = RetrieveLTM(key, found)
  OBVIOUS
<1>7. IsSeq(ltm) /\ TracksOK(convos, started, said)
  BY DEF MemInv, MemOK, LtmOK
<1>8. IsSeq(old) /\ Own(old, key)
  BY <1>6, <1>7, RetrievedIsOwn
<1>9. IsSeq(stm) /\ Own(stm, key) /\ (IsActive(key) => stm # <<>> /\ stm[Len(stm)] = turn.msg)
  <2>1. CASE IsActive(key)
    <3>1. stm = convos[key].msgs /\ key \in DOMAIN convos
      BY <1>5, <2>1 DEF GetActiveConversation, IsActive
    <3>2. convos[key].key = key /\ Held(convos[key].msgs, convos[key].key, said[convos[key].id])
      BY <1>7, <3>1 DEF TracksOK, ActiveOK, ConvOK
    <3>3. PICK all : Ends(stm, all) /\ stm # <<>> /\ Own(stm, key)
      BY <3>1, <3>2 DEF Held
    <3>4. NewestIs(convos, key, turn.msg)
      BY <1>2, <1>3, <2>1 DEF NewestInv, Recorded
    <3>5. stm[Len(stm)] = turn.msg
      BY <3>1, <3>4 DEF NewestIs
    <3> QED
      BY <3>3, <3>5, EndsFacts
  <2>2. CASE ~IsActive(key)
    <3>1. stm = <<>>
      BY <1>5, <2>2 DEF GetActiveConversation
    <3> QED
      BY <2>2, <3>1 DEF IsSeq, Range, Own
  <2> QED
    BY <2>1, <2>2
<1>10. context = AssembleWithBudget(stm, old)
  BY <1>4, <1>5, <1>6 DEF Assemble
<1>11. ContextOK(context, stm, key)
  BY <1>8, <1>9, <1>10, AssembledFits
<1>12. DOMAIN context = 1..Len(context)
  BY <1>11, SeqFacts DEF ContextOK
<1>13. ShownIsOwn(context, key)
  BY <1>11, <1>12 DEF ShownIsOwn, ContextOK, Own
<1>14. ShownEnds(context)
  BY <1>3, <1>9, <1>11 DEF ShownEnds, ContextOK, Last
<1>15. ShownFits(context)
  BY <1>11 DEF ShownFits, ContextOK
<1> QED
  BY <1>4, <1>13, <1>14, <1>15

LEMMA ContextStep ==
    ASSUME ConfOK, TurnOK, TalkInv, MemInv, NewestInv, HistoryInv, [Next]_vars,
           turn'.pc = "classify", turn.pc # "classify", NEW context, context = turn'.context
    PROVE  ShownIsOwn(context, turn'.key) /\ ShownEnds(context) /\ ShownFits(context)
<1>1. CASE AssemblesContext
  BY <1>1, ContextAssembled
<1>2. ASSUME NEW key \in conf.keys, NEW text \in conf.texts, ClassifyAdmitted(key, text)
      PROVE  ShownIsOwn(context, turn'.key) /\ ShownEnds(context) /\ ShownFits(context)
  <2>1. ~conf.memory /\ turn'.key = key /\ context = history[key] /\ key \in Keys
    BY <1>2, AdmittedTurn, KeysOK
  <2>2. IsSeq(context) /\ \A i \in 1..Len(context) : context[i].key = key
    BY <2>1 DEF HistoryInv, HistoryOK
  <2> QED
    BY <2>1, <2>2, SeqFacts DEF ShownIsOwn, ShownEnds, ShownFits
<1> QED
  BY <1>1, <1>2, ClassifiedBy

-----------------------------------------------------------------------------
(* The provider, and the health that is reported.                          *)

ProviderInv ==
    /\ provider = [key |-> provider.key, model |-> provider.model]
    /\ health \in {"ok", "degraded", "unavailable"}

LEMMA ResolvedIsCurrent ==
    ASSUME ProviderInv
    PROVE  /\ Resolved = [key |-> Resolved.key, model |-> Resolved.model]
           /\ EffectiveKey # NoName => Resolved = [key |-> EffectiveKey, model |-> model]
<1>1. CASE EffectiveKey = NoName
  BY <1>1 DEF Resolved
<1>2. CASE EffectiveKey # NoName /\ CacheIsCurrent
  <2>1. Resolved = provider /\ provider.key = EffectiveKey /\ provider.model = model
    BY <1>2 DEF Resolved, CacheIsCurrent
  <2> QED
    BY <2>1 DEF ProviderInv
<1>3. CASE EffectiveKey # NoName /\ ~CacheIsCurrent
  BY <1>3 DEF Resolved
<1> QED
  BY <1>1, <1>2, <1>3

LEMMA ProviderStep ==
    ASSUME ProviderInv, [Next]_vars
    PROVE  ProviderInv'
<1>1. ASSUME provider' = provider \/ provider' = Resolved, health' \in {health, "ok", "degraded", "unavailable"}
      PROVE  ProviderInv'
  BY <1>1, ResolvedIsCurrent DEF ProviderInv
<1>2. ASSUME NEW key, NEW text, ClassifyAdmitted(key, text) \/ ClassifyRefused(key, text) PROVE ProviderInv'
  BY <1>1, <1>2 DEF ClassifyAdmitted, ClassifyRefused, MeetsQuotas
<1>3. ASSUME NEW resp, ClassifyAnswered(resp) \/ CorrectionArrives(resp) \/ ClassifyReads(resp) \/ ClassifyMalformed(resp)
      PROVE  ProviderInv'
  BY <1>1, <1>3 DEF ClassifyAnswered, CorrectionArrives, ClassifyReads, ClassifyMalformed, Accounts
<1>4. ASSUME NEW key, NEW text,
             \/ AnswersNo(key, text) \/ AnswersOther(key, text) \/ AnswersYes(key, text)
             \/ ConfirmsCreation(key, text) \/ KeywordPath(key, text)
      PROVE  ProviderInv'
  BY <1>1, <1>4 DEF AnswersNo, AnswersOther, AnswersYes, ConfirmsCreation, KeywordPath
<1>5. CASE \/ ArchiveSealed \/ AssemblesContext \/ ClassifyDegraded \/ ClassifyUnavailable \/ CreationReturns
           \/ StepAccepted \/ StepFailed \/ StepInvalid \/ CorrectionFails \/ ReadReturns
  BY <1>1, <1>5 DEF ArchiveSealed, AssemblesContext, ClassifyDegraded, ClassifyUnavailable, CreationReturns,
     StepAccepted, StepFailed, StepInvalid, CorrectionFails, OffersRetry, ReadReturns
<1>6. CASE Tick \/ Midnight \/ SecretsChange \/ RunnerSeals \/ RunnerArchives \/ UNCHANGED vars
  BY <1>1, <1>6 DEF Tick, Midnight, SecretsChange, RunnerSeals, RunnerArchives, dialogVars, vars
<1>7. CASE Crash
  BY <1>7 DEF Crash, Start, ProviderInv
<1> QED
  BY <1>2, <1>3, <1>4, <1>5, <1>6, <1>7 DEF Next, Arrives, Proceeds, CommandReturns

LEMMA ProvidedIsCurrent ==
    ASSUME ProviderInv, TurnOK, [Next]_vars,
           turn'.pc \in {"sealing", "assemble", "classify", "correct"}, turn.pc \in {"idle", "dispatch"}
    PROVE  turn'.provider = [key |-> EffectiveKey, model |-> model]
<1>1. ASSUME NEW key, NEW text, ClassifyAdmitted(key, text)
      PROVE  turn'.provider = [key |-> EffectiveKey, model |-> model]
  <2>1. EffectiveKey # NoName /\ turn'.provider = Resolved
    BY <1>1, AdmittedTurn DEF ClassifyAdmitted, MeetsQuotas
  <2> QED
    BY <2>1, ResolvedIsCurrent
<1>2. turn' # turn /\ turn' # Idle
  BY DEF Idle
<1>3. CASE StepInvalid
  <2>1. /\ EffectiveKey # NoName
        /\ turn' = [pc |-> "correct", key |-> turn.key, step |-> turn.step, provider |-> Resolved]
    BY <1>2, <1>3 DEF StepInvalid
  <2>2. turn'.provider = Resolved
    BY <2>1
  <2> QED
    BY <2>1, <2>2, ResolvedIsCurrent
<1>4. ~ArchiveSealed /\ ~AssemblesContext
  BY DEF ArchiveSealed, AssemblesContext
<1>5. ASSUME NEW key, NEW text
      PROVE  ~(AnswersNo(key, text) \/ AnswersOther(key, text) \/ KeywordPath(key, text) \/ ClassifyRefused(key, text)
               \/ AnswersYes(key, text) \/ ConfirmsCreation(key, text))
  BY <1>2 DEF AnswersNo, AnswersOther, KeywordPath, ClassifyRefused, AnswersYes, ConfirmsCreation, Dispatching
<1>6. ~(ClassifyDegraded \/ ClassifyUnavailable \/ CreationReturns \/ StepAccepted \/ StepFailed
        \/ CorrectionFails \/ Crash)
  BY <1>2 DEF ClassifyDegraded, ClassifyUnavailable, CreationReturns, StepAccepted, StepFailed,
     CorrectionFails, OffersRetry, Crash, Start
<1>7. ASSUME NEW resp PROVE ~(ClassifyAnswered(resp) \/ CorrectionArrives(resp) \/ ClassifyMalformed(resp))
  BY <1>2 DEF ClassifyAnswered, CorrectionArrives, ClassifyMalformed
<1>8. ~(Tick \/ Midnight \/ SecretsChange \/ RunnerSeals \/ RunnerArchives \/ UNCHANGED vars)
  BY <1>2 DEF Tick, Midnight, SecretsChange, RunnerSeals, RunnerArchives, dialogVars, vars
<1>9. ASSUME NEW resp PROVE ~(ClassifyReads(resp) \/ ReadReturns)
  BY <1>2, ReadTurn
<1> QED
  BY <1>1, <1>3, <1>4, <1>5, <1>6, <1>7, <1>8, <1>9 DEF Next, Arrives, Proceeds, CommandReturns

-----------------------------------------------------------------------------
(* The theorems.                                                           *)

\* The inductive invariant: what the dialogue says and remembers, its quotas,
\* the conversations and where they are, and the provider it asks.
DialogInv ==
    /\ ConfOK /\ TurnOK /\ TalkInv /\ WindowInv /\ BudgetInv
    /\ MemInv /\ NewestInv /\ HistoryInv /\ ProviderInv

LEMMA ConfStep ==
    ASSUME ConfOK, [Next]_vars
    PROVE  ConfOK'
<1>1. conf' = conf
  <2>1. ASSUME NEW key, NEW text,
               \/ AnswersNo(key, text) \/ AnswersOther(key, text) \/ AnswersYes(key, text)
               \/ ConfirmsCreation(key, text) \/ KeywordPath(key, text)
               \/ ClassifyRefused(key, text) \/ ClassifyAdmitted(key, text)
        PROVE  conf' = conf
    BY <2>1 DEF AnswersNo, AnswersOther, AnswersYes, ConfirmsCreation, KeywordPath, ClassifyRefused,
       ClassifyAdmitted
  <2>2. ASSUME NEW resp, ClassifyAnswered(resp) \/ CorrectionArrives(resp) \/ ClassifyReads(resp) \/ ClassifyMalformed(resp)
        PROVE  conf' = conf
    BY <2>2 DEF ClassifyAnswered, CorrectionArrives, ClassifyReads, ClassifyMalformed
  <2>3. ASSUME \/ ArchiveSealed \/ AssemblesContext \/ ClassifyDegraded \/ ClassifyUnavailable
               \/ CreationReturns \/ StepAccepted \/ StepFailed \/ StepInvalid \/ CorrectionFails \/ ReadReturns
        PROVE  conf' = conf
    BY <2>3 DEF ArchiveSealed, AssemblesContext, ClassifyDegraded, ClassifyUnavailable, CreationReturns,
       StepAccepted, StepFailed, StepInvalid, CorrectionFails, OffersRetry, ReadReturns
  <2>4. ASSUME Tick \/ Midnight \/ SecretsChange \/ Crash
        PROVE  conf' = conf
    BY <2>4 DEF Tick, Midnight, SecretsChange, Crash
  <2>5. ASSUME RunnerSeals \/ RunnerArchives \/ UNCHANGED vars
        PROVE  conf' = conf
    BY <2>5 DEF RunnerSeals, RunnerArchives, SealExpired, ArchiveNext, vars
  <2> QED
    BY <2>1, <2>2, <2>3, <2>4, <2>5 DEF Next, Arrives, Proceeds, CommandReturns
<1> QED
  BY <1>1 DEF ConfOK

LEMMA DialogInit ==
    ASSUME Init
    PROVE  DialogInv
<1>1. ConfOK /\ TurnOK
  BY DEF Init, ConfOK, TurnOK, Idle
<1>2. HistoryInv
  BY <1>1, FreshHistory DEF Init, HistoryInv
<1>3. ProviderInv
  BY DEF Init, ProviderInv
<1> QED
  BY <1>1, <1>2, <1>3, TalkInit, WindowInit, BudgetInit, MemInit DEF DialogInv

LEMMA DialogStep ==
    ASSUME DialogInv, [Next]_vars
    PROVE  DialogInv'
<1>1. /\ ConfOK /\ TurnOK /\ TalkInv /\ WindowInv /\ BudgetInv
      /\ MemInv /\ NewestInv /\ HistoryInv /\ ProviderInv
  BY DEF DialogInv
<1>2. ConfOK' /\ TurnOK' /\ TalkInv'
  BY <1>1, ConfStep, TurnStep, TalkStep
<1>3. WindowInv' /\ BudgetInv'
  BY <1>1, WindowStep, BudgetStep
<1>4. MemInv' /\ NewestInv'
  BY <1>1, MemStep
<1>5. HistoryInv' /\ ProviderInv'
  BY <1>1, HistoryStep, ProviderStep
<1> QED
  BY <1>2, <1>3, <1>4, <1>5 DEF DialogInv

\* Whatever is sent, answered, configured and lost in a crash, the dialogue
\* keeps to its inductive invariant.
THEOREM Invariant == Spec => []DialogInv
<1>1. Init => DialogInv
  BY DialogInit
<1>2. DialogInv /\ [Next]_vars => DialogInv'
  BY DialogStep
<1> QED
  BY <1>1, <1>2, PTL DEF Spec

LEMMA DialogTypes ==
    ASSUME DialogInv
    PROVE  TypeOK
<1>1. /\ ConfOK /\ TalkInv /\ WindowInv /\ MemInv /\ HistoryInv /\ ProviderInv
  BY DEF DialogInv
<1>2. conf \in Deployments /\ turn.pc \in Pcs /\ DOMAIN sessions \subseteq Keys
  BY <1>1 DEF ConfOK, TalkInv
<1>3. /\ DOMAIN convos \subseteq Keys /\ DOMAIN said = 1..started
      /\ \A key \in DOMAIN convos : convos[key].key = key /\ convos[key].idle \in 0..(conf.cooldown + 1)
  BY <1>1 DEF MemInv, MemOK, TracksOK, ActiveOK
<1>4. ASSUME NEW key \in DOMAIN sessions
      PROVE  /\ sessions[key].age \in 0..(SessionTTL + 1)
             /\ sessions[key].kind = "nl" => sessions[key].pending # <<>>
  BY <1>1 DEF TalkInv, SessionOK, PlanOK
<1>5. ASSUME turn.pc = "correct" \/ NLStepRunning
      PROVE  /\ turn.key \in DOMAIN sessions /\ sessions[turn.key].kind = "nl"
             /\ turn.step = Head(sessions[turn.key].pending)
  <2>1. /\ turn.key \in DOMAIN sessions /\ sessions[turn.key].kind = "nl"
        /\ SessionOK(sessions[turn.key], told[turn.key])
        /\ turn.step = sessions[turn.key].pending[1]
    BY <1>1, <1>5, WaitFacts DEF Waits
  <2>2. PICK pending : pending = sessions[turn.key].pending
    OBVIOUS
  <2>3. IsSeq(pending) /\ pending # <<>>
    BY <2>1, <2>2 DEF SessionOK, PlanOK
  <2>4. Head(pending) = pending[1]
    BY <2>3, TailFacts
  <2> QED
    BY <2>1, <2>2, <2>4
<1>6. \A sender \in Senders : Cardinality(DOMAIN limiter[sender]) <= conf.limit
  BY <1>1, WindowImplies
<1>7. \A key \in Keys : Len(history[key]) <= conf.historyMax
  BY <1>1 DEF HistoryInv, HistoryOK
<1>8. health \in {"ok", "degraded", "unavailable"}
  BY <1>1 DEF ProviderInv
<1> QED
  BY <1>2, <1>3, <1>4, <1>5, <1>6, <1>7, <1>8 DEF TypeOK

\* The dialogue is well typed, what is pending is what is left of the
\* proposal but for the correction of its first step (handleNLConfirmationResponse,
\* requeryFailedNLStep), agent IDs are lower-case, a topology change is
\* pending only as the correction of a failed step, and the rate limit and, for
\* the tokens that are accounted (not those of answers that are not JSON), the
\* budget hold across rooms, windows and midnight: for any limits, messages
\* and answers.
THEOREM InvHolds == Spec => []Inv
<1>1. DialogInv => Inv
  <2>1. SUFFICES ASSUME DialogInv PROVE Inv
    OBVIOUS
  <2>2. TypeOK
    BY <2>1, DialogTypes
  <2>3. PlanKept /\ CorrectionsBounded /\ TopologyNeedsCorrection /\ IdsNormalised
    BY <2>1, TalkImplies DEF DialogInv
  <2>4. CallsWithinWindow
    BY <2>1, WindowImplies DEF DialogInv
  <2>5. SpentWithinBudget
    BY <2>1 DEF DialogInv, BudgetInv
  <2> QED
    BY <2>2, <2>3, <2>4, <2>5 DEF Inv
<1> QED
  BY <1>1, Invariant, PTL

\* Whether the next message, the runner or a crash takes a conversation out of
\* the tracker (recordMessageAt, SealExpired), it is in one place and archived
\* at most once, and what is held of it are its newest messages without a gap.
THEOREM ConversationsAreKept == Spec => []ConversationsKept
<1>1. DialogInv => ConversationsKept
  BY HomesAreOne, NewestAreHeld DEF DialogInv, ConversationsKept
<1> QED
  BY <1>1, Invariant, PTL

\* What the loop dispatches on a yes is the command its sender was shown, at
\* most sessionTTL before; what it dispatches without asking, to read from it
\* (handleNLReadQueries), is any command the model names, but without
\* arguments and flags; and an agent is created from keywords only after each
\* of its secrets was seen in the store, if its template could be rendered to
\* know them (handleConfirmationResponse, handleNLConfirmationResponse).
THEOREM ConfirmedRuns == Spec => OnlyConfirmedRuns
<1>1. DialogInv /\ [Next]_vars =>
         [/\ turn'.pc = "dispatch" /\ turn.pc # "dispatch" =>
                turn'.step = told[turn'.key].step /\ told[turn'.key].age <= SessionTTL
          /\ turn'.pc = "reading" => turn'.step.args = <<>> /\ DOMAIN turn'.step.flags = {}]_vars
  <2>1. SUFFICES ASSUME DialogInv, [Next]_vars
                 PROVE  /\ turn'.pc = "dispatch" /\ turn.pc # "dispatch" =>
                              turn'.step = told[turn'.key].step /\ told[turn'.key].age <= SessionTTL
                        /\ turn'.pc = "reading" => turn'.step.args = <<>> /\ DOMAIN turn'.step.flags = {}
    OBVIOUS
  <2>2. turn'.pc = "reading" => turn'.step.args = <<>> /\ DOMAIN turn'.step.flags = {}
    BY <2>1, TurnStep DEF DialogInv, TurnOK, Bare
  <2> QED
    BY <2>1, <2>2, DispatchedIsShown DEF DialogInv
<1>2. DialogInv /\ [Next]_vars =>
         [turn'.pc = "dispatch" /\ turn.pc # "dispatch" /\ ~turn'.nl =>
             LET template == turn'.step.flags["template"] IN
             template \in conf.broken \/ conf.required[template] \subseteq told'[turn'.key].seen]_vars
  BY DispatchedIsShown DEF DialogInv
<1>3. Spec => ConfirmedIsShown
  BY <1>1, Invariant, PTL DEF Spec, ConfirmedIsShown
<1>4. Spec => CreationHasSecrets
  BY <1>2, Invariant, PTL DEF Spec, CreationHasSecrets
<1> QED
  BY <1>3, <1>4, PTL DEF OnlyConfirmedRuns

\* The context that handleNLClassify hands to the classifier holds messages and
\* summaries of the same room and sender, ends with the message to classify
\* while its conversation is active, and fits the token budget unless that
\* message alone exceeds it (ContextAssembler.assembleWithBudget).
THEOREM ContextsAreOwn == Spec => ContextIsOwn
<1>1. ASSUME DialogInv, [Next]_vars, turn'.pc = "classify", turn.pc # "classify"
      PROVE  LET context == turn'.context IN
             /\ \A i \in DOMAIN context : context[i].key = turn'.key
             /\ conf.memory /\ IsActive(turn.key) => context # <<>> /\ Last(context) = turn.msg
             /\ conf.memory => Len(context) <= 1 \/ EstimateTokens(context) <= conf.ctxTokens
  <2>1. PICK context : context = turn'.context
    OBVIOUS
  <2>2. ConfOK /\ TurnOK /\ TalkInv /\ MemInv /\ NewestInv /\ HistoryInv
    BY <1>1 DEF DialogInv
  <2>3. ShownIsOwn(context, turn'.key) /\ ShownEnds(context) /\ ShownFits(context)
    BY <1>1, <2>1, <2>2, ContextStep
  <2> QED
    BY <2>1, <2>3 DEF ShownIsOwn, ShownEnds, ShownFits
<1>2. DialogInv /\ [Next]_vars =>
         [turn'.pc = "classify" /\ turn.pc # "classify" =>
             LET context == turn'.context IN
             /\ \A i \in DOMAIN context : context[i].key = turn'.key
             /\ conf.memory /\ IsActive(turn.key) => context # <<>> /\ Last(context) = turn.msg
             /\ conf.memory => Len(context) <= 1 \/ EstimateTokens(context) <= conf.ctxTokens]_vars
  BY <1>1
<1> QED
  BY <1>2, Invariant, PTL DEF Spec, ContextIsOwn

\* The cache of resolveNLPProvider never yields a provider made of a key or a
\* configuration that was replaced before the message was taken up.
THEOREM ProvidersAreCurrent == Spec => ProviderIsCurrent
<1>1. DialogInv /\ [Next]_vars =>
         [turn'.pc \in {"sealing", "assemble", "classify", "correct"} /\ turn.pc \in {"idle", "dispatch"} =>
             turn'.provider = [key |-> EffectiveKey, model |-> model]]_vars
  BY ProvidedIsCurrent DEF DialogInv
<1> QED
  BY <1>1, Invariant, PTL DEF Spec, ProviderIsCurrent
=============================================================================
