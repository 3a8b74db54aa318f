------------------------- MODULE ConversationMemory -------------------------
(***************************************************************************)
(* Conversation memory of the control plane: the tracker of active         *)
(* conversations (internal/ruriko/memory/tracker.go), the pipeline and the *)
(* periodic runner that archive the ones that went quiet (seal.go), the    *)
(* long-term store (ltm_sqlite.go, ltm_noop.go) and the assembly of the    *)
(* context given to the classifier (common/memory/context.go).             *)
(*                                                                         *)
(* The tracker's operations are operators on the memory; who calls them,   *)
(* and when, is in NLDialog.  A message is its number, author, role and    *)
(* estimated size.  Times are ages in ticks, kept only as far as they are  *)
(* told apart.  The deployment `conf` gives the limits and the backends.   *)
(***************************************************************************)
EXTENDS Integers, Sequences, FiniteSets, FiniteSetsExt, SequencesExt

CONSTANTS Keys     \* conversation keys: a room and a sender

VARIABLES conf,    \* the deployment
          convos,  \* ConversationTracker.convos: the active conversation of a key
          runner,  \* conversations the periodic runner took and has yet to archive
          ltm,     \* ltm_conversations, the newest first
          started, \* conversations started so far; they are numbered
          said,    \* history: the messages recorded in each conversation
          gone     \* history: conversations that are kept nowhere any more

memoryVars == <<convos, runner, ltm, started, said, gone>>

\* A map with the value of one key set.
Updated(map, key, value) == [k \in DOMAIN map \cup {key} |-> IF k = key THEN value ELSE map[k]]

\* The elements of a sequence at the given places, in their order.
InOrder(places) ==
    CHOOSE f \in [1..Cardinality(places) -> places] : \A i, j \in DOMAIN f : i < j => f[i] < f[j]
At(s, places) == [i \in 1..Cardinality(places) |-> s[InOrder(places)[i]]]

NoConv == [id |-> 0]

Message(n, key, role, size) == [n |-> n, key |-> key, role |-> role, size |-> size]

EstimateTokens(msgs) ==
    LET total[n \in 0..Len(msgs)] == IF n = 0 THEN 0 ELSE total[n - 1] + msgs[n].size
    IN  total[Len(msgs)]

Newest(msgs, n) == SubSeq(msgs, Len(msgs) - n + 1, Len(msgs))

\* The longest tail within the budget, and never less than one message.
TrimToTokenBudget(msgs, budget) ==
    LET within == {n \in 1..Len(msgs) : n = 1 \/ EstimateTokens(Newest(msgs, n)) <= budget}
    IN  Newest(msgs, IF msgs = <<>> THEN 0 ELSE Max(within))

EnforceBufferLimits(msgs) ==
    TrimToTokenBudget(Newest(msgs, Min({Len(msgs), conf.maxMessages})), conf.stmTokens)

-----------------------------------------------------------------------------
(* The tracker. *)

IsActive(key) == key \in DOMAIN convos
IsStale(key) == IsActive(key) /\ convos[key].idle > conf.cooldown

StartConversation(key) == [id |-> started + 1, key |-> key, msgs |-> <<>>, idle |-> 0]

\* The conversation a message of the key goes to.
ConversationFor(key) ==
    IF IsActive(key) /\ ~IsStale(key) THEN convos[key] ELSE StartConversation(key)

\* The conversation that recording a message of the key seals, if any.
SealedBy(key) == IF IsStale(key) THEN convos[key] ELSE NoConv

RecordMessage(key, msg) ==
    LET conv == ConversationFor(key) IN
    /\ convos' = Updated(convos, key, [conv EXCEPT !.msgs = EnforceBufferLimits(Append(@, msg)), !.idle = 0])
    /\ started' = Max({started, conv.id})
    /\ said' = Updated(said, conv.id, Append(IF conv.id \in DOMAIN said THEN said[conv.id] ELSE <<>>, msg))

GetActiveConversation(key) == IF IsActive(key) THEN convos[key].msgs ELSE <<>>

\* Mutant: a sealed conversation stays in the tracker.
SealExpiredKeeps ==
    LET expired == {key \in DOMAIN convos : IsStale(key)} IN
    /\ runner = {} /\ expired # {}
    /\ runner' = {convos[key] : key \in expired}
    /\ UNCHANGED <<conf, convos, ltm, started, said, gone>>

\* Mutant: the runner finds nothing to seal.
SealExpiredNever == FALSE /\ UNCHANGED <<conf, memoryVars>>

\* The runner's tick: what is stale leaves the tracker, to be archived one
\* conversation after the other.
SealExpired ==
    LET expired == {key \in DOMAIN convos : IsStale(key)} IN
    /\ runner = {} /\ expired # {}
    /\ runner' = {convos[key] : key \in expired}
    /\ convos' = Restrict(convos, DOMAIN convos \ expired)
    /\ UNCHANGED <<conf, ltm, started, said, gone>>

-----------------------------------------------------------------------------
(* The archive. *)

\* Summarising and embedding may fail; the entry is stored all the same.
Entries(conv) ==
    {[id |-> conv.id, key |-> conv.key, msgs |-> conv.msgs, summary |-> got[1], vector |-> got[2]] :
        got \in {g \in BOOLEAN \X BOOLEAN : g[2] => g[1] /\ conf.embeds}}

\* INSERT OR REPLACE, by conversation id.
Stored(entry) == <<entry>> \o At(ltm, {i \in DOMAIN ltm : ltm[i].id # entry.id})

\* Seal of one conversation; a failure to store it is only logged, and the
\* no-op store keeps nothing.
Seal(conv) ==
    \/ /\ conf.keeps
       /\ \E entry \in Entries(conv) : ltm' = Stored(entry)
       /\ gone' = gone
    \/ /\ conf.storeFails \/ ~conf.keeps
       /\ gone' = gone \cup {conv.id}
       /\ ltm' = ltm

\* One round of the runner's loop.
ArchiveNext ==
    \E conv \in runner :
       /\ Seal(conv)
       /\ runner' = runner \ {conv}
       /\ UNCHANGED <<conf, convos, started, said>>

-----------------------------------------------------------------------------
(* Context assembly. *)

\* Mutant: the archive is searched for the room only.
SearchAnySender(key, topK) ==
    LET own == At(ltm, {i \in DOMAIN ltm : ltm[i].vector})
    IN  SubSeq(own, 1, Min({topK, Len(own)}))

\* The store cannot embed a query, so Search returns the newest entries that
\* have a vector.
Search(key, topK) ==
    LET own == At(ltm, {i \in DOMAIN ltm : ltm[i].key = key /\ ltm[i].vector})
    IN  SubSeq(own, 1, Min({topK, Len(own)}))

\* `found` says whether embedding the message and searching succeeded.
RetrieveLTM(key, found) ==
    IF ~conf.embeds \/ ~found THEN <<>>
    ELSE LET hits == Search(key, conf.topK)
             told == At(hits, {i \in DOMAIN hits : hits[i].summary})
         IN  [i \in DOMAIN told |-> Message(told[i].id, told[i].key, "system", conf.summarySize)]

\* Long-term context first, as far as the short-term messages leave room.
AssembleWithBudget(stm, old) ==
    LET recent == TrimToTokenBudget(stm, conf.ctxTokens)
        room == conf.ctxTokens - EstimateTokens(recent)
        fits == {n \in 0..Len(old) : n = 0 \/ EstimateTokens(SubSeq(old, 1, n)) <= room}
    IN  SubSeq(old, 1, Max(fits)) \o recent

Assemble(key, found) == AssembleWithBudget(GetActiveConversation(key), RetrieveLTM(key, found))

-----------------------------------------------------------------------------
MemoryInit ==
    /\ convos = <<>> /\ runner = {} /\ ltm = <<>> /\ started = 0
    /\ said = <<>> /\ gone = {}

\* The process ends: only the long-term store is left.
Forget(sealing) ==
    /\ convos' = <<>> /\ runner' = {}
    /\ gone' = gone \cup {convos[key].id : key \in DOMAIN convos}
                    \cup {conv.id : conv \in runner \cup sealing}
    /\ UNCHANGED <<ltm, started, said>>

Older(conv) == [conv EXCEPT !.idle = Min({@ + 1, conf.cooldown + 1})]
MemoryTick ==
    /\ convos' = [key \in DOMAIN convos |-> Older(convos[key])]
    /\ UNCHANGED <<runner, ltm, started, said, gone>>
=============================================================================
