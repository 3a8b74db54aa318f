----------------------------- MODULE Approvals -----------------------------
(***************************************************************************)
(* The approval workflow of the Ruriko control plane                       *)
(* (internal/ruriko/approvals, commands/approval_handlers.go, the gate in  *)
(* every sensitive command handler, and the two ways a command reaches     *)
(* it: typed, through the router's flag stripping, or handed over by the   *)
(* natural-language dialogue, without it).                                 *)
(*                                                                         *)
(* approvals is the SQLite table, one row per generated ID; a worker is a  *)
(* goroutine inside App.handleMessage.  mautrix's syncer delivers messages *)
(* one at a time, so a deployment has one worker; the model lets any       *)
(* number of them interleave between their SQL statements, which is what   *)
(* the guarded UPDATE in Store.resolve is written for.                     *)
(***************************************************************************)
EXTENDS Naturals

CONSTANTS Users,         \* Matrix users in the admin rooms
          AdminSenders,  \* the configured sender allowlist; empty: everybody
          Ops,           \* action keys of the command router
          gatedActions,  \* the keys that need an approval
          ApprovalIDs,   \* the identifiers generateID may draw
          Workers,       \* goroutines running App.handleMessage
          None,          \* a NULL column
          DefaultTTL,    \* lifetime of a pending request
          MaxTime,       \* bound: clock ticks explored
          MaxCrashes     \* bound: process deaths explored

ASSUME ApprovalAssumption ==
    /\ gatedActions \subseteq Ops
    /\ AdminSenders \subseteq Users
    /\ None \notin Users \cup Ops \cup ApprovalIDs
    /\ DefaultTTL \in Nat
    /\ MaxTime \in Nat
    /\ MaxCrashes \in Nat

VARIABLES approvals,  \* the approvals table
          handler,    \* handler[w]: what worker w is doing
          runs,       \* history: how often the operation behind i was dispatched
          direct,     \* history: operations executed without an approval row
          now,        \* wall clock
          crashes     \* history: process deaths so far

vars == <<approvals, handler, runs, direct, now, crashes>>

Status == {"pending", "approved", "denied", "expired", "cancelled"}

\* A row; status "absent" stands for an ID that is not in the table.
Row == [op : Ops \cup {None}, requestor : Users \cup {None}, status : Status \cup {"absent"},
        expiresAt : Nat, resolvedAt : Nat, resolvedBy : Users \cup {None}]

NoRow == [op |-> None, requestor |-> None, status |-> "absent",
          expiresAt |-> 0, resolvedAt |-> 0, resolvedBy |-> None]

\* The local variables of HandleApprovalDecision: the parsed decision, its sender and,
\* once fetched, the action key of the approval.
Local == [pc : {"idle", "fetch", "cancel", "resolve", "execute"},
          id : ApprovalIDs \cup {None}, sender : Users \cup {None},
          approve : BOOLEAN, op : Ops \cup {None}]

Idle == [pc |-> "idle", id |-> None, sender |-> None, approve |-> FALSE, op |-> None]

\* An operation that passed the gate: how its command came in and the flags it came with.
Direct == [op : Ops, via : {"typed", "dialogue"}, flags : SUBSET {"_approved"}]

TypeOK ==
    /\ approvals \in [ApprovalIDs -> Row]
    /\ handler \in [Workers -> Local]
    /\ runs \in [ApprovalIDs -> Nat]
    /\ direct \in SUBSET Direct
    /\ now \in Nat
    /\ crashes \in Nat

Init ==
    /\ approvals = [i \in ApprovalIDs |-> NoRow]
    /\ handler = [w \in Workers |-> Idle]
    /\ runs = [i \in ApprovalIDs |-> 0]
    /\ direct = {}
    /\ now = 0
    /\ crashes = 0

-----------------------------------------------------------------------------
(* Operators of the command layer and of the approvals store.              *)

InternalFlags == {"_approved", "_approval_id", "_trace_id"}

\* Mutant: the router keeps internal flags.
ParseKeepsInternal(flags) == flags

\* Flags that start with "_" are stripped from what the user typed.
Parse(flags) == flags \ InternalFlags

\* handleMessage ignores senders that are not on a configured allowlist.
SenderAllowed(u) == AdminSenders = {} \/ u \in AdminSenders

IsGated(op) == op \in gatedActions

\* A command carrying the internal _approved flag passes the gate.
NeedsApproval(op, flags) == "_approved" \notin flags /\ IsGated(op)

IsExpired(row) == row.status = "pending" /\ now > row.expiresAt

\* Mutant: the sweep forgets to look at the status.
ExpireStaleAnyStatus ==
    approvals' = [i \in ApprovalIDs |->
        IF approvals[i].status # "absent" /\ approvals[i].expiresAt < now
        THEN [approvals[i] EXCEPT !.status = "expired", !.resolvedAt = now]
        ELSE approvals[i]]

\* UPDATE approvals SET status = 'expired' WHERE status = 'pending' AND expires_at < now
ExpireStale ==
    approvals' = [i \in ApprovalIDs |->
        IF approvals[i].status = "pending" /\ approvals[i].expiresAt < now
        THEN [approvals[i] EXCEPT !.status = "expired", !.resolvedAt = now]
        ELSE approvals[i]]

\* CheckExpiry: a failed sweep is logged and the caller goes on.
CheckExpiry == ExpireStale \/ UNCHANGED approvals

\* Mutant: the UPDATE loses its AND status = 'pending'.
CanResolveAlways(i) == approvals[i].status # "absent"

CanResolve(i) == approvals[i].status = "pending"

\* UPDATE approvals SET status = s ... WHERE id = i AND status = 'pending'
Resolved(i, s, u) ==
    [approvals EXCEPT ![i].status = s, ![i].resolvedAt = now, ![i].resolvedBy = u]

-----------------------------------------------------------------------------
(* Commands.                                                               *)

\* Gate.Request: INSERT a pending row under an ID that is not in use.
Request(op, u) ==
    \E i \in ApprovalIDs :
        /\ approvals[i].status = "absent"
        /\ approvals' = [approvals EXCEPT ![i] =
               [op |-> op, requestor |-> u, status |-> "pending",
                expiresAt |-> now + DefaultTTL, resolvedAt |-> 0, resolvedBy |-> None]]

\* The start of every gated handler (requestApprovalIfNeeded): a command that carries
\* flags files an approval, or the work is done at once.
Handle(op, u, flags, ran) ==
    \/ /\ NeedsApproval(op, flags)
       /\ Request(op, u)
       /\ UNCHANGED direct
    \/ /\ ~NeedsApproval(op, flags)
       /\ direct' = direct \cup {ran}
       /\ UNCHANGED approvals

\* "/ruriko <op> --flags": the router parses what was typed.
Command(w, u, op, flags) ==
    /\ handler[w].pc = "idle"
    /\ SenderAllowed(u)
    /\ Handle(op, u, Parse(flags), [op |-> op, via |-> "typed", flags |-> flags])
    /\ UNCHANGED <<handler, runs, now, crashes>>

\* A step of the natural-language dialogue (NLDialog): the command that was built from the
\* action and the flags the language model named goes to Router.Dispatch, which parses
\* nothing, so no flag is stripped.
Dialogue(w, u, op, flags) ==
    /\ handler[w].pc = "idle"
    /\ SenderAllowed(u)
    /\ Handle(op, u, flags, [op |-> op, via |-> "dialogue", flags |-> flags])
    /\ UNCHANGED <<handler, runs, now, crashes>>

\* "/ruriko approvals list" and "... show": both sweep before they read.
ShowApprovals(w, u) ==
    /\ handler[w].pc = "idle"
    /\ SenderAllowed(u)
    /\ CheckExpiry
    /\ UNCHANGED <<handler, runs, direct, now, crashes>>

-----------------------------------------------------------------------------
(* HandleApprovalDecision, one action per SQL statement.                   *)

\* "approve <i>" or "deny <i> <reason>" arrives; stale rows are swept first.
Decide(w, u, i, approve) ==
    /\ handler[w].pc = "idle"
    /\ SenderAllowed(u)
    /\ CheckExpiry
    /\ handler' = [handler EXCEPT ![w] =
           [pc |-> "fetch", id |-> i, sender |-> u, approve |-> approve, op |-> None]]
    /\ UNCHANGED <<runs, direct, now, crashes>>

\* Mutant: the self-approval check is missing.
FetchAllowsSelf(w) ==
    LET h   == handler[w]
        row == approvals[h.id]
        next == IF row.status # "pending"
                THEN Idle
                ELSE [h EXCEPT !.pc = IF IsExpired(row) THEN "cancel" ELSE "resolve",
                               !.op = row.op]
    IN  /\ h.pc = "fetch"
        /\ handler' = [handler EXCEPT ![w] = next]
        /\ UNCHANGED <<approvals, runs, direct, now, crashes>>

\* Store().Get and the checks on the row it returns; an early return goes idle.
Fetch(w) ==
    LET h   == handler[w]
        row == approvals[h.id]
        next == IF \/ row.status # "pending"
                   \/ h.approve /\ row.requestor = h.sender
                THEN Idle
                ELSE [h EXCEPT !.pc = IF IsExpired(row) THEN "cancel" ELSE "resolve",
                               !.op = row.op]
    IN  /\ h.pc = "fetch"
        /\ handler' = [handler EXCEPT ![w] = next]
        /\ UNCHANGED <<approvals, runs, direct, now, crashes>>

\* The row the sweep missed is overdue: Cancel it and report, ignoring the outcome.
CancelOverdue(w) ==
    LET h == handler[w]
    IN  /\ h.pc = "cancel"
        /\ approvals' = IF CanResolve(h.id)
                        THEN Resolved(h.id, "cancelled", h.sender)
                        ELSE approvals
        /\ handler' = [handler EXCEPT ![w] = Idle]
        /\ UNCHANGED <<runs, direct, now, crashes>>

\* Mutant: the handler returns after the UPDATE and never dispatches.
ResolveForgetsDispatch(w) ==
    LET h == handler[w]
    IN  /\ h.pc = "resolve"
        /\ approvals' = IF CanResolve(h.id)
                        THEN Resolved(h.id, IF h.approve THEN "approved" ELSE "denied", h.sender)
                        ELSE approvals
        /\ handler' = [handler EXCEPT ![w] = Idle]
        /\ UNCHANGED <<runs, direct, now, crashes>>

\* Store().Approve or Store().Deny; losing the race ends the handler with an error.
Resolve(w) ==
    LET h == handler[w]
    IN  /\ h.pc = "resolve"
        /\ \/ /\ CanResolve(h.id)
              /\ approvals' = Resolved(h.id, IF h.approve THEN "approved" ELSE "denied", h.sender)
              /\ handler' = [handler EXCEPT ![w] =
                                IF h.approve THEN [h EXCEPT !.pc = "execute"] ELSE Idle]
           \/ /\ ~CanResolve(h.id)
              /\ handler' = [handler EXCEPT ![w] = Idle]
              /\ UNCHANGED approvals
        /\ UNCHANGED <<runs, direct, now, crashes>>

\* executeApproved: the command is rebuilt with the internal flags, which pass the gate
\* (~NeedsApproval), and dispatched; a dispatch counts whether or not the operation succeeds.
Execute(w) ==
    LET h == handler[w]
    IN  /\ h.pc = "execute"
        /\ ~NeedsApproval(h.op, InternalFlags)
        /\ runs' = [runs EXCEPT ![h.id] = @ + 1]
        /\ handler' = [handler EXCEPT ![w] = Idle]
        /\ UNCHANGED <<approvals, direct, now, crashes>>

-----------------------------------------------------------------------------
(* The environment.                                                        *)

Tick ==
    /\ now < MaxTime
    /\ now' = now + 1
    /\ UNCHANGED <<approvals, handler, runs, direct, crashes>>

\* The process dies and restarts: the table survives, the handlers do not.  mautrix saves
\* next_batch before it dispatches a batch, so the message is not delivered again.
Crash ==
    /\ crashes < MaxCrashes
    /\ crashes' = crashes + 1
    /\ handler' = [w \in Workers |-> Idle]
    /\ UNCHANGED <<approvals, runs, direct, now>>

Step(w) == Fetch(w) \/ CancelOverdue(w) \/ Resolve(w) \/ Execute(w)

Receive(w) ==
    \E u \in Users :
        \/ \E op \in Ops, flags \in SUBSET {"_approved"} :
               Command(w, u, op, flags) \/ Dialogue(w, u, op, flags)
        \/ \E i \in ApprovalIDs, approve \in BOOLEAN : Decide(w, u, i, approve)
        \/ ShowApprovals(w, u)

Next ==
    \/ \E w \in Workers : Receive(w) \/ Step(w)
    \/ Tick
    \/ Crash

Spec == Init /\ [][Next]_vars

\* A goroutine that is inside a handler keeps running; nobody is obliged to send messages.
FairSpec == Spec /\ \A w \in Workers : WF_vars(Step(w))

-----------------------------------------------------------------------------
(* Properties.                                                             *)

\* Four eyes: the operation behind a request was dispatched at most once, and only if the
\* request is approved and its approver is not the operator who filed it
\* (HandleApprovalDecision's self-approval check, Store.resolve's guarded UPDATE).
FourEyes ==
    \A i \in ApprovalIDs :
        /\ runs[i] <= 1
        /\ runs[i] > 0 => /\ approvals[i].status = "approved"
                          /\ approvals[i].resolvedBy \notin {None, approvals[i].requestor}

\* A gated operation that ran without an approval was handed over by the dialogue with
\* _approved among the flags the language model named.  No typed command gets past the gate
\* (Router.Parse strips the flag before requestApprovalIfNeeded reads it), and a dialogue
\* that names no internal flag files a request as a typed command does.
OnlyDialogueBypasses ==
    \A d \in direct :
        d.op \in gatedActions => d.via = "dialogue" /\ "_approved" \in d.flags

\* An approved operation that has neither run nor is about to run was lost by a process
\* death between the UPDATE and the dispatch, and in no other way.
StrandedOnlyByCrash ==
    \A i \in ApprovalIDs :
        /\ approvals[i].status = "approved"
        /\ runs[i] = 0
        /\ \A w \in Workers : ~(handler[w].pc = "execute" /\ handler[w].id = i)
        => crashes > 0

\* A step never changes a resolved request, whoever decides, sweeps or cancels
\* concurrently (the WHERE status = 'pending' of every UPDATE).
ResolvedIsFinal ==
    [][\A i \in ApprovalIDs :
          approvals[i].status \notin {"absent", "pending"} => approvals'[i] = approvals[i]]_vars

\* What holds of the deadline: a worker goes on to approve only a request that was pending
\* when it was fetched, and by then it was not overdue; so a request whose deadline passed
\* while no worker was between its fetch and its UPDATE stays unapproved.
LateApprovalNeedsRace ==
    [][\A i \in ApprovalIDs :
          /\ approvals[i].status = "pending" /\ now > approvals[i].expiresAt
          /\ \A w \in Workers : ~(handler[w].pc = "resolve" /\ handler[w].id = i)
          => \A w \in Workers : handler'[w].pc = "resolve" => handler'[w].id # i]_vars

\* While the process stays up, an approved operation is dispatched
\* (HandleApprovalDecision: "Re-execute the approved operation via the dispatch callback").
ApprovedEventuallyRuns ==
    \A i \in ApprovalIDs :
        approvals[i].status = "approved" ~> (runs[i] > 0 \/ crashes > 0)

\* The workflow as its operators see it.
Life == INSTANCE ApprovalLifecycle WITH
    NoUser    <- None,
    stage     <- [i \in ApprovalIDs |-> IF runs[i] > 0 THEN "ran" ELSE approvals[i].status],
    requestor <- [i \in ApprovalIDs |-> approvals[i].requestor],
    resolver  <- [i \in ApprovalIDs |-> approvals[i].resolvedBy]

\* The SQL-level workflow implements the abstract life cycle: one resolution, by somebody
\* else when it is an approval, and one run.
ImplementsLifecycle == Life!Spec

\* The state is well typed, a gated operation runs without an approval only through the
\* unstripped flags of the dialogue (Router.Parse, Router.Dispatch), and an approved
\* operation waits for nobody unless the process died (HandleApprovalDecision).
Inv == TypeOK /\ OnlyDialogueBypasses /\ StrandedOnlyByCrash

\* Neither a sweep nor another decision changes a resolved request (Store.resolve,
\* ExpireStale), and one whose deadline passed is approved by nobody who had not fetched
\* it in time.
DecisionsAreFinal == ResolvedIsFinal /\ LateApprovalNeedsRace
=============================================================================
