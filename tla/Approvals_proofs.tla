-------------------------- MODULE Approvals_proofs --------------------------
(***************************************************************************)
(* Proofs about Approvals, for any number of workers, users, operations    *)
(* and approval requests.                                                  *)
(***************************************************************************)
EXTENDS Approvals, TLAPS

Busy == {"fetch", "cancel", "resolve", "execute"}

\* What a worker's program counter says about its locals.
LocalsInv ==
    \A w \in Workers :
        handler[w].pc \in Busy => handler[w].id \in ApprovalIDs /\ handler[w].sender \in Users

\* What a row's status says about its other columns and about the dispatches so far.
RowsInv ==
    \A i \in ApprovalIDs :
        /\ approvals[i].status = "absent" =>
               approvals[i].requestor = None /\ approvals[i].resolvedBy = None
        /\ approvals[i].status # "absent" => approvals[i].requestor \in Users
        /\ approvals[i].status = "approved" =>
               approvals[i].resolvedBy \in Users \ {approvals[i].requestor}
        /\ approvals[i].status # "approved" => runs[i] = 0
        /\ runs[i] <= 1

\* A worker about to resolve or to cancel has seen a row that exists, and an approver is
\* not its requestor.
ResolveInv ==
    \A w \in Workers :
        handler[w].pc \in {"cancel", "resolve"} =>
            /\ approvals[handler[w].id].status # "absent"
            /\ handler[w].approve => handler[w].sender # approvals[handler[w].id].requestor

\* A worker about to dispatch owns the only dispatch of its request.
ExecuteInv ==
    /\ \A w \in Workers :
           handler[w].pc = "execute" =>
               approvals[handler[w].id].status = "approved" /\ runs[handler[w].id] = 0
    /\ \A v, w \in Workers :
           handler[v].pc = "execute" /\ handler[w].pc = "execute"
               /\ handler[v].id = handler[w].id => v = w

\* The inductive invariant.
IInv ==
    /\ TypeOK
    /\ LocalsInv
    /\ RowsInv
    /\ ResolveInv
    /\ ExecuteInv
    /\ OnlyDialogueBypasses
    /\ StrandedOnlyByCrash

LEMMA IdleLocal == Idle \in Local
  BY DEF Idle, Local

LEMMA NoRowRow == NoRow \in Row
  BY DEF NoRow, Row, Status

\* The expiry sweep touches pending rows only, and only their status and timestamp.
LEMMA SweepOnlyPending ==
    ASSUME TypeOK, CheckExpiry
    PROVE  /\ approvals' \in [ApprovalIDs -> Row]
           /\ \A i \in ApprovalIDs :
                  \/ approvals'[i] = approvals[i]
                  \/ /\ approvals[i].status = "pending"
                     /\ approvals'[i].status = "expired"
                     /\ approvals'[i].requestor = approvals[i].requestor
                     /\ approvals'[i].resolvedBy = approvals[i].resolvedBy
<1>1. CASE UNCHANGED approvals
  BY <1>1 DEF TypeOK
<1>2. CASE ExpireStale
  <2> DEFINE swept(i) == [approvals[i] EXCEPT !.status = "expired", !.resolvedAt = now]
  <2>1. ASSUME NEW i \in ApprovalIDs
        PROVE  /\ swept(i) \in Row
               /\ swept(i).status = "expired"
               /\ swept(i).requestor = approvals[i].requestor
               /\ swept(i).resolvedBy = approvals[i].resolvedBy
    BY DEF TypeOK, Row, Status
  <2>2. approvals' = [i \in ApprovalIDs |->
            IF approvals[i].status = "pending" /\ approvals[i].expiresAt < now
            THEN swept(i) ELSE approvals[i]]
    BY <1>2 DEF ExpireStale
  <2> HIDE DEF swept
  <2> QED
    BY <2>1, <2>2 DEF TypeOK
<1> QED
  BY <1>1, <1>2 DEF CheckExpiry

\* A sweep keeps everything IInv says of rows and workers, whatever idle worker starts it.
LEMMA SweepKeepsRows ==
    ASSUME IInv, CheckExpiry, UNCHANGED <<runs, direct, crashes>>
    PROVE  RowsInv' /\ OnlyDialogueBypasses'
<1>1. OnlyDialogueBypasses'
  BY DEF IInv, OnlyDialogueBypasses
<1>2. ASSUME NEW i \in ApprovalIDs PROVE RowsInv!(i)'
  <2>1. TypeOK /\ RowsInv!(i) /\ runs'[i] = runs[i]
    BY DEF IInv, RowsInv
  <2>2. CASE approvals'[i] = approvals[i]
    BY <2>1, <2>2
  <2>3. CASE approvals'[i] # approvals[i]
    BY <2>1, <2>3, SweepOnlyPending
  <2> QED
    BY <2>2, <2>3
<1> QED
  BY <1>1, <1>2 DEF RowsInv

LEMMA InitInv == Init => IInv
<1> SUFFICES ASSUME Init PROVE IInv
  OBVIOUS
<1>1. TypeOK
  BY IdleLocal, NoRowRow DEF Init, TypeOK
<1>2. \A w \in Workers : handler[w].pc = "idle"
  BY DEF Init, Idle
<1>3. \A i \in ApprovalIDs : /\ approvals[i].status = "absent"
                             /\ approvals[i].requestor = None
                             /\ approvals[i].resolvedBy = None
                             /\ runs[i] = 0
  BY DEF Init, NoRow
<1>4. LocalsInv /\ ResolveInv /\ ExecuteInv
  BY <1>2 DEF LocalsInv, ResolveInv, ExecuteInv, Busy
<1>5. RowsInv /\ StrandedOnlyByCrash
  BY <1>3 DEF RowsInv, StrandedOnlyByCrash
<1>6. OnlyDialogueBypasses
  BY DEF Init, OnlyDialogueBypasses
<1> QED
  BY <1>1, <1>4, <1>5, <1>6 DEF IInv

\* What every handler does first keeps the invariant, if the operation it runs without an
\* approval is one that may.
LEMMA HandleInv ==
    ASSUME IInv, NEW u \in Users, NEW op \in Ops, NEW flags, NEW ran \in Direct,
           Handle(op, u, flags, ran), UNCHANGED <<handler, runs, now, crashes>>,
           ran.op = op,
           ~NeedsApproval(op, flags) /\ op \in gatedActions =>
               ran.via = "dialogue" /\ "_approved" \in ran.flags
    PROVE  IInv'
<1> USE DEF IInv
<1>1. CASE NeedsApproval(op, flags) /\ Request(op, u) /\ UNCHANGED direct
  <2>1. PICK i \in ApprovalIDs :
            /\ approvals[i].status = "absent"
            /\ approvals' = [approvals EXCEPT ![i] =
                   [op |-> op, requestor |-> u, status |-> "pending",
                    expiresAt |-> now + DefaultTTL, resolvedAt |-> 0, resolvedBy |-> None]]
    BY <1>1 DEF Request
  <2>2. UNCHANGED <<handler, runs, direct, now, crashes>>
    BY <1>1
  <2>3. [op |-> op, requestor |-> u, status |-> "pending",
         expiresAt |-> now + DefaultTTL, resolvedAt |-> 0, resolvedBy |-> None] \in Row
    BY ApprovalAssumption DEF Row, Status, TypeOK
  <2>4. TypeOK'
    BY <2>1, <2>2, <2>3 DEF TypeOK
  <2>5. LocalsInv' /\ OnlyDialogueBypasses'
    BY <2>2 DEF LocalsInv, OnlyDialogueBypasses
  <2>6. RowsInv'
    BY <2>1, <2>2 DEF RowsInv, TypeOK
  <2>7. ResolveInv' /\ ExecuteInv'
    BY <2>1, <2>2 DEF ResolveInv, ExecuteInv, TypeOK, LocalsInv, Busy
  <2>8. StrandedOnlyByCrash'
    BY <2>1, <2>2 DEF StrandedOnlyByCrash, TypeOK
  <2> QED
    BY <2>4, <2>5, <2>6, <2>7, <2>8
<1>2. CASE ~NeedsApproval(op, flags) /\ direct' = direct \cup {ran} /\ UNCHANGED approvals
  <2>1. OnlyDialogueBypasses'
    BY <1>2 DEF OnlyDialogueBypasses
  <2> QED
    BY <1>2, <2>1
       DEF TypeOK, LocalsInv, RowsInv, ResolveInv, ExecuteInv, StrandedOnlyByCrash
<1> QED
  BY <1>1, <1>2 DEF Handle

\* A typed command that needs no approval is not gated: its internal flags are gone.
LEMMA CommandInv ==
    ASSUME IInv, NEW w \in Workers, NEW u \in Users, NEW op \in Ops,
           NEW flags \in SUBSET {"_approved"}, Command(w, u, op, flags)
    PROVE  IInv'
<1> DEFINE ran == [op |-> op, via |-> "typed", flags |-> flags]
<1>1. Handle(op, u, Parse(flags), ran) /\ UNCHANGED <<handler, runs, now, crashes>>
  BY DEF Command
<1>2. ran \in Direct /\ ran.op = op
  BY DEF Direct
<1>3. ~NeedsApproval(op, Parse(flags)) => op \notin gatedActions
  BY DEF NeedsApproval, Parse, IsGated, InternalFlags
<1> HIDE DEF ran
<1> QED
  BY <1>1, <1>2, <1>3, HandleInv

\* What the dialogue hands over gets past the gate with the flag the model named.
LEMMA DialogueInv ==
    ASSUME IInv, NEW w \in Workers, NEW u \in Users, NEW op \in Ops,
           NEW flags \in SUBSET {"_approved"}, Dialogue(w, u, op, flags)
    PROVE  IInv'
<1> DEFINE ran == [op |-> op, via |-> "dialogue", flags |-> flags]
<1>1. Handle(op, u, flags, ran) /\ UNCHANGED <<handler, runs, now, crashes>>
  BY DEF Dialogue
<1>2. ran \in Direct /\ ran.op = op /\ ran.via = "dialogue" /\ ran.flags = flags
  BY DEF Direct
<1>3. ~NeedsApproval(op, flags) /\ op \in gatedActions => "_approved" \in flags
  BY DEF NeedsApproval, IsGated
<1> HIDE DEF ran
<1> QED
  BY <1>1, <1>2, <1>3, HandleInv

LEMMA DecideInv ==
    ASSUME IInv, NEW w \in Workers, NEW u \in Users, NEW i \in ApprovalIDs,
           NEW approve \in BOOLEAN, Decide(w, u, i, approve)
    PROVE  IInv'
<1> DEFINE l == [pc |-> "fetch", id |-> i, sender |-> u, approve |-> approve, op |-> None]
<1> USE DEF IInv
<1>1. /\ handler[w].pc = "idle"
      /\ handler' = [handler EXCEPT ![w] = l]
      /\ CheckExpiry
      /\ UNCHANGED <<runs, direct, now, crashes>>
  BY DEF Decide
<1>2. l \in Local /\ l.pc = "fetch" /\ l.id = i /\ l.sender = u
  BY DEF Local
<1> HIDE DEF l
<1>3. TypeOK'
  BY <1>1, <1>2, SweepOnlyPending DEF TypeOK
<1>4. LocalsInv'
  BY <1>1, <1>2 DEF LocalsInv, TypeOK
<1>5. RowsInv' /\ OnlyDialogueBypasses'
  BY <1>1, SweepKeepsRows
<1>6. ResolveInv' /\ ExecuteInv'
  BY <1>1, <1>2, SweepOnlyPending DEF ResolveInv, ExecuteInv, TypeOK, LocalsInv, Busy
<1>7. StrandedOnlyByCrash'
  BY <1>1, <1>2, SweepOnlyPending DEF StrandedOnlyByCrash, TypeOK
<1> QED
  BY <1>3, <1>4, <1>5, <1>6, <1>7

LEMMA ShowInv ==
    ASSUME IInv, NEW w \in Workers, NEW u \in Users, ShowApprovals(w, u)
    PROVE  IInv'
<1> USE DEF IInv
<1>1. CheckExpiry /\ UNCHANGED <<handler, runs, direct, now, crashes>>
  BY DEF ShowApprovals
<1>2. TypeOK' /\ LocalsInv'
  BY <1>1, SweepOnlyPending DEF TypeOK, LocalsInv
<1>3. RowsInv' /\ OnlyDialogueBypasses'
  BY <1>1, SweepKeepsRows
<1>4. ResolveInv' /\ ExecuteInv'
  BY <1>1, SweepOnlyPending DEF ResolveInv, ExecuteInv, LocalsInv, Busy
<1>5. StrandedOnlyByCrash'
  BY <1>1, SweepOnlyPending DEF StrandedOnlyByCrash
<1> QED
  BY <1>2, <1>3, <1>4, <1>5

LEMMA FetchInv ==
    ASSUME IInv, NEW w \in Workers, Fetch(w)
    PROVE  IInv'
<1> DEFINE h == handler[w]
           row == approvals[h.id]
           next == handler'[w]
<1> USE DEF IInv
<1>1. /\ h.pc = "fetch"
      /\ h.id \in ApprovalIDs
      /\ h.sender \in Users
      /\ h \in Local
      /\ row \in Row
      /\ handler' = [handler EXCEPT ![w] = next]
      /\ UNCHANGED <<approvals, runs, direct, now, crashes>>
  BY DEF Fetch, TypeOK, LocalsInv, Busy
<1>2. \/ next = Idle
      \/ /\ row.status = "pending"
         /\ h.approve => row.requestor # h.sender
         /\ next = [h EXCEPT !.pc = IF IsExpired(row) THEN "cancel" ELSE "resolve",
                             !.op = row.op]
  BY <1>1 DEF Fetch, TypeOK
<1>3. /\ next \in Local
      /\ next.pc \in {"idle", "cancel", "resolve"}
      /\ next.pc # "idle" => /\ next.id = h.id
                             /\ next.sender = h.sender
                             /\ next.approve = h.approve
                             /\ row.status = "pending"
                             /\ h.approve => row.requestor # h.sender
  <2>1. CASE next = Idle
    BY <2>1, IdleLocal DEF Idle
  <2>2. CASE next # Idle
    BY <1>1, <1>2, <2>2 DEF Local, Row
  <2> QED
    BY <2>1, <2>2
<1> HIDE DEF next
<1>4. TypeOK'
  BY <1>1, <1>3 DEF TypeOK
<1>5. LocalsInv'
  BY <1>1, <1>3 DEF LocalsInv, TypeOK, Busy
<1>6. RowsInv' /\ OnlyDialogueBypasses'
  BY <1>1 DEF RowsInv, OnlyDialogueBypasses
<1>7. ResolveInv' /\ ExecuteInv'
  BY <1>1, <1>3 DEF ResolveInv, ExecuteInv, TypeOK
<1>8. StrandedOnlyByCrash'
  BY <1>1, <1>3 DEF StrandedOnlyByCrash, TypeOK
<1> QED
  BY <1>4, <1>5, <1>6, <1>7, <1>8

\* A guarded UPDATE of one row keeps the other rows.
LEMMA ResolvedRow ==
    ASSUME TypeOK, NEW i \in ApprovalIDs, NEW s \in Status, NEW u \in Users,
           approvals' = Resolved(i, s, u)
    PROVE  /\ approvals' \in [ApprovalIDs -> Row]
           /\ approvals'[i].status = s
           /\ approvals'[i].requestor = approvals[i].requestor
           /\ approvals'[i].resolvedBy = u
           /\ \A j \in ApprovalIDs \ {i} : approvals'[j] = approvals[j]
<1> DEFINE row == [approvals[i] EXCEPT !.status = s, !.resolvedAt = now, !.resolvedBy = u]
<1>1. approvals[i] \in Row /\ now \in Nat
  BY DEF TypeOK
<1>2. /\ row \in Row
      /\ row.status = s
      /\ row.requestor = approvals[i].requestor
      /\ row.resolvedBy = u
  BY <1>1 DEF Row, Status
<1>3. /\ approvals' \in [ApprovalIDs -> Row]
      /\ approvals'[i] = row
      /\ \A j \in ApprovalIDs \ {i} : approvals'[j] = approvals[j]
  <2>1. approvals' = [approvals EXCEPT ![i] = row]
    BY DEF Resolved, TypeOK
  <2> HIDE DEF row
  <2> QED
    BY <1>2, <2>1 DEF TypeOK
<1> HIDE DEF row
<1> QED
  BY <1>2, <1>3

LEMMA CancelInv ==
    ASSUME IInv, NEW w \in Workers, CancelOverdue(w)
    PROVE  IInv'
<1> DEFINE h == handler[w]
<1> USE DEF IInv
<1>1. /\ h.pc = "cancel"
      /\ h.id \in ApprovalIDs
      /\ h.sender \in Users
      /\ handler' = [handler EXCEPT ![w] = Idle]
      /\ Idle.pc = "idle"
      /\ UNCHANGED <<runs, direct, now, crashes>>
  BY DEF CancelOverdue, LocalsInv, Busy, Idle
<1>2. \/ UNCHANGED approvals
      \/ approvals[h.id].status = "pending" /\ approvals' = Resolved(h.id, "cancelled", h.sender)
  BY DEF CancelOverdue, CanResolve
<1>3. /\ approvals' \in [ApprovalIDs -> Row]
      /\ \A j \in ApprovalIDs :
             \/ approvals'[j] = approvals[j]
             \/ /\ approvals[j].status = "pending"
                /\ approvals'[j].status = "cancelled"
                /\ approvals'[j].requestor = approvals[j].requestor
  BY <1>1, <1>2, ResolvedRow DEF Status, TypeOK
<1>4. TypeOK'
  BY <1>1, <1>3, IdleLocal DEF TypeOK
<1>5. LocalsInv' /\ OnlyDialogueBypasses'
  BY <1>1 DEF LocalsInv, TypeOK, OnlyDialogueBypasses, Busy
<1>6. ASSUME NEW j \in ApprovalIDs PROVE RowsInv!(j)'
  <2>1. RowsInv!(j) /\ runs'[j] = runs[j]
    BY <1>1 DEF RowsInv
  <2>2. CASE approvals'[j] = approvals[j]
    BY <2>1, <2>2
  <2>3. CASE approvals'[j] # approvals[j]
    BY <1>3, <2>1, <2>3
  <2> QED
    BY <2>2, <2>3
<1>7. ResolveInv' /\ ExecuteInv'
  BY <1>1, <1>3 DEF ResolveInv, ExecuteInv, TypeOK, LocalsInv, Busy
<1>8. StrandedOnlyByCrash'
  BY <1>1, <1>3 DEF StrandedOnlyByCrash, TypeOK
<1> QED
  BY <1>4, <1>5, <1>6, <1>7, <1>8 DEF RowsInv

LEMMA ResolveStepInv ==
    ASSUME IInv, NEW w \in Workers, Resolve(w)
    PROVE  IInv'
<1> DEFINE h == handler[w]
           s == IF h.approve THEN "approved" ELSE "denied"
<1> USE DEF IInv
<1>1. /\ h.pc = "resolve"
      /\ h.id \in ApprovalIDs
      /\ h.sender \in Users
      /\ h \in Local
      /\ UNCHANGED <<runs, direct, now, crashes>>
  BY DEF Resolve, LocalsInv, Busy, TypeOK
<1>2. CASE ~CanResolve(h.id)
  <2>1. handler' = [handler EXCEPT ![w] = Idle] /\ UNCHANGED approvals /\ Idle.pc = "idle"
    BY <1>2 DEF Resolve, Idle
  <2>2. TypeOK' /\ LocalsInv' /\ RowsInv' /\ OnlyDialogueBypasses'
    BY <1>1, <2>1, IdleLocal DEF TypeOK, LocalsInv, RowsInv, OnlyDialogueBypasses, Busy
  <2>3. ResolveInv' /\ ExecuteInv' /\ StrandedOnlyByCrash'
    BY <1>1, <2>1 DEF ResolveInv, ExecuteInv, StrandedOnlyByCrash, TypeOK
  <2> QED
    BY <2>2, <2>3
<1>3. CASE CanResolve(h.id)
  <2> DEFINE next == IF h.approve THEN [h EXCEPT !.pc = "execute"] ELSE Idle
  <2>1. /\ approvals[h.id].status = "pending"
        /\ approvals' = Resolved(h.id, s, h.sender)
        /\ handler' = [handler EXCEPT ![w] = next]
    BY <1>3 DEF Resolve, CanResolve
  <2>2. /\ next \in Local
        /\ h.approve => next.pc = "execute" /\ next.id = h.id /\ next.sender = h.sender
        /\ ~h.approve => next.pc = "idle"
    BY <1>1, IdleLocal DEF Local, Idle
  <2>3. /\ approvals' \in [ApprovalIDs -> Row]
        /\ approvals'[h.id].status = s
        /\ approvals'[h.id].requestor = approvals[h.id].requestor
        /\ approvals'[h.id].resolvedBy = h.sender
        /\ \A j \in ApprovalIDs \ {h.id} : approvals'[j] = approvals[j]
    BY <1>1, <2>1, ResolvedRow DEF Status
  <2>4. /\ h.approve => h.sender # approvals[h.id].requestor
        /\ approvals[h.id].requestor \in Users
        /\ runs[h.id] = 0
    BY <1>1, <2>1 DEF ResolveInv, RowsInv
  <2>5. h.approve \in BOOLEAN
    BY <1>1 DEF Local
  <2> HIDE DEF next
  <2>6. TypeOK'
    BY <1>1, <2>1, <2>2, <2>3 DEF TypeOK
  <2>7. LocalsInv' /\ OnlyDialogueBypasses'
    BY <1>1, <2>1, <2>2 DEF LocalsInv, TypeOK, OnlyDialogueBypasses, Busy
  <2>8. ASSUME NEW j \in ApprovalIDs PROVE RowsInv!(j)'
    <3>1. RowsInv!(j) /\ runs'[j] = runs[j]
      BY <1>1 DEF RowsInv
    <3>2. CASE j # h.id
      BY <2>3, <3>1, <3>2
    <3>3. CASE j = h.id
      BY <1>1, <2>3, <2>4, <2>5, <3>1, <3>3
    <3> QED
      BY <3>2, <3>3
  <2>9. ResolveInv'
    BY <1>1, <2>1, <2>2, <2>3 DEF ResolveInv, TypeOK, LocalsInv, Busy
  <2>10. ExecuteInv'
    BY <1>1, <2>1, <2>2, <2>3, <2>4, <2>5 DEF ExecuteInv, TypeOK, LocalsInv, Busy
  <2>11. StrandedOnlyByCrash'
    BY <1>1, <2>1, <2>2, <2>3, <2>5 DEF StrandedOnlyByCrash, TypeOK
  <2> QED
    BY <2>6, <2>7, <2>8, <2>9, <2>10, <2>11 DEF RowsInv
<1> QED
  BY <1>2, <1>3

LEMMA ExecuteStepInv ==
    ASSUME IInv, NEW w \in Workers, Execute(w)
    PROVE  IInv'
<1> DEFINE h == handler[w]
<1> USE DEF IInv
<1>1. /\ h.pc = "execute"
      /\ h.id \in ApprovalIDs
      /\ approvals[h.id].status = "approved"
      /\ runs[h.id] = 0
      /\ runs' = [runs EXCEPT ![h.id] = @ + 1]
      /\ handler' = [handler EXCEPT ![w] = Idle]
      /\ Idle.pc = "idle"
      /\ UNCHANGED <<approvals, direct, now, crashes>>
  BY DEF Execute, LocalsInv, ExecuteInv, Busy, Idle
<1>2. TypeOK' /\ LocalsInv' /\ OnlyDialogueBypasses'
  BY <1>1, IdleLocal DEF TypeOK, LocalsInv, OnlyDialogueBypasses, Busy
<1>3. RowsInv'
  BY <1>1 DEF RowsInv, TypeOK
<1>4. ResolveInv' /\ ExecuteInv'
  BY <1>1 DEF ResolveInv, ExecuteInv, TypeOK, LocalsInv, Busy
<1>5. StrandedOnlyByCrash'
  BY <1>1 DEF StrandedOnlyByCrash, TypeOK
<1> QED
  BY <1>2, <1>3, <1>4, <1>5

LEMMA CrashInv ==
    ASSUME IInv, Crash
    PROVE  IInv'
<1> USE DEF IInv
<1>1. /\ \A w \in Workers : handler'[w].pc = "idle"
      /\ UNCHANGED <<approvals, runs, direct, now>>
      /\ crashes' > 0
  BY DEF Crash, Idle, TypeOK
<1>2. TypeOK'
  BY IdleLocal DEF Crash, TypeOK
<1>3. LocalsInv' /\ ResolveInv' /\ ExecuteInv'
  BY <1>1 DEF LocalsInv, ResolveInv, ExecuteInv, Busy
<1>4. RowsInv' /\ OnlyDialogueBypasses' /\ StrandedOnlyByCrash'
  BY <1>1 DEF RowsInv, OnlyDialogueBypasses, StrandedOnlyByCrash
<1> QED
  BY <1>2, <1>3, <1>4

LEMMA TickInv ==
    ASSUME IInv, Tick \/ UNCHANGED vars
    PROVE  IInv'
<1>1. UNCHANGED <<approvals, handler, runs, direct, crashes>> /\ now' \in Nat
  BY DEF Tick, vars, IInv, TypeOK
<1> QED
  BY <1>1 DEF IInv, TypeOK, LocalsInv, RowsInv, ResolveInv, ExecuteInv,
              OnlyDialogueBypasses, StrandedOnlyByCrash

LEMMA StepInv == IInv /\ [Next]_vars => IInv'
  BY CommandInv, DialogueInv, DecideInv, ShowInv, FetchInv, CancelInv, ResolveStepInv, ExecuteStepInv,
     CrashInv, TickInv
     DEF Next, Receive, Step

\* The strengthened invariant holds in every reachable state.
THEOREM Invariant == Spec => []IInv
  BY InitInv, StepInv, PTL DEF Spec

\* Type correctness of the approvals table and of the handlers working on it.
THEOREM TypeCorrect == Spec => []TypeOK
<1>1. IInv => TypeOK
  BY DEF IInv
<1> QED
  BY <1>1, Invariant, PTL

\* Four eyes and at most one dispatch, for any number of concurrent handlers.
THEOREM FourEyesHolds == Spec => []FourEyes
<1>1. IInv => FourEyes
  BY ApprovalAssumption DEF IInv, RowsInv, FourEyes, TypeOK
<1> QED
  BY <1>1, Invariant, PTL

\* A gated operation runs without an approval only when the dialogue hands it over with the
\* internal flag the language model named; no typed command gets past the gate
\* (Router.Parse, Router.Dispatch, requestApprovalIfNeeded).
THEOREM GateHolds == Spec => []OnlyDialogueBypasses
<1>1. IInv => OnlyDialogueBypasses
  BY DEF IInv
<1> QED
  BY <1>1, Invariant, PTL

\* Only a process death can lose an approved operation.
THEOREM StrandedHolds == Spec => []StrandedOnlyByCrash
<1>1. IInv => StrandedOnlyByCrash
  BY DEF IInv
<1> QED
  BY <1>1, Invariant, PTL

-----------------------------------------------------------------------------
(* Approvals implements ApprovalLifecycle.                                 *)

\* The refinement mapping, under names of its own.
Stage == [i \in ApprovalIDs |-> IF runs[i] > 0 THEN "ran" ELSE approvals[i].status]
Requestor == [i \in ApprovalIDs |-> approvals[i].requestor]
Resolver == [i \in ApprovalIDs |-> approvals[i].resolvedBy]

\* A step that touches one request moves the stage of that request only.
LEMMA StageUpdate ==
    ASSUME NEW i \in ApprovalIDs,
           \A j \in ApprovalIDs \ {i} : approvals'[j] = approvals[j] /\ runs'[j] = runs[j]
    PROVE  Stage' = [Stage EXCEPT ![i] = IF runs'[i] > 0 THEN "ran" ELSE approvals'[i].status]
  BY DEF Stage

\* A sweep expires the pending requests it changes.
LEMMA SweepExpires ==
    ASSUME IInv, CheckExpiry, UNCHANGED runs
    PROVE  \E S \in SUBSET ApprovalIDs : Life!Expire(S)
<1> DEFINE S == {i \in ApprovalIDs : approvals'[i] # approvals[i]}
<1>1. TypeOK /\ RowsInv
  BY DEF IInv
<1>2. \A i \in S : approvals[i].status = "pending" /\ runs[i] = 0
  BY <1>1, SweepOnlyPending DEF RowsInv
<1>3. \A i \in S : Stage[i] = "pending"
  BY <1>2 DEF Stage
<1>4. Stage' = [i \in ApprovalIDs |-> IF i \in S THEN "expired" ELSE Stage[i]]
  <2>1. ASSUME NEW i \in ApprovalIDs
        PROVE  Stage'[i] = IF i \in S THEN "expired" ELSE Stage[i]
    <3>1. CASE i \in S
      BY <1>1, <1>2, <3>1, SweepOnlyPending DEF Stage
    <3>2. CASE i \notin S
      BY <3>2 DEF Stage
    <3> QED
      BY <3>1, <3>2
  <2> HIDE DEF S
  <2> QED
    BY <2>1 DEF Stage
<1>5. Requestor' = Requestor /\ Resolver' = Resolver
  BY <1>1, SweepOnlyPending DEF Requestor, Resolver
<1> HIDE DEF S
<1>6. S \in SUBSET ApprovalIDs
  BY DEF S
<1> QED
  BY <1>3, <1>4, <1>5, <1>6 DEF Life!Expire, Stage, Requestor, Resolver

\* A guarded UPDATE by a worker is a refusal or an approval of the abstract life cycle.
LEMMA ResolvedLife ==
    ASSUME IInv, NEW i \in ApprovalIDs, NEW u \in Users, NEW s \in {"approved", "denied", "cancelled"},
           approvals[i].status = "pending",
           s = "approved" => u # approvals[i].requestor,
           approvals' = Resolved(i, s, u), UNCHANGED runs
    PROVE  Life!Approve(i, u) \/ Life!Refuse(i, u)
<1>1. TypeOK /\ runs[i] = 0
  BY DEF IInv, RowsInv
<1>2. /\ approvals'[i].status = s
      /\ approvals'[i].requestor = approvals[i].requestor
      /\ approvals'[i].resolvedBy = u
      /\ \A j \in ApprovalIDs \ {i} : approvals'[j] = approvals[j]
  BY <1>1, ResolvedRow DEF Status
<1>3. Stage[i] = "pending" /\ Stage' = [Stage EXCEPT ![i] = s]
  BY <1>1, <1>2, StageUpdate DEF Stage
<1>4. Requestor[i] = approvals[i].requestor /\ Requestor' = Requestor
  BY <1>2 DEF Requestor
<1>5. Resolver' = [Resolver EXCEPT ![i] = u]
  BY <1>2 DEF Resolver
<1>6. CASE s = "approved"
  <2>1. u # Requestor[i]
    BY <1>4, <1>6
  <2> QED
    BY <1>3, <1>4, <1>5, <1>6, <2>1 DEF Life!Approve, Stage, Requestor, Resolver
<1>7. CASE s # "approved"
  <2>1. \E r \in {"denied", "cancelled"} : Stage' = [Stage EXCEPT ![i] = r]
    BY <1>3, <1>7
  <2> QED
    BY <1>3, <1>4, <1>5, <2>1 DEF Life!Refuse, Stage, Requestor, Resolver
<1> QED
  BY <1>6, <1>7

LEMMA HandleLife ==
    ASSUME IInv, NEW u \in Users, NEW op \in Ops, NEW flags, NEW ran,
           Handle(op, u, flags, ran), UNCHANGED runs
    PROVE  (\E i \in ApprovalIDs : Life!File(i, u)) \/ UNCHANGED <<approvals, runs>>
<1> SUFFICES ASSUME approvals' # approvals PROVE \E i \in ApprovalIDs : Life!File(i, u)
  OBVIOUS
<1>1. PICK i \in ApprovalIDs :
          /\ approvals[i].status = "absent"
          /\ approvals' = [approvals EXCEPT ![i] =
                 [op |-> op, requestor |-> u, status |-> "pending",
                  expiresAt |-> now + DefaultTTL, resolvedAt |-> 0, resolvedBy |-> None]]
  BY DEF Handle, Request
<1>2. TypeOK /\ runs[i] = 0 /\ approvals[i].resolvedBy = None
  BY <1>1 DEF IInv, RowsInv
<1>3. /\ approvals'[i].status = "pending"
      /\ approvals'[i].requestor = u
      /\ approvals'[i].resolvedBy = None
      /\ \A j \in ApprovalIDs \ {i} : approvals'[j] = approvals[j]
  BY <1>1, <1>2 DEF TypeOK
<1>4. Stage[i] = "absent" /\ Stage' = [Stage EXCEPT ![i] = "pending"]
  BY <1>1, <1>2, <1>3, StageUpdate DEF Stage
<1>5. Requestor' = [Requestor EXCEPT ![i] = u] /\ Resolver' = Resolver
  BY <1>2, <1>3 DEF Requestor, Resolver
<1>6. Life!File(i, u)
  BY <1>4, <1>5 DEF Life!File, Stage, Requestor, Resolver
<1> QED
  BY <1>6

LEMMA ExecuteLife ==
    ASSUME IInv, NEW w \in Workers, Execute(w)
    PROVE  \E i \in ApprovalIDs : Life!Run(i)
<1>1. PICK i \in ApprovalIDs : /\ approvals[i].status = "approved"
                               /\ runs[i] = 0
                               /\ runs' = [runs EXCEPT ![i] = @ + 1]
                               /\ UNCHANGED approvals
  BY DEF IInv, Execute, LocalsInv, ExecuteInv, Busy
<1>2. Stage[i] = "approved" /\ Stage' = [Stage EXCEPT ![i] = "ran"]
  <2>1. runs'[i] = 1 /\ \A j \in ApprovalIDs \ {i} : runs'[j] = runs[j]
    BY <1>1 DEF IInv, TypeOK
  <2> QED
    BY <1>1, <2>1, StageUpdate DEF Stage
<1>3. Requestor' = Requestor /\ Resolver' = Resolver
  BY <1>1 DEF Requestor, Resolver
<1>4. Life!Run(i)
  BY <1>2, <1>3 DEF Life!Run, Stage, Requestor, Resolver
<1> QED
  BY <1>1, <1>4

LEMMA InitLife == Init => Life!Init
  BY DEF Init, Life!Init, NoRow

\* Every step is a step of the abstract life cycle or leaves it unchanged.
LEMMA StepLife == IInv /\ [Next]_vars => [Life!Next]_(Life!lifeVars)
<1> SUFFICES ASSUME IInv, [Next]_vars PROVE Life!Next \/ UNCHANGED Life!lifeVars
  OBVIOUS
<1>1. CASE UNCHANGED <<approvals, runs>>
  BY <1>1 DEF Life!lifeVars
<1>2. ASSUME NEW w \in Workers, NEW u \in Users, NEW op \in Ops,
             NEW flags \in SUBSET {"_approved"},
             Command(w, u, op, flags) \/ Dialogue(w, u, op, flags)
      PROVE  Life!Next \/ UNCHANGED Life!lifeVars
  <2>1. UNCHANGED runs /\ \E given, ran : Handle(op, u, given, ran)
    BY <1>2 DEF Command, Dialogue
  <2> QED
    BY <1>1, <2>1, HandleLife DEF Life!Next
<1>3. CASE \/ \E w \in Workers, u \in Users, i \in ApprovalIDs, approve \in BOOLEAN :
                  Decide(w, u, i, approve)
           \/ \E w \in Workers, u \in Users : ShowApprovals(w, u)
  <2>1. CheckExpiry /\ UNCHANGED runs
    BY <1>3 DEF Decide, ShowApprovals
  <2> QED
    BY <2>1, SweepExpires DEF Life!Next
<1>4. ASSUME NEW w \in Workers, CancelOverdue(w)
      PROVE  Life!Next \/ UNCHANGED Life!lifeVars
  <2>1. handler[w].id \in ApprovalIDs /\ handler[w].sender \in Users /\ UNCHANGED runs
    BY <1>4 DEF IInv, LocalsInv, CancelOverdue, Busy
  <2>2. \/ UNCHANGED approvals
        \/ /\ approvals[handler[w].id].status = "pending"
           /\ approvals' = Resolved(handler[w].id, "cancelled", handler[w].sender)
    BY <1>4 DEF CancelOverdue, CanResolve
  <2> QED
    BY <1>1, <2>1, <2>2, ResolvedLife DEF Life!Next
<1>5. ASSUME NEW w \in Workers, Resolve(w)
      PROVE  Life!Next \/ UNCHANGED Life!lifeVars
  <2> DEFINE h == handler[w]
             s == IF h.approve THEN "approved" ELSE "denied"
  <2>1. h.id \in ApprovalIDs /\ h.sender \in Users /\ UNCHANGED runs
    BY <1>5 DEF IInv, LocalsInv, Resolve, Busy
  <2>2. \/ UNCHANGED approvals
        \/ /\ approvals[h.id].status = "pending"
           /\ approvals' = Resolved(h.id, s, h.sender)
    BY <1>5 DEF Resolve, CanResolve
  <2>3. /\ s \in {"approved", "denied", "cancelled"}
        /\ s = "approved" => h.sender # approvals[h.id].requestor
    BY <1>5 DEF IInv, ResolveInv, Resolve
  <2> HIDE DEF s, h
  <2> QED
    BY <1>1, <2>1, <2>2, <2>3, ResolvedLife DEF Life!Next
<1>6. CASE \E w \in Workers : Execute(w)
  BY <1>6, ExecuteLife DEF Life!Next
<1>7. CASE (\E w \in Workers : Fetch(w)) \/ Tick \/ Crash \/ UNCHANGED vars
  BY <1>1, <1>7 DEF Fetch, Tick, Crash, vars
<1> QED
  BY <1>2, <1>3, <1>4, <1>5, <1>6, <1>7 DEF Next, Receive, Step

\* The SQL-level workflow implements the abstract life cycle: one resolution, by somebody
\* else when it is an approval, and one run (HandleApprovalDecision and Store.resolve).
THEOREM Refinement == Spec => ImplementsLifecycle
  BY InitLife, StepLife, Invariant, PTL DEF Spec, ImplementsLifecycle, Life!Spec

\* A resolved request never changes again (the WHERE status = 'pending' of every UPDATE).
THEOREM ResolvedFinal == Spec => ResolvedIsFinal
<1>1. ASSUME IInv, Next, NEW i \in ApprovalIDs, approvals[i].status \notin {"absent", "pending"}
      PROVE  approvals'[i] = approvals[i]
  <2>1. TypeOK
    BY <1>1 DEF IInv
  <2>2. CheckExpiry => approvals'[i] = approvals[i]
    BY <1>1, <2>1, SweepOnlyPending
  <2>3. ASSUME NEW w \in Workers, NEW u \in Users, Receive(w) PROVE approvals'[i] = approvals[i]
    BY <1>1, <2>1, <2>2, <2>3 DEF Receive, Command, Dialogue, Handle, Request, Decide, ShowApprovals,
           TypeOK
  <2>4. ASSUME NEW w \in Workers, Step(w) PROVE approvals'[i] = approvals[i]
    <3>1. \/ UNCHANGED approvals
          \/ \E s \in Status : /\ approvals[handler[w].id].status = "pending"
                               /\ approvals' = Resolved(handler[w].id, s, handler[w].sender)
      BY <2>4 DEF Step, Fetch, CancelOverdue, Resolve, Execute, CanResolve, Status
    <3> QED
      BY <1>1, <2>1, <3>1 DEF Resolved, TypeOK
  <2> QED
    BY <1>1, <2>3, <2>4 DEF Next, Receive, Tick, Crash
<1>2. IInv /\ [Next]_vars =>
          [\A i \in ApprovalIDs :
              approvals[i].status \notin {"absent", "pending"}
              => approvals'[i] = approvals[i]]_vars
  BY <1>1
<1> QED
  BY <1>2, Invariant, PTL DEF Spec, ResolvedIsFinal

\* The invariants of the workflow together, as the run checks them: well typed, the gate is
\* passed without an approval only through the dialogue's unstripped flags, and an approved
\* operation is lost only by the death of the process (Parse, NeedsApproval,
\* HandleApprovalDecision).
THEOREM InvHolds == Spec => []Inv
  BY TypeCorrect, GateHolds, StrandedHolds, PTL DEF Inv

\* A request whose deadline has passed is taken up for approval by nobody who had not
\* fetched it in time (the IsExpired check of HandleApprovalDecision).
THEOREM LateNeedsRace == Spec => LateApprovalNeedsRace
<1>1. ASSUME IInv, Next, NEW i \in ApprovalIDs,
             approvals[i].status = "pending", now > approvals[i].expiresAt,
             \A w \in Workers : ~(handler[w].pc = "resolve" /\ handler[w].id = i),
             NEW v \in Workers, handler'[v].pc = "resolve"
      PROVE  handler'[v].id # i
  <2>1. handler \in [Workers -> Local] /\ Idle \in Local /\ Idle.pc = "idle"
    BY <1>1, IdleLocal DEF IInv, TypeOK, Idle
  <2>2. ASSUME NEW w \in Workers, Receive(w) PROVE handler'[v].id # i
    <3>1. \/ UNCHANGED handler
          \/ \E u \in Users, j \in ApprovalIDs, b \in BOOLEAN :
                handler' = [handler EXCEPT ![w] =
                    [pc |-> "fetch", id |-> j, sender |-> u, approve |-> b, op |-> None]]
      BY <2>2 DEF Receive, Command, Dialogue, Decide, ShowApprovals
    <3> QED
      BY <1>1, <2>1, <3>1
  <2>3. ASSUME NEW w \in Workers, Fetch(w) PROVE handler'[v].id # i
    <3>1. CASE w # v
      BY <1>1, <2>1, <2>3, <3>1 DEF Fetch
    <3>2. CASE w = v
      <4>1. handler'[v] = [handler[v] EXCEPT
                  !.pc = IF IsExpired(approvals[handler[v].id]) THEN "cancel" ELSE "resolve",
                  !.op = approvals[handler[v].id].op]
        BY <1>1, <2>1, <2>3, <3>2 DEF Fetch
      <4>2. handler'[v].id = handler[v].id /\ ~IsExpired(approvals[handler[v].id])
        BY <1>1, <2>1, <4>1 DEF Local
      <4> QED
        BY <1>1, <4>2 DEF IsExpired
    <3> QED
      BY <3>1, <3>2
  <2>4. ASSUME NEW w \in Workers, CancelOverdue(w) \/ Resolve(w) \/ Execute(w)
        PROVE  handler'[v].id # i
    <3>1. \/ handler' = [handler EXCEPT ![w] = Idle]
          \/ handler' = [handler EXCEPT ![w] = [handler[w] EXCEPT !.pc = "execute"]]
      BY <2>4 DEF CancelOverdue, Resolve, Execute
    <3>2. [handler[w] EXCEPT !.pc = "execute"].pc = "execute"
      BY <2>1 DEF Local
    <3> QED
      BY <1>1, <2>1, <3>1, <3>2
  <2>5. CASE Tick
    BY <1>1, <2>5 DEF Tick
  <2>6. CASE Crash
    BY <1>1, <2>1, <2>6 DEF Crash
  <2> QED
    BY <1>1, <2>2, <2>3, <2>4, <2>5, <2>6 DEF Next, Step
<1>2. IInv /\ [Next]_vars =>
          [\A i \in ApprovalIDs :
              /\ approvals[i].status = "pending" /\ now > approvals[i].expiresAt
              /\ \A w \in Workers : ~(handler[w].pc = "resolve" /\ handler[w].id = i)
              => \A w \in Workers : handler'[w].pc = "resolve" => handler'[w].id # i]_vars
  BY <1>1
<1> QED
  BY <1>2, Invariant, PTL DEF Spec, LateApprovalNeedsRace

\* Both sides of a decision's finality, as the run checks them: a resolved request never
\* changes, and a late one is approved only in a race (Store.resolve, ExpireStale).
THEOREM DecisionsFinal == Spec => DecisionsAreFinal
  BY ResolvedFinal, LateNeedsRace DEF DecisionsAreFinal
=============================================================================
