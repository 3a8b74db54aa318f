------------------------- MODULE ApprovalLifecycle -------------------------
(***************************************************************************)
(* What the approval workflow promises its operators, without handlers,    *)
(* clocks or database rows: a gated request is filed by one operator, is   *)
(* resolved exactly once, is approved only by somebody other than the      *)
(* operator who filed it, and the operation behind it runs at most once,   *)
(* and only out of the approved state.                                     *)
(*                                                                         *)
(* Approvals.tla models the code; it implements this specification.        *)
(***************************************************************************)

CONSTANTS Users,        \* Matrix users
          ApprovalIDs,  \* identifiers of approval requests
          NoUser        \* not a Matrix user

VARIABLES stage,        \* stage[i]: where request i stands
          requestor,    \* requestor[i]: who filed it
          resolver      \* resolver[i]: who resolved it, if anybody

lifeVars == <<stage, requestor, resolver>>

Init ==
    /\ stage = [i \in ApprovalIDs |-> "absent"]
    /\ requestor = [i \in ApprovalIDs |-> NoUser]
    /\ resolver = [i \in ApprovalIDs |-> NoUser]

\* An operator files a gated operation.
File(i, u) ==
    /\ stage[i] = "absent"
    /\ stage' = [stage EXCEPT ![i] = "pending"]
    /\ requestor' = [requestor EXCEPT ![i] = u]
    /\ UNCHANGED resolver

\* Another operator approves it.
Approve(i, u) ==
    /\ stage[i] = "pending"
    /\ u # requestor[i]
    /\ stage' = [stage EXCEPT ![i] = "approved"]
    /\ resolver' = [resolver EXCEPT ![i] = u]
    /\ UNCHANGED requestor

\* Any operator denies it, or cancels it because it is overdue.
Refuse(i, u) ==
    /\ stage[i] = "pending"
    /\ \E s \in {"denied", "cancelled"} : stage' = [stage EXCEPT ![i] = s]
    /\ resolver' = [resolver EXCEPT ![i] = u]
    /\ UNCHANGED requestor

\* Overdue requests expire, several at a time; nobody is recorded as resolver.
Expire(S) ==
    /\ \A i \in S : stage[i] = "pending"
    /\ stage' = [i \in ApprovalIDs |-> IF i \in S THEN "expired" ELSE stage[i]]
    /\ UNCHANGED <<requestor, resolver>>

\* The approved operation is carried out.
Run(i) ==
    /\ stage[i] = "approved"
    /\ stage' = [stage EXCEPT ![i] = "ran"]
    /\ UNCHANGED <<requestor, resolver>>

Next ==
    \/ \E i \in ApprovalIDs, u \in Users : File(i, u) \/ Approve(i, u) \/ Refuse(i, u)
    \/ \E S \in SUBSET ApprovalIDs : Expire(S)
    \/ \E i \in ApprovalIDs : Run(i)

Spec == Init /\ [][Next]_lifeVars
=============================================================================
