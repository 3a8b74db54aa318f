---------------------------- MODULE MCApprovals ----------------------------
(* The instance of Approvals that TLC explores: see Approvals.cfg. *)
EXTENDS Approvals
============================================================================
