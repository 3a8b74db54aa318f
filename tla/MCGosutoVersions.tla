-------------------------- MODULE MCGosutoVersions --------------------------
(* The instance of GosutoVersions that TLC explores: see GosutoVersions.cfg. *)
EXTENDS GosutoVersions

MCSections == {"persona", "topology"}
MCTopology == "topology"
MCValues == 0..1
MCTemplate == [s \in MCSections |-> 0]
MCDocuments == {[s \in MCSections |-> 1]}
=============================================================================
