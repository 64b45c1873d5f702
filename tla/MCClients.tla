------------------------------- MODULE MCClients -------------------------------
(* A small instance of Clients: one of each kind, two targets. *)
EXTENDS Clients

\* The volume /a-b of user u, and the name of its task file.
Names == [t \in Target |-> IF t = "a-b_u_" THEN "a_b_u_" ELSE t]

Confs == {[kind |-> "curvebs", mds |-> TRUE, cluster |-> FALSE],
          [kind |-> "curvefs", mds |-> FALSE, cluster |-> TRUE],
          [kind |-> "curvefs", mds |-> TRUE, cluster |-> FALSE]}
=============================================================================
