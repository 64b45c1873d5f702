------------------------------- MODULE MCReshape -------------------------------
(* Small instances of Reshape: the topologies the operator chooses from. *)
EXTENDS Reshape

Deploys(hosts, replicas) ==
  [i \in DOMAIN hosts |-> [host |-> hosts[i], name |-> NoName, replicas |-> replicas, port |-> 1]]

Etcd == Deploys(<<"e1", "e2", "e3">>, 1)
M123 == <<"m1", "m2", "m3">>

Curvebs(mds, chunkservers) ==
  [kind |-> "curvebs",
   services |-> [etcd |-> Etcd, mds |-> Deploys(mds, 1), chunkserver |-> chunkservers]]

Curvefs(mds, metaservers) ==
  [kind |-> "curvefs",
   services |-> [etcd |-> Etcd, mds |-> Deploys(mds, 1), metaserver |-> metaservers]]

First == Deploys(<<"h1">>, 2) \o Deploys(<<"h2", "h3">>, 1)
Moved1 == Deploys(<<"h4">>, 2) \o Deploys(<<"h2", "h3">>, 1)

\* A name is a number, as is the position that stands for one.
Name(deploys, names) == [i \in DOMAIN deploys |-> [deploys[i] EXCEPT !.name = names[i]]]

\* Whole hosts in place, new hosts at the end, and what the checks refuse.
InPlaceBs ==
  << Curvebs(M123, First),
     Curvebs(M123, [i \in 1 .. 3 |-> [First[i] EXCEPT !.port = 2]]),    \* commit
     Curvebs(M123, Moved1),                                             \* migrate
     Curvebs(M123, First \o Deploys(<<"h4", "h5", "h6">>, 1)),          \* scale out
     Curvebs(M123, Moved1 \o Deploys(<<"h1", "h5", "h6">>, 1)),         \* ... after it
     Curvebs(M123, Deploys(<<"h2", "h3", "h1">>, 1)),                   \* refused: order
     Curvebs(M123, First \o Deploys(<<"h4">>, 1)) >>                    \* refused: too few

\* What is accepted, and moves services to other places or lets deploys share a host.
MisplacedBs ==
  << Curvebs(M123, Name(Deploys(<<"h1", "h2", "h3">>, 1), <<11, 12, 13>>)),
     Curvebs(M123, Name(Deploys(<<"h2", "h1", "h3">>, 1), <<12, 11, 13>>)),     \* commit: reordered
     Curvebs(M123, Name(Deploys(<<"h1", "h2", "h3">>, 2), <<11, 12, 13>>)),     \* scale out: among
     Curvebs(M123, Name(Deploys(<<"h1">>, 2) \o Deploys(<<"h2">>, 1), <<11, 12>>)), \* migrate: aside
     Curvebs(M123, Deploys(<<"h1", "h1", "h2">>, 1)) >>                         \* one host twice

TopologiesFs ==
  << Curvefs(M123, Deploys(<<"h1", "h2", "h3">>, 1)),
     Curvefs(M123, Deploys(<<"h1", "h2", "h4">>, 1)),
     Curvefs(M123, Deploys(<<"h1", "h2", "h3", "h4", "h5", "h6">>, 1)),
     Curvefs(<<"m1", "m2", "m4">>, Deploys(<<"h1", "h2", "h3">>, 1)),
     Curvefs(M123 \o <<"m4">>, Deploys(<<"h1", "h2", "h3">>, 1)) >>

TopologiesWritten == InPlaceBs \o MisplacedBs \o TopologiesFs

=============================================================================
