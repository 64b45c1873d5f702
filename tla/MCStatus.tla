------------------------------- MODULE MCStatus -------------------------------
(* A small instance of Status: an mds, two replicas of a chunkserver deploy, *)
(* a snapshotclone, and a client.                                            *)
EXTENDS Status

Parents == [s \in Service |-> IF s \in {"c1", "c2"} THEN "c" ELSE s]
=============================================================================
