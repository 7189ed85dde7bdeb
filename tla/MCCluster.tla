----------------------------- MODULE MCCluster -----------------------------
(***************************************************************************)
(* Small instances of Cluster.  MasterName 1 sorts before the workers'     *)
(* hostnames; in the safety instance two machines report one hostname, so  *)
(* that their registrations, streams and rows compete.                     *)
(***************************************************************************)
EXTENDS Cluster, TLC

\* Both machines are called 2.
Namesakes == [h \in Hosts |-> 2]

\* The ids, streams, calls, requests and machines are interchangeable.
Symmetry == Permutations(NodeIds) \cup Permutations(Streams) \cup Permutations(Calls)
            \cup Permutations(Admins) \cup Permutations(Hosts)

=============================================================================
