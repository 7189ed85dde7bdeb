---------------------------- MODULE MCPodAssign ----------------------------
(***************************************************************************)
(* Three calls race for one container name, or retry one another: two of   *)
(* the gRPC handler and one of LocalTransport.                             *)
(***************************************************************************)
EXTENDS PodAssign, TLC

CONSTANT a

MCNameOf == [c \in Calls |-> a]

=============================================================================
