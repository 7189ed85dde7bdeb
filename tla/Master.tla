------------------------------- MODULE Master -------------------------------
(***************************************************************************)
(* What a master keeps from one life to the next.  start_master (main.rs)  *)
(* brings the parts up in order and gives up at the first error: the store,*)
(* the master key and the secrets, DNS, the proxy's directory, then the    *)
(* orchestrator and the join token.  The process may die at any step, and  *)
(* the machine under it, and is started again on the same files.           *)
(***************************************************************************)
EXTENDS StateStore, JoinToken, SecretStore

VARIABLE phase  \* the step of start_master that comes next, "up", or "down"

vars == <<storeVars, tokenVars, secretVars, phase>>

Phases == {"down", "secrets", "dns", "proxy", "token", "print", "up"}

Go(from, to) == phase = from /\ phase' = to

\* The orchestrator has been spawned: it works on the store from here on, and so do
\* the event watcher's commands, whether or not the HTTP API answers yet.
Working == phase \in {"token", "print", "up"}

Init == StoreInit /\ TokenInit /\ SecretInit /\ phase = "down"

----------------------------------------------------------------------------
(* start_master *)

\* init_infrastructure: the store is opened and migrated, the runtime is found.
InitInfrastructure == Go("down", "secrets") /\ UNCHANGED <<storeVars, tokenVars, secretVars>>

\* init_secrets
InitSecrets ==
    /\ \/ Go("secrets", "dns") /\ (LoadKey \/ GenerateKey)
       \/ Go("secrets", "down") /\ (GenerateKeyFails \/ RefuseKey)
    /\ UNCHANGED <<storeVars, tokenVars>>

\* init_dns binds its sockets.
InitDns == Go("dns", "proxy") /\ UNCHANGED <<storeVars, tokenVars, secretVars>>

\* init_proxy makes its directory; the orchestrator is spawned; the master's own row
\* (module Cluster) is inserted.
InitProxy == Go("proxy", "token") /\ UNCHANGED <<storeVars, tokenVars, secretVars>>

\* The join token is loaded or generated.
InitToken ==
    /\ \/ Go("token", "up") /\ LoadHash
       \/ Go("token", "print") /\ GenerateFirst
    /\ UNCHANGED <<storeVars, secretVars>>

\* The token is printed; the gRPC server, the monitor and the HTTP API start.
Serve == Go("print", "up") /\ PrintFirst /\ UNCHANGED <<storeVars, secretVars>>

\* The process ends: an error of the step it is in (the store's, a port that is taken,
\* a directory that cannot be made) or a kill.  The machine goes on.
Crash ==
    /\ phase # "down"
    /\ phase' = "down"
    /\ TokenCrash
    /\ SecretCrash
    /\ UNCHANGED storeVars

\* The machine loses its power, whether or not a master runs on it.
PowerCut ==
    /\ phase' = "down"
    /\ TokenCrash
    /\ SecretPowerCut
    /\ UNCHANGED storeVars

\* The system writes what it has in memory to the disk.
WriteBack == KeySynced /\ UNCHANGED <<storeVars, tokenVars, phase>>

----------------------------------------------------------------------------
(* Requests *)

\* The token handlers of the HTTP API.
TokenRequest ==
    /\ phase = "up"
    /\ (\E r \in Rotations : RotateHash(r) \/ RotateToken(r) \/ HangUp(r)) \/ ShowToken
    /\ UNCHANGED <<storeVars, secretVars, phase>>

\* The secret handlers, through the orchestrator.
SecretRequest ==
    /\ phase = "up"
    /\ \E n \in SecretNames : (\E v \in Values : set(n, v)) \/ delete(n)
    /\ UNCHANGED <<storeVars, tokenVars, phase>>

\* The orchestrator's calls of the store.
StoreCall ==
    /\ Working
    /\ StoreNext
    /\ UNCHANGED <<tokenVars, secretVars, phase>>

Next ==
    \/ InitInfrastructure \/ InitSecrets \/ InitDns \/ InitProxy \/ InitToken \/ Serve
    \/ Crash \/ PowerCut \/ WriteBack
    \/ TokenRequest \/ SecretRequest \/ StoreCall

Spec == Init /\ [][Next]_vars

----------------------------------------------------------------------------
(* Properties *)

TypeOK == StoreTypeOK /\ TokenTypeOK /\ SecretTypeOK /\ phase \in Phases

\* Starting and stopping never replaces the stored hash: workers configured with a
\* token go on joining over any number of restarts until a rotation is asked for.
RestartKeepsToken ==
    [][(hashRow # None /\ phase # "up") => hashRow' = hashRow]_vars

=============================================================================
