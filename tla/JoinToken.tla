----------------------------- MODULE JoinToken ------------------------------
(***************************************************************************)
(* The join token of a cluster (cluster/token.rs, the token handlers of    *)
(* api/handlers.rs, the end of start_master in main.rs).  It is kept in    *)
(* three places: its hash and the token itself, two rows of cluster_config *)
(* written one after the other, and the hash that the gRPC server was      *)
(* started with and checks Register against until it stops.                *)
(***************************************************************************)
EXTENDS Nothing

CONSTANTS
    Tokens,     \* what generate_token can give; never the same twice
    Rotations   \* requests for cluster/init or token/rotate

VARIABLES
    hashRow,     \* join_token_hash in cluster_config, or None
    tokenRow,    \* join_token in cluster_config, or None
    serverHash,  \* what the running gRPC server checks against, None while there is none
    fresh,       \* what the start has generated and not printed yet, or None
    rotation,    \* rotation[r]: the token a request has still to store and answer, or None
    \* history
    generated,   \* tokens generated so far
    told,        \* tokens that were printed or answered to someone
    abandoned,   \* tokens whose process died or whose request was dropped before the answer
    disturbed    \* rotations overlapped, ended half-way, or could not store the token

tokenVars == <<hashRow, tokenRow, serverHash, fresh, rotation, generated, told, abandoned, disturbed>>

----------------------------------------------------------------------------
(* token.rs.  The hash is a value of its own kind, different for different *)
(* tokens.                                                                 *)

hash_token(t) == [sha256 |-> t]

verify_token(t, h) == h = hash_token(t)

generate_token(t) == t \in Tokens \ generated /\ generated' = generated \cup {t}

ASSUME TokenAssumption == None \notin Tokens /\ \A t \in Tokens : hash_token(t) # None

Hashes == {hash_token(t) : t \in Tokens}

TokenTypeOK ==
    /\ hashRow    \in Hashes \cup {None}
    /\ tokenRow   \in Tokens \cup {None}
    /\ serverHash \in Hashes \cup {None}
    /\ fresh      \in Tokens \cup {None}
    /\ rotation   \in [Rotations -> Tokens \cup {None}]
    /\ generated  \subseteq Tokens
    /\ told       \subseteq Tokens
    /\ abandoned  \subseteq Tokens
    /\ disturbed  \in BOOLEAN

TokenInit ==
    /\ hashRow = None /\ tokenRow = None /\ serverHash = None /\ fresh = None
    /\ rotation = [r \in Rotations |-> None]
    /\ generated = {} /\ told = {} /\ abandoned = {}
    /\ disturbed = FALSE

InFlight == {r \in Rotations : rotation[r] # None}

----------------------------------------------------------------------------
(* The start of a master. *)

\* Slip: the start looks for the token, which a first start never stores.
NoTokenShown == tokenRow = None

\* get_cluster_config("join_token_hash") answers None
NoTokenYet == hashRow = None

\* The hash is stored before anyone knows the token.
GenerateFirst ==
    /\ NoTokenYet
    /\ \E t \in Tokens : /\ generate_token(t)
                         /\ hashRow' = hash_token(t)
                         /\ fresh'   = t
    /\ UNCHANGED <<tokenRow, serverHash, rotation, told, abandoned, disturbed>>

\* The token is printed; the server starts with its hash.
PrintFirst ==
    /\ fresh # None
    /\ told'       = told \cup {fresh}
    /\ serverHash' = hash_token(fresh)
    /\ fresh'      = None
    /\ UNCHANGED <<hashRow, tokenRow, rotation, generated, abandoned, disturbed>>

LoadHash ==
    /\ ~NoTokenYet
    /\ serverHash' = hashRow
    /\ UNCHANGED <<hashRow, tokenRow, fresh, rotation, generated, told, abandoned, disturbed>>

----------------------------------------------------------------------------
(* The requests of a running master. *)

\* Slip: the token goes into the store first, whether or not the hash follows.
TokenFirst(r, t) ==
    /\ tokenRow' = t
    /\ \/ hashRow' = hash_token(t) /\ rotation' = [rotation EXCEPT ![r] = t]
       \/ UNCHANGED <<hashRow, rotation>>

\* set_cluster_config("join_token_hash"): an error is the answer and ends the request.
StoreHash(r, t) ==
    /\ \/ hashRow' = hash_token(t) /\ rotation' = [rotation EXCEPT ![r] = t]
       \/ UNCHANGED <<hashRow, rotation>>
    /\ UNCHANGED tokenRow

\* cluster_init and cluster_token_rotate, up to the first write.
RotateHash(r) ==
    /\ rotation[r] = None
    /\ \E t \in Tokens : generate_token(t) /\ StoreHash(r, t)
    /\ disturbed' = (disturbed \/ InFlight # {})
    /\ UNCHANGED <<serverHash, fresh, told, abandoned>>

\* Slip: an error of the second write is the answer, and the token is dropped.
ToldIfStored(t, stored) == IF stored THEN {t} ELSE {}

\* The answer has the token, stored or not.
Told(t, stored) == {t}

\* set_cluster_config("join_token"), its error ignored, and the answer.
RotateToken(r) ==
    /\ rotation[r] # None
    /\ rotation' = [rotation EXCEPT ![r] = None]
    /\ \E stored \in BOOLEAN :
          /\ tokenRow'  = IF stored THEN rotation[r] ELSE tokenRow
          /\ told'      = told \cup Told(rotation[r], stored)
          /\ disturbed' = (disturbed \/ ~stored)
    /\ UNCHANGED <<hashRow, serverHash, fresh, generated, abandoned>>

\* The client hangs up and the handler is dropped where it awaits: in the second write,
\* which is done or not, or before the answer has left.
HangUp(r) ==
    /\ rotation[r] # None
    /\ rotation'  = [rotation EXCEPT ![r] = None]
    /\ abandoned' = abandoned \cup {rotation[r]}
    /\ \E stored \in BOOLEAN :
          /\ tokenRow'  = IF stored THEN rotation[r] ELSE tokenRow
          /\ disturbed' = (disturbed \/ ~stored)
    /\ UNCHANGED <<hashRow, serverHash, fresh, generated, told>>

\* cluster_token_show; without a row it answers "cluster not initialized".
ShowToken ==
    /\ tokenRow # None
    /\ told' = told \cup {tokenRow}
    /\ UNCHANGED <<hashRow, tokenRow, serverHash, fresh, rotation, generated, abandoned, disturbed>>

\* The process ends: its server, its requests and what it has not printed are gone.
TokenCrash ==
    /\ serverHash' = None
    /\ fresh'      = None
    /\ rotation'   = [r \in Rotations |-> None]
    /\ abandoned'  = abandoned \cup ({fresh} \cap Tokens) \cup {rotation[r] : r \in InFlight}
    /\ disturbed'  = (disturbed \/ InFlight # {})
    /\ UNCHANGED <<hashRow, tokenRow, generated, told>>

----------------------------------------------------------------------------
(* Properties *)

\* The check that register makes of the token a worker brings.
Accepts(t) == verify_token(t, serverHash)

\* Whenever the gRPC server runs, the token it accepts was told to someone, or the
\* process that had it died, or the client that asked for it hung up, before it could
\* be: failed writes of the token, overlapping rotations and restarts do not lock
\* workers out, and neither does an earlier loss once a later token was told.
SomeoneCanJoin == serverHash # None => \E t \in told \cup abandoned : Accepts(t)

\* The token that `token show` answers is the one whose hash the next start loads,
\* once rotations have come to their end one by one and stored what they had to.
ShownIsCurrent ==
    (tokenRow # None /\ InFlight = {} /\ ~disturbed) => verify_token(tokenRow, hashRow)

=============================================================================
