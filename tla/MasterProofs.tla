---------------------------- MODULE MasterProofs ----------------------------
(***************************************************************************)
(* Proofs about Master.  Its parts meet in the life of the process only,   *)
(* so each part has an inductive invariant of its own: every step of       *)
(* Master is a call of the store or leaves the tables alone, and the same  *)
(* for the token and the secrets.  The token's invariant reads the phase.  *)
(***************************************************************************)
EXTENDS Master, TLAPS

----------------------------------------------------------------------------
(* The inductive invariants *)

\* A row says what the Deployment said when it was made, and its project is there.
RowsAgree ==
    \A d \in Deployments : deployments[d] # None =>
        /\ made[d] = [project |-> deployments[d].project, name |-> deployments[d].name]
        /\ projects[deployments[d].project] # None

\* A pod was made for a deployment that is there, and has its project.
PodsOwned ==
    \A i \in Pods : pods[i] # None =>
        /\ i \in madePods
        /\ deployments[pods[i].deployment] # None
        /\ pods[i].project = deployments[pods[i].deployment].project

StoreInv == StoreTypeOK /\ RowsAgree /\ PodsOwned

\* Only a running master has a server and requests, and only the step of the start
\* that prints has a token it has not told.
PhaseAgrees ==
    /\ phase # "up" => serverHash = None /\ InFlight = {}
    /\ phase # "print" => fresh = None

\* The token of the stored hash was told to someone, is about to be, or was abandoned.
HashKnown ==
    hashRow # None =>
        \E t \in Tokens : /\ hashRow = hash_token(t)
                          /\ \/ t \in told \cup abandoned
                             \/ t = fresh
                             \/ \E r \in Rotations : rotation[r] = t

\* A token is stored after a hash, and a rotation has stored its hash.
HashFirst == hashRow = None => tokenRow = None /\ InFlight = {}

\* Undisturbed, at most one rotation is on its way, and the hash is that of its token.
OneByOne ==
    ~disturbed => \A r \in Rotations : rotation[r] # None =>
                      /\ hashRow = hash_token(rotation[r])
                      /\ \A q \in Rotations : rotation[q] # None => q = r

TokenInv == /\ TokenTypeOK /\ PhaseAgrees
            /\ HashKnown /\ HashFirst /\ OneByOne
            /\ SomeoneCanJoin /\ ShownIsCurrent

\* The running process has the key in the file, every blob is sealed with it or with a
\* key that a power cut took, and a blob holds what was set.
KeyAgrees ==
    /\ cipher # None => cipher = keyFile
    /\ \A n \in SecretNames :
          IF secrets[n] = None THEN lastSet[n] = None
          ELSE secrets[n].key \in lostKeys \cup {keyFile} /\ secrets[n].plain = lastSet[n]

SecretInv == SecretTypeOK /\ KeyAgrees

IInv == StoreInv /\ TokenInv /\ SecretInv /\ phase \in Phases

----------------------------------------------------------------------------
(* The tables *)

\* What the constraints of the schema need to know of the rows.
LEMMA RowTypes ==
    ASSUME StoreTypeOK
    PROVE  /\ \A d \in Deployments : deployments[d] # None => deployments[d] \in DeploymentRow
           /\ \A i \in Pods : pods[i] # None => pods[i] \in PodRow
           /\ \A d \in Deployments : made[d] # None => made[d] \in Identity
BY DEF StoreTypeOK

\* A statement about projects alone: it may add one or change a status.
LEMMA ProjectWritten ==
    ASSUME StoreInv, NEW p \in Projects, NEW s \in Statuses,
           insert_project(p, s) \/ update_project_status(p, s)
    PROVE  StoreInv'
<1> USE NoRowAssumption
<1>1. StoreTypeOK'
      BY DEF StoreInv, StoreTypeOK, insert_project, update_project_status, Answers
<1>2. UNCHANGED <<deployments, pods, made, madePods>>
      BY DEF insert_project, update_project_status
<1>3. \A q \in Projects : projects[q] # None => projects'[q] # None
      BY DEF StoreInv, StoreTypeOK, insert_project, update_project_status
<1>4. RowsAgree'
      BY <1>2, <1>3, RowTypes DEF StoreInv, RowsAgree, DeploymentRow
<1>5. PodsOwned'
      BY <1>2 DEF StoreInv, PodsOwned
<1> QED
    BY <1>1, <1>4, <1>5 DEF StoreInv

\* Deployments deleted with their pods, and a project with all its deployments.
LEMMA CascadeKeeps ==
    ASSUME StoreInv, NEW ds \in SUBSET Deployments,
           deployments' = DeploymentsWithout(ds), pods' = PodsCascaded(ds),
           projects' \in [Projects -> Statuses \cup {None}],
           \A d \in Deployments \ ds : deployments[d] # None =>
               projects'[deployments[d].project] # None,
           answer' = "ok", made' = made, madePods' = madePods
    PROVE  StoreInv'
<1> USE NoRowAssumption
<1>1. \A d \in Deployments : deployments'[d] = IF d \in ds THEN None ELSE deployments[d]
      BY DEF DeploymentsWithout
<1>2. \A i \in Pods : pods'[i] = IF pods[i] # None /\ pods[i].deployment \in ds THEN None ELSE pods[i]
      BY DEF PodsCascaded
<1>3. StoreTypeOK'
      BY DEF StoreInv, StoreTypeOK, DeploymentsWithout, PodsCascaded, Answers
<1>4. RowsAgree'
      BY <1>1 DEF StoreInv, RowsAgree
<1>5. PodsOwned'
      BY <1>1, <1>2, RowTypes DEF StoreInv, PodsOwned, PodRow
<1> QED
    BY <1>3, <1>4, <1>5 DEF StoreInv

\* delete_project leaves no deployment of the project.
LEMMA ProjectDeleted ==
    ASSUME StoreInv, NEW p \in Projects, delete_project(p)
    PROVE  StoreInv'
<1>1. projects' \in [Projects -> Statuses \cup {None}]
      BY DEF StoreInv, StoreTypeOK, delete_project
<1>2. ASSUME NEW d \in Deployments \ OfProject(p), deployments[d] # None
      PROVE  projects'[deployments[d].project] # None
      BY <1>2, RowTypes DEF StoreInv, StoreTypeOK, RowsAgree, OfProject, delete_project, DeploymentRow
<1>3. OfProject(p) \in SUBSET Deployments
      BY DEF OfProject
<1> QED
    BY <1>1, <1>2, <1>3, CascadeKeeps DEF delete_project

\* delete_deployment
LEMMA DeploymentDeleted ==
    ASSUME StoreInv, NEW d \in Deployments, delete_deployment(d)
    PROVE  StoreInv'
<1>1. \A e \in Deployments \ {d} : deployments[e] # None => projects'[deployments[e].project] # None
      BY DEF StoreInv, RowsAgree, delete_deployment
<1> QED
    BY <1>1, CascadeKeeps DEF delete_deployment, StoreInv, StoreTypeOK

\* insert_deployment: the id is new and the project is there, or nothing is inserted.
LEMMA DeploymentInserted ==
    ASSUME StoreInv, NEW d \in Deployments, NEW p \in Projects, NEW n \in DeploymentNames,
           NEW s \in Statuses, insert_deployment(d, p, n, s)
    PROVE  StoreInv'
<1> USE NoRowAssumption
<1>1. StoreTypeOK'
      BY DEF StoreInv, StoreTypeOK, insert_deployment, Answers, Identity, DeploymentRow
<1>2. deployments[d] = None
  <2>1. SUFFICES ASSUME deployments[d] # None PROVE FALSE
        OBVIOUS
  <2>2. [project |-> deployments[d].project, name |-> deployments[d].name] \in Identity
        BY <2>1, RowTypes DEF StoreInv, DeploymentRow, Identity
  <2> QED
      BY <2>1, <2>2 DEF StoreInv, RowsAgree, insert_deployment
<1>3. \A e \in Deployments \ {d} : made'[e] = made[e] /\ deployments'[e] = deployments[e]
      BY DEF StoreInv, StoreTypeOK, insert_deployment
<1>4. made'[d] = [project |-> p, name |-> n]
      BY DEF StoreInv, StoreTypeOK, insert_deployment
<1>5. /\ projects' = projects /\ pods' = pods /\ madePods' = madePods
      /\ \/ deployments'[d] = None
         \/ /\ deployments'[d] = [project |-> p, name |-> n, status |-> s]
            /\ projects[p] # None
      BY <1>2 DEF StoreInv, StoreTypeOK, insert_deployment
<1>6. RowsAgree'
      BY <1>3, <1>4, <1>5 DEF StoreInv, RowsAgree
<1>7. PodsOwned'
      BY <1>2, <1>3, <1>5, RowTypes DEF StoreInv, PodsOwned, PodRow
<1> QED
    BY <1>1, <1>6, <1>7 DEF StoreInv

\* update_deployment changes the status of a row that is there.
LEMMA DeploymentUpdatedKeeps ==
    ASSUME StoreInv, NEW d \in Deployments, NEW s \in Statuses, update_deployment(d, s)
    PROVE  StoreInv'
<1> USE NoRowAssumption
<1>1. StoreTypeOK'
      BY DEF StoreInv, StoreTypeOK, update_deployment, DeploymentUpdated, Answers, DeploymentRow
<1>2. /\ UNCHANGED <<projects, pods, made, madePods>>
      /\ \A e \in Deployments :
            /\ deployments'[e] = None <=> deployments[e] = None
            /\ deployments[e] # None => /\ deployments'[e].project = deployments[e].project
                                        /\ deployments'[e].name = deployments[e].name
      BY <1>1, RowTypes
      DEF StoreInv, StoreTypeOK, update_deployment, DeploymentUpdated, DeploymentRow
<1>3. RowsAgree'
      BY <1>2 DEF StoreInv, RowsAgree
<1>4. PodsOwned'
      BY <1>2, RowTypes DEF StoreInv, PodsOwned, PodRow
<1> QED
    BY <1>1, <1>3, <1>4 DEF StoreInv

\* The statements about pods.
LEMMA PodWritten ==
    ASSUME StoreInv, NEW i \in Pods,
           \/ \E s \in Statuses, d \in Deployments : insert_pod(i, d, s)
           \/ \E s \in Statuses : update_pod(i, s)
           \/ delete_pod(i)
    PROVE  StoreInv'
<1> USE NoRowAssumption
<1>1. UNCHANGED <<projects, deployments, made>>
      BY DEF insert_pod, update_pod, delete_pod
<1>2. StoreTypeOK'
      BY DEF StoreInv, StoreTypeOK, insert_pod, update_pod, delete_pod, Answers, PodRow, Identity
<1>3. PodsOwned'
  <2>1. \A j \in Pods \ {i} : pods'[j] = pods[j] /\ (j \in madePods => j \in madePods')
        BY DEF StoreInv, StoreTypeOK, insert_pod, update_pod, delete_pod
  <2> DEFINE Owned == pods'[i] # None =>
            /\ i \in madePods'
            /\ deployments[pods'[i].deployment] # None
            /\ pods'[i].project = deployments[pods'[i].deployment].project
  <2>2. Owned
    <3>1. ASSUME NEW s \in Statuses, NEW d \in Deployments, insert_pod(i, d, s) PROVE Owned
          BY <3>1, RowTypes DEF StoreInv, StoreTypeOK, RowsAgree, PodsOwned, insert_pod, DeploymentRow
    <3>2. ASSUME NEW s \in Statuses, update_pod(i, s) PROVE Owned
          BY <3>2, RowTypes DEF StoreInv, StoreTypeOK, PodsOwned, update_pod, PodRow
    <3>3. CASE delete_pod(i)
          BY <3>3 DEF StoreInv, StoreTypeOK, delete_pod
    <3> QED
        BY <3>1, <3>2, <3>3
  <2> QED
      BY <1>1, <2>1, <2>2 DEF StoreInv, PodsOwned
<1>4. RowsAgree'
      BY <1>1 DEF StoreInv, RowsAgree
<1> QED
    BY <1>2, <1>3, <1>4 DEF StoreInv

\* Every call keeps the invariant of the tables.
LEMMA StoreStep == StoreInv /\ StoreNext => StoreInv'
<1> SUFFICES ASSUME StoreInv, StoreNext PROVE StoreInv'
    OBVIOUS
<1>1. CASE StoreFails
      BY <1>1 DEF StoreFails, StoreInv, StoreTypeOK, RowsAgree, PodsOwned, Answers
<1> QED
    BY <1>1, ProjectWritten, ProjectDeleted, DeploymentDeleted, DeploymentInserted,
       DeploymentUpdatedKeeps, PodWritten
    DEF StoreNext

----------------------------------------------------------------------------
(* The join token.  A step of Master is one of the token's actions in the  *)
(* phase that allows it, or leaves the token alone.                        *)

\* A step that leaves the token alone and does not leave "up" or "print".
LEMMA TokenUnchanged ==
    ASSUME TokenInv, UNCHANGED tokenVars, phase' = phase \/ phase \notin {"print", "up"}
    PROVE  TokenInv'
<1>1. InFlight' = InFlight
      BY DEF tokenVars, InFlight
<1> QED
    BY <1>1
    DEF TokenInv, TokenTypeOK, tokenVars, PhaseAgrees, HashKnown, HashFirst, OneByOne,
        SomeoneCanJoin, ShownIsCurrent, Accepts, verify_token

\* The first start stores a hash and has the token in hand.
LEMMA GenerateFirstKeeps ==
    ASSUME TokenInv, Go("token", "print"), GenerateFirst
    PROVE  TokenInv'
<1>1. PICK t \in Tokens : generate_token(t) /\ hashRow' = hash_token(t) /\ fresh' = t
      BY DEF GenerateFirst
<1>2. /\ UNCHANGED <<tokenRow, serverHash, rotation, told, abandoned, disturbed>>
      /\ hashRow = None /\ tokenRow = None /\ serverHash = None /\ InFlight = {} /\ InFlight' = {}
      /\ \A r \in Rotations : rotation[r] = None
      BY DEF GenerateFirst, TokenInv, HashFirst, NoTokenYet, PhaseAgrees, Go, InFlight
<1>3. hashRow' \in Hashes /\ hashRow' # None
      BY <1>1, TokenAssumption DEF Hashes
<1>4. TokenTypeOK'
      BY <1>1, <1>2, <1>3 DEF TokenInv, TokenTypeOK, generate_token
<1>5. PhaseAgrees' /\ HashKnown' /\ HashFirst' /\ OneByOne'
      BY <1>1, <1>2, <1>3 DEF PhaseAgrees, HashKnown, HashFirst, OneByOne, Go
<1>6. SomeoneCanJoin' /\ ShownIsCurrent'
      BY <1>2 DEF SomeoneCanJoin, ShownIsCurrent
<1> QED
    BY <1>4, <1>5, <1>6 DEF TokenInv

\* The token is printed and the server starts with its hash.
LEMMA PrintFirstKeeps ==
    ASSUME TokenInv, Go("print", "up"), PrintFirst
    PROVE  TokenInv'
<1>1. /\ fresh \in Tokens /\ told' = told \cup {fresh} /\ fresh' = None
      /\ serverHash' = hash_token(fresh)
      /\ UNCHANGED <<hashRow, tokenRow, rotation, generated, abandoned, disturbed>>
      /\ InFlight' = InFlight
      BY DEF PrintFirst, TokenInv, TokenTypeOK, InFlight
<1>2. TokenTypeOK'
      BY <1>1 DEF TokenInv, TokenTypeOK, Hashes
<1>3. PhaseAgrees' /\ HashKnown' /\ HashFirst' /\ OneByOne'
      BY <1>1 DEF TokenInv, PhaseAgrees, HashKnown, HashFirst, OneByOne, Go
<1>4. SomeoneCanJoin' /\ ShownIsCurrent'
      BY <1>1 DEF TokenInv, SomeoneCanJoin, ShownIsCurrent, Accepts, verify_token
<1> QED
    BY <1>2, <1>3, <1>4 DEF TokenInv

\* A later start loads the hash; its token is told or abandoned, since nothing is in flight.
LEMMA LoadHashKeeps ==
    ASSUME TokenInv, Go("token", "up"), LoadHash
    PROVE  TokenInv'
<1>1. /\ hashRow # None /\ serverHash' = hashRow
      /\ UNCHANGED <<hashRow, tokenRow, fresh, rotation, generated, told, abandoned, disturbed>>
      /\ InFlight' = InFlight /\ InFlight = {} /\ fresh = None
      BY DEF LoadHash, NoTokenYet, InFlight, TokenInv, PhaseAgrees, Go
<1>2. TokenTypeOK'
      BY <1>1 DEF TokenInv, TokenTypeOK
<1>3. PhaseAgrees' /\ HashKnown' /\ HashFirst' /\ OneByOne' /\ ShownIsCurrent'
      BY <1>1
      DEF TokenInv, PhaseAgrees, HashKnown, HashFirst, OneByOne, ShownIsCurrent, verify_token, Go
<1>4. SomeoneCanJoin'
      BY <1>1, TokenAssumption DEF TokenInv, HashKnown, SomeoneCanJoin, Accepts, verify_token, InFlight
<1> QED
    BY <1>2, <1>3, <1>4 DEF TokenInv

\* A rotation stores its hash, or fails.
LEMMA RotateHashKeeps ==
    ASSUME TokenInv, phase = "up", phase' = phase, NEW r \in Rotations, RotateHash(r)
    PROVE  TokenInv'
<1>1. PICK t \in Tokens : generate_token(t) /\ StoreHash(r, t)
      BY DEF RotateHash
<1>2. /\ rotation[r] = None /\ tokenRow' = tokenRow
      /\ UNCHANGED <<serverHash, fresh, told, abandoned>>
      /\ disturbed' = (disturbed \/ InFlight # {})
      BY <1>1 DEF RotateHash, StoreHash
<1>3. ~disturbed' => ~disturbed /\ \A q \in Rotations : rotation[q] = None
      BY <1>2 DEF InFlight
<1>4. SomeoneCanJoin'
      BY <1>2 DEF TokenInv, SomeoneCanJoin, Accepts, verify_token
<1>5. disturbed' \in BOOLEAN
      BY <1>2
<1>6. CASE hashRow' = hash_token(t) /\ rotation' = [rotation EXCEPT ![r] = t]
  <2>1. hashRow' \in Hashes /\ hashRow' # None /\ t # None
        BY <1>6, TokenAssumption DEF Hashes
  <2>2. TokenTypeOK'
        BY <1>1, <1>2, <1>5, <1>6, <2>1 DEF TokenInv, TokenTypeOK, generate_token
  <2>3. rotation'[r] = t /\ \A q \in Rotations : q # r => rotation'[q] = rotation[q]
        BY <1>6 DEF TokenInv, TokenTypeOK
  <2>4. PhaseAgrees' /\ HashKnown' /\ HashFirst'
        BY <1>2, <1>6, <2>1, <2>3 DEF TokenInv, PhaseAgrees, HashKnown, HashFirst
  <2>5. OneByOne'
        BY <1>3, <1>6, <2>3 DEF OneByOne
  <2>6. ShownIsCurrent'
        BY <2>1, <2>3 DEF ShownIsCurrent, InFlight
  <2> QED
      BY <1>4, <2>2, <2>4, <2>5, <2>6 DEF TokenInv
<1>7. CASE UNCHANGED <<hashRow, rotation>>
  <2>1. TokenTypeOK'
        BY <1>1, <1>2, <1>5, <1>7 DEF TokenInv, TokenTypeOK, generate_token
  <2>2. PhaseAgrees' /\ HashKnown' /\ HashFirst' /\ OneByOne'
        BY <1>2, <1>3, <1>7 DEF TokenInv, PhaseAgrees, HashKnown, HashFirst, OneByOne, InFlight
  <2>3. ShownIsCurrent'
        BY <1>2, <1>3, <1>7 DEF TokenInv, ShownIsCurrent, verify_token, InFlight
  <2> QED
      BY <1>4, <2>1, <2>2, <2>3 DEF TokenInv
<1> QED
    BY <1>1, <1>6, <1>7 DEF StoreHash

\* A rotation stores its token, or not, and answers it.
LEMMA RotateTokenKeeps ==
    ASSUME TokenInv, phase = "up", phase' = phase, NEW r \in Rotations, RotateToken(r)
    PROVE  TokenInv'
<1>1. PICK stored \in BOOLEAN :
          /\ tokenRow'  = IF stored THEN rotation[r] ELSE tokenRow
          /\ told'      = told \cup {rotation[r]}
          /\ disturbed' = (disturbed \/ ~stored)
      BY DEF RotateToken, Told
<1>2. /\ rotation[r] \in Tokens
      /\ UNCHANGED <<hashRow, serverHash, fresh, generated, abandoned>>
      /\ rotation'[r] = None /\ \A q \in Rotations : q # r => rotation'[q] = rotation[q]
      /\ rotation' \in [Rotations -> Tokens \cup {None}]
      BY DEF RotateToken, TokenInv, TokenTypeOK
<1>3. ~disturbed' => ~disturbed /\ stored
      BY <1>1
<1>4. hashRow # None
      BY <1>2, TokenAssumption DEF TokenInv, HashFirst, InFlight
<1>5. TokenTypeOK'
  <2>1. disturbed' \in BOOLEAN
        BY <1>1
  <2> QED
      BY <1>1, <1>2, <2>1 DEF TokenInv, TokenTypeOK
<1>6. PhaseAgrees' /\ HashKnown' /\ HashFirst'
      BY <1>1, <1>2, <1>4 DEF TokenInv, PhaseAgrees, HashKnown, HashFirst
<1>7. OneByOne'
      BY <1>2, <1>3 DEF TokenInv, OneByOne
<1>8. SomeoneCanJoin'
      BY <1>1, <1>2 DEF TokenInv, SomeoneCanJoin, Accepts, verify_token
<1>9. ShownIsCurrent'
      BY <1>1, <1>2, <1>3, TokenAssumption DEF TokenInv, OneByOne, ShownIsCurrent, verify_token
<1> QED
    BY <1>5, <1>6, <1>7, <1>8, <1>9 DEF TokenInv

\* A rotation is dropped: its token is stored or not, and abandoned.
LEMMA HangUpKeeps ==
    ASSUME TokenInv, phase = "up", phase' = phase, NEW r \in Rotations, HangUp(r)
    PROVE  TokenInv'
<1>1. PICK stored \in BOOLEAN :
          /\ tokenRow'  = IF stored THEN rotation[r] ELSE tokenRow
          /\ disturbed' = (disturbed \/ ~stored)
      BY DEF HangUp
<1>2. /\ rotation[r] \in Tokens /\ abandoned' = abandoned \cup {rotation[r]}
      /\ UNCHANGED <<hashRow, serverHash, fresh, generated, told>>
      /\ rotation'[r] = None /\ \A q \in Rotations : q # r => rotation'[q] = rotation[q]
      /\ rotation' \in [Rotations -> Tokens \cup {None}]
      BY DEF HangUp, TokenInv, TokenTypeOK
<1>3. ~disturbed' => ~disturbed /\ stored
      BY <1>1
<1>4. hashRow # None
      BY <1>2, TokenAssumption DEF TokenInv, HashFirst, InFlight
<1>5. TokenTypeOK'
  <2>1. disturbed' \in BOOLEAN
        BY <1>1
  <2> QED
      BY <1>1, <1>2, <2>1 DEF TokenInv, TokenTypeOK
<1>6. PhaseAgrees' /\ HashKnown' /\ HashFirst'
      BY <1>1, <1>2, <1>4 DEF TokenInv, PhaseAgrees, HashKnown, HashFirst
<1>7. OneByOne'
      BY <1>2, <1>3 DEF TokenInv, OneByOne
<1>8. SomeoneCanJoin'
      BY <1>1, <1>2 DEF TokenInv, SomeoneCanJoin, Accepts, verify_token
<1>9. ShownIsCurrent'
      BY <1>1, <1>2, <1>3, TokenAssumption DEF TokenInv, OneByOne, ShownIsCurrent, verify_token
<1> QED
    BY <1>5, <1>6, <1>7, <1>8, <1>9 DEF TokenInv

\* Showing the stored token tells it once more.
LEMMA ShowTokenKeeps ==
    ASSUME TokenInv, phase' = phase, ShowToken
    PROVE  TokenInv'
<1>1. /\ told \subseteq told' /\ told' \subseteq Tokens /\ InFlight' = InFlight
      /\ UNCHANGED <<hashRow, tokenRow, serverHash, fresh, rotation, generated, abandoned, disturbed>>
      BY DEF ShowToken, TokenInv, TokenTypeOK, InFlight
<1> QED
    BY <1>1
    DEF TokenInv, TokenTypeOK, PhaseAgrees, HashKnown, HashFirst, OneByOne, SomeoneCanJoin,
        ShownIsCurrent, Accepts, verify_token

\* A crash abandons the tokens that were in hand.
LEMMA TokenCrashKeeps ==
    ASSUME TokenInv, phase' = "down", TokenCrash
    PROVE  TokenInv'
<1>1. /\ serverHash' = None /\ fresh' = None /\ UNCHANGED <<hashRow, tokenRow, generated, told>>
      /\ rotation' = [r \in Rotations |-> None] /\ InFlight' = {}
      /\ \A r \in Rotations : rotation'[r] = None
      BY DEF TokenCrash, InFlight
<1>2. abandoned' \subseteq Tokens /\ disturbed' \in BOOLEAN
      BY DEF TokenCrash, TokenInv, TokenTypeOK, InFlight
<1>3. \A t \in Tokens : (t \in abandoned \/ t = fresh \/ \E r \in Rotations : rotation[r] = t)
                          => t \in abandoned'
      BY TokenAssumption DEF TokenCrash, InFlight
<1>4. ~disturbed' => ~disturbed /\ InFlight = {}
      BY DEF TokenCrash
<1>5. TokenTypeOK'
      BY <1>1, <1>2 DEF TokenInv, TokenTypeOK
<1>6. PhaseAgrees' /\ HashFirst' /\ OneByOne' /\ SomeoneCanJoin'
      BY <1>1 DEF TokenInv, PhaseAgrees, HashFirst, OneByOne, SomeoneCanJoin
<1>7. HashKnown'
      BY <1>1, <1>3, TokenAssumption DEF TokenInv, HashKnown
<1>8. ShownIsCurrent'
      BY <1>1, <1>4 DEF TokenInv, ShownIsCurrent, verify_token
<1> QED
    BY <1>5, <1>6, <1>7, <1>8 DEF TokenInv

----------------------------------------------------------------------------
(* The secrets *)

\* init_secrets: a new key is made, or fails to be made, only while the file has none, so
\* that any blob there is has lost its key already.
LEMMA InitSecretsKeeps ==
    ASSUME SecretInv, LoadKey \/ GenerateKey \/ GenerateKeyFails \/ RefuseKey
    PROVE  SecretInv'
<1> USE SecretAssumption
<1>1. SecretTypeOK'
      BY DEF SecretInv, SecretTypeOK, LoadKey, GenerateKey, GenerateKeyFails, RefuseKey, secretVars
<1>2. UNCHANGED <<secrets, lostKeys, lastSet>>
      BY DEF LoadKey, GenerateKey, GenerateKeyFails, RefuseKey, secretVars
<1>3. CASE LoadKey \/ RefuseKey
      BY <1>1, <1>2, <1>3 DEF SecretInv, KeyAgrees, LoadKey, RefuseKey, secretVars
<1>4. CASE GenerateKey \/ GenerateKeyFails
  <2>1. keyFile = None
        BY <1>4 DEF GenerateKey, GenerateKeyFails, KeyAbsent
  <2>2. \A n \in SecretNames : secrets[n] = None \/ secrets[n].key \in lostKeys
        BY <2>1 DEF SecretInv, SecretTypeOK, Sealed, KeyAgrees
  <2>3. cipher' # None => cipher' = keyFile'
        BY <1>4, <2>1 DEF SecretInv, SecretTypeOK, KeyAgrees, GenerateKey, GenerateKeyFails
  <2> QED
      BY <1>1, <1>2, <2>2, <2>3 DEF SecretInv, KeyAgrees
<1> QED
    BY <1>3, <1>4

\* set and delete of a running store.
LEMMA SecretWritten ==
    ASSUME SecretInv, NEW n \in SecretNames, delete(n) \/ \E v \in Values : set(n, v)
    PROVE  SecretInv'
<1> USE SecretAssumption
<1>1. CASE delete(n)
      BY <1>1 DEF SecretInv, SecretTypeOK, KeyAgrees, delete
<1>2. ASSUME NEW v \in Values, set(n, v) PROVE SecretInv'
  <2>1. encrypt(cipher, v) \in Sealed
        BY <1>2 DEF SecretInv, SecretTypeOK, set, encrypt, Sealed
  <2>2. SecretTypeOK'
        BY <1>2, <2>1 DEF SecretInv, SecretTypeOK, set
  <2>3. KeyAgrees'
    <3>1. /\ secrets'[n] # None /\ secrets'[n].key = cipher /\ secrets'[n].plain = v
          /\ lastSet'[n] = v /\ cipher = keyFile /\ UNCHANGED <<keyFile, cipher, lostKeys>>
          BY <1>2, <2>1 DEF SecretInv, SecretTypeOK, KeyAgrees, set, encrypt
    <3>2. \A m \in SecretNames : m # n => secrets'[m] = secrets[m] /\ lastSet'[m] = lastSet[m]
          BY <1>2 DEF SecretInv, SecretTypeOK, set
    <3> QED
        BY <3>1, <3>2 DEF SecretInv, KeyAgrees
  <2> QED
      BY <2>2, <2>3 DEF SecretInv
<1> QED
    BY <1>1, <1>2

\* A power cut leaves the key in the file or among the lost ones.
LEMMA PowerCutKeeps ==
    ASSUME SecretInv, SecretPowerCut
    PROVE  SecretInv'
<1> USE SecretAssumption
<1>1. SecretTypeOK'
      BY DEF SecretInv, SecretTypeOK, SecretPowerCut
<1>2. /\ cipher' = None /\ UNCHANGED <<secrets, lastSet>>
      /\ (lostKeys \cup {keyFile}) \cap Keys \subseteq lostKeys' \cup {keyFile'}
      BY DEF SecretInv, SecretTypeOK, SecretPowerCut
<1>3. \A n \in SecretNames : secrets[n] # None => secrets[n].key \in Keys
      BY DEF SecretInv, SecretTypeOK, Sealed
<1> QED
    BY <1>1, <1>2, <1>3 DEF SecretInv, KeyAgrees

----------------------------------------------------------------------------
(* The composition *)

\* Every step of Master keeps the invariant of each part.
LEMMA Step == IInv /\ [Next]_vars => IInv'
<1> SUFFICES ASSUME IInv, [Next]_vars PROVE IInv'
    OBVIOUS
<1>1. StoreInv'
  <2>1. StoreNext \/ UNCHANGED storeVars
        BY DEF Next, vars, InitInfrastructure, InitSecrets, InitDns, InitProxy, InitToken, Serve,
               Crash, PowerCut, WriteBack, TokenRequest, SecretRequest, StoreCall
  <2>2. CASE UNCHANGED storeVars
        BY <2>2 DEF IInv, StoreInv, storeVars, StoreTypeOK, RowsAgree, PodsOwned
  <2> QED
      BY <2>1, <2>2, StoreStep DEF IInv
<1>2. TokenInv'
  <2>1. CASE UNCHANGED vars \/ InitInfrastructure \/ InitSecrets \/ InitDns \/ InitProxy
             \/ SecretRequest \/ StoreCall \/ WriteBack
        BY <2>1, TokenUnchanged
        DEF IInv, vars, InitInfrastructure, InitSecrets, InitDns, InitProxy, SecretRequest,
            StoreCall, WriteBack, Go
  <2>2. CASE InitToken \/ Serve
        BY <2>2, LoadHashKeeps, GenerateFirstKeeps, PrintFirstKeeps DEF IInv, InitToken, Serve
  <2>3. CASE Crash \/ PowerCut
        BY <2>3, TokenCrashKeeps DEF IInv, Crash, PowerCut
  <2>4. CASE TokenRequest
        BY <2>4, RotateHashKeeps, RotateTokenKeeps, HangUpKeeps, ShowTokenKeeps DEF IInv, TokenRequest
  <2> QED
      BY <2>1, <2>2, <2>3, <2>4 DEF Next
<1>3. SecretInv'
  <2>1. CASE InitSecrets
        BY <2>1, InitSecretsKeeps DEF IInv, InitSecrets
  <2>2. CASE SecretRequest
        BY <2>2, SecretWritten DEF IInv, SecretRequest
  <2>3. CASE Crash \/ PowerCut \/ WriteBack
        BY <2>3, PowerCutKeeps, SecretAssumption
        DEF IInv, Crash, SecretCrash, PowerCut, WriteBack, KeySynced, SecretInv, SecretTypeOK, KeyAgrees
  <2>4. CASE UNCHANGED secretVars
        BY <2>4 DEF IInv, secretVars, SecretInv, SecretTypeOK, KeyAgrees
  <2> QED
      BY <2>1, <2>2, <2>3, <2>4
      DEF Next, vars, InitInfrastructure, InitDns, InitProxy, InitToken, Serve, TokenRequest, StoreCall
<1>4. phase' \in Phases
      BY DEF IInv, Phases, Next, vars, InitInfrastructure, InitSecrets, InitDns, InitProxy,
             InitToken, Serve, Crash, PowerCut, WriteBack, TokenRequest, SecretRequest, StoreCall, Go
<1> QED
    BY <1>1, <1>2, <1>3, <1>4 DEF IInv

\* Tables, token, secrets and phase satisfy their invariants over any number of starts,
\* crashes, calls and requests.
THEOREM InductiveInvariant == Spec => []IInv
<1>1. Init => IInv
  <2> SUFFICES ASSUME Init PROVE IInv
      OBVIOUS
  <2>1. StoreInv
        BY DEF Init, StoreInit, StoreInv, StoreTypeOK, RowsAgree, PodsOwned, Answers
  <2>2. TokenInv
        BY DEF Init, TokenInit, TokenInv, TokenTypeOK, PhaseAgrees, HashKnown, HashFirst, OneByOne,
               SomeoneCanJoin, ShownIsCurrent, InFlight
  <2>3. SecretInv
        BY DEF Init, SecretInit, SecretInv, SecretTypeOK, KeyAgrees
  <2> QED
      BY <2>1, <2>2, <2>3 DEF Init, IInv, Phases
<1> QED
    BY <1>1, Step, PTL DEF Spec

\* Every variable of the three parts keeps its type.
THEOREM TypeCorrect == Spec => []TypeOK
<1>1. IInv => TypeOK
      BY DEF IInv, StoreInv, TokenInv, SecretInv, TypeOK
<1> QED
    BY <1>1, InductiveInvariant, PTL

\* No reader of the store meets a pod without its deployment or a deployment without
\* its project (sqlite.rs, ON DELETE CASCADE in migrations/).
THEOREM NoOrphansCorrect == Spec => []NoOrphans
<1>1. ASSUME StoreInv PROVE NoOrphans
  <2>1. ASSUME NEW p \in Projects
        PROVE  list_pods(p) = UNION {pods_by_deployment(d) : d \in list_deployments(p)}
    <3>1. ASSUME NEW i \in Pods, pods[i] # None
          PROVE  pods[i].project = p <=> \E d \in list_deployments(p) : pods[i].deployment = d
          BY <1>1, <3>1, RowTypes
          DEF StoreInv, PodsOwned, list_deployments, OfProject, PodRow
    <3> QED
        BY <3>1 DEF list_pods, pods_by_deployment
  <2>2. \A p \in Projects : projects[p] = None => list_deployments(p) = {}
        BY <1>1 DEF StoreInv, RowsAgree, list_deployments, OfProject
  <2>3. \A d \in Deployments : deployments[d] = None => pods_by_deployment(d) = {}
        BY <1>1 DEF StoreInv, PodsOwned, pods_by_deployment
  <2> QED
      BY <2>1, <2>2, <2>3 DEF NoOrphans
<1> QED
    BY <1>1, InductiveInvariant, PTL DEF IInv

\* A write from an old copy brings no deleted deployment or pod back.
THEOREM DeletedStaysDeletedCorrect == Spec => DeletedStaysDeleted
<1> DEFINE Stays ==
        /\ \A d \in Deployments : (made[d] # None /\ deployments[d] = None) => deployments'[d] = None
        /\ \A i \in Pods : (i \in madePods /\ pods[i] = None) => pods'[i] = None
<1>1. ASSUME StoreInv, StoreNext PROVE Stays
  <2> USE <1>1 DEF StoreInv, StoreTypeOK
  <2>1. ASSUME NEW p \in Projects,
               delete_project(p) \/ \E s \in Statuses : insert_project(p, s) \/ update_project_status(p, s)
        PROVE  Stays
        BY <2>1 DEF delete_project, insert_project, update_project_status, DeploymentsWithout,
                    PodsCascaded
  <2>2. ASSUME NEW d \in Deployments,
               \/ delete_deployment(d)
               \/ \E s \in Statuses : \/ update_deployment(d, s)
                                      \/ \E p \in Projects, n \in DeploymentNames :
                                            insert_deployment(d, p, n, s)
        PROVE  Stays
        BY <2>2 DEF delete_deployment, update_deployment, insert_deployment, DeploymentsWithout,
                    PodsCascaded, DeploymentUpdated
  <2>3. ASSUME NEW i \in Pods,
               \/ delete_pod(i)
               \/ \E s \in Statuses : \/ update_pod(i, s)
                                      \/ \E d \in Deployments : insert_pod(i, d, s)
        PROVE  Stays
        BY <2>3 DEF delete_pod, update_pod, insert_pod
  <2>4. CASE StoreFails
        BY <2>4 DEF StoreFails
  <2> QED
      BY <2>1, <2>2, <2>3, <2>4 DEF StoreNext
<1>2. IInv /\ [Next]_vars => [Stays]_storeVars
  <2> SUFFICES ASSUME IInv, [Next]_vars PROVE StoreNext \/ UNCHANGED storeVars
      BY <1>1 DEF IInv
  <2> QED
      BY DEF Next, vars, InitInfrastructure, InitSecrets, InitDns, InitProxy, InitToken, Serve,
             Crash, PowerCut, WriteBack, TokenRequest, SecretRequest, StoreCall
<1> QED
    BY <1>2, InductiveInvariant, PTL DEF Spec, DeletedStaysDeleted

\* The token a running server accepts was told to someone, unless the process or the
\* request that had it in hand ended first (main.rs: start_master; handlers.rs:
\* cluster_init, cluster_token_rotate).
THEOREM SomeoneCanJoinCorrect == Spec => []SomeoneCanJoin
BY InductiveInvariant, PTL DEF IInv, TokenInv

\* `token show` answers the token of the stored hash after undisturbed rotations.
THEOREM ShownIsCurrentCorrect == Spec => []ShownIsCurrent
BY InductiveInvariant, PTL DEF IInv, TokenInv

\* No start and no stop replaces the stored hash.
THEOREM RestartKeepsTokenCorrect == Spec => RestartKeepsToken
<1>1. [Next]_vars => [(hashRow # None /\ phase # "up") => hashRow' = hashRow]_vars
      BY DEF Next, vars, tokenVars, InitInfrastructure, InitSecrets, InitDns, InitProxy, InitToken,
             Serve, Crash, PowerCut, WriteBack, TokenRequest, SecretRequest, StoreCall, LoadHash,
             GenerateFirst, PrintFirst, TokenCrash, NoTokenYet
<1> QED
    BY <1>1, PTL DEF Spec, RestartKeepsToken

\* Every secret reads as it was last set, over any number of restarts, unless a power cut
\* took its key (master_key.rs: generate_key).
THEOREM SecretsReadableCorrect == Spec => []SecretsReadable
<1>1. SecretInv => SecretsReadable
      BY SecretAssumption DEF SecretInv, SecretTypeOK, Sealed, KeyAgrees, SecretsReadable,
                              KeyLost, get, decrypt
<1> QED
    BY <1>1, InductiveInvariant, PTL DEF IInv

\* A damaged key file guards no secret whose key was not lost already.
THEOREM DamagedKeyGuardsNothingCorrect == Spec => []DamagedKeyGuardsNothing
<1>1. SecretInv => DamagedKeyGuardsNothing
      BY SecretAssumption DEF SecretInv, SecretTypeOK, Sealed, KeyAgrees,
                              DamagedKeyGuardsNothing, KeyLost
<1> QED
    BY <1>1, InductiveInvariant, PTL DEF IInv

=============================================================================
