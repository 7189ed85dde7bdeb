----------------------------- MODULE StateStore -----------------------------
(***************************************************************************)
(* Projects, deployments and pods in the SQLite store                      *)
(* (adapters/state/sqlite.rs, migrations/).  Every call is one SQL         *)
(* statement, so it is one action here; what is hard is what its callers   *)
(* bring along: a Deployment or a Pod that they read long ago, whose row,  *)
(* deployment or project another caller has deleted since.                 *)
(*                                                                         *)
(* A Deployment's id, project and name never change once it is made        *)
(* (Uuid::new_v4, and update_deployment leaves those columns alone), so    *)
(* made[d] is what any copy of d says about them, stale or not.            *)
(***************************************************************************)
EXTENDS Nothing

CONSTANTS
    Projects,       \* names of projects
    Deployments,    \* ids of deployments
    Pods,           \* ids of pods
    DeploymentNames,
    Statuses        \* of projects, deployments and pods

\* What a Deployment says for ever, and the row it has in the table.
Identity      == [project : Projects, name : DeploymentNames]
DeploymentRow == [project : Projects, name : DeploymentNames, status : Statuses]
PodRow        == [deployment : Deployments, project : Projects, status : Statuses]

ASSUME NoRowAssumption == None \notin Statuses \cup Identity \cup DeploymentRow \cup PodRow

VARIABLES
    projects,     \* projects[p]: its status, or None
    deployments,  \* deployments[d]: its row, or None
    pods,         \* pods[i]: its row, or None
    answer,       \* what the last call answered
    \* history
    made,         \* made[d]: what the Deployment with id d says, None if there is none yet
    madePods      \* ids of the pods made so far

tables == <<projects, deployments, pods>>

storeVars == <<projects, deployments, pods, answer, made, madePods>>

\* Ok(()), a unique violation told apart, no row affected, any other error.
Answers == {"ok", "exists", "not_found", "error"}

StoreTypeOK ==
    /\ projects    \in [Projects -> Statuses \cup {None}]
    /\ deployments \in [Deployments -> DeploymentRow \cup {None}]
    /\ pods        \in [Pods -> PodRow \cup {None}]
    /\ answer      \in Answers
    /\ made        \in [Deployments -> Identity \cup {None}]
    /\ madePods    \subseteq Pods

StoreInit ==
    /\ projects    = [p \in Projects |-> None]
    /\ deployments = [d \in Deployments |-> None]
    /\ pods        = [i \in Pods |-> None]
    /\ answer      = "ok"
    /\ made        = [d \in Deployments |-> None]
    /\ madePods    = {}

----------------------------------------------------------------------------
(* What the schema adds to a statement. *)

\* UNIQUE(project, name)
NameTaken(p, n) == \E d \in Deployments : /\ deployments[d] # None
                                          /\ deployments[d].project = p
                                          /\ deployments[d].name = n

\* Slip: the pods of a deleted deployment stay.
PodsKept(ds) == pods

\* Slip: ON DELETE SET NULL.
PodsDetached(ds) ==
    [i \in Pods |-> IF pods[i] # None /\ pods[i].deployment \in ds
                    THEN [pods[i] EXCEPT !.deployment = None] ELSE pods[i]]

\* ON DELETE CASCADE from deployments to pods
PodsCascaded(ds) ==
    [i \in Pods |-> IF pods[i] # None /\ pods[i].deployment \in ds THEN None ELSE pods[i]]

\* ON DELETE CASCADE from projects to deployments
OfProject(p) == {d \in Deployments : deployments[d] # None /\ deployments[d].project = p}

DeploymentsWithout(ds) == [d \in Deployments |-> IF d \in ds THEN None ELSE deployments[d]]

----------------------------------------------------------------------------
(* The calls.  Each may also fail in the pool or the database, which       *)
(* changes nothing and answers an error: StoreFails.                       *)

insert_project(p, s) ==
    /\ \/ /\ projects[p] = None
          /\ projects' = [projects EXCEPT ![p] = s]
          /\ answer'   = "ok"
       \/ /\ projects[p] # None
          /\ answer' = "exists"
          /\ UNCHANGED projects
    /\ UNCHANGED <<deployments, pods, made, madePods>>

update_project_status(p, s) ==
    /\ \/ /\ projects[p] # None
          /\ projects' = [projects EXCEPT ![p] = s]
          /\ answer'   = "ok"
       \/ /\ projects[p] = None
          /\ answer' = "not_found"
          /\ UNCHANGED projects
    /\ UNCHANGED <<deployments, pods, made, madePods>>

\* No row is no error.
delete_project(p) ==
    /\ projects'    = [projects EXCEPT ![p] = None]
    /\ deployments' = DeploymentsWithout(OfProject(p))
    /\ pods'        = PodsCascaded(OfProject(p))
    /\ answer'      = "ok"
    /\ UNCHANGED <<made, madePods>>

\* A new Deployment.  A missing project and a name in use are both errors.
insert_deployment(d, p, n, s) ==
    /\ made[d] = None
    /\ made' = [made EXCEPT ![d] = [project |-> p, name |-> n]]
    /\ \/ /\ projects[p] # None /\ ~NameTaken(p, n)
          /\ deployments' = [deployments EXCEPT ![d] = [project |-> p, name |-> n, status |-> s]]
          /\ answer'      = "ok"
       \/ /\ projects[p] = None \/ NameTaken(p, n)
          /\ answer' = "error"
          /\ UNCHANGED deployments
    /\ UNCHANGED <<projects, pods, madePods>>

\* Slip: a row that is not there is inserted from the copy.
UpsertDeployment(d, s) ==
    [deployments EXCEPT ![d] = [project |-> made[d].project, name |-> made[d].name, status |-> s]]

\* UPDATE deployments ... WHERE id = ?
DeploymentUpdated(d, s) ==
    IF deployments[d] # None THEN [deployments EXCEPT ![d].status = s] ELSE deployments

\* A copy of Deployment d, however old, is written back.
update_deployment(d, s) ==
    /\ made[d] # None
    /\ deployments' = DeploymentUpdated(d, s)
    /\ answer'      = IF deployments[d] # None THEN "ok" ELSE "not_found"
    /\ UNCHANGED <<projects, pods, made, madePods>>

delete_deployment(d) ==
    /\ made[d] # None
    /\ deployments' = DeploymentsWithout({d})
    /\ pods'        = PodsCascaded({d})
    /\ answer'      = "ok"
    /\ UNCHANGED <<projects, made, madePods>>

\* A new Pod of Deployment d; its project is copied from the Deployment.
insert_pod(i, d, s) ==
    /\ i \notin madePods /\ made[d] # None
    /\ madePods' = madePods \cup {i}
    /\ \/ /\ deployments[d] # None
          /\ pods'   = [pods EXCEPT ![i] = [deployment |-> d, project |-> made[d].project,
                                            status |-> s]]
          /\ answer' = "ok"
       \/ /\ deployments[d] = None
          /\ answer' = "error"
          /\ UNCHANGED pods
    /\ UNCHANGED <<projects, deployments, made>>

update_pod(i, s) ==
    /\ i \in madePods
    /\ \/ /\ pods[i] # None
          /\ pods'   = [pods EXCEPT ![i].status = s]
          /\ answer' = "ok"
       \/ /\ pods[i] = None
          /\ answer' = "not_found"
          /\ UNCHANGED pods
    /\ UNCHANGED <<projects, deployments, made, madePods>>

delete_pod(i) ==
    /\ i \in madePods
    /\ pods'   = [pods EXCEPT ![i] = None]
    /\ answer' = "ok"
    /\ UNCHANGED <<projects, deployments, made, madePods>>

StoreFails ==
    /\ answer' = "error"
    /\ UNCHANGED <<projects, deployments, pods, made, madePods>>

StoreNext ==
    \/ \E p \in Projects : \/ \E s \in Statuses : insert_project(p, s) \/ update_project_status(p, s)
                           \/ delete_project(p)
    \/ \E d \in Deployments, s \in Statuses :
          \/ \E p \in Projects, n \in DeploymentNames : insert_deployment(d, p, n, s)
          \/ update_deployment(d, s)
    \/ \E d \in Deployments : delete_deployment(d)
    \/ \E i \in Pods : \/ \E s \in Statuses : \/ \E d \in Deployments : insert_pod(i, d, s)
                                              \/ update_pod(i, s)
                       \/ delete_pod(i)
    \/ StoreFails

----------------------------------------------------------------------------
(* What the readers answer. *)

\* list_pods(Some(p)) selects by the pod's own project column.
list_pods(p) == {i \in Pods : pods[i] # None /\ pods[i].project = p}

\* list_deployments(Some(p))
list_deployments(p) == OfProject(p)

\* pods_by_deployment(d)
pods_by_deployment(d) == {i \in Pods : pods[i] # None /\ pods[i].deployment = d}

----------------------------------------------------------------------------
(* Properties *)

\* Whatever order inserts, stale updates and deletes come in, no reader meets an
\* orphan: the pods listed under a project are the pods of the deployments listed
\* under it, and a project that is not there lists nothing
\* (tests/sqlite_integration.rs: cascade_delete_project_removes_deployments_and_pods).
NoOrphans ==
    /\ \A p \in Projects : list_pods(p) = UNION {pods_by_deployment(d) : d \in list_deployments(p)}
    /\ \A p \in Projects : projects[p] = None => list_deployments(p) = {}
    /\ \A d \in Deployments : deployments[d] = None => pods_by_deployment(d) = {}

\* A row that was deleted, by itself or with its project, does not come back when a
\* caller writes its old copy.
DeletedStaysDeleted ==
    [][/\ \A d \in Deployments : (made[d] # None /\ deployments[d] = None) => deployments'[d] = None
       /\ \A i \in Pods : (i \in madePods /\ pods[i] = None) => pods'[i] = None]_storeVars

=============================================================================
