----------------------------- MODULE PodAssign -----------------------------
(***************************************************************************)
(* assign_pod on one machine: the handlers of the worker's gRPC server     *)
(* (cluster/server.rs) and of LocalTransport (adapters/transport/local.rs) *)
(* drive the container runtime one awaited call at a time, and nothing     *)
(* stops two of them from working on the same container name: a retry of a *)
(* call whose caller has given up, or two assignments of one replica.      *)
(* stop_pod and remove_pod answer success and touch nothing, so they are   *)
(* no actions here.                                                        *)
(*                                                                         *)
(* Docker (adapters/runtime/docker.rs) stops and removes by name, each in  *)
(* one request to its daemon, and starts by id.  containerd (containerd.rs)*)
(* knows names only and runs ctr once per step: it signals, polls, deletes *)
(* the task, then the container, and between any two of these another call *)
(* may have put a new container under the name.  A call creates at most    *)
(* one container, so a container's id is the call that has created it.     *)
(***************************************************************************)
EXTENDS Naturals, FiniteSets

CONSTANTS
    Calls,       \* assign_pod calls
    LocalCalls,  \* those made through LocalTransport
    Names,       \* container names
    NameOf,      \* NameOf[c]: the container name of the pod call c assigns
    None         \* no container

\* Where a call stands: before the named runtime call, or at its answer.
Steps == {"idle", "exists", "stop", "wait", "remove", "delete", "network", "create", "start",
          "ok", "failed"}

\* A task that was sent a signal is "ending" until it exits.
Tasks == {"none", "running", "ending", "stopped"}

Container == [id : Calls, task : Tasks]

ASSUME CallsAssumption == LocalCalls \subseteq Calls /\ NameOf \in [Calls -> Names]

ASSUME NoneAssumption == None \notin Container

VARIABLES
    runtime,    \* "docker" or "containerd", as found at the start of the process
    pc,         \* pc[c] : Steps
    container,  \* container[n]: the container of that name, or None
    network,    \* whether the project's network exists
    \* history
    fault       \* names for which a runtime call failed for a reason of its own,
                \* a call was given up, or a container died or would not stop in time,
                \* and no call has had a fresh start since

vars == <<runtime, pc, container, network, fault>>

Goto(c, step) == pc' = [pc EXCEPT ![c] = step]

Faulty(c) == fault' = fault \cup {NameOf[c]}

InProgress(c) == pc[c] \notin {"idle", "ok", "failed"}

\* No other call of the name is in progress: c finds whatever the earlier ones have left.
FreshStart(c) == \A d \in Calls : NameOf[d] = NameOf[c] => ~InProgress(d)

----------------------------------------------------------------------------
(* The runtime's calls: what they answer, or what they leave of the table. *)

\* container_exists
Exists(n) == container[n] # None

\* The task of the container of that name, as `tasks list` and the daemon see it.
Runs(n) == Exists(n) /\ container[n].task \in {"running", "ending"}

WithTask(n, t) == [container EXCEPT ![n].task = t]

\* Slip: the container is left behind.
LeftBehind(n) == container

\* remove_container of Docker, forced; also the end of remove_container of containerd.
Removed(n) == [container EXCEPT ![n] = None]

\* create_container: the runtime refuses a name that is taken.
NameIsFree(n) == ~Exists(n)

\* create_container gives a new container, not running yet.
Created(c) == [container EXCEPT ![NameOf[c]] = [id |-> c, task |-> "none"]]

\* start_container.  Docker starts by id: it fails if another call has removed the
\* container, or its network is missing.  containerd starts whatever container has the
\* name, and fails if there is none or it has a task already.
CanStart(c) ==
    /\ Exists(NameOf[c])
    /\ \/ runtime = "docker" /\ container[NameOf[c]].id = c /\ network
       \/ runtime = "containerd" /\ container[NameOf[c]].task = "none"

----------------------------------------------------------------------------
(* assign_pod, call by call.  A runtime call that can fail for a reason of *)
(* its own (daemon, disk, image, port) has a second disjunct.              *)

\* Decode the request and pull the image; a failed pull is only logged.
Assign(c) ==
    /\ pc[c] = "idle"
    /\ Goto(c, "exists")
    /\ fault' = IF FreshStart(c) THEN fault \ {NameOf[c]} ELSE fault
    /\ UNCHANGED <<runtime, container, network>>

\* After an error of container_exists: LocalTransport gives up, the gRPC handler
\* takes it for "no".  containerd takes any failure of ctr itself for "no".
AfterExistsError(c) ==
    (IF c \in LocalCalls THEN {"failed"} ELSE {"network"})
    \cup (IF runtime = "containerd" THEN {"network"} ELSE {})

\* container_exists(container_name)
CheckExists(c) ==
    /\ pc[c] = "exists"
    /\ \/ /\ Goto(c, IF Exists(NameOf[c]) THEN "stop" ELSE "network")
          /\ UNCHANGED fault
       \/ /\ \E step \in AfterExistsError(c) : Goto(c, step)
          /\ Faulty(c)
    /\ UNCHANGED <<runtime, container, network>>

\* stop_container of Docker by name: whatever container has the name now.  The caller
\* ignores errors.
StopOld(c) ==
    /\ runtime = "docker" /\ pc[c] = "stop"
    /\ Goto(c, "remove")
    /\ \/ /\ container' = IF Runs(NameOf[c]) THEN WithTask(NameOf[c], "stopped") ELSE container
          /\ UNCHANGED fault
       \/ /\ UNCHANGED container
          /\ Faulty(c)
    /\ UNCHANGED <<runtime, network>>

\* stop_container of containerd sends SIGTERM; if nothing runs it is done.
SignalOld(c) ==
    /\ runtime = "containerd" /\ pc[c] = "stop"
    /\ \/ /\ Runs(NameOf[c])
          /\ container' = WithTask(NameOf[c], "ending")
          /\ Goto(c, "wait")
          /\ UNCHANGED fault
       \/ /\ ~Runs(NameOf[c])
          /\ Goto(c, "remove")
          /\ UNCHANGED <<container, fault>>
       \/ /\ Goto(c, "remove")
          /\ Faulty(c)
          /\ UNCHANGED container
    /\ UNCHANGED <<runtime, network>>

\* It polls the list of tasks until the name is not RUNNING, by name: a task that
\* another call has started meanwhile keeps it waiting.
WaitOld(c) ==
    /\ pc[c] = "wait"
    /\ ~Runs(NameOf[c])
    /\ Goto(c, "remove")
    /\ UNCHANGED <<runtime, container, network, fault>>

\* Slip: the wait has no deadline.
NoDeadline(c) == FALSE

\* The deadline has passed.
DeadlinePassed(c) == pc[c] = "wait"

\* The time is over, perhaps because of a running task whose line in the list merely
\* contains the name: SIGKILL to whatever runs under the name now, and no more waiting.
\* Or ctr fails, which the caller ignores.
KillOld(c) ==
    /\ DeadlinePassed(c)
    /\ container' \in {container, IF Runs(NameOf[c]) THEN WithTask(NameOf[c], "ending") ELSE container}
    /\ Goto(c, "remove")
    /\ Faulty(c)
    /\ UNCHANGED <<runtime, network>>

\* remove_container of Docker by name, forced.  Errors are ignored.
RemoveOld(c) ==
    /\ runtime = "docker" /\ pc[c] = "remove"
    /\ Goto(c, "network")
    /\ \/ /\ container' = Removed(NameOf[c])
          /\ UNCHANGED fault
       \/ /\ UNCHANGED container
          /\ Faulty(c)
    /\ UNCHANGED <<runtime, network>>

\* remove_container of containerd deletes the task first; that of a task that runs
\* fails, and is only logged.
DeleteTask(c) ==
    /\ runtime = "containerd" /\ pc[c] = "remove"
    /\ \/ /\ container' = IF Exists(NameOf[c]) /\ ~Runs(NameOf[c])
                          THEN WithTask(NameOf[c], "none") ELSE container
          /\ Goto(c, "delete")
          /\ UNCHANGED fault
       \/ /\ Goto(c, "network")
          /\ Faulty(c)
          /\ UNCHANGED container
    /\ UNCHANGED <<runtime, network>>

\* `containers delete` refuses a container whose task runs.
Deleted(n) == IF Runs(n) THEN container ELSE Removed(n)

\* Then the container, by name.  Errors are ignored by the caller.
DeleteContainer(c) ==
    /\ pc[c] = "delete"
    /\ Goto(c, "network")
    /\ \/ /\ container' = Deleted(NameOf[c])
          /\ UNCHANGED fault
       \/ /\ UNCHANGED container
          /\ Faulty(c)
    /\ UNCHANGED <<runtime, network>>

\* The handler asks for a container with the network's name, finds none, and
\* tries to create the network; errors are ignored.  The request does not ask for a
\* check of the name, which the daemon makes all the same: a network that exists
\* stays as it is.
EnsureNetwork(c) ==
    /\ pc[c] = "network"
    /\ Goto(c, "create")
    /\ \/ network' = TRUE /\ UNCHANGED fault
       \/ UNCHANGED network /\ Faulty(c)
    /\ UNCHANGED <<runtime, container>>

\* What a create_container that fails may leave: containerd makes the directory for
\* the logs after the container.
LeftByFailure(c) ==
    IF runtime = "containerd" /\ NameIsFree(NameOf[c]) THEN {container, Created(c)} ELSE {container}

\* create_container
Create(c) ==
    /\ pc[c] = "create"
    /\ \/ /\ NameIsFree(NameOf[c])
          /\ container' = Created(c)
          /\ Goto(c, "start")
          /\ UNCHANGED fault
       \/ /\ ~NameIsFree(NameOf[c])
          /\ Goto(c, "failed")
          /\ UNCHANGED <<container, fault>>
       \/ /\ container' \in LeftByFailure(c)
          /\ Goto(c, "failed")
          /\ Faulty(c)
    /\ UNCHANGED <<runtime, network>>

\* start_container, and the answer to the caller.
Start(c) ==
    /\ pc[c] = "start"
    /\ \/ /\ CanStart(c)
          /\ container' = WithTask(NameOf[c], "running")
          /\ Goto(c, "ok")
          /\ UNCHANGED fault
       \/ /\ ~CanStart(c)
          /\ Goto(c, "failed")
          /\ UNCHANGED <<container, fault>>
       \/ /\ Goto(c, "failed")
          /\ Faulty(c)
          /\ UNCHANGED container
    /\ UNCHANGED <<runtime, network>>

\* The caller hangs up, or the process ends: the handler is dropped at the await it is
\* in, and is over when the runtime has done, or lost, what it was asked last.
Abandon(c) ==
    /\ InProgress(c)
    /\ Goto(c, "failed")
    /\ Faulty(c)
    /\ UNCHANGED <<runtime, container, network>>

\* A container that was sent a signal exits.
Exit(n) ==
    /\ Exists(n) /\ container[n].task = "ending"
    /\ container' = WithTask(n, "stopped")
    /\ UNCHANGED <<runtime, pc, network, fault>>

\* A container exits by itself.
Die(n) ==
    /\ Exists(n) /\ container[n].task = "running"
    /\ container' = WithTask(n, "stopped")
    /\ fault'     = fault \cup {n}
    /\ UNCHANGED <<runtime, pc, network>>

Init ==
    /\ runtime \in {"docker", "containerd"}
    /\ pc = [c \in Calls |-> "idle"]
    /\ container = [n \in Names |-> None]
    /\ network = FALSE
    /\ fault = {}

\* A step of the handler of c.
Handle(c) ==
    \/ CheckExists(c)
    \/ StopOld(c) \/ SignalOld(c) \/ WaitOld(c) \/ KillOld(c)
    \/ RemoveOld(c) \/ DeleteTask(c) \/ DeleteContainer(c)
    \/ EnsureNetwork(c) \/ Create(c) \/ Start(c)

Next ==
    \/ \E c \in Calls : Assign(c) \/ Handle(c) \/ Abandon(c)
    \/ \E n \in Names : Exit(n) \/ Die(n)

\* Handlers are polled, the runtime answers each request and timers fire.  Nothing is
\* assumed of containers: one may ignore the signals it is sent.
Fairness == \A c \in Calls : WF_vars(Handle(c))

Spec == Init /\ [][Next]_vars /\ Fairness

----------------------------------------------------------------------------
(* Properties *)

Finished(c) == pc[c] \in {"ok", "failed"}

\* The answer that the container of n stands for: with Docker that of the call that has
\* created it, with containerd that of any call, since one call may start the container
\* of another.
Acknowledged(n) ==
    IF runtime = "docker" THEN pc[container[n].id] = "ok"
    ELSE \E c \in Calls : NameOf[c] = n /\ pc[c] = "ok"

\* When no assignment of a name is in progress, some were answered and, since the last
\* fresh start, nothing failed on its own, the container of that name runs and success
\* was answered for it.  Racing calls may stop, signal, remove and recreate each other's
\* containers, but the last one standing is started; and a retry makes good whatever
\* calls that failed or were given up at any await, or a container that outlived its
\* deadline, have left behind.
RunsWhenAllAnswered ==
    \A n \in Names \ fault :
        (/\ \A c \in Calls : NameOf[c] = n => ~InProgress(c)
         /\ \E c \in Calls : NameOf[c] = n /\ Finished(c))
        => /\ container[n] # None
           /\ container[n].task = "running"
           /\ Acknowledged(n)

\* Every assignment is answered, even if the old container does not stop or other calls
\* go on starting containers under the name.
CallsAnswered == \A c \in Calls : pc[c] = "exists" ~> Finished(c)

=============================================================================
