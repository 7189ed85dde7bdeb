-------------------------- MODULE PodAssignProofs --------------------------
(***************************************************************************)
(* RunsWhenAllAnswered for any number of calls, names and pods, with       *)
(* Docker and with containerd.  The invariant names, for every state a     *)
(* container can be left in, a call that will not leave it so.  A call     *)
(* with a fresh start is such a call, whatever the earlier ones have left. *)
(***************************************************************************)
EXTENDS PodAssign, TLAPS

TypeOK ==
    /\ runtime \in {"docker", "containerd"}
    /\ pc \in [Calls -> Steps]
    /\ container \in [Names -> Container \cup {None}]
    /\ network \in BOOLEAN
    /\ fault \subseteq Names

\* The calls that assign the pod of that name.
Of(n) == {c \in Calls : NameOf[c] = n}

\* Call c will not leave the container of its name as it is: it will remove it, wait
\* for its end, start it or, if there is none, create one.  With Docker a call starts
\* only the container it has created.
Attends(c) ==
    LET k == container[NameOf[c]] IN
    \/ pc[c] = "exists"
    \/ k = None /\ pc[c] \in {"stop", "wait", "remove", "delete", "network", "create"}
    \/ k # None /\ k.task = "none" /\ pc[c] \in {"stop", "wait", "remove", "delete"}
    \/ k # None /\ k.task = "none" /\ pc[c] = "start" /\ (runtime = "docker" => k.id = c)
    \/ k # None /\ k.task = "ending" /\ pc[c] \in {"stop", "wait"}
    \/ k # None /\ k.task = "stopped" /\ pc[c] \in {"stop", "wait", "remove"}

Running(n) == container[n] # None /\ container[n].task = "running"

\* What runs was started by a call that has answered success, whatever failed since.
Answered(n) == Running(n) => Acknowledged(n)

\* Nothing failed on its own since the last fresh start: the calls of the name found a
\* network, and a container that does not run is on the way of one of them.
NameInv(n) ==
    /\ \A c \in Of(n) : pc[c] \in {"create", "start"} => network
    /\ (\E c \in Of(n) : pc[c] # "idle") => Running(n) \/ \E c \in Of(n) : Attends(c)

IInv ==
    /\ TypeOK
    /\ \A n \in Names : Answered(n)
    /\ \A n \in Names \ fault : NameInv(n)

----------------------------------------------------------------------------

\* What the tables say of one call, name or container.
LEMMA Types ==
    ASSUME TypeOK
    PROVE  /\ \A c \in Calls : NameOf[c] \in Names /\ pc[c] \in Steps
           /\ \A n \in Names : container[n] # None => container[n] \in Container
BY CallsAssumption DEF TypeOK

\* A step of call c to another step.
LEMMA GotoEffect ==
    ASSUME TypeOK, NEW c \in Calls, NEW step \in Steps, Goto(c, step)
    PROVE  /\ pc' \in [Calls -> Steps] /\ pc'[c] = step
           /\ \A d \in Calls : d # c => pc'[d] = pc[d]
BY DEF TypeOK, Goto

\* The invariant of a name outlives what a call does to the container of another name.
LEMMA OtherName ==
    ASSUME TypeOK, NEW c \in Calls, NEW n \in Names, n # NameOf[c], NameInv(n),
           \A d \in Calls : d # c => pc'[d] = pc[d],
           container'[n] = container[n], runtime' = runtime, network => network'
    PROVE  NameInv(n)'
<1>1. \A d \in Of(n) : pc'[d] = pc[d] /\ NameOf[d] = n
      BY DEF Of
<1>2. Of(n)' = Of(n) /\ (Running(n)' <=> Running(n))
      BY DEF Of, Running
<1>3. ASSUME NEW d \in Of(n) PROVE Attends(d)' <=> Attends(d)
      BY <1>1 DEF Attends
<1> QED
    BY <1>1, <1>2, <1>3 DEF NameInv

\* The invariant of the name that call c works on: after the step of c the container
\* runs or is attended by c, or the step has left it to whoever attended it before.
LEMMA OwnName ==
    ASSUME TypeOK, NEW c \in Calls, NameInv(NameOf[c]), pc[c] # "idle",
           \A d \in Calls : d # c => pc'[d] = pc[d],
           runtime' = runtime, network => network',
           pc'[c] \in {"create", "start"} => network',
           \/ Attends(c)'
           \/ Running(NameOf[c])'
           \/ container' = container /\ ~Attends(c)
    PROVE  NameInv(NameOf[c])'
<1>1. PICK n : n = NameOf[c]
      OBVIOUS
<1>2. c \in Of(n) /\ Of(n)' = Of(n)
      BY <1>1 DEF Of
<1>3. ASSUME NEW d \in Of(n), pc'[d] \in {"create", "start"} PROVE network'
      BY <1>1, <1>3 DEF NameInv, Of
<1>4. Running(n)' \/ \E d \in Of(n) : Attends(d)'
  <2>1. CASE Attends(c)' \/ Running(n)'
        BY <1>2, <2>1
  <2>2. CASE container' = container /\ ~Attends(c)
    <3>1. Running(n) \/ \E d \in Of(n) : Attends(d)
          BY <1>1, <1>2 DEF NameInv
    <3>2. CASE Running(n)
          BY <2>2, <3>2 DEF Running
    <3>3. ASSUME NEW d \in Of(n), Attends(d) PROVE Attends(d)'
          BY <2>2, <3>3 DEF Attends, Of
    <3> QED
        BY <3>1, <3>2, <3>3
  <2> QED
      BY <1>1, <2>1, <2>2
<1> QED
    BY <1>1, <1>2, <1>3, <1>4 DEF NameInv

----------------------------------------------------------------------------
(* The steps of a call c, for the name it works on, when nothing fails on  *)
(* its own.                                                                *)

\* A container with another task is a container.
LEMMA WithTaskEffect ==
    ASSUME TypeOK, NEW n \in Names, container[n] # None, NEW t \in Tasks,
           container' = WithTask(n, t)
    PROVE  /\ container' \in [Names -> Container \cup {None}]
           /\ container'[n] # None /\ container'[n].task = t
           /\ container'[n].id = container[n].id
           /\ \A m \in Names : m # n => container'[m] = container[m]
<1>1. container[n] \in Container
      BY Types
<1>2. [container[n] EXCEPT !.task = t] \in Container
      BY <1>1 DEF Container
<1>3. container'[n] = [container[n] EXCEPT !.task = t]
      BY DEF WithTask, TypeOK
<1> QED
    BY <1>1, <1>2, <1>3, NoneAssumption DEF WithTask, TypeOK, Container

\* A call with a fresh start attends its container, whatever it finds.
LEMMA AssignName ==
    ASSUME IInv, NEW c \in Calls, Assign(c), NameOf[c] \notin fault'
    PROVE  NameInv(NameOf[c])'
<1>1. TypeOK /\ NameOf[c] \in Names /\ UNCHANGED <<runtime, container, network>>
      BY Types DEF IInv, Assign
<1>2. pc'[c] = "exists" /\ \A d \in Calls : d # c => pc'[d] = pc[d]
      BY <1>1, GotoEffect DEF Assign, Steps
<1>3. PICK n : n = NameOf[c]
      OBVIOUS
<1>4. c \in Of(n) /\ Of(n)' = Of(n) /\ Attends(c)'
      BY <1>2, <1>3 DEF Of, Attends
<1>5. ASSUME NEW d \in Of(n), pc'[d] \in {"create", "start"} PROVE network'
  <2>1. d \in Calls /\ NameOf[d] = n /\ pc[d] \in {"create", "start"}
        BY <1>2, <1>5 DEF Of
  <2>2. ~FreshStart(c)
        BY <1>3, <2>1 DEF FreshStart, InProgress
  <2>3. n \in Names \ fault
        BY <1>1, <1>3, <2>2 DEF Assign
  <2> QED
      BY <1>1, <1>5, <2>1, <2>3 DEF IInv, NameInv
<1> QED
    BY <1>3, <1>4, <1>5 DEF NameInv

\* A container that is found will be stopped and removed.
LEMMA CheckExistsName ==
    ASSUME IInv, NEW c \in Calls, CheckExists(c), NameOf[c] \notin fault'
    PROVE  NameInv(NameOf[c])'
<1>1. /\ NameOf[c] \in Names \ fault /\ TypeOK /\ NameInv(NameOf[c])
      /\ runtime' = runtime /\ (network => network') /\ pc[c] = "exists"
      BY Types DEF IInv, CheckExists, Faulty
<1>2. CASE Exists(NameOf[c]) /\ Goto(c, "stop") /\ container' = container
  <2>1. pc'[c] = "stop" /\ \A d \in Calls : d # c => pc'[d] = pc[d]
        BY <1>1, <1>2, GotoEffect DEF Steps
  <2>2. Attends(c)' \/ Running(NameOf[c])'
        BY <1>1, <1>2, <2>1, Types DEF Attends, Running, Exists, Container, Tasks
  <2> QED
      BY <1>1, <2>1, <2>2, OwnName
<1>3. CASE ~Exists(NameOf[c]) /\ Goto(c, "network") /\ container' = container
  <2>1. pc'[c] = "network" /\ \A d \in Calls : d # c => pc'[d] = pc[d]
        BY <1>1, <1>3, GotoEffect DEF Steps
  <2>2. Attends(c)'
        BY <1>1, <1>3, <2>1 DEF Attends, Exists
  <2> QED
      BY <1>1, <2>1, <2>2, OwnName
<1> QED
    BY <1>1, <1>2, <1>3 DEF CheckExists, Faulty

\* The container of the name is stopped, and c will remove it.
LEMMA StopOldName ==
    ASSUME IInv, NEW c \in Calls, StopOld(c), NameOf[c] \notin fault'
    PROVE  NameInv(NameOf[c])'
<1>1. /\ NameOf[c] \in Names \ fault /\ TypeOK /\ NameInv(NameOf[c])
      /\ runtime' = runtime /\ (network => network') /\ pc[c] = "stop"
      BY Types DEF IInv, StopOld, Faulty
<1>2. pc'[c] = "remove" /\ \A d \in Calls : d # c => pc'[d] = pc[d]
      BY <1>1, GotoEffect DEF StopOld, Steps
<1>3. CASE Runs(NameOf[c]) /\ container' = WithTask(NameOf[c], "stopped")
  <2>1. container'[NameOf[c]] # None /\ container'[NameOf[c]].task = "stopped"
        BY <1>1, <1>3, WithTaskEffect DEF Runs, Exists, Tasks
  <2>2. Attends(c)'
        BY <1>2, <2>1 DEF Attends
  <2> QED
      BY <1>1, <1>2, <2>2, OwnName
<1>4. CASE ~Runs(NameOf[c]) /\ container' = container
  <2>1. Attends(c)'
        BY <1>1, <1>2, <1>4, Types DEF Attends, Runs, Exists, Container, Tasks
  <2> QED
      BY <1>1, <1>2, <2>1, OwnName
<1> QED
    BY <1>1, <1>3, <1>4 DEF StopOld, Faulty

\* A task that runs is signalled, and c waits for its end.
LEMMA SignalOldName ==
    ASSUME IInv, NEW c \in Calls, SignalOld(c), NameOf[c] \notin fault'
    PROVE  NameInv(NameOf[c])'
<1>1. /\ NameOf[c] \in Names \ fault /\ TypeOK /\ NameInv(NameOf[c])
      /\ runtime' = runtime /\ (network => network') /\ pc[c] = "stop"
      BY Types DEF IInv, SignalOld, Faulty
<1>2. CASE Runs(NameOf[c]) /\ container' = WithTask(NameOf[c], "ending") /\ Goto(c, "wait")
  <2>1. pc'[c] = "wait" /\ \A d \in Calls : d # c => pc'[d] = pc[d]
        BY <1>1, <1>2, GotoEffect DEF Steps
  <2>2. container'[NameOf[c]] # None /\ container'[NameOf[c]].task = "ending"
        BY <1>1, <1>2, WithTaskEffect DEF Runs, Exists, Tasks
  <2>3. Attends(c)'
        BY <2>1, <2>2 DEF Attends
  <2> QED
      BY <1>1, <2>1, <2>3, OwnName
<1>3. CASE ~Runs(NameOf[c]) /\ container' = container /\ Goto(c, "remove")
  <2>1. pc'[c] = "remove" /\ \A d \in Calls : d # c => pc'[d] = pc[d]
        BY <1>1, <1>3, GotoEffect DEF Steps
  <2>2. Attends(c)'
        BY <1>1, <1>3, <2>1, Types DEF Attends, Runs, Exists, Container, Tasks
  <2> QED
      BY <1>1, <2>1, <2>2, OwnName
<1> QED
    BY <1>1, <1>2, <1>3 DEF SignalOld, Faulty

\* The task is over, and c will delete it.
LEMMA WaitOldName ==
    ASSUME IInv, NEW c \in Calls, WaitOld(c), NameOf[c] \notin fault'
    PROVE  NameInv(NameOf[c])'
<1>1. /\ NameOf[c] \in Names \ fault /\ TypeOK /\ NameInv(NameOf[c])
      /\ runtime' = runtime /\ (network => network') /\ pc[c] = "wait"
      BY Types DEF IInv, WaitOld, Faulty
<1>2. pc'[c] = "remove" /\ \A d \in Calls : d # c => pc'[d] = pc[d]
      BY <1>1, GotoEffect DEF WaitOld, Steps
<1>3. Attends(c)'
      BY <1>1, <1>2, Types DEF WaitOld, Attends, Runs, Exists, Container, Tasks
<1> QED
    BY <1>1, <1>2, <1>3, OwnName

\* The name is free, and c will create a container.
LEMMA RemoveOldName ==
    ASSUME IInv, NEW c \in Calls, RemoveOld(c), NameOf[c] \notin fault'
    PROVE  NameInv(NameOf[c])'
<1>1. /\ NameOf[c] \in Names \ fault /\ TypeOK /\ NameInv(NameOf[c])
      /\ runtime' = runtime /\ (network => network') /\ pc[c] = "remove"
      BY Types DEF IInv, RemoveOld, Faulty
<1>2. pc'[c] = "network" /\ \A d \in Calls : d # c => pc'[d] = pc[d]
      BY <1>1, GotoEffect DEF RemoveOld, Steps
<1>3. container'[NameOf[c]] = None
      BY <1>1 DEF RemoveOld, Faulty, Removed, TypeOK
<1>4. Attends(c)'
      BY <1>2, <1>3 DEF Attends
<1> QED
    BY <1>1, <1>2, <1>4, OwnName

\* A task that does not run is deleted, and c will delete the container.
LEMMA DeleteTaskName ==
    ASSUME IInv, NEW c \in Calls, DeleteTask(c), NameOf[c] \notin fault'
    PROVE  NameInv(NameOf[c])'
<1>1. /\ NameOf[c] \in Names \ fault /\ TypeOK /\ NameInv(NameOf[c])
      /\ runtime' = runtime /\ (network => network') /\ pc[c] = "remove"
      /\ Goto(c, "delete")
      BY Types DEF IInv, DeleteTask, Faulty
<1>2. pc'[c] = "delete" /\ \A d \in Calls : d # c => pc'[d] = pc[d]
      BY <1>1, GotoEffect DEF Steps
<1>3. CASE Exists(NameOf[c]) /\ ~Runs(NameOf[c]) /\ container' = WithTask(NameOf[c], "none")
  <2>1. container'[NameOf[c]] # None /\ container'[NameOf[c]].task = "none"
        BY <1>1, <1>3, WithTaskEffect DEF Exists, Tasks
  <2>2. Attends(c)'
        BY <1>2, <2>1 DEF Attends
  <2> QED
      BY <1>1, <1>2, <2>2, OwnName
<1>4. CASE ~(Exists(NameOf[c]) /\ ~Runs(NameOf[c])) /\ container' = container
  <2>1. Attends(c)' \/ Running(NameOf[c])' \/ ~Attends(c)
        BY <1>1, <1>2, <1>4 DEF Attends, Running, Runs, Exists
  <2> QED
      BY <1>1, <1>2, <1>4, <2>1, OwnName
<1> QED
    BY <1>1, <1>3, <1>4 DEF DeleteTask, Faulty

\* A container that does not run is deleted; one that runs was started meanwhile, and
\* one that is ending is left to the call that waits for it.
LEMMA DeleteContainerName ==
    ASSUME IInv, NEW c \in Calls, DeleteContainer(c), NameOf[c] \notin fault'
    PROVE  NameInv(NameOf[c])'
<1>1. /\ NameOf[c] \in Names \ fault /\ TypeOK /\ NameInv(NameOf[c])
      /\ runtime' = runtime /\ (network => network') /\ pc[c] = "delete"
      BY Types DEF IInv, DeleteContainer, Faulty
<1>2. pc'[c] = "network" /\ \A d \in Calls : d # c => pc'[d] = pc[d]
      BY <1>1, GotoEffect DEF DeleteContainer, Steps
<1>3. container' = Deleted(NameOf[c])
      BY <1>1 DEF DeleteContainer, Faulty
<1>4. CASE Runs(NameOf[c])
  <2>1. container' = container /\ ~Attends(c)
        BY <1>1, <1>3, <1>4 DEF Deleted, Attends, Exists, Runs
  <2> QED
      BY <1>1, <1>2, <2>1, OwnName
<1>5. CASE ~Runs(NameOf[c])
  <2>1. container'[NameOf[c]] = None
        BY <1>1, <1>3, <1>5 DEF Deleted, Removed, TypeOK
  <2>2. Attends(c)'
        BY <1>2, <2>1 DEF Attends
  <2> QED
      BY <1>1, <1>2, <2>2, OwnName
<1> QED
    BY <1>4, <1>5

\* c has found a network and will create a container, if nobody else has.
LEMMA EnsureNetworkName ==
    ASSUME IInv, NEW c \in Calls, EnsureNetwork(c), NameOf[c] \notin fault'
    PROVE  NameInv(NameOf[c])'
<1>1. /\ NameOf[c] \in Names \ fault /\ TypeOK /\ NameInv(NameOf[c])
      /\ runtime' = runtime /\ (network => network') /\ pc[c] = "network"
      /\ container' = container /\ network'
      BY Types DEF IInv, EnsureNetwork, Faulty
<1>2. pc'[c] = "create" /\ \A d \in Calls : d # c => pc'[d] = pc[d]
      BY <1>1, GotoEffect DEF EnsureNetwork, Steps
<1>3. Attends(c)' \/ ~Attends(c)
      BY <1>1, <1>2 DEF Attends
<1> QED
    BY <1>1, <1>2, <1>3, OwnName

\* c has a container to start, or finds that of another call.
LEMMA CreateName ==
    ASSUME IInv, NEW c \in Calls, Create(c), NameOf[c] \notin fault'
    PROVE  NameInv(NameOf[c])'
<1>1. /\ NameOf[c] \in Names \ fault /\ TypeOK /\ NameInv(NameOf[c])
      /\ runtime' = runtime /\ (network => network') /\ pc[c] = "create"
      BY Types DEF IInv, Create, Faulty
<1>2. network
      BY <1>1 DEF NameInv, Of
<1>3. CASE NameIsFree(NameOf[c]) /\ container' = Created(c) /\ Goto(c, "start")
  <2>1. pc'[c] = "start" /\ \A d \in Calls : d # c => pc'[d] = pc[d]
        BY <1>1, <1>3, GotoEffect DEF Steps
  <2>2. container'[NameOf[c]] = [id |-> c, task |-> "none"]
        BY <1>1, <1>3 DEF Created, TypeOK
  <2>3. container'[NameOf[c]] # None
        BY <2>2, NoneAssumption DEF Container, Tasks
  <2>4. Attends(c)'
        BY <2>1, <2>2, <2>3 DEF Attends
  <2> QED
      BY <1>1, <1>2, <2>1, <2>4, OwnName
<1>4. CASE ~NameIsFree(NameOf[c]) /\ container' = container /\ Goto(c, "failed")
  <2>1. pc'[c] = "failed" /\ \A d \in Calls : d # c => pc'[d] = pc[d]
        BY <1>1, <1>4, GotoEffect DEF Steps
  <2>2. ~Attends(c)
        BY <1>1, <1>4 DEF Attends, NameIsFree, Exists
  <2> QED
      BY <1>1, <1>4, <2>1, <2>2, OwnName
<1> QED
    BY <1>1, <1>3, <1>4 DEF Create, Faulty

\* c starts the container, or finds it in the hands of another call.
LEMMA StartName ==
    ASSUME IInv, NEW c \in Calls, Start(c), NameOf[c] \notin fault'
    PROVE  NameInv(NameOf[c])'
<1>1. /\ NameOf[c] \in Names \ fault /\ TypeOK /\ NameInv(NameOf[c])
      /\ runtime' = runtime /\ (network => network') /\ pc[c] = "start"
      BY Types DEF IInv, Start, Faulty
<1>2. network
      BY <1>1 DEF NameInv, Of
<1>3. CASE CanStart(c) /\ container' = WithTask(NameOf[c], "running") /\ Goto(c, "ok")
  <2>1. pc'[c] = "ok" /\ \A d \in Calls : d # c => pc'[d] = pc[d]
        BY <1>1, <1>3, GotoEffect DEF Steps
  <2>2. Running(NameOf[c])'
        BY <1>1, <1>3, WithTaskEffect DEF CanStart, Exists, Tasks, Running
  <2> QED
      BY <1>1, <2>1, <2>2, OwnName
<1>4. CASE ~CanStart(c) /\ container' = container /\ Goto(c, "failed")
  <2>1. pc'[c] = "failed" /\ \A d \in Calls : d # c => pc'[d] = pc[d]
        BY <1>1, <1>4, GotoEffect DEF Steps
  <2>2. ~Attends(c)
        BY <1>1, <1>2, <1>4 DEF Attends, CanStart, Exists, TypeOK
  <2> QED
      BY <1>1, <1>4, <2>1, <2>2, OwnName
<1> QED
    BY <1>1, <1>3, <1>4 DEF Start, Faulty

\* A container that was sent a signal exits: the call that waits for it, or will signal
\* it again, goes on.
LEMMA ExitName ==
    ASSUME IInv, NEW n \in Names, Exit(n), n \notin fault
    PROVE  NameInv(n)'
<1>1. /\ TypeOK /\ NameInv(n) /\ container[n] # None /\ container[n].task = "ending"
      /\ UNCHANGED <<runtime, pc, network, fault>>
      BY DEF IInv, Exit, Exists
<1>2. container'[n] # None /\ container'[n].task = "stopped"
      BY <1>1, WithTaskEffect DEF Exit, Tasks
<1>3. ASSUME NEW d \in Of(n), Attends(d) PROVE Attends(d)'
      BY <1>1, <1>2, <1>3 DEF Attends, Of
<1> QED
    BY <1>1, <1>3 DEF NameInv, Of, Running

----------------------------------------------------------------------------
(* A step of a call touches its own name only.                             *)

\* Only a call that has not answered success moves.
LEMMA CallMoves ==
    ASSUME IInv, NEW c \in Calls, Assign(c) \/ Handle(c) \/ Abandon(c)
    PROVE  \E step \in Steps : Goto(c, step) /\ pc[c] # "ok"
<1>1. CASE Assign(c)
      BY <1>1 DEF Assign, Steps
<1>2. CASE CheckExists(c)
      BY <1>2 DEF CheckExists, AfterExistsError, Steps
<1>3. CASE StopOld(c)
      BY <1>3 DEF StopOld, Steps
<1>4. CASE SignalOld(c)
      BY <1>4 DEF SignalOld, Steps
<1>5. CASE WaitOld(c)
      BY <1>5 DEF WaitOld, Steps
<1>6. CASE KillOld(c)
      BY <1>6 DEF KillOld, DeadlinePassed, Steps
<1>7. CASE RemoveOld(c)
      BY <1>7 DEF RemoveOld, Steps
<1>8. CASE DeleteTask(c)
      BY <1>8 DEF DeleteTask, Steps
<1>9. CASE DeleteContainer(c)
      BY <1>9 DEF DeleteContainer, Steps
<1>10. CASE EnsureNetwork(c)
      BY <1>10 DEF EnsureNetwork, Steps
<1>11. CASE Create(c)
      BY <1>11 DEF Create, Steps
<1>12. CASE Start(c)
      BY <1>12 DEF Start, Steps
<1>13. CASE Abandon(c)
      BY <1>13 DEF Abandon, InProgress, Steps
<1> QED
    BY <1>1, <1>2, <1>3, <1>4, <1>5, <1>6, <1>7, <1>8, <1>9, <1>10, <1>11, <1>12, <1>13 DEF Handle

\* What a call may make of the table of containers.
LEMMA CallChanges ==
    ASSUME TypeOK, NEW c \in Calls,
           \/ container' = container
           \/ \E t \in Tasks \ {"running"} :
                  Exists(NameOf[c]) /\ container' = WithTask(NameOf[c], t)
           \/ container' = WithTask(NameOf[c], "running") /\ CanStart(c) /\ Goto(c, "ok")
           \/ container' = Removed(NameOf[c])
           \/ container' = Created(c)
    PROVE  /\ container' \in [Names -> Container \cup {None}]
           /\ \A n \in Names : n # NameOf[c] => container'[n] = container[n]
           /\ Running(NameOf[c])' =>
                  \/ container' = container
                  \/ /\ CanStart(c) /\ Goto(c, "ok")
                     /\ container'[NameOf[c]].id = container[NameOf[c]].id
<1>0. NameOf[c] \in Names
      BY Types
<1>1. CASE container' = container
      BY <1>1 DEF TypeOK
<1>2. ASSUME NEW t \in Tasks \ {"running"}, Exists(NameOf[c]), container' = WithTask(NameOf[c], t)
      PROVE  /\ container' \in [Names -> Container \cup {None}]
             /\ \A n \in Names : n # NameOf[c] => container'[n] = container[n]
             /\ ~Running(NameOf[c])'
      BY <1>0, <1>2, WithTaskEffect DEF Exists, Running
<1>3. CASE container' = WithTask(NameOf[c], "running") /\ CanStart(c) /\ Goto(c, "ok")
      BY <1>0, <1>3, WithTaskEffect DEF CanStart, Exists, Tasks
<1>4. CASE container' = Removed(NameOf[c])
      BY <1>0, <1>4 DEF Removed, TypeOK, Running
<1>5. CASE container' = Created(c)
      BY <1>0, <1>5 DEF Created, TypeOK, Container, Tasks, Running
<1> QED
    BY <1>1, <1>2, <1>3, <1>4, <1>5

\* The container runs after a step of a call only if it did before or the call has started it.
LEMMA CallContainer ==
    ASSUME TypeOK, NEW c \in Calls, Assign(c) \/ Handle(c) \/ Abandon(c)
    PROVE  \/ container' = container
           \/ \E t \in Tasks \ {"running"} :
                  Exists(NameOf[c]) /\ container' = WithTask(NameOf[c], t)
           \/ container' = WithTask(NameOf[c], "running") /\ CanStart(c) /\ Goto(c, "ok")
           \/ container' = Removed(NameOf[c])
           \/ container' = Created(c)
<1>1. CASE Assign(c) \/ CheckExists(c) \/ WaitOld(c) \/ EnsureNetwork(c) \/ Abandon(c)
      BY <1>1 DEF Assign, CheckExists, WaitOld, EnsureNetwork, Abandon
<1>2. CASE StopOld(c)
  <2>1. \/ container' = container
        \/ Exists(NameOf[c]) /\ container' = WithTask(NameOf[c], "stopped")
        BY <1>2 DEF StopOld, Runs
  <2>2. "stopped" \in Tasks \ {"running"}
        BY DEF Tasks
  <2> QED
      BY <2>1, <2>2
<1>3. CASE SignalOld(c)
  <2>1. \/ container' = container
        \/ Exists(NameOf[c]) /\ container' = WithTask(NameOf[c], "ending")
        BY <1>3 DEF SignalOld, Runs
  <2>2. "ending" \in Tasks \ {"running"}
        BY DEF Tasks
  <2> QED
      BY <2>1, <2>2
<1>4. CASE KillOld(c)
  <2>1. \/ container' = container
        \/ Exists(NameOf[c]) /\ container' = WithTask(NameOf[c], "ending")
        BY <1>4 DEF KillOld, Runs
  <2>2. "ending" \in Tasks \ {"running"}
        BY DEF Tasks
  <2> QED
      BY <2>1, <2>2
<1>5. CASE RemoveOld(c)
      BY <1>5 DEF RemoveOld
<1>6. CASE DeleteTask(c)
  <2>1. \/ container' = container
        \/ Exists(NameOf[c]) /\ container' = WithTask(NameOf[c], "none")
        BY <1>6 DEF DeleteTask
  <2>2. "none" \in Tasks \ {"running"}
        BY DEF Tasks
  <2> QED
      BY <2>1, <2>2
<1>7. CASE DeleteContainer(c)
      BY <1>7 DEF DeleteContainer, Deleted
<1>8. CASE Create(c)
      BY <1>8 DEF Create, LeftByFailure
<1>9. CASE Start(c)
      BY <1>9 DEF Start
<1> QED
    BY <1>1, <1>2, <1>3, <1>4, <1>5, <1>6, <1>7, <1>8, <1>9 DEF Handle

\* A call leaves the runtime, keeps the network and touches the faults of its own name.
LEMMA CallRest ==
    ASSUME TypeOK, NEW c \in Calls, Assign(c) \/ Handle(c) \/ Abandon(c)
    PROVE  /\ runtime' = runtime
           /\ network' \in {network, TRUE}
           /\ fault' \in {fault, fault \cup {NameOf[c]}, fault \ {NameOf[c]}}
<1>1. CASE Assign(c) \/ CheckExists(c) \/ WaitOld(c) \/ EnsureNetwork(c) \/ Abandon(c)
      BY <1>1 DEF Assign, CheckExists, WaitOld, EnsureNetwork, Abandon, Faulty
<1>2. CASE StopOld(c) \/ SignalOld(c) \/ KillOld(c)
      BY <1>2 DEF StopOld, SignalOld, KillOld, Faulty
<1>3. CASE RemoveOld(c) \/ DeleteTask(c) \/ DeleteContainer(c)
      BY <1>3 DEF RemoveOld, DeleteTask, DeleteContainer, Faulty
<1>4. CASE Create(c) \/ Start(c)
      BY <1>4 DEF Create, Start, Faulty
<1> QED
    BY <1>1, <1>2, <1>3, <1>4 DEF Handle

\* A step of a call keeps the invariant.
LEMMA CallStep ==
    ASSUME IInv, NEW c \in Calls, Assign(c) \/ Handle(c) \/ Abandon(c)
    PROVE  IInv'
<1>1. TypeOK /\ NameOf[c] \in Names
      BY Types DEF IInv
<1>2. PICK step \in Steps : Goto(c, step) /\ pc[c] # "ok"
      BY CallMoves
<1>3. /\ pc' \in [Calls -> Steps] /\ pc'[c] = step
      /\ \A d \in Calls : d # c => pc'[d] = pc[d]
      BY <1>1, <1>2, GotoEffect
<1>4. /\ container' \in [Names -> Container \cup {None}]
      /\ \A n \in Names : n # NameOf[c] => container'[n] = container[n]
      /\ Running(NameOf[c])' =>
             \/ container' = container
             \/ /\ CanStart(c) /\ Goto(c, "ok")
                /\ container'[NameOf[c]].id = container[NameOf[c]].id
      BY <1>1, CallContainer, CallChanges
<1>5. /\ runtime' = runtime
      /\ network' \in {network, TRUE}
      /\ fault' \in {fault, fault \cup {NameOf[c]}, fault \ {NameOf[c]}}
      BY <1>1, CallRest
<1>6. TypeOK'
      BY <1>1, <1>3, <1>4, <1>5 DEF TypeOK
<1>7. ASSUME NEW n \in Names PROVE Answered(n)'
  <2> SUFFICES ASSUME Running(n)' PROVE Acknowledged(n)'
      BY DEF Answered
  <2>1. \A d \in Calls : pc[d] = "ok" => pc'[d] = "ok"
        BY <1>2, <1>3
  <2>2. CASE container'[n] = container[n]
    <3>1. Acknowledged(n)
          BY <2>2 DEF IInv, Answered, Running
    <3>2. container[n].id \in Calls
          BY <1>1, <2>2, Types DEF Running, Container
    <3> QED
        BY <1>5, <2>1, <2>2, <3>1, <3>2 DEF Acknowledged
  <2>3. CASE n = NameOf[c] /\ CanStart(c) /\ Goto(c, "ok") /\ container'[n].id = container[n].id
    <3>1. pc'[c] = "ok"
          BY <1>1, <2>3, GotoEffect DEF Steps
    <3> QED
        BY <1>5, <2>3, <3>1 DEF Acknowledged, CanStart
  <2> QED
      BY <1>4, <2>2, <2>3
<1>8. ASSUME NEW n \in Names \ fault' PROVE NameInv(n)'
  <2>1. CASE n # NameOf[c]
    <3>1. network => network'
          BY <1>5, Zenon
    <3>2. n \in Names \ fault
          BY <1>5, <1>8, <2>1
    <3>3. NameInv(n)
          BY <3>2 DEF IInv
    <3> QED
        BY <1>1, <1>3, <1>4, <1>5, <2>1, <3>1, <3>2, <3>3, OtherName
  <2>2. CASE n = NameOf[c]
    <3>1. NameOf[c] \notin fault'
          BY <1>8, <2>2
    <3>2. ~KillOld(c) /\ ~Abandon(c)
          BY <3>1 DEF KillOld, Abandon, Faulty
    <3>3. NameInv(NameOf[c])'
          BY <3>1, <3>2, AssignName, CheckExistsName, StopOldName, SignalOldName, WaitOldName,
             RemoveOldName, DeleteTaskName, DeleteContainerName, EnsureNetworkName, CreateName,
             StartName DEF Handle
    <3> QED
        BY <2>2, <3>3
  <2> QED
      BY <2>1, <2>2
<1> QED
    BY <1>6, <1>7, <1>8 DEF IInv

\* So does the end of a container.
LEMMA ExitStep ==
    ASSUME IInv, NEW m \in Names, Exit(m) \/ Die(m)
    PROVE  IInv'
<1>1. /\ TypeOK /\ container[m] # None /\ container' = WithTask(m, "stopped")
      /\ UNCHANGED <<runtime, pc, network>> /\ fault \subseteq fault' /\ fault' \subseteq Names
      BY DEF IInv, TypeOK, Exit, Die, Exists
<1>2. /\ container' \in [Names -> Container \cup {None}]
      /\ \A n \in Names : n # m => container'[n] = container[n]
      BY <1>1, WithTaskEffect DEF Tasks
<1>3. TypeOK'
      BY <1>1, <1>2 DEF TypeOK
<1>4. ASSUME NEW n \in Names PROVE Answered(n)'
  <2>1. Running(n)' => container'[n] = container[n]
        BY <1>1, <1>2, WithTaskEffect DEF Running, Tasks
  <2> QED
      BY <1>1, <2>1 DEF IInv, Answered, Running, Acknowledged
<1>5. ASSUME NEW n \in Names \ fault' PROVE NameInv(n)'
  <2>1. n \in Names \ fault /\ NameInv(n)
        BY <1>1 DEF IInv
  <2>2. CASE n # m
    <3>1. container'[n] = container[n] /\ Of(n)' = Of(n)
          BY <1>2, <2>2 DEF Of
    <3>2. Running(n)' <=> Running(n)
          BY <3>1 DEF Running
    <3>3. ASSUME NEW d \in Of(n) PROVE Attends(d)' <=> Attends(d)
          BY <1>1, <3>1 DEF Attends, Of
    <3> QED
        BY <1>1, <2>1, <3>1, <3>2, <3>3 DEF NameInv
  <2>3. CASE n = m
        BY <2>1, <2>3, ExitName, <1>5 DEF Die
  <2> QED
      BY <2>2, <2>3
<1> QED
    BY <1>3, <1>4, <1>5 DEF IInv

\* The invariant holds of every behaviour of the handlers, for any calls and names.
THEOREM InductiveInvariant == Spec => []IInv
<1>1. Init => IInv
  <2> SUFFICES ASSUME Init PROVE IInv
      OBVIOUS
  <2>1. TypeOK
        BY DEF Init, TypeOK, Steps
  <2>2. ASSUME NEW n \in Names PROVE NameInv(n) /\ Answered(n)
        BY DEF Init, NameInv, Answered, Running, Of
  <2> QED
      BY <2>1, <2>2 DEF IInv
<1>2. IInv /\ [Next]_vars => IInv'
  <2> SUFFICES ASSUME IInv, [Next]_vars PROVE IInv'
      OBVIOUS
  <2>1. CASE UNCHANGED vars
        BY <2>1 DEF vars, IInv, TypeOK, Answered, NameInv, Running, Attends, Of,
           Acknowledged
  <2> QED
      BY <2>1, CallStep, ExitStep DEF Next
<1> QED
    BY <1>1, <1>2, PTL DEF Spec

\* However the calls for a name interleave and whatever earlier ones have left, when none
\* is in progress and nothing failed on its own since the last fresh start, the container
\* runs and success was answered for it.
THEOREM RunsWhenAllAnsweredCorrect == Spec => []RunsWhenAllAnswered
<1>1. IInv => RunsWhenAllAnswered
  <2> SUFFICES ASSUME IInv, NEW n \in Names \ fault,
                      \A c \in Calls : NameOf[c] = n => ~InProgress(c),
                      NEW d \in Calls, NameOf[d] = n, Finished(d)
               PROVE  /\ container[n] # None
                      /\ container[n].task = "running"
                      /\ Acknowledged(n)
      BY DEF RunsWhenAllAnswered
  <2>1. NameInv(n) /\ Answered(n)
        BY DEF IInv
  <2>2. d \in Of(n) /\ pc[d] # "idle"
        BY DEF Of, Finished
  <2>3. ASSUME NEW c \in Of(n) PROVE ~Attends(c)
        BY DEF Of, InProgress, Attends
  <2> QED
      BY <2>1, <2>2, <2>3 DEF NameInv, Answered, Running
<1> QED
    BY <1>1, InductiveInvariant, PTL

=============================================================================
