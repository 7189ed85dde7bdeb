------------------------------ MODULE Cluster ------------------------------
(***************************************************************************)
(* Membership of a nexad cluster: the nodes table of the master's store    *)
(* and everything that writes it, namely                                   *)
(*   - Register calls of workers                  (cluster/server.rs)      *)
(*   - heartbeat streams, one task per stream     (cluster/server.rs)      *)
(*   - the heartbeat monitor's passes             (cluster/heartbeat.rs)   *)
(*   - the HTTP handlers that drain and remove    (api/handlers.rs)        *)
(*   - the master's own start                     (main.rs).               *)
(*                                                                         *)
(* Every writer reads a row, awaits, and writes the WHOLE row back         *)
(* (UPDATE ... WHERE id): the read and the write are separate actions, and *)
(* the copy in between is part of the state.                               *)
(*                                                                         *)
(* Time: a timestamp is kept as its age, the time since it was taken,      *)
(* saturating at DeadAge.  The code compares elapsed times with the two    *)
(* thresholds and with nothing else, so saturation loses nothing and the   *)
(* state space is finite without a bound on the clock.                     *)
(***************************************************************************)
EXTENDS Naturals, FiniteSets

CONSTANTS
    Hosts,        \* machines that run `nexad --mode worker`
    Names,        \* hostnames, as their rank in the store's ORDER BY name
    HostName,     \* HostName[h]: the hostname machine h reports
    MasterName,   \* the hostname of the master
    NodeIds,      \* node UUIDs (bound: how many rows are ever inserted)
    Calls,        \* Register calls in flight at once (bound)
    Streams,      \* heartbeat streams at once (bound)
    Admins,       \* drain and remove requests in flight at once (bound)
    MaxQueued,    \* pings buffered in one stream (bound; 32 in the code)
    NotReadyAge,  \* NOT_READY_THRESHOLD
    DeadAge,      \* DEAD_THRESHOLD
    None          \* the absence of a row, a call, a request

Roles    == {"Master", "Worker"}
Statuses == {"Ready", "NotReady", "Draining"}
Ages     == 0 .. DeadAge

\* A row of the nodes table; age is the age of last_heartbeat.
Row == [name : Names, role : Roles, status : Statuses, age : Ages]

\* A worker process knows its id once it is accepted.
WorkerState  == [pc : {"down", "joining"}, id : {None}] \cup [pc : {"running"}, id : NodeIds]
RegisterCall == [host : Hosts, live : BOOLEAN]
Stream       == [id : NodeIds, open : BOOLEAN, queued : 0 .. MaxQueued,
                 row : Row \cup {None}]
\* Only drain_node writes back the row it has read.
Request      == [op : {"drain"}, id : NodeIds, row : Row] \cup
                [op : {"remove"}, id : NodeIds, row : {None}]
Finding      == [row : Row, verdict : {"dead", "stale"}]

ASSUME ThresholdAssumption ==
    NotReadyAge \in Nat /\ DeadAge \in Nat /\ 0 < NotReadyAge /\ NotReadyAge < DeadAge

ASSUME NamesAssumption ==
    Names \subseteq Nat /\ HostName \in [Hosts -> Names] /\ MasterName \in Names

ASSUME QueueAssumption == MaxQueued \in Nat

ASSUME NoneAssumption ==
    /\ None \notin Row \cup RegisterCall \cup Stream \cup Request \cup Finding
    /\ None \notin NodeIds \cup Roles

\* what MemberOf below makes of a row
ASSUME MemberAssumption == None \notin [name : Names, role : Roles, drained : BOOLEAN]

VARIABLES
    nodes,     \* the nodes table: nodes[i] is the row with id i, or None
    master,    \* "down" or "up": the master process
    worker,    \* the worker process of each machine
    register,  \* Register calls between the lookup and the insert
    stream,    \* heartbeat streams, with the row copy their task holds
    admin,     \* drain and remove requests between their read and their write
    scan,      \* what the monitor's pass has yet to act on
    dead,      \* the dead node whose pods the pass is about to list, or None
    \* history, read by no guard of the code
    issued,      \* issued[i]: the role id i was inserted with, or None
    heard,       \* heard[i]: age of the latest heartbeat received for row i
    drained      \* ids for which a drain request has written its row

vars == <<nodes, master, worker, register, stream, admin, scan, dead,
          issued, heard, drained>>

history == <<issued, heard, drained>>

----------------------------------------------------------------------------
(* The store *)

\* get_node_by_name: the ids whose row has this name.
NodesByName(n) == {i \in NodeIds : nodes[i] # None /\ nodes[i].name = n}

\* Slip: a table without the UNIQUE constraint.
InsertAnyway(n) == TRUE

\* insert_node succeeds: name is UNIQUE.
InsertSucceeds(n) == NodesByName(n) = {}

\* Slip: an upsert instead of an UPDATE.
UpsertNode(i, row) == [nodes EXCEPT ![i] = row]

\* update_node: UPDATE ... WHERE id.  A row that is gone is not inserted.
UpdateNode(i, row) ==
    IF nodes[i] = None THEN nodes ELSE [nodes EXCEPT ![i] = row]

\* delete_node
DeleteNode(i) == [nodes EXCEPT ![i] = None]

\* Node::new: Ready, last_heartbeat now.
NewNode(n, role) == [name |-> n, role |-> role, status |-> "Ready", age |-> 0]

\* Slip: ids taken again once their row is gone.
FreeIds == {i \in NodeIds : nodes[i] = None}

\* Uuid::new_v4: an id never used before.
FreshIds == {i \in NodeIds : issued[i] = None}

----------------------------------------------------------------------------
(* The master process *)

NoScan == [i \in NodeIds |-> None]

\* start_master: insert the master's own row, then serve.  An error (the name is
\* taken, or the store fails) is ignored.
MasterStart ==
    /\ master = "down"
    /\ master' = "up"
    /\ \/ /\ InsertSucceeds(MasterName)
          /\ \E i \in FreshIds :
                /\ nodes'  = [nodes EXCEPT ![i] = NewNode(MasterName, "Master")]
                /\ issued' = [issued EXCEPT ![i] = "Master"]
                /\ heard'  = [heard EXCEPT ![i] = 0]
       \/ UNCHANGED <<nodes, issued, heard>>
    /\ UNCHANGED <<worker, register, stream, admin, scan, dead,
                   drained>>

\* The process dies.  The table survives; calls, streams, requests and the
\* monitor's pass do not.  A worker whose Register call fails exits.
MasterCrash ==
    /\ master = "up"
    /\ master'   = "down"
    /\ register' = [c \in Calls |-> None]
    /\ stream'   = [s \in Streams |-> None]
    /\ admin'    = [a \in Admins |-> None]
    /\ scan'     = NoScan
    /\ dead'     = None
    /\ worker'   = [h \in Hosts |-> IF worker[h].pc = "joining"
                                    THEN [pc |-> "down", id |-> None]
                                    ELSE worker[h]]
    /\ UNCHANGED <<nodes, history>>

----------------------------------------------------------------------------
(* Registration *)

\* A worker starts and calls Register; the handler looks the name up.  A
\* token or a name that is refused leaves the worker down and changes nothing.
\* The lookup may also fail, which the handler takes for "not registered".
Register(h, c) ==
    /\ master = "up" /\ worker[h].pc = "down" /\ register[c] = None
    /\ \E lookupFails \in BOOLEAN : lookupFails \/ NodesByName(HostName[h]) = {}
    /\ register' = [register EXCEPT ![c] = [host |-> h, live |-> TRUE]]
    /\ worker'   = [worker EXCEPT ![h] = [pc |-> "joining", id |-> None]]
    /\ UNCHANGED <<nodes, master, stream, admin, scan, dead, history>>

\* Slip: a worker that does not look whether it was accepted.
AnswerNotRead(call, reply) ==
    worker' = IF call.live THEN [worker EXCEPT ![call.host] = [pc |-> "running", id |-> reply.id]]
              ELSE worker

\* The answer reaches the caller if it still waits: an accepted worker keeps
\* the id, a refused one exits.
Answer(call, reply) ==
    worker' = IF call.live THEN [worker EXCEPT ![call.host] = reply] ELSE worker

\* insert_node succeeds and the call is accepted.
RegisterInsert(c) ==
    /\ register[c] # None
    /\ InsertSucceeds(HostName[register[c].host])
    /\ \E i \in FreshIds :
          /\ nodes'  = [nodes EXCEPT ![i] = NewNode(HostName[register[c].host], "Worker")]
          /\ issued' = [issued EXCEPT ![i] = "Worker"]
          /\ heard'  = [heard EXCEPT ![i] = 0]
          /\ Answer(register[c], [pc |-> "running", id |-> i])
    /\ register' = [register EXCEPT ![c] = None]
    /\ UNCHANGED <<master, stream, admin, scan, dead, drained>>

\* insert_node fails (the name is taken by now, or the store fails), or the
\* handler is dropped: the caller, if any, gets an error and exits.
RegisterFail(c) ==
    /\ register[c] # None
    /\ Answer(register[c], [pc |-> "down", id |-> None])
    /\ register' = [register EXCEPT ![c] = None]
    /\ UNCHANGED <<nodes, master, stream, admin, scan, dead, history>>

\* A worker process dies, at any point.  It does not keep its id.  Its call
\* and the pings it has sent may still be served.
WorkerCrash(h) ==
    /\ worker[h].pc # "down"
    /\ worker'   = [worker EXCEPT ![h] = [pc |-> "down", id |-> None]]
    /\ register' = [c \in Calls |-> IF register[c] # None /\ register[c].host = h
                                    THEN [register[c] EXCEPT !.live = FALSE]
                                    ELSE register[c]]
    /\ stream'   = [s \in Streams |-> IF stream[s] # None /\ stream[s].id = worker[h].id
                                      THEN [stream[s] EXCEPT !.open = FALSE]
                                      ELSE stream[s]]
    /\ UNCHANGED <<nodes, master, admin, scan, dead, history>>

----------------------------------------------------------------------------
(* Heartbeats *)

\* run_heartbeat_sender connects: one stream of a worker is open at a time, but
\* the server's task for a broken one may still be running.
OpenStream(h, s) ==
    /\ master = "up" /\ worker[h].pc = "running" /\ stream[s] = None
    /\ \A t \in Streams : stream[t] # None /\ stream[t].open => stream[t].id # worker[h].id
    /\ stream' = [stream EXCEPT ![s] = [id |-> worker[h].id, open |-> TRUE,
                                        queued |-> 0, row |-> None]]
    /\ UNCHANGED <<nodes, master, worker, register, admin, scan, dead, history>>

\* The sender task's tick: every ping says "ready".
SendPing(s) ==
    /\ stream[s] # None /\ stream[s].open /\ stream[s].queued < MaxQueued
    /\ stream' = [stream EXCEPT ![s].queued = @ + 1]
    /\ UNCHANGED <<nodes, master, worker, register, admin, scan, dead, history>>

\* The connection is lost: the sender is aborted and will reconnect.
BreakStream(s) ==
    /\ stream[s] # None /\ stream[s].open
    /\ stream' = [stream EXCEPT ![s].open = FALSE]
    /\ UNCHANGED <<nodes, master, worker, register, admin, scan, dead, history>>

\* Slip: a ping that only refreshes the timestamp.
PingedTimestampOnly(row) == [row EXCEPT !.age = 0]

\* The row a ping is about to write: last_heartbeat is now.  run_heartbeat_sender, the
\* only sender there is, says "ready" in every ping, so the handler's arms for another
\* status are never taken.
Pinged(row) == [row EXCEPT !.status = "Ready", !.age = 0]

\* The stream's task takes a ping and reads the node.  A node that is gone is
\* acknowledged and forgotten.
PingRead(s) ==
    /\ stream[s] # None /\ stream[s].queued > 0 /\ stream[s].row = None
    /\ LET i == stream[s].id IN
       \/ /\ nodes[i] # None
          /\ stream' = [stream EXCEPT ![s].queued = @ - 1, ![s].row = Pinged(nodes[i])]
          /\ heard'  = [heard EXCEPT ![i] = 0]
       \/ /\ nodes[i] = None
          /\ stream' = [stream EXCEPT ![s].queued = @ - 1]
          /\ UNCHANGED heard
    /\ UNCHANGED <<nodes, master, worker, register, admin, scan, dead,
                   issued, drained>>

\* The task writes its copy back; an error (the row is gone) is ignored.
PingWrite(s) ==
    /\ stream[s] # None /\ stream[s].row # None
    /\ nodes'  = UpdateNode(stream[s].id, stream[s].row)
    /\ stream' = [stream EXCEPT ![s].row = None]
    /\ UNCHANGED <<master, worker, register, admin, scan, dead, history>>

\* get_node or update_node fails: the ping is acknowledged and has no effect.
PingFail(s) ==
    /\ stream[s] # None
    /\ \/ /\ stream[s].queued > 0 /\ stream[s].row = None
          /\ stream' = [stream EXCEPT ![s].queued = @ - 1]
       \/ /\ stream[s].row # None
          /\ stream' = [stream EXCEPT ![s].row = None]
    /\ UNCHANGED <<nodes, master, worker, register, admin, scan, dead, history>>

\* The task of a broken stream ends; the pings it has not taken are lost.
CloseStream(s) ==
    /\ stream[s] # None /\ ~stream[s].open /\ stream[s].row = None
    /\ stream' = [stream EXCEPT ![s] = None]
    /\ UNCHANGED <<nodes, master, worker, register, admin, scan, dead, history>>

----------------------------------------------------------------------------
(* The administrator's requests *)

\* Slip: draining counts as a sign of life.
DrainAndTouch(row) == [row EXCEPT !.status = "Draining", !.age = 0]

\* The row drain_node is about to write.
Drain(row) == [row EXCEPT !.status = "Draining"]

\* drain_node reads the node by its name.
DrainLookup(a, n) ==
    /\ master = "up" /\ admin[a] = None
    /\ \E i \in NodesByName(n) :
          admin' = [admin EXCEPT ![a] = [op |-> "drain", id |-> i, row |-> Drain(nodes[i])]]
    /\ UNCHANGED <<nodes, master, worker, register, stream, scan, dead, history>>

\* drain_node writes its copy back.
DrainUpdate(a) ==
    /\ admin[a] # None /\ admin[a].op = "drain"
    /\ nodes'   = UpdateNode(admin[a].id, admin[a].row)
    /\ drained' = IF nodes[admin[a].id] = None THEN drained ELSE drained \cup {admin[a].id}
    /\ admin'   = [admin EXCEPT ![a] = None]
    /\ UNCHANGED <<master, worker, register, stream, scan, dead,
                   issued, heard>>

\* Slip: refusing only nodes that are Ready.
MayRemoveUnlessReady(row) == row.status # "Ready" \/ row.role = "Master"

\* remove_node answers 409 unless the node is draining or a master.
MayRemove(row) == row.status = "Draining" \/ row.role = "Master"

\* remove_node reads the node by its name and checks it.
RemoveLookup(a, n) ==
    /\ master = "up" /\ admin[a] = None
    /\ \E i \in NodesByName(n) :
          /\ MayRemove(nodes[i])
          /\ admin' = [admin EXCEPT ![a] = [op |-> "remove", id |-> i, row |-> None]]
    /\ UNCHANGED <<nodes, master, worker, register, stream, scan, dead, history>>

\* remove_node deletes the row by the id it has read.
RemoveDelete(a) ==
    /\ admin[a] # None /\ admin[a].op = "remove"
    /\ nodes' = DeleteNode(admin[a].id)
    /\ admin' = [admin EXCEPT ![a] = None]
    /\ UNCHANGED <<master, worker, register, stream, scan, dead, history>>

\* The store fails, or the client hangs up and the handler is dropped.
AdminFail(a) ==
    /\ admin[a] # None
    /\ admin' = [admin EXCEPT ![a] = None]
    /\ UNCHANGED <<nodes, master, worker, register, stream, scan, dead, history>>

----------------------------------------------------------------------------
(* The heartbeat monitor *)

\* Slip: no exception for masters.
VerdictOnAll(row) ==
    IF row.age >= DeadAge THEN "dead"
    ELSE IF row.age >= NotReadyAge /\ row.status # "NotReady" THEN "stale" ELSE "skip"

\* Slip: a node being drained is not looked at.
VerdictUnlessDraining(row) ==
    IF row.role = "Master" \/ row.status = "Draining" THEN "skip" ELSE VerdictOnAll(row)

\* What check_nodes does with a row, `now` being the time of the listing:
\* nothing for a master, a live node or a stale one already marked.
Verdict(row) ==
    IF row.role = "Master" THEN "skip"
    ELSE IF row.age >= DeadAge THEN "dead"
    ELSE IF row.age >= NotReadyAge /\ row.status # "NotReady" THEN "stale"
    ELSE "skip"

\* list_nodes and now: the pass works on this copy to its end.
MonitorList ==
    /\ master = "up" /\ scan = NoScan /\ dead = None
    /\ scan' = [i \in NodeIds |->
                  IF nodes[i] # None /\ Verdict(nodes[i]) # "skip"
                  THEN [row |-> nodes[i], verdict |-> Verdict(nodes[i])]
                  ELSE None]
    /\ UNCHANGED <<nodes, master, worker, register, stream, admin, dead, history>>

\* The next node of the pass, in the order of the listing.
NextInScan(i) ==
    /\ dead = None /\ scan[i] # None
    /\ \A j \in NodeIds : scan[j] # None => scan[i].row.name <= scan[j].row.name

\* Slip: marking a node stamps its row.
MarkAndTouch(row) == [row EXCEPT !.status = "NotReady", !.age = 0]

\* The row check_nodes is about to write.
Marked(row) == [row EXCEPT !.status = "NotReady"]

\* The body of the loop: mark the node unless its copy is marked already; a
\* dead node's pods are listed next.
MonitorMark(i) ==
    /\ NextInScan(i)
    /\ nodes' = IF scan[i].row.status # "NotReady"
                THEN UpdateNode(i, Marked(scan[i].row)) ELSE nodes
    /\ dead'  = IF scan[i].verdict = "dead" THEN i ELSE None
    /\ scan'  = [scan EXCEPT ![i] = None]
    /\ UNCHANGED <<master, worker, register, stream, admin, history>>

\* The same with update_node failing: the error is ignored and the pass goes on.
MonitorMarkFails(i) ==
    /\ NextInScan(i) /\ scan[i].row.status # "NotReady"
    /\ dead' = IF scan[i].verdict = "dead" THEN i ELSE None
    /\ scan' = [scan EXCEPT ![i] = None]
    /\ UNCHANGED <<nodes, master, worker, register, stream, admin, history>>

\* list_pods answers, and the callback is called if the dead node has pods (the
\* pods are the orchestrator's; main.rs passes a callback that only logs).
MonitorReschedule ==
    /\ dead # None
    /\ dead' = None
    /\ UNCHANGED <<nodes, master, worker, register, stream, admin, scan, history>>

\* list_pods fails: `?` ends the pass, the nodes after this one are not looked at.
MonitorAbort ==
    /\ dead # None
    /\ dead' = None
    /\ scan' = NoScan
    /\ UNCHANGED <<nodes, master, worker, register, stream, admin, history>>

----------------------------------------------------------------------------
(* The environment *)

\* The age of a timestamp one tick later.
Older(age) == IF age < DeadAge THEN age + 1 ELSE age

OlderRow(row) == [row EXCEPT !.age = Older(@)]

\* Time passes: every last_heartbeat, in the table or in a copy, gets older.
Tick ==
    /\ nodes'  = [i \in NodeIds |-> IF nodes[i] = None THEN None ELSE OlderRow(nodes[i])]
    /\ stream' = [s \in Streams |->
                    IF stream[s] = None \/ stream[s].row = None THEN stream[s]
                    ELSE [stream[s] EXCEPT !.row = OlderRow(@)]]
    /\ admin'  = [a \in Admins |->
                    IF admin[a] = None \/ admin[a].row = None THEN admin[a]
                    ELSE [admin[a] EXCEPT !.row = OlderRow(@)]]
    /\ scan'   = [i \in NodeIds |->
                    IF scan[i] = None THEN None ELSE [scan[i] EXCEPT !.row = OlderRow(@)]]
    /\ heard'  = [i \in NodeIds |-> IF nodes[i] = None THEN 0 ELSE Older(heard[i])]
    /\ UNCHANGED <<master, worker, register, dead, issued, drained>>

----------------------------------------------------------------------------
Init ==
    /\ nodes    = [i \in NodeIds |-> None]
    /\ master   = "down"
    /\ worker   = [h \in Hosts |-> [pc |-> "down", id |-> None]]
    /\ register = [c \in Calls |-> None]
    /\ stream   = [s \in Streams |-> None]
    /\ admin    = [a \in Admins |-> None]
    /\ scan     = NoScan
    /\ dead     = None
    /\ issued   = [i \in NodeIds |-> None]
    /\ heard    = [i \in NodeIds |-> 0]
    /\ drained  = {}

Next ==
    \/ MasterStart \/ MasterCrash
    \/ \E h \in Hosts, c \in Calls : Register(h, c)
    \/ \E c \in Calls : RegisterInsert(c) \/ RegisterFail(c)
    \/ \E h \in Hosts : WorkerCrash(h)
    \/ \E h \in Hosts, s \in Streams : OpenStream(h, s)
    \/ \E s \in Streams : \/ SendPing(s) \/ BreakStream(s) \/ PingRead(s)
                          \/ PingWrite(s) \/ PingFail(s) \/ CloseStream(s)
    \/ \E a \in Admins, n \in Names : DrainLookup(a, n) \/ RemoveLookup(a, n)
    \/ \E a \in Admins : DrainUpdate(a) \/ RemoveDelete(a) \/ AdminFail(a)
    \/ MonitorList
    \/ \E i \in NodeIds : MonitorMark(i) \/ MonitorMarkFails(i)
    \/ MonitorReschedule \/ MonitorAbort
    \/ Tick

Spec == Init /\ [][Next]_vars

\* Fairness.  Time passes, the runtime polls every task that is ready (monitor,
\* stream tasks, sender), and an error of the store or of the network does not
\* repeat on every attempt (strong fairness).  Nothing is assumed of
\* administrators, of crashes, or of a master being started.
Fairness ==
    /\ WF_vars(Tick)
    /\ WF_vars(MonitorList)
    /\ \A i \in NodeIds : SF_vars(MonitorMark(i))
    /\ SF_vars(MonitorReschedule)
    /\ \A h \in Hosts : SF_vars(\E s \in Streams : OpenStream(h, s))
    /\ \A s \in Streams : /\ SF_vars(SendPing(s)) /\ SF_vars(PingRead(s))
                           /\ SF_vars(PingWrite(s)) /\ WF_vars(CloseStream(s))

FairSpec == Spec /\ Fairness

----------------------------------------------------------------------------
(* Properties *)

\* Every variable has its type: rows and copies are whole rows, a worker that runs has
\* the id of its registration and one that does not has none, and only drain_node
\* carries a row from its read to its write.
TypeOK ==
    /\ nodes    \in [NodeIds -> Row \cup {None}]
    /\ master   \in {"down", "up"}
    /\ worker   \in [Hosts -> WorkerState]
    /\ register \in [Calls -> RegisterCall \cup {None}]
    /\ stream   \in [Streams -> Stream \cup {None}]
    /\ admin    \in [Admins -> Request \cup {None}]
    /\ scan     \in [NodeIds -> Finding \cup {None}]
    /\ dead     \in NodeIds \cup {None}
    /\ issued   \in [NodeIds -> Roles \cup {None}]
    /\ heard    \in [NodeIds -> Ages]
    /\ drained  \subseteq NodeIds

\* Two rows never have the same name, although register looks the name up and
\* inserts in two steps and takes a failed lookup for "not registered": the
\* name is what drain_node and remove_node find a node by.
UniqueNames ==
    \A i, j \in NodeIds :
        nodes[i] # None /\ nodes[j] # None /\ nodes[i].name = nodes[j].name => i = j

\* A row never claims a heartbeat more recent than the last one received for
\* its id: stale copies written back by drain_node, the monitor or the task of
\* a broken stream, and pings of a removed namesake, can only make a node look
\* older, so a silent node is never hidden from the monitor.
HeartbeatNotOverstated ==
    \A i \in NodeIds : nodes[i] # None => nodes[i].age >= heard[i]

\* A worker that was told it is accepted has an id of its own, and the row of
\* that id, while there is one, is the worker's: a reply is sent only once the
\* row is in the table, and no write-back gives the row another name or role.
AcceptedOwnsRow ==
    \A h \in Hosts : worker[h].pc = "running" =>
        /\ \A g \in Hosts : worker[g].pc = "running" /\ worker[g].id = worker[h].id => g = h
        /\ issued[worker[h].id] = "Worker"
        /\ nodes[worker[h].id] # None =>
              /\ nodes[worker[h].id].name = HostName[h]
              /\ nodes[worker[h].id].role = "Worker"

\* A worker's row is gone only if a drain of it has taken effect before:
\* remove_node's check is made on a copy, but no race gets round it.
RemovedWasDrained ==
    \A i \in NodeIds : issued[i] = "Worker" /\ nodes[i] = None => i \in drained

\* The monitor leaves master nodes alone: a master's row is never NotReady and
\* reschedule is never called for it, however old its last_heartbeat is
\* (nothing ever refreshes it) and whatever copies are written back.
MasterSpared ==
    \A i \in NodeIds : issued[i] = "Master" =>
        /\ dead # i
        /\ nodes[i] # None => nodes[i].status # "NotReady"

\* What ties a row, or a copy of one, to the id it belongs to: the role the id was
\* inserted with, the name of the row in the table, and a last_heartbeat that is
\* no more recent than the last heartbeat received.
Consistent(i, row) ==
    /\ row.role = issued[i]
    /\ row.age >= heard[i]
    /\ nodes[i] # None => row.name = nodes[i].name

RowsInv ==
    \A i \in NodeIds : nodes[i] # None =>
        /\ Consistent(i, nodes[i])
        /\ nodes[i].role = "Worker" /\ nodes[i].status = "Draining" => i \in drained

StreamsInv ==
    \A s \in Streams : stream[s] # None /\ stream[s].row # None =>
        /\ Consistent(stream[s].id, stream[s].row)
        /\ stream[s].row.status = "Ready"

AdminInv ==
    \A a \in Admins : admin[a] # None =>
        /\ issued[admin[a].id] # None
        /\ admin[a].op = "drain" =>
              /\ Consistent(admin[a].id, admin[a].row)
              /\ admin[a].row.status = "Draining"
        /\ admin[a].op = "remove" /\ issued[admin[a].id] = "Worker" =>
              admin[a].id \in drained

MonitorInv ==
    /\ \A i \in NodeIds : scan[i] # None =>
          Consistent(i, scan[i].row) /\ scan[i].row.role = "Worker"
    /\ dead # None => issued[dead] = "Worker"

\* The inductive invariant: the properties above, and every copy of a row in
\* flight consistent with the table it will be written back to.  No action may
\* break a copy, and no copy may break the table.
IInv ==
    /\ TypeOK
    /\ UniqueNames
    /\ RowsInv /\ StreamsInv /\ AdminInv /\ MonitorInv
    /\ AcceptedOwnsRow
    /\ RemovedWasDrained
    /\ MasterSpared

\* A removed node does not come back: a ping, a drain or a monitor pass that
\* read the row before the removal and writes after it inserts nothing.
NoResurrection ==
    [][\A i \in NodeIds : nodes[i] = None /\ issued[i] # None => nodes'[i] = None]_vars

\* The members, and the ids that were members, as the table and the history tell it.
MemberOf ==
    [i \in NodeIds |->
        IF nodes[i] = None THEN None
        ELSE [name |-> nodes[i].name, role |-> nodes[i].role, drained |-> i \in drained]]

GoneIds == {i \in NodeIds : issued[i] # None /\ nodes[i] = None}

MS == INSTANCE Membership WITH Ids <- NodeIds, member <- MemberOf, gone <- GoneIds

\* The table, written by all these tasks from copies of any age, implements the abstract
\* membership: an id joins once and leaves once, keeps its name and role in between,
\* shares its name with no other member, and a worker leaves only after a drain.
ImplementsMembership == MS!Spec

\* Nobody sends heartbeats for this row any more.
Orphaned(i) ==
    /\ nodes[i] # None /\ nodes[i].role = "Worker"
    /\ \A h \in Hosts : worker[h].id # i
    /\ \A s \in Streams : stream[s] # None => stream[s].id # i

\* The monitor detects a dead worker: a row nobody sends heartbeats for is
\* marked NotReady (or is removed), as long as the master stays up, whatever drains and
\* passes that end in an error come in between.
DeadDetected ==
    \A i \in NodeIds : Orphaned(i) ~>
        (nodes[i] = None \/ nodes[i].status = "NotReady" \/ master = "down")

\* A worker that runs becomes Ready again, however often its stream breaks and
\* whatever stale copy has overwritten its row (unless it is removed).
HeartbeatRestoresReady ==
    \A i \in NodeIds, h \in Hosts :
        (worker[h].id = i /\ master = "up") ~>
            (\/ worker[h].id # i \/ master = "down"
             \/ nodes[i] = None \/ nodes[i].status = "Ready")

\* What remove_node promises with its 409 (api/handlers.rs:386, "must be drained before
\* removal"): a worker that is Ready is not removed.  It is: a heartbeat between the
\* check and the delete makes the row Ready, and the delete goes by the id.
ReadyNotRemoved ==
    [][\A i \in NodeIds :
          nodes[i] # None /\ nodes[i].role = "Worker" /\ nodes[i].status = "Ready"
              => nodes'[i] # None]_vars

=============================================================================
