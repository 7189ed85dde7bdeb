--------------------------- MODULE ClusterProofs ---------------------------
(***************************************************************************)
(* Proofs about Cluster, for any number of machines, ids, calls, streams   *)
(* and requests, any hostnames and any thresholds.                         *)
(***************************************************************************)
EXTENDS Cluster, TLAPS

\* A row made older is a row, with the same name, role and status.
LEMMA OlderRowType ==
    ASSUME NEW row \in Row
    PROVE  /\ OlderRow(row) \in Row
           /\ OlderRow(row).name = row.name
           /\ OlderRow(row).role = row.role
           /\ OlderRow(row).status = row.status
           /\ OlderRow(row).age = Older(row.age)
BY ThresholdAssumption DEF Row, OlderRow, Older, Ages

\* A timestamp's age stays in range and does not go down.
LEMMA OlderAge ==
    ASSUME NEW x \in Ages, NEW y \in Ages, x >= y
    PROVE  Older(x) \in Ages /\ Older(x) >= Older(y) /\ Older(x) >= 0
BY ThresholdAssumption DEF Older, Ages

\* The other rows a step builds.
LEMMA NewNodeType ==
    ASSUME NEW n \in Names, NEW r \in Roles
    PROVE  NewNode(n, r) \in Row
BY ThresholdAssumption DEF Row, NewNode, Ages, Statuses

\* The rows a ping, a drain and the monitor are about to write are rows.
LEMMA RowTypes ==
    ASSUME NEW row \in Row
    PROVE  Pinged(row) \in Row /\ Drain(row) \in Row /\ Marked(row) \in Row
<1>1. ASSUME NEW st \in Statuses, NEW x \in Ages
      PROVE  [row EXCEPT !.status = st, !.age = x] \in Row
      BY DEF Row
<1>2. Pinged(row) \in Row
  <2>1. "Ready" \in Statuses /\ 0 \in Ages
        BY ThresholdAssumption DEF Statuses, Ages
  <2> QED
      BY <1>1, <2>1 DEF Pinged
<1>3. Drain(row) \in Row /\ Marked(row) \in Row
      BY DEF Row, Drain, Marked, Statuses
<1> QED
    BY <1>2, <1>3

\* The records a step changes in place.
LEMMA StreamTypes ==
    ASSUME NEW st \in Stream, NEW q \in 0 .. MaxQueued, NEW r \in Row \cup {None}
    PROVE  /\ [st EXCEPT !.open = FALSE] \in Stream
           /\ [st EXCEPT !.queued = q] \in Stream
           /\ [st EXCEPT !.row = r] \in Stream
           /\ [st EXCEPT !.queued = q, !.row = r] \in Stream
BY DEF Stream

\* A Register call whose caller has gone is still a call.
LEMMA CallType ==
    ASSUME NEW call \in RegisterCall
    PROVE  [call EXCEPT !.live = FALSE] \in RegisterCall
BY DEF RegisterCall

\* update_node on a well-typed table gives a well-typed table.
LEMMA UpdateNodeType ==
    ASSUME nodes \in [NodeIds -> Row \cup {None}], NEW i \in NodeIds, NEW row \in Row
    PROVE  /\ UpdateNode(i, row) \in [NodeIds -> Row \cup {None}]
           /\ \A j \in NodeIds : j # i => UpdateNode(i, row)[j] = nodes[j]
           /\ nodes[i] = None => UpdateNode(i, row)[i] = None
           /\ nodes[i] # None => UpdateNode(i, row)[i] = row
BY DEF UpdateNode

\* The type invariant holds initially.
LEMMA InitType == Init => TypeOK
BY ThresholdAssumption
   DEF Init, TypeOK, NoScan, WorkerState, Ages

\* Every action keeps the type invariant.
LEMMA NextType == TypeOK /\ [Next]_vars => TypeOK'
<1> SUFFICES ASSUME TypeOK, [Next]_vars PROVE TypeOK'
    OBVIOUS
<1> USE NoneAssumption
<1>1. CASE MasterStart
      BY <1>1, NewNodeType, NamesAssumption, ThresholdAssumption
      DEF MasterStart, TypeOK, FreshIds, Roles, Ages
<1>2. CASE MasterCrash
      BY <1>2 DEF MasterCrash, TypeOK, NoScan, WorkerState, history
<1>3. ASSUME NEW h \in Hosts, NEW c \in Calls, Register(h, c) PROVE TypeOK'
      BY <1>3 DEF Register, TypeOK, WorkerState, RegisterCall, history
<1>4. ASSUME NEW c \in Calls, RegisterInsert(c) PROVE TypeOK'
  <2>1. register[c] \in RegisterCall
        BY <1>4 DEF RegisterInsert, TypeOK
  <2>2. PICK i \in FreshIds :
          /\ nodes'  = [nodes EXCEPT ![i] = NewNode(HostName[register[c].host], "Worker")]
          /\ issued' = [issued EXCEPT ![i] = "Worker"]
          /\ heard'  = [heard EXCEPT ![i] = 0]
          /\ Answer(register[c], [pc |-> "running", id |-> i])
        BY <1>4 DEF RegisterInsert
  <2>3. NewNode(HostName[register[c].host], "Worker") \in Row
        BY <2>1, NamesAssumption, ThresholdAssumption
        DEF RegisterCall, NewNode, Row, Roles, Statuses, Ages
  <2>4. worker' \in [Hosts -> WorkerState]
        BY <2>1, <2>2 DEF Answer, TypeOK, WorkerState, RegisterCall, FreshIds
  <2> QED
      BY <1>4, <2>2, <2>3, <2>4, ThresholdAssumption
      DEF RegisterInsert, TypeOK, FreshIds, Roles, Ages
<1>5. ASSUME NEW c \in Calls, RegisterFail(c) PROVE TypeOK'
      BY <1>5 DEF RegisterFail, Answer, TypeOK, WorkerState, RegisterCall, history
<1>6. ASSUME NEW h \in Hosts, WorkerCrash(h) PROVE TypeOK'
  <2>1. register' \in [Calls -> RegisterCall \cup {None}]
        BY <1>6, CallType DEF WorkerCrash, TypeOK
  <2>2. stream' \in [Streams -> Stream \cup {None}]
    <3>1. \A st \in Stream : [st EXCEPT !.open = FALSE] \in Stream
          BY StreamTypes, QueueAssumption DEF Stream
    <3> QED
        BY <1>6, <3>1 DEF WorkerCrash, TypeOK
  <2> QED
      BY <1>6, <2>1, <2>2 DEF WorkerCrash, TypeOK, WorkerState, history
<1>7. ASSUME NEW h \in Hosts, NEW s \in Streams, OpenStream(h, s) PROVE TypeOK'
  <2>1. worker[h].id \in NodeIds
        BY <1>7 DEF OpenStream, TypeOK, WorkerState
  <2> QED
      BY <1>7, <2>1, QueueAssumption DEF OpenStream, TypeOK, Stream, history
<1>8. ASSUME NEW s \in Streams, SendPing(s) PROVE TypeOK'
  <2>1. stream[s] \in Stream
        BY <1>8 DEF SendPing, TypeOK
  <2>2. [stream[s] EXCEPT !.queued = @ + 1] \in Stream
        BY <1>8, <2>1, QueueAssumption DEF SendPing, Stream
  <2> QED
      BY <1>8, <2>1, <2>2 DEF SendPing, TypeOK, history
<1>9. ASSUME NEW s \in Streams, BreakStream(s) PROVE TypeOK'
  <2>1. [stream[s] EXCEPT !.open = FALSE] \in Stream
    <3>1. stream[s] \in Stream
          BY <1>9 DEF BreakStream, TypeOK
    <3> QED
        BY <3>1 DEF Stream
  <2> QED
      BY <1>9, <2>1 DEF BreakStream, TypeOK, history
<1>10. ASSUME NEW s \in Streams, PingRead(s) PROVE TypeOK'
  <2>1. stream[s] \in Stream /\ stream[s].id \in NodeIds /\ stream[s].queued > 0
        BY <1>10 DEF PingRead, TypeOK, Stream
  <2>2. [stream[s] EXCEPT !.queued = @ - 1] \in Stream
        BY <2>1, QueueAssumption DEF Stream
  <2>3. stream[s].queued - 1 \in 0 .. MaxQueued
        BY <2>1, QueueAssumption DEF Stream
  <2>4. ASSUME nodes[stream[s].id] # None
        PROVE  [stream[s] EXCEPT !.queued = @ - 1, !.row = Pinged(nodes[stream[s].id])] \in Stream
    <3>1. Pinged(nodes[stream[s].id]) \in Row
          BY <2>1, <2>4, RowTypes DEF TypeOK
    <3> QED
        BY <2>1, <2>3, <3>1, StreamTypes
  <2>5. stream' \in [Streams -> Stream \cup {None}]
    <3>1. CASE nodes[stream[s].id] # None
          BY <1>10, <2>4, <3>1 DEF PingRead, TypeOK
    <3>2. CASE nodes[stream[s].id] = None
          BY <1>10, <2>2, <3>2 DEF PingRead, TypeOK
    <3> QED
        BY <3>1, <3>2
  <2>6. heard' \in [NodeIds -> Ages]
        BY <1>10, ThresholdAssumption DEF PingRead, TypeOK, Ages
  <2> QED
      BY <1>10, <2>5, <2>6 DEF PingRead, TypeOK
<1>11. ASSUME NEW s \in Streams, PingWrite(s) PROVE TypeOK'
  <2>1. stream[s].id \in NodeIds /\ stream[s].row \in Row
        BY <1>11 DEF PingWrite, TypeOK, Stream
  <2>2. [stream[s] EXCEPT !.row = None] \in Stream
        BY <1>11 DEF PingWrite, TypeOK, Stream
  <2>3. nodes' \in [NodeIds -> Row \cup {None}]
        BY <1>11, <2>1, UpdateNodeType DEF PingWrite, TypeOK
  <2> QED
      BY <1>11, <2>2, <2>3 DEF PingWrite, TypeOK, history
<1>12. ASSUME NEW s \in Streams, PingFail(s) PROVE TypeOK'
  <2>1. stream[s] \in Stream
        BY <1>12 DEF PingFail, TypeOK
  <2>2. [stream[s] EXCEPT !.row = None] \in Stream
        BY <2>1 DEF Stream
  <2>3. ASSUME stream[s].queued > 0
        PROVE  [stream[s] EXCEPT !.queued = @ - 1] \in Stream
        BY <2>1, <2>3, QueueAssumption DEF Stream
  <2> QED
      BY <1>12, <2>2, <2>3 DEF PingFail, TypeOK, history
<1>13. ASSUME NEW s \in Streams, CloseStream(s) PROVE TypeOK'
       BY <1>13 DEF CloseStream, TypeOK, history
<1>14. ASSUME NEW a \in Admins, NEW n \in Names, DrainLookup(a, n) PROVE TypeOK'
       BY <1>14, RowTypes DEF DrainLookup, NodesByName, TypeOK, Request, history
<1>15. ASSUME NEW a \in Admins, NEW n \in Names, RemoveLookup(a, n) PROVE TypeOK'
       BY <1>15 DEF RemoveLookup, NodesByName, TypeOK, Request, history
<1>16. ASSUME NEW a \in Admins, DrainUpdate(a) PROVE TypeOK'
  <2>1. admin[a].id \in NodeIds /\ admin[a].row \in Row
        BY <1>16 DEF DrainUpdate, TypeOK, Request
  <2>2. nodes' \in [NodeIds -> Row \cup {None}]
        BY <1>16, <2>1, UpdateNodeType DEF DrainUpdate, TypeOK
  <2> QED
      BY <1>16, <2>1, <2>2 DEF DrainUpdate, TypeOK
<1>17. ASSUME NEW a \in Admins, RemoveDelete(a) PROVE TypeOK'
       BY <1>17 DEF RemoveDelete, DeleteNode, TypeOK, history
<1>18. ASSUME NEW a \in Admins, AdminFail(a) PROVE TypeOK'
       BY <1>18 DEF AdminFail, TypeOK, history
<1>19. CASE MonitorList
  <2>1. \A r \in Row : Verdict(r) # "skip" => Verdict(r) \in {"dead", "stale"}
        BY DEF Verdict
  <2>2. scan' \in [NodeIds -> Finding \cup {None}]
        BY <1>19, <2>1 DEF MonitorList, TypeOK, Finding
  <2> QED
      BY <1>19, <2>2 DEF MonitorList, TypeOK, history
<1>20. ASSUME NEW i \in NodeIds, MonitorMark(i) PROVE TypeOK'
  <2>1. scan[i].row \in Row
        BY <1>20 DEF MonitorMark, NextInScan, TypeOK, Finding
  <2>2. nodes' \in [NodeIds -> Row \cup {None}]
        BY <1>20, <2>1, RowTypes, UpdateNodeType DEF MonitorMark, TypeOK
  <2> QED
      BY <1>20, <2>2 DEF MonitorMark, TypeOK, history
<1>21. ASSUME NEW i \in NodeIds, MonitorMarkFails(i) PROVE TypeOK'
       BY <1>21 DEF MonitorMarkFails, TypeOK, history
<1>22. CASE MonitorReschedule
       BY <1>22 DEF MonitorReschedule, TypeOK, history
<1>23. CASE MonitorAbort
       BY <1>23 DEF MonitorAbort, NoScan, TypeOK, history
<1>24. CASE Tick
  <2>1. nodes' \in [NodeIds -> Row \cup {None}]
        BY <1>24, OlderRowType DEF Tick, TypeOK
  <2>2. stream' \in [Streams -> Stream \cup {None}]
        BY <1>24, OlderRowType DEF Tick, TypeOK, Stream
  <2>3. admin' \in [Admins -> Request \cup {None}]
        BY <1>24, OlderRowType DEF Tick, TypeOK, Request
  <2>4. scan' \in [NodeIds -> Finding \cup {None}]
        BY <1>24, OlderRowType DEF Tick, TypeOK, Finding
  <2>5. heard' \in [NodeIds -> Ages]
        BY <1>24, OlderAge, ThresholdAssumption DEF Tick, TypeOK, Ages, Older
  <2> QED
      BY <1>24, <2>1, <2>2, <2>3, <2>4, <2>5 DEF Tick, TypeOK
<1>25. CASE UNCHANGED vars
       BY <1>25 DEF vars, TypeOK
<1> QED
    BY <1>1, <1>2, <1>3, <1>4, <1>5, <1>6, <1>7, <1>8, <1>9, <1>10, <1>11, <1>12,
       <1>13, <1>14, <1>15, <1>16, <1>17, <1>18, <1>19, <1>20, <1>21, <1>22, <1>23,
       <1>24, <1>25
    DEF Next

\* The type invariant holds in every state of every behaviour.
THEOREM TypeCorrect == Spec => []TypeOK
<1>1. Init => TypeOK
      BY InitType
<1>2. TypeOK /\ [Next]_vars => TypeOK'
      BY NextType
<1> QED
    BY <1>1, <1>2, PTL DEF Spec

\* A removed node does not come back: rows are inserted under fresh ids only,
\* and update_node never inserts.
THEOREM NoResurrectionCorrect == Spec => NoResurrection
<1>1. ASSUME TypeOK, [Next]_vars, NEW i \in NodeIds, nodes[i] = None, issued[i] # None
      PROVE  nodes'[i] = None
  <2>1. CASE MasterStart
        BY <1>1, <2>1 DEF MasterStart, FreshIds, TypeOK
  <2>2. CASE \E c \in Calls : RegisterInsert(c)
        BY <1>1, <2>2 DEF RegisterInsert, FreshIds, TypeOK
  <2>3. ASSUME NEW s \in Streams, PingWrite(s) PROVE nodes'[i] = None
        BY <1>1, <2>3 DEF PingWrite, UpdateNode, TypeOK
  <2>4. ASSUME NEW a \in Admins, DrainUpdate(a) \/ RemoveDelete(a) PROVE nodes'[i] = None
        BY <1>1, <2>4 DEF DrainUpdate, RemoveDelete, UpdateNode, DeleteNode, TypeOK
  <2>5. ASSUME NEW j \in NodeIds, MonitorMark(j) PROVE nodes'[i] = None
        BY <1>1, <2>5 DEF MonitorMark, UpdateNode, TypeOK
  <2>6. CASE Tick
        BY <1>1, <2>6 DEF Tick
  <2>7. CASE UNCHANGED nodes
        BY <1>1, <2>7
  <2> QED
      BY <1>1, <2>1, <2>2, <2>3, <2>4, <2>5, <2>6, <2>7
      DEF Next, vars, MasterCrash, Register, RegisterFail, WorkerCrash, OpenStream, SendPing,
          BreakStream, PingRead, PingFail, CloseStream, DrainLookup, RemoveLookup,
          AdminFail, MonitorList, MonitorMarkFails, MonitorReschedule, MonitorAbort
<1>2. TypeOK /\ [Next]_vars =>
        [\A i \in NodeIds : nodes[i] = None /\ issued[i] # None => nodes'[i] = None]_vars
      BY <1>1
<1> QED
    BY <1>2, TypeCorrect, PTL DEF Spec, NoResurrection

(***************************************************************************)
(* The inductive invariant.  An action either leaves the table alone, or   *)
(* inserts a row under a fresh id, or writes a consistent copy back, or    *)
(* deletes a row: each kind has a lemma for the conjuncts about the table. *)
(***************************************************************************)

\* The identity of the rows is kept: the same ids, each with its name and role.
SameRows ==
    \A i \in NodeIds :
        /\ nodes'[i] = None <=> nodes[i] = None
        /\ nodes[i] # None => /\ nodes'[i].name = nodes[i].name
                              /\ nodes'[i].role = nodes[i].role

\* The conjuncts that only read the identity of rows.
LEMMA SameRowsKeeps ==
    ASSUME TypeOK, UniqueNames, RemovedWasDrained, SameRows,
           issued' = issued, drained \subseteq drained'
    PROVE  UniqueNames' /\ RemovedWasDrained'
BY DEF TypeOK, UniqueNames, RemovedWasDrained, SameRows

\* An accepted worker still owns its row when the rows keep their identity.
LEMMA SameRowsKeepsWorkers ==
    ASSUME TypeOK, AcceptedOwnsRow, SameRows, issued' = issued, worker' = worker
    PROVE  AcceptedOwnsRow'
BY DEF TypeOK, WorkerState, AcceptedOwnsRow, SameRows

\* The conjuncts about copies, when the copies stay.
LEMMA SameRowsKeepsStreams ==
    ASSUME TypeOK, StreamsInv, SameRows, issued' = issued, heard' = heard, stream' = stream
    PROVE  StreamsInv'
BY DEF TypeOK, Stream, StreamsInv, SameRows, Consistent

\* Requests in flight stay consistent when the rows keep their identity.
LEMMA SameRowsKeepsAdmin ==
    ASSUME TypeOK, AdminInv, SameRows, issued' = issued, heard' = heard, admin' = admin,
           drained \subseteq drained'
    PROVE  AdminInv'
BY DEF TypeOK, Request, AdminInv, SameRows, Consistent

\* The pass of the monitor stays consistent when the rows keep their identity.
LEMMA SameRowsKeepsMonitor ==
    ASSUME TypeOK, MonitorInv, SameRows, issued' = issued, heard' = heard,
           scan' = scan, dead' = dead
    PROVE  MonitorInv'
BY DEF TypeOK, Finding, MonitorInv, SameRows, Consistent

\* A consistent copy written back keeps the identity of the rows.
LEMMA UpdateKeepsRows ==
    ASSUME TypeOK, RowsInv, NEW i \in NodeIds, NEW row \in Row, Consistent(i, row),
           nodes' = UpdateNode(i, row)
    PROVE  SameRows
BY NoneAssumption DEF TypeOK, RowsInv, Consistent, UpdateNode, SameRows

\* A step that leaves the table and the history alone disturbs only the copies
\* it changes.
LEMMA TableUnchanged ==
    ASSUME IInv, UNCHANGED nodes, UNCHANGED history
    PROVE  /\ SameRows /\ UniqueNames' /\ RowsInv' /\ RemovedWasDrained'
           /\ dead' = dead => MasterSpared'
           /\ worker' = worker => AcceptedOwnsRow'
           /\ stream' = stream => StreamsInv'
           /\ admin' = admin => AdminInv'
           /\ scan' = scan /\ dead' = dead => MonitorInv'
<1>1. SameRows
      BY DEF SameRows
<1>2. UniqueNames' /\ RemovedWasDrained'
      BY <1>1, SameRowsKeeps DEF IInv, history
<1>3. RowsInv'
      BY DEF IInv, RowsInv, Consistent, history
<1>4. dead' = dead => MasterSpared'
      BY DEF IInv, MasterSpared, history
<1>5. worker' = worker => AcceptedOwnsRow'
      BY <1>1, SameRowsKeepsWorkers DEF IInv, history
<1>6. stream' = stream => StreamsInv'
      BY <1>1, SameRowsKeepsStreams DEF IInv, history
<1>7. admin' = admin => AdminInv'
      BY <1>1, SameRowsKeepsAdmin DEF IInv, history
<1>8. scan' = scan /\ dead' = dead => MonitorInv'
      BY <1>1, SameRowsKeepsMonitor DEF IInv, history
<1> QED
    BY <1>1, <1>2, <1>3, <1>4, <1>5, <1>6, <1>7, <1>8

\* A step that writes a consistent copy back, and changes no history but drained.
LEMMA TableUpdated ==
    ASSUME IInv, NEW i \in NodeIds, NEW row \in Row, Consistent(i, row),
           nodes' = UpdateNode(i, row), issued' = issued, heard' = heard,
           drained \subseteq drained', worker' = worker,
           row.status = "Draining" => i \in drained' \/ nodes[i] = None,
           row.status = "NotReady" => issued[i] = "Worker"
    PROVE  /\ SameRows /\ UniqueNames' /\ RowsInv' /\ RemovedWasDrained' /\ AcceptedOwnsRow'
           /\ stream' = stream => StreamsInv'
           /\ admin' = admin => AdminInv'
           /\ scan' = scan /\ dead' = dead => MonitorInv'
           /\ dead' = dead => MasterSpared'
<1>1. SameRows
      BY UpdateKeepsRows DEF IInv
<1>2. UniqueNames' /\ RemovedWasDrained'
      BY <1>1, SameRowsKeeps DEF IInv
<1>3. AcceptedOwnsRow'
      BY <1>1, SameRowsKeepsWorkers DEF IInv
<1>4. RowsInv'
      BY NoneAssumption DEF IInv, TypeOK, RowsInv, Consistent, UpdateNode
<1>5. stream' = stream => StreamsInv'
      BY <1>1, SameRowsKeepsStreams DEF IInv
<1>6. admin' = admin => AdminInv'
      BY <1>1, SameRowsKeepsAdmin DEF IInv
<1>7. scan' = scan /\ dead' = dead => MonitorInv'
      BY <1>1, SameRowsKeepsMonitor DEF IInv
<1>8. dead' = dead => MasterSpared'
      BY DEF IInv, TypeOK, MasterSpared, UpdateNode
<1> QED
    BY <1>1, <1>2, <1>3, <1>4, <1>5, <1>6, <1>7, <1>8

\* A step that inserts a row under a fresh id: no copy has that id.
LEMMA RowInserted ==
    ASSUME IInv, NEW i \in FreshIds, NEW n \in Names, NEW r \in Roles,
           InsertSucceeds(n),
           nodes'  = [nodes EXCEPT ![i] = NewNode(n, r)],
           issued' = [issued EXCEPT ![i] = r],
           heard'  = [heard EXCEPT ![i] = 0],
           drained' = drained, UNCHANGED <<stream, admin, scan, dead>>
    PROVE  /\ UniqueNames' /\ RowsInv' /\ StreamsInv' /\ AdminInv' /\ MonitorInv'
           /\ RemovedWasDrained' /\ MasterSpared'
<1> USE NoneAssumption
<1>1. i \in NodeIds /\ issued[i] = None /\ nodes[i] = None
      BY DEF FreshIds, IInv, TypeOK, RowsInv, Consistent, Row
<1>2. NewNode(n, r) # None
      BY NewNodeType
<1>3. UniqueNames'
      BY <1>1, <1>2 DEF IInv, TypeOK, UniqueNames, InsertSucceeds, NodesByName, NewNode
<1>4. RowsInv'
      BY <1>1, <1>2 DEF IInv, TypeOK, RowsInv, Consistent, NewNode
<1>5. StreamsInv'
  <2>1. \A s \in Streams : stream[s] # None /\ stream[s].row # None => stream[s].id # i
        BY <1>1 DEF IInv, TypeOK, StreamsInv, Consistent, Stream, Row
  <2> QED
      BY <1>1, <2>1 DEF IInv, TypeOK, StreamsInv, Consistent, Stream
<1>6. AdminInv'
  <2>1. \A a \in Admins : admin[a] # None => admin[a].id # i
        BY <1>1 DEF IInv, AdminInv
  <2> QED
      BY <1>1, <2>1 DEF IInv, TypeOK, AdminInv, Consistent, Request
<1>7. MonitorInv'
  <2>1. scan[i] = None /\ dead # i
        BY <1>1 DEF IInv, TypeOK, MonitorInv, Consistent, Roles
  <2> QED
      BY <1>1, <2>1 DEF IInv, TypeOK, MonitorInv, Consistent, Finding
<1>8. RemovedWasDrained'
      BY <1>1, <1>2 DEF IInv, TypeOK, RemovedWasDrained
<1>9. MasterSpared'
      BY <1>1, <1>2 DEF IInv, TypeOK, MasterSpared, MonitorInv, NewNode, Roles
<1> QED
    BY <1>3, <1>4, <1>5, <1>6, <1>7, <1>8, <1>9

\* The inductive invariant holds initially.
LEMMA InitIInv == Init => IInv
<1> SUFFICES ASSUME Init PROVE IInv
    OBVIOUS
<1>1. TypeOK
      BY InitType
<1> QED
    BY <1>1, NoneAssumption
    DEF Init, IInv, UniqueNames, RowsInv, StreamsInv, AdminInv, MonitorInv, NoScan,
        AcceptedOwnsRow, RemovedWasDrained, MasterSpared, Roles

\* Every action keeps the inductive invariant.
LEMMA NextIInv == IInv /\ [Next]_vars => IInv'
<1> SUFFICES ASSUME IInv, [Next]_vars PROVE IInv'
    OBVIOUS
<1> USE NoneAssumption
<1>0. TypeOK' /\ TypeOK
      BY NextType DEF IInv
<1>1. CASE MasterStart
  <2>1. CASE UNCHANGED <<nodes, issued, heard>>
        BY <1>0, <1>1, <2>1, TableUnchanged DEF MasterStart, IInv, history
  <2>2. ASSUME NEW i \in FreshIds, InsertSucceeds(MasterName),
               nodes'  = [nodes EXCEPT ![i] = NewNode(MasterName, "Master")],
               issued' = [issued EXCEPT ![i] = "Master"],
               heard'  = [heard EXCEPT ![i] = 0]
        PROVE  IInv'
    <3>1. /\ UniqueNames' /\ RowsInv' /\ StreamsInv' /\ AdminInv' /\ MonitorInv'
          /\ RemovedWasDrained' /\ MasterSpared'
          BY <1>1, <2>2, RowInserted, NamesAssumption DEF MasterStart, Roles
    <3>2. AcceptedOwnsRow'
          BY <1>1, <2>2 DEF MasterStart, FreshIds, IInv, TypeOK, WorkerState, AcceptedOwnsRow, Roles
    <3> QED
        BY <1>0, <3>1, <3>2 DEF IInv
  <2> QED
      BY <1>1, <2>1, <2>2 DEF MasterStart
<1>2. CASE MasterCrash
  <2>1. AcceptedOwnsRow'
        BY <1>0, <1>2 DEF MasterCrash, history, IInv, TypeOK, WorkerState, AcceptedOwnsRow
  <2>2. StreamsInv' /\ AdminInv' /\ MonitorInv' /\ MasterSpared'
        BY <1>0, <1>2
        DEF MasterCrash, history, NoScan, StreamsInv, AdminInv, MonitorInv, MasterSpared, IInv
  <2> QED
      BY <1>0, <1>2, <2>1, <2>2, TableUnchanged DEF MasterCrash, IInv
<1>3. ASSUME NEW h \in Hosts, NEW c \in Calls, Register(h, c) PROVE IInv'
  <2>1. AcceptedOwnsRow'
        BY <1>0, <1>3 DEF Register, history, IInv, TypeOK, WorkerState, AcceptedOwnsRow
  <2> QED
      BY <1>0, <1>3, <2>1, TableUnchanged DEF Register, IInv
<1>4. ASSUME NEW c \in Calls, RegisterInsert(c) PROVE IInv'
  <2>1. register[c].host \in Hosts /\ HostName[register[c].host] \in Names
        BY <1>0, <1>4, NamesAssumption DEF RegisterInsert, TypeOK, RegisterCall
  <2>2. PICK i \in FreshIds :
          /\ nodes'  = [nodes EXCEPT ![i] = NewNode(HostName[register[c].host], "Worker")]
          /\ issued' = [issued EXCEPT ![i] = "Worker"]
          /\ heard'  = [heard EXCEPT ![i] = 0]
          /\ Answer(register[c], [pc |-> "running", id |-> i])
        BY <1>4 DEF RegisterInsert
  <2>3. /\ UniqueNames' /\ RowsInv' /\ StreamsInv' /\ AdminInv' /\ MonitorInv'
        /\ RemovedWasDrained' /\ MasterSpared'
        BY <1>4, <2>1, <2>2, RowInserted DEF RegisterInsert, Roles
  <2>4. AcceptedOwnsRow'
    <3>1. i \in NodeIds /\ issued[i] = None
          BY DEF FreshIds
    <3>2. \A g \in Hosts : worker[g].pc = "running" => worker[g].id \in NodeIds /\ worker[g].id # i
          BY <1>0, <3>1 DEF TypeOK, WorkerState, IInv, AcceptedOwnsRow, Roles
    <3>3. \A g \in Hosts : worker'[g] = worker[g] \/
             (g = register[c].host /\ worker'[g] = [pc |-> "running", id |-> i])
          BY <1>0, <2>1, <2>2 DEF Answer, TypeOK
    <3> QED
        BY <1>0, <2>1, <2>2, <3>1, <3>2, <3>3 DEF IInv, TypeOK, AcceptedOwnsRow, NewNode
  <2> QED
      BY <1>0, <2>3, <2>4 DEF IInv
<1>5. ASSUME NEW c \in Calls, RegisterFail(c) PROVE IInv'
  <2>1. \A g \in Hosts : worker'[g] = worker[g] \/ worker'[g] = [pc |-> "down", id |-> None]
        BY <1>0, <1>5 DEF RegisterFail, Answer, TypeOK
  <2>2. AcceptedOwnsRow'
        BY <1>0, <1>5, <2>1 DEF RegisterFail, history, IInv, TypeOK, AcceptedOwnsRow
  <2> QED
      BY <1>0, <1>5, <2>2, TableUnchanged DEF RegisterFail, IInv
<1>6. ASSUME NEW h \in Hosts, WorkerCrash(h) PROVE IInv'
  <2>1. AcceptedOwnsRow'
        BY <1>0, <1>6 DEF WorkerCrash, history, IInv, TypeOK, AcceptedOwnsRow
  <2>2. \A s \in Streams : stream'[s] # None /\ stream'[s].row # None =>
           /\ stream[s] # None /\ stream'[s].row = stream[s].row /\ stream'[s].id = stream[s].id
        BY <1>0, <1>6 DEF WorkerCrash, TypeOK, Stream
  <2>3. StreamsInv'
        BY <1>0, <1>6, <2>2 DEF WorkerCrash, history, IInv, StreamsInv, Consistent
  <2> QED
      BY <1>0, <1>6, <2>1, <2>3, TableUnchanged DEF WorkerCrash, IInv
<1>7. ASSUME NEW h \in Hosts, NEW s \in Streams, OpenStream(h, s) PROVE IInv'
  <2>1. StreamsInv'
        BY <1>0, <1>7 DEF OpenStream, history, IInv, TypeOK, StreamsInv, Consistent
  <2> QED
      BY <1>0, <1>7, <2>1, TableUnchanged DEF OpenStream, IInv
<1>8. ASSUME NEW s \in Streams,
             SendPing(s) \/ BreakStream(s) \/ PingFail(s) \/ CloseStream(s)
      PROVE  IInv'
  <2>1. \A t \in Streams : stream'[t] # None /\ stream'[t].row # None =>
           /\ stream[t] # None /\ stream'[t].row = stream[t].row /\ stream'[t].id = stream[t].id
        BY <1>0, <1>8 DEF SendPing, BreakStream, PingFail, CloseStream, TypeOK, Stream
  <2>2. UNCHANGED nodes /\ UNCHANGED history /\ UNCHANGED <<worker, admin, scan, dead>>
        BY <1>8 DEF SendPing, BreakStream, PingFail, CloseStream
  <2>3. StreamsInv'
        BY <1>0, <2>1, <2>2 DEF history, IInv, StreamsInv, Consistent
  <2> QED
      BY <1>0, <2>2, <2>3, TableUnchanged DEF IInv
<1>9. ASSUME NEW s \in Streams, PingRead(s) PROVE IInv'
  <2>1. stream[s].id \in NodeIds
        BY <1>0, <1>9 DEF PingRead, TypeOK, Stream
  <2>2. CASE nodes[stream[s].id] = None
    <3>1. \A t \in Streams : stream'[t] # None /\ stream'[t].row # None =>
             /\ stream[t] # None /\ stream'[t].row = stream[t].row /\ stream'[t].id = stream[t].id
          BY <1>0, <1>9, <2>2 DEF PingRead, TypeOK, Stream
    <3>2. UNCHANGED nodes /\ UNCHANGED history /\ UNCHANGED <<worker, admin, scan, dead>>
          BY <1>9, <2>2 DEF PingRead, history
    <3>3. StreamsInv'
          BY <1>0, <3>1, <3>2 DEF history, IInv, StreamsInv, Consistent
    <3> QED
        BY <1>0, <3>2, <3>3, TableUnchanged DEF IInv
  <2>3. CASE nodes[stream[s].id] # None
    <3> DEFINE i == stream[s].id
    <3>1. /\ heard' = [heard EXCEPT ![i] = 0]
          /\ stream' = [stream EXCEPT ![s].queued = @ - 1, ![s].row = Pinged(nodes[i])]
          /\ UNCHANGED <<nodes, worker, admin, scan, dead, issued, drained>>
          BY <1>9, <2>3 DEF PingRead
    <3>2. \A j \in NodeIds : heard'[j] = heard[j] \/ heard'[j] = 0
          BY <1>0, <3>1 DEF TypeOK
    <3>3. ASSUME NEW j \in NodeIds, NEW r \in Row, Consistent(j, r)
          PROVE  r.age >= heard'[j]
          BY <3>2, <3>3, ThresholdAssumption DEF Consistent, Row, Ages
    <3>4. RowsInv'
          BY <1>0, <3>1, <3>3 DEF IInv, TypeOK, RowsInv, Consistent
    <3>5. StreamsInv'
      <4>1. nodes[i] \in Row /\ Consistent(i, nodes[i])
            BY <1>0, <2>1, <2>3 DEF IInv, TypeOK, RowsInv
      <4>2. /\ Pinged(nodes[i]).role = nodes[i].role /\ Pinged(nodes[i]).name = nodes[i].name
            /\ Pinged(nodes[i]).status = "Ready" /\ Pinged(nodes[i]).age = 0
            BY <4>1 DEF Pinged, Row
      <4>3. stream'[s].id = i /\ stream'[s].row = Pinged(nodes[i])
            BY <1>0, <1>9, <3>1 DEF PingRead, TypeOK, Stream
      <4>4. heard'[i] = 0
            BY <1>0, <2>1, <3>1 DEF TypeOK
      <4>5. Consistent(stream[s].id, stream[s].row)' /\ stream'[s].row.status = "Ready"
            BY <3>1, <4>1, <4>2, <4>3, <4>4 DEF Consistent
      <4>6. ASSUME NEW t \in Streams, t # s, stream[t] # None, stream[t].row # None
            PROVE  Consistent(stream[t].id, stream[t].row)' /\ stream'[t].row.status = "Ready"
        <5>1. stream'[t] = stream[t] /\ stream[t].row \in Row /\ stream[t].id \in NodeIds
              BY <1>0, <3>1, <4>6 DEF TypeOK, Stream
        <5>2. Consistent(stream[t].id, stream[t].row) /\ stream[t].row.status = "Ready"
              BY <4>6 DEF IInv, StreamsInv
        <5> QED
            BY <3>1, <3>3, <5>1, <5>2 DEF Consistent
      <4>7. \A t \in Streams : t # s => stream'[t] = stream[t]
            BY <1>0, <3>1 DEF TypeOK
      <4> QED
          BY <4>5, <4>6, <4>7 DEF StreamsInv
    <3>6. AdminInv'
          BY <1>0, <3>1, <3>3 DEF IInv, TypeOK, Request, AdminInv, Consistent
    <3>7. MonitorInv'
          BY <1>0, <3>1, <3>3 DEF IInv, TypeOK, Finding, MonitorInv, Consistent
    <3>8. UniqueNames' /\ AcceptedOwnsRow' /\ RemovedWasDrained' /\ MasterSpared'
          BY <3>1 DEF IInv, UniqueNames, AcceptedOwnsRow, RemovedWasDrained, MasterSpared
    <3> QED
        BY <1>0, <3>4, <3>5, <3>6, <3>7, <3>8 DEF IInv
  <2> QED
      BY <2>2, <2>3
<1>10. ASSUME NEW s \in Streams, PingWrite(s) PROVE IInv'
  <2>1. /\ stream[s].id \in NodeIds /\ stream[s].row \in Row
        /\ Consistent(stream[s].id, stream[s].row) /\ stream[s].row.status = "Ready"
        BY <1>0, <1>10 DEF PingWrite, IInv, TypeOK, Stream, StreamsInv
  <2>2. /\ SameRows /\ UniqueNames' /\ RowsInv' /\ RemovedWasDrained' /\ AcceptedOwnsRow'
        /\ AdminInv' /\ MonitorInv' /\ MasterSpared'
        BY <1>10, <2>1, TableUpdated DEF PingWrite, history
  <2>3. \A t \in Streams : stream'[t] # None /\ stream'[t].row # None =>
           stream'[t] = stream[t] /\ stream[t].id \in NodeIds
        BY <1>0, <1>10 DEF PingWrite, TypeOK, Stream
  <2>4. StreamsInv'
        BY <1>0, <1>10, <2>2, <2>3
        DEF PingWrite, history, IInv, StreamsInv, SameRows, Consistent
  <2> QED
      BY <1>0, <2>2, <2>4 DEF IInv
<1>11. ASSUME NEW a \in Admins, NEW n \in Names, DrainLookup(a, n) PROVE IInv'
  <2>1. PICK i \in NodesByName(n) :
          admin' = [admin EXCEPT ![a] = [op |-> "drain", id |-> i, row |-> Drain(nodes[i])]]
        BY <1>11 DEF DrainLookup
  <2>2. /\ i \in NodeIds /\ nodes[i] \in Row /\ Consistent(i, nodes[i])
        /\ issued[i] # None
        BY <1>0 DEF NodesByName, IInv, TypeOK, RowsInv, Consistent, Row
  <2>3. /\ Drain(nodes[i]).role = nodes[i].role /\ Drain(nodes[i]).name = nodes[i].name
        /\ Drain(nodes[i]).age = nodes[i].age /\ Drain(nodes[i]).status = "Draining"
        BY <2>2 DEF Drain, Row
  <2>4. AdminInv'
        BY <1>0, <1>11, <2>1, <2>2, <2>3
        DEF DrainLookup, history, IInv, TypeOK, AdminInv, Consistent
  <2> QED
      BY <1>0, <1>11, <2>4, TableUnchanged DEF DrainLookup, IInv
<1>12. ASSUME NEW a \in Admins, NEW n \in Names, RemoveLookup(a, n) PROVE IInv'
  <2>1. PICK i \in NodesByName(n) :
          /\ MayRemove(nodes[i])
          /\ admin' = [admin EXCEPT ![a] = [op |-> "remove", id |-> i, row |-> None]]
        BY <1>12 DEF RemoveLookup
  <2>2. /\ i \in NodeIds /\ issued[i] = nodes[i].role /\ issued[i] # None
        /\ issued[i] = "Worker" => i \in drained
        BY <1>0, <2>1 DEF NodesByName, MayRemove, IInv, TypeOK, RowsInv, Consistent, Row
  <2>3. AdminInv'
        BY <1>0, <1>12, <2>1, <2>2
        DEF RemoveLookup, history, IInv, TypeOK, AdminInv, Consistent
  <2> QED
      BY <1>0, <1>12, <2>3, TableUnchanged DEF RemoveLookup, IInv
<1>13. ASSUME NEW a \in Admins, DrainUpdate(a) PROVE IInv'
  <2>1. /\ admin[a].id \in NodeIds /\ admin[a].row \in Row
        /\ Consistent(admin[a].id, admin[a].row) /\ admin[a].row.status = "Draining"
        BY <1>0, <1>13 DEF DrainUpdate, IInv, TypeOK, Request, AdminInv
  <2>2. /\ SameRows /\ UniqueNames' /\ RowsInv' /\ RemovedWasDrained' /\ AcceptedOwnsRow'
        /\ StreamsInv' /\ MonitorInv' /\ MasterSpared'
        BY <1>13, <2>1, TableUpdated DEF DrainUpdate
  <2>3. \A b \in Admins : admin'[b] # None => admin'[b] = admin[b] /\ admin[b].id \in NodeIds
        BY <1>0, <1>13 DEF DrainUpdate, TypeOK, Request
  <2>4. AdminInv'
        BY <1>0, <1>13, <2>2, <2>3
        DEF DrainUpdate, IInv, AdminInv, SameRows, Consistent
  <2> QED
      BY <1>0, <2>2, <2>4 DEF IInv
<1>14. ASSUME NEW a \in Admins, RemoveDelete(a) PROVE IInv'
  <2>1. /\ admin[a].id \in NodeIds
        /\ issued[admin[a].id] = "Worker" => admin[a].id \in drained
        BY <1>0, <1>14 DEF RemoveDelete, IInv, TypeOK, Request, AdminInv
  <2>2. \A i \in NodeIds : nodes'[i] = (IF i = admin[a].id THEN None ELSE nodes[i])
        BY <1>0, <1>14, <2>1 DEF RemoveDelete, DeleteNode, TypeOK
  <2>3. UNCHANGED <<worker, stream, scan, dead, issued, heard, drained>>
        BY <1>14 DEF RemoveDelete, history
  <2>4. UniqueNames' /\ RowsInv' /\ RemovedWasDrained' /\ MasterSpared'
        BY <2>1, <2>2, <2>3
        DEF IInv, UniqueNames, RowsInv, Consistent, RemovedWasDrained, MasterSpared
  <2>5. AcceptedOwnsRow'
        BY <1>0, <2>2, <2>3 DEF IInv, TypeOK, WorkerState, AcceptedOwnsRow
  <2>6. StreamsInv'
        BY <1>0, <2>2, <2>3 DEF IInv, TypeOK, Stream, StreamsInv, Consistent
  <2>7. MonitorInv'
        BY <2>2, <2>3 DEF IInv, MonitorInv, Consistent
  <2>8. \A b \in Admins : admin'[b] # None => admin'[b] = admin[b] /\ admin[b].id \in NodeIds
        BY <1>0, <1>14 DEF RemoveDelete, TypeOK, Request
  <2>9. AdminInv'
        BY <2>2, <2>3, <2>8 DEF IInv, AdminInv, Consistent
  <2> QED
      BY <1>0, <2>4, <2>5, <2>6, <2>7, <2>9 DEF IInv
<1>15. ASSUME NEW a \in Admins, AdminFail(a) PROVE IInv'
  <2>1. AdminInv'
        BY <1>0, <1>15 DEF AdminFail, history, IInv, TypeOK, AdminInv, Consistent
  <2> QED
      BY <1>0, <1>15, <2>1, TableUnchanged DEF AdminFail, IInv
<1>16. CASE MonitorList
  <2>1. \A i \in NodeIds : scan'[i] # None =>
           nodes[i] # None /\ scan'[i].row = nodes[i] /\ Verdict(nodes[i]) # "skip"
        BY <1>16 DEF MonitorList
  <2>2. \A r \in Row : Verdict(r) # "skip" => r.role = "Worker"
        BY DEF Verdict, Row, Roles
  <2>3. MonitorInv'
        BY <1>0, <1>16, <2>1, <2>2
        DEF MonitorList, history, IInv, TypeOK, RowsInv, MonitorInv, Consistent
  <2> QED
      BY <1>0, <1>16, <2>3, TableUnchanged DEF MonitorList, IInv
<1>17. ASSUME NEW i \in NodeIds, MonitorMark(i) \/ MonitorMarkFails(i) PROVE IInv'
  <2>1. scan[i] # None /\ scan[i].row \in Row /\ Consistent(i, scan[i].row) /\ issued[i] = "Worker"
        BY <1>0, <1>17
        DEF MonitorMark, MonitorMarkFails, NextInScan, IInv, TypeOK, Finding, MonitorInv, Consistent
  <2>2. /\ dead' \in {i, None} /\ scan' = [scan EXCEPT ![i] = None]
        /\ UNCHANGED <<worker, stream, admin, issued, heard, drained>>
        /\ nodes' = nodes \/ nodes' = UpdateNode(i, Marked(scan[i].row))
        BY <1>17 DEF MonitorMark, MonitorMarkFails, history
  <2>3. /\ SameRows /\ UniqueNames' /\ RowsInv' /\ RemovedWasDrained' /\ AcceptedOwnsRow'
        /\ StreamsInv' /\ AdminInv'
    <3>1. CASE nodes' = nodes
          BY <2>2, <3>1, TableUnchanged DEF history
    <3>2. CASE nodes' = UpdateNode(i, Marked(scan[i].row))
      <4>1. Marked(scan[i].row) \in Row /\ Marked(scan[i].row).status = "NotReady"
            BY <2>1, RowTypes DEF Marked, Row
      <4>2. Consistent(i, Marked(scan[i].row))
            BY <2>1 DEF Marked, Row, Consistent
      <4> QED
          BY <2>1, <2>2, <3>2, <4>1, <4>2, TableUpdated
    <3> QED
        BY <2>2, <3>1, <3>2
  <2>4. MonitorInv'
        BY <1>0, <2>1, <2>2, <2>3 DEF IInv, TypeOK, MonitorInv, Consistent, SameRows
  <2>5. MasterSpared'
        BY <1>0, <2>1, <2>2 DEF IInv, TypeOK, MasterSpared, UpdateNode
  <2> QED
      BY <1>0, <2>3, <2>4, <2>5 DEF IInv
<1>18. CASE MonitorReschedule \/ MonitorAbort
  <2>1. /\ dead' = None /\ (scan' = scan \/ scan' = NoScan)
        /\ UNCHANGED nodes /\ UNCHANGED history /\ UNCHANGED <<worker, stream, admin>>
        BY <1>18 DEF MonitorReschedule, MonitorAbort
  <2>2. MonitorInv' /\ MasterSpared'
        BY <2>1 DEF IInv, NoScan, MonitorInv, MasterSpared, Consistent, history
  <2> QED
      BY <1>0, <2>1, <2>2, TableUnchanged DEF IInv
<1>19. CASE Tick
  <2>1. UNCHANGED <<worker, dead, issued, drained>>
        BY <1>19 DEF Tick
  <2>2. \A i \in NodeIds : /\ nodes'[i] = None <=> nodes[i] = None
                           /\ nodes[i] # None => nodes[i] \in Row /\ nodes'[i] = OlderRow(nodes[i])
        BY <1>0, <1>19, OlderRowType DEF Tick, TypeOK
  <2>3. SameRows
        BY <2>2, OlderRowType DEF SameRows
  <2>4. ASSUME NEW i \in NodeIds, NEW r \in Row, Consistent(i, r)
        PROVE  Consistent(i, OlderRow(r))'
    <3>1. Older(r.age) >= heard'[i]
      <4>1. CASE nodes[i] = None
            BY <1>19, <4>1, OlderAge, ThresholdAssumption DEF Tick, Row, Ages
      <4>2. CASE nodes[i] # None
            BY <1>0, <1>19, <2>4, <4>2, OlderAge DEF Tick, TypeOK, Consistent, Row
      <4> QED
          BY <4>1, <4>2
    <3> QED
        BY <2>1, <2>3, <2>4, <3>1, OlderRowType DEF Consistent, SameRows
  <2>5. RowsInv'
        BY <2>1, <2>2, <2>4, OlderRowType DEF IInv, RowsInv
  <2>6. StreamsInv'
    <3>1. ASSUME NEW s \in Streams, stream'[s] # None, stream'[s].row # None
          PROVE  /\ stream[s] # None /\ stream[s].row \in Row /\ stream[s].id \in NodeIds
                 /\ stream'[s].id = stream[s].id /\ stream'[s].row = OlderRow(stream[s].row)
          BY <1>0, <1>19, <3>1 DEF Tick, TypeOK, Stream
    <3> QED
        BY <2>1, <2>4, <3>1, OlderRowType DEF IInv, StreamsInv, Consistent
  <2>7. AdminInv'
    <3>1. ASSUME NEW a \in Admins, admin'[a] # None
          PROVE  /\ admin[a] # None /\ admin[a].id \in NodeIds
                 /\ admin'[a].id = admin[a].id /\ admin'[a].op = admin[a].op
                 /\ admin[a].op = "drain" =>
                       admin[a].row \in Row /\ admin'[a].row = OlderRow(admin[a].row)
          BY <1>0, <1>19, <3>1 DEF Tick, TypeOK, Request
    <3> QED
        BY <2>1, <2>4, <3>1, OlderRowType DEF IInv, AdminInv, Consistent
  <2>8. MonitorInv'
    <3>1. ASSUME NEW i \in NodeIds, scan'[i] # None
          PROVE  /\ scan[i] # None /\ scan[i].row \in Row
                 /\ scan'[i].row = OlderRow(scan[i].row)
          BY <1>0, <1>19, <3>1 DEF Tick, TypeOK, Finding
    <3> QED
        BY <2>1, <2>4, <3>1, OlderRowType DEF IInv, MonitorInv, Consistent
  <2>9. UniqueNames' /\ RemovedWasDrained' /\ AcceptedOwnsRow'
        BY <1>0, <2>1, <2>3, SameRowsKeeps, SameRowsKeepsWorkers DEF IInv
  <2>10. MasterSpared'
         BY <2>1, <2>2, OlderRowType DEF IInv, MasterSpared
  <2> QED
      BY <1>0, <2>5, <2>6, <2>7, <2>8, <2>9, <2>10 DEF IInv
<1>20. CASE UNCHANGED vars
       BY <1>0, <1>20, TableUnchanged DEF vars, IInv, history
<1> QED
    BY <1>1, <1>2, <1>3, <1>4, <1>5, <1>6, <1>7, <1>8, <1>9, <1>10, <1>11, <1>12,
       <1>13, <1>14, <1>15, <1>16, <1>17, <1>18, <1>19, <1>20
    DEF Next

\* The inductive invariant holds in every reachable state.
THEOREM InductiveInvariant == Spec => []IInv
<1>1. Init => IInv
      BY InitIInv
<1>2. IInv /\ [Next]_vars => IInv'
      BY NextIInv
<1> QED
    BY <1>1, <1>2, PTL DEF Spec

\* No two rows have the same name, whatever registrations race.
THEOREM UniqueNamesCorrect == Spec => []UniqueNames
<1>1. IInv => UniqueNames
      BY DEF IInv
<1> QED
    BY <1>1, InductiveInvariant, PTL

\* No row claims a heartbeat more recent than the last one received for it.
THEOREM HeartbeatNotOverstatedCorrect == Spec => []HeartbeatNotOverstated
<1>1. IInv => HeartbeatNotOverstated
      BY DEF IInv, RowsInv, Consistent, HeartbeatNotOverstated
<1> QED
    BY <1>1, InductiveInvariant, PTL

\* An accepted worker has an id of its own, and the row of that id is its own.
THEOREM AcceptedOwnsRowCorrect == Spec => []AcceptedOwnsRow
<1>1. IInv => AcceptedOwnsRow
      BY DEF IInv
<1> QED
    BY <1>1, InductiveInvariant, PTL

\* A worker's row that is gone was drained before.
THEOREM RemovedWasDrainedCorrect == Spec => []RemovedWasDrained
<1>1. IInv => RemovedWasDrained
      BY DEF IInv
<1> QED
    BY <1>1, InductiveInvariant, PTL

\* The monitor never marks a master NotReady, nor reschedules its pods.
THEOREM MasterSparedCorrect == Spec => []MasterSpared
<1>1. IInv => MasterSpared
      BY DEF IInv
<1> QED
    BY <1>1, InductiveInvariant, PTL

(***************************************************************************)
(* The refinement.  A step keeps the identity of the rows and the drains,  *)
(* and then it is a stutter of the abstract membership; or it inserts a    *)
(* row, which is a Join; or it writes a drain; or it deletes a row.        *)
(***************************************************************************)

\* Only ids that were inserted have been drained, so a fresh id joins undrained.
DrainedWereIssued == \A i \in drained : issued[i] # None

\* A drain counts only for a row that is there, and ids stay issued.
LEMMA DrainedWereIssuedInvariant == Spec => []DrainedWereIssued
<1>1. Init => DrainedWereIssued
      BY DEF Init, DrainedWereIssued
<1>2. ASSUME IInv, DrainedWereIssued, [Next]_vars PROVE DrainedWereIssued'
  <2>1. TypeOK /\ \A i \in NodeIds : nodes[i] # None => issued[i] # None
        BY <1>2, NoneAssumption DEF IInv, RowsInv, Consistent, TypeOK, Row
  <2>2. CASE MasterStart
        BY <1>2, <2>1, <2>2, NoneAssumption
        DEF MasterStart, FreshIds, DrainedWereIssued, TypeOK, Roles
  <2>3. ASSUME NEW c \in Calls, RegisterInsert(c) PROVE DrainedWereIssued'
        BY <1>2, <2>1, <2>3, NoneAssumption
        DEF RegisterInsert, FreshIds, DrainedWereIssued, TypeOK, Roles
  <2>4. ASSUME NEW a \in Admins, DrainUpdate(a) PROVE DrainedWereIssued'
    <3>1. admin[a].id \in NodeIds
          BY <2>1, <2>4, NoneAssumption DEF DrainUpdate, TypeOK, Request
    <3> QED
        BY <1>2, <2>1, <2>4, <3>1 DEF DrainUpdate, DrainedWereIssued
  <2>5. CASE UNCHANGED <<issued, drained>>
        BY <1>2, <2>5 DEF DrainedWereIssued
  <2> QED
      BY <1>2, <2>2, <2>3, <2>4, <2>5
      DEF Next, vars, history, MasterCrash, Register, RegisterFail, WorkerCrash, OpenStream,
          SendPing, BreakStream, PingRead, PingWrite, PingFail, CloseStream, DrainLookup,
          RemoveLookup, RemoveDelete, AdminFail, MonitorList, MonitorMark, MonitorMarkFails,
          MonitorReschedule, MonitorAbort, Tick
<1> QED
    BY <1>1, <1>2, InductiveInvariant, PTL DEF Spec

\* What the abstract membership knows of a member is never None.
LEMMA MemberNotNone ==
    ASSUME NEW n \in Names, NEW r \in Roles, NEW b \in BOOLEAN
    PROVE  [name |-> n, role |-> r, drained |-> b] # None
<1>1. [name |-> n, role |-> r, drained |-> b] \in [name : Names, role : Roles, drained : BOOLEAN]
      OBVIOUS
<1> QED
    BY <1>1, MemberAssumption

\* An update of one field of a member leaves the other fields.
LEMMA DrainMember ==
    ASSUME NEW n, NEW r, NEW b, NEW d
    PROVE  [[name |-> n, role |-> r, drained |-> b] EXCEPT !.drained = d]
               = [name |-> n, role |-> r, drained |-> d]
OBVIOUS

\* Every step of Cluster is a step of the abstract membership, or changes nothing there.
LEMMA RefinesNext == IInv /\ DrainedWereIssued /\ [Next]_vars => [MS!Next]_(MS!mvars)
<1> SUFFICES ASSUME IInv, DrainedWereIssued, [Next]_vars PROVE [MS!Next]_(MS!mvars)
    OBVIOUS
<1> USE NoneAssumption
<1>1. TypeOK /\ \A i \in NodeIds : nodes[i] # None =>
         nodes[i] \in Row /\ nodes[i].role = issued[i] /\ issued[i] # None
      BY DEF IInv, RowsInv, Consistent, TypeOK, Row
<1>2. ASSUME SameRows, issued' = issued, drained' = drained PROVE UNCHANGED MS!mvars
  <2>1. MemberOf' = MemberOf
        BY <1>2 DEF SameRows, MemberOf
  <2>2. GoneIds' = GoneIds
        BY <1>2 DEF SameRows, GoneIds
  <2> QED
      BY <2>1, <2>2 DEF MS!mvars
<1>3. ASSUME NEW i \in NodeIds, nodes[i] # None PROVE MemberOf[i] # None
  <2>1. nodes[i].name \in Names /\ nodes[i].role \in Roles /\ (i \in drained) \in BOOLEAN
        BY <1>1, <1>3 DEF Row
  <2>2. MemberOf[i] = [name |-> nodes[i].name, role |-> nodes[i].role, drained |-> i \in drained]
        BY <1>3 DEF MemberOf
  <2> QED
      BY <2>1, <2>2, MemberNotNone
<1>4. ASSUME NEW i \in FreshIds, NEW n \in Names, NEW r \in Roles, InsertSucceeds(n),
             nodes'  = [nodes EXCEPT ![i] = NewNode(n, r)],
             issued' = [issued EXCEPT ![i] = r], drained' = drained
      PROVE  MS!Next
  <2>1. i \in NodeIds /\ issued[i] = None /\ nodes[i] = None /\ i \notin drained
        BY <1>1 DEF FreshIds, DrainedWereIssued
  <2>2. MemberOf[i] = None /\ i \notin GoneIds
        BY <2>1 DEF MemberOf, GoneIds
  <2>3. \A j \in NodeIds : MemberOf[j] # None => MemberOf[j].name # n
        BY <1>4 DEF MemberOf, InsertSucceeds, NodesByName
  <2>4. nodes'[i].name = n /\ nodes'[i].role = r /\ nodes'[i] # None
    <3>1. nodes'[i] = NewNode(n, r)
          BY <1>1, <1>4, <2>1 DEF TypeOK
    <3> QED
        BY <3>1, NewNodeType DEF NewNode
  <2>5. \A j \in NodeIds : j # i => nodes'[j] = nodes[j] /\ issued'[j] = issued[j]
        BY <1>1, <1>4 DEF TypeOK
  <2>6. MemberOf' = [MemberOf EXCEPT ![i] = [name |-> n, role |-> r, drained |-> FALSE]]
    <3>1. ASSUME NEW j \in NodeIds, j # i PROVE MemberOf'[j] = MemberOf[j]
          BY <1>4, <2>5, <3>1 DEF MemberOf
    <3>2. (i \in drained') = FALSE
          BY <1>4, <2>1
    <3>3. MemberOf'[i] = [name |-> n, role |-> r, drained |-> FALSE]
          BY <2>1, <2>4, <3>2, Zenon DEF MemberOf
    <3> QED
        BY <2>1, <3>1, <3>3 DEF MemberOf
  <2>7. GoneIds' = GoneIds
        BY <2>1, <2>4, <2>5 DEF GoneIds
  <2> QED
      BY <2>1, <2>2, <2>3, <2>6, <2>7 DEF MS!Next, MS!Join
<1>5. CASE MasterStart
  <2>1. CASE UNCHANGED <<nodes, issued, heard>>
        BY <1>2, <1>5, <2>1 DEF MasterStart, SameRows
  <2>2. CASE ~UNCHANGED <<nodes, issued, heard>>
        BY <1>4, <1>5, <2>2, NamesAssumption DEF MasterStart, Roles
  <2> QED
      BY <2>1, <2>2
<1>6. ASSUME NEW c \in Calls, RegisterInsert(c) PROVE MS!Next
  <2>1. HostName[register[c].host] \in Names
        BY <1>1, <1>6, NamesAssumption DEF RegisterInsert, TypeOK, RegisterCall
  <2> QED
      BY <1>4, <1>6, <2>1 DEF RegisterInsert, Roles
<1>7. ASSUME NEW s \in Streams, PingWrite(s) PROVE UNCHANGED MS!mvars
  <2>1. stream[s].id \in NodeIds /\ stream[s].row \in Row /\ Consistent(stream[s].id, stream[s].row)
        BY <1>1, <1>7 DEF PingWrite, TypeOK, Stream, IInv, StreamsInv
  <2>2. SameRows
        BY <1>7, <2>1, UpdateKeepsRows DEF PingWrite, IInv
  <2> QED
      BY <1>2, <1>7, <2>2 DEF PingWrite, history
<1>8. ASSUME NEW i \in NodeIds, MonitorMark(i) PROVE UNCHANGED MS!mvars
  <2>1. scan[i].row \in Row /\ Consistent(i, scan[i].row)
        BY <1>1, <1>8 DEF MonitorMark, NextInScan, TypeOK, Finding, IInv, MonitorInv
  <2>2. Marked(scan[i].row) \in Row /\ Consistent(i, Marked(scan[i].row))
        BY <2>1, RowTypes DEF Marked, Row, Consistent
  <2>3. SameRows
    <3>1. CASE nodes' = nodes
          BY <3>1 DEF SameRows
    <3>2. CASE nodes' = UpdateNode(i, Marked(scan[i].row))
          BY <2>2, <3>2, UpdateKeepsRows DEF IInv
    <3> QED
        BY <1>8, <3>1, <3>2 DEF MonitorMark
  <2> QED
      BY <1>2, <1>8, <2>3 DEF MonitorMark, history
<1>9. CASE Tick
  <2>1. SameRows
        BY <1>1, <1>9, OlderRowType DEF Tick, SameRows
  <2> QED
      BY <1>2, <1>9, <2>1 DEF Tick
<1>10. ASSUME NEW a \in Admins, DrainUpdate(a) PROVE [MS!Next]_(MS!mvars)
  <2> DEFINE i == admin[a].id
  <2>1. i \in NodeIds /\ admin[a].row \in Row /\ Consistent(i, admin[a].row)
        BY <1>1, <1>10 DEF DrainUpdate, TypeOK, Request, IInv, AdminInv
  <2>2. SameRows /\ issued' = issued
        BY <1>10, <2>1, UpdateKeepsRows DEF DrainUpdate, IInv
  <2>3. CASE nodes[i] = None
        BY <1>2, <1>10, <2>2, <2>3 DEF DrainUpdate
  <2>4. CASE nodes[i] # None
    <3>1. drained' = drained \cup {i}
          BY <1>10, <2>4 DEF DrainUpdate
    <3>2. MemberOf[i] # None
          BY <1>3, <2>1, <2>4
    <3>3. MemberOf' = [MemberOf EXCEPT ![i].drained = TRUE]
      <4>1. ASSUME NEW j \in NodeIds, j # i PROVE MemberOf'[j] = MemberOf[j]
            BY <2>2, <3>1, <4>1 DEF MemberOf, SameRows
      <4>2. (i \in drained') = TRUE
            BY <3>1
      <4>3. nodes'[i] # None /\ nodes'[i].name = nodes[i].name /\ nodes'[i].role = nodes[i].role
            BY <2>1, <2>2, <2>4 DEF SameRows
      <4>4. MemberOf'[i] = [name |-> nodes[i].name, role |-> nodes[i].role, drained |-> TRUE]
            BY <2>1, <4>2, <4>3, Zenon DEF MemberOf
      <4>5. MemberOf[i] = [name |-> nodes[i].name, role |-> nodes[i].role,
                           drained |-> i \in drained]
            BY <2>1, <2>4 DEF MemberOf
      <4>6. [MemberOf[i] EXCEPT !.drained = TRUE] = MemberOf'[i]
        <5>1. PICK d : d = TRUE
              OBVIOUS
        <5>2. [MemberOf[i] EXCEPT !.drained = d]
                  = [name |-> nodes[i].name, role |-> nodes[i].role, drained |-> d]
              BY <4>5, DrainMember
        <5> QED
            BY <4>4, <5>1, <5>2, Zenon
      <4> QED
          BY <2>1, <4>1, <4>6 DEF MemberOf
    <3>4. GoneIds' = GoneIds
          BY <2>2 DEF GoneIds, SameRows
    <3> QED
        BY <2>1, <3>2, <3>3, <3>4 DEF MS!Next, MS!Drain
  <2> QED
      BY <2>3, <2>4
<1>11. ASSUME NEW a \in Admins, RemoveDelete(a) PROVE [MS!Next]_(MS!mvars)
  <2> DEFINE i == admin[a].id
  <2>1. /\ i \in NodeIds /\ issued[i] # None /\ issued' = issued /\ drained' = drained
        /\ nodes' = [nodes EXCEPT ![i] = None]
        /\ issued[i] = "Worker" => i \in drained
        BY <1>1, <1>11 DEF RemoveDelete, DeleteNode, TypeOK, Request, IInv, AdminInv, history
  <2>2. CASE nodes[i] = None
        BY <1>1, <1>2, <2>1, <2>2 DEF SameRows, TypeOK
  <2>3. CASE nodes[i] # None
    <3>1. MemberOf[i] # None
          BY <1>3, <2>1, <2>3
    <3>2. MemberOf[i].drained \/ MemberOf[i].role = "Master"
          BY <1>1, <2>1, <2>3 DEF MemberOf, Row, Roles
    <3>3. \A j \in NodeIds : nodes'[j] = IF j = i THEN None ELSE nodes[j]
          BY <1>1, <2>1 DEF TypeOK
    <3>4. MemberOf' = [MemberOf EXCEPT ![i] = None]
          BY <2>1, <3>3 DEF MemberOf
    <3>5. GoneIds' = GoneIds \cup {i}
          BY <2>1, <3>3 DEF GoneIds
    <3> QED
        BY <2>1, <3>1, <3>2, <3>4, <3>5 DEF MS!Next, MS!Leave
  <2> QED
      BY <2>2, <2>3
<1>12. CASE UNCHANGED nodes /\ UNCHANGED <<issued, drained>>
       BY <1>2, <1>12 DEF SameRows
<1> QED
    BY <1>5, <1>6, <1>7, <1>8, <1>9, <1>10, <1>11, <1>12
    DEF Next, vars, history, MasterCrash, Register, RegisterFail, WorkerCrash, OpenStream,
        SendPing, BreakStream, PingRead, PingFail, CloseStream, DrainLookup, RemoveLookup,
        AdminFail, MonitorList, MonitorMarkFails, MonitorReschedule, MonitorAbort

\* The nodes table, whatever stale copies are written to it, implements the abstract
\* membership.
THEOREM Refinement == Spec => ImplementsMembership
<1>1. Init => MS!Init
      BY NoneAssumption DEF Init, MS!Init, MemberOf, GoneIds
<1>2. IInv /\ DrainedWereIssued /\ [Next]_vars => [MS!Next]_(MS!mvars)
      BY RefinesNext
<1> QED
    BY <1>1, <1>2, InductiveInvariant, DrainedWereIssuedInvariant, PTL
    DEF Spec, ImplementsMembership, MS!Spec

=============================================================================
