---------------------------- MODULE EventWatcher ----------------------------
(***************************************************************************)
(* The container event watcher (adapters/event_watcher.rs) between three   *)
(* others: the runtime's event stream (docker.rs and containerd.rs,        *)
(* events), the orchestrator's bounded command channel, and the clients of *)
(* the HTTP event stream (api/handlers.rs, events_stream), each a reader   *)
(* of a bounded broadcast channel.                                         *)
(*                                                                         *)
(* A container event is known by its place in `happened`; the stream, the  *)
(* command channel and the broadcast channel carry these places.  Exit     *)
(* codes, timestamps and metrics are left out.                             *)
(***************************************************************************)
EXTENDS Naturals, SequencesExt

CONSTANTS
    Pods,         \* pods, one container each
    Clients,      \* HTTP event stream clients
    MaxEvents,    \* bound: how many container events happen
    QueueCap,     \* capacity of the orchestrator's command channel
    BroadcastCap  \* capacity of the broadcast channel (256)

Kinds == {"started", "died", "oom"}
Event == [kind : Kinds, pod : Pods]
Place == 1 .. MaxEvents

\* A reader of the broadcast channel: the next place of log it will read and the first
\* one, the events it was shown, and how many it was warned to have missed.
Reader == [next : Nat, from : Nat, seen : Seq(Place), missed : Nat]

ASSUME BoundAssumption == MaxEvents \in Nat

ASSUME CapAssumption == QueueCap \in Nat \ {0} /\ BroadcastCap \in Nat \ {0}

VARIABLES
    runtime,       \* --runtime
    happened,      \* the container events so far
    running,       \* pods whose container runs
    stream,        \* the watcher's event stream: "closed", "open" or "ended"
    buffer,        \* events in the stream that the watcher has not taken
    held,          \* the command tx.send is waiting to enqueue (at most one)
    queue,         \* the command channel; 0 is a command of somebody else
    orchestrator,  \* "up", or "down": its end of the channel is dropped
    log,           \* what has been broadcast
    client,        \* client[u] : Reader
    \* history
    received       \* ContainerExited commands the orchestrator has taken

vars == <<runtime, happened, running, stream, buffer, held, queue, orchestrator,
          log, client, received>>

----------------------------------------------------------------------------
(* The runtime *)

\* A container starts, exits or is hit by the OOM killer; events() asks for
\* events from now on, so only an open stream gets it.
Happen(kind, p) ==
    /\ Len(happened) < MaxEvents
    /\ (kind = "started") = (p \notin running)
    /\ happened' = Append(happened, [kind |-> kind, pod |-> p])
    /\ running'  = CASE kind = "started" -> running \cup {p}
                     [] kind = "died"    -> running \ {p}
                     [] kind = "oom"     -> running
    /\ buffer'   = IF stream = "open" THEN Append(buffer, Len(happened) + 1) ELSE buffer
    /\ UNCHANGED <<runtime, stream, held, queue, orchestrator, log, client, received>>

\* runtime.events() succeeds.  When it fails the watcher sleeps and tries again.
StreamOpen ==
    /\ stream = "closed"
    /\ stream' = "open"
    /\ UNCHANGED <<runtime, happened, running, buffer, held, queue, orchestrator,
                   log, client, received>>

\* The daemon, the connection or `ctr events` dies: some of what is in the
\* stream can still be read.
StreamBreak ==
    /\ stream = "open"
    /\ stream' = "ended"
    /\ \E n \in 0 .. Len(buffer) : buffer' = SubSeq(buffer, 1, n)
    /\ UNCHANGED <<runtime, happened, running, held, queue, orchestrator, log, client,
                   received>>

\* An event that cannot be read is logged and skipped.
StreamError ==
    /\ buffer # <<>> /\ held = <<>>
    /\ buffer' = Tail(buffer)
    /\ UNCHANGED <<runtime, happened, running, stream, held, queue, orchestrator,
                   log, client, received>>

\* What extract_pod_id makes of the id in the event: Docker's events carry the
\* label nexa.pod-id, containerd's the container name, which is no UUID.
HasPodId == runtime = "docker"

\* The events that make the watcher send ContainerExited.
IsReported(i) == happened[i].kind \in {"died", "oom"} /\ HasPodId

----------------------------------------------------------------------------
(* The watcher *)

\* handle_event_stream takes the next event: broadcast it (without a client that
\* is an error, ignored), then send ContainerExited if it is an exit of a pod.
Take ==
    /\ buffer # <<>> /\ held = <<>>
    /\ buffer' = Tail(buffer)
    /\ log'    = Append(log, Head(buffer))
    /\ held'   = IF IsReported(Head(buffer)) THEN <<Head(buffer)>> ELSE <<>>
    /\ UNCHANGED <<runtime, happened, running, stream, queue, orchestrator, client,
                   received>>

\* Slip: a send that does not wait for room.
NoWait == TRUE

\* tx.send waits for room in the channel.
Room == Len(queue) < QueueCap

\* Slip: try_send, its error ignored.
SendOrDrop ==
    /\ held # <<>> /\ orchestrator = "up"
    /\ queue' = IF Room THEN queue \o held ELSE queue
    /\ held'  = <<>>
    /\ UNCHANGED <<runtime, happened, running, stream, buffer, orchestrator, log,
                   client, received>>

\* tx.send enqueues the command.
Send ==
    /\ held # <<>> /\ orchestrator = "up" /\ Room
    /\ queue' = queue \o held
    /\ held'  = <<>>
    /\ UNCHANGED <<runtime, happened, running, stream, buffer, orchestrator, log,
                   client, received>>

\* tx.send fails: handle_event_stream returns and its stream is dropped.
SendFails ==
    /\ held # <<>> /\ orchestrator = "down"
    /\ held'   = <<>>
    /\ stream' = "closed"
    /\ buffer' = <<>>
    /\ UNCHANGED <<runtime, happened, running, queue, orchestrator, log, client, received>>

\* The stream has ended and is read to its end: sleep, and open another one.
StreamEnd ==
    /\ stream = "ended" /\ buffer = <<>> /\ held = <<>>
    /\ stream' = "closed"
    /\ UNCHANGED <<runtime, happened, running, buffer, held, queue, orchestrator,
                   log, client, received>>

----------------------------------------------------------------------------
(* The orchestrator's end of the channel *)

\* HTTP handlers and health probes send commands too.
OtherCommand ==
    /\ orchestrator = "up" /\ Len(queue) < QueueCap
    /\ queue' = Append(queue, 0)
    /\ UNCHANGED <<runtime, happened, running, stream, buffer, held, orchestrator,
                   log, client, received>>

\* The orchestrator takes a command.
Handle ==
    /\ orchestrator = "up" /\ queue # <<>>
    /\ queue'    = Tail(queue)
    /\ received' = IF Head(queue) = 0 THEN received ELSE Append(received, Head(queue))
    /\ UNCHANGED <<runtime, happened, running, stream, buffer, held, orchestrator,
                   log, client>>

\* Its task ends.
OrchestratorStops ==
    /\ orchestrator = "up"
    /\ orchestrator' = "down"
    /\ queue' = <<>>
    /\ UNCHANGED <<runtime, happened, running, stream, buffer, held, log, client,
                   received>>

----------------------------------------------------------------------------
(* events_stream *)

\* No reader; also what is left of one when the client hangs up.
NoReader == [next |-> 0, from |-> 0, seen |-> <<>>, missed |-> 0]

\* event_tx.subscribe(): the reader gets what is broadcast from now on.
Subscribe(u) ==
    /\ client[u] = NoReader
    /\ client' = [client EXCEPT ![u].next = Len(log) + 1, ![u].from = Len(log) + 1]
    /\ UNCHANGED <<runtime, happened, running, stream, buffer, held, queue,
                   orchestrator, log, received>>

\* The oldest place the broadcast channel still holds.
Oldest == IF Len(log) > BroadcastCap THEN Len(log) - BroadcastCap + 1 ELSE 1

\* rx.recv() gives the next event, which the client is shown.
Show(u) ==
    /\ client[u].next \in Oldest .. Len(log)
    /\ client' = [client EXCEPT ![u].seen = Append(@, log[client[u].next]), ![u].next = @ + 1]
    /\ UNCHANGED <<runtime, happened, running, stream, buffer, held, queue,
                   orchestrator, log, received>>

\* Slip: Lagged skipped without a word.
WarnedSilently(n) == 0

\* The number in the warning the client is shown instead.
Warned(n) == n

\* Slip: the loop ends at every error of recv, and the client waits on.
LagBreaks(u) ==
    /\ client[u].next \in 1 .. (Oldest - 1)
    /\ client' = [client EXCEPT ![u].next = 0]
    /\ UNCHANGED <<runtime, happened, running, stream, buffer, held, queue,
                   orchestrator, log, received>>

\* rx.recv() says Lagged(n): n events were overwritten; the loop goes on.
Lag(u) ==
    /\ client[u].next \in 1 .. (Oldest - 1)
    /\ client' = [client EXCEPT ![u].missed = @ + Warned(Oldest - client[u].next),
                                ![u].next = Oldest]
    /\ UNCHANGED <<runtime, happened, running, stream, buffer, held, queue,
                   orchestrator, log, received>>

\* The client hangs up.
Unsubscribe(u) ==
    /\ client[u] # NoReader
    /\ client' = [client EXCEPT ![u] = NoReader]
    /\ UNCHANGED <<runtime, happened, running, stream, buffer, held, queue,
                   orchestrator, log, received>>

----------------------------------------------------------------------------
Init ==
    /\ runtime \in {"docker", "containerd"}
    /\ happened = <<>> /\ running = {}
    /\ stream = "closed" /\ buffer = <<>> /\ held = <<>>
    /\ queue = <<>> /\ orchestrator = "up"
    /\ log = <<>> /\ client = [u \in Clients |-> NoReader]
    /\ received = <<>>

Next ==
    \/ \E kind \in Kinds, p \in Pods : Happen(kind, p)
    \/ StreamOpen \/ StreamBreak \/ StreamError \/ StreamEnd
    \/ Take \/ Send \/ SendFails
    \/ OtherCommand \/ Handle \/ OrchestratorStops
    \/ \E u \in Clients : Subscribe(u) \/ Show(u) \/ Lag(u) \/ Unsubscribe(u)

Spec == Init /\ [][Next]_vars

\* The runtime polls the watcher and the orchestrator; events() does not fail for
\* ever; the channel gives room to its senders in the order they ask (strong
\* fairness of Send, other senders notwithstanding); a client that stays reads.
Fairness ==
    /\ WF_vars(StreamOpen) /\ WF_vars(StreamEnd)
    /\ WF_vars(Take) /\ SF_vars(Send) /\ WF_vars(SendFails)
    /\ WF_vars(Handle)
    /\ \A u \in Clients : WF_vars(Show(u) \/ Lag(u))

FairSpec == Spec /\ Fairness

----------------------------------------------------------------------------
(* Properties *)

\* Every variable has its type; the command channel never holds more than its
\* capacity, tx.send waits with one command at most, and a closed stream has no
\* events left in it.
TypeOK ==
    /\ runtime \in {"docker", "containerd"}
    /\ happened \in Seq(Event) /\ Len(happened) <= MaxEvents
    /\ running \subseteq Pods
    /\ stream \in {"closed", "open", "ended"}
    /\ buffer \in Seq(Place) /\ (stream = "closed" => buffer = <<>>)
    /\ held \in Seq(Place) /\ Len(held) <= 1
    /\ queue \in Seq(Place \cup {0}) /\ Len(queue) <= QueueCap
    /\ orchestrator \in {"up", "down"}
    /\ log \in Seq(Place) /\ received \in Seq(Place)
    /\ client \in [Clients -> Reader]
    /\ \A u \in Clients : client[u].next <= Len(log) + 1

\* Places in ascending order; 0 is none.
Ascending(s) == \A i, j \in 1 .. Len(s) : (i < j /\ s[i] # 0 /\ s[j] # 0) => s[i] < s[j]

\* The commands the orchestrator has taken, those in the channel and the one being sent.
Told == received \o queue \o held

\* What the orchestrator is told and what was broadcast agree: while its channel
\* is open, the ContainerExited commands it has taken, those in the channel and
\* the one being sent are the exits broadcast so far, each once and both in the order
\* in which they happened, however often the channel was full and the stream reopened.
ExitsAgree ==
    orchestrator = "up" =>
        /\ Ascending(Told) /\ Ascending(log)
        /\ ToSet(Told) \ {0} = {i \in ToSet(log) : IsReported(i)}

\* A client can account for every event: what was broadcast since it subscribed
\* is what it was shown plus what it was warned to have missed, and it is shown
\* events in the order they happened, each at most once.
MissedReported ==
    \A u \in Clients :
        /\ Len(client[u].seen) + client[u].missed = client[u].next - client[u].from
        /\ Ascending(client[u].seen)

\* An exit that is in the watcher's stream reaches the orchestrator, although the
\* channel is bounded and others fill it, unless the stream loses it or the
\* orchestrator ends.
ExitReported ==
    \A i \in Place :
        (Contains(buffer, i) /\ IsReported(i))
            ~> (\/ Contains(received, i) \/ orchestrator = "down"
                \/ ~Contains(buffer, i) /\ ~Contains(log, i))

\* A client that stays is brought up to date: a reader overrun by the broadcast
\* channel is warned and goes on.
ClientCatchesUp ==
    \A i \in Place, u \in Clients :
        (client[u] # NoReader /\ i <= Len(log)) ~> (client[u].next > i \/ client[u] = NoReader)

=============================================================================
