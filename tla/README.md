# A TLA+ model of nexad

nexad is the daemon of a small container orchestrator. One process is the
master: it serves an HTTP API, keeps a SQLite store, runs the orchestrator (a
task of the `nexa-core` library, which is not in this repository) and drives a
container runtime and a reverse proxy. Other machines run nexad as workers that
join the master over gRPC, send heartbeats and start containers on request.

The logic worth a model is not in any one function. It is in what happens
between an `await` and the next: tasks that read a row, wait and write it back;
handlers that race for a container name; files that outlive the process that
wrote them; channels that fill up.

## Inventory

| component | state | operations | what is hard | correct if |
|---|---|---|---|---|
| membership (`cluster/*`, `api/handlers.rs`, `main.rs`) | the `nodes` table; copies of rows held by tasks; streams | register, ping, drain, remove, monitor pass, master start | read-await-write of whole rows by five kinds of task; crashes; store errors; thresholds | names unique, no silent node hidden, no removed node back, dead workers found |
| pod assignment (`cluster/server.rs`, `transport/local.rs`, `runtime/docker.rs`, `runtime/containerd.rs`) | containers and networks of the runtime | assign_pod | calls racing for one name, retries, hang-ups; containerd takes several commands for one call | a name ends with a running container, every call is answered |
| CNI networks (`runtime/cni.rs`) | octet allocator (memory), conflist files (disk) | ensure_network, remove_network | u8 wrap, failed writes, restart | different networks, different subnets |
| log tailer (`runtime/log_tailer.rs`) | two readers, an offset | tail | a container that writes between any two steps | nothing twice, nothing lost, followers catch up |
| proxy backends (`proxy/*`) | configuration files | apply_routes, remove_route, reload, health | partial writes, key collisions, errors answered as success | the files stand for one routing table |
| event watcher (`event_watcher.rs`, `events_stream`) | event stream, command channel, broadcast channel | take, send, reconnect, subscribe | bounded channels, lagging readers, reconnection | exits reach the orchestrator, clients can account for events |
| store (`state/sqlite.rs`, `migrations/`) | tables with UNIQUE, foreign keys, cascades | insert, update, delete per table | copies of rows written back after the row, its deployment or its project is gone; names used again; a migration that drops a table | no orphans, deleted rows stay deleted |
| join token (`cluster/token.rs`, `main.rs`, `handlers.rs`) | hash and token in the store, hash in the gRPC server | generate, rotate, show, verify | two writes, overlapping requests, a stale copy, a crash or a client hanging up between | someone knows a token that is accepted; the token shown is the current one |
| DNS (`dns/*`) | project -> deployment -> addresses; the UDP socket, TCP connections | register, deregister, resolve, forward | replica names shadowing deployments, shifting indices, two locks for one answer, one task for all datagrams | answers are true, queries are served |
| secrets (`secrets/*`, `crypto/*`) | key file, encrypted values | load or create key, set, get, delete | interrupted write of the key, which is never synced; restarts | old values stay readable |
| route store, TLS (`memory_route_store.rs`, `tls/*`) | routes, certificates, subnets, in memory | CRUD, renewal loop | nothing yet: issuing is a stub | certificates renewed before expiry |
| startup (`main.rs`) | the process and what it finds on disk | start_master, step by step | a crash or an error between any two steps, then another start | nothing kept on disk is lost or replaced |
| health probes (`health/mod.rs`) | none | probe, report | overlapping probes of one pod | the last probe wins |

Components interact through the store (membership, handlers, TLS), through the
orchestrator's command channel (handlers, event watcher, health probes), through
the runtime's containers (assignment, events, logs) and through files (proxy,
CNI, key). Each hazard that follows from this is listed, at its line, in
`PROJECT.json`.

## Modules

| module | models | proofs | instance |
|---|---|---|---|
| `Cluster` | membership; implements `Membership` | `ClusterProofs` | `MCCluster` |
| `Membership` | what the cluster promises about its members (abstract) | | |
| `PodAssign` | assign_pod on one machine, with Docker or containerd | `PodAssignProofs` | `MCPodAssign` |
| `CniNetworks` | allocator and conflist files | `CniNetworksProofs` | `MCCniNetworks` |
| `LogTailer` | tail against a writing container | `LogTailerProofs` | `MCLogTailer` |
| `RoutingTable` | what a proxy backend promises (abstract) | | |
| `ProxyBackend` | the files of the four backends; implements `RoutingTable` | `ProxyBackendProofs` | `MCProxyBackend` |
| `EventWatcher` | event stream, command channel, broadcast channel | `EventWatcherProofs` | `MCEventWatcher` |
| `StateStore` | projects, deployments and pods in SQLite | `MasterProofs` | through `Master` |
| `JoinToken` | the join token in its three places | `MasterProofs` | through `Master` |
| `SecretStore` | key file and encrypted secrets | `MasterProofs` | through `Master` |
| `Master` | composes the three in the life of a master: start, crash, start again | `MasterProofs` | `MCMaster` |
| `Dns` | record store and DNS server | `DnsProofs` | `MCDns` |
| `Nothing` | the constant `None` the parts of `Master` share | | |

A definition whose comment begins with "Slip:" is no part of the model: it is a
wrong variant of the definition after it, kept to show that the properties
notice (`mutants` in `PROJECT.json` says which property notices which).
Variables declared under "history" are read by no guard.

### Cluster

`nodes` is the table; `register`, `stream`, `admin` and `scan` are the tasks that
hold something between a read and a write. Every task that changes a row is two
actions: `PingRead`/`PingWrite`, `DrainLookup`/`DrainUpdate`,
`RemoveLookup`/`RemoveDelete`, `MonitorList`/`MonitorMark`,
`Register`/`RegisterInsert`. `update_node` writes the whole row `WHERE id`, so it
never inserts (`UpdateNode`). The error paths are those of the code: a failed
lookup in `register` counts as "not registered", errors of `update_node` are
ignored, an error of `list_pods` ends the pass (`MonitorAbort`). A master that
crashes loses its tasks and keeps its table; a worker that crashes forgets its
id while the task of its stream may still work on what it sent.

Timestamps are kept as ages that stop at `DeadAge`, since the code compares
elapsed times with the two thresholds only. The wall clock is taken not to step
back. The joining worker's token is left out: a refused token changes nothing.

`Membership` is what is left when tasks, copies, ages and statuses are forgotten: ids
join, are drained and leave. `MemberOf` and `GoneIds` are the refinement mapping: a
member is a row reduced to its name, its role and whether a drain of it took effect,
and an id is gone when it was inserted and has no row.

### PodAssign

One action per runtime call of `assign_pod`, for calls through the gRPC handler
and through `LocalTransport`; they differ in what an error of `container_exists`
means. A runtime call that can fail for its own reasons has a disjunct for it,
which puts the name in `fault`; so do a handler that is dropped (`Abandon`) and a
container that outlives the deadline. A call that finds no other of its name in
progress clears the fault: whatever the earlier calls have left, a retry is held to
the whole promise. `runtime` is chosen at the start. Docker stops and
removes by name, each in one request, and starts by id. containerd runs `ctr` step
by step and by name only: `stop_container` is a signal (`SignalOld`), a poll
(`WaitOld`) and a second signal at the deadline that nobody waits for (`KillOld`);
`remove_container` is `DeleteTask` and `DeleteContainer`. A call may therefore start
the container of another, and `RunsWhenAllAnswered` says less for containerd: the
container runs and some call was answered with success. A dropped handler is over
when the runtime has done, or lost, what it was asked last; `create_network` of a
network that exists leaves it as it is, which the daemon decides, not this code.

### CniNetworks

`allocations` and `next` are the allocator, `conflist` the directory. The runtime
holds a mutex round every call, so calls are atomic except that the process may
die, or the write fail, in the middle. `OctetCount` stands for 2^8.

### LogTailer

The file is a sequence of bytes, either text or newline; what is read and served
is kept as positions in the file, which is what makes "twice", "out of order" and
"lost" expressible. The container writes one byte at a time, between any two
steps of the reader.

### RoutingTable and ProxyBackend

`RoutingTable` says, for each call and its answer, what may have happened to a
table from domains to routes. `ProxyBackend` has the files: one with all routes,
rewritten in place (nexa-proxy, caddy, traefik), or one per domain (nginx); keys,
which traefik makes by replacing dots; damaged files; and the answers, where the
backends differ. nexa-proxy answers success to a `remove_route` whose file it could not
read: the abstract table allows this to that backend alone (`lenient`). Domains that
traefik's keys do not tell apart are `rivals` of each other: a route that is applied
may be `Displaced` by that of a rival, and removing one removes both. The table allows
that to rivals only, and with the other backends no domain has a rival but itself.
The running proxy process and `reload` are not in the model.

### EventWatcher

Events are known by their place in the order in which they happened. The watcher
takes an event, broadcasts it, and for an exit of a pod waits for room in the
command channel. The stream may break and be reopened; what happens meanwhile is
lost, as in the code (`since: None`). With containerd the id in an event is the
container name, which `extract_pod_id` refuses, so no exit is reported. After the
orchestrator's channel closes, the watcher says in its log that it stops; its loop
opens a new stream, and so does the model.

### StateStore, JoinToken, SecretStore, Master

`StateStore` has one action per SQL statement; the schema's constraints are the
operators `NameTaken`, `PodsCascaded` and `OfProject`. Callers keep a `Deployment` or
a `Pod` as long as they like, so an update or an insert may come with any id ever
made, whatever has happened to its row. A row's other columns are abstracted to one
status: no statement tests them.

`JoinToken` has the two rows, the hash the gRPC server was started with, and the
requests between their two writes. A request ends there with its answer, with its
client hanging up (`HangUp`: axum drops the handler at the await it is in) or with the
process; a token that was never answered is `abandoned`. `SecretStore` has the key
file, which is absent, complete or damaged, and blobs that open with their own key
only. `fs::write` does not sync the file: until the system does (`WriteBack`), a
`PowerCut` may take the key or cut it short (`lostKeys`), while the rows of SQLite,
which syncs its commits, are there. `Crash` is the end of the process alone.
"Never the same twice" of tokens and keys stands for 32 random bytes.

`Master` conjoins them with `phase`, the step of `start_master` that comes next. Steps
that bring up a part without state kept on disk are there for the crash that can
happen at them. The orchestrator is spawned before the token is looked at, so the
tables may change from then on; requests come once the HTTP API is up. Single-node
mode makes the same calls without the token.

### Dns

`entries` is the nested map of the record store, with the order of addresses, since
an index into them is a name. `udpTask` is the one task that serves the socket and
waits for the upstream server; TCP connections wait on their own. The two halves of
`resolve` are two actions. A name is a project and a host, and `Split` says whether
the host reads as a replica; questions are put in lower case, registered names are
not. Datagrams that find the socket full are lost.

## Runs

| run | bounds | shows |
|---|---|---|
| `cluster_join` | 2 machines of one hostname, 3 ids, 2 calls, 1 request, no stream | names stay unique and accepted workers own their rows under racing, failing and repeated registrations; the table implements `Membership` |
| `cluster_heartbeat` | 1 machine, 2 ids, 2 streams, 1 request, 1 queued ping | the stale copies of two streams, the monitor and a request written over each other; the inductive invariant |
| `cluster_live` | 1 machine, 1 id, 1 stream, 1 request | dead workers are detected; workers that run become Ready again |
| `cluster_drain` | as `cluster_heartbeat` with 1 stream | **violation**: a worker whose row says Ready is removed |
| `cni` | 3 networks, 3 octets | no subnet given twice by one process |
| `cni_restart` | the same | **violation**: after a restart two networks share a subnet |
| `pods` | 3 calls (one local), 1 name, either runtime | racing assignments, and retries of failed or dropped ones, leave a running container; every call is answered |
| `logs` | files of 6 bytes, 2 lines of history | order, the only gap, followers catch up |
| `proxy` | 3 domains, two of which share a traefik key, 2 routes, one without upstreams | the four backends implement the routing table |
| `events` | 1 pod, 1 client, 4 events, command channel of 1, broadcast channel of 2 | exits agree with the broadcast, clients account for events, both make progress |
| `master` | 2 projects, 2 deployments of one name, 2 pods, 3 tokens, 2 requests, 2 keys, 1 secret of 2 values; `OneArea` | tables without orphans, tokens someone knows, secrets that stay readable, over any number of hang-ups, crashes, power cuts and restarts |
| `dns` | 1 project, deployments web and web-1, an IPv4 and an IPv6 address, 2 clients of one question each, a socket of 1 | true answers while records change; no query waits for ever |

Why the bounds are enough to be interesting. Two machines of one hostname and
three ids let a name be registered, removed and registered again while a second
registration is between its lookup and its insert. Two streams are a broken one
whose task still holds a copy and its successor. The two ages 1 and 2 are the
two thresholds; each is reached and passed. Three octets and three networks
exhaust the pool, wrap the counter and then re-create networks. Three calls
on one name are enough for one to remove what a second has created while a third
fails on the name, and for two to race over what a first has left half done.
`cluster_live` has one worker: that a pass which ends at one dead node skips the nodes listed after it (`heartbeat.rs:80`) cannot
happen in it. Six bytes hold three lines, more than the history asked for,
with a partial one at each reader's end. Channels of one and two are smaller than
the number of events, so both are full and a reader is overrun. Two deployments of
one name let the name be deleted and used again while copies of the first are still
written; two projects let a cascade hit one and spare the other. Three tokens are a
first start and two overlapping rotations. The tables, the tokens and the secrets
share nothing but the process, so `OneArea` in `MCMaster` keeps a behaviour that fills
the tables from also rotating tokens or setting secrets, and the other way round;
projects, deployments, pods and tokens are symmetric. web-1 is both the second
replica of web and a deployment, and the two addresses are of different families, so
a question can have a name without an answer.

Deadlock checking is off for `pods` and `logs`, which come to an end:
every call is answered; the stream has ended and the container writes no more.

### Fairness

- Time passes and ready tasks are polled (weak fairness of `Tick`, `MonitorList`,
  `CloseStream`, of the tailer's steps, of the watcher's and the orchestrator's).
- Errors of the store and the network do not hit every attempt (strong fairness of
  the monitor's and the heartbeat's steps, of opening a stream): the code retries
  on the next tick, and with an error each time nothing could be promised.
- `Send` is strongly fair: tokio's bounded channel gives room to senders in the
  order in which they ask, so other senders cannot starve the watcher.
- The steps of an `assign_pod` handler are weakly fair: the runtime answers each
  request, with success or not, and the deadline of the poll passes. A container may
  ignore its signals for ever.
- The DNS server's task and its handlers are weakly fair, the time limit of the
  upstream server included. Nothing is assumed of the upstream server or of clients.
- Nothing is assumed of administrators, crashes, other senders, or of a crashed
  master being started again.

### What the violations mean

`remove_node` refuses a node that is not drained, but looks at a copy. A ping that
read the row before can write Ready between the check and the delete; the node
deleted is then Ready and running (`ReadyNotRemoved`). What holds, and is proved, is
`RemovedWasDrained`.

`CniManager::new` starts with an empty allocator beside the files of the process
before. A network created after a restart gets a subnet that an existing network
uses. What holds, and is proved, is `DistinctWithinProcess`.

### What the passing runs also say

A property that passes with an exception says something of the exception too. These
are the code's behaviour, in the models, and worth knowing:

- `OnlyGap`: the comment at `log_tailer.rs:59` says the second reader seeks "past the
  bytes we already served"; the property states which bytes it passes without having
  served them: those written between the end of the first read and the `stat`.
- `SomeoneCanJoin`: a first start, a rotation or an init that ends between its first
  write and its answer leaves a hash whose token nobody was told
  (`handlers.rs:278-285`, `314-321`, `main.rs:399`), and the next start loads it. A
  client that hangs up is enough.
- `ShownIsCurrent`: rotations that overlap, or whose second write fails, may leave
  `token show` with another token than the hash is of. And until the next start the
  gRPC server checks against the hash it was started with, so a rotated token is
  refused and the old one accepted (`server.rs:37-39`).
- `SecretsReadable`, `DamagedKeyGuardsNothing`: a power cut soon after the first start
  can take the key of secrets that are already stored (`master_key.rs:43`).
- `ImplementsRoutingTable`: with traefik, of two domains that differ by `.` and `-` only
  one has its route (`traefik.rs:81`).
- `AnswersTrue`: a replica of one deployment hides a deployment whose own name is the
  replica's; both readings of the name are accepted, and so is an index that removals
  have shifted (`record_store.rs:50`).
- `ExitsAgree`: an OOM kill is reported twice, an exit with containerd never, and one
  while the stream is being reopened is lost.

## Proofs

All theorems hold for every value of the constants that satisfies the `ASSUME`s
(thresholds ordered, names comparable, `None` different from everything else).

- **Cluster.** `TypeCorrect` and `NoResurrectionCorrect` are direct.
  `InductiveInvariant` proves `IInv`, from which `UniqueNamesCorrect`,
  `AcceptedOwnsRowCorrect`, `HeartbeatNotOverstatedCorrect`,
  `RemovedWasDrainedCorrect` and `MasterSparedCorrect` follow. The properties
  speak of the table and are not inductive alone, because a task may hold any copy:
  `IInv` says that every copy in flight is `Consistent` with its id (role as
  inserted, name as in the table, no heartbeat more recent than the last received),
  that a copy about to be written says Draining only for a drain, and that a
  remove request implies a drain that took effect. Steps come in three kinds, each with a
  lemma: those that leave the table alone (`TableUnchanged`), those that write a
  consistent copy back (`TableUpdated`), those that insert under a fresh id
  (`RowInserted`).
  `Refinement` shows that `Cluster` implements `Membership`: with `IInv` and the fact that
  only inserted ids were drained (`DrainedWereIssued`), an insert is a Join, a drain that
  finds its row a Drain, a delete that finds its row a Leave, and every other step,
  the write-backs of stale copies included, changes no member.
- **CniNetworks.** `IInv`: `next` is past every octet given out unless it is 0, where
  it stays; what this process has written is what it holds. `NeverReissuedCorrect`
  and `DistinctWithinProcessCorrect` follow, for every `OctetCount`.
- **LogTailer.** `IInv`: what is served, what waits and what the open reader will read
  follow each other in the file; the key step is that the second reader starts at a
  length taken after the first reader's end. `OnlyGapCorrect` adds `GapInv`, one clause
  per phase: the first reader keeps every byte it has read, the history it leaves has
  no hole, and after the stat only what lies between the two readers is missing.
- **ProxyBackend.** `TypeCorrect`, with every entry under the key of its own domain;
  then `Refinement`: initial states and steps map to those of `RoutingTable`, whatever
  domains share a key; the mapping gives every domain the `Rivals` its key makes. That
  nothing is displaced needs the keys to be apart: `AllAppliedCorrect` says that then
  an `apply_routes` answered with success has installed every route it was given.
- **Master.** Three invariants that meet only in `phase`. `StoreInv`: a row agrees with
  what its id was made as, so a write from a copy of any age moves no row to another
  project, and a pod's deployment has a row. `TokenInv`: the token of the stored hash
  was told, is in hand of the start or of a request, or was abandoned (`HashKnown`);
  the hash is stored before the token (`HashFirst`); undisturbed rotations come one by
  one (`OneByOne`); only a running master has a server and requests (`PhaseAgrees`).
  `SecretInv`: the running process has the key in the file, and every blob is sealed
  with it or with a key that a power cut took. The proof needed `None` to be different
  from every blob, which `SecretAssumption` now says.
- **PodAssign.** `RunsWhenAllAnswered` speaks of the end; `IInv` says what holds on the
  way. `Answered`: what runs was started by a call that has answered success, faults or
  not. `NameInv`, for a name without faults: unless its container runs, some call
  `Attends` to it, that is, stands at a step from which it will remove it, wait for its
  end, start it or create one. A call with a fresh start attends to whatever it finds,
  which is why clearing the fault there is sound. The proof goes from a step of one
  call to what it does to its container and from there to the name, so the steps of the
  handler are looked at once, and those of calls for other names change nothing.
- **EventWatcher.** `PipeInv`: what was broadcast and what waits in the stream ascend in
  the order of events. `ToldInv`: while the orchestrator runs, the commands received,
  queued and held are the reported events of the log, none missing, none doubled, in
  order. `ReaderInv`: what a client was shown and what it was warned of add up to its
  place in the log. The properties are stated with `Ascending` and sets of places,
  which say the same as a selection of the log and can be reasoned about.
- **Dns.** `Shape`: nothing in the nested maps is empty and no address is listed twice.
  `Agree`: a name lists exactly what is registered for it. `Asking`: a client that is
  looked up asks for an internal name, one that waits upstream for another.
  `EntriesMatchCorrect` follows from the first two. `AnswersTrueCorrect` is about
  steps: `resolve` may find a store that has changed since the replica was looked for,
  but each half answers from the store as it is then, and the second half says "no
  such name" from the name's own list only. What `Filter` keeps is proved for every
  sequence (`FilterKeeps`): if it failed, it would fail at a least length, since the
  naturals are well-founded (`LeastNumber`); that replaces induction, whose rule the
  provers cannot instantiate.

Only model-checked: the liveness properties (`DeadDetected`, `HeartbeatRestoresReady`,
`FollowerCatchesUp`, `ExitReported`, `ClientCatchesUp`, `CallsAnswered`,
`QueriesServed`), since liveness under fairness and `ENABLED` are beyond the prover.
Every invariant and every safety property of steps that a passing run checks is also
a theorem. No module uses `RECURSIVE`.

## Not modelled

- `nexa-core` (orchestrator, scheduler, domain types) is not in the repository. It
  appears as the receiver of commands, and the pods of a dead node as a call that
  may fail. The master passes the monitor a callback that only logs.
- Text: the configurations' syntax, HTTP bodies, metrics, `ctr` output.
- `stop_pod`, `remove_pod`, `report_status` and the gRPC log stream: stubs that change
  no state.
- ACME and the overlay network: stubs, or not called by the daemon. With issuing a stub
  that always fails, the renewal loop writes nothing.
- The route store: maps in memory behind locks, each operation one step; its callers are
  in `nexa-core`.
- The proxy process: `reload` kills the child and starts another, `health` says whether a
  child is recorded. No document says what they promise when the child dies.
- The scheduler configuration: the handler reads it, changes a weight and writes it back,
  but it lives in `nexa-core`.
- The migrations: the store is modelled after they have run.
- containerd's log directories, which nothing writes to, and its maps of network
  namespaces and addresses, which nothing in this repository reads.
- Runtime detection, command-line parsing, generated protobuf code.
- A truncated conflist is in the model; what a CNI plugin does with it is not.
- A log file that is replaced between `stat` and the second open.

## Plan

1. `reload` and `health` of the proxy process, composed with `ProxyBackend`, and
   overlapping health probes, once `nexa-core` says what it makes of their answers.
2. The abstract side of the DNS store and of the event stream as specifications of
   their own, with the theorems above as the steps of a refinement.
3. The scheduler configuration and the renewal of certificates, when they have state
   in this repository.
