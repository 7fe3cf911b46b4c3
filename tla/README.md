# Overlord Broil: a verification project

Overlord Broil is a master (a Spring Boot service with a web console) that runs
*tasks* - generated shell scripts - on controlled servers through a small agent,
and that also drives forwarding nodes (`go-gost`) over WebSockets. This directory
holds TLA+ models of the parts whose correctness depends on orders of events,
the TLC configurations that check them on small instances, and proofs, checked
by TLAPS, that hold for every instance.

Paths below are relative to the repository; `Impl/` stands for
`springboot-backend/src/main/java/com/admin/service/impl/`, `x/` for `go-gost/x/`.

## 1. Inventory

| Component | State it keeps | Operations | Interacts with | What is hard | What must hold |
|---|---|---|---|---|---|
| Deploy-task engine (`Impl/DeployTaskServiceImpl`) | table `deploy_task`: server, state, script, result | create, create plan, claim, report, update state, retry, delete | agents (HTTP), registry (token), nodes, rules and alerts (on a report) | no transactions; claims compete; calls are repeated, answers lost, reports overtake each other | a task runs at most once, in order, on its own server; a recorded verdict is the script's exit status; nothing waits for ever |
| Controlled agent (`scripts/overlord-agent.sh`) | its loop; the task it executes | heartbeat, claim, report "running", execute, report result; retries with back-off | task engine, registry | one call at a time over a lossy network; crash and restart by systemd/OpenRC | one script at a time, never twice; always back to the poll |
| Server registry and join protocol (`Impl/ControlServerServiceImpl`, `scripts/install-agent.sh`) | table `control_server`: agent token, join token, its expiry and use | create, update, delete, issue join command, join, rotate token, heartbeat | installers, agents, task engine | read a row, write it (or all of it) later; two installers, one token | a token is traded once; a server has one owner; who joined is let in |
| Protocol nodes (`Impl/ProtocolNodeServiceImpl`, `Impl/SnellTemplateServiceImpl`) | table `protocol_node`: state, status, runtime metadata | create, update, delete, restart, sync, apply result, apply failure | task engine, Xray runtime | row and task written by separate statements; late results against console edits | the row ends as its last task ended; a deleted node stays deleted |
| Server forward rules (`Impl/ServerForwardRuleServiceImpl`) | table `server_forward_rule` | create, update, delete, restart, apply result | task engine | as above; failures are not recorded | as above |
| Heartbeat and monitor alerts (`Impl/MonitorAlertServiceImpl`) | table `monitor_alert` | offline scan, raise, acknowledge | registry, task engine | look-up and insert are separate | one open alert per server and kind; a silent server is noticed |
| WebSocket node sessions (`common/utils/WebSocketServer`) | session per node, its status, pending requests | connect, close, send and wait, answer | node reporter, console | a new session replaces an old one whose close event comes later; late answers | a connected node is reachable and shown online; a command is executed once at most |
| Node reporter (`x/socket/websocket_reporter.go`) | connection, flag | connect, report, receive, execute, reconnect | WebSocket sessions, services, objects | the receiver of an old connection survives it and writes the shared flag | it always comes back; flag and connection agree |
| Node services (`x/socket/service.go`, `x/api/config_service.go`, `x/config`, `x/registry`, `program.go`) | running services, configuration, file | create, update, delete, pause, resume, reload, start | reporter, REST interface, listeners | commands of several steps, any of which may fail; two interfaces; crashes | registry, configuration and file agree; nothing runs that cannot be stopped |
| Node configuration objects (`x/api/config_*.go`, `x/socket/chain.go`, `x/config/loader`) | registry and configuration of sixteen kinds | create, update, delete, reload | services | as above, one goroutine per request | what is described is what is used; what is replaced is closed |
| Rule tables (`x/admission`, `x/bypass`, `x/hosts`, `x/ingress`, `x/router`, `x/auth`, `x/hop`) | the table in force | reload from file, redis, HTTP; look up; close | handlers, routes | look-ups during a reload; shared arrays | one table per look-up; the most specific rule; changes arrive |
| Chains and routes (`x/chain`, `x/selector`, `x/hop`) | markers, counters, sessions | select, dial, retry, mark, reset | dialers, rule tables | markers are shared by all dials; routes stored in shared transports | a dial with a working way finds it and stays on its chain |
| Limiters (`x/limiter/conn`, `rate`, `traffic`) | counters, caches of limiters | admit, give back, look up, slow, reload | listeners, handlers, flow accounting | shared counters; add first, compare later; cached limits | never more than the limit; no place lost; no byte lost or reordered; new limits arrive |
| Dialers (`x/dialer/*`) | sessions by address | Dial, Handshake | routes | sessions are shared and made in two calls | no working session closed, none left behind; callers get through again |
| Listeners and accept loop (`x/listener/*`, `x/service`) | queues, error channel | accept, hand over, close | limiters, handlers | queues at their limit; errors that pass and errors that last; close | queued streams are served; a closed listener ends and nothing crashes |
| UDP sessions (`x/internal/net/udp`) | table of sessions | receive, accept, idle check, close | listeners | table operations race | one session per peer; silent ones end |
| Handlers, sniffing, HTTP relays (`x/handler/*`, `x/internal/util/sniffing`, `forwarder`) | one connection | request, authenticate, bypass, dial, reply, sniff, copy | rule tables, routes | bytes peeked at; who speaks first; which address is judged | the stream is kept; answers match; no bypassed destination is dialled |
| Tunnels (`x/handler/tunnel`, `x/connector/tunnel`, `x/sd`) | connector pool, directory | bind, connect, clean up, close | dialers, listeners, directory | bind, close and clean-up race; the directory lags | a live session is found; a dead one leaves |
| Flow accounting and quotas (`controller/FlowController`, `x/service`, `x/observer/stats`) | counters at node and master, status of forwards | count, report, add, check, pause | node services, users | read and reset are separate; a lost answer repeats a report; lost pauses | no byte lost or charged twice; an exhausted quota comes into force |
| Forwards, tunnels, users, speed limits (`Impl/ForwardServiceImpl`, ...) | their tables | CRUD, pause, resume | nodes (commands) | row and node updated separately | row and node agree |
| Configuration clean-up (`common/task/CheckGostConfigAsync`) | none | delete orphans named by a node's report | node services | the report is old when it is compared | no live service is removed |
| Xray runtime proxy, scripts, self-protection, low-memory policy, audit log, settings, captcha, console, installers, rest of the data plane | - | - | - | synchronous proxies, generated text, pure functions, append-only logs, packet formats | not modelled; `PROJECT.json` gives the reason for each |

## 2. Modules

| Module | Models | Checked by |
|---|---|---|
| `TaskDispatch` | what the task engine promises an operator: the abstract specification | refined by `TaskEngine` and `Deployment` |
| `TaskEngine` | task table, handlers, agents, calls between them | `MCTaskEngine`, `MCConsole`, `MCMaster` |
| `AgentJoin` | registry rows, join commands, installers, token rotation | `MCConsole`, `MCAgentJoin` |
| `Deployment`, `ProtocolNodes`, `ForwardRules` | what Snell nodes and forward rules share; what a report does to each | `MCDeployments`, `MCMaster` |
| `NodeServices` | services of a node: registry, configuration, file, listeners | `MCNode`, `MCNodeServices` |
| `NodeObjects` | the objects services refer to | `MCNode` |
| `NodeReporter` | the node's end of the WebSocket | `MCConnections` |
| `NodeLink` | composes `NodeReporter` (by `INSTANCE`) with the master's session handlers and `send_msg` | `MCTunnels` |
| `NodeRules`, `NodeReload` | what rule tables answer; their reload next to look-ups | `MCTraffic` |
| `NodeRoute` | chains, hops, selectors, retries, transports | `MCTraffic` |
| `ConnLimit` | connection limiter, rate limiter | `MCConnections` |
| `TrafficLimit` | traffic limiter, its caches and wrappers | `MCConnections` |
| `DialSession` | dialers and the sessions they keep | `MCConnections` |
| `ListenQueue` | listeners, their queues, the accept loop | `MCConnections` |
| `UdpSession` | sessions of UDP peers | `MCConnections` |
| `ProxyHandler` | one stream through a handler | `MCTraffic` |
| `HttpRelay` | requests on one connection through a relay | `MCTraffic` |
| `TunnelPool` | connectors, clean-up, directory, visitors of one tunnel | `MCTunnels`, `MCTraffic` |
| `FlowCount` | bytes from the counter to the quota | `MCTraffic` |
| `...Proofs` | theorems of `TaskEngine`, `AgentJoin`, `Deployment`, `ProtocolNodes`, `ForwardRules`, `NodeServices`; of `TunnelPool` and `NodeLink` (`TunnelsProofs`); of `ConnLimit`, `TrafficLimit`, `DialSession`, `UdpSession`, `ListenQueue`, `NodeReporter` (`ConnectionsProofs`); of `FlowCount`, `NodeRules`, `NodeReload`, `ProxyHandler`, `HttpRelay` (`TrafficProofs`) and of `NodeRoute` (`RoutesProofs`) | TLAPS |

`TaskEngine` and `AgentJoin` meet in the agent token. `TaskEngine`
keeps only whether an agent's token is the one in its server's row (`trusted`);
`AgentJoin` shows how it gets there and that it is there (`JoinedIsLetIn`), and
that two machines do not get the same (`OneOwner`). `TaskEngine` nevertheless
checks two agents of one server, because a machine restored from an image has a
copy of the credential. `TaskEngine` and `Deployment` meet in the task table:
the first shows how a task gets to an agent; in the second a claim is one step of
the one agent of the server. Both keep `TaskDispatch!Safe`, so what `Deployment`
leaves out of the claim is nothing that contract lets a reader see.

*Parts.* Modules that share no state at their level of detail are checked in one
run without multiplying their state spaces: an MC module declares the variables of
all of them and a variable `part`, which Init chooses and no step changes; only the
actions of the chosen part are taken, and of the others one initial state is kept. An
invariant of part `p` is stated as `part = "p" => ...`. Because `part` is rigid, weak
fairness of `(A in part p) \/ (B in part q)` is weak fairness of `A` in the behaviours of
`p` and of `B` in those of `q`, and `[]<>(p => P /\ q => Q)` says `[]<>P` of the first
and `[]<>Q` of the second. `MCFairness` of each MC module pairs the fairness conditions
that the modules state in their own `Fairness`.

### TaskEngine

*State.* `state[t]` and `server[t]` are the columns of row `t` ("absent" before
the insert and after the delete); `lastId` is the auto-increment counter.
`conn[c]` is an HTTP call the master has open: the operation, how far its handler
got, the caller, the task and the state it carries. `pc`, `held`, `wait`,
`attempt` and `verdict` are the agent's loop. `claims`, `runs`, `outcome` and
`lastRun` are history that no guard reads.

*Granularity.* A handler is one action per database access that others can
observe. `claimAgentTask` is `ClaimSelect` (authenticate, `SELECT ... LIMIT 1`)
and `MarkTaskClaimed` (the conditional `UPDATE`), repeated up to `ClaimTries`
times (3 in the code); the token is read in the step of the first `SELECT`.
`reportAgentTask` is `ReportRead` and `ReportWrite`; `retryTask` is `RetryRead`
and `RetrySave`. `updateTaskState` and `deleteTask` read a row only to refuse an
id that does not exist, and the statement that follows changes nothing when the
row is gone, so each is one action. A request that validation refuses writes
nothing and is not a step.

*The agent.* One call at a time (`Post`, `Receive`), repeated while `curl` fails
(`AttemptFails`, `OB_HTTP_RETRIES`). A failed attempt may never have reached
the master, may have been answered, or may still be handled - then it runs next
to its repetition, on its own connection. The report "running" may fail; the
script runs nevertheless (`run_task` goes on). The final report counts as
delivered whatever the master answers, because `R.err` is HTTP 200. A crash
kills the script with the agent; the supervisor starts the agent again, which
remembers nothing.

*The console.* `ConsoleOps` says which operations of the service are used.
`updateTaskState`, `retryTask` and `deleteTask` have no route in
`DeployTaskController` at this commit, although README.md:83 lists manual state
changes, retry and delete among what the console audits; the models run with and
without them. `rotate` stands for the rotation of a token or the deletion of a
server.

*Abstracted.* Scripts, results and names; what a report does to nodes, rules,
alerts and server metadata after the row is written (for nodes and rules see `Deployment`); a claim answer that carries no script (every created task has one);
the heartbeat.

### AgentJoin

*State.* `rows`, `apiToken`, `joinToken`, `usedAt` are the rows and columns of
`control_server`; tokens are numbers in the order they were generated, 0 is
`NULL`. `horizon` is time: commands up to it are older than 24 hours. `req[c]` is
a request being handled, `credential[m]` the environment file of machine `m`.

*Granularity.* `joinAgent` is `JoinFind` (read every row, decide) and
`JoinConsume` or `JoinTooLate` (the conditional `UPDATE`); `rotateServerToken`
is `RotateRead` and `RotateWrite`. `getServerInstallCommand` reads the row only
to refuse an unknown id. Two facts of the code decide much: `updateById`
skips fields that are null, so `setJoinTokenUsedAt(null)` changes nothing and a
rotation that read a null join token leaves the column alone; and the rotation
writes back every other column it read.

*Abstracted.* The columns no join reads (host, versions, Xray settings - hence
`updateServer` is not an action); the encryption of tokens at rest, which maps
equal tokens to equal columns within one row; the master URL.

### Deployment, ProtocolNodes, ForwardRules

*State.* `row[n]` has the columns of a node or rule that the properties need:
`state`, `status` (`live`: listed or hidden) and `port`, which stands for
everything a request may change and a script deploys. `req[h]` is a request being
handled, with the entity it read; `rep[c]` a report, with the entity the service
read for it. `task`, `lastTask` are `deploy_task`; `pc`, `held`, `wait` the
agent's loop. `config[n]` is the port in the files of the service on the server
and `outcome[t]` how a script ended; no guard of the master reads them.

*Granularity.* Each access to the database is a step: create is `CreateRow`
(`save`), `WriteRow` (`updateById`), `CreateTask` (`insert`); update and delete
read the row in their first step and write all of it in `WriteRow`; restart
inserts the task first (`RestartRow`, `CreateTask`, `WriteRow`). A report is
`ReportWrite` (the task's row), `ReadRow` (`getById`), `ApplyReport`
(`saveOrUpdate`). A restart of the master drops whatever is between two steps.

*The merge.* For a node, a report "succeeded" copies what the script printed - the
port and "active" or "deleted" - over the row as it was read; every other report,
"running" included, is a failure. A Snell script prints a state other than
"deleted" only after it found the service active (`assert_service_active`). For a
rule, a report that is not a success changes nothing, and a success changes state
and status only; its script does not insist, so "inactive" stands for everything
the service manager may say of a unit that is not active.

*The script.* It succeeds and leaves the files it was written for, or it fails or is
killed and leaves the old files or the new (`PartlyInstalled`). A restart of a
service that is not installed fails. `MayFail` says whether others may.

*Abstracted.* The Xray branch of the node's methods, `syncNodes` and the inbounds
of deployment plans (a synchronous call and one write of another kind of row);
the validation of requests; `lastError`, which is never cleared because null
columns are skipped; the look-up by service name, since a script always prints
the id of its row. `action` of an update is always "present": the console sends
no other. Tasks are not deleted or retried here; no route of the console does.

### NodeServices and NodeObjects

*State.* `registry` is the process-wide map from names to objects, `config` the list
the process would save, `file` the saved one (`Torn` while it is being written). A
service in memory is a number with the address it is bound to (`bound`); `serving`
are those that accept. `job[e]` is the command executor `e` is at, with its items and
the step it has reached. *Granularity.* A command is the sequence of the code's calls -
parse, bind, close, unregister, register, change the configuration, save - so that two
executors, the master's connection and a REST request, meet between any two of them. A
parse fails when the address is in use, or for a reason of its own (`MaxFaults`). SIGHUP
loads the file; a crash or stop starts the process from it.

Whatever overlaps is marked in `overlap`: there is no lock around a command, so that
two commands for one name may leave a service that nobody can name. The properties
speak of commands that do not overlap, and still of every failure, crash and reload
between steps. `NodeObjects` has the sixteen kinds of objects in the order in which
`loader.register` replaces them; each kind differs in its checks and in what it
closes, and an object keeps its reload loop (`running`) until it is closed. A chain that is
described with hops of its own keeps their loops and has no `Close`: nothing ends them, and
`NothingLeaks` speaks of objects that can be closed (`Closing`). A reload that
ends at the first error leaves kinds half replaced (`aborted`), and is excluded too.

### NodeReporter and NodeLink

The node's run loop and one receiver per connection share `conn` and `connected`; the
receiver of an old connection may clear the flag of the new one, which then is closed
and dialled again (`EverybodyIsServed`). On the master's side `est` and `clo`
are the steps of `afterConnectionEstablished` and `afterConnectionClosed` of each session:
each looks up, replaces, closes the old session or removes, and writes the status, in statements
of their own. `send_msg` is three steps before the write: it takes the session (`SendGet`), asks
whether it is open (`SendCheck`), and if not removes the node's entry (`SendDrop`). Four places
remove or replace by the node's id what they did not look at: the establishing handler when it
puts its session over one that came after its `get`, or when the node's row is missing or
the database fails; the closing handler between the comparison and the removal; `send_msg`
after `isOpen`. Each of them can lose a session that has just registered. `upset` is set when one does,
or when a status is written over a newer session, or not written, and `LinkIsRight` excludes just
these histories. `send_msg` waits; its time-out does not stop the command (`ExecutedOnce`, which
has no exclusion).

### NodeRules, NodeReload, NodeRoute

`NodeRules` has only operators: what each kind of table is made from and what it
answers. `MCTraffic` compares them with reference definitions over all lists of up to
two configured and two loaded rules (`AnswersFollowRules`, `PatternsMatch`,
`GroupsAnswer`, which TLC evaluates as assumptions), and `MostSpecificWins` compares the
look-up of hosts and ingress rules, which walks from the name upwards, with the most
specific rule that covers it. `NodeReload` interleaves reading the sources, appending
and installing with look-ups, which lock in three ways. A matcher and the users of an
authenticator hold the lock for the whole look-up (`LookupMap`). Hosts and ingress rules take and
release it for every name they try (`LookupHost`, `LookupName`), so a reload may come between two
names and the answer may be that of neither table. A list is copied by reference under the lock and
walked without (`LookupList`, `LookupNext`); `room` is what its array has left behind the
configured rules, where `append` writes while look-ups read. A look-up that this happens to is
`torn`. `OneTable` says what each can rely on: all of one table; one table unless torn; and, name by
name, that a name is passed over only if some table of that time lacked it, and the value is one
that some table had (`HostAnswer`).

`NodeRoute` has the dials of several goroutines: choice of chain and of a node per hop,
fail and backup filters, the strategies, the markers that dials share, retries, and for
transports that multiplex the session and the route they remember. A route is a sequence of
legs, a node for a hop of a chain. Where a node multiplexes, the route up to it goes into its
transport, which all dials share because `Transport.Copy` returns the transport itself; dialling
it is a dial of its own inside the other (`Transport` puts the remembered legs in front).
When that inner dial fails, `connect` marks its node and its chain, and then the outer
`connect`, for which the transport has failed, marks the node that multiplexes and its chain too,
and so on outwards (`GiveUp`, `Outer`, the step "unwind"). So both nodes of a hop can be dead
together although they are up, the filter returns none, and `Chain.Route` ends the
route there.

`good` marks a dial that began with a working way: every hop offers a node that is up and not
thought dead, the nodes that are down are fewer than the tries, no dial under way is on a path through
a node that is down, and, for a chain in which a node behind the first hop multiplexes
(`Nested`), no node is down and no dial is marking outwards. The last condition is what the
marks above cost; `RetriesFindTheWay` and `StaysOnChain` speak of `good` dials. Chains
may share a node that multiplexes; then a dial may be led over the other chain's nodes (`Shared`), which
`StaysOnChain` says and limits: it passes one node of each hop, and ends at its own. The overlay is a record
(`IsNetwork` says of what) chosen at the start; a node that multiplexes is at one distance in all its chains,
because otherwise the remembered route could lead in a circle. Candidates are positions in a list,
as a filter keeps the order. Round-robin counters are kept modulo `Turns`, a multiple of the length
of every list. The lock with which a dialer that multiplexes keeps others waiting is left out: dials
meet in more orders here.

### ConnLimit and TrafficLimit

A limiter turns a host into a group of counters (all, per host, per network). `Allow`
adds to one counter, compares, and takes back; the group goes on or gives back what it
took, so that two connections overlap half-way. `users` are the services that share a
limiter: their wrappers keep limiters by host each by themselves. `twice` are the
connections that are closed twice and give back twice. With two services a place
can be lost, which `NothingIsLost` therefore does not claim; `LimitHolds` does not
need the exclusion.

`TrafficLimit` has the generators, caches and wrappers: a look-up uses what is cached
until it expires, and stores it again when it finds it; a reload changes tables and cached limiters one after the other. A
reload sets the limiters of open connections to the value of the old table, so
`EverythingSettles` speaks of limits of services and hosts only. A limited read returns what
the bucket allows and keeps the rest in a buffer that a connection without limiter
does not look at; `NothingIsLost` excludes limits of single connections that come or go.

### DialSession, ListenQueue, UdpSession

The dialers of the code follow four styles - a connection per call, a session made in
one call or in two, a client of an HTTP library - and differ by a few flags, so a
kind is a record and `DialSession` is written once. Two callers go through `Dial` and
`Handshake` while connections break and the peer goes and returns. In the same way a
kind of listener is a record: how it gets streams, what it queues, what it does
when the queue is full, what `Close` tells the accept loop. `ListenQueue` composes it
with `Service.Serve`. An error of a socket that passes is retried, but for the listeners whose own
loop it ends; one that does not pass ends the accept loop too, and nobody closes the listener (`lost`). `wt`, `h2` and `http3` listeners end differently (finding
by inspection: the `nil` error of an `h2` listener makes the accept loop use a
connection that is not there); the properties name them by their flags.
`UdpSession` has the receive loop, which any error of the socket ends, the sessions' queues, and the idle check, which deletes
the entry of an address although a new session may be there: `stray` sessions
are excluded from `OneSession` and `SilentIsClosed`.

### ProxyHandler, HttpRelay, TunnelPool, FlowCount

`ProxyHandler` carries a talk, a script of who speaks when, through a handler. A kind
of handler is a record of when it asks, judges, sniffs and replies, and whether it hands its log to
the sniffer. What a client begins with is HTTP, the preface of HTTP/2 (`h2c`, which the sniffer
takes for HTTP), TLS, or anything else. Four weaknesses are in the model and named by the properties:

- *HTTP/2.* What is asked over HTTP/2 is dialled without a look at the bypass (`serveH2`), and
  refused request by request while the connection stays. `BypassedIsNotDialled` excludes just this dial
  (`Judged`).
- *The local forwarder* calls the sniffer without `WithLog`; the first HTTP request, or the first
  hello a node takes, is a call on a nil log, and nobody recovers: the process ends ("crashed",
  `Unlogged`). `Plays` leaves these talks out of what ends well; `TalkIsKept` holds up to the crash.
- *The reader left behind.* `sshd` goes on with the bare connection when the sniffer finds neither
  HTTP nor TLS: what was peeked at is missing. `Forgotten` are these bytes; `TalkIsKept` says that only they are
  missing, and that what comes is otherwise in order.
- *Half-closed streams* end with the first direction that ends; `TalkOver` says of them that they
  end, not that all was said.

A talk in which both sides wait for each other (a server that speaks first, sniffed without a
timeout) never ends; `Plays` excludes it. The obstacle "nohost" stands both for a name that
cannot be dialled and for none being named.

`HttpRelay` sends requests through five relays; those that make a new reader per round trip drop
what the server sent behind its response. `lost` counts these frames, and `AnswersMatch` says that what
a client gets goes on after exactly that many, and that the relays with a reader of their own lose none.

`TunnelPool` follows binds (`phase`), the goroutine that waits for the end of a session
(`watch`), the two clean-ups, the directory `sd`, and visitors that try connectors of
their node and then the node the directory names. `entry` are the nodes that announce an address.
The directory may fail, or there is none; the first service that matches counts even if it has no
address; the connection to the other node may fail: each `misled` the visitor. A withdrawal may be refused,
and the handler does not look ("kept"). `near` says that a connector of the visitor's own node
fitted when it came: then the directory does not matter.

`FlowCount` follows a byte from
the counter of a service (`Add`), through the report (read, post, subtract by a second
read) to the user's total and the pause. `debt` is history: bytes carried that are neither
charged nor in the counter any more. `failed` and `raced` mark what the code cannot repair: a request whose answer is
lost is repeated with its bytes, and a write that overtakes the subtraction is forgotten.

## 3. Properties and runs

| Run | Instance | Shows |
|---|---|---|
| `tasks` (`MCTaskEngine`) | 2 agents of 1 server, 2 tasks, 2 connections, 2 attempts, 2 claim rounds, 1 fault, 1 crash; console retries, deletes, rotates | `RunsAtMostOnce`, `QueuedIsUntouched`, `TruthfulVerdict`, `VerdictIsFinal`, refinement `DispatchSafe` |
| `console` (`MCConsole`) | join: 2 servers, 2 machines, 2 requests, 2 commands, 3 agent tokens; tasks: 2 servers with an agent each, every operation of the service | `SingleUse`, `OneOwner`, `JoinedIsLetIn`, `DispatchSafe` |
| `deployments` (`MCDeployments`) | 1 node or rule, 1 port, 2 requests, 2 reports, 3 tasks, 1 fault or 1 crash, every operation | `RowIsFounded`, `SuccessIsShown`, refinement `DispatchSafe` |
| `master` (`MCMaster`) | engine: 1 agent, 2 tasks, 1 fault, 1 crash; nodes: 2 ports, 2 requests, 3 tasks, scripts may fail, no fault or restart; fairness | refinement `DispatchSpec`, `AgentComesRound`, `UndisturbedIsReported`, `NodeIsSettled`, `PendingSettles` |
| `node` (`MCNode`) | 2 services, 2 addresses, 3 commands of up to 2 items, 1 parse failure, 1 crash; 2 kinds of objects | `Stoppable`, `ConfigMatchesRegistry`, `FileIsConfig`, `PausedIsClosed`, `ObjectsAreInUse` |
| `tunnels` (`MCTunnels`) | 3 nodes, with and without an entry point at the first, 2 connectors, 1 visitor, 2 tries; 2 connections to the master, 1 command, 1 loss | `LinkIsRight`, `LiveIsReachable`, `VisitorsGetThrough` |
| `connections` (`MCConnections`) | 2 services, 3 connections, 2 hosts, limits of all, of each, of one network; 10 set-ups of traffic limits; 10 kinds of dialers, 2 callers; 13 kinds of listeners, 3 streams, backlog 1; 1 UDP peer, 3 sessions; fairness | `LimitHolds`, `NothingIsLost`, `SessionsAreRight`, `EverybodyIsServed`, `EverythingSettles` |
| `traffic` (`MCTraffic`) | 2 services of 1 user, quota 2; 7 kinds of tables, 2 sources; lists with and without room; 4 overlays: a chain of 2 hops with 2 nodes each, the same with a node that multiplexes in each hop, 2 chains that share one, a group of 2 chains; 2 dials; 11 handlers, talks that either side begins; 5 relays, servers that may speak early; 1 tunnel; fairness | `BilledOnce`, `MasterIsObeyed`, `ChangesAreWhole`, `RoutesAreRight`, `TalkIsKept`, `EverybodyGetsThrough` |
| `lost_claim` (`MCTaskEngine`) | 1 agent, 1 task, 1 fault | violation: a lost claim answer leaves the task claimed for ever |
| `join_again`, `join_rotation` (`MCAgentJoin`) | 1 server, 1 machine | violations: a second join command is refused; a join undoes a rotation |
| `rest_pause` (`MCNodeServices`) | 1 service, 1 address, 1 REST request at a time | violation: a service paused over REST goes on listening |

The runs of the node check a type invariant of their modules (`TypesOK` takes that of each
part); all but those of `NodeServices` and `NodeObjects` in `MCNode` are proved too, as are those of `TaskEngine`, `AgentJoin` and `Deployment`. The safety of the engine in words: a task is handed out once and run once; a task in
the queue has left no trace elsewhere; with agents as the only reporters a final
state is the exit status of the one run, a retry concerns a task that ran and
failed, and as long as nothing is lost and nobody crashes a verdict once recorded stays; seen from outside, the queue of each
server is a queue (`TaskDispatch`).

The deployed services: a row tells of nothing that no script did, whatever is lost,
late, overwritten or restarted (`RowIsFounded`); as long as nothing was lost and nothing
restarted (`Undisturbed`), a node that nothing is under way for says how its last task
ended and agrees with the files on the server, although requests overlap each other and
older reports (`NodeIsSettled`: `RowIsSettled` and `RowMatchesServer` of `ProtocolNodes`),
and no node stays pending (`PendingSettles`). Restarts are excluded from these because they do not hold
with them: `restartNode` writes "pending" after its task is inserted, so a fast agent's
result is overwritten, and the report of a restart carries the port its script was written
with. For a rule the settling is weaker: a failure is not recorded, and a report writes
back the port it read, so an edit stored in between is lost from the row although its
script deploys it; `SuccessIsShown`, which nodes keep too, speaks of
state and status after a task that succeeded.

The node: as long as commands do not overlap, a listener that accepts belongs to a
registered service, also half-way through a command and after failures (`Stoppable`);
between commands every registered service has its entry in the configuration
(`ConfigMatchesRegistry`) and the file is the configuration, so that a crash loses nothing
(`FileIsConfig`), a service the master paused is closed and one it resumed is not
(`PausedIsClosed`), and the objects described are those in use (`ObjectsAreInUse`). Of tunnels, a live
session can be found (`LiveIsReachable`), and a visitor fails only if nobody was there for him, a session was lost while
he dialled, or none fitted at his own node and the directory, or the way to the node it named,
failed him (`VisitorsGetThrough`). The
other properties are conjunctions over parts; the comment before each names
the property of the module it takes.

*Exclusions.* A property that does not hold in some histories names them with a history
variable or a flag and holds in all others: `overlap`, `aborted`, `rest`,
`loaded` (services, objects), `upset` (link), `twice`, two services of one limiter,
`toggled` (limits), `refused` (dialers), `lost` and the kinds of listeners,
`stray` (UDP), `misled` without `near` (a visitor whom the directory did not help), entries that
are "kept" and binds that come "late" (tunnels), `torn` (lists), `Nested`, `Shared` (routes), `failed`, `raced`
(counts), `Forgotten`, `Judged`, `Plays` (handlers). The look-ups of hosts and the frames a relay
drops are not excluded: their properties say what is left (`HostAnswer`, `lost`). Each is a
weakness of the code the reader should know of; only those that contradict a
document are listed in section 4.

*Bounds.* Two agents, two tasks and two connections let a call overlap its own
repetition and another agent's call, and let two claims choose the same row; two
claim rounds let the loser of that race go on to the next row; one fault is a
lost request, a lost answer or a late one, and combined with one crash it covers
the recovery paths; in `deployments`
either of the two happens to a row. Two commands and three agent tokens let a rotation overlap a join and another
command. Three tasks let a row be created, changed and deleted, and let two requests
overlap while the report of a third is merged. Rows do not interact but through
the queue, so one row is enough. On the node, two services compete for one
address and swap two; three commands let one fail between two others; two connections
to the master let the old one outlive the new. Three connections with limits of
one and two let two race for the last place while a third holds one; a backlog of
one is full with two streams under way. Two dials and two nodes per hop let one dial spend
another's markers. One request that fails in `FlowCount` is a lost post, a lost answer or
a lost pause. Bounds are named constants and appear in guards; the state constraints
`OneMishap` (a row's history has a loss or a crash, not both), `OverlapBound` (commands
overlap among the first two) and `ReloadBound` (limits are reloaded under one service and two
connections at a time) cut off the rest, in runs whose liveness properties are about other
parts.

Some branches of the node need three overlapping commands and are beyond the bounds of
`node`: the roll-back of a pause that finds its service gone (`UndoPause`), a file torn by
a second writer (`SaveWrite`), and a reload that meets a name registered meanwhile
(`ReloadService`).

*Deadlock* is checked in the runs of `TaskEngine` and `AgentJoin`. The others stop when
their bounds are used up, or end (a closed listener), so it is not checked there; the
liveness properties show that they stop where they should.

*Symmetry* is used for connections (`tasks`), servers, machines and connections
(`console`), and requests and connections (`deployments`): runs without liveness properties.

*Fairness.* Of the master: weak fairness of every handler (its thread returns), and of
noticing a reset connection. Of the agent: its loop (`curl` and the script run under
a time limit, `OB_HTTP_MAX_TIME` and `OB_TASK_TIMEOUT_SECONDS`; systemd has
`Restart=always`). Of a node: goroutines that can run do, tickers tick, and a `select`
between two channels that stay ready takes each in its turn, which Go's random choice
does with probability one - hence strong fairness of `TakeStream` and `TakeError`
(`ListenQueue`) and of `Stop` (`NodeReload`). In `DialSession` the peer comes back and
callers call again; without that nobody is entitled to anything. In `ProxyHandler` and
`HttpRelay` the two sides say what their script has. Nothing is assumed of the
console, of faults, of visitors who begin, or of traffic.

## 4. What the code does not keep

Four disagreements between the code and what its documents or messages say,
each with a run that ends in a counterexample:

1. *A lost claim strands its task.* The row is marked claimed before the answer
   is delivered. When the answer is lost, the repeated claim finds generated rows
   only; the task stays "claimed", and `retryTask` accepts failed and timeout
   rows only. README.md:172 says the agent claims tasks, executes them and
   reports results back.
2. *A server can be joined once.* `getServerInstallCommand` means to clear
   `join_token_used_at` and does not; after the first join every later command is
   refused, although the answer of a rotation says to create one when the agent
   must be reinstalled.
3. *A join undoes an overlapping rotation.* `joinAgent` writes back the agent
   token it read, and its `UPDATE` does not ask whether it is still the same.
4. *A service paused over the REST interface goes on listening.* The documentation of
   `POST /config/services/{service}/pause` (`x/api/config_service.go:518`) says "the service
   will be stopped but configuration remains". The handler cuts the connections of the
   moment and marks the configuration; the listener accepts the next one. A pause that the
   master sends over the WebSocket does close the listener.

Proving `AgentJoin` showed that fact 2 is what the rest leans on: `SingleUse` and
`OneOwner` hold because `join_token_used_at` is never cleared. The mutant
`InstallCommand_Clears`, which clears it as the code intends, breaks `OneOwner`:
the correction needs a decision about the credential of the previous machine.

## 5. Proofs

The theorems hold for all values of the constants that satisfy the named assumption of
their module (`EngineAssumption`, `JoinAssumption`, `DeploymentAssumption`,
`ServicesAssumption`, `LimitAssumption`, `FlowAssumption`, `TunnelAssumption`, and, where parts run
side by side, `LinkAssumption` of `MCTunnels`, `PartsAssumption` of `MCConnections` and
`TrafficAssumption` of `MCTraffic`, which are the assumptions of the parts), with nothing else
assumed. They say what the code has by itself:
names of limits differ from hosts, sets of services and connections are finite, a traffic
limiter has room for two limiter objects, `Unlimited` is more than there are bytes. One condition
is a limit of scope, not a fact of the code, and the results about routes hold within it only: a node that
multiplexes is at the same distance in all chains it belongs to (`IsNetwork`). Handlers, talks and relays are
not limited: `HandlerAssumption` and `RelayAssumption` say what a case is. TLC evaluates each
assumption in every run of its module.

`RunsAtMostOnce` and `QueuedIsUntouched` are not inductive. `EngineInv` adds:
`TableInv` (rows beyond the counter were never used, rows below it have a
server), `CallInv` (what a call can look like), `AgentInv` (the agent's step, the
task it holds and the call it waits for agree) and `CustodyInv`, the heart of it:
a task that was handed out is in exactly one place - an unread claim answer or
the hands of one agent - and has not run before it gets there. One lemma per
action, one step per conjunct. `EngineInvariant` is `Safe => []EngineInv`;
`TypeCorrect`, `AtMostOnce` and `QueuedUntouched` follow. The proof does not use
the agent's retry limit, the number of claim rounds or the fault budget, so the
results do not depend on them.

What the states mean takes three more invariants, each proved on top of `EngineInv`.
`TruthInv` adds to `TruthfulVerdict` that a report under way and the agent that makes it
carry the exit status of the task they name, and that a script that has not run has none:
`VerdictsAreTrue`. `PatienceInv` says what an agent's waiting buys as long as nothing is lost
and nobody crashes: at most one report is under way per agent, of the task it holds, and
"running" is written before the script has ended. Neither handler nor table prevents a late
report from overwriting a verdict; only this does, so `VerdictsAreFinal` holds only with the
guard `faults' = 0 /\ crashes' = 0`. `OrderInv` orders the tasks: what has left the queue of a
server is older than what waits there, a chosen row is the oldest, and what an agent is handed is
younger than what it ran. From it, each step of the engine is a step of `TaskDispatch` or
leaves its variables alone (`StepDispatches`), which is `EngineDispatches`.

`JoinInv` adds `IssueInv` (a token belongs to the server it was issued for, in its
row and in every request that carries it) and `OwnerInv` (who holds a credential
of a server, or has traded its token, has set `join_token_used_at`, and nothing
clears it). `JoinInvariant` is `Spec => []JoinInv`; `JoinTypeCorrect`,
`TokenSingleUse`, `ServerOneOwner` and `JoinLetsIn` follow.

`RowIsFounded` is not inductive: a row is written from copies that requests and
reports carry, and a report is believed. `FoundedInv` adds that the copies are
founded too (`CopiesAreFounded`) and, in `DeploymentInv`, that a report handled by
the master names a task that was claimed and, if final, how its script ended; that
the agent's task has no outcome before its script ends; that requests and tasks
belong to rows that exist. The argument has two halves. `Keeps`, proved for every
step: what a task was for, that it left the queue and how its script ended is
never forgotten, so what is founded stays founded (`StaysFounded`). And what a
step writes is founded when it writes it: a copy of a row, or the merge of a report
whose task is the evidence (`MergedIsFounded`, proved for each service). The shared
steps are proved once; `NodesInvariant` and
`RulesInvariant` add the reports (all in `DeployedRowsProofs`), and `NodesTypes`,
`NodeRowsAreFounded` and `RulesAreFounded` follow. Nothing bounds overlap, loss or crashes.

That a row ends as its last task ended (`NodeIsSettled`, `SuccessIsShown`) is what an
operator relies on, and four facts of different parts together make it true. `SharedInv`
states them: tasks are claimed oldest first (`QueueInv`); a result in the table is how the
script ended (`ResultInv`); undisturbed, the agent waits for its report, so nothing else writes the
row of its task meanwhile (`PatienceInv`); the files are those of the last script that
ended, if it went through (`FilesInv`); and a request that wrote a row has a task to show for
it (`TaskedInv`). A row is at rest when no request has it, its newest task is final and no report
of that task is being handled. `ToldInv` (`RuleTold` for rules) says that a row at rest
reads as that task. It is inductive because a row can come to rest in one step only, the
answer to the final report of its newest task, and leaves that state by any other write
(`LeavesRest`). `NodesSettle`, `NodesShow` and `RulesSettle` follow, for any number of rows,
overlapping requests and tasks, as long as nothing was lost and nothing restarted.
`NodesDispatch` and `RulesDispatch` prove from `QueueInv` that the simplified task table and
agent of `Deployment` keep `TaskDispatch!Safe`, as `TaskEngine` does (`EngineDispatches`):
what the second model takes for granted of tasks is what the first provides.

The rest is about the node: its services, its connections and its link to the master.

The properties of `NodeServices` speak of the time between commands, and a command takes a
phase per service of its batch, so the work is to say what holds in every phase. `TypeInv` is
the types and `JobInv`: at which steps an operation can be, and what it has recorded when it is
there. `Alone` says what "one at a time" buys (`overlap` is set when a command begins while
another is under way): at most one job is not idle, and `Still` that nothing moves while the node is
down. On these rest three invariants. `ServeInv` (`ServingIsStoppable`): what serves is
registered (`Owned`), which survives a deletion from the registry because `Unregister` closes
the service before it forgets it (`Unloaded`). `SaveInv` (`FileIsSaved`): configuration and
file differ only while a command of the master is under way, and no other job is (`Quiet`);
once its save has truncated the file, it is the writer's to complete. `MatchInv`
(`RegistryIsConfigured`) is the books of a command: `Books(New, Old)` says that the names
`New` are registered but not yet configured, the names `Old` are configured but no longer
registered, and all others are both or neither. A create registers all before it configures any,
a delete takes all off the registry before it cleans the configuration, an update or a resume
takes one service off and puts it back, and each phase has its own `New` and `Old`; a reload
empties the registry and fills it entry by entry (`Loading`). That a batch
names a service once is established by the registry itself (`Distinct`). The theorems hold for any names and addresses, batches of any length, repeated
names, failures and crashes at every step.

`RunInv` is about what runs rather than what is written: between commands
every registered service is `Right` - bound to its configured address and served, or paused
and shut - and no two names have the same service (`Unshared`). `Going` says it half-way through a
command: the services the phase has dealt with are as the command leaves them (`Handled`,
`As`), the others still `Right`. A pause or a resume may name a service twice; the last of its places
counts (`Seen`). What a job holds is what the registry has for its names or what it is yet to register
(`Lent`), bound to the address it was asked for (`Opened`). A pause or a resume goes by the entries of the
configuration, which must still be there when it marks them (`Asked`). That needs the
books of `MatchInv` and, from `SaveInv`, that no other job is under way (`Quiet`).
`PausedServicesAreClosed` covers what the property covers: commands of the master, one at a time
and none failed, on a node whose services do not come from the file. Loading the file starts
paused services too, and a pause over REST shuts none (fact 4 above), so no stronger statement is true.

`ConnectionsProofs` has an invariant for each part of `MCConnections`. As a step of one part
leaves the variables of the others alone (`PartsStep`), their conjunction `PartsInv` is an
invariant of the whole, and `SessionsStayRight`, `NothingGetsLost` and `PartsKeepTypes` state just what
the run checks. Each part also has a theorem about its own specification.

*Connection limiters.* `LimitInv`: for every
counter, its value covers all connections charged to it - those that hold a place, those
half-way through their group and those half-way through giving back (`AllWithin`, `Orders`) -
as long as no connection is closed twice. `LimitHolds` alone says nothing of the connections
between `add` and the comparison, which is why it is not inductive. The proof counts with
cardinalities and needs, of the constants, that the names of the global, per-host and
network limits differ from hosts (`LimitAssumption`). It covers reloads and any number of
services that share a limiter, which TLC checks only for two. `PlacesComeBack` is the other
direction, and only true of a limiter that one service uses: another service can push a counter over its
limit for a moment, and a release that meets it there stops early. `SingleInv` says why one service
cannot: it accepts one connection at a time (`AcceptedInv`), so a counter is over its limit by one at
most, and only while that connection is being refused (`Room`); then no release stops early and each
counter shows exactly what is charged to it (`Exact`). `NoPlaceIsLost` follows.

*Traffic limiters.* `BytesInOrder` speaks of what a connection has handed on. `InOrderInv` adds
what it holds back: the bytes that follow, so that both together are what was taken from the socket. A read
looks for what is held back only if there is a limit at that moment, so the order rests on
`HeldInv`: whoever holds bytes back still has a limit when it reads next. That is where reloads could
hurt, and `LimitsInv` says why they do not. Of the local limiter, every limiter object that
somebody uses, looks up or has stored has a limit other than 0 (`Zeros`): a reload sets objects to new
limits but drops them when the limit goes; the one step that sets the objects of
connections to an old limit finds one that is not 0, because the premise of the property (`Steady`) says
that the limit of single connections neither appears nor goes. Of a plugin, an object has limit 0
just when the plugin says so, and by the premise that does not change. The proof covers
any number of connections, limiters and changes, all setups and sources.

*Dialers.* `WorkingIsKept` is about one step and `NothingIsLeft` about the end. `LockInv` says what a
call relies on between two steps in the dialer's lock: there is no session while it dials, the
session has no other connection while it shakes hands, and the session is on its connection when it
opens a stream. `StyleInv` says which fields of a session each style of dialer uses. `OwnerInv` names,
for each connection that is open, who will close it or use it: the session, or the
call that made it, until it hands it over. From these, a call that closes a connection closes one that
no other call shares.

*UDP sessions.* `LoopInv`: the listener makes a session only when its peer has none that is
open, and nothing opens one before it is in the pool. `PlaceInv`: an open session is in the pool under its
peer, or is in the hands of the loop that is about to put it there, or of the idle check that is about to
close it (`Placed`). So a second session of a peer can exist only while the first is being
closed, which is `OneSession`.

*Accept loops.* `ToldInv`: an error that says "closed" comes from a listener that was
closed, or whose loop has met an error and ended (`lost`); only a listener that ends its loop that way tells the accept loop `nil`.

*The reporter.* `FlagHasConnection` needs that a receiver that reads has a connection and one
that answers a command (`ReceiverInv`).

`TrafficProofs` and `RoutesProofs` do the same for `MCTraffic`: an invariant for each part, `PartsInv` for all of them
(`PartsStep`), a theorem for each part's own specification, and `TablesChangeAsAWhole`, `RoutesLeadOn`,
`TalksAreCarriedOn` and `WaysKeepTypes`, which state just what the run checks.

*Counts.* `FlowInv`: `LinkInv` says which request belongs to which report, and that no
two reports wait for one; `FairInv` keeps the books over all phases of a report
(`Owed` corrects the debt by what the master has counted and the node has not yet subtracted;
it is nought up to what `failed` and `raced` excuse). `BilledOnce` is `FairInv` between reports.

*Tables.* `OneTable` speaks of a look-up that is over. `TableInv` follows it (`Looks`). Of a list: what it
has read is a beginning of the list it took, and that list is one that was in force while it went on,
unless a reload has written into its array (`torn`); a new list has an array of its own when the old one
has no room (`TableIs`), so nothing is torn there. Of hosts and ingress rules: each name it has passed over was missing
from some table of that time (`RuledOut`), which is all that locking name by name leaves. `MostSpecificWins` needs no
history. `FirstIsMostSpecific` proves of any table and host that the walk from the whole name
upwards meets the most specific covering rule first: the names it tries are all the patterns that
cover the host (`Candidates`), from the longest down. What `InitialLoad` joins is a sequence of rules whatever the
number of sources; that needs one induction, over numbers, which is done by well-foundedness
(`WellFoundedInduction`).

*Routes.* Two properties, four invariants, for any overlay, with or without nodes that multiplex.
`LineInv` (for `StaysOnChain`): a dial's path and what is left of its route are
segments of its chain that meet (`OnChain`, `Seg`), they end in its chain (`EndsIn`), and without
nested routes no leg is of another chain (`Straight`); what a transport that multiplexes remembers, a route
or a session, leads to that node (`WayTo`, `PathTo`), also when another dial put it there. `UpInv`: the
nodes of a session are up. `ChanceInv`: a good chance stays good while dials go on. They mark nodes
that are down, as long as the paths of all dials stay up (`PathsStayUp`), and those that multiplex when a dial inside
fails; where a chain is nested, a good chance needs all nodes up, and then no dial inside fails (`NoneFails`,
`NoUnwindStays`). `RetryInv` (for `RetriesFindTheWay`) is a count: while a dial with a good chance
goes on, its failed tries are no more than the nodes that are down and known to be (`Dead`), without those its route still
holds (`HeldOf`); every failure adds one to them, `Offers` keeps later routes from them as long as a hop has another
node (`OfferIsTaken`), so a dial never fails more often than nodes are down, and that is fewer than its tries.
The lemmas on filters and strategies (`RanksAreTaken`: of n candidates every number below n is the
rank of one) hold for lists of any length.

*Handlers.* `HandlerInv` says where the bytes are. What the server has heard, what waits in the
buffered reader and what is still on the connection is, in this order, what the client has said
(`Stream`, `Told`); `LeftBehind` is the exception, the handler that goes on without its reader, whose
bytes are then `Forgotten`, and no others. `Passed` says which judgements a destination has been through at each step: none is
dialled that a bypass excludes, but for the requests over HTTP/2 that nobody judges (`Judged`).

*Relays.* `RelayInv` says where the one open request is: with the client's bytes, with
the handler, with the server, or its answer is on the line (`Waiting`), behind interim responses
and before the frames of a server in a hurry (`Due`); after a switch of protocols the line goes on with
the frame that follows the last one received or dropped (`Following`). So the answers count along
with the requests and the frames from `lost` + 1 on (`Matched`), for any number of either; only a
relay that makes a reader per round trip can lose any, and only before it copies.

`PoolInv` (`TunnelsProofs`) adds to `LiveIsReachable` that a session is up only after its
connector was made, so that a clean-up never meets one that is about to be added.
`VisitorsGetThrough` speaks of the end of a dial only. `VisitInv` adds what the directory may
announce (`DirectoryInv`) and, of every dial that could hope when it began, lost nothing and was not misled, or
had a connector `near`, that it is on its way (`OnItsWay`): there is still a connector that fits where it looks next. What other
parts do meanwhile either leaves that alone (`Stays`) or is noticed as a loss; the dial's own
steps keep it. `TunnelTypes` and `EveryVisitorGetsThrough` hold for any nodes, connectors,
visitors and retries.

`LinkInv` (also `TunnelsProofs`) is about the two ends of the link between the master and a
node. `SettledIsReachable` and `ExecutedOnce` come from different facts. `MasterInv`: a connection that
works is alive and no handler closes it; once its handler of the opening has run
(`Settling`), it is the master's session and the node counts as online, unless `upset` tells
of a handler that removed or replaced what it had not looked at, or whose write failed or came late. `DropInv`: the session that
`send_msg` is about to drop stays closed, so a settled one is dropped only by an upset. The proof follows the handlers of an opening and of a
closing step by step, as they interleave. `CommandInv` follows a command: `Toward` - it is on its way to
the node once at most, in one queue or with one receiver, and then has not been executed; `Back` - an
answer is one of a command that was; `Counted` - what has not been sent was never executed, what was
answered was executed once. `CommandsRunOnce` and, beside the tunnels, `LinkStaysRight` follow.

Model-checked only: all liveness and fairness (`DispatchSpec`, `AgentComesRound`,
`UndisturbedIsReported`, `PendingSettles`, `EverybodyIsServed`, `EverythingSettles`,
`MasterIsObeyed`, `EverybodyGetsThrough`), which is out of the prover's reach; and the safety
of `NodeObjects` with the types of `MCNode` (`ObjectsAreInUse`, `TypesOK`).
Beside hosts and ingress rules, what the operators of `NodeRules` compute is compared with reference
definitions by TLC, over bounded lists.

## 6. Not modelled

The monitor alerts, the clean-up of node configurations, the rows of forwards,
tunnels, users and speed limits and their roll-backs, the monthly reset of traffic:
they are CRUD on single rows with synchronous commands to nodes, and what
makes the commands hard is in `NodeServices` and `NodeLink`. The Xray runtime proxy
keeps no state. Scripts, installers and the console are text or user interface. Of the
data plane: packet handling of TUN and TAP, the DNS handler and resolvers, ciphers,
dissectors, TLS and its interception, HTTP/2 and WebSocket frames, recorders, metrics, wire
formats of plugins; what these do is a transformation of data with little control. `PROJECT.json`
lists them with the reason for each.

Of what is modelled, one thing is simpler than the code: that an accept loop ends by an error that does not
pass is in `ListenQueue`, where nobody closes its listener; `NodeServices`, which looks at the registry and the
files, has loops that run until their service is closed.

Next in line: proofs about `NodeObjects` (`ObjectsAreInUse`).
