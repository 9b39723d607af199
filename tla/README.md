# TLA+ verification of the voicepack gateway

The gateway (`src/gateway/`) sits between WebRTC and SIP clients, Asterisk
servers and RTPEngine media proxies. It relays WebSocket sessions to a backend,
sends the media offers and answers of calls to an engine, keeps connections to
several Asterisk manager interfaces (AMI), and elects one of several gateway
instances as leader. Each part fails over to another peer when one fails.
The code is sequential only in small pieces: most of what can go wrong lies
between goroutines, between a read and the write that depends on it, and
between a failure and the recovery from it. That is what the models are about.

Paths below are relative to `src/gateway/`.

## 1. The system

| Component | State | Operations | Interacts with |
|---|---|---|---|
| Circuit breaker `pkg/common/circuit_breaker.go` | `state`, `consecutiveFailures`, `halfOpenReqs` (atomics), `lastStateChange` (under `mu`) | `AllowRequest`, `RecordSuccess`, `RecordFailure`, `Reset` | called by AMI client, RTPEngine client, WebSocket server |
| Goroutine registry `pkg/common/goroutine.go` | context, wait group, counters | `Go` (with recover), `Shutdown` (cancel, wait, time out) | owns the goroutines of coordinator, AMI manager, WebSocket server |
| Coordinator `pkg/coordinator/coordination.go` | `isLeader`, `leaseExpiration`, component table; the storage key `coordinator:leader` | `Start`, `Stop`, `tryAcquireLeadership`, `renewLeadership`, `releaseLeadership`, `WaitForLeadership` | storage; read by AMI manager and proxy, status API, metrics |
| RTPEngine manager `pkg/rtpengine/manager.go` | `activeIdx`, `engineStatus`, sessions in storage | `ProcessOffer`, `ProcessAnswer`, `DeleteSession`, three failovers | engine clients, storage; called by the SIP proxy |
| RTPEngine client `pkg/rtpengine/rtpengine.go` | one UDP socket, breaker | `Request`, `Offer`, `Answer`, `Delete` | an engine |
| AMI client `pkg/ami/ami.go` | `conn`, `connected`, `stopChan`, `doneChan`, `responseChans`, `eventChan`, `mu`, `connectionLock` | `Connect`, `SendAction`, `Disconnect`, event dispatcher, read loop | an Asterisk server; used by the AMI manager |
| AMI manager `pkg/ami/manager.go`, `BackendManager` in `ami.go` | active client, failure counts, pending actions in storage | start, monitor, reconnect, failover, replay | AMI clients, coordinator, storage |
| AMI proxy `pkg/ami/proxy.go` | TCP listener and sessions | accept loop, one handler per client | AMI manager, coordinator |
| WebSocket server `pkg/websocket/server.go` | `connections`, `backendHealth`, one `ClientConnection` per client | admission, `handleClient`, both readers and their failover, `closeConnection`, cleaner, health checks | browsers, backends, storage |
| Domain proxy `pkg/websocket/domainproxy.go` | a map of rewritten names | text substitution | WebSocket server |
| Memory storage `pkg/storage/memory.go` | sharded maps with expiry, counters | `Get`, `Set`, `Delete`, typed stores, `Cleanup`, persistence | coordinator, managers |
| SIP proxy `pkg/sip/proxy.go` | transactions, dialogs | `HandleMessage`, forward, CANCEL, BYE | RTPEngine manager, backends |
| Health monitor `pkg/health/health.go` | check results | periodic checks | not started by `cmd/gateway` |
| Start-up, status API, configuration, logs, metrics | - | - | everything |

Hard behaviours, and what makes each component correct:

* **Circuit breaker.** Lock-free: the state is swapped first, the counter and
  the time stamp follow. Correct if an open breaker refuses for its timeout, the
  probes are limited, and half-open, which has no timeout, always ends.
* **Coordinator.** Get, Set and Get again on a shared key, no compare-and-swap,
  two clocks (whole seconds in the key, full precision locally), crashes, and a
  Stop that races the monitor. Correct if leaders do not overlap, or overlap
  for a bounded time, and leadership is always taken up again.
* **RTPEngine manager.** Test of `engineStatus` without the lock, a mutex
  released in the middle of a critical section, nested locking, sessions read
  and written back. Correct if it cannot block, its health table is consistent,
  a stored session names an engine that knows the call, and an offer that
  failed is tried on another engine.
* **AMI client.** Two mutexes, two channels that are closed by several
  goroutines, dispatchers and read loops that outlive their connection, a
  response that arrives after its timeout. Correct if it says "connected" only
  with an open connection, loses no connection, reports each attempt to the
  breaker, never panics and never keeps its mutex.
* **WebSocket session.** Four goroutines share `ClientConnection` without a
  lock, both readers can fail over at once, and `closeMu` is held over writes
  that have no deadline. Correct if a session that is closed, or whose client
  left, ends completely and is forgotten, and no connections pile up.
* **WebSocket admission.** The limit is tested under one lock and the client
  added under another; a request can leave the breaker without an outcome;
  handlers, sessions, the cleaner and Stop all work on one table. Correct if the
  limit is kept, no key outlives its connection, the breaker recovers and Stop
  closes every session it waits for.
* **Memory storage.** Load, clock, delete and counter are separate steps, and
  Close writes while clients call. Correct if it behaves like a map with expiry
  and its file is whole whenever the process dies.
* **AMI manager.** Six kinds of goroutines write `activeIdx`, and replays of
  pending actions can overlap. Correct if an action is not replayed without
  bound and the manager ends up on a client that works.
* **RTPEngine client.** One socket field for all requests. Correct if requests
  that do not overlap are undisturbed and each gets its own answer.

`PROJECT.json` lists under "hazards" the places in the code where these things
bite, each with the properties that watch it or the reason why none does yet.

## 2. Modules

Each component's state is the VARIABLES of its module and each step of the code
is an action, of the granularity that the code's own synchronisation gives: an
atomic operation, a critical section, a storage call, a network operation, or
in `WSSession`, where there is no lock, an access to a shared field. The "map"
of `PROJECT.json` names the source lines of every definition. Actions with a
comment "Mutant of ..." are wrong on purpose. They belong to no specification
and are used to show that the properties can fail.

### CircuitBreaker, CircuitBreakerProofs

Goroutines of `Procs` go through `AllowRequest` (`LoadState`, `CheckTimeout`,
`CasHalfOpen`, `ClearHalfOpen`, `AddHalfOpenReq`), perform their request, and
record its outcome (`SuccessZero` to `SuccessCas`, `FailureCount` to
`FailureCas`, `Stamp`); any of them may call `Reset`. Goroutines of `Abandoners`
may return without recording, as some callers in the code do (a request that is
no WebSocket upgrade, a failed encoding in the RTPEngine client). `age`,
`consecutiveFailures` and `halfOpenReqs` saturate just above the only value
they are compared with, which loses nothing. `probes`, `clears` and `leaks`
are history variables of the current half-open period, `since` (the time since
the breaker opened) and `stale` (the callers whose reading of the clock belongs
to an earlier opening) of the current open one.

### Coordinator, CoordinatorProofs

Instances over one shared key. A monitor acquires (`AcquireGet`, `AcquireInfo`,
`AcquireSet`, `AcquireVerify`, `AcquireCommit`) or renews (`RenewGet`,
`RenewInfo`, `RenewSet`, `RenewCommit`, `RenewDrop`). `AcquireInfo` and
`RenewInfo` compute the expiry time that the Set writes a step later; it is kept
in `draft`. `Stop` releases the key (`ReleaseGet`, `ReleaseDelete`,
`ReleaseLocal`), cancels the context (`Shutdown`) and joins the monitor
(`Stopped`) or gives up waiting (`StopTimesOut`); the monitor sees the
cancellation in its own time (`CancelSeen`, `MonitorExit`). A crash loses the
instance's memory and leaves the key behind. Time is discrete and counts down to
each deadline. `Tick` waits for steps that are ready, except for `MaxStalls`
ticks of delay: that is how slow storage or a paused process enters, and the
bounds of the properties name it. Storage errors and the registration of
instances and components are left out: the one storage in the repository fails a
Get only for a key that is absent or expired, which is the free key of the
model. The shared key stands for a storage that several instances can reach;
`cmd/gateway` announces Redis for this and falls back to memory, where an
instance is alone.

### RTPManager, RTPManagerProofs

Goroutines run an offer, an answer or a delete of a call. `OfferPick` to
`OfferSend` are `ProcessOffer`; `RecordEngineFailure`, `TryFailover` and
`Migrate` are what follows a failed offer; `FailoverOffer...`,
`FailoverAnswer...`, `FailoverDelete...` are the three failovers with their
loops. Whether an engine answers is a free choice. A call of
`initEngineStatus` with the mutex held is modelled as what it would be in Go: a
goroutine blocked for good with the mutex (`Relock`).

### AMIClient, AMIClientProofs

Callers run `Connect` (with `connectImpl` down to login and ping), `SendAction`
and `Disconnect`; each connection that gets a banner brings a dispatcher and a
read loop. Pairs of `stopChan` and `doneChan` are numbered (`gen`) as they are
made, so that a loop of an old connection that looks at the client's current
channel is represented. A response waits on its socket until a read loop takes
it, also after `SendAction` has timed out, and is then looked up by its
ActionID (`SendWrite`, `SendWait`, `ReaderDeliver`); several calls may use one
ActionID. Closing a closed channel sets `panicked` and the model stops, as the
process would. The breaker is abstracted to its answer and to the
number of attempts not yet recorded.

### WSSession

One session from `handleClient` to `closeConnection`, with keepalive, client
reader and backend reader, the failover code of both readers step by step, the
cleaner and `Stop` as a second caller of `closeConnection` (`MarkClosed`,
`CloseClient`, `CloseBackend`, `RemoveClient`, `DeleteKey`), and a health map
that health checks change (`MaxChecks` of them). Keepalive in "write" and the
backend reader in "toClient" hold `closeMu` over a write to the client, and
`MarkClosed` waits for it. No write has a deadline, so it lasts as long as the
peer likes, unless this side closes the connection.

### WSAdmission, WebSocketProofs

Several clients go through `handleWebSocket`: `Accept`, `CheckCapacity`,
`AllowRequest`, `Upgrade`, `Register`, `StoreKey`, `Spawn`, `Record`; what was
accepted goes on when `Stop` begins. Of a session the table sees `handleClient`
(`session`), whether goroutines it started are still running (`helpers`) and
whether one of them holds `closeMu` over a write (`writing`); `WSSession` looks
inside. The session, the cleaner and `Stop` compete for `closeConnection`
(`CloseMark`, `CloseRemove`, `CloseKey`). The cleaner and `Stop` are one
goroutine each and close one client at a time (`call`, `CallMark`), so a client
that does not read holds up either of them. `SessionStep` is all that the table
sees of a session. `WSSession` and `WSAdmission` have no name in common:
`WebSocketProofs` extends both and relates them. `Stop` is `StopBegin`, the
snapshot `CloseAllConnections`, `StopClose` for each client, `StopClosed`, and
`StopWait` for all goroutines of all sessions. The breaker is the one of
`CircuitBreaker` with atomic calls, which is its sequential behaviour.
`overlapped`, `leaked` and `late` are history variables that say where the
properties make an exception.

### KVStore, MemoryStorage, MemoryStorageProofs

`KVStore` is what the users of the storage may rely on: puts, deletes, entries
that age, and `Forget`. A user who meets an expired entry (`Read` and
`MeetRead`, or `Meet`) may afterwards remove, once, whatever is at the item by
then. A copy on disk is drawn up of entries read alive (`Note`) and replaces
the old one as a whole (`Save`). `MemoryStorage` has the steps of the code:
`GetFrom`, `CheckExpired`, `RemoveExpired`, `CountDown` for a Get; `StoreTo`,
`WriteNew` or `WriteOver`, `CountUp` for a Store; `DeleteFrom`, `Erase`,
`CountDown` for a Delete; `ListOf`, `Visit`, `ListDone` for a List. The
operations of the seven stores are these with the name of the store; the
key-value store differs in `Set`, which counts overwrites, and in not counting
what Get removes. `Cleanup`, `Collect` and `Purge` with their steps, and the
lists after them, are the cleanup goroutine. `Close` waits for it and then
returns (`CloseUnsaved`) or, if the storage `persists`, writes the file
(`PersistBegin`, the lists, `PersistRename`, `PersistFails`). `Down` is a crash
or exit at any point, `NewMemoryStorage` the next start. The refinement mapping
takes `store` for the content, `tmp.entry` and `file.entry` for the draft and
the copy, a goroutine at `CheckExpired` for one that has read, one at
`RemoveExpired` (or the cleaner with a collected key) for one that has met an
expired entry, and one at `Erase` for one that is deleting.

### AMIManager, AMIManagerProofs

`StartBanner` and `StartNoBanner` are Start; `RetryDial` to `RetrySwitch` the
goroutines of `retryAllConnections`; `HealthPing` to `HealthSwitch` the health
goroutines with `tryReconnectOrFailover`, followed by `ReplayList` to
`ReplayDone`; `MonitorTick` to `ReconnSet` the monitor and the goroutines of
its round; `Reconnect` and `SendAction` with their steps the callers. A client
is reduced to down, up, hung or locked. "Locked" is the self-deadlock of
`AMIClient`, met by `SendAction` on a client that is down or by a login that
fails and never returns (`ConnectStuck`); after it nobody gets an answer from
this client. A failed write takes its client down. A pending action may turn out
to be expired whenever its ExpireTime is looked at: by the storage
(`ReplayList`, `ReplaySkip`) or by the replay (`ReplayGet`); its time is no
clock of the model. In the repository only the replay stores actions, so the
shipped program is the instance with no `Actions`; in the others somebody has
stored actions before the start. Two things `AMIClient` shows are not repeated:
a Connect that panics ends the behaviour, and clients may answer before the
timeout. `MayBegin` is
a bound: health checks and calls start once the goroutines of Start are done
and while fewer than `MaxBusy` others are under way.

### RTPEngine, RTPEngineProofs

Callers of `Request`: `Begin` (breaker), `EnsureConnection`, `Encode`, `Write`,
`Load`, `Read` with `Accept`, and the deferred `Finish`; and `Close`. Sockets
are numbered, and a packet carries the socket it belongs to and its request.
Sending may fail on an open socket too. An answer may come late, out of order or
never.

The `MC...` modules give TLC its sets; each `.cfg` is one run.

## 3. Runs

| Run | Bounds | Shows |
|---|---|---|
| `circuit_breaker` | 3 goroutines, one may abandon; threshold 2, limit 1, timeout 1 tick | `HalfOpenHasProber`, `ProbesPerClear`, `EarlyProbeIsStale`: an open breaker lasts its timeout; `HalfOpenResolves`: half-open ends |
| `coordinator` | 2 instances, 2 ticks per second, lease 5, heartbeat 2, one stall, one crash | `SupersededStandsDown`, `LeaseSkewBounded`, `LeaderElected`, `StoppedKeyGoes` |
| `coordinator_race` | 2 instances, no stall, no crash | violation of `AtMostOneLeader` |
| `rtp_manager` | 2 goroutines, 1 call, 2 engines, threshold 2 | `NoSelfDeadlock`, `HealthMatchesCount`, `StoredSessionAnswered`, `CallsReturn` |
| `rtp_manager_retry` | same, threshold 3 (the default) | violation of `OfferRetriesElsewhere` |
| `ami_client` | 2 callers, 2 connection attempts, 1 ActionID, room for 1 event | `ConnectedIsOpen`, `OpenIsCurrent`, `AttemptsRecorded`, `MutexReleased` |
| `ami_client_panic` | same | violation of `NeverPanics` |
| `ws_session` | 2 backends, failover on the first error, 3 backend connections, 1 health check | `LateDialsBounded`, `SessionEnds`; no reader blocks on `errChan` (in `SessionTypeOK`) |
| `ws_admission` | 2 clients, room for 1, breaker threshold 1, 1 probe | `CapacityKeptUnlessOverlapped`, `KeysFollowConnections`, `StopLeavesNoneOpen`, `HalfOpenDecided` |
| `memory_storage` | 2 clients, 1 key in each of the 7 stores (each store alone, RTP sessions and AMI actions together), with and without persistence, lives of 1 tick, counters followed to 1, 1 restart | `ImplementsKVStore`, `CountsExactUnlessRaced`, `FileComplete`, `CloseSaves` |
| `ami_manager` | 2 clients, 1 caller, 1 pending action, replay limit 0, threshold 1, 1 retry, 2 faults, 2 refusals | `ReplayBoundedUnlessOverlapped`, `ServiceRestored` |
| `rtp_engine` | 3 callers, 2 cookies, 4 sockets, symmetry | `UndisturbedWhenAlone`, `OwnAnswer` |

Each passing run but `rtp_engine` also checks its module's `TypeOK`
(`SessionTypeOK` in `WSSession`).

**Why the bounds are enough.** Three goroutines let one swap, one slip between
the swap and the reset, and a third arrive with a stale reading. The lease of 5
ticks is no whole number of seconds, so the truncation of `expireTime` takes
different values; a stall lets every step be late once. One call and two
goroutines give every overlap of two operations on a session, and two engines
let every failover loop wrap around. Two attempts give a connection with loops
left over from the previous one. Three connections are the first and one
failover of each reader. Two handshakes and room for one overlap at the limit,
and a threshold of 1 opens the breaker with the first failed upgrade. The stores
share no state but the lock of the counters and the file, so one store at a time
shows what its calls do to each other. Two clients work on the key-value store
and on one typed store, whose code the other typed stores repeat; with the
cleaner and Close these are the four parties of every race. Two stores together
let a client change one while Close writes the other, and a life of one tick
lets an entry run out between any two steps. Two faults let both AMI clients
fail, or one twice; two refusals let a failover try every client in vain. Three
requests are needed to close a socket under a second one that a third has
loaded, and four sockets let a request follow one that timed out.

`MaxAttempts`, `MaxDials`, `MaxChecks`, `MaxStalls`, `MaxCrashes`, `MaxLife`,
`MaxDrift`, `MaxRestarts`, `Uses`, `Callers`, `MaxBusy`, `MaxFaults`,
`MaxRefusals` are the bounds that are not in the code. In `WSSession` and
`RTPEngine` dials beyond `MaxDials` fail, which the code must cope with anyway.
`ReplayLimit`, `FailThreshold` and `MaxRetries` of the AMI manager stand for 3,
3 and a configured number; the smaller values reach the same comparisons sooner.

**Deadlock** is checked except for `AMIClient`, which really can stop (on its
own mutex, after a panic, or with all attempts used), `AMIManager`, whose
clients can lock themselves, `WSSession` and `WSAdmission`, where a closed
session and a stopped server are over, and `RTPEngine`, where the sockets are
used up.

**Fairness.** Weak fairness for each goroutine that has a step to take: the Go
scheduler is fair to runnable goroutines. A wait on the network is part of this
only where the code bounds it: dials, logins and pings of the AMI and RTPEngine
clients and the handshake have deadlines. What nothing forces is not fair:
starting a request, calling `Reset`, `Stop` or `Disconnect`, a crash, a health
check, and in `AMIClient` a read, since the server need never send. `Tick` is
fair.

In `WSSession` only dials end by themselves. Nothing makes a peer send or read,
and writes have no deadline (`server.go:639` removes the one of the handshake):
a reader that waits for its peer, and a write to the client, are not fair. The
cleaner is fair for a session whose client reader has returned, because the
session's last activity then only grows older, and its waiting for `closeMu` is
strongly fair, since a Go mutex hands itself to a goroutine that has waited long
enough. In `WSAdmission` the steps of `handleWebSocket` are fair and nothing
else is. `MemoryStorage` needs no fairness: all its properties are safety. In
`AMIManager` every goroutine is fair, and a hung connection meets its read
deadline; pings, calls and faults are free.

## 4. What the violations show

* **`AtMostOneLeader`.** Two instances find the key free; one writes, verifies
  and leads; the other writes, verifies and leads too.
  `SupersededStandsDown` bounds how long the first one remains.
* **`OfferRetriesElsewhere`.** `tryFailover` has switched to engine 1 when
  `failoverOffer` looks for an engine other than the active one: it finds
  engine 0, which has just failed.
* **`NeverPanics`.** `connectImpl` makes new channels only if `c.conn` is not
  nil. After a read loop's cleanup or a `Disconnect` it is nil, so closed
  channels are used, and closed, again.

Other limits of the code are stated inside passing properties:

* `ProbesPerClear`: a half-open period can admit more than `halfOpenMaxReqs`
  requests, because the counter is cleared after the state is visible; the
  bound is so many per reset.
* `EarlyProbeIsStale` exempts callers that read the clock of an earlier opening:
  such a caller makes a breaker half-open that has just opened.
* `HalfOpenHasProber`, `HalfOpenResolves` and `HalfOpenDecided` exempt periods
  in which a caller returned without recording: a request that is no WebSocket
  upgrade takes a probe and leaves the breaker refusing for good.
* `MutexReleased` exempts the two places where the AMI client blocks on its own
  mutex (`SendAction` when not connected; a failed login that waits for a
  dispatcher which waits for `c.mu`). A third wait ends by its timeout:
  `SendAction` keeps `c.mu` while it waits for its response
  (`ami.go:716-832`), and the read loop needs `c.mu` to deliver it
  (`ami.go:1005`), so the response always comes too late.
* `ServiceRestored` exempts a manager with a client that is locked in this way.
  `SendAction` of the manager, announced as "immediate failover on error", is
  what runs into it when the active connection has just broken.
* `ReplayBoundedUnlessOverlapped` exempts overlapping replays, which store and
  send actions again that are done.
* `CapacityKeptUnlessOverlapped`: each overlapping handshake can exceed the
  limit by one.
* `SessionEnds` takes two things for granted. First, that `closeMu` is free
  again and again: a client that does not read, with its receive window full,
  keeps it locked over a write, and `closeConnection`, the one cleaner goroutine
  and `Stop` then wait at `server.go:1417`. Second, that no reader hangs on a
  backend connection that a failover lost track of: nobody closes it, and the
  reader stays for up to the read deadline of 2 hours.
* `StopLeavesNoneOpen` is what `Stop` can do for its own return: everything it
  waits for is closed. It exempts a handler that registers its client after the
  snapshot: nobody closes that client, and Stop either waits for its session or
  returns while it runs.
* `ImplementsKVStore` holds for a store that may forget a renewed entry: a Get
  that loaded the old entry and looks at the clock after the old deadline
  deletes the new one, and so does Cleanup with a key it has collected. The
  leader key, renewed at every heartbeat, is read in this way.
* `CountsExactUnlessRaced` exempts items that two calls used at once, and
  claims no more than a lower bound for `TotalItems`.
* `Cleanup`, announced as "removes expired items" (`memory.go:857`), does not
  list AMI actions and WebSocket connections: they stay until somebody asks for
  them. `CleanupLists` has the stores it does list.
* `CloseSaves` and `FileComplete` are about a storage that is told to persist.
  `cmd/gateway` never sets `PersistOnShutdown` and nobody calls Close, so the
  program as shipped does not use this code.
* `UndisturbedWhenAlone` and `OwnAnswer` exempt overlapping requests, which use
  each other's socket although the code says "Create a fresh connection for
  each request".

## 5. Proofs

Each proof module extends the modules of its component and proves theorems of
their `Spec` for every value of the constants: any number of goroutines,
clients, keys, engines or instances, and any value of what section 3 calls
bounds. An invariant is proved by an inductive one (`IInv` where it has several
parts): it holds initially, every action keeps it, and it implies the property.
Each of these was checked by TLC, with the bounds of the run, before it was
proved. The actions of a large module are first reduced to what they do to the
variables in question (lemmas `...Moves`, `...Cases`, `StepsCount`), so that
each part is proved against a few kinds of steps.

The only assumptions are the ASSUMEs of the modules, which TLC evaluates for
every run: marker values (`NoProc`, `NoItem`, ...) are not members of the sets
they are used with; limits, thresholds and bounds are natural numbers, positive
where the code replaces or excludes zero; the sets of callers of `RTPEngine`, of
clients of `WSAdmission` and of keys of `MemoryStorage` are finite, because the
models count their members; a lease of the `Coordinator` is at least a second,
because a shorter one is written as already expired.

**CircuitBreakerProofs**

* `TypeCorrect`: `TypeOK` is inductive (`TypeInductive`), with `BumpBounds` for
  the saturating counters.
* `HalfOpenAlwaysHasProber`: `HalfOpenHasProber` is inductive with `TypeOK`
  (`ProberInductive`). A step of another goroutine leaves a prober's position
  alone (`OthersUnmoved`) and can only spoil it by using up the fresh counter,
  in which case that goroutine is admitted and is the prober; a prober's own
  step leads to a prober, to a state that is not half-open, or to an abandoned
  request.
* `ProbesBoundedByClears`: `ProbesPerClear` does not say what the counter has
  seen. `ProbeAccount` adds that since the last reset no more requests were
  admitted than `halfOpenReqs` counts, and that nothing is counted outside a
  half-open period. An admission raises both sides by one, a reset trades
  `halfOpenReqs` for one more `HalfOpenMaxReqs`.
* `OpenLastsResetTimeout`: `EarlyProbeIsStale`. Inductive with
  `StampedSinceOpen` (`OpenLasts`): while the breaker is open and the opening
  stamped, the stamp is no older than the opening. So a caller that finds the
  timeout elapsed has waited for it, or read the stamp of an earlier opening.

**CoordinatorProofs**

* `TypeCorrect`: `TypeOK`, in particular that the truncated `expireTime` lies
  between now and the end of the lease.
* `SkewBounded`: `LeaseSkewBounded`. Inductive with `DraftIsRecent` and
  `RecordIsRecent` (the record that an instance is about to write, or has
  written and not yet committed to, is younger than the delays so far) and
  `LeaseNearRecord` (a lease is based on such a record and both count down
  together).
* `StandsDown`: `SupersededStandsDown`. Time without the key is counted for
  leaders only (`OnlyLeadersSuperseded`, with `MonitorLife` for monitors that
  have not begun or have ended); whoever owns or is about to write the key was
  without it for no longer than its steps were delayed (`BriefBeforeWrite`);
  otherwise the time without the key and the time to the next heartbeat together
  stay within a heartbeat and the delays (`NoticedAtHeartbeat`), since a tick
  moves one into the other. Both theorems also hold with the delays that
  happened in place of `MaxStalls`, which is what the invariants say.

**RTPEngineProofs**

* `AloneUndisturbed` and `AnswersOwn`: `UndisturbedWhenAlone` and `OwnAnswer`.
  `IInv` adds that the socket in `r.conn` is the only open one and packets on
  their way are on their way to it (`OnlyConnOpen`), that callers which run
  together are in the history (`OverlapRecorded`), and that while a caller runs
  alone `r.conn` is the socket it dialled and only its own command is on its way
  (`AloneOwnsConn`).
* `NoSocketLeaks` states `OnlyConnOpen`: overlapping requests close each other's
  sockets but never lose an open one.

**RTPManagerProofs**

* `TypeCorrect`, `NeverDeadlocksItself` (`NoSelfDeadlock`), `HealthIsCount`
  (`HealthMatchesCount`), `SessionsAnswered` (`StoredSessionAnswered`), from
  one `IInv`. Its additions: a goroutine that talks to an engine has picked one
  (`EnginePicked`); `engineStatus` never becomes nil again, so the nil test made
  without the lock stays true (`ReadyPastInit`), which is why the nested
  `initEngineStatus` never locks; the engine about to be stored has accepted an
  answer of the call (`AnsweredBeforeStored`). That the failover loops pick an
  engine at all rests on the least element of a non-empty set of indices.

**AMIClientProofs**

* `TypeCorrect`: `TypeOK` bounds channel pairs and connections by the attempts.
  This needs a count: pairs made, plus callers that may still make one, are no
  more than the attempts (`GensPending`, and `DialsPending` for connections).
* `ConnectedMeansOpen` (`ConnectedIsOpen`), `NoConnectionLost`
  (`OpenIsCurrent`), `BreakerHearsOnce` (`AttemptsRecorded`). They rest on who
  holds the two mutexes at which step (`MuHolder`, `LockHolder`), on nobody
  connecting the client during an attempt (`DialsWhileDown`), and on every
  attempt dialling from an empty `c.conn` (`DialsFromNil`).

**AMIManagerProofs**

* `TypeCorrect`: `activeIdx` is always a client, for all six kinds of writers.
  Inductive with `TargetIsClient`: what a goroutine carries from finding a
  client to writing the index is a client.
* `ReplaysBounded`: `ReplayBoundedUnlessOverlapped`. Goroutines that replay at
  the same time are in the history (`OverlapSeen`); so without an overlap the
  one that replays is alone (`OnlyReplay`), what it read of `Retries` is still
  true when it adds one (`BumpIsFresh`), a send was counted before
  (`SendIsCounted`, `SentIsCounted`), and an answered action that is still
  stored is about to be deleted (`AnsweredIsDeleted`), so nobody reads it.

**WebSocketProofs**, for the connection table (`WSAdmission`)

* `TypeCorrect`; `CapacityKept` (`CapacityKeptUnlessOverlapped`): a handler in
  flight that overlapped with nobody is the only such one, and the room it found
  is still there (`FreshHasRoom`), so the clients without an overlap never
  exceed the limit (`AloneKeepCapacity`).
* `KeysFollow` (`KeysFollowConnections`): from the order of a handler's steps,
  its session and `closeConnection` (`StepsInOrder`, `TableFollowsHandlers`).
* `StopClosesAll` (`StopLeavesNoneOpen`): who is open in the table after the
  snapshot is in the part of it that Stop has yet to close, or came late
  (`SweepCovers`); Stop closes one client at a time and carries each to the end
  (`OneCallEach`).

and for a session (`WSSession`), from `SessionInvariant`:

* `SessionTypeCorrect` (`SessionTypeOK`): that `errChan` holds at most three
  errors is not inductive. It holds no more errors than readers have returned
  (`ErrorsFromReturned`), since a reader sends one only with its last step
  (`ReadersMove`) and none runs before `handleClient` starts them.
* `LateDialsAreBounded` (`LateDialsBounded`): a goroutine that dialled after the
  context was done is past every other dial: a reader is between its dial and
  its end, and its loop finds the context done (`LateDialEnds`).
* `BackendIsNeverMissing`: wherever a reader uses `BackendConn` or
  `CurrentBackend`, there is one. Both readers assign these fields in any order;
  what either assigns was selected and dialled before (`BackendKnown`), and
  `selectHealthyBackend` finds a backend because a non-empty set of indices has
  a least element (`SelectedKnown`).
* `SessionFitsTable`: the session under a refinement mapping (`SessionOf`,
  `PhaseOf`, `CloserOf`, instance `Table`) starts as `Spawn` leaves it and takes
  only steps that `SessionStep` of `WSAdmission` has, or none. `HandlerDial` is
  `SessionStarts`, `MarkClosed` is `SessionReturns` or `CallMark`, `RemoveClient`
  is `CloseRemove`, `DeleteKey` is `CloseKey`, `HandlerReturn` is `SessionOver`;
  writes to the client are `WriteBegin` and `WriteEnd`, and the end of the last
  goroutine is `HelpersEnd`. The table is the
  one with this client alone, and the second caller of `closeConnection` is taken
  for the cleaner. It rests on `CloseOnce` (one caller gets beyond the mark, and
  `handleClient` returns closed), `InTable` (the client is in the table exactly
  until that caller removes it) and `OneWriter` (`closeMu` has one holder).

**MemoryStorageProofs**

* `TypeCorrect`, `FileAlwaysComplete` (`FileComplete`), `CloseSavesAll`
  (`CloseSaves`, for a storage that persists) and `StorageIsKVStore`
  (`ImplementsKVStore`), from one `IInv`. Its parts: what a goroutine has in hand
  at which step (`InHand`, `CollectorOnly`); that nothing goes on while the
  process is down (`DownBriefly`); what may be in the two files (`StoreBounded`,
  `WritersInUse`, `FilesSaveable`); how far the closer is (`CloserRange`,
  `TmpProgress`, `OwedPending`): whatever Close owes is written, in hand or
  still to come. The refinement is the usual step simulation: initial states map
  to initial states and each action to a step of `KVStore` or a stutter. Which
  readings, expired entries met and deletions are under way (`Reading`,
  `Doomed`, `Deleting`) is followed per goroutine.
* `StatisticsRight` (`CountsExactUnlessRaced`), from a second invariant `CInv`:
  an item that was never raced is in the hand of at most one call
  (`Exclusive`, `HandsOK`), and the counter is the number of entries, plus
  those deleted and not yet counted down, minus those stored and not yet
  counted up (`CountsFollow`); for the key-value store, which counts overwrites
  too, at least that.

**Only model-checked.** The liveness properties of all modules
(`HalfOpenResolves`, `LeaderElected`, `StoppedKeyGoes`, `CallsReturn`,
`MutexReleased`, `SessionEnds`, `HalfOpenDecided`, `ServiceRestored`): reasoning
under fairness is outside what the proof system handles. Every other property of
a passing run is stated by a theorem. The three violations are counterexamples
and need no proof.

## 6. Not modelled

* The AMI proxy and its `BackendManager`: an accept loop and one relay per TCP
  client over connections of its own.
* The SIP proxy: its decisions are bound up with header handling. `RTPManager`
  takes its calls as free choices.
* `SendMessage`, `PrepareForFailover` and `RedirectClient` of the WebSocket
  server. They leave a write deadline of seconds on a connection that
  `handleWebSocket` clears it for; what is forwarded later then fails. A model
  of it needs the clock of each connection.
* The subprotocols that concurrent handshakes write into the shared upgrader.
* Several shards (with the choice of one by a hash, whose negation overflows for
  the least integer), `ExpiredItems` and the unused key limit of the storage.
  `Coordinator` and `RTPManager` take a storage call as atomic and as always
  successful; errors of another storage, which `tryAcquireLeadership` would take
  for a free key, are not represented.
* A WebSocket server without a SIP handler, on which a BYE or CANCEL would panic:
  `cmd/gateway` always sets one.
* Component leadership and the instance registry of the coordinator: they
  follow the global leadership and decide nothing else.
* Domain rewriting: text processing.
* The health monitor: not started by `cmd/gateway`.
* Start-up, status API, configuration, logging, metrics: input and output
  without protocol state.

## 7. Plan

Done, in this order: the circuit breaker with its proofs, since everything else
calls it; the coordinator; the RTPEngine manager; the AMI client; the
WebSocket session; the memory storage with the store it implements; the AMI
manager; WebSocket admission; the RTPEngine client.

The proofs followed: the RTPEngine client, WebSocket admission, the RTPEngine
manager, the memory storage with its refinement, the coordinator, the AMI client
and the AMI manager, each with the invariants of its run; last the WebSocket
session, and that it is the session `WSAdmission` assumes.

Left: the forwarding decision of the SIP proxy. A breaker with atomic calls is
no abstraction of `CircuitBreaker` as it stands: the late reset of the counter
(`ProbesPerClear`) is visible, so an abstract one would have to allow for it.
