# A TLA+ verification of axum-server

axum-server runs a tower make-service on hyper: it binds a listener, accepts
connections, does TLS, serves each connection in a task of its own, and shuts
all of this down, at once or gracefully. This directory holds TLA+ models of
its parts, above all those that run concurrently, the TLC runs that check them, and TLAPS
proofs of their main properties. Paths below are relative to the repository
(`src/server.rs` is `src/src/server.rs` in `PROJECT.json`).

## 1. The system

| Component | State | Operations | Talks to |
|---|---|---|---|
| `NotifyOnce` (`src/notify_once.rs`) | a flag, a tokio `Notify` | `notify_waiters`, `is_notified`, `notified().await` | used four times by `HandleInner` |
| `Handle` (`src/handle.rs`) | `addr`, `conn_count`, `graceful_dur`, four latches | `shutdown`, `graceful_shutdown`, `listening`, `connection_count`; inside: `notify_listening`, `watcher`, `wait_*` | shared by the application's threads, `serve()` and all connection tasks |
| `Watcher` (`src/handle.rs`) | holds one unit of `conn_count` | `new`, `wait_*`, `drop` | one per connection task |
| `Server::serve` (`src/server.rs`) | the listener, where the accept loop is | bind, accept with back-off, make the service, spawn, the two shutdowns, the wait for the connections | polls the make-service; spawns tasks; waits on the handle's latches |
| connection task (`src/server.rs`) | handshake, first-request timer, hyper's connection, drain | a sequence of biased `select!`s | the acceptor, hyper, `FirstRequestService`, its `Watcher` |
| `RustlsConfig`, `OpenSSLConfig` (`src/tls_*/mod.rs`) | an `ArcSwap` shared by all clones | `from_*`, `reload_from_*`, `get_inner` | the file system; acceptor futures |
| TLS acceptor futures (`src/tls_*/future.rs`) | inner accept, then a timed handshake | `poll` | takes the live configuration when the handshake begins |
| stream acceptors (`src/accept.rs`) | socket options | `accept` | wrapped by one another and by TLS |
| builder (`src/server.rs`, `src/tls_*/mod.rs`) | the fields of `Server` and of the TLS acceptors | `bind`, `from_*`, the setters, `acceptor`, `map`, `http1_only`, `http2_only` | hyper-util's `Builder`; `serve()` takes its fields |
| `tls.rs`, `service.rs` | a `TlsInfo` per connection; none | `TlsService::call`; trait aliases | |

What is hard here is concurrency: application threads call the handle while
`serve()` and every task are between two of their awaits; a `Watcher` is dropped
in several steps; timers race the events they bound; files change while they are
read. `PROJECT.json` lists each such hazard at its line.

What makes each part correct:

- `NotifyOnce`: no notification is lost, none is invented.
- `Handle`/`serve()`: the count is exact; a graceful shutdown ends, and ends
  only when the connections have; a shutdown ends everything; `listening()`
  returns, with the right address; no client hangs in the backlog.
- connection task: it leaves on each of the two shutdowns from wherever it is;
  a client cannot hold it in a handshake or before its first request.
- TLS configuration: the pair in use is a pair; a failed reload changes nothing;
  a handshake sees the last reload, also when reloads overlap.
- acceptors: no byte flows on a socket before its options are set.
- builder: whatever the order of the calls, nothing that was asked for is lost.

## 2. Modules

| Module | What it is |
|---|---|
| `LatchState` | the three states of a `NotifyOnce` ("unset", "stored", "woken") and what a poll sees in each |
| `Latch` | the abstract specification: a one-shot latch with waiters |
| `NotifyOnce` | the code, one step per access to shared memory; refines `Latch` |
| `Handle` | the shared state and the application's calls |
| `Connection` | extends `Handle`: the connection task and `Watcher::drop` |
| `Server` | extends `Connection`: `serve()`, the composition, fairness, all properties of the server |
| `Lifecycle` | the abstract specification of the server: connections in service, two requests to stop, one return; `Server` refines it |
| `LatchUse` | extends `Server`: each wait of `serve()`, of the tasks and of `listening()` as an instance of `Latch` |
| `ServerBuilder` | how a `Server` is put together, any calls in any order |
| `ServerTests` | the repository's tests and examples of the server as scripts that run against `Server` |
| `TlsConfig` | reload against rotation of the files, and the sessions that take the configuration |
| `Pem` | the three loaders of PEM sections, as loops over every list of sections |
| `Acceptor` | the acceptor stack of one connection, the socket's options, the handshake |
| `NotifyOnceProofs`, `ServerProofs`, `LifecycleProofs`, `LoopProofs`, `TlsConfigProofs`, `PemProofs`, `AcceptorProofs`, `ServerBuilderProofs` | the theorems |
| `MCNotifyOnce`, `MCServer` | TLC instances (symmetry) |

How state and actions correspond to the code:

- **Latches.** `notify_waiters` has two effects another thread can tell apart,
  the store of the flag and the wake; a poll of a new `notified()` future sees
  the first (`IsNotified`), a poll of one that is registered the second
  (`IsWoken`). `NotifyOnce` shows that this is all one needs to know; `Handle`
  and above use the latch and no longer mention the `Notify`. That they use it
  as `Latch` allows is checked too: `LatchUse` reads each wait off the program
  counters (registered, returned, or not waiting) and instantiates `Latch` for
  it, six times for the four latches.
- **Program counters.** `task[c]` and `srv` name the `select!` a future is in.
  A name that ends in `0` means that it has not been polled there yet, so its
  waits are new futures. `call[u]` is the place of an application thread inside
  a handle method.
- **A poll of a `select!` is several steps.** Its arms are looked at in order,
  and a latch can be notified by another thread between the look at one arm and
  the next. In a task, `arm[c]` counts the arms on a latch that the poll is past:
  `Pass` goes on from an arm that finds nothing, `Told` is an arm that finds its
  latch notified, and the rest of the poll (the acceptor, the timer, the channel,
  hyper) runs when it is `Past` them all. So hyper may be polled after
  `shutdown()` has been called and has woken everyone, by a poll that had looked
  before. The two latch arms of the first `select!` are one look, as both do the
  same. In `serve()` the accept arm (`AcceptStream`, ...) and the graceful arm
  (`Graceful`, `AcceptPark`) are separate steps, and `polling` keeps the outer
  shutdown arm from being looked at in the middle of a poll.
- **The published address** is `get_local_addr().ok()`; `LocalAddrs` says which
  outcomes that call has in an instance.
- **`Watcher::drop`** is three steps: `DropSub` (`fetch_sub`), `DropCheck`
  (`is_notified` and the store), `DropWake`. The task's captured variables are
  dropped after its locals, so hyper's connection is gone by `DropSub`.
- **`serve()` dropped by its caller** at an await is `ServeDropped`; the tasks
  go on.
- **hyper** is external. `HyperSteps` lets one poll read nothing, part of a
  request, or a request; call the service; answer; close. `HyperGraceful` is
  `graceful_shutdown()` on hyper's connection: with nothing under way it closes,
  at once or, over HTTP/2, when the client has answered a ping, which a silent
  client never does.
  The default builder has no header read timeout, so a partial request may stay
  one for ever.
- **First request.** `rx[c]` is the oneshot channel. Its sender lives in the
  service inside `serve_future`, so the receiver cannot see it closed while the
  task is in that `select!`: the `is_err` branch is dead and is not modelled.
- **`stale`** is a history variable: the drops that reached zero before the
  graceful latch was set and have not yet looked at it. It is only used to state
  `DrainedUnlessStale` and its invariant.
- **TLS files.** A certificate and a key are represented by the rotation that
  made them; `Partial` is a file being written, as long as it does not parse. One
  that is cut after the new certificate does parse (`CertRead`), without the rest
  of its chain. A call is one of the loaders that
  end in `with_single_cert` or `check_private_key`, which refuse a pair that does
  not belong together, or `from_sni_pem_files`, which puts a `CertifiedKey` in a
  resolver and does not look; its several entries are read in the same way and
  one stands for all. `calm`, `newest`, `since`, `floor` and the field `sure` are
  history: whether the files stayed whole while a call read them, the newest
  certificate stored so far and when a call began, and what the last store
  promises the next handshake.
- **Lifecycle.** A connection is in service while hyper has it (`Open`), or the
  poll of the acceptor that may hand it over is under way (`Admitting`). The
  abstract latches are the concrete ones, the outcome is `srv` once it has
  ended, and `straddled` is `stale # {}`.
- **Builder.** `server` has the fields of the struct, `asked` is a history
  variable: the last value asked for, by setting. `acceptor()` and `map()` copy
  the fields one by one (`WithAcceptor`), as the code must since they change the
  type. hyper-util's builder asserts that no version was chosen before, so
  `http1_only().http2_only()` panics (`HttpOnlyPanics`). `set_nonblocking` and
  `from_std` are calls that may fail (`FromStdErr`).
- **Tests.** A test is a set of options and a script: connect, send, call the
  handle, expect. hyper's choices, open in `Connection`, are resolved by what
  the test's clients send; every order of polls remains. Time passes only while
  the script waits and nothing else can happen: the tests rely on a machine that
  is fast compared with their timeouts, and what happens without that is the
  business of the other runs.
- **PEM.** A section is of the wanted kind, of another, or unreadable; `taken`
  is the set of sections in the loader's result. The iterator is external: it
  passes over other kinds. `result` and `i` are the loop's variables.
- **Acceptors.** `Acceptor` refines what `Connection` sees only as ready,
  pending or failed. The inner acceptor's calls are steps because each can fail;
  `set_tcp_keepalive` is external and can fail with some of its options set.
  `Supported` is what the `cfg` attributes decide. The socket begins with any
  options, since some are inherited from the listener. OpenSSL's future unwraps
  the results of `Ssl::new` and `SslStream::new`: "panicked", which in
  `Connection` ends the task as an error does, the `Watcher` being dropped by the
  unwinding.

## 3. Runs

| Run | Specification | Instance | Checks |
|---|---|---|---|
| `notify_once` | `Spec` | 2 notifiers, 2 waiters | no lost wake-up, no spurious return, every waiter returns, refinement of `Latch` with its fairness |
| `drain` | `Safety` | 2 users, 2 connections, both shutdowns | the inductive invariant `Inv`, `CountInv`, `NoLostConnEnd`, `DrainedUnlessStale`, `NobodyStranded` (a client without a task is in the backlog of an open listener or in the hands of `serve()`); drained is final (`DrainIsFinal`), requests are dropped only by `shutdown()` (`CutOnlyByShutdown`), refinement of `Lifecycle` |
| `timeouts` | `Spec` | 1 user, 1 connection, TLS, first-request timeout; `shutdown`, `graceful_shutdown(None)`, `listening` | no latch is left stored with nobody to wake (`WakeOwed`), the address `listening()` returns and that it returns, all waits follow `Latch` (`UsesLatches`); after `shutdown()` no further poll serves a request (`ShutdownIsFinal`), finitely many steps are left (`ShutdownRunsDown`) and everything ends; a drain without a deadline ends when its request does (`IndefiniteReturns`); handshake and first request are bounded |
| `deadline` | `Spec` | 1 user, 2 connections, `graceful_shutdown` with a duration | `serve()` returns by its deadline whatever clients do; no client hangs in the backlog |
| `tls_reload` | `Spec` | 2 reloaders, 1 session, 2 rotations | a pair that was checked, or read from files nobody touched, is a pair; handshakes see reloads |
| `pem` | `Spec` | all files of up to 5 sections | each loader's result against its definition by the set of sections |
| `acceptors` | `Spec` | all stacks, configurations and inherited options | options before bytes |
| `builder` | `Spec` | one value beside the default per setting, both versions, both libraries | nothing lost, the right versions spoken |
| `tests` | `Spec` | 12 tests, 4 scripts of examples, 2 clients | every script comes to its end |
| `stale_drop`, `late_timer`, `stalled_head` | | 1-2 connections | violated, see below |

Bounds. The number of connections, users, waiters and rotations is the size of
a constant set; no counter is capped but the length of a PEM file
(`MaxSections`: five sections hold two keys with something before, between and
after). Two connections are what the drain needs:
one that ends while another begins. Two users let two handle calls interleave.
One connection suffices where the property is about a single task and the users
are what it races. Both liveness runs have one user, who calls again and again:
with the calls of two at once, or with and without a duration in one run, TLC does
not finish; those interleavings are in `drain`, for safety. Two reloaders overlap in every way two calls can; a second
session would only repeat the first, which shares nothing with it but `live`.
The proofs do away with these bounds for the safety
properties. Connections and users are interchangeable, so `drain` and
`stale_drop`, which check no liveness, use symmetry.

Deadlock is checked except in `notify_once` (everyone may have returned) and
`timeouts` (`serve()` dropped before it binds leaves `listening()` waiting), `pem`
(the loader has returned), `acceptors` (the connection was given up), `builder`
(the server was handed to `serve()`) and `tests` (the test is over).

Fairness. `Scheduling`: the runtime polls tasks that are new or woken, timers
fire, and a thread inside a handle method goes on (the methods do not block).
`Environment`: the make-service answers, and the listening socket does not fail
for ever while a client is queued (strong fairness of `AcceptStream`, since
errors and back-off alternate with it). Nothing is assumed of clients, except
in `IndefiniteReturns`, which says that a drain without a deadline ends *if*
requests under way finish (`RequestsFinish`): this is the premise of an
indefinite grace period. `ServerTests` assumes only that something happens as
long as something can.

Mutants. Each property of a passing run has a changed definition (a comment
"Mutant:" above it) with which TLC finds the property violated; `PROJECT.json`
says which. They are not used by the specifications.

### Where the code and its documents disagree

- `stale_drop`: a `Watcher` whose `fetch_sub` reached zero just before
  `graceful_shutdown()` looks at the graceful latch just after it. If another
  connection was accepted in between, `conn_end` is latched although the count
  is one, and `serve()` returns while that connection serves a request. The
  README says that "shutdown waits for requests that are still in flight".
  `DrainedUnlessStale`, proved, says that this is the only way.
- `late_timer`: in the first-request `select!` the timer is polled before the
  channel, so a request that was dispatched in time is cut off when the timer
  runs out before the task is polled again.
- `stalled_head`: `graceful_shutdown()` makes a task leave the first-request
  `select!` and its timer; a client that stalls in the middle of its first
  request then keeps its connection, and with no grace period `serve()`, for
  ever. `first_request_timeout` promises that the connection is closed. Until
  a graceful shutdown the promise is kept (`FirstRequestUnlessGraceful`).

Smaller ones, for which no run was made.

- `test_shutdown` says "After shutdown, all client requests should fail"
  (`src/server.rs:629`). A poll that had looked at the shutdown latch just before
  may still hand hyper a request just after; `ShutdownIsFinal` says that this is
  the last such poll of each task.
- `accept_error_handler` "is called from the accept loop", but an acceptor's error
  is reported from the connection's task (`src/server.rs:415`), so several calls
  may run at once.
- `TcpSocketConfig::nodelay` is there to "enable or disable" TCP_NODELAY
  (`src/accept.rs:205`), but `nodelay(false)` makes no call, and a socket that has
  the option from its listener keeps it; likewise keepalive, "disabled by default"
  (`src/accept.rs:211`).

## 4. Proofs

`tlapm` checks every proof. All theorems are about the safety part of the
specifications and hold for all values of the constants, under the named
assumptions: `ConnAssumption` (the set of connections is finite, the two options
are Booleans), `OpsAssumption`, `LocalAddrsAssumption`, `RotationAssumption`, `SectionsAssumption`
(`MaxSections` is a number, so the loaders' theorems are about files of every
length), `SupportedAssumption`. `ServerBuilder` needs none.

- **`NotifyOnceProofs`**: `InvAlways`, `LostWakeupFree`, `SpuriousReturnFree`,
  and `RefinesLatch` (`Safety => L!Safety`). The invariant says how the flag, the
  `Notify`'s counter and its list fit: the counter moves only after the flag; a
  future past `enable()` is in the list or woken; one asleep when the counter
  has moved is woken. The last is the point: it needs `enable()` before the look
  at the flag.
- **`ServerProofs`**: `CoreAlways` and from it `TypeCorrect`, `CountCorrect`,
  `ConnEndNotLost`, `DrainCorrect`. The inductive invariant of the server is
  `Inv == CoreInv /\ LoopInv`, each a conjunction of named parts; this module has
  the first. `CountInv` is inductive with the types, by cardinality of the
  set of tasks that hold a `Watcher`. `NoLostConnEnd` needs `GracefulFirst`
  (`serve()` waits only after the graceful latch is set, hence every later last
  drop sees it) and `EndStored`. `DrainedUnlessStale` needs that once the graceful latch is
  set, a task polled for the first time ends: when none is past its first look at
  the latch none will be (`NoneOpen`). `FreshDropInv` carries this from a drop that is not
  stale, `DrainInv` from `conn_end` to the return of `serve()`. `ListeningAgrees`
  needs `AddrInv`: the address is final before the latch is set.
- **`LifecycleProofs`**: `RefinesLifecycle` (`Safety => L!Spec`), `DrainStaysOver`,
  `ZeroCountIsFinal` and `RequestsKept`. Each action of `Server` is a step of the
  contract or leaves its variables alone. `CoreInv` is
  needed where a step has a reason: a task comes into service only if it saw
  neither latch, `serve()` returns "drained" only with nothing in service unless
  a drop straddled the call. `DrainStaysOver` is why the accept arm may come
  first: what it still accepts after `graceful_shutdown()` ends in its first poll.
  `ZeroCountIsFinal` adds `CountInv`, for an application that polls
  `connection_count()`.
- **`LoopProofs`**: `InvAlways` (`CoreInv` and `LoopInv`), and from it
  - `BacklogAnswered`: `NobodyStranded` needs `HeldInv` (`serve()` has one
    connection in its hands exactly while it makes its service) and
    `ListenerInv` (the listener is open until the accept loop is left, and
    whichever way it is left refuses the backlog);
  - `WakesComplete`: a latch whose flag is stored has someone who is about to
    wake it. With several callers the wake may be another's, so `StoredInv` says
    of each one in the middle of `notify_waiters()` that the flag is set;
  - `ListeningCorrect`: `ToldInv`, with `ListeningAgrees`;
  - `ShutdownStops`: with the latch woken, every look of a task sees it,
    registered or not, so a poll gets past its shutdown arm only if it was past it
    before (`PastShutdown`); `serve()` looks at it at each new poll (`PollInv`: a poll
    ends only at a pending await);
  - `ShutdownEnds`: after `shutdown()`, every step of `serve()`, a task or a client
    lowers the rank of a connection and raises none, or leaves the connections
    and lowers the rank of `serve()`. Only calls on the handle do neither. As
    the connections are finitely many and a rank is a number, finitely many
    steps are left. Together with `WakesComplete`, by which a pending wake is always
    someone's next step, and `ShutdownStops` this is the safety side of `ShutdownEndsAll`, for any number
    of connections; what TLC adds is the fairness, that the steps are taken;
  - `RefinesLatches`: each of the six waits is a behaviour of `Latch`. With
    `RefinesLatch` of `NotifyOnceProofs` this closes the gap between the two
    levels: `NotifyOnce` offers the latch, and the server asks no more of it. It
    needs `StoredInv` and `EndStored` (no wake before its store) and, for each
    wait, that a step from "registered" comes only with the latch woken or the
    future dropped. A wait whose return leaves no trace in the state (a task's on
    shutdown, that of `serve()` on `conn_end`) cannot be told from a dropped one
    by the instance; `ReturnsTold`, a conjunct of `UsesLatches`, says of these that
    they return only after the notification.
- **`TlsConfigProofs`**: `InvAlways`, `PairNeverTorn`, `HandshakeIsFresh`, for any
  number of reloaders, sessions and rotations. `CallInv` says what a call in
  flight holds: a pair if the files were calm, one that passed the check if it is
  about to be stored, and nothing older than what was stored when it began, since
  what is on disk never gets older (`FilesInv`, `OnDisk`). `PairNeverTorn` leaves
  one case out, because the code does: a pair that `from_sni_pem_files`, which
  does not check, read while the files were replaced.
- **`PemProofs`**: `InvAlways` and from it `KeyLoaderCorrect`,
  `CertLoaderCorrect`, `FirstKeyLoaderCorrect`. `LoopInv` says what the result is
  for the sections passed so far; no induction over the list is needed, since
  the loop's own steps are the induction.
  `FirstKeyLoaderCorrect` is a full characterisation: `First` is the one section
  the loader decides on, and what follows it makes no difference.
- **`AcceptorProofs`**: `OptionsFirst`, from `StackInv`: how far the options have
  come at each place of the accept future.
- **`ServerBuilderProofs`**: `InvAlways` and from it `SettingsKept` and
  `VersionKept`, for any values and any sequence of calls. The invariant adds that
  the version in `Server` and the one in hyper's builder agree.

The inductive invariants of `TlsConfig`, `Pem`, `Acceptor` and `ServerBuilder`
are proved; their runs check the properties that follow from them.

Only model-checked: everything under fairness (`EveryWaiterReturns`, the fairness
part of `ImplementsLatch`, `GracefulReturns`, `IndefiniteReturns`, `NoClientHangs`,
`ShutdownEndsAll`, `ListeningReturns`, `FirstRequestUnlessGraceful`,
`HandshakeBounded`, `TestsPass`), which TLAPS does not handle.

## 5. Not modelled

- Tasks hyper spawns itself: HTTP/2 streams, upgraded connections (they hold no
  `Watcher`, so nothing waits for them).
- A panic in a handler, and the runtime's own shutdown.
- The services the acceptors wrap around the application's (`TlsService`,
  `LocalAddrService`): the `Accept` trait's types keep them in place, and what they
  add to a request is data.
- The timers that `default_builder()` installs for HTTP/1 and HTTP/2, and the
  non-blocking mode of a listener handed over: nothing else in the program reads
  them. HTTP versions in the tests (`test_http1_only`, `test_http2_only`); which
  versions a server speaks is the business of `ServerBuilder`.
- Whether a certificate chain is complete; see `CertRead`.
- An unbounded stream of arrivals: connections are a finite set, so the biased
  accept arm cannot hold off a graceful shutdown for ever. In the program tokio's
  cooperative budget makes the accept arm pending after a number of successes in
  one poll, and the graceful arm is then looked at; that budget is not modelled.
- The contents of certificates, keys and `TlsInfo`, ALPN, the decryption of an
  encrypted key (a call that may fail, `LoadErr`), and which entry of an SNI
  resolver a name selects.
- A `Builder` assigned as a whole through `http_builder()`, and the options of
  hyper other than its version and header read timeout.
- `service.rs`, `lib.rs`: trait aliases and re-exports, no state. The examples
  other than those about shutdown, timeouts and reload: they start a server and
  are otherwise an application's own logic.

## 6. Plan

1. (done) `NotifyOnce` and its abstract latch; `Handle`, `Connection`, `Server`;
   `TlsConfig`; `Pem`; `Acceptor`; the inductive invariants and their proofs.
2. (done) Every way to make and reload a TLS configuration, overlapping; the
   abstract `Lifecycle` and the refinement, as a run and as a theorem; what a
   drain may and may not do as action properties, proved; the builder; the
   repository's tests as scripts.
3. (done) The accept loop, its listener and the latches in the inductive
   invariant; what follows for clients in the backlog, for `listening()` and for
   `shutdown()`; the use of the latches as a refinement.
4. (done) The poll of a task's `select!` split at the looks at its latches, and
   what `shutdown()` then still allows.
5. Left: that `Acceptor` implements the acceptor `Connection` assumes, by a
   refinement mapping; the outcome of `serve()` as a permanent fact.
