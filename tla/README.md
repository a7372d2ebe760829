# A TLA+ development of the MMDF Android client

MMDF is a domain-fronting client. On Android a `VpnService` routes the phone's
traffic into *tun2proxy*, tun2proxy speaks SOCKS5 to a local Rust proxy, and the
proxy forwards each connection either directly or over a *fronted* leg: it
terminates the browser's TLS with a leaf certificate of a CA of its own, and
re-sends what is inside over a new TLS connection under a harmless name. The same
proxy is also a desktop program.

The modules here model the parts of that program that have state shared between
threads, tasks, processes or machines; TLC checks them on small instances, and
TLAPS proves the most important of what they promise for every instance. The paths below are
relative to the repository's root; Kotlin files without a directory are in
`android/app/src/main/java/com/awminamani/mmdf/`.

## 1. The system's parts

| part | code | state | operations | talks to |
|---|---|---|---|---|
| VPN service | `MmdfVpnService.kt`, `VpnState.kt` | per service object `proxyHandle`, `tunThread`, `tornDown`; process-wide `isRunning`, `proxyHandle` | `onStartCommand`, `startEverything`, `teardown`, `onDestroy` | framework (intents, `stopSelf`), native code (JNI), tun2proxy, screen (`VpnState`) |
| Native handle table | `src/android_jni.rs` | `slots()`, `NEXT_HANDLE`, a runtime per handle; the log ring | `startProxy`, `stopProxy`, `statsJson`, `exportCa`, `drainLogs`, `testSni` | service, screen (JNI); proxy server |
| Screen | `MainActivity.kt`, `ui/HomeScreen.kt` | the settings, the consent dialog; what it shows of statistics and logs | Connect, Disconnect, CA export, the poller, SNI tester | framework, handle table, log ring |
| CA store | `src/mitm.rs` | `mmdf-ca/ca.key`, `ca.crt`; a leaf cache for one connection | `open` (load or create), `server_config`, `export_crt` | every fronted connection, `exportCa`, `main.rs --export-ca` |
| Accept loop | `src/proxy_server.rs:46-91` | two listeners, `Stats` | `run`, shutdown | handle table, one task per connection |
| Plain HTTP | `src/proxy_server.rs:112-190, 258-303, 454-604` | one task: a client connection, a server connection, buffers | `read_head`, `serve_plain_http`, `relay_one_response` | client, servers, CA store, `Stats` |
| Tunnels | `src/proxy_server.rs:192-256, 306-431, 606-620` | one task: two connections | `handle_connect`, `handle_socks`, `pipe_counted` | client, server, CA store, `Stats` |
| Fronted egress | `src/fronting.rs` | none | `connect_fronted`, `probe_sni` | servers |
| Configuration and routing | `src/config.rs`, `ConfigStore.kt` | the configuration, constant once a proxy runs | `parse_mixed`, `validate`, `front_for`; `load`, `save`, `toRustJson` | screen, proxy server |
| CA installation | `CaInstall.kt` | none | export, hand to Settings, compare fingerprints | handle table, Android |
| Logging, theme, application, build | `src/logging.rs`, `ui/theme/`, `MmdfApp.kt`, Gradle and Cargo files | none of interest | | |

Which behaviours are hard, and what makes each part correct:

- **VPN service.** The main thread, one thread per Disconnect and the tun2proxy
  worker share plain fields; only `tornDown` is atomic. Disconnect can meet a start
  that is half done, a second Disconnect, or `onDestroy`; the join can time out; the
  process can be killed and its sticky service restarted. It is correct when
  teardown excludes itself, the number of a proxy that is alive is where a stop will
  find it, no proxy is started beside another, none is stopped twice, the main thread is never lost in a join, and the screen is right
  once everything has come to rest.
- **Handle table.** `startProxy` decides before the run loop has bound its ports,
  `stopProxy` releases the lock before it shuts the runtime down, and handles outlive
  their proxies in pollers and fields. It is correct when a handle names one proxy
  for the life of the process, and whoever takes its record out is alone in shutting it
  down.
- **CA store.** Opened by every fronted connection, in a task each, without a lock,
  while files are created by two writes of two steps each. It is correct when a key
  always has a certificate, the two belong together, there is one CA, a CA that
  is there is never replaced, and what the user was given to trust is that one.
- **Plain HTTP.** Requests and responses arrive joined and split as TCP pleases,
  peers pipeline, answer early, truncate, send too much, reset, or wait, and what one
  request leaves in the stream is read as the next. It is correct when responses stay in
  order and whole and nothing foreign gets between them, and every request is answered or
  its connection closed.
- **Tunnels.** The answer, the client's TLS and the server's connection are
  interleaved differently on each leg. It is correct when each direction is a pipe
  (nothing lost, doubled or overtaken, half-close respected), the answer is honest,
  and a finished tunnel ends.
- **Chunked bodies.** The end is looked for in bytes that are read in pieces and written
  out when there are too many. It is correct when the client gets what the server
  sent, up to the body's own end and not beyond.
- **Accept loop and screen.** Connections, restarts on the same ports, a ring that many
  tasks write, and a coroutine that reads flags others change while it waits. It is
  correct when no connection waits for another, and the
  screen shows the proxy that runs and each log line once.
- **Routing.** Groups, passthrough and extra domains overlap; it is correct when the
  first that matches, in a fixed order of precedence, decides.

## 2. The modules

```
   ServiceManager   NativeProxy   AcceptLoop   StatsPoller
              \      /        \        |        /
           MmdfVpnService          LiveProxy
                 |                /         \
              VpnApp     MCLiveProxy   LiveProxyProofs
             /      \
      MCVpnApp   VpnAppProofs              BytePipe
                                          /        \
   Routing: RoutingProofs     Routing -- Tunnel    ChunkRelay: MCChunkRelay, ChunkRelayProofs
   CaStore: MCCaStore, CaStoreProofs    /      \
   PlainHttp: MCPlainHttp        MCTunnel    TunnelProofs -- RoutingProofs, StreamProofs
   PlainHttpProofs -- StreamProofs
```

**`NativeProxy`**: `android_jni.rs`' table. `startProxy` is `SpawnRun` (the run loop
is spawned; it binds, or it does not and its error is dropped: state `"deaf"`) and,
after the 400 ms sleep, `RecordHandle`. `stopProxy` is `RemoveSlot`, under the lock,
and `ShutDown`, after it: the runtime is `"closed"` when `shutdown_timeout` returns, or, if
it takes longer than the 5 s it waits for, `"leaving"` until `RuntimeEnds`. The listeners
of a proxy that is being shut down may or may not be gone when the next one binds.

**`ServiceManager`** (external): what Android does with `startService`, `stopSelf()`
and START_STICKY: service records, one service object per record, and one queue of
messages for the main looper.

**`MmdfVpnService`**: `startEverything`, `teardown`, the looper's callbacks and the
tun2proxy workers. A step is one access to shared state or one step of a native call,
so each interleaving of the threads is a behaviour. `Native.stopProxy(proxyHandle);
proxyHandle = 0L` is there four times in the code, and once here: `ReadArgument`,
`RemoveRecord`, `ShutRuntime`, `ForgetHandle`, with a place for each of the callers (the
two failures of a start share one), so that a thread may find the field changed between any two. tun2proxy itself is external: `run`
returns after a `stop()` that came while it ran, or by itself; `stop()` reaches no
`run` that has not begun (`Tun2proxy.kt`).

**`VpnApp`** composes them with the screen's button and consent dialog
(`MainActivity.kt`, `HomeScreen.kt`), revocation by another VPN app, and the death of
the process. `Patient` says whether the user waits for the app to come to rest.

**`CaStore`**: `CaManager::open`, `load` and `create` as file operations of
concurrent openers, `exportCa`, and `--export-ca` from another process. A file is
missing, torn (truncated, not yet written) or holds the half of key pair *n*; a copy, like
a write, is two steps (`TruncExport`, `CopyCrt`), between which the process may be killed or
the copy fail. `fromSettled` remembers whether the files were settled when the copy was made.

**`PlainHttp`**: the keep-alive loop of `handle_http` for one connection, with its
client and servers. Streams are sequences of parts (head, piece, last chunk) and each
read takes any non-empty prefix of what has arrived. The servers are well-behaved
HTTP/1.1 servers; `Hazards` adds what they and the client may do besides, such as an answer
before the body is there (`"early"`) or more than `Content-Length` (`"excess"`). The body of
a request has a number of its own, because `handle_http` may come to read it as a
head: it then waits for a blank line, in the body or in a head behind it, and serves what
it has for a request, or drops the connection because it does not parse (`EndsHead`, `ReadHead`).

**`ChunkRelay`**: one chunked body in `relay_one_response`, byte by byte: what was read
with the head, `find_chunk_end` over the accumulator, its flush at a limit, reads of any
length, and an end or a failure in between. `Pipe` maps it to `BytePipe`.

**`AcceptLoop`**: `ProxyServer::run` and its connections: bind, accept and a task of its own
for each, the stop channel, the end of the runtime. The two listeners are one, because
nothing here tells them apart, and a task is only a number: what it does is in
`PlainHttp` and `Tunnel`.

**`StatsPoller`**: the log ring (`Log`, `DrainLogs`), `statsJson`, the two StateFlows of
`VpnState`, and the screen's coroutine, one action for each stretch between two
suspensions. `Recompose` is a composition that finds a key changed: the coroutine is
cancelled wherever it is and what it was waiting for is discarded.

**`LiveProxy`** composes `NativeProxy`, `AcceptLoop` and `StatsPoller` under a service that
starts and stops one proxy at a time, call by call in `MmdfVpnService`'s order, and any
number of tasks that log. `VpnApp` has the service's own interleavings; here what
depends on a running proxy meets starts and stops. Each start finds its ports taken or not,
by whomever; that a shutdown may outlast its limit is left to `VpnApp`, since all it does to the
next proxy is to keep the ports.

**`Routing`**: `front_for`, `validate` and what they call, as operators on
configurations; `toRustJson`, which makes a configuration of the settings on the
screen; and what both sides fill in for what a file does not say (`Load`, `ParseMixed`). A name is the sequence of its labels, so that `ends_with(".d")` is a proper
suffix, a trailing dot is an empty last label, and capitals are a function `Lower`. `Configurations` and `UiSettings` are what
serde and `ConfigStore.load` can give, `Chosen` the domains a user chose.

**`BytePipe`**: the abstract specification of one direction of a tunnel; **`Tunnel`**:
`handle_connect`, `handle_socks` and `pipe_counted`, on both legs; `Routing` decides
which, for every accepted configuration and every host of the instance. `Up` and `Down`
map a tunnel to a pipe; `UpIsPipe` and `DownIsPipe` say that it implements it. On the
fronted leg the pipe carries the plaintext inside both TLS connections. What precedes
it in each direction is the proxy's own and not payload: `Preamble` counts these parts, a
head and its answer, or greeting and request and theirs, and on the fronted leg the hello
and the certificate.

Definitions named `...Unchecked`, `...Forgotten`, `...Lost` and so on, each under a
comment "Mutant", are deliberately wrong variants of the definition that follows
them. No specification uses them; replacing the right one by them makes TLC report
the property that guards it, which shows that the property can fail.

## 3. What TLC checks

| run | instance | shows |
|---|---|---|
| `vpn_safety` | impatient user, 4 events (taps, revocations, kills), 3 teardown threads, every fault | `TeardownExclusive`, `StopsOnce`, `HandleNamesOneProxy`, types |
| `vpn_patient` | patient user, 6 events, 2 teardown threads, every fault but a tun2proxy that dies or dawdles and a runtime that outlasts its shutdown | at rest the screen is right (`ScreenAgrees`); at all times the number of a live proxy is where a stop finds it (`NoLostRuntime`) and none is started beside it (`StartsOnlyProxy`); a Disconnect takes the TUN down (`DisconnectTakesEffect`); revocations and kills at any time included, the main thread returns (`MainThreadReturns`) and `tornDown` is given back (`TeardownReleases`) |
| `vpn_retap` | impatient user, no faults | **violated**: see 6.1 |
| `ca_concurrent` | 3 openers, 2 key pairs, a phone or a desktop with an exporting shell, crashes, I/O errors | however many open at once: `KeyImpliesCrt`, `SettledForever`, types; while no two ever did: `SequentialValidChain`, `SequentialOneCa`; for both, an export of settled files and one of an app whose opens did not overlap: `ExportIsCurrent` |
| `ca_overlap` | 2 openers | **violated**: see 6.2 |
| `http_serve` | 2 requests, one of them with a body that has a number of its own, all methods, framings and hazards, two kinds of hazards on a connection | `InOrder`, `NothingLost`, `ExcessCut`, `AllCounted`, `SupportedAnswered`, types |
| `http_body` | 1 request with a body | **violated**: see 6.3 |
| `chunk_relay` | bodies with and without a terminal chunk, with and without bytes that imitate one, servers that truncate | `RelayIsPipe`, `WholeUnlessImitated`, `EndIsNoticed` |
| `chunk_imitated` | a body whose data imitates its end | **violated**: see 6.4 |
| `tunnel_safety` | both protocols, all asks, settings saved in full, in part and not at all, desktop files, 7 hosts, 2 ports, 3 pieces each way, all hazards but an eager CONNECT | `UpIsPipe`, `DownIsPipe`, `HonestAnswer`, `NeverMitm`, `OnlyWhatIsChosen`, `SpellingIrrelevant`, types |
| `tunnel_progress` | both protocols, 2 pieces each way, no broken connections | `EverythingArrives`, `TunnelEnds`, `HelloAnswered` |
| `live_proxy` | 2 proxies one after the other, each with or without its ports, 2 connections, 3 log lines, a ring of 1, a screen of 2 lines | `LogsInOrder`, `PendingServed`, `StoppedIsBlank`, `StatsArrive`, limits and types |

### The bounds

- `MaxEvents`, `MaxInstances`, `MaxHandles`: a Connect and a Disconnect that overlap
  take two events, and a third and a fourth meet what they left behind: it takes two
  Disconnects and a second Connect to have two threads at one proxy. Service objects
  and handles are never fewer than the events can use, so that these two bounds cut
  nothing off; the same holds for teardown threads, which go back to a pool. The
  threads are interchangeable, and `vpn_safety`, which has no liveness property, uses that
  (`StopperSymmetry`). `vpn_patient` has six events, because taps that wait for each other
  need more of them to get as far.
- `MaxCas = 2`: two overlapping creations are what can mix files, and two that follow
  each other are what a crash or an error in the first leads to. With three openers
  the third only ever loads, or waits for a third pair to be generated, which the
  bound disallows; the proofs cover any number of openers and pairs.
- `MaxAsked = 2` has a successor for a response to run into; `MaxRequests = 3` adds a
  body to them, with its own number. `MaxMet = 2` kinds of hazards on one connection, any two
  of nine, keep the run within minutes; the proofs have no such limit. A body is two pieces, so
  that it can be split between the head's read and later ones, and `FlushAt = 1` makes a
  chunked body cross the accumulator's limit.
- `MCChunkRelay`'s bodies have at most 24 bytes, data that ends like a terminal chunk
  begins, a trailer field, and both ways to imitate the end; `FlushAt = 6` lets the flush
  cut through the five bytes at every place. The proofs cover all bodies and limits.
- `MaxData = 3` pieces each way suffice to lose, double or reorder one in the middle;
  2 do where liveness is checked.
- `MCTunnel`'s hosts take every way through `front_for`: passthrough, the first of two
  groups that match, with and without an address of its own, an extra domain, none;
  written plainly, in capitals and with a dot at the end. Its settings are none saved,
  some groups with extra domains and a cleared name, and one that `validate` refuses;
  its desktop files make groups, passthrough and extra domains overlap, or say nothing.
- `MaxHandles = 2` in `live_proxy` is one restart, with the poller's handle, its answer or
  its cancellation left over from before; `MaxClients = 2` lets one connection wait for
  another, `MaxLines = 3` overflows a ring of one line and a screen of two.

Deadlock is checked where the system cannot stop: in the CA store, whose process can
always be restarted. Elsewhere `CHECK_DEADLOCK FALSE` is set because the events run out or the
connection is over.

### Fairness

- The service: the scheduler runs a thread that can go on; the looper delivers; a
  tun2proxy thread enters `run`, and `run` obeys `stop()`; Android brings down a
  service that is neither requested nor the active VPN. `JoinTimesOut` is a clock, and
  `TeardownStep`'s fairness takes it or the join's success. No fairness for taps,
  revocations, kills, or a tun2proxy that gives up.
- Plain HTTP: the runtime polls a task that can go on; a client sends the body it
  announced; a server answers a request it has the whole of. No client has to send
  or to leave.
- Tunnels: the runtime polls, and `copy_bidirectional` polls both directions. What a
  client or server sends, or leaves unsent, is its own affair; nothing is said of a
  client that falls silent in the middle of a request, for which the code has no
  timeout.
- Chunked bodies: the runtime polls the relay. Nothing makes the server send or close.
- The live proxy: the runtime polls the accept loop; the main thread composes and runs its
  coroutine; the service finishes a start or a stop it has begun. Nothing makes it start
  or stop, a client come, a connection end, or anything be logged.

## 4. What is proved

TLAPS proves these for every value of the constants, from the modules' `ASSUME`s only:
bounds that are natural numbers or positive; known protocols, methods, framings and hazards; `Main` is
not a teardown thread; lowering a label twice is lowering it once, and only the empty label
becomes the empty one; settings and files say what `load` and `parse_mixed` can read, and hosts are names.

| theorem | module | says |
|---|---|---|
| `TypeCorrect` | `VpnAppProofs` | `Spec => []TypeOK` |
| `ProxyStopsOnce`, `HandlesNeverReused` | `VpnAppProofs` | `StopsOnce`, `HandleNamesOneProxy` |
| `TeardownIsExclusive` | `VpnAppProofs` | `TeardownExclusive` |
| `ScreenIsRight`, `NoRuntimeLost`, `ProxyStartsAlone` | `VpnAppProofs` | `ScreenAgrees`, `NoLostRuntime`, `StartsOnlyProxy`, for a user who waits (2) |
| `TypeCorrect`, `KeyNeverAlone`, `FilesSettle` | `CaStoreProofs` | `TypeOK`, `KeyImpliesCrt`, `SettledForever` |
| `ChainsAreValid`, `CaIsOne`, `ExportStaysCurrent` | `CaStoreProofs` | `SequentialValidChain`, `SequentialOneCa`, `ExportIsCurrent` |
| `TypeCorrect`, `ResponsesInOrder` | `PlainHttpProofs` | `TypeOK`, `InOrder`, under every hazard |
| `NothingIsLost`, `EverythingIsCounted` | `PlainHttpProofs` | `NothingLost`, `AllCounted`, under every hazard |
| `UpIsABytePipe`, `DownIsABytePipe` | `TunnelProofs` | `Spec => UpIsPipe` (1), `Spec => DownIsPipe`: a tunnel refines `BytePipe` in each direction |
| `PassthroughNeverMitm`, `LeavesAreChosen`, `SpellingDoesNotMatter` | `TunnelProofs` | `NeverMitm`, `OnlyWhatIsChosen`, `SpellingIrrelevant`, for every configuration, host and port |
| `AnsweredHonestly` | `TunnelProofs` | `HonestAnswer`, for both protocols |
| `TypeCorrect` | `TunnelProofs` | `TypeOK` |
| `TypeCorrect`, `BodyIsWhole` | `ChunkRelayProofs` | `TypeOK`, `WholeUnlessImitated` |
| `RelayImplementsPipe` | `ChunkRelayProofs` | `Spec => RelayIsPipe`: `ChunkRelay` refines `BytePipe` |
| `TypeCorrect`, `LogsStayInOrder` | `LiveProxyProofs` | `TypeOK`, `LogsInOrder` |

Four theorems have hypotheses on the constants, because the code breaks the property
without them (section 6): (1) `"eagerConnect" \notin Hazards`, no client sends on right behind
a CONNECT head; (2) `Patient`, the user
taps only when the app is at rest (without it: 6.1, and the lost proxies below it), `"tun2proxy" \notin Faults` and
`"slow" \notin Faults`, no tun2proxy ends unasked or needs longer than teardown's three
seconds to end. All other hazards and faults are allowed: in (2) every failure of a start,
runtimes that outlast their shutdown, and revocations and kills at any moment.

The arguments:

- `StopsOnce` is not inductive. `HandleInv` adds what it rests on: recorded handles are
  below `NEXT_HANDLE` and alive, runtimes above it do not exist yet, the one at it exists
  only while `startProxy` sleeps, what a stopping thread holds is below it and out of
  the table, and whatever is alive is in the table or with a thread that starts or stops it
  (`OnRecord`). As far as it is concerned, every step of the app spawns, records, takes
  out, shuts down or ends a runtime, or touches none (`HandleEffect`): one lemma per
  effect shows that `HandleInv` is preserved, one per action shows which effect the action
  has. That a stopped handle stays stopped follows from the same effects.
- `TeardownExclusive` is inductive with the types. Each step enters the critical
  section, leaves it, or moves nobody across its border.
- `ScreenAgrees` speaks of states at rest only; `ScreenInv` says of all the others what has been done and
  what is still owed. Everything under way concerns the service object created last
  (`OneObject`), and there is one proxy and one live tun2proxy, both that object's
  (`OneTunnel`). A start begins with nothing left of what was before (`BeginsOff`), runs
  beside no teardown, and what it has built is written down step by step
  (`StartsAlone`); so is what a teardown has taken down (`TakenDown`). Whoever is
  neither starting nor stopping, and has no teardown posted, has nothing or all of it (`Settled`).
  Least obvious is `Wanted`: `Tun2proxy.stop()` reaches only a worker that has come to its
  `run()`, and a teardown meets no other that has the TUN, because a patient user taps
  Disconnect only when it is running, and the other ways to lose the service, a failed start,
  a revocation or an earlier stop, have all taken the TUN away before. The proof has a lemma for each thread's steps, and in it each of the seven parts.
  `HandleInv` and `TeardownExclusive` are used throughout: the first gives at the end that
  an empty table means no runtime is alive.
- A record in the table is not yet a proxy in reach: `stopProxy` needs its number, and the
  field that held it may have been overwritten. `NoLostRuntime` is about the number. It
  follows from `ScreenInv`: the one proxy's number is in the field of the current object
  (`OneTunnel`), and if Android no longer has that object, a stop or an `onDestroy` of it is
  posted or has not yet read the field (`Settled`, `TakenDown`). `StartsOnlyProxy` is
  `BeginsOff` together with `OnRecord`.
- `KeyImpliesCrt` and `SettledForever` follow from `FilesInv`: no step ever removes a
  file, the truncation that brings `ca.key` into being is only reached past the
  certificate's, and an opener that reads has seen both. `SettledForever` needs in
  addition that whoever finds both files goes on to load.
- `SequentialValidChain`, `SequentialOneCa` and the part of `ExportIsCurrent` that is about
  the app follow from one invariant, `PairInv`, which holds until two openers are inside at once
  (`overlapped`): a complete key file has its own certificate next to it, whoever is
  between the two writes has found no complete key, and what was opened or exported is
  the pair on disk, so that nothing else can ever have been. The window between the
  writes is where a second opener breaks it (6.2). A copy of settled files is right
  however many open at once, because the files stay settled (`ExportInv`).
- `NeverMitm`, `OnlyWhatIsChosen` and `SpellingIrrelevant` are not inductive. `LegInv` adds
  that the handler is on the fronted leg only if `front_for` gave one, that a certificate
  among what the client received means the same, and that what a server sent and is still in
  flight holds no certificate. The rest is about routing (`RoutingProofs`): a
  passthrough host has no fronted leg (`PassthroughFirst`); a leg is there only for what
  lies below a domain of an enabled group or an extra domain (`LegsAreChosen`); hosts
  that are the same but for capitals and dots are the same name once trimmed and lowered,
  which is all `front_for` looks at (`SameTrimmed`, `SameLeg`).
- `HonestAnswer` needs `AnswerInv`: up to the step that answers, the client has no final
  answer and its leg is not counted; and what a server sends through the pipe is none
  (`DataAnswersNothing`), which is `LegInv`'s part in it.
- The refinements of `BytePipe` by a tunnel rest on three layers. `StageInv` says how far the
  exchange before the pipe has come at each `pc`, and that nothing was relayed or counted
  yet; `StreamInv` that the handler never has taken more than the client sent; `UpInv` and
  `DownInv` that in each direction what was sent, behind the preamble, is what arrived joined
  with what is in flight. `NextUp` and `NextDown` then map each action to a send, a
  delivery of any length, an end, or a stutter. Where the handler takes a CONNECT head,
  what it throws away with it is empty only because the client was not eager (`HeadAlone`).
- `TypeOK` of `Tunnel` bounds the counts by what was sent (`Counted`).
- `InOrder` needs `RequestInv` and `ResponseInv`: what the proxy has not
  dealt with of the client's stream (`Unread`), heads and bodies alike, is above the request
  that is served and increasing, up to the last number of which anything was sent (`Rising`,
  `Reached`), so that whatever is next taken for a head, a left-over body or a head glued to
  one, is served at its place; until the proxy has relayed the head of the
  current response the client has nothing of it, and afterwards nothing that begins a
  response is under way (`Whole`, `Body`). So whatever is written next belongs behind
  what was written before.
- `NothingLost` needs `WholeInv`, which begins before the relay does: while the head is
  waited for, what is in flight and still to come is the server's whole reply; while it is relayed, so is
  what the client has of it joined with the accumulator, the flight and the rest (`Owed`), and a
  client that waits for more of a chunked body has no terminal chunk yet. Once the
  server has cut it short it is a beginning of the reply (`Intact`). That reads split and join at
  any place, and that the accumulator is flushed at any length, are regroupings of these four
  streams (`Moved`, `JoinedAssociative` in `StreamProofs`).
- `AllCounted` needs `CountedInv` at every `pc`: all that the client has is counted, unless a
  response was truncated or had a trailer. The step to show is the end of a chunked body:
  when its stream is over and no terminal chunk came, then it was cut short or what it ends with is
  a trailer (`EndsWithTrailer`), by `WholeInv`; so the code's path that forgets to
  count is taken only there.
- `PlainHttp`'s types add `CountInv`: no read takes more off `left` than there is
  (`TakeBounds`), whatever the server sends, so that it is never counted below zero.
- `ChunkRelay`'s `Inv` says where every byte is: what was sent is what the client has,
  then `acc`, then what is in flight; and a relay that is done has all of it or stands
  behind a terminal chunk. The refinement follows step by step (`NextPipe`): a write of
  any part of `acc` is a delivery of `BytePipe`, everything else a send, an end, or a
  stutter. `BodyIsWhole` adds that in a body without imitations the five bytes stand
  only at the end (`EndOfBody`).
- `LogsInOrder` needs `OrderInv`: screen, answer and ring are increasing, each below the
  next, and none above the last number logged. Writing a line, taking the last lines and
  joining two sequences preserve that (`AppendOrder`, `LatestElements`,
  `IncreasingConcat`).

`StreamProofs` gives concatenation and the rest of a sequence names of their own, `Joined` and
`From`, which the proofs of `Tunnel` and `PlainHttp` use without unfolding them: what they need is how
the two interact. Where an argument asks for the first or last element with a
property (which group matches, where a name ends), it takes the least of a set of numbers (`LeastNatural`).

Only model-checked: liveness, `DisconnectTakesEffect`, `EverythingArrives` and `EndIsNoticed`
among it, which is out of the provers' reach; and the invariant `ExcessCut`. Every other
invariant and action property that a passing run checks is proved.

## 5. How code and model correspond

Not the code but its control is modelled: each guard, early return and error path
that changes shared state, in the code's order. The assumptions behind that:

- Plain Kotlin fields are sequentially consistent: the threads are started and joined
  around most accesses, and reorderings the JVM may add are not modelled.
- Dropping a connection after an error looks to its peer like any other end
  (`closed`, `gone`): an orderly end and a reset are not told apart.
- In `PlainHttp` it does not matter which leg a host takes. In `VpnApp` settings are
  refused or not by a nondeterministic choice; `Routing` says which are.
- `Routing` begins with the parsed configuration: the syntax of JSON and TOML is left
  out. A `config.json` that is missing or torn is settings that say nothing.
- The CA's cryptography is a pairing of numbers. `ReadKey` reports a bad key at once
  although the code reads the certificate file before it parses the key; no state
  changes in between. A leaf cache lives for one connection, which asks it once: every
  tunnel mints (`MintLeaf`). The leaf is for the name in the client's hello, and
  `front_for` is asked about the host the client named to the proxy; the models have
  clients that give the same name twice.
- In `ChunkRelay` a byte is one of six, enough to write chunk sizes, line ends and data.
  In `AcceptLoop` an `accept` that fails changes nothing, as in the code.
- In `StatsPoller` a stretch of the coroutine between two suspensions is one step, on the
  main thread, and so is what `withContext` runs elsewhere, under a lock. A cancelled
  coroutine throws away what it waits for: `delay` stands outside the `try`
  (`HomeScreen.kt:86-87`), so that it also ends.
- The code at this commit does not compile in places (`UpStream::Tls` holds a stream type other than the
  one `connect_fronted` returns, `?` applied to errors without a conversion, an extra brace in
  `HomeScreen.kt`); the evident intent is modelled.

Not modelled, and why: TLS, X.509 and DNS (cryptography and libraries); `probe_sni` and the SNI
tester, whose overlapping passes overwrite each other's result on the screen and nothing else,
`CaInstall.kt`, argument parsing, printing (sequential I/O whose results are only displayed);
`logging::init` and `init_logging` (one-time installations); an `accept` that keeps failing when
descriptors run out (the loop then spins; the model has no descriptors); the re-creation of the
activity (the screen then begins as `PollerInit` does); theme, notifications, build files
(no behaviour a property is about). `runTun2proxy` of `android_jni.rs` is not called by the app.

## 6. What disagrees with the code's own words

Four runs show a disagreement.

1. **`vpn_retap`** (`MmdfVpnService.kt:135`). `Tun2proxy.stop()` is called once. If the
   worker has been started but has not entered `run`, the stop is lost, `join(3000)`
   gives up, and the teardown clears `VpnState`: the screen says Stopped while the TUN
   is up and leads to a tun2proxy whose proxy is gone. `VpnState.kt:7` calls the flag
   "is the VPN/proxy up?".
2. **`ca_overlap`** (`mitm.rs:64`). Two first fronted connections both find no CA and
   both create one; `ca.crt` may end up from one and `ca.key` from the other, and each
   later open loads the mismatched pair for good. `mitm.rs:4-5` promises a valid chain.
3. **`http_body`** (`proxy_server.rs:295`). A request body that was not read together
   with its head is never forwarded; the server waits for it, and proxy and client wait for
   the server. `proxy_server.rs:9-10` promises to forward the request.
4. **`chunk_imitated`** (`proxy_server.rs:601`). The first five bytes `0 CR LF CR LF` of a
   chunked body end its relay, wherever they stand: inside a chunk's data, or where a
   size that ends in 0 is followed by data that begins with an empty line. The rest is not
   relayed, and the client waits for it. `proxy_server.rs:559` calls it "simplest correct:
   pass through chunk framing until terminal 0-chunk".

The models show these too, without a run of their own; each can be reproduced by adding
what is in parentheses:

- A user who taps on without waiting can leave a proxy that runs and that nobody can stop
  (`NoLostRuntime` with `Patient = FALSE`; `slots` still has it, but no one its number).
  Connect, Disconnect, Disconnect, Connect: the first teardown is through but for
  `tornDown.set(false)`; the second ACTION_STOP loses the compare-and-set, and its
  `stopSelf()` withdraws the Connect that has started a new proxy; `onDestroy` loses the
  compare-and-set too, and its object goes with the number, the proxy and the TUN still up.
  Connect, Disconnect, Disconnect, Connect, Connect: a teardown comes from `stopProxy`
  of the old number and sets `proxyHandle = 0L` over the number of the new proxy
  (`MmdfVpnService.kt:140-141`).
- `startProxy` returns a handle although the run loop could not bind, because another
  process has the ports or a stopped runtime needs longer than 5 s
  (`\A h \in slots : proxy[h] = "listening"`, fault `"bind"` or `"stuck"`); `Native.kt:16` says
  "Returns handle (>0) or 0 on failure".
- tun2proxy ends by itself and the screen goes on saying Running: only `tunRunning`,
  which nobody reads, changes (`ScreenAgrees` with fault `"tun2proxy"`).
- A Disconnect tapped while an earlier teardown still holds `tornDown` does nothing,
  although a start came between the two (`DisconnectTakesEffect` with `Patient = FALSE`).
- A process killed between truncating and writing `ca.key` leaves a file that no later
  `open` can load or replace (`Settled => key \in Cas`); `MainActivity.kt:88` says "Tap
  Connect once, then retry".
- `exportCa` killed, or failing, between `fs::copy`'s truncation and its copy leaves an
  empty file where an earlier export may have been (`exported # Torn`); and a copy made while
  another task rewrites `ca.crt` holds a certificate the proxy does not present
  (`ExportIsCurrent` without its condition; `android_jni.rs:233-237`).
- Starting the proxy does not create a CA, the first fronted connection does;
  `MainActivity.kt:85` and `main.rs:32` say otherwise.
- A response whose body is delimited by the end of the connection leaves the client
  waiting, because the connection is kept alive; and the part of it that was read along
  with its head is dropped (`AnsweredOrClosed` with framing `"close"`; `NothingLost`
  without its `mode # "close"`). A 1xx head is taken for the whole response
  (`"interim"`), and a response the server cuts short leaves the client waiting for the
  rest (`"truncate"`).
- A request body that was not read along with its head is read as the next one. If it reads
  as a request, alone or up to the blank line of the head behind it, it is served, and the
  client takes the response for that of what it asks next (`Strayed`, with methods `"post"`);
  otherwise the connection is dropped. It takes a server that answers without waiting for
  the body, with an error say (`"early"`), or a pipelining client (`proxy_server.rs:148-190, 295`).
- With "SNI for Meta + DNS" cleared, `validate` (`config.rs:213-221`), which requires
  `front_domain`, accepts the configuration; hosts of those groups are then told 200,
  shown a leaf, and dropped, since no TLS connection can be opened under an empty name.
- A passthrough, group or extra domain written with a dot at its end never matches:
  the host is trimmed, the domain is not (`config.rs:24-32, 175-181`).
- A chunked body whose terminal chunk is cut in two by the flush at 1 MiB ends only when
  the server closes (`EndIsNoticed` without `Cut`). The comment at `proxy_server.rs:568`
  speaks of keeping a tail, which the code clears.
- Killed in the middle of `ConfigStore.save`, the app comes back with the default settings, every
  group switched on, whatever the user had chosen (`ConfigStore.kt:52-53, 72`).
- What a client sends right behind a CONNECT head, in the same read, is dropped
  (`UpIsPipe` with hazard `"eagerConnect"`). SOCKS5, which reads exactly, is safe.
- A tunnel that ends with an error is not counted at all (`PipeBreaks`,
  `proxy_server.rs:618`), nor is a chunked response with a trailer or without its end
  (`AllCounted` with `"trailer"`, `"truncate"`); `Native.kt:34` says "Live counters".

## 7. Plan

Done, in this order: the Android side (its threads are where the interleavings are),
its proofs, the CA store with its proofs, plain HTTP and tunnels, both with proofs, routing; chunked bodies
with the refinement of a pipe and its proof, the accept loop, log ring and poller composed
with the handle table, their proofs, the defaults of both configuration files; the proofs that
plain HTTP loses nothing and counts everything, that a tunnel is a pipe in each direction, and
that routing follows the user's choice, that the screen is right to a user who waits, and that such a user loses no
proxy. Next:

1. **Proofs**: `ExcessCut`, and what remains true of screen and handles for an impatient user.
2. **Names**: a client whose hello carries another name than its CONNECT, and what
   passthrough then means.
3. **Android memory**: the plain fields of `MmdfVpnService` without sequential consistency.
