# TLA+ models of the reverse proxy

This directory holds TLA+ models of the concurrent parts of the repository:
- TLC model-checks them on small instances.
- TLAPS proves their main safety properties for every instance.

Build and check:

```
cd tla
tlasany M.tla                                  # parse a module
tlc -workers 2 -config X.cfg MCM               # model-check a run (see PROJECT.json "runs")
tlapm SSHServiceProofs.tla     # check the proofs; likewise SSHServiceRefinement,
                               # RelayProofs and HealthCheckProofs
```

## The system and its parts

| Part | Source | What it does |
|---|---|---|
| Control-channel service | `src/pkg/ssh/service.go` | Serves one SSH session with several goroutines, described below. |
| Relay engine | `src/src/frp/utils/conn/conn.go` | `Conn` wraps a TCP connection with a `closeFlag` under a mutex. `Join(c1, c2)` copies bytes both ways with two goroutines and waits for both on a `sync.WaitGroup`. `JoinMore` does the same, but one direction encrypts and length-prefixes frames (`PipeEncrypt`, `pkgMsg`) and the other decodes them (`PipeDecrypt`, `unpkgMsg`). Each direction closes both Conns when it ends. |
| Listener | `conn.go` 1-91 | An accept goroutine feeds a channel, and `Close` closes it. |
| Health-check monitor | `src/models/proto/tcp/process_test.go` 82-214 (package `client`) | A `checkWorker` goroutine dials (tcp) or GETs (http) a backend each interval, under a deadline. It calls `statusNormalFn` and `statusFailedFn` when the status changes. `Stop` cancels its context. |
| Server config validation | `src/pkg/config/v1/validation/server.go` | Pure validation of a configuration struct. |
| Tests | `src/unnamed/part_000`, `part_001`, `process_test.go` 24-66 | Echo servers, the integration tests TestTcp/TestUdp/TestHttp, and TestJoin. |

The control-channel service runs these goroutines:
- `loopParseCmdPayload` reads global requests (tcpip-forward) and hands each to `addrPayloadCh`.
- `loopParseExtraPayload` accepts data channels. For each one it starts a sideband reader, which hands commands to `extraPayloadCh`, and a `loopSendHeartbeat`.
- `loopGenerateProxy` runs one pairing cycle after another. In each cycle two waiter goroutines take one forward request and one extra command, joined by a WaitGroup. It then sends a `TCPProxyConfig`.
- `loopReply` closes the service on a proxy error.
- `Close` can be called from several goroutines. It closes `closeCh` and the handoff channels, waits for the SSH connection, and tears down.

These parts interact: the service hands out `TCPProxyConfig`s, and the proxy joins the resulting data connections with the relay engine. The model keeps them as separate components. Their interface is one value (a config) in one direction, so composing them would add states without adding interleavings that matter.

## Modules and how they correspond to the code

### SSHService, MCSSHService, SSHServiceProofs, PairingSink, SSHServiceRefinement

- **Processes.** Every goroutine of service.go is a process with a program counter `pc[p]`. A process id is `<<role, channel>>`: GR, ACC, GEN, W1, W2, REPLY, and `RD(c)` and `HB(c)` for each data channel `c`.
- **Channels.** An unbuffered channel send and its receive are one joint step. `grMsg` and `rdMsg[c]` hold the value a sender offers.
- **Close.** `Close` is inlined into each caller as the labels `c_check` … `c_teardown`:
  - the `exit` check and the `closeCh` check-then-act (127-136);
  - closing the handoff channels, where a send on a closed channel panics and `PanicToError` recovers it;
  - `sshConn.Wait`;
  - the teardown.
- **Panics.** A second `close(closeCh)` is an unrecovered panic. The `panicked` flag records it and stops every step.
- **Environment.** The client is the environment: it sends forward requests from `Fwd`, opens and closes channels from `Chan`, and disconnects.
- **Payloads.** They are model values. An extra command is its kind plus, as a ghost field, the channel it came from. `emitted` is the set of configs sent.
- **Not modelled.** Parsing (`parseSSHExtraMessage`, `ParseTCPCommand`) is abstracted to its outcome: a typed command, an untyped one, or an error.
- **Abstract specification.** `PairingSink` states what the service promises the consumer of `proxyPayloadCh`, without goroutines:
  - requests arrive (`Request`), channels are accepted (`Open`), and the session starts to close (`Close`);
  - `Emit(f, c)` hands over a config that pairs an accepted channel `c` with a received request `f`, neither used by an earlier config;
  - once closing, `f` may be the empty request instead. This is the cycle Close cut short (the `service_speculative_config` finding), which the code really sends.

  SSHService instantiates it as `Sink` with `requests <- issued`, `channels <- opened`, `configs <- emitted` and `closing <- closeCh`. `SinkSpec` is its specification, with the stuttering disjunct written first so that TLC tries it first.

### Relay, MCRelay, RelayProofs

- **Modes.** The variable `mode` is "raw" for `Join` and "framed" for `JoinMore`. It is the caller's choice: Init picks it and no step changes it. `C1` and `C2` are the two Conns.
- **Directions.** Each direction `i` has a pc:

  idle → copy → done → close1 → close2 → end

  The `done` → `close1` step is `wait.Done()`. The two close steps are the other two deferred calls. Go runs defers last-in-first-out, so `wait.Done()` (deferred last) runs first. The order of the Closes is taken from each closure's defers (`Src`, `FirstClose`):
  - Join closes `from` then `to`;
  - JoinMore closes `to` then `from`.
- **Conn.Close.** `ConnClose` is the check-then-act of `Conn.Close` under the mutex. `closes[c]` counts real `TcpConn.Close` calls.
- **ReadLine.** `ReadLineEOF` sets `closeFlag` without closing the socket.
- **End of a copy loop.** `io.Copy`, `PipeEncrypt` and `PipeDecrypt` end when one of these happens:
  - a read fails: the peer sent EOF, or the other direction closed the socket;
  - a write fails because the destination is closed;
  - in framed mode, the cipher fails.
- **Bytes** are not modelled here: the framing is the Framing module.

### Framing, MCFraming, FramingProofs

- **What it is.** JoinMore's framed path: `PipeEncrypt` on one side of a TCP stream and `PipeDecrypt` on the other. `wire` holds the bytes written and not yet read. `out` is what `PipeDecrypt` has written.
- **Codec.** `pkgMsg` and `unpkgMsg` are modelled byte for byte:
  - the length is 4 big-endian bytes: `LenBytes` is `binary.Write` of the `uint32`, and `BigEndian` is `binary.BigEndian.Uint32` written as the sum of the shifted bytes (the bytes are below 256, so the ORs are sums);
  - `unpkgMsg` returns `cnt = -1` for an incomplete frame, else the body and the rest.
- **Reads.** A read returns any n bytes with 1 ≤ n ≤ `len(wire)` and n ≤ `len(buf)`, because TCP cuts the stream anywhere. `PipeEncrypt` likewise reads any n ≤ `len(buf)` bytes of its source.
- **The loop body** (`DecryptRead`). `left := append(left, buf[:n]...)` declares a new `left` each iteration, so only this read's bytes are unpacked. An incomplete frame is dropped by `continue`, and the rest after a frame is dropped with the loop body.
- **Cipher.** `pcrypto` is not in the repository. A ciphertext has its plaintext's length and any bytes from `CipherBytes`. Each wire byte carries, as ghost fields, its frame and its position. Decrypting exactly the body of frame `k` gives chunk `k` back; anything else fails or yields `Garbage`.
- **Not modelled.** The error returns of `laes.Init` and `w.Write`.

### HealthCheck, MCHealthCheck

- **Constants.** `CheckType` and `MaxFailedTimes`. The latter comes after `NewHealthCheckMonitor`'s replacement of values ≤ 0 by 1.
- **Worker.** The worker is `run` or `checking`, then `stopped`.
- **A check.** `CheckStart` creates the deadline context. `CheckEnd` is one whole loop body:
  1. `doCheck` returns an outcome from `Outcomes`;
  2. the `select` on `ctx.Done()` returns when the monitor is cancelled or the deadline has passed;
  3. otherwise the success or failure branch runs.
- **Outcomes.** `Outcomes` gives `<<ok, late>>` per check type:
  - tcp may succeed only on a live backend, or be cut off at the deadline;
  - http may answer after the deadline, because it ignores ctx;
  - any other type fails.
- **failedTimes** is saturated at `MaxFailedTimes`. This is an abstraction: the code's `uint64` counter is never reset by a success and keeps growing past the bound. Saturation is equivalent for the code's only use of it, a `>=` test. No property is stated about the counter's range, since the bound holds only because of the saturation.
- **Ghost counter.** `net` counts `statusNormalFn` calls minus `statusFailedFn` calls.

## Runs

The cfg names the instance. Each `MC*` module only supplies model values.

| Run | Result | What it shows |
|---|---|---|
| service_safety (2 channels, 2 forwards, symmetry) | pass | `TypeOK` holds, and the service implements `PairingSink` (`SinkSpec`): every config joins an accepted channel and a received forward request that no earlier config used. This is checked over every interleaving, including Close racing the pairing loop. 7.4M states, about 100 s. |
| service_no_leak (1 channel, 2 forwards, FairSpec) | pass | `NoGoroutineLeakAfterExit`: after Close, every goroutine ends. |
| service_double_close | violation | `CloseIsPanicFree` fails: `loopParseCmdPayload` (when the global-request stream ends) and `loopReply` (on a `VProxyError`) call Close at once. Both pass the `closeCh` check, and the second `close` panics. |
| service_speculative_config | violation | `NoSpeculativeConfig` fails: Close during a cycle lets a config with the zero `CmdPayload` be sent. |
| service_leak_after_disconnect | violation | `SessionEndsAfterDisconnect` fails: after the client leaves, no goroutine may call Close. |
| service_proxy_failure_hangs | violation | `ProxyFailureClosesSession` fails: Close blocks in `sshConn.Wait`. |
| relay_join (both modes) | pass | `TypeOK` holds: the WaitGroup stays in 0..2. `CloseOnce` holds. `JoinTerminates` holds: once a peer closes, Join returns. This is checked under every order of peer closes, ReadLine EOFs, read ends, write errors and cipher errors. |
| relay_readline_leak | violation | `SocketsReleased` fails: after a ReadLine EOF the socket is never closed. |
| health_tcp | pass | `CallbacksBalanced` holds: the two callbacks alternate. `StopEndsWorker` holds. |
| health_deadline_exit | violation | `WorkerStopsOnlyOnStop` fails: a slow check ends the monitor. |
| health_http_hang | violation | `StopEndsWorker` fails for http checks. |
| framing_split_reads | violation | `RoundTrip` fails: a read that cuts a frame loses it, and the next read starts inside a frame, whose bytes are decrypted as if they were one. Spec 4.2 and 8 say frames survive split and merged reads. |

What each violation means for the code is listed under "findings" in PROJECT.json.

Every property of a passing run has a mutant in PROJECT.json: a plausible bug in a mapped definition that TLC must catch. Examples:
- Close without the `closeFlag` check;
- `wait.Done` called twice;
- a pairing cycle that keeps the previous cycle's forward request;
- a `select` that ignores Stop.

**Why the bounds are enough.**
- **Service.** Two channels and two forward requests let these things happen:
  - a forward waits for a second command;
  - two heartbeats race into Close;
  - two pairing cycles complete, so a duplicate pairing would show;
  - the close race hits every label of a cycle.
  The liveness run uses one channel to stay within time. Its property is about goroutines ending, and a second channel would only add copies of the same processes.
- **Relay.** The instance is exact: Join has exactly two Conns and two directions.

  The model also has the order in which a direction's deferred calls run: `wait.Done` comes before the two Closes. So Join can return while a direction is still closing. No run checks this, because the Closes still happen and no caller in the repository touches the Conns after Join returns. It is listed as a hazard.
- **Health check.** `MaxFailedTimes = 4` lets several failures, and a success between them, happen before the threshold.
- **Framing.** A three-byte source is enough for one to three frames. So a read can hold two frames, or cut one in two. Ciphertext bytes 0 and 1 let a read that starts inside a frame see a small length, which is then decrypted. `BufSize` is the code's 10240.

## Fairness

- **Service.**
  - Each goroutine's own steps are weakly fair: the Go scheduler runs every runnable goroutine.
  - The `closeCh` cases of the loops' `select`s are strongly fair. Go picks uniformly at random among ready cases, so a case that is ready again and again is taken in the end.
  - The client owes nothing.
- **Relay.**
  - Each direction's read end, `wait.Done` and Closes are weakly fair, as is the caller.
  - Write and cipher errors depend on the peer's data and keys, so they are not owed.
- **Health check.**
  - `CheckStart` is weakly fair: the worker wakes after its sleep.
  - `CheckEnd` is weakly fair only for tcp, where `DialContext` ends at the deadline. An http check may never answer: `DefaultClient` has no timeout and ctx is not used. That is the `health_http_hang` finding.

## What is proved (TLAPS)

| Theorem | Statement |
|---|---|
| `SSHServiceProofs!TypeCorrect` | `Spec => []TypeOK` |
| `RelayProofs!RelayTypeCorrect` | `Spec => []TypeOK` |
| `RelayProofs!RelayCloseOnce` | `Spec => []CloseOnce` |
| `HealthCheckProofs!HealthCallbacksBalanced` | `Spec => []CallbacksBalanced` |
| `SSHServiceRefinement!Refinement` | `Spec => SinkSpec` |
| `FramingProofs!Uint32RoundTrip` | `BigEndian(LenBytes(n)) = n` for every n in 0..2^32-1 |
| `FramingProofs!UnpkgWholeFrame` | `unpkgMsg(pkgMsg(k, body) \o rest) = [cnt \|-> 0, buf \|-> body, left \|-> rest]` |
| `FramingProofs!ReadEndingInsideFrame` | a `DecryptRead` step that leaves part of the head frame on the wire changes neither `out` nor `decPc` |
| `FramingProofs!ReadOfWholeFrame` | a `DecryptRead` step that takes the whole head frame sets `out' = out \o chunks[k]` and keeps looping |
| `FramingProofs!ReadOfTwoFrames` | a `DecryptRead` step that takes two whole frames writes the first frame's chunk only |

They hold for all finite or infinite `Chan` and `Fwd`, for both relay modes (Join and JoinMore), and for every check type and `MaxFailedTimes`. They assume only `ConstAssumption`, `ConnAssumption` (C1 # C2) and `HealthAssumption` (`MaxFailedTimes` ≥ 1). Each theorem rests on an inductive invariant:
- **TypeInv** = `TypeOK` plus "a sideband reader about to send holds a typed command". The sideband reader's handoff would otherwise put an arbitrary value into `p2`.
- **PairingInv** = `TypeInv` plus the following conjuncts:
  - `ReaderStartsOnAccept`;
  - `WaitersInCycle`;
  - `HandedReadersDone`;
  - `ForwardsIssued`;
  - `HandoffFresh`: a forward being handed over is issued and appears in no config yet;
  - `CycleFresh`: the values a cycle holds appear in no config yet.

  PairingInv is the base of the refinement proof; the module also proves `PairingCorrect` (`Spec => []PairingOneToOne`) along the way. `PairingOneToOne` alone is not inductive. It speaks only of configs already sent, so the step that sends a config needs to know that the cycle's forward request and channel are fresh. Freshness in turn needs to know where each value can be: with the reader, in the handoff, or in the cycle. TLC checked PairingInv as an invariant on 24M states before it was proved.
- **RelayInv** adds these facts:
  - the WaitGroup counter equals the number of directions that have not yet called `Done`;
  - no direction runs before Join;
  - a closed socket has `closeFlag` set.

  The last fact is what makes `CloseOnce` inductive: the second Close sees the flag.
- **HealthInv** = `TypeOK` plus `CallbacksBalanced`, proved for `HealthCallbacksBalanced`. Neither is inductive alone: `RecordFailure` calls `statusFailedFn` only when `statusOK` is set, which keeps `net` in `Nat` only if `net` and `statusOK` agree.
- **RefInv** = `PairingInv` plus `HalfOnlyOnClose`. `HalfOnlyOnClose` says that a cycle whose first waiter has finished without a request was cut short by Close. The refinement proof maps each step to an abstract step:
  - the receive of a forward request is `Request`;
  - `Accept` is `Open`;
  - the first `close(closeCh)` is `Close`;
  - the send of a tcp config is `Emit(p1, p2.ch)` (lemma `FinishIsEmit`);
  - every other step leaves the four mapped variables alone.

  `Emit` needs the channel and request to be fresh, which `CycleFresh`, `HandedReadersDone` and `ReaderStartsOnAccept` give. The empty request is allowed only when closing, which `HalfOnlyOnClose` gives. TLC checked `RefInv` on the 7.4M states of service_safety before it was proved.

**The framed path.** `FramingProofs` proves facts about the codec and about one turn of `PipeDecrypt`'s loop, for every body length below 2^32 (a body comes from one read of at most 10 KiB, so this bound holds in the code). It takes no assumption on the constants.
- `Uint32RoundTrip` is plain arithmetic: the four bytes are the base-256 digits of n.
- `UnpkgWholeFrame` rests on `FrameLayout` (the byte at each position of `pkgMsg(k, body) \o rest`) and `UnpkgLaidOut` (`unpkgMsg` of any sequence with that layout). `UnpkgCut` says that `unpkgMsg` of a frame's first m bytes, m short of the whole frame, has `cnt = -1`.
- The three step theorems say where the `RoundTrip` violation of framing_split_reads comes from. The codec is correct. The bytes are lost by the loop: a read that ends inside a frame is dropped (`continue` with the shadowed `left`), and the bytes after the first frame of a read are dropped with the loop body. `BodyNamesFrame` shows that a nonempty body decrypts to exactly one chunk.

These are step theorems, not invariants: no passing run checks a property of `Framing`, whose only run is the violation.

Each proof has one step per action. It uses frame lemmas for the steps that move one process and leave the others. Liveness properties (`JoinTerminates`, `StopEndsWorker`, `NoGoroutineLeakAfterExit`) are checked by TLC only, because TLAPS does not reason about fairness and ENABLED.

## What is not modelled

- **Listener.** Nothing in the repository calls `Listen`, so no code path reaches its races. Its accept goroutine can send on `l.accept` after `Close` has closed it, and `closeFlag` is read without synchronisation. Both are listed as hazards for a caller that may come.
- **The cipher** (`pcrypto`) is not in the repository. It is abstracted as described under Framing.
- **Sideband and command parsing** in service.go (228-260, 400-497). The `uint32` wrap of `4 + length` makes the slice panic. This is listed as a hazard.
- **Config validation** is pure and sequential. There is nothing for a model checker to add to unit tests.
- **Tests** are read for the behaviour they expect, not modelled.

## Plan for the next sittings

1. **A sideband parsing module**, with the `uint32` wrap of `4 + length` and `params[2:]`.
2. **Liveness of the framed path.** After a cut frame, does `PipeDecrypt` ever write again? This needs fairness on reads.
3. **A proof of `RoundTrip`** for a fixed version of `PipeDecrypt` that keeps `left` across reads. `UnpkgWholeFrame` and `UnpkgCut` are the lemmas it needs about the codec.
