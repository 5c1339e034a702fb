# A TLA+ verification of libwebsocket-component

The repository holds a WebSocket protocol library (`src/libwebsocket`), an
extended copy of the muduo network library that it runs on (`src/muduo-vip`), a
demo (`src/demo`) and an HTTPS service (`src/https`). This directory holds TLA+
models of its core, the TLC configurations that check them on small instances,
and TLAPS proofs of some of the properties for every instance.
`PROJECT.json` lists the components, the runs, the source lines behind every
definition, the hazards the code is exposed to and the theorems.

## The system and its modules

An event loop per thread polls sockets and runs functors that other threads
queue. `TcpServer` accepts connections in a base loop and gives each to an I/O
loop, where `TcpConnection` reads, writes and closes it. A WebSocket `Context`
hangs on the connection: it makes the handshake, parses frames from the input
buffer and calls the application, which packs its answers into frames and sends
them on the connection, from the loop or from other threads.

| Module | Code | What its actions are |
|---|---|---|
| `WsFrames` | the client's side of RFC 6455 (external) | no actions: frames on the wire, and the messages a sequence of frames means |
| `WsFrameParser` | `websocket.cc`, `parse_frame` and its step functions | one per step function call, and the arrival of any number of bytes |
| `WsMessageStream` | the abstract parser | a whole frame is taken at once |
| `WsPack` | `websocket.cc`, `pack_unmask_*` | one frame packed: whole, first, middle or last chunk, control |
| `WsSession` | `do_handshake`, `parse_message_frame`, `server.cc`, `context.cc`, the demo's callbacks | one iteration's events, the swap of the functors, one functor; another thread's send |
| `EventLoop` | `EventLoop.cc` | the steps of `loop` and `doPendingFunctors`; `queueInLoop` and `quit` in two steps each, by any thread |
| `SerialExecutor` | the abstract event loop | a functor is submitted; the oldest one starts |
| `TcpConnection` | `TcpConnection.cc`, `IBytesBuffer.cc` | `handleRead`, `handleWrite`, a queued functor; another thread's `send`, and its `forceClose` in three steps; the peer reads, sends, fails |
| `TcpServer` | `TcpServer.cc`, the life-time part of `TcpConnection.cc`, the channel in `Channel.cc` and `EPollPoller.cc` | accept, close and write events, calls in callbacks, timers, functors of each loop; a thread's call in its steps; destruction of the server |

`WsFrameParserProofs`, `EventLoopProofs` and `WsPackProofs` hold the theorems.
`MCWsFrameParser` and `MCWsPack` define constants for TLC; the other modules
take their constants from the `.cfg` file alone.

### How state corresponds to code

* **WsFrameParser.** Variables are the fields of `Context_` (`step_`, the
  header, the two messages, `state_`), the input buffer, and the locals of
  `parse_frame`. `pc` says whether the parser has returned, is in its loop, or
  is in a step function called by another one, which skips the loop's test and
  whose result the header step drops. Header and length bytes are numbers in
  0..255; a payload byte is one bit, since masking works on each bit alone. A
  payload may be short and still use an extended length, as the code never
  compares the two, so that all length paths are reached with few bytes. The
  payload step for control frames with a two-byte length begins with an assert
  that is false whenever it is called (`websocket.cc:3269`); it ends in the
  `pc` "aborted", from which nothing goes on.
* **WsPack.** A frame is its header fields, the bytes of its extended length as
  they lie in memory, and the range of the caller's data. The casts and byte
  swaps are modelled on the bytes, for a little-endian machine and lengths
  below 2^31.
* **WsSession.** Requests and frames are whole here: `WsFrameParser` has their
  bytes. The header fields of a request are abstracted to the verdict of
  `do_handshake`. `failed` records the first assert that fails or the first use
  of a destroyed `Context`. The client may send data right behind its request,
  which the code takes to be impossible (`websocket.cc:3800`). The way out of
  `do_handshake` on which the request parses and `gotAll()` is false has no
  counterpart: once CRLFCRLF is in the buffer, `HttpContext::parseRequest` either
  rejects the request line or gets to a line without a colon, the empty one at
  the latest, and sets `kGotAll` there. So the assert at `websocket.cc:3872`
  holds as well.
* **EventLoop.** `pending` is `pendingFunctors_`, `functors` the list swapped
  out, `wakeups` the eventfd. `ran`, `queued`, `direct`, `early` and `quitters`
  are history.
* **TcpConnection.** Bytes are numbered in the order they are handed to
  `sendInLoop`; `out` is `outputBuffer_`, `wire` what the socket took. `errno`
  is one variable for all connections of the loop, as it is for the thread.
  Plain TCP and level-triggered events only; no write-complete or high-water
  callback is set, as on the connections of the WebSocket server.
* **TcpServer.** A connection is its `state_`, its channel's events and place in
  the poller, whether it is in `connections_` and whether it has been freed; it
  is freed when neither the map nor a functor nor a running call owns it. A send
  is written, queued, or fails, and after a failure it may go on and enable the
  write event of the connection it has just closed (`TcpConnection.cc:304-319`);
  inside the message callback, `handleRead` then closes the connection again.
  Calls from other threads test `state_`, set it and queue their functor in
  separate steps, as the code has no lock there.

### Which asserts are in the build

`EventLoop.h:28` defines `NDEBUG`, so a file loses its asserts if one of its
later includes brings in `assert.h` again: `EventLoop.cc`, `TcpConnection.cc`,
`TcpServer.cc` and `EPollPoller.cc` among those modelled here (`Channel.cc` has
included everything else before `EventLoop.h`). In `EventLoop.cc` the branches
under `#if defined(NDEBUG)` are the ones compiled.
There the models let the program go on where a condition is false: a connection
may be closed, removed and destroyed twice. The asserts of `websocket.cc` and of
`Channel.cc` are compiled in, and a model stops where one of them fails.

## What the runs check

TLC finishes each run in at most two minutes or so with two workers.
`CHECK_DEADLOCK FALSE` is set in all of them, because each system may really
stop: the client has sent its script, the loop has quit, the connections are
gone, the bounds are used up.

| Run | What it shows | Bounds |
|---|---|---|
| `parser` | For every well-formed sequence of up to 3 frames, cut in every way: the callbacks get exactly the messages of the frames received whole, no assert fails, aligned content is unmasked, the cached frame kind never misroutes a payload | 3 frames are enough for a fragmented message with a control frame inside, and for a message after a message |
| `parser_stream` | The parser refines `WsMessageStream`, and `parse_frame` always comes to an end: it returns, or aborts on a control frame with a two-byte length | fewer kinds of data frames, control frames with every form of the length, up to 3 |
| `parser_fragments` | *violation*: fragments at an offset that is not a multiple of 4 | 2 frames |
| `event_loop` | No lost wakeup, no lost quit, FIFO order, every functor runs, quit ends the loop, refinement of `SerialExecutor` | 2 threads, the loop thread, 2 functors; the theorems lift the bound for the safety part |
| `tcp_connection` | Write event enabled exactly while output waits, output intact, FIN after output, every byte written, shutdown completes | 1 connection, up to 3 messages of 1 and 2 bytes against a send buffer of 1, so that direct writes are whole, cut short and refused, and a message may find output waiting while the socket has room |
| `tcp_partial_write` | *violation*: a direct write cut short | 1 message of 3 bytes, room for 2 |
| `tcp_server` | The asserts of `Channel.cc` fail in two known cases only, every close goes to the base loop and back exactly once and the map agrees, a functor bound to `this` runs in time, closed connections are freed, a forced close closes | 1 connection, 2 loops, 1 thread, 3 calls of the application, 2 closes reported by the poller, destruction of the server. Connections meet only in the queues, whose order a functor of another connection does not change |
| `tcp_server_force_close_race` | *violation*: forceClose from another thread | 1 connection, 1 call, 1 close |
| `ws_session` | The response is first, no rereading after Close, silence of the loop after Close, Close answered when idle, Close closes | 4 segments of up to 2 frames, 2 sends of another thread, a socket that fills, failing writes |
| `ws_handshake_in_parts` | *violation*: a request in two segments | 2 segments |
| `ws_pack` | Frames make up the message, lengths up to 65535 read back | lengths at the edges of each encoding and of the 1024-byte chunks; the theorems lift them |
| `ws_pack_long` | *violation*: lengths from 65536 on | the same lengths |

### Fairness

* `WsFrameParser`: `parse_frame` runs on once it is entered. Arrival of bytes is
  not fair.
* `EventLoop`: the loop thread runs on and user code returns; a thread inside
  `queueInLoop` or `quit` finishes it. Nothing is assumed of the poll's timeout
  or of other channels, so a lost wakeup would show as a functor that never runs.
* `TcpConnection`: the loop handles an enabled event and runs its functors; a
  thread inside `forceClose` finishes it; a peer that is up goes on reading.
  Peers need not send, fail or close.
* `TcpServer`: loops swap and run functors, timers fire, a thread finishes its
  call. Events and calls are not fair.
* `WsSession`: the poll returns, functors are swapped out and run.

Each is weak fairness of a thread that the code never blocks at that point.
The liveness properties of `TcpServer` and `WsSession` end also when an assert
that is in the build has failed, which aborts the program, or a destroyed object
has been used, after which the code promises nothing. Those of `TcpConnection`
end when the connection has been closed.

### Mutants

Every property of a passing run has a mutant: a definition of the same module
that changes one mapped definition as a plausible mistake would (a dropped
guard, a stale value, a swapped order), under which TLC finds the property
violated. They stand before the definition they vary, with a comment that
begins "A mistake".

## What is proved

All theorems hold for every value of the constants, from the named assumptions
of the modules alone.

* **`EventLoopProofs`** (from `LoopIsNoOther`: the loop thread is not one of the
  other threads). `LoopTypes`, `WakeupsAreNotLost`, `QuitsAreNotLost`,
  `FunctorsInOrder`, and `LoopImplementsExecutor`, the refinement of
  `SerialExecutor`. `NoLostWakeup` speaks of the poll only and is not
  inductive: a functor may have been queued while a batch was running. `WakeInv`
  extends it over every place from the swap to the poll, and `PhaseInv` ties
  `callingPendingFunctors_` to those places, which is what makes `queueInLoop`
  wake the loop there.
* **`WsFrameParserProofs`** (from `ScriptsEncodable`: scripts encode to bytes).
  `ParserTypes`, `StepsInOrder` and `PayloadGoesToItsMessage`. `StepInv` says
  that the step stored between calls fits the stored header, not only the one
  that runs. `KindInv` says that the kind found on entry is that of the current
  frame unless its payload is still incomplete.
* **`WsPackProofs`** (from `PackConstants`). `PackedFramesMakeMessage` and
  `PackedLengthsReadBack`. `LocalsInv` ties the locals `n` and `left` of the
  chunk loop to the frames packed so far.

Only model-checked: everything about `TcpConnection`, `TcpServer` and
`WsSession`; what the callbacks of the parser deliver, which rests on recursive
definitions; and all liveness, which is outside the prover's reach.

## Disagreements between the code and what it says

Five runs show one each (`findings` in `PROJECT.json`): fragments are unmasked
with the wrong key bytes, a cut-short direct write repeats its head, a forced
close from another thread closes and removes twice, a handshake in two segments aborts, and
frames of 65536 bytes and more are sent with length 0.

The modules state further ones that TLC refutes as quickly, by checking the
named property with the constants given:

| Property | Constants | What happens |
|---|---|---|
| `WsFrameParser!MessageAsserts` | those of `MCWsFrameParserStream.cfg` | a control frame with a two-byte length reaches an assert for short ones (`websocket.cc:3269`), though the comment at 1528 allows 126 bytes |
| `WsPack!ControlIsShort` | those of `MCWsPack.cfg` | control payloads of 127 to 65535 bytes pass the assert at `websocket.cc:1529` |
| `EventLoop!QuitAlwaysEnds` | one thread, one functor | `loop()` resets `quit_`, so an earlier `quit()` is lost (`EventLoop.cc:109`) |
| `TcpConnection!ClosedOnce` | `Lengths = {1}`, `Faults = {"reset"}`, `Room = 1`, other bounds 1 | a reply that fails inside the message callback closes the connection, and `handleRead` closes it again |
| `TcpConnection!ClosedIsQuiet` | the same with `Faults = {"lost"}` | `sendInLoop` enables the write event after it has closed the connection |
| `TcpConnection!HealthyStaysOpen` | two connections, `Faults = {"reset"}` | one connection's errno closes the other |
| `TcpConnection!HealthyStaysOpen` | `Lengths = {0}`, `Faults = {}` | an empty message closes the connection |
| `TcpServer!NoUseAfterFree` | one connection, `ThreadCalls = {"send"}`, `MaxCalls = 1` | a send from another thread is queued behind the destruction of its connection |
| `TcpServer!ClosedIsNotRearmed` | one connection, `LoopCalls = {"send"}`, `MaxCalls = 1` | a failing send enables the write event of the connection it has closed; `Channel::remove` then fails its assert unless the event is gone by the time it runs |
| `TcpServer!ChannelAssertsHoldInTeardown` | `IoLoops = {}`, `LoopCalls = {"shutdown"}`, `Teardown = TRUE` | the server is destroyed while a connection is half-closed |
| `WsSession!ContextOutlivesCallback` | `MayFail = TRUE` | a failing answer destroys the `Context` inside its own callback |
| `WsSession!SilentAfterClose` | `MaxSends = 1` | another thread's message goes out after the Close frame |
| `WsSession!CloseAnswered` | `MaxSends = 0` | the answer to a Close waits behind other output and is dropped by `forceClose` |

## What is not modelled, and the plan

Next, in this order, with the questions each raises (see `hazards`):

1. `TimerQueue`: cancellation inside callbacks; the timers set against the
   timerfd. Invariant to prove: `timers_` and `activeTimers_` agree.
2. `EventLoopThread` and its pool: the start handshake, the destructor.
3. `Connector` and `TcpClient`: retry timers against stop and restart, the
   client's destructor across two loops.
4. `Acceptor`, and the pollers in full: a channel removed within a batch of
   events; running out of descriptors.
5. `ThreadPool`, `BlockingQueue`, `BoundedBlockingQueue`, `CountDownLatch` over
   one abstract monitor, refining a bounded queue; `AsyncLogging`.
6. `Buffer` as operators on its indices, with proofs of the bounds.
7. The TLS branches of `TcpConnection` and `ssl_iorw.cc`; `HttpContext`; the
   RPC channel's outstanding calls; the idle-connection buckets of `ApiServer`.
8. Proofs: `WritingIffPending`, `OutputIntact` and `FinAfterOutput` of
   `TcpConnection`; `MapAgrees` of `TcpServer`; `ResponseFirst` of `WsSession`.

Left out for good: generated protobuf code, digests and ciphers, formatting of
dates and log lines, process inspection. They have no state that the rest
depends on, or are bit-level functions that test vectors cover better. Order
processing in `src/https` calls databases that the repository does not contain.
