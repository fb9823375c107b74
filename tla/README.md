# Formal models of xk6-grpc

This directory holds TLA+ models of the extension's Go code, the TLC
configurations that check them on small instances, and machine-checked proofs
(TLAPS) of their safety properties and of their liveness, for every
instance (section 4 says what the latter take for granted). Line references are to this repository.

    tlc -config Stream_order.cfg Stream.tla      # one run
    tlc -config MCClient_clients.cfg MCClient.tla
    tlapm StreamProofs.tla                       # the proofs of one module

`PROJECT.json` lists the components, runs, mutants, findings, hazards and
theorems, and maps every definition to the lines it models.

## 1. Inventory

### Stream (`grpc/stream.go`, `grpc/listeners.go`, `lib/netext/grpcext/stream.go`)

The core of the extension, and the only part that is concurrent by design.

| state | where | who writes it |
|---|---|---|
| `writingState`, `eventListeners` | `stream` | event-loop thread |
| `done` (closed once) | `stream` | event-loop thread (`close`), read by all |
| `writeQueueCh` (unbuffered) | `stream` | event loop sends, queue goroutine receives |
| `queue`, `writeChannel` (unbuffered) | locals of `writeData` | queue goroutine to sending goroutine |
| `tq`, the task queue | k6-taskqueue-lib | all goroutines queue, event loop runs |
| the RPC and its context | grpc-go | sender, reader, `timeoutCancel` |

Operations: the constructor (`grpc.go:98`, `beginStream`), the methods `on`,
`write`, `end`; the goroutines `loop`, `readData`, `writeData` and the sending
goroutine it starts; the tasks these queue: `queueMessage` (data event),
`closeWithError` (error event, `close`), and the end event queued by `close`.

What is hard: four goroutines and the event loop, five ways to end (server
status, deadline, VU interrupt, failed send, throwing listener) that can all
happen at once; blocking channel operations on the event-loop thread; a task
queue that must be closed after the last task was queued and not before, or
the k6 iteration never ends. What makes it correct: messages in both
directions arrive in order and completely, the half-close comes after the last
message, the end event comes exactly once and after all data, nothing is queued
after the task queue is closed, every goroutine ends, the event loop is never
blocked.

### Client (`grpc/client.go`)

State: `conn`, `addr`, the method table `mds`. Operations: `load`,
`loadProtoset` (init context only), `connect`, `invoke`, `close`, and the
lookups of the stream constructor. One thread per VU, which every call blocks,
but VUs run their init contexts and their scripts at the same time. What is hard: the
partial failures of `connect` (`conn` is assigned before reflection may fail,
becomes nil when `Dial` fails, the previous connection is not closed) and of
`convertToMethodInfo` (the table is filled while the walk may still fail).
Correct if: the table only grows, an RPC is only issued on an open connection
with a known method, a connection that was made can still be closed.

### Type registration (`client.go:391-414`)

State: `protoregistry.GlobalTypes`, one for the whole process and shared by all
VUs. `FindMessageByName` and `RegisterMessage` are two steps. Correct if: a name
is registered once, a conversion that succeeds leaves all its messages
registered, and `connect` does not fail for what another VU does.

### Descriptor walks (`client.go:424`, `reflect.go:20`)

`walkFileDescriptors` (recursive, `seen` by name) and the reflection client's
loop (a stack, `seen` by package and name). Correct if: they return each
reachable file once and terminate.

### Conn and stats handler (`lib/netext/grpcext/conn.go`)

Dial, unary `Invoke`, `NewStream`, and the stats handler, which grpc-go calls
from threads of its own: for an attempt of an RPC that goes out (`OutHeader`)
and for one that has ended (`End`). State: the `rpcState` in the context of an
RPC, a pointer to its `TagsAndMeta`, into which the handler writes `ip` and
`status`; the VU's own tags, which the script changes meanwhile. What is hard:
the handler of one RPC runs beside the event loop and beside other RPCs; grpc-go
may retry an attempt, or end an RPC before any; reflection has no `rpcState`;
contexts end at any moment, also between the look `PushIfNotDone` takes at one and
its send on the samples' channel, which may block. Correct if: each attempt gives at
most one sample and one in time exactly one, with the tags of its own call and the
status the script is told, and an interrupt lets no thread begin another sample.

### Message conversion (`convert`, `stream.go:63-97` of `grpcext`)

Dynamic messages are marshaled to JSON and back. Messages of three kinds of
types differ: with optional fields, with required ones, and
`google.protobuf.Value`, which becomes JSON null. Correct if: zero values survive,
and a message that cannot be converted is an error and nothing else.

### Call and connect parameters (`params.go`), TLS (`client.go:112-205`)

`newCallParams` and `newConnectParams` read an object of the script key by key,
`newMetadata` a map of headers in Go's random order; `buildTLSConfigFromMap`
then uses what the first have let pass, by assertions that ignore what does not
fit. Correct if: the verdict does not depend on any order, nothing accepted
gets lost, and what is accepted is what the call uses.

### Module wiring, metrics, fixtures

`register.go`, `grpc.go`, `metrics.go` wire exports and metrics once.
`testutils`, `testdata` and `examples` are fixtures and not modelled.

### Interaction

The event-loop thread of a VU calls Client and Stream synchronously. A stream
keeps a pointer to its client's connection: closing the client cancels the RPC
(status Canceled for the stream's reader). Goroutines of a stream reach the
event loop only by the task queue. VUs share nothing but the type registry.

## 2. Modules

| module | models | kind |
|---|---|---|
| `TaskQueue` | k6-taskqueue-lib and the k6 event loop's order of tasks | external, from its use |
| `RawStream` | `grpc.ClientStream`, the server, the RPC's and the VU's context | external, from its use |
| `Stream` | the whole of `grpc/stream.go`, with `listeners.go` and `grpcext/stream.go` | composes the two above |
| `MCStream` | what docs and comments claim of streams and the code does not do | properties only |
| `Fifo` | what a stream promises each side about its messages | abstract specification |
| `StreamProofs` | theorems about `Stream` | proofs |
| `StreamFifoProofs` | both directions of `Stream` implement `Fifo` | proofs |
| `StreamProgressProofs` | the threads of `Stream` never all wait with work left, their steps end, and what then has been done | proofs |
| `TypeRegistry` | `protoregistry.GlobalTypes` | external, from its use |
| `Client` | `grpc/client.go`: the clients of all VUs, up to the RPC | composes with `TypeRegistry` |
| `MCClient` | instances of `Client`, and a claim about reflection | instances |
| `ClientProofs` | theorems about `Client`; connect and load return | proofs |
| `FileSet` | the set of files `protodesc.NewFiles` needs | abstract specification |
| `FileWalks` | `Reflect` of `reflect.go`, `walkFileDescriptors` with the loop of `Load` | implements `FileSet` |
| `MCFileWalks` | all acyclic imports of a few files | instances |
| `FileWalksProofs` | the refinement and its invariant; both walks end | proofs |
| `Messages` | `convert` on the kinds of message types | operators |
| `Calls` | `conn.go`, and `invoke`, `connect` and streams as far as they push samples and convert messages | uses `Messages` |
| `MCCalls` | instances of `Calls`, and a claim about zero values | instances |
| `CallsProofs` | theorems about `Calls` | proofs |
| `Params` | `params.go`, and what `client.go` and `grpc.go` make of the parameters | one module, sequential |
| `MCParams` | the parameter objects | instances |
| `ParamsProofs` | theorems about `Params` | proofs |
| `Lemmas` | stacks (what popping and pushing do to the members of a sequence); measures (what only gets less ends) | lemmas of several proofs |

The modules meet where the code does: `Convert` in `Client` receives a set of
files, a member of `Loadable` or `Reflected`, for which `FileWalks` shows that
`NewFiles` accepts what the walks return. `Calls(v, m)` is the precondition
of `Stream!Begin` on the client's side, and of `Invoke` and `NewStream` in
`Calls`: an open connection and a known method. `Calls` goes on from there with
what `Stream` leaves out of a stream (samples, what a message becomes) and
takes the timeout from what `Params` gives (`CallTime`): an invocation is
always timed, a stream may be. `Fifo` is what `Stream` implements in each direction.

### State and actions of `Stream`

`js` is the program counter of the event-loop thread: `script` (a turn of the
script), `idle`, `sending` (blocked in `s.writeQueueCh <- message`), `listener`
(inside a listener, `cur` says which), `closing` (in `close`, between
`close(s.done)` at line 356 and `s.tq.Queue` at 358; a step of its own because
the goroutines can run in between). `lp`, `rd`, `wq`, `ws` are the program
counters of `loop`, `readData`, the queue goroutine and the sending goroutine.

| code | action |
|---|---|
| `stream` / `beginStream` | `Begin`, `BeginFails` |
| `on`, `write`, `end` | `On`, `Write`, `End` |
| `writeData`, queue goroutine: the three cases of its `select` | `QueueReceives`, `Handoff`, `QueueExit` |
| `writeData`, sending goroutine | `SendOK`, `SendEOF`, `SendFails`, `SendClose`, `SenderExit` |
| `readData` / `ReceiveConverted` / `receive` | `RecvMessage`, `RecvBadMessage`, `RecvEnd`, `RecvCtx` |
| `loop` | `LoopCtxDone`, `LoopDone`, `LoopClose` |
| `queueMessage`'s task | `RunData`, then `ListenerReturns` / `DataListenerThrows` |
| `closeWithError`'s task: `close`, `callErrorListeners` | `RunClose`, `CloseQueuesEnd`, then listener steps |
| the end task, `callEventListeners` | `RunEnd`, then listener steps |

An unbuffered channel operation is one joint step of both sides. A listener is
a turn of the script between two steps, and may itself call `on`, `write` and
`end` and so block. A task that returns an error makes k6 abort the iteration,
which cancels the VU's context.

Messages are numbered; what is told apart is their order. Errors are the ones
the code tells apart (`Errs`). Variables marked "history" record what happened
for the properties; no guard reads one, except that the bound `MaxWrites` reads
`written`.

### Abstractions in `Stream`

- `RecvMsg` and the `Queue` that follows are one step of `readData`: what is
  taken from the RPC concerns nobody else, so the call can be thought to return
  when its result is queued.
- Listeners of an event are a number; they are called in order, and `all`
  returns the slice as it was when the delivery began.
- The event `status` can be registered but nothing ever delivers it. Metric
  samples are in `Calls`; that k6 may let a thread wait for one delays the thread, as the
  scheduler may. Logging, the null test of `write` (returns before it changes
  anything) and the JSON marshalling of a written object are left out. (A
  marshalling error is logged and an empty message is sent on: in the model
  that is a message whose Send may fail.)
- Server messages that arrive after `readData` has returned are left out.
- The task-queue library is not in the repository: what becomes of a task
  queued after `Close` is the constant `KeepsLateTasks`. The safety runs take
  FALSE (the worse case: it is dropped, and recorded in `lost`), the liveness
  runs TRUE. The proofs hold for both.

### State and actions of `Client`

One client per VU; every variable but `registered` and `conns` is a function of
the VU. `conns` lists the connections ever dialled and whether each is open;
`conn[v]` is the position of `c.conn` in it, 0 for nil, so that a connection
that `connect` replaces without closing it stays in the list, open. `mds[v]` maps a
method to the file whose descriptor the table holds. `pc[v]` is where the
client is: `idle` (between two calls), `reflect` (connected, before
`c.conn.Reflect`), `walk` (in `RangeFiles`), `missing` (between
`FindMessageByName` and `RegisterMessage`).

| code | action |
|---|---|
| `Load`, `LoadProtoset`, once they have their files | `Load` |
| the end of the init context (`vu.State()` is no longer nil) | `Start` |
| `Connect` up to `grpcext.Dial` | `Dial`, `DialFails` |
| `Connect` with the reflection protocol | `Reflect`, `ReflectFails` |
| `convertToMethodInfo`: the closure of `RangeFiles` for a file | `RangeFile` |
| its loop over the stack: lookup; registration | `Find`; `Register`, `Conflict` |
| its return | `Converted` |
| `Close` | `Close` |
| `Invoke` and the constructor's lookups (no state changes) | `Calls`, a predicate |

`RangeFiles` ranges over a Go map, so `RangeFile` takes any file. A call of the
registry takes its lock and is one step; between two calls other VUs may
run. A conflict is an error of `RegisterMessage`, or, by the library's default
policy for conflicts, a panic; in either case the call ends and the table is as
it is. A file stands for its descriptor: two versions of a proto file are two
files that declare the same methods and messages. Left out: calls that are rejected
before they change anything (wrong context, bad parameters, files that do not
parse, a method name that is not in the table), TLS, and the names and
metadata of the returned `MethodInfo`. A later `load` of another version
replaces a method's descriptor in the table (`c.mds[name] = md`), while
the registry keeps the first descriptor of a message name; what a message of
the old type then decodes to is not modelled.

### State and actions of `FileWalks`

One behaviour is one walk of one kind (`walk`) over one import graph. `roots`
are the files of the services (Reflect) or the parsed files (Load), `next` the
position in it, `fdset` the set made so far, `seen` the marks. A file is the
key by which a walk knows it: package and name in Reflect, name in
`walkFileDescriptors`; within one server or one load a name has one descriptor.

| code | action |
|---|---|
| Reflect: `ListServices`, `ResolveService` | `Resolve`, `ReflectFails` |
| Reflect: one turn of the loop over the stack | `Pop` |
| Load: the loop over the parsed files | `Enter` |
| `walkFileDescriptors`: the check and the mark | `Visit`, in `Enter` and `Descend` |
| `walkFileDescriptors`: the next dependency; return | `Descend`; `Return` |
| both: the set is returned | `Finish` |

`calls` is the stack of active calls of the recursion. The slices the calls return are
concatenated on the way back; that gives the order in which files were
marked, so the model appends to `fdset` at the mark.

`FileSet` is what `convertToMethodInfo` needs: `Collect` adds any needed file
that is not there yet, `Finish` only when all are. `Implements == Abs!Spec`,
with `Abs == INSTANCE FileSet` on the variables of the same names, says that
both walks do nothing else.

### `Stream` as two queues

`Fifo` has four steps: `Put`, `Take`, `Shut` (no more will be put in) and
`Finish` (who takes is told that this was all). `Stream` implements it twice:

| | `put` | `taken` | `shut` | `finished` |
|---|---|---|---|---|
| `Outgoing` | messages written | passed to SendMsg | `end()` was called | CloseSend was called |
| `Incoming` | messages of the server | delivered to the data listeners | the server has ended the RPC | the end event after `io.EOF` |

A failure in between may leave messages behind and `finished` false for ever; it
may never make a stream that lost something look finished.

### State and actions of `Calls`

The RPCs of one VU. `js` says what the event-loop thread does (`script`, or
waits in `reflecting`, `invoking`, `opening` for the RPC `waits`, or in `counting` for
a stream's first sample; `crashed` is the end of the process). `rpc[r]` is the RPC as
grpc-go knows it: its phase (`asked` before the first attempt, `retrying` between two),
its context and its attempts. `tags[r]` is the `TagsAndMeta` that `rpcState` points
to, `streamTags[r]` the one the stream's counters use. `pushing` are the samples whose
threads are in the send of `PushIfNotDone`, `durations[r]` and `counted[r]` those k6 has
taken, by their tags; `given` is what the last step has given to the script.

| code | action |
|---|---|
| grpc-go makes an attempt; ends the RPC without one | `Attempt`; `Refuse` |
| `HandleRPC`, case OutHeader; case End | `OutHeader`; in `Retry` and `EndRPC` |
| `PushIfNotDone`: the look at the context; the send | `PushIfNotDone`, in the steps that push; `SampleTaken` |
| `Invoke` (client and conn) up to the RPC; from its return | `Invoke`; `InvokeReturns` |
| `Connect`: `c.conn.Reflect`; its return | `Reflect`; `ReflectReturns` |
| the constructor, `beginStream`; `NewStream` of grpc-go returns | `NewStream`; `StreamOpens`, `StreamFails` |
| `beginStream` after its first sample | `StreamBegins` |
| `readData` and `ReceiveConverted` | `ReadMessage`, `ReadEnd` |
| `writeData` after a Send | `MessageSent` |
| `close` with a timeout | `StreamCloses` |
| deadlines, the VU's context, the VU's tags | `Deadline`, `Interrupt`, `SetVUTags` |

A tag is told apart by where it comes from: `vu` stands for all the VU's tags,
`call` for those `SetSystemTags` writes. An event of the handler is one step:
it touches only the RPC's own tags, which no other thread uses while the RPC
runs. A push is two steps, in between which its thread does nothing else (the guards
`~InPush(r, by)`) and all others may run: contexts end, the VU is interrupted, other
samples are sent. A thread whose send blocks looks again at its context only with the next
sample, as in the code. grpc-go may refuse an RPC (`Refuse`) before it makes an
attempt (metadata it does not accept, a context that is done, a closed connection), which
gives no event and so no sample. Left out: the second attempt of reflection with the older protocol version, a server that
ends a unary call with OK and no message (grpc-go makes it an error), and the
headers, trailers and texts of a response. The type of a message is chosen when
it is converted.

### State and actions of `Params`

A behaviour reads one object of `Objects` and makes the call with it. `todo`
are the entries still to read, `headers` the headers the range has not come
to, `params` the result so far.

| code | action |
|---|---|
| a pass of the loop over `Keys()`, of either function | `ReadKey` |
| `newMetadata` to its range; a pass of the range | `ReadMetadata`; `ReadHeader` |
| the return without an error | `Accept` |
| `Connect` up to `Dial`, without and with `buildTLSConfigFromMap` | `ConnectPlain`, `BuildTLS` |
| `Invoke` and the constructor with their parameters | `Call` |

What PEM decoding, decryption and key pairs give is a choice of the outcomes
they can have (`BuildTLS`), and so is whether the system's pool of CAs can be read: its
error is ignored, and a CA is then put into a nil pool (`panicked`). Which texts hold a CA
is a constant. Values are told
apart by the Go type `Export` gives them.

## 3. Runs

Bounds of the stream runs are constants: messages each way (`MaxWrites`, `MaxArrivals`), listeners
per event, turns of the script after the first. Order and completeness need two
messages, one queued behind another; the termination runs need one of each kind.
Two listeners of one event differ from one in that the first may throw before
the second is called, which ends the loop as the end of the list does. Further
turns let the script call `write` or `end` after events; listeners do so too.
`closing` has a timeout because only then is there a deadline, which may come at any
point before or after the final status, and only then does `close` end the RPC, which
`ClosedWindsDown` and a part of `StillIsOver` are about; `winddown` has none.
`OfferIsTaken`, `SentInOrder` and `DataInOrder` are in no run: the first is proved
(`OfferTaken`) and is a step towards `OfferReturns`, the others follow from the
refinements and are proved beside them.

| run | checks | bounds | shows |
|---|---|---|---|
| `order` | `TypeOK` `AllDataBeforeEnd` `EndAtMostOnce` `OnlyEndIsLate` `DataAfterEndIsLocal` `OutgoingIsFifo` `IncomingIsFifo` | 2 writes, 2 server messages, data and end listeners, late calls | both directions are queues with an end, with all the ways to end at once |
| `winddown` | `WindsDown` `EndDelivered`, no deadlock | 1 message each way, a data listener, a later turn of the script | once the RPC is over or the stream closed, the end event comes; once the RPC is over, everything stops |
| `closing` | `StillIsOver` `WindsDown` `EndDelivered` `OfferReturns` `HalfCloseSent` `ClosedWindsDown`, no deadlock | 1 message each way, a data listener, a timeout | the threads never all wait with work left; the stream ends as in `winddown` whenever its deadline comes; `write` and `end` return, `end` leads to CloseSend, and a stream closed locally (a failed Send, a throwing listener) winds down whatever the server does |
| `clients` | `TypeOK` `CallReachesTarget` `LoadedIsCallable` `LoadedIsRegistered` `ConflictIsForeign` `ConversionEnds` | 2 VUs, 2 servers, 2 connections, two files loaded and others reflected | connection life cycle, method table and registry, with every way `connect` can fail and the VUs in any order |
| `walks` | `TypeOK` `NewFilesAccepts` `Implements` `WalkEnds`, no deadlock | every acyclic import graph of 4 files, imports in every order, up to 2 roots | both walks implement `FileSet`, never get stuck, and end |
| `calls` | `TypeOK` `OneSampleEach` `SampleIsOwn` `StatusAgrees` `StreamSamplesAgree` `InvokeAnswers` `CrashIsNull` `WaitsGoOn` `OneLateSample` `CallsReturn` | an invoke or a reflection with a retry, beside a stream | samples, statuses and answers are those of their RPC, with an interrupt between any two steps, and `invoke` and `connect` return |
| `params` | `TypeOK` `VerdictIsOrderless` `AcceptedIsGiven` `TLSIsUsed` `CallIsTimedAndNamed` | objects with up to 2 entries; all tls objects | reading parameters is independent of order and loses nothing |

In the client runs, three files are two versions of one (`old`, `new`) and one
that shares nothing with them; the messages have a nested one each in the files where it matters, of
which one is compiled into the program. Two VUs are enough for a race on the
registry, which is between two calls; two connections are enough for a reconnect
of one VU and for one connection each. Four files are the least with a diamond below a root
(1 imports 2 and 3, which import 4) and with a chain of three imports; two roots
may be equal, import one another or share an import. In `calls`, two RPCs of a
VU can run at the same time only if one is a stream, since the thread waits for any
other; the second attempt writes the tags of the first. Two entries of a
parameter object are enough for one to disturb another, three headers for two names that
come together and one of another kind; the tls objects combine every kind of
value of the four keys.

`CHECK_DEADLOCK FALSE` stands in the stream runs with `LateCalls = TRUE`, where the
code really blocks (finding `late_call`), and in `calls` and `params`,
where what is modelled comes to its end (RPCs used up or a crashed process, a
call that is made). In the other stream runs, in `clients` and in `walks` TLC also shows
the absence of deadlock: a state without a step other than `Stutter` (`Returned` in
`FileWalks`) would be reported, and `Stutter` needs `Ended` (task queue closed and
empty, event loop idle), `Returned` a walk that has its result.

### Fairness

`FairSpec` assumes weak fairness of: the event-loop thread (a turn and a
listener end, a queued task is run, k6's contract); each goroutine's steps, which the Go
scheduler grants; `RecvMsg` returning when there is a message or the RPC is
over; `SendMsg` returning when the RPC is over. Nothing is assumed of the
server, of the deadline, of the VU, or of flow control: `SendOK` may never
happen, which is why `HalfCloseSent` has the premise that no send hangs for ever.

`Client`'s `FairSpec` assumes that a conversion goes on (`Walk` is plain code
that waits for nobody) and that reflection returns (`Reflect` runs under the
timeout of `connect`); nothing makes a script connect, load or close.
`Calls`'s assumes that, for the RPC the event-loop thread waits for, an expired
timer fires, grpc-go ends an RPC whose context is done, and the waiting call
then returns (`Progress`), and that k6 takes the sample its stats handler is sending
(`Drain`: k6 drains the channel of samples until the test is over, and Go serves the
senders of a channel in turn). Nothing is assumed of servers, so `CallsReturn` rests on
the timeouts alone. `FileWalks`'s assumes the same of a walk as `Client`'s of a conversion. `WalkEnds`, for Reflect's walk, and `ConversionEnds` need
imports and nesting without cycles, which protobuf guarantees; the safety
properties and their proofs do not.

### Findings

Five runs refute what a document or a comment says. Each has a short
counterexample, which TLC prints.

- `data_after_end` (`README.md:28`): Send fails, `close` delivers the end event,
  and the reader goes on delivering data. `DataAfterEndIsLocal` is what holds:
  this happens only after a local failure.
- `interrupt` (`stream.go:132-133`): `closeWithError(nil)` is a no-op, and the
  reader reports `ErrCanceled` to the error listeners although the comment says
  that events are not forwarded. It is also what lets the stream wind down.
- `late_call` (`stream.go:320,332`): a listener that calls `end()` or `write()`
  when `done` is closed blocks on a channel nobody receives from: the event loop
  hangs and the queued end event is never delivered.
- `conflict` (`client.go:404`, `reflect.go:18`): two VUs reflect one server for
  the first time; both find a message missing, one registers it, and the
  connect of the other fails although nothing is wrong with either. `ConflictIsForeign`
  is what holds: it is always another VU's doing, and a later connect finds the message.

- `zeros` (`grpcext/stream.go:71-80`): a message on a stream is converted with
  the zero value of `MarshalOptions`, which strips fields without a value, while the
  comment on `convert` wants them kept. `InvokeAnswers` says that `invoke` keeps them.

Three more observations, which no run checks because no text of the repository
says otherwise: without a timeout a stream has no cancel function, so that
`close` after a local error leaves the RPC open (with one: run `closing`); the
duration sample of a stream carries neither the system tags nor the script's
own (`beginStream` gives the RPC a fresh copy of the VU's, `stream.go:77`), while its
counters do (`StreamSamplesAgree`, `SampleIsOwn`); and a
`google.protobuf.Value` that holds null makes `readData` panic
(`stream.go:198`), which `CrashIsNull` confines to that case.

## 4. Proofs

### Stream

`StreamProofs` proves, for every value of the constants (any number of
messages, listeners and turns, either kind of task queue), from the named
assumptions `StreamAssumption`, `KeepsLateTasksAssumption` and
`MaxArrivalsAssumption`:

| theorem | property |
|---|---|
| `TypeCorrect` | `TypeOK` |
| `OfferTaken`, `OnlyEndLate` | `OfferIsTaken`, `OnlyEndIsLate` |
| `EndOnce` | `EndAtMostOnce` |
| `HalfCloseLast`, `SendsInOrder` | `HalfCloseIsLast` (in the runs part of `OutgoingIsFifo`), `SentInOrder` |
| `DataOrdered`, `DataBeforeEnd`, `LateDataLocal` | `DataInOrder`, `AllDataBeforeEnd`, `DataAfterEndIsLocal` |

With the two of `StreamFifoProofs` below these are all the safety properties the stream
runs check, but for `StillIsOver`, which has a module of its own. None is inductive alone; the argument is in four invariants, each proved on top of `TypeOK`:

- `ThreadsInv`: the goroutines start together, the queue goroutine exits only
  when `done` is closed, and `loop` closes the task queue when the other three
  have exited. So no goroutine finds the queue closed (`QueueIsOpen`), and
  `OfferIsTaken` and `OnlyEndIsLate` follow.
- `EndInv`: before `done` and in the step before the end task is queued there is
  neither an end task nor an end event; afterwards at most one of the two.
- `WriteInv`: message number k stands where it should in the concatenation
  of what was sent, what the sender holds, the write queue and what the event
  loop offers; the closing marker only in the last place and only after `end`.
- `ReadInv`: the waiting data tasks are those of the messages `dataSeen + 1` to
  `received`, in order; a task with an error of the reader stands behind all of them;
  `cause` is set by such a task only after the last data task, and for io.EOF
  `received = arrived`. Hence the data events are in order, complete at the
  end, and only a local cause leaves data tasks behind the end task.

`StreamFifoProofs` proves `OutgoingImplementsFifo` (`OutgoingIsFifo`) and
`IncomingImplementsFifo` (`IncomingIsFifo`): every step of `Stream` is a step of
`Fifo` or none. For outgoing messages, `WriteInv` gives that the message a Send
takes is the next one, and that the closing marker is behind the last; for
incoming ones, `ReadInv` gives that a data task is the next message's and
`EndInv` that the one end event of an `io.EOF` comes when all are delivered.

`StreamProgressProofs` is about progress, from the same assumptions:

| theorem | says |
|---|---|
| `StillOver` (`StillIsOver`) | when no thread can go on, nothing has been left undone |
| `StepsEnd` | there is an end to the steps, for any bounds |
| `OffersReturn` (`OfferReturns`) | a `write` or an `end` returns |
| `GoroutinesReturn` | a stream that is done, its RPC over, its reader gone, releases its callback |
| `StreamWindsDown`, `EndIsDelivered` | `WindsDown`, `EndDelivered` |
| `HalfCloseReached`, `ClosedStreamWindsDown` | `HalfCloseSent`, `ClosedWindsDown` |

`StillOver` rests on one more invariant, `Duties`: what a thread that has stopped left to
do is in the hands of another one. A reader that has exited, or a sender that
failed, has a `closeWithError` waiting or the stream is done; a stream that is
done has its end event delivered, waiting or about to be queued (or lost, by a task queue
that drops late tasks); one with a timeout has its RPC cancelled or about to be;
a loop that has exited has closed the task queue. If then no thread can go on, no
task is waiting, so nobody's duty is open, and `WriteInv` says that what `end()`
put into the queue has reached the sender. `Still` leaves out the one block that is
real, a late call (finding `late_call`).

`StepsEnd` gives the measure that every step makes less: first what the script,
the listeners' registrations and the environment may still do; then what the
goroutines have left (a message counts for each thread it still has to pass); the
tasks; a loop over data listeners, which can give way to one over error listeners;
the listeners left in the loop. It is proved well-founded, from the library's theorem on
strict inclusion of finite sets.

The last four are temporal theorems of `FairSpec`, for scripts without late calls, and
`EndIsDelivered` also for a task queue that keeps late tasks (one that drops them may
drop the end task). They
join `StepsEnd` with `StillOver`. By the rule `FewerEnds` (below) the steps end;
from then on no guard changes, so by fairness none holds (`ComesToRest`: `AllWait` for
good), and in such a state `StillIsOver` says what has been done (`RestIsOver`). What
each property starts from (the RPC is over, the stream is done, `end()` was called) is
never taken back (`NoWayBack`, `StaysOver`), so the state at rest settles it.

`OffersReturn` and `GoroutinesReturn` are proved as temporal theorems of
`FairSpec`: the first takes one fair step, the second up to four stages in a row
(`QueueRuns`, `SenderRuns`, `LoopSelects`, `LoopWaits`), none of which is gone back
to. What they need of `ENABLED` is their hypothesis `[]GuardsAreEnabled`: that
the guards `CallGoesOn`, `QueueStops` ... are exactly those of the fair actions. `OffersReturn` is for scripts that make no call once the
stream is done (`~LateCalls`).

### Client

`ClientProofs` proves, from `ClientAssumption` and `RegistryAssumption`, for any number of VUs, servers, files
and connections:

| theorem | property |
|---|---|
| `ClientTypes` | `TypeOK` |
| `CallsReachTheirTarget` | `CallReachesTarget` |
| `LoadedStaysCallable` | `LoadedIsCallable` |
| `LoadedStaysRegistered`, `ConflictsAreForeign` | `LoadedIsRegistered`, `ConflictIsForeign` |

Their invariant `ClientInv` has four parts. `TypeInv` adds to the types what
the places in the code imply (a client in `missing` has a message on its stack,
one in `reflect` has a connection). `Held`: a client's connection is open, is to `addr`, and is
nobody else's. `Tabled`: the methods of loaded files, and of files the running
conversion has been through, are in the table. `Registration` is the hard part: for every file a
conversion has been through there is a set of registered names that contains
the file's top-level messages and is closed under nesting *up to the stack*;
when the stack is empty the set is closed, so it contains `MessagesOf(f)`, the
least closed set. The registry only grows, so steps of other VUs keep it. No induction over the depth
of nesting is needed.

`ConversionsEnd` and `ConversionsReturn` are about `ConversionEnds`, for finitely many
files and messages nested finitely deep (`Nesting(rank, n)`: a message in another has
a greater rank, of at most n). The measure of a client in connect or load: the reflection
and the conversion as such; the files not visited; for each rank the places on the
stack of messages of that rank, the outer messages first; the look-up of the top. A pop
frees a place of one rank and takes places of greater ranks only (`PlacesLess`),
whether the message was found or had to be registered, and what other VUs
do to the registry changes nothing of it (`Others`). So a conversion that never came
to `idle` would come to rest, where fairness demands a step, and each step of it moves
the measure (`ConversionMoves`).

### FileWalks

`FileWalksProofs` proves, from `FilesAssumption` and for cyclic imports too:
`WalksImplementFileSet` (`Implements`), `WalksAreAccepted` (`NewFilesAccepts`),
`WalkTypes` (`TypeOK`) and `LoadEnds`. The invariant `Inv`: `Once` (`fdset` is `seen`
without repetition), `Complete` (the roots passed and the imports of the files seen are
seen or waiting, on the stack or ahead of an active call), `Sound`
(nothing seen or stacked is unneeded), `Through` (a walk that returned is
through). When nothing waits, `Complete` makes `seen` closed under imports, and
with `Sound` it is exactly the needed files; each step then is a `Collect`, a
`Finish`, a `Fail` or a stutter of `FileSet`.

`LoadEnds`: for finitely many files each step of Load's walk leaves less to do, in
a well-founded order: files not seen, parsed files not entered, active calls,
dependencies of the innermost one, the return. This holds for cyclic imports as
well, since `walkFileDescriptors` marks a file before it descends.

`ReflectEnds` is the same for Reflect's walk over acyclic imports (`Ranking(rank, n)`).
That walk pushes the imports of a file each time it pops the file, seen or not, so that neither
the stack nor the set of files left need shrink; what shrinks is, after the services not
resolved, the list of places the files of each rank have on the stack. With cyclic imports
it need not end. `LoadReturns` (cyclic imports included) and `WalksEnd` are the temporal
theorems: `WalkEnds`, from these measures.

### Calls

`CallsProofs` proves, from `CallsAssumption` and `FieldsAssumption`, for any RPCs of any kinds, tags,
addresses and bounds on attempts:

| theorem | property |
|---|---|
| `TypeCorrect` | `TypeOK` |
| `SampleForEach`, `SamplesOwn`, `LateSamplesBegun` | `OneSampleEach`, `SampleIsOwn`, `OneLateSample` |
| `CountersAgree`, `StatusesAgree` | `StreamSamplesAgree`, `StatusAgrees` |
| `InvokeAnswered`, `CrashOnlyNull` | `InvokeAnswers`, `CrashIsNull` |
| `WaitsTimed`, `CallsDoReturn` | `WaitIsTimed`, `CallsReturn` |

As far as samples go a step is of one of six kinds for each RPC: it starts the
RPC (`Starts`), begins or ends an attempt (`AttemptBegins`, `AttemptEnds`), ends the RPC
without one (`Refused`), is a sample that k6 takes (`Taken`), or leaves the samples alone
(`Stays`); every action is shown to be one of these (`Steps`), and the invariants are
proved of the six. `CountInv` counts the samples sent and the one being sent against the
attempts that have ended: the handler sends in the thread in which the RPC would go on, so
there is one at most, and none while an attempt runs. `WaitsInv` says which RPCs only run
while the thread waits for them. `StatusInv` gives the last sample of an RPC that is over
the status of the RPC: a retry that grpc-go gives up would leave an older one, but not
while the thread waits for the RPC and its context is live. `OwnInv` says of an RPC's tags,
and of the samples being sent, what `SampleIsOwn` says of those taken; for reflection,
which has no tags of its own, it needs that the thread waits in `connect` and so the VU's
tags do not change, also after it has returned and its context is done, when no sample is
pushed. `StreamInv` keeps the stream's tags, and those of the counters' samples, those of
its call. `AnswerInv` relates `given` to the RPC and to what was converted.

`LateSamplesBegun` is about the window between the look at the context and the send. An
interrupt may fall into it, and the sample is then still sent. The theorem bounds what can
follow: `DoneInv` says that of a VU that is done no RPC is live, so that the handlers, which
look at their own RPC's context, and the threads that look at the VU's all see it
(`PushStep`); and `PushInv` that each thread of each RPC sends one sample at a time, the
event loop only while a stream begins.

`WaitsTimed` is the reason why a call returns: the RPC the thread waits for is over, or
it is running and has a timer or a context that is done, through every
retry. `CallsDoReturn` is the temporal theorem: the RPC goes from live to done to
over, each time by the fair action `Progress`, and never back (`NoWayBack`,
`OneFurther`); a sample its handler is sending holds it up only until `Drain`
(`Drained`), and once the context is done there is no other one (`NoMoreSamples`). It
takes from TLC that `Progress` and `Drain` are enabled while the thread waits
(`[]WaitsGoOn`, run `calls`).

### Params

`ParamsProofs` proves, from `ParamsAssumption`, for any objects a script can give and any names,
texts and tags:

| theorem | property |
|---|---|
| `TypeCorrect` | `TypeOK` |
| `VerdictOrderless` | `VerdictIsOrderless` |
| `TLSUsed`, `CallTimedAndNamed` | `TLSIsUsed`, `CallIsTimedAndNamed` |
| `AcceptedGiven` | `AcceptedIsGiven` |

The invariant `ParamsInv`: `Reading` (the headers the range has been to had a
value), `Typed` (each parameter read has its type, and tls passes the checks of the parser),
`Judged` (a bad entry is still ahead, or is what the object was rejected for), `Made`. A
bad entry can then not be behind an accepted object, and the assertions of
`buildTLSConfigFromMap` find what the parser has checked.

`AcceptedGiven` needs a second one, `Kept`: no two entries ahead have one key, those
behind have been taken, a parameter that no entry behind sets has its default, and
while a range is running the headers it has been to are in the metadata (`Has`): under
each name grpc-go uses, as many values as there are names of that header, and those
they were given. `AppendHas` is the step of that range, for any set of names.

### Lemmas

`Lemmas` has what several proofs use: the members of a sequence after a pop, an append, or
a pop followed by a push of several (`ClientProofs`, `FileWalksProofs`); lists of
finite sets compared from the first to the last, an order in which nothing can get less for
ever (`Measures`, `Less`, `LessWellFounded`, with the library's theorem on lexicographic
orders); a stack as such a list, by the ranks of its members (`Places`, `PlacesLess`).

### What the liveness theorems take for granted

Two things stand as hypotheses in the theorems about `~>` and `<>`, because no proof of
them is in the provers' reach.

- That the fair actions are enabled where the argument needs it: `ENABLED` is not
  expanded by the provers. `WaitsGoOn`, an invariant of the run `calls`, is a
  property of the system: it fails for an `invoke` without a timeout. The others only say
  of the model what can be read off its actions, that a fair action can be taken in the
  states in which its guards hold: `GuardsAreEnabled` in `StreamProgressProofs`,
  `ConversionGoesOn` in `ClientProofs`, `WalkGoesOn` in `FileWalksProofs`. No run checks
  them, as no change of the code would break them.
- For the theorems that rest on a measure, one instance of well-founded induction:
  `FewerEnds`, `LeftRunsOut`, `ReflectLeftRunsOut` and `ConversionRunsOut` each
  say that if the order of the measure is well-founded, the measure is always in its
  domain, and each step makes it less, then there is a last step. All three premises
  are proved (`StepsEnd`, `LoadEnds`, `ReflectEnds`, `ConversionsEnd`), and the rule
  says nothing else of the system: it holds of any behaviour whatever. The induction
  theorems of the library take the formula as a parameter, and no set can be made of
  temporal formulas, so the rule itself cannot be proved here.

`OffersReturn`, `GoroutinesReturn` and `CallsDoReturn` need the first only.

### Only model-checked

The invariant `WaitsGoOn`, as said. All
other properties of the passing runs are proved, the safety properties without any
hypothesis but the assumptions on the constants. TLC checks the liveness
properties as well, and without the hypotheses above, on small instances.

## 5. Not modelled

- Debug output (`DebugStat`, `conn.go:263-326`): formatting of log lines.
- Registration, exports and metric definitions: done once, without state that
  changes afterwards.
- Parsing of proto files and protosets, PEM and certificates: libraries, of which
  the models take every result the code tells apart.
- The names and metadata of the `MethodInfo` that `load` returns.
- The test server, generated code, examples.
- What a message becomes whose type was loaded in two versions, and a second
  `Client` of one VU on the same server: clients share only the registry.

Left for later: a composition of a client with a stream on its connection, in
which closing the client, and not only a status Canceled, ends the stream's RPC.
