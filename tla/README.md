# A TLA+ verification of shoc

shoc wraps NVIDIA's DOCA library for C++20 coroutines. DOCA reports the end of
an operation through callbacks from its progress engine; shoc turns these into
`co_await`. Nothing here runs in parallel: one thread runs the engine, the
callbacks and all fibers (coroutines). What makes the code hard is that a
callback *resumes* fibers, and a resumed fiber runs at once, inside the callback,
and may call anything: create and stop contexts, accept, disconnect, give up its
lease on the engine. Every module below is about what such a step finds half done.

The modules are translated from `src/shoc`, and from programs in `src/samples`: the
ones in `plain_doca`, which do without the library, and C++ counterparts of them.
DOCA is not part of the repository; it appears as the environment: which calls it
may refuse, which events it may send and when, as far as the code in `src` shows. Such definitions are marked
external in `PROJECT.json`.

## The parts of the system

| Part | Sources | What it does | Modules |
|---|---|---|---|
| Accepter queues, value awaitables | `common/accepter_queues.hpp`, `coro/value_awaitable.hpp` | Match values that arrive (messages, connections, consumers, packets) with fibers that ask for them | `AccepterQueues`, `AcceptChannel` |
| Task offload, status awaitables | `progress_engine.{hpp,cpp}`, `coro/status_awaitable.hpp` | Allocate and submit a DOCA task, resubmit it when queues are full, report its status to a fiber | `TaskOffload` |
| Contexts | `context.{hpp,cpp}` | Life of a DOCA context, its registry in the parent, `stop_all` | `Contexts` |
| Progress engine | `progress_engine.{hpp,cpp}` | The run loop, its polling modes, leases that keep it running | `ProgressEngine` |
| Comch server | `comch/server.{hpp,cpp}` | Server, connections, consumers and producers on them | `ComchServer` |
| Comch client | `comch/client.{hpp,cpp}` | Client, its children, messages | `ComchClient` |
| Remote consumers | `comch/producer.hpp` | The consumers the peer announces, by id, and their expiry | `RemoteConsumers` |
| Contexts that offload | `compress`, `sha`, `dma`, `erasure_coding`, `aes_gcm`, `sync_event`, `eth_txq`, `eth_rxq`, `rdma`, `comch/producer`, `comch/consumer` | One task pool per operation, and the callbacks | `TaskPools` |
| AES-GCM keys | `aes_gcm.{hpp,cpp}` | Keys that must be gone before the context stops | `AesGcm` |
| RDMA connection manager | `rdma.{hpp,cpp}` | `connect`, `listen` and the four callbacks that pair them with connections | `RdmaCm` |
| Buffers | `buffer*.{hpp,cpp}`, `eth_rxq.cpp` | Reference-counted `doca_buf`s, inventories, pools, received packets | `Buffers` |
| PCI device emulation | `devemu_pci.cpp` | Types, representors and devices, hotplug and hotunplug | `PciEmulation` |
| Plain DOCA programs | `samples/plain_doca` | Compression, ping, data stream and DMA in C, on callbacks | `PlainCompress`, `PlainPing`, `PlainData`, `PlainDma` |
| C++ programs with windows of offloads | `samples/{simple,parallel}_compress.cpp`, `samples/dma_{client,server}.cpp` | The same in fibers | `FiberSamples` |

How they interact. The engine's loop calls DOCA, which calls the callbacks of
contexts and tasks. A task's callback stores a status in a receptable and resumes
the fiber that waits for it. A context's state callback tells its parent
(the engine, a server connection or a client) when the context is idle, and
the parent takes it out of its registry; an empty registry is what lets a
disconnecting connection, a stopping client or server, and in the end `run()` go on.
Accepter queues sit between callbacks that deliver and fibers that ask.

`PROJECT.json` lists the same parts as "components", with those left out, and the
places where each can go wrong as "hazards".

## Modules

A module's VARIABLES carry, in a comment, the member of the class they stand for, and
its definitions the names of the source where there is one. `PROJECT.json` maps
every definition to its lines.

**`AccepterQueues`** - `accept`, `supply` and `disconnect`, and the value
awaitables. The loop of `disconnect` is split at the resumption of each fiber
(`DrainOne`, `DrainEnd`), since the fiber may call `accept` there. `supplied` is a
history. **`AcceptChannel`** says what the queues
promise: an ordered channel, first value to first request, which after it closes
refuses. `ImplementsChannel` is the refinement.

**`TaskOffload`** - `status_offload`, `submit_task` with its immediate attempts,
`delayed_resubmission` (a detached fiber with a timer), the completion callback
with the resumption at once or posted to the executor. The attempts are an
unsigned number of range `UInt32Range`, decremented before the test, as in the code.
A posted resumption whose receptable is gone resumes nobody or anybody (`strayed`).

**`Contexts`** - one registry of contexts and fibers that create, stop and wait
for them. The call stack is a variable: a frame for each running fiber, each idle
callback and `stop_all`, so that everything that can run inside
`stop_all` does. The iterator that `stop_all` keeps across the call of `stop()` is in `loop`, with the
elements of the table that lie ahead of it. The order of the hash table is not fixed beforehand: each step of the iterator
may go to any element ahead. A context that a fiber creates meanwhile gets a place before or behind the iterator, or
makes the table rehash, after which anything may lie ahead; removal leaves the others where they are. An iterator whose element was erased
leads anywhere in the table, to its end, or to a crash.

**`ProgressEngine`** - `run()` as the steps between its suspension points, in both
polling modes, with notification, cancellation, leases (construction, copy, move,
`clear`, self-assignment), contexts, the destructor and `stop`. Again with a call stack.

**`ComchServer`** - a server, its connections, their children, the fibers that wait
for connections, for what arrives on them, for disconnections and for the stop.
An action is a whole callback: `DisconnectionEvent` drains the receivers, erases the
connection and, if it was the last, stops the server, resuming who waits. Children stop at once, inside `disconnect()`,
or later. `server::stop` is the exception: its walk through the connections is a step per round (`StopRound`), and the fibers that a
round resumes act before the next one; they may call `stop()` again, so the walks are a stack. When they have taken away the connection
the walk would come to next, it goes astray (`lost`); when an object may have been freed that the code still uses, the process
may end there (`crashed`).
What is *in* the queues is left to `AccepterQueues`.

**`ComchClient`** with **`RemoteConsumers`** (INSTANCE) - the client's
state machine against DOCA's, its children, senders and receivers. Remote
consumers are objects under ids that the peer may use again.

**`OffloadContexts`** - the composition of **`TaskPools`** (EXTENDS) and **`AesGcm`**
(INSTANCE). `TaskPools` has a table per context class of what the constructor
configures (which tasks, which callback, and the receptable it casts to) and another
of what each operation allocates and creates; they are written in different places
of the code and must agree. A context of any class then runs with fibers that call,
are refused, complete, resubmit from inside a callback, and stop. With AES-GCM the
keys take part: `stop()` is put off until the last key is gone.

**`RdmaCm`** - `connect`, `listen` and the callbacks for requested, established,
failed and ended connections, with the maps of receptables by connection and port.

**`Buffers`** - the special members of `buffer`, `buf_get_by_*`, `allocate_buffer` and
the two packet callbacks of managed receive queues, against DOCA's reference counts
and free elements. Temporaries live within an action; an allocation may throw with one.

**`PciEmulation`** - configuration and start of a type, its representor and device,
`hotplug`, `hotunplug` and their callback.

**`SamplePrograms`** - one program, or client and server, out of those in `samples` listed above; the
C programs are INSTANCEs, the C++ ones come by EXTENDS, all over the variables of **`PlainDoca`**: phases of the two processes, DOCA's contexts,
the comch connection with its queued events, sends in flight, what each process holds, the program's own
structures (`st`), and two histories: what failed (`faults`) and what was released or used wrongly (`misuse`).
**`Resources`** describes set-ups: a set-up is a sequence of rows, one per call, with what the call acquires
and what the label it jumps to releases; `Outcomes` is everything that can come of it, whichever call fails.
**`CompressResources`**, **`PingResources`**, **`DataResources`** and **`DmaResources`** are these tables, function by
function, and **`PlainCompress`**, **`PlainPing`**, **`PlainData`** and **`PlainDma`** have one action per callback.
Decisions: a set-up or a callback is one step, as a process has one thread; that a context runs or is idle
is an event that follows; destroying a running context has no effect (it leaks);
`doca_comch_server_disconnect` calls no callback of the server, and the client is told; the user data of a connection whose
set-up fails late still points to the freed state; a client waits for its
consumer to be idle and not for its DMA context; a server never ends by itself.
**`FiberSamples`** has the fibers from `co_await` to `co_await`: the loop with its slots of awaitables, what
happens to an awaitable that is overwritten, and exceptions. One that leaves a fiber resumed by a callback is logged by
`value_receptable::resume` and ends that fiber only: `dma_serve` goes on accepting.

The `*Proofs` modules EXTEND the modules they are about (`OffloadProofs` is about `TaskOffload` and `OffloadContexts`,
`ConnectionsProofs` about `ComchClient` and `RdmaCm`); the `MC*` modules give the
functions among the constants their values. `MCConnections` and `MCOffload` have three components each, which share no
state: a variable `part` says which of them a behaviour is about, and the other two stand still.

## Runs

Each cfg is checked with the constants in it. "Bounds" says why they suffice.

### connections
Three components that bring connections and messages to fibers, one per behaviour.

The accepter queues. `WaitersQueued`: a suspended fiber's receptable is queued, once. `DisconnectDrains`:
after `disconnect()` nobody waits and nobody starts to, although resumed fibers call
`accept` inside the loop. `ImplementsChannel`: order and exactly-once delivery.
*Bounds*: two payloads, four accepts, four supplies; the queues hold one kind of thing
at a time, and four of it already show every order of overtaking.
*Fairness*: the drain loop goes on (it is a plain loop).

The comch client. `NobodyLeft`: nobody is suspended on an idle client. `SendsWhileRunning`: tasks are made only
while the context runs. `ChildrenStopFirst`. `ExpiryKnown`: an object says it has expired
exactly if its expiry was reported, also when its id was used again. `StopCompletes`.
*Bounds*: two children (one may be late while the other leaves), one receiver, one accepter,
two ids, used twice. DOCA is taken to announce an id again only after it has reported its expiry; what the index does with an
id announced twice (`producer.hpp:89`) is in the hazards only.
*Fairness*: DOCA starts and stops contexts. `StopCompletes` excepts a stop during the start, a
refusal, and children created after `stop()`.

The RDMA connection manager. `ReceptablesMatch`: the maps hold exactly who waits, and requests only come to servers, which is the
code's own assertion.
`Delivered`: a connection goes to the fiber that asked for it. `ConnectResolves`: `connect()` ends.
The last two stop where `listen()` has made a server of a client, and `ReceptablesMatch` counts
listeners whose connection could not be accepted apart, since the code does not resume them.
*Bounds*: two callers, two ports, three connections. *Fairness*: a connection in progress is
established or fails.

### offload
Three components that an offload needs, one per behaviour.

The task. `ResultIffFreed`: a result exists exactly when the task is freed or was never
allocated. `ResumedWithValue`: nobody is resumed without a value, as long as no posted resumption found its receptable gone.
`ResubmissionsBounded`: the retries are as many as configured.
`CompletionResumes`: a task that waits for its retry is submitted or given up, and a completed task
resumes its fiber.
*Bounds*: three offloads, one of them with deferred resumption, in two contexts; two
attempts, unsigned range 4. Offloads share only the engine's registry of contexts, and memory when a posted resumption
goes astray, so three suffice for one waiting, one retrying and one completing.
*Fairness*, per offload: timers fire, DOCA completes what it has accepted, the
executor runs what was posted.

The context. `PoolConserved`: free tasks, tasks under way and leaked ones add up (`partial_hash` leaks when
it cannot mark its task as final), and each callback casts to the receptable its call has made.
`NeverStarved`: a call is refused only when `max_tasks` are in use.
`KeysGoFirst`, `StopCompletes`: the count of keys is exact but for overwritten ones, no key
outlives the context, and a put-off stop takes place.
*Bounds*: all eleven classes; three fibers and two tasks of a type, so that a pool is exhausted;
two key objects, up to three loads. *Fairness*: DOCA completes tasks and stops the context.

The buffers. `CountsExact`: reference counts equal the number of objects that hold the element, and the free
elements are those with none. *Bounds*: five objects, three elements: sharing, exhaustion and
self-assignment all occur.

### comch_server
`RegistriesAgree`, `NoAwaiterLeft`, `ChildrenStopFirst`: the registries hold what is
there; nobody waits for what has happened or cannot happen; a connection goes after
its children and the server after its connections. `WaitHasCause`: whoever waits for
others has somebody left to wait for who is on the way out. `StopCompletes`:
disconnections and the stop end.
*Bounds*: three connections: `k1` with two children and no complications; `k2` with
one child and all of them (DOCA refuses, the client leaves by itself or connects late,
a child is created late); `k3` whose client may leave. The action constraint `OneOfTheTwo` lets either the second child of `k1` come or
`k3`, so that a connection has two children, and a walk of `stop()` three connections, but not both at once; what it cuts off
begins with a client or a fiber that comes, which no fairness demands. Walks are nested at most as deep as fibers are resumed, and each round
that resumes one uses up a connection.
`StopCompletes` is about connections to which no complication can happen; with one, the code may wait for good. It and `WaitHasCause`
also end with a walk that has lost its element, or a process that has crashed.
*Fairness*: children that were told to stop become idle, and so does a server; the walk goes on (it is a plain loop); a fiber resumed
in it suspends. These are strong where fibers may act in between, again and again: they share one thread with the event loop, which gets
its turn whenever they suspend.

### contexts, contexts_iterator
`LostOnlyToFibers`: the removals that `stop_all` causes itself never take the element its iterator points to; it is
lost only to a fiber that asks that very context to stop. `NobodyPassedBy`: a context that was there when `stop_all` began and still
runs is one it has yet to come to, until the table is rehashed or the iterator lost. `NoStopAwaiterLeft`, `AwaitersResume`:
whoever waits for a stop or start is resumed.
*Bounds*: three contexts: one visited, one next, one after; two fibers. Context `c3` may be
waited for by several fibers and its start may fail.
*Fairness*: DOCA delivers state changes; a running fiber suspends or ends (strong, because
what it calls may run others first).
`contexts_iterator` violates `IteratorValid`; see Findings.

### engine
`LeasesCounted`: `registered_fibers_` is the number of leases held. `SleepJustified`: `run()`
never sleeps with neither lease nor context left. `RunsAsLongAsNeeded`: it does not return
while one is. `RunEnds`: it returns when none is left. `EventsHandled`: no event between
polling and the request for a notification is lost, and busy polling lets posted fibers run.
The initial state chooses the polling mode and three switches, `LateSpawn`, `LeaseFirst` and
`WaitMayFail`, for what some of these properties cannot stand: a fiber spawned by somebody
without a lease after `run()` has ended, a fiber that gives up its last lease and then uses the
engine, an event handle whose wait fails. Each property names the switches it excludes.
*Bounds*: two fibers, two contexts, three leases. The constraint `Bounded` cuts this to two fibers with
a lease each when no switch is on, and else to one fiber with two leases. What it cuts off begins with
the construction of a lease or a fiber, which no fairness demands: the rest is all behaviours of the
smaller instance.
*Fairness*: the steps of `run()` (strong: it shares the thread), callbacks for stopped
contexts, state changes by DOCA, and the executor, which runs what is posted.

### sample_programs, dma_window
`ResultComplete`: a client that ends without a failure has every block, and blocks arrive in order (for the C++ programs this is `CompleteFibers`).
`MappingOutlivesReads`: the server's memory map is there while its client may read, whatever failed
(for the C++ programs `MappingKept`).
`NoMisuse`: nothing is released twice, unacquired or before what was made from it. `AwaitablesKept`: no
awaitable is given up with its offload in flight. `AllReleased`: a client that ends leaves nothing behind,
nor does its connection in the server. `ProgramEnds`: a client ends.
Each property holds but for what the code does at these places, which the properties name:
* `dma_client.cpp:87` has `i > slots` where slot 0 is first reused at `i = slots`. Block 0 is not awaited, "done" may
  be sent and the memory freed with its read in flight; see Findings.
* `parallel_compress.cpp:79` awaits empty awaitables when there are fewer batches than waiters.
* `dma_client/dma.c:77` starts as many reads as the parallelism, though there be fewer blocks; `dma.c:85` reads from
  a state that line 84 has freed; `comch.c:57` and `dma.c:83` race for the end of the client.
* `comch_data_server/connection.c:169` reads a connection state that is gone if the producer does not stop at
  once; after failures `comch_data_client/client.c` and `dma_client/main.c` use storage they may not have.
* `comch_client.c:100` reports that the client's state cannot be found and then uses it.
* The compression programs do not look at the result of creating the output memory map, and return a result after a
  failed task.
* Failures that a callback only logs leave a client waiting (`Unreported`). In C++ it is a client whose
  context never runs (`context.hpp:258`).
* A process that leaves its loop because `epoll_wait` failed or a state could not be read releases what is in use.

*Bounds*: 1, 3 and 5 blocks, parallelism 1 and 2: fewer blocks than slots, and windows that go round
twice. One client and one server, one message in flight per process.
*Fairness*: DOCA and the loops go on; failures are never demanded.

### offload_lost_resume, offload_zero_attempts, offload_posted, pci_hotplug
Each shows one violation, of a single offload or device; see Findings.

Deadlock is not checked where a program may just be done.

## Findings

In six places the code does not do what a line of the repository says. Each has a run that TLC ends with a counterexample.

| Place | What happens | Against | Run, property |
|---|---|---|---|
| `progress_engine.cpp:193` | When `delayed_resubmission` gives up it sets the error in the receptable and does not resume the fiber that waits for it | `README.md:206` | `offload_lost_resume`, `ResultResumes` |
| `progress_engine.cpp:188` | With `resubmission_attempts = 0` the first tick resubmits all the same, and the counter wraps round to 2^32 - 1 | the comment at `progress_engine.hpp:43` | `offload_zero_attempts`, `ResubmissionsBounded` |
| `progress_engine.hpp:386` | A deferring callback fills the receptable and posts a function with a pointer to it; a fiber that awaits in between takes the value and destroys the receptable first | `coro/status_awaitable.hpp:110` | `offload_posted`, `FilledMayGo` |
| `context.hpp:456` | `stop()` inside `stop_all` resumes a fiber that stops the context the iterator points to: the iterator does not remain valid. `server.cpp:213` has the same loop over connections | the comment at `context.hpp:452` | `contexts_iterator`, `IteratorValid` |
| `devemu_pci.cpp:254` | The hotplug callback sets the value of a waiter and does not resume it | `coro/value_awaitable.hpp:20` and the sample that goes on after `co_await hotplug()` | `pci_hotplug`, `PlugResumes` |
| `samples/dma_client.cpp:87` | Block 0 is replaced in its slot without having been awaited | the comment at `samples/dma_client.cpp:81` | `dma_window`, `PendingAwaited` |

The exceptions that properties of passing runs make beyond these are described with the runs above and with the hazards in `PROJECT.json`.

## Proofs

TLAPS checks the 39 theorems that `PROJECT.json` lists, for any sets of fibers, leases, contexts, connections,
ports, ids and buffers, any lengths of queues and call stacks, any sizes of pools, and any numbers of blocks and slots.
27 of them state a property that a run checks too. The inductive invariants:

* **AccepterQueuesProofs.** The queue of accepters is all the empty receptables in the order of the
  calls, and the queue of data a suffix of what was supplied. Neither property follows from
  itself: `FeedFront` serves the right fiber only because of this order. From it follow
  `Exclusive`, `NoLostWaiter`, `NoWaiterAfterDisconnect`, `ResultsAreFinal`, and step by step the
  refinement `QueuesImplementChannel`.
* **OffloadProofs**, the offload of tasks (`TaskInv`). `ResultIffFreed` and `ResumedWithValue` are inductive once it is known
  that an awaitable exists from the call on and that a posted resumption has its value. The bound needs a count the
  code does not keep: while a task is delayed, attempts left plus attempts made is the number configured. `BoundedResubmission`
  assumes `ResubmissionAttempts > 0`; with 0 the counter wraps round (run `offload_zero_attempts`).
* **OffloadProofs**, the contexts that offload. `PoolConserved` and `NeverStarved` are inductive together with the types
  (`PoolInv`), but no step is one change of the pool: a fiber may call again inside the callback that has freed its
  task. So a step has two halves, the pool once the task is back (`Balanced`) and what the fiber then takes from it.
  `OpsConfigured` compares the tables of all eleven classes, what the constructor configures with what
  the operations allocate. `KeysAlwaysGoFirst` rests on the exact count of keys (`KeyInv`): only since each key held is counted
  does `loaded_keys_ = 0` mean that none is held. `StopIsNotForgotten` is the safety half of `StopCompletes`: a stop that
  nothing holds up any more has been tried.
* **ConnectionsProofs**, the comch client. The expiry of remote consumers (`RemoteInv`) depends on four operations only, so it is proved
  of them, and every step of the client is one of them or none (`ClientRemoteStep`); that a reused id is not confused
  with its predecessor needs that no end is reported before the announcement. The client itself (`ClientInv`): its registry
  is the children that are not idle, an idle client refuses whoever comes to wait, and there are no children before it runs.
  `StopAlwaysHasCause` adds `CauseInv` and is the safety half of the client's `StopCompletes`: after `stop()` the client is stopping,
  idle or waiting for children that are all stopping, so that DOCA owes it a callback.
* **ConnectionsProofs**, the RDMA connection manager (`CmInv`). `ReceptablesMatch` needs that a context makes one attempt
  at most, and as a client, that only a client made a server parts an attempt from its fiber (the exception of the property),
  and that a connection somebody owns is no attempt any more. `DeliveredToOwner`, an action property, follows from it step by step.
* **ComchServerProofs.** `RegistriesAgree`, `NoAwaiterLeft` and `ServerStopsLast` are inductive
  together with the types of the walks on their stack (`WalksEnd`). `HierarchyOrder` and `WaitsAreJustified` need in addition that the parents of children
  are there, and that each waiting connection and server has a cause; while `stop()` is under way, a connection that was not asked yet is
  one a walk has yet to come to (`ToVisit`), unless one has lost its element.
* **ContextsProofs.** No fiber or callback is on the call stack twice and its frames agree with the states of
  contexts and fibers; the registry
  differs from the contexts that are not idle only by those with an idle frame on the stack; a
  coroutine slot that is set names a fiber that waits for just that. `IteratorLostOnlyToFibers` and `EverybodyVisited` add an invariant
  for the loop (`LoopInvariant`): what lies ahead of the iterator is in the table, what it has found was created, and the idle callback of the
  element it points to runs inside the loop only if a fiber has asked for that. They need no assumption about what fibers do.
* **ProgressEngineProofs.** The count of leases, the types of loop, contexts and fibers, and that the stack holds
  running fibers, each once.
  `NoSleepWithoutCause` assumes that fibers keep a lease until they exit, `RunNotEndedEarly` that
  nobody without a lease spawns late and that waiting does not fail.
* **BuffersProofs.** Each object and temporary accounts for one reference, also in the middle of an
  expression; so each special member is a lemma on states with temporaries. `Exact` follows.
* **FiberSamplesProofs.** All three theorems are about all numbers of blocks and slots, which no run can be.
  `AwaitablesAlwaysKept` has the invariant `WindowInv`: before the window is filled its slots are empty; as long as nothing has
  failed, whatever is in flight is block 0 or belongs to one of the last `slots` iterations and is still in its slot (iterations
  less than a window apart have different slots, those a window apart the same); no call lacks a task, because at most
  `slots + 1` offloads are in flight; and "done" is sent only after the last slot was awaited. The theorem makes
  the exception for block 0 precise: it is the only one.
  `FibersComplete` and `MappingIsKept` add what the windows have come to (`CompressResult`, `Transfer`): what was offloaded
  is either good or in flight, and a drained window has nothing in flight. For the transfer they follow the claim "everything
  is read" from the client's last iteration to the server through the send, the server's queue and `msg_recv`; and
  the mapping from `handle_connection`, which holds it, to the client through the message with the extents (`Serving`): whoever may
  read has been told of a mapping whose holder does not return before it hears "done".

The constants' assumptions are the named ASSUMEs of the component modules, which TLC evaluates.

Only model-checked:

* all liveness (fairness and ENABLED are out of the prover's reach). Of the two `StopCompletes` of the client and of
  AES-GCM, the safety halves are proved as said above, and of the server's in `WaitsAreJustified`;
* of `sample_programs`, `NoMisuse` and `AllReleased`, and the C programs' part of `ResultComplete` and
  `MappingOutlivesReads`. The C++ programs' part of these two, `CompleteFibers` and `MappingKept` in `FiberSamples`, is
  what `FibersComplete` and `MappingIsKept` prove.
  No proof has been written for the C programs: a set-up of theirs is the set of outcomes of a long sequence of concrete rows, which TLC
  computes and the provers would have to, row by row;
* `PciEmulation`, whose run shows a violation.

The models use no RECURSIVE operators.

## Not modelled

* Memory maps and aligned memory, devices, Ethernet frames, handles, errors and logging: no state
  that changes, or data formats only.
* Flow (`flow.{hpp,cpp}`): builders that hand values to DOCA, and handles. There is no state to go through and no
  callback that resumes anybody; a model would only list setters. Reading showed that `set_queue_depth` calls
  the setter for counters (`flow.cpp:72`), that `flow.cpp:234` asks a vector for its size after moving it away, that
  `library_scope` ignores the result of the initialisation (`flow.hpp:167`), and that a copy of `resource_rss_cfg`
  points into the original's vector (`flow.hpp:45`).
* Other samples (devices, Ethernet, RDMA, flow, erasure coding, device emulation): straight-line uses of parts with modules of
  their own. Tools, tests, and the pair of programs under `bug-reports`, which reproduces a fault of DOCA.
* In modelled parts: the scope wrappers beyond their `stop()`, expiry of remote consumers on the
  server, RDMA connections exported out of band, receivers of managed receive queues, erasure-coding
  matrices, locations and exports of sync events, several clients of one sample server.

## What could come next

1. Receivers of managed receive queues (`eth_rxq.cpp:158` never disconnects its queues) and the
   composition of `ComchServer` with `RemoteConsumers`.
2. The library's client and server together, over the channel of events that `PlainDoca` has.
3. Several clients of one sample server.
4. Proofs of `NoMisuse` and `AllReleased` for the C++ programs, and of the order of blocks in the C ones.
