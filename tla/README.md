# KeycapRoot in TLA+

KeycapRoot is the foundation library of a family of game servers: asynchronous
TCP services on boost::asio, a locator that finds services by type and routes
the answers to their requests, a scheduler, and helpers for cryptography,
compression, configuration and text. This directory holds TLA+ models of its
code, the TLC configurations that check them, and proofs checked by TLAPS.
Paths below are relative to `src/src/`; `network/` stands for
`include/keycap/root/network/` and `libs/network/`.

## 1. The system

### Components

| Component | State | Operations | What makes it correct |
|---|---|---|---|
| `connection` (`network/connection.*`) | `send_packet_queue_`, `send_timer_`, `socket_`, the coroutines `do_read` and `do_write` | `send`, `listen`, `stop` | packets leave in the order they were accepted, each once; every packet leaves while the link lasts; handlers hear `Up`, then at most one `Down`; data only in between; a lost peer is noticed |
| `data_router`, `message_handler` | the list of handlers, each with an identity | `configure_inbound`, `remove_handler`, `route_inbound`, `route_updated_link_status` | every handler hears of every event; removing one removes that one |
| `service`, `service_base` (`network/service*.hpp`, `service_base.cpp`) | `io_context_`, `running_`, `acceptor_`, `thread_pool_`, the mode | `start`, `restart`, `stop`, `connect`, `listen`, `handle_new_connection` | one set of threads runs; a stopped service can be started again; a destroyed one has joined its threads |
| `schedule` (`utility/schedule.hpp`) | `timers_`, `counter_`, `io_service_` and its threads | `add`, `cancel`, `cancel_all`, destructor | no callback comes early, is lost, or comes after it was cancelled; entries do not leak |
| `service_locator` (`network/service_locator.*`) | `services_`, `located_callbacks_`, `registered_callbacks_`, `registered_callback_counter_`, `connection_` of each service, `schedule_` | `locate`, `remove_located_callback`, `send_to`, `send_registered`, `on_link`, `on_data` | one connection per service; a callback is called once, with the answer to its own request; a lost connection is made again |
| `registered_message`, `service_connection` (`network/registered_message.hpp`, `network/service_connection.hpp`) | the bytes read and not yet decoded (`input_stream_`) | `encode`, `decode`, `can_decode`, `on_data`, `send_answer` | messages are the same whatever the reads of TCP cut out of the stream |
| `memory_stream` | a byte vector and a read position | `put`, `get`, `peek`, `override`, `advance`, `shrink`, ... | what was put is got, reads stay inside |
| `zip`, `ARC4`, `OTP`, `srp6` | cipher state, the SRP6 exchange | pure functions and short protocols | inverses; both sides of SRP6 reach one key and accept each other's proof |
| `enum` (`utility/enum.hpp`) | the maps from values to names, `value_` of a variable | `to_string`, `to_vector`, `set`, the operations on flags | names and values are those of the declaration |
| `config_file`, `string`, `random`, checksums, helpers | (almost) none | pure functions | lookups and conversions |

### How they interact

* The application calls `service_locator` and `connection::send` from threads of
  its own. Each `service` runs its `io_context` on `thread_count_` threads, and
  there run `connect`/`listen`, `do_read`, `do_write` and whatever handlers they call.
  `schedule` has a third pool. Answers are posted to the `io_service` the caller gave.
* Coroutines interleave at each `co_await`. Apart from `timers_mutex_` in
  `schedule` **nothing takes a lock**; the queue and the timer of a connection,
  and the maps of the locator, are shared bare.
* `do_read` calls `route_inbound`, `on_data` of each handler, and through it
  `send` on the same connection. `handle_new_connection` and `do_read`
  call `route_updated_link_status`, `on_link`, and through it `schedule::add`;
  the schedule calls `service::restart` from a thread of its own.
* `locate` and `restart` both connect; a Down of the connection is what links them.
* The locator owns `schedule_` and its services; destroyed, it gives up the schedule and
  the maps before the services, whose threads still call into it.

### What is hard

* the lost wake-up between `do_write`'s `empty()` and `async_wait` and
  `send`'s `emplace_back` and `cancel_one`;
* who reports that a link went down: of `do_read`, `do_write` and `stop`, one does;
* a timer that expires while its item is cancelled, and a table searched without its mutex;
* answers that are late, repeated, cut in two, or run together; requests sent
  while there is no connection; connections that are lost while a restart is due;
* a locator destroyed while its services run;
* callbacks that throw, on threads that survive one exception;
* liveness that hangs on one outstanding operation (`do_read`'s) or one attempt (`restart`'s).

`PROJECT.json` lists each hazard at its line with the properties that cover it.

## 2. The modules

| Module | Models | Specification above it |
|---|---|---|
| `Connection` | `connection.cpp`, `service::handle_new_connection`, the io threads, the kernel and the peer | implements `LinkContract` |
| `LinkContract` | what a connection promises: reports and ordered delivery | |
| `Schedule` | `schedule.hpp`, with the boost timers | |
| `ServiceLocator` | `service_locator.cpp`, the client half of `service_base`, the servers and the network between | implements `CallContract` |
| `CallContract` | what `send_registered` promises: each callback called at most once, with its own answer | |
| `LocatorTeardown` | the life of a locator, with the order in which `~service_locator` destroys its members; extends `ServiceLocator` | |
| `RegisteredMessages` | `registered_message.hpp`, `service_connection.hpp`, `service_locator::on_data`, on bytes | |
| `Service` | `service.hpp`, `service_base.cpp`: start, stop, restart, the destructor, the pool, `do_listen`, `connect` | |
| `DataRouter` | `data_router.cpp`, `message_handler.cpp`, with handlers that fail, throw and remove handlers | |
| `MemoryStream` | `memory_stream.hpp`, `memory_stream.cpp` | |
| `Zip` | the loops of `zip.cpp` around zlib | |
| `Arc4`, `Otp`, `Srp6` | `ARC4.cpp`, `OTP.cpp`, `network/srp6` | |
| `ConfigFile` | the lookups of `config_file.hpp` | |
| `KeycapEnum` | `enum.hpp`: the text of a declaration read a second time, variables and flags | |
| `Text` | `string.cpp` and `dump_as_hex` of `utility.hpp` | |
| `MCConnection`, `MCRegistered` | values of constants for TLC | |
| `MCLibrary` | `DataRouter`, `MemoryStream`, `Zip`, `Arc4`, `Otp`, `Srp6`, `ConfigFile`, `KeycapEnum`, `Text` and `RegisteredMessages`: one of them at a time | |
| `ConnectionProofs`, `ScheduleProofs`, `ServiceLocatorProofs`, `LocatorTeardownProofs`, `RegisteredMessagesProofs`, `ServiceProofs` | theorems about the module each is named after | |
| `LibraryProofs` | theorems about `MemoryStream`, `Zip`, `DataRouter`, `Text`, `ConfigFile`, `KeycapEnum`; induction and recursive functions | |
| `CipherProofs` | theorems about `Otp`, `Arc4`, `Srp6` | |

The modules stand on each other by contract: `ServiceLocator` uses
connections that behave as `LinkContract` lets them (at most one Down, a loss
that may stay silent) and answers that `RegisteredMessages` shows to come in
order, whole, or not at all; its restarts are items of `Schedule`, and `Service` shows
what a restart of a client finds and leaves. `Connection` takes from `Service` that threads run.

### Connection

State: `reader` and `writer` are the points between two `co_await`s at which
`do_read` and `do_write` stand, `call[c]` the point of a caller inside `send()`;
`queue` and `timer` are `send_packet_queue_` and `send_timer_`;
`readOp`/`writeOp` the outstanding asio operations; `link` and `routed` log what
the handlers were given. `LinkContract` hears the chunks (`Hear`), and only while
the link is up. A packet is its number in the order of acceptance.

Actions: `Setup*`/`Listen` are `handle_new_connection`; `CallSend`/`CallCancel`
the two halves of `send()` on a thread outside; `Reader*` and `Writer*` the segments
of the coroutines, `ReaderReply*` a `send()` from within `on_data`; `Kernel*` and
`Peer*` the network. Segments are split exactly where shared state
is read and then used: `empty()` / `async_wait` (`WriterLoop`, `WriterArm`) and
`emplace_back` / `cancel_one`. `ThreadFree` says that a segment needs one of
`Threads` threads.

Merged, because nothing the properties can tell apart comes between:
`is_open()` and the start of the read; `is_open()` and `empty()`; routing Down
and `stop()`. Each call of the deque is one step (a torn deque is undefined
behaviour); `on_link` does not throw, and handlers do not send on Down.

### Schedule

Item `h` is the `h`-th `add()`; `timers` is `timers_` by id, `object[h]` the timer
item `h` waits on (its own, or with `try_emplace` an old one of the same id),
`wait[h]` where its wait and its handler stand. The handler is four steps, `Look`, `Find`,
`Erase` and `Call` or `Throw`: `timers_.find` runs outside the mutex, `cancel` inside. A
table that changes during the look makes an item `torn`: it may be missed.
`worker[h]` is the thread of the pool that runs the handler; one whose callback threw
(`thrown`) is in the second `run()` of its `catch`, and a second exception there ends the program
(`phase` = "terminated"). Exceptions that are no `std::exception` end it at once and are
left out. `Destroy`, `Stop`, `Join` are the destructor: `cancel_all`, `io_service_.stop()`, the
joins. `Usable` says who may still call `add`, `cancel` and `cancel_all`: everybody while the schedule
is alive, and after that a callback that runs on its pool, whose thread the destructor has to join.

### ServiceLocator

`conn[t][n]` is the `n`-th connection to service `t`, `current[t]` the one
`connection_` points to. `asleep` is the state `Connection` shows a stopped
connection may stay in: `connection_.lock()` succeeds and `send()` goes nowhere, but
frees it. `restarts[t]` counts the restarts the schedule holds. One call of one
function is one step: the maps have no lock, and a race on them is
undefined as a whole. A server answers what it has received, once or more, in any order.
`LocateThrows` is a `locate` whose host cannot be resolved: the service stays in `services_`.

`CallContract` has no services and no connections. Its variables are mapped to `counter`, `posted`
and `called`; what it allows is a call for each request, once, with the answer to it, or none.

`LocatorTeardown` takes the steps of `ServiceLocator` and says which thread each runs on, hence
how long it can come: `life` counts how many members have begun to go, in the order `EndsReversed`
(`schedule_`, the two maps of callbacks, `services_`), `halved` and `joined` the services that have lost
`connection_` and their threads. Each step names the members it uses; those already destroyed go to
`misused`. `cancel_all` makes pending restarts run at once, since `on_link` ignores the error it is given;
they look in `services_`. That this member is still there is what the order of declaration promises
(`RestartsFindServices`). The rest of `misused` is what it does not promise, see section 5.

### RegisteredMessages

Two byte streams, `server` (requests, into `service_connection`) and `client`
(answers, into the locator). A byte is its position. `Begin` is where the stream
that `on_data` decodes begins: the server keeps what it has read, the locator
starts at the read. `CanDecode` compares the length field, which does not count its own 8
bytes, with what is there; a length read from too short a buffer or from the
middle of a message is arbitrary. The CRC is ideal: right for exactly one whole message.
Each side has its own end of the connection (`open`): one that rejects what it read closes its
end; the other reads on what has arrived, and notices the close only then (`NoticeClose`).

### Service

`running`, `stopped` and `threads` are `running_`, `io_context_.stopped()` and the
number of threads inside `io_context::run`; `control` is the point at which the owner stands
(in `start`, `restart`, `stop` or the destructor), `tasks[k]` that of the coroutine which the
`k`-th start has spawned. An `io_context` that has nothing to do stops itself, in two steps: a thread
finds no work (`FindsNoWork`), then stops the context (`ContextRunsOut`). A
`restart()` between the two still sees `stopped()` false, clears nothing, and
the stop falls on what it has spawned; `overtaken` records that this happened, and
`WorkHasThread` and `StartTakesEffect` are about services to which it did not. An exception in
`do_listen` (`AcceptFails`) is dropped by `detached` and ends it. Two acceptors bind the
same port only one after the other, as POSIX has it. Left out: exceptions that leave
`io_context::run`, and several threads that call `start` or `stop` at once.

### The library modules

* `MemoryStream`: bytes are numbered in the order written; `unread` is what a FIFO
  container would hold, each read is compared with it. `astray` marks a
  stream led beyond what the code keeps track of: a read past the end, which
  `has_remaining` does not refuse; `get_remaining` from there; a write through `operator[]` past the
  last byte; a step back other than to the start; a decompression whose result and source differ in
  length while bytes follow.
* `Zip`: one step per call of zlib's `inflate()`, which takes and gives any amounts
  its contract allows. Blocks are inserted whole and the vector is cut to `total_out` at the end.
* `DataRouter`: `cells` is the memory of the vector, which a loop whose handler
  removes handlers goes over with the end it had when it began. A handler may answer false, or throw,
  which ends the loop. Handlers are added outside of routings only, as everywhere in the repository.
* `Srp6`: arithmetic modulo a small prime. SHA-1 is any function where its result is reckoned
  with, so all its values are tried, and is what was hashed where it is only compared. The arrays
  numbers travel in have `ArraySize` bytes of `Base` values, in the byte order of the mode.
* `KeycapEnum`: a declaration is built entry by entry (automatic, literal, alias); the compiler's
  values (`Compiled`) stand beside those `doForEachEntry` reads from the text. `to_string` changes
  the map: `operator[]` gives a value without a name the empty one.
* `Text`: every string up to a length for `explode` and `join`; the loop of `dump_as_hex` byte by byte.
* `Otp`: a code is its counter and its length; `Width` wraps the counter. Codes have at most eight
  digits (`DigitsAssumption`): `DIGITS_POWER` (`OTP.cpp:48`) ends there, and a longer one is
  looked up behind its end, undefined behaviour and left out.
* `Arc4`: a sender and a receiver with the same key, interleaved byte by byte; a block of four.
* `ConfigFile`: JSON values to depth two, looked up in the file and in the elements of its arrays.
  The five copies of the lookup (`get`, `get_or_default` of the file and of an element, `iterate_array`)
  are five definitions, each from its own lines; `LookupsAgree` compares them.

## 3. The runs

| Run | Instance | Shows |
|---|---|---|
| `connection` | one outside caller, 2 threads, 3 packets, 2 chunks | `PacketsInOrder`, the refinement `ContractSpec`; liveness: `StopEndsReader`, `PeerLossNoticed`, `SendFreesStoppedWriter` |
| `connection_io` | no outside caller, 1 thread, 3 packets, 3 chunks | `NoStrandedPacket` and `EveryPacketSent`: used only from its io thread a connection sends everything |
| `connection_wakeup` | one outside caller, 1 thread | **violates** `EveryPacketSent`: the lost wake-up |
| `connection_down` | no outside caller, 1 thread | **violates** `DownReported`: a failed write can end the link without a report |
| `schedule` | 3 items, one with its own `io_service`, 2 threads, exceptions | `NotBeforeDue`, `EarlyCancelHolds`, `NoLeakedEntry`; liveness: `EventuallyCalled`, `DestructorReturns` |
| `schedule_cancel` | 2 items, 1 thread | **violates** `CancelHolds`: a callback called after `cancel()` returned |
| `locator` | `LocatorTeardown`: 1 service, 3 connections, 2 requests, 1 update, destroyed at any time | `OneConnection`, `RestartsFindServices`, the refinement `CallsAsPromised`; liveness: `LossIsRetried` |
| `locator_queue` | 1 service, 2 connections, 1 request | **violates** `SentOnceLocated`: messages to a service not located are dropped, not queued |
| `registered_answer` | 2 requests and their answers, payloads of 2, 9 and 9, 0 bytes, reads of up to 60 bytes | **violates** `AnswerArrives`: an answer cut in two is thrown away |
| `service` | client or server, 1 thread per start, 3 starts, 2 links | `WorkHasThread`, `ServerListens`, `StartTakesEffect`, `DestructorEnds`; the type invariant has the bound of the pool |
| `library` | the nine library modules and `RegisteredMessages` (2 requests, as in `registered_answer`), bounds in `MCLibrary.cfg` | `FirstInFirstOut`, `WhatWentInComesOut`, `DecompressEnds`, `RoutingAsPromised`, `ProofsAccepted`, `TextComesBack`, `LookupsAgree`, `WindowOfOneStep`, `NamedAsDeclared`, `JoinUndoesExplode`, `DumpShowsAll`; of the messages `MessagesTypeOK`, `ServerTakesInOrder`, `NothingWithheld`, `AnswersInOrder`; liveness: `RequestArrives` |
| `router_failure` | 2 handlers, a list of 2 | **violates** `EveryHandlerHears`: after a handler that answers false no other is called |

Each violated property is what a comment or test of the repository says; the
finding in `PROJECT.json` quotes it. Each property of a passing run has a
mutant: a plausible bug (kept beside the definition it changes, marked
`mutant`) under which TLC finds the property violated.

### Bounds

* Three packets: one that is overtaken, one that overtakes, one that comes while
  `do_write` runs. Two chunks: one answered, one rejected; three in `connection_io`,
  so that an answer can meet `do_write` at each of its points. One caller: a second
  adds no new interleaving of one call with the coroutines. Two threads let
  the coroutines run in parallel, as they do after `restart()`.
* Three items: one cancelled, one expiring, one that changes the table meanwhile; or two that
  throw on one thread and one that is lost with the program. About 735 000 states.
  `IdSpace` = 4 exceeds them, so **the 2^32 wrap of `counter_` does not happen in
  the run**; `ScheduleProofs` says what holds when it does. The
  mutant `IdStuck` shows what reuse of an id does.
* One service, since nothing of one service touches another's state but
  the callbacks, which any connection may call. Three
  connections: made, lost, made again and lost again. With the destruction at every moment
  about 821 000 states.
* Two messages each way, with the real field sizes. A payload of 2 bytes makes
  a message that `can_decode` accepts before its header is complete; 9 bytes does not; 0 is
  the shortest message. A read of 60 bytes can take the whole stream.
* One thread per start, three starts: a start, a restart that finds the last
  start's thread still there, and one more after that; so up to three threads run. Two
  links: one that ends while another keeps the context busy.
* Library: five bytes and values of two, so that a value can lie across the end of
  the stream; blocks of two bytes and inputs of five, which take three blocks;
  a list of three, so that a handler can be registered twice beside another; the group of 11 with its generator 2,
  two secrets a side, three hashes, and numbers of two or one of the three bytes of an array;
  seven steps of time; texts of four bytes
  through a block of four, once round; declarations of four entries with 3-bit values,
  where an automatic value, a literal read right, one read wrong and an alias can meet; strings
  of six characters; ranges of 40 bytes, two full rows and a half.
* `router_failure`: a list of two handlers, one that fails and one behind it.

No cfg checks deadlock: every system here may come to rest (a destroyed service, a
closed connection, a schedule without items, a text that is at its bound), and each has
liveness properties for where it must not.

### Fairness

Coroutines and handlers that are ready run (an `io_context` with a thread runs
what is posted to it); a `send()` that has begun returns; the kernel
completes a read or a write that can complete; expired timers complete; a connect
succeeds or fails; the schedule calls what it holds, but for the race on
`timers_`. While a locator is destroyed its handlers are fair as long as
their threads are there; nothing says that it is destroyed. Nor does anything say that a schedule
is, but its destructor, once begun, goes on (`Stop`, `Join`), as callbacks return. No fairness is assumed of the application, of peers or of
servers, except in `RegisteredMessages`, where an answer is sent to every request taken and bytes
written arrive: it asks what happens *then*. `PeerLossNoticed` takes it that
TCP reports the loss to an outstanding read. All of it is weak fairness, but for
the coroutines that a `service` has posted: an `io_context` is first come, first
served, so a coroutine that waits to begin is not overtaken for ever although
its threads come and go (`SF` of `ListenBegin` and `ConnectBegin`). In `Zip` the
loop of one thread goes on.

## 4. The proofs

Each theorem holds for every value of the constants that the named assumptions
allow; TLC checked the same formulas first. Every invariant and every action property
of the passing runs, but for `RestartsFindServices`, is a theorem of one of these modules.

* `ConnectionProofs`. `Inv` is `TypeOK`, `PacketsInOrder` and what they
  need: `ChunkBound` (chunks routed, read and waiting together keep the bound),
  `OpsOwned` (an operation is outstanding exactly while its coroutine waits for
  it, and the packet being written is still the head of the queue), `LinkInv`
  (which reports go with which phase). From it follow `PacketsStayInOrder`,
  and `ImplementsContract`, where every step of `Connection` maps to one
  of `LinkContract` or to none. `NoneStrandedOnIoThread` adds
  `IoInv`, which holds with one thread and no outside caller: between `empty()`
  and `async_wait` nobody else runs. That assumption is what `connection_wakeup`
  shows to be needed.
* `ScheduleProofs`, for any number of items and threads and whatever the callbacks throw. `TypeCorrect`
  and `NoEntryLeaks` (each timer of `timers_` is that of an item that waits on it, has a handler to come or was
  missed: `OwnerInv`) hold although `counter_` comes round. Two promises
  need that `add()` meets no value in use, each in its own way: `NoneBeforeDue`, that the value
  has no entry (`FreshEntry`); `EarlyCancelIsFinal`, that no handler of that value is still to come
  (`FreshId`). TLC finds each promise violated under the other's condition. `IdsAreFresh` derives
  both conditions from `MaxItems` <= `IdSpace`; under it `NoCallbackLost` says that only a
  cancel of its own item, or the race on `timers_`, loses a callback.
* `ServiceLocatorProofs`: `NeverTwoConnections`, from: of the connections to a
  service at most one is live or about to be, all later ones unused, and
  `current` points to the last made; `CallbackOnce`, from: numbers are given out once,
  and each is registered, posted or called, and only one of these; `ImplementsCallContract`
  adds, where servers answer requests only (`AnswersUpdates` = FALSE), that every answer on its way
  carries the number of a request made, so that every step maps to one of `CallContract` or to none.
* `LocatorTeardownProofs`: every behaviour of `LocatorTeardown` is one of `ServiceLocator`
  (`LifeIsLocator`), so `OneConnection` and the refinement of `CallContract` hold to the end of the
  destruction (`NeverTwoToTheEnd`, `ContractToTheEnd`).
* `RegisteredMessagesProofs`: `RequestsInOrder` and `NoRequestWithheld`, for any
  number of messages of any size. The invariant says that messages end in the order they
  were sent, that the server's buffer begins where a message does, and that it
  lies inside the next message to be taken. `AnswersStayInOrder` is about the other side, which loses its
  place: what the locator takes always ends where it has read up to, and each answer taken ends later than
  the one before, so that none comes twice or out of order.
* `ServiceProofs`, for any number of threads, starts and connections: `TypeCorrect`
  with the bound of the pool, `WorkIsRun`, `ServerKeepsListening`. The invariant says why
  an `io_context` is stopped or about to be (`StopReason`), that threads leave only a stopped
  one (`ThreadsStay`), how many can be in `run()` (`ThreadBound`), and that each start
  of a server has a `do_listen` until one fails (`Listening`).
* `LibraryProofs`. `StreamIsFifo`: unless led astray, the bytes from the position on are those of the FIFO
  beside the stream, and the operations on sequences agree with those on it. `DecompressUndoes`: input of
  one block is all at hand, so no block but the last is inserted with a part unused; and
  `DecompressRunsOut`, a variant of its loops: `StepsLeft` falls with each step. `RoutingReachesAll`: the
  cells from the next one to the end are what is still to be called, which a link status does whatever
  handlers answer, and data as long as none fails; who was removed before is in none of the cells.
  `DumpIsComplete`: full rows so far and one begun. `ConfigLookupsAgree`: by cases on what is there, for each of the five lookups. Two are about recursive
  functions, for which the module has induction over numbers and the existence of such
  functions as lemmas: `JoinIsInverse` (each field that `explode` ends is one that `join` puts back, with its
  delimiter) and `NamesAreDeclared` (the compiler's count and that of `doForEachEntry` agree entry by entry
  until one misleads it; of the entries with one value the first has the name).
* `CipherProofs`. `WindowIsOneStep`: the quotients of two times at most one step apart differ by
  at most one. `CipherTurnsBack`: the key decides the one course of states an ARC4 object goes through,
  both objects are on it, and exclusive or undoes itself; each swap keeps the block a permutation.
  `KeysAgree`: remainders and powers, from which both keys of SRP6 are *g*^(*b*(*a* + *ux*)); numbers come
  back from the arrays since `EncodeFlip` is undone digit by digit; and a server's key is never 0 since the
  modulus is prime and `A` not a multiple of it.

The assumptions are the `ASSUME`s of the modules: bounds are naturals, the constants that
name absent things differ from the things, the sets are not empty where an
element is needed. Those that say more: `GroupAssumption` (the modulus of SRP6 is prime and its generator no
multiple of it, true of the groups of the table); `ArrayAssumption` (numbers below the modulus fit
`ArraySize` bytes, true of the 256-bit group, which is the one `encode_1363` has arrays for);
`XorAssumption` (exclusive or gives a byte and undoes itself); `DigitsAssumption` (no code is longer
than the table of powers of ten).

Only model-checked: all liveness, since the prover reaches neither fairness nor `ENABLED`
(`DecompressRunsOut` is the part of `DecompressEnds` without it, and `NoCallbackLost` that of
`EventuallyCalled`), and `RestartsFindServices`, which follows the few members of a locator one by one. The violated properties are not true, and
have no theorem.

## 5. Findings

1. **Lost wake-up** (`connection.cpp:118`): a packet sent from another thread
   may stay in the queue of an idle, healthy connection until the next one.
2. **Down not reported** (`connection.cpp:133`): after a failed write the
   handlers, and so the locator's restart, may never hear of the loss.
3. **Cancel comes too late** (`schedule.hpp:91`): the handler ignores whether
   its entry was still there when it took the mutex.
4. **Messages are not queued** (`service_locator.cpp:145`): what is sent before
   a service is located is dropped; the header says that it is queued.
5. **Split answers are lost** (`service_locator.cpp:83`): `service_connection`
   keeps the bytes of a partial message, the locator does not.
6. **Not every handler is called** (`data_router.cpp:56`): after a handler that answers
   false `route_inbound` calls no other; `data_router.hpp:52` says that it calls every one, "even if one of
   them fails".

Further, without a run of its own: `send_to` uses sender number 0, which is that
of the first request, so a server that answers an update reaches the callback of the
first request (`AnswersUpdates` = TRUE makes `CallsAsPromised` fail).

* A handler that removes a handler while it is called makes the loop skip or repeat
  others, and one removed may still be called.
* `has_remaining` ignores its argument (`memory_stream.hpp:300`); `advance` of any
  negative amount goes to the first byte (`memory_stream.cpp:46`).
* Data whose compressed form exceeds 1024 bytes comes back wrong, since blocks that
  are not full are inserted whole (`zip.cpp:69`); the test at
  `test/compression/zip.cpp:49` says that "Decompressing compressed arbitrary data must always be the
  same as the input". Without its condition on `size`, `WhatWentInComesOut` fails.
  Damaged data keeps the loops going until the vector throws.
* `get_or_default` throws on a value of another type, where `config_file.hpp:72`
  and `:140` say "Returns the given default if it fails to do so"; the model has it throw, and no property
  says that it should.
* `client::session_key` takes credentials as typed, `generate_verifier` makes them upper
  case: `ProofsAccepted` has to ask for upper case.
* `keycap_enum` reads the text of a declaration beside the compiler and differs from it for
  a literal the stream reads only the beginning of (`0x10`, `1 << 3`) and for an alias
  with another value than the entry before it: the automatic entry after one gets another value than the
  compiler's. `NamedAsDeclared` has to leave both out.
* A locator destroyed while anything is connected, being made or scheduled is undefined behaviour
  (`misused` collects what is used too late): the schedule goes first, and a Down that comes then is scheduled
  on it; a located callback still posted is called with the locator that is no more.
* `cancel_all` says "Cancels all scheduled callbacks" (`schedule.hpp:113`), but each callback is called, early and
  with an error.
* After `locate` threw, the service is in `services_` and no later `locate` starts it.
* `stop()` closes `acceptor_`, which is never opened (`service.hpp:96`); the accept under way goes on.

## 6. Not modelled

* The table of group parameters of SRP6; CRC, MD5, SHA-1, HMAC and zlib
  themselves (external; ideal or arbitrary where used); random numbers, which are
  distributions of the standard library.
* `to_upper`, `to_lower`, and the helpers of `utility.hpp`, `meta.hpp` and `numbers.hpp`: templates,
  casts and formatting without state; the loggers.
* Handlers that throw (but for what that does to a routing), and callbacks that throw outside of the schedule; races on the maps of the
  locator and on its `connection_`, which are undefined as a whole.

## 7. Plan

Done, in this order: `Connection` over `LinkContract`; `Schedule`; `ServiceLocator` over `CallContract`;
`RegisteredMessages`; `Service`; the library modules; `LocatorTeardown`. The proofs of all of these.

Next:

1. Variants for the other liveness properties, as `DecompressRunsOut` has one: for the destructor of
   `Service` and the handlers of `Schedule`.
2. `ServiceLocator` with its restarts taken from `Service` instead of one step: a locator whose client
   is restarted in the moment between the last work and the stop.
