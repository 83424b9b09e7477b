# A verification of naga-utils in TLA+

naga-utils (`src/`, a C++20 static library) holds the parts that the author's
servers share: an asynchronous PostgreSQL client, an HTTP/SMTP client over
libcurl, timers, worker threads, coroutine types, and small data structures and
encodings. Everything but the worker threads of `TaskBuffer` runs in one
thread, in the callbacks of the event loop library `nev`. Neither `nev` nor
libpq nor libcurl is part of the repository: they are modelled from their use.

Source files are named relative to `src/src/`.

## 1. Inventory

### AsyncPostgres (`AsyncPostgres.hpp`, `.cpp`, `.tpp`)
- State: the multiset `queries`, the iterator `currentQuery`, the flags `busy`,
  `awaitingResponse`, `stopOnceEmpty` and `autoReconnect`, the connection
  `pgConn`, its poll handle `pSock`, the `nev::Async` `nextCommandCaller`, and
  the tokens of two timers. Each `Query` has `expectsResults`, a result, and a
  callback or a coroutine.
- Operations: `query`, `cancelQuery` (also by a `stop_callback`), `connect`,
  `reconnect`, `disconnect`, `lazyDisconnect`, `setAutoReconnect`. Callbacks: of
  the poll handle while connecting and when connected, of `nextCommandCaller`,
  and of both timers. They call user code: `connChangeFunc`, `notifFunc`,
  `Query::done`.
- Hard: user code re-enters the class in the middle of its handlers; signals
  outlive the state they were sent in; connections get lost between any two
  steps and queries are sent again; priorities change the order of the queue
  while a command is on the wire; the retry and the reconnect timers compete
  with operations of the user and, in the vector of TimedCallbacks, with each other.
- Correct when: the command on the wire is the current query's; a query is
  executed alone, in the order of priority and age, and completed once; nothing
  that was queued is forgotten; a client that should be connected gets there.

### TimedCallbacks (`TimedCallbacks.hpp`, `.cpp`)
- State: the vector `runningTimers`; each `TimerInfo` points at its token, and
  each `TimerToken` holds an iterator into the vector. Used by AsyncPostgres
  (both of its timers) and ProxycheckioRestApi.
- Operations: `timer`, `clearTimers`; of a token: assignment, `start`, `stop`,
  `again`, `setCb`, destruction. Callback: `fire`, every 50 ms.
- Hard: two-way pointers through the moves of a vector; callbacks that change
  the vector `fire` goes through; late ticks.
- Correct when: a token stands for its own timer until one of the two ends it;
  timers keep to their rate.

### TaskBuffer (`TaskBuffer.hpp`, `.cpp`)
- State: `asyncTasks` and `mtTasks` with a mutex each, `cvLock`, `cv`, the
  atomic flag `shouldRun`, `execCaller`, the workers.
- Operations: `queue`, `runInMainThread`, `switchToThread`, `switchToMain`
  (any thread), `executeTasks` (workers), `executeMainThreadTasks`,
  `prepareForDestruction`, the destructor (main thread).
- Hard: real threads. Notifications race with waits; the flag is set in order
  to read it; shutdown races with everything.
- Correct when: tasks run once, in order; no wakeup is lost for good; the
  destructor returns.

### AsyncCurl (`AsyncCurl.hpp`, `.cpp`)
- State: `pendingRequests`, `handleCount`, `isTimerRunning`, a libcurl multi
  handle and the poll handles that belong to its sockets.
- Operations: `httpGet`, `smtpSendMail`, `smtpRelay`; libcurl's timer and socket
  callbacks; the callbacks of the timer and the sockets; `processCompleted`.
- Hard: libcurl calls back into the class from inside its own functions;
  `finished` runs user code that may add requests while `processCompleted` is
  about to stop the timer by an old `handleCount`, or that throws out of it.
- Correct when: every request is driven until it is finished, once.

### Async, Defer, awaitify (`async.hpp`, `.tpp`, `.cpp`)
- State: the frame of a coroutine, `awaiter_h`, `awaiter_destroyed`, `task_h`.
- Hard: a frame is destroyed by itself or by its handle, depending on the order
  in which the task ends, is awaited and loses its handle; temporaries last to the
  end of their full expression; tasks change threads while others await them.
- Correct when: a frame is destroyed once, not used afterwards, and not leaked.

### MultiStopSource, OpCancelledException
- State: the list of connected stop tokens and the source they stop together.
- Operations: construction, `connect`, `invalidate`; the stop callbacks of the
  connected tokens, each of which runs `cleanAndCheck`.
- Hard: the callbacks of several tokens may be due at once, and other callbacks
  that run before them use the source.
- Correct when: the source stops exactly if all that were connected stopped and
  it was not invalidated.

### ProxycheckioRestApi, RecaptchaRestApi
- One HTTP request per check through AsyncCurl; Proxycheckio keeps a cache of
  answers, which a timer of TimedCallbacks should clean.
- Operations: `check`, `checkv3`, the requests' callbacks.
- Hard: two checks of one address under way at the same time; answers that are
  no JSON, or JSON of another shape; the token of the cleaning timer is dropped
  at once (`ProxycheckioRestApi.cpp:16`).
- Correct when: an address that was judged keeps its judgement.

### IdSys, Bucket, PropertyReader
- Sequential objects. IdSys: identifiers from a counter and a set of free ones,
  which shrink together. Bucket: a rate limiter with three punishments.
  PropertyReader: a map, its file, and a flag that says that they differ.
- Hard: long sequences of legal calls; what is written when; several objects
  of one file.
- Correct when: identifiers are distinct and none is lost; no more is spent than
  the rate allows; what was set and not saved is known to be unsaved.

### varints, rle, Packet, PacketReader, BufferHelper
- Encodings; a PacketReader also keeps a handler for each opcode.
- Hard: sizes at their limits, decoders that check less than the encoders write,
  messages that nobody encoded.
- Correct when: what was encoded is decoded to the same, and no decoder reads
  behind its input.

### PngImage
- State: the image's memory, width, height and number of channels.
- Operations: `allocate`, `fill`, `paste`, `move`, `nearestDownscale`,
  `applyTransform`, `setPixel`, `getPixel`, `clone`, `freeMem`, reading and
  writing of PNG files.
- Hard: rectangles that are clipped by two images and whose ends wrap; the same
  memory taken for three channels and for four.
- Correct when: operations draw the pixels they should, within memory.

### The rest
Ip, stringparser, base64, color, Range, utils, templateutils, tuple,
RandomSeeder, SeededMt19937 and Poll convert data or wrap the operating system.
They have no protocol and are not modelled.

### How the components interact
```
 user code ---> AsyncPostgres ---> TimedCallbacks ---> nev timer
     |               '---> nev poll / async <--- libpq
     |---> TaskBuffer ---> worker threads; nev async (back to the loop)
     |---> ProxycheckioRestApi, RecaptchaRestApi ---> AsyncCurl ---> libcurl, nev
     '---> Async<T>, Defer: coroutines that any of these resume
```
All calls within the loop's thread are synchronous, and callbacks run to their
end. `nev::Async::send` is the one operation that other threads may call; sends
before the callback runs coalesce.

## 2. Plan

Built, in this order: AsyncPostgres with QueryLifecycle, TimedCallbacks with
TimerHandles, TaskBuffer with TaskFifo, AsyncCurl, Coroutines (Async), proofs
for AsyncPostgres, TaskBuffer and AsyncCurl; then IdSys and MultiStopSource with
proofs, PropertyReader, Bucket, RestApis, Varints and Packets, Rle, PngImage; then
proofs for Coroutines, Bucket and RestApis and of the refinements of AsyncPostgres
and TaskBuffer; then proofs for TimedCallbacks, Rle, PropertyReader, PngImage,
Varints and Packets; then the timers of AsyncPostgres as tokens that take each other
along, connections made in results' callbacks, callbacks of AsyncCurl that throw,
coroutines on several threads, and the assertions and the empty message of packets.
To come: timers of other objects in the vector that AsyncPostgres uses.

## 3. Modules

| Module | What it is |
| --- | --- |
| `AsyncPostgres` | the client, its queue, its queries, and libpq as it sees it |
| `QueryLifecycle` | abstract: what a query's owner may rely on |
| `AsyncPostgresProofs` | theorems about `AsyncPostgres` |
| `TimedCallbacks` | the vector of timers, its tokens, `fire` |
| `TimerHandles` | abstract: a token stands for a timer |
| `TimedCallbacksProofs` | theorems about `TimedCallbacks` |
| `TaskBuffer` | workers, main thread and clients |
| `TaskFifo` | abstract: a queue of tasks run one by one |
| `TaskBufferProofs` | theorems about `TaskBuffer` |
| `AsyncCurl` | requests, timer and sockets, and libcurl as AsyncCurl sees it |
| `AsyncCurlProofs` | theorems about `AsyncCurl` |
| `Coroutines`, `CoroutinesProofs` | frames, promises and `Async` objects; theorems |
| `IdSys` | the counter and the free identifiers |
| `MultiStopSource` | tokens and the source they stop |
| `PropertyReader` | objects that read and save one file |
| `Bucket` | the rate limiter and its clock |
| `RestApis` | checks by web services and the cache of verdicts |
| `LibraryProofs` | theorems about `IdSys`, `MultiStopSource`, `Bucket`, `RestApis` and `PropertyReader` |
| `Varints` | numbers in bytes |
| `Packets` | messages, their types, their writer and their reader |
| `PacketsProofs` | theorems about `Packets` |
| `Rle` | run-length encoding |
| `DataProofs` | theorems about `Rle`, `PngImage` and `Varints`, and what they need of loops over data |
| `PngImage` | an image in memory |
| `MC*` | model values and definitions for the runs; `MCLibrary` puts the parts that stand alone side by side |

Operators named *mutant* in a comment are deliberate mistakes: replacing the
operator that follows them by the mutant breaks a property, which shows that
the property depends on that piece of the code.

### AsyncPostgres
One action per event-loop callback and one per operation. Where a handler calls
user code, it is split: `pc` names the callback (`connected`: the connection
state's; `done`: a result's; `notified`: a notification's; `retry`, `closed`: what
runs in the retry timer) and the handler's rest is `ConnectedReturn`,
`ResultReturn`, `NotifiedReturn` or `RetryReturn`. `signals` counts the calls of
`connChangeFunc` for a lost or missed connection that have not returned
(`SignalReturn`): they may nest, as the user may `connect()` in one and miss it at
once. In all of these callbacks every operation of the user may run, as it may at
top level (`UserRuns`). A COPY command delivers two results in one callback, hence
the point `copied`.

| Model | Code |
| --- | --- |
| `queue`, `stamp` | `queries`; a multiset keeps equal elements in the order of `emplace` |
| `inflight`, `conn` | libpq: the command it executes, the status of the connection |
| `pSock` | which of the two poll callbacks is installed, if any |
| `deaf` | `pSock` watches a descriptor that libpq has closed, or not for what will come |
| `reconnectTimer`, `qRetryTimer` | the tokens: none, one whose timer runs, one that lost its timer |
| `behind` | which timer stands behind the other in the vector, if both run |
| `signalled` | `nextCommandCaller` was sent and has not run |
| `expectsResults`, `outcome`, `completions` | what `done` told the query |
| `ub` | undefined behaviour a handler ran into; nothing follows it |

A query in `Awaited` is kept alive by its suspended coroutine; any other one
dies with its place in the queue, and `~Query` reports to its callback. Faults
are what libpq reports: a connection that cannot be started or reset, that
fails while polling, is lost when reading or when sending, a refused command,
and a session that the server ends. `SendRefused` is also what libpq does when a
command is sent while one is executed. The loop may delay a callback but runs
it while it is due; a stopped poll handle has no callbacks.

The timers follow TimedCallbacks. Both callbacks return false while their token
is alive (`AsyncPostgres.cpp:185`, `263`), which ends the timer behind, too, and
leaves its token without one (`EndReconnectTimer`, `EndRetryTimer`). Starting a timer
with such a token, or in the retry timer's own callback, is undefined behaviour
(`SignalReturn`, `NextCommand`). Timers of other objects may stand in the same vector,
and one that ends in front of a timer of this class takes it along; they are not
modelled, and what is said of the timers holds without them.

`connect()` and `reconnect()` run in the callbacks of results and notifications, too
(`connectInResult`). `manageSocketEvents` then goes on with the new handle: with none,
if the start failed at once (`startInResult`); with a closed descriptor, if a reset
did; or it makes the handle of a handshake that wants to write wait for reading only,
which may or may not be what comes next (`EventsReturn`, `deaf`).

Abstracted: the text, parameters and rows of queries, the contents of notifications,
flushing of the socket (`WRITABLE`), debugging output. `disconnect()` calls
`connChangeFunc` last, so that what user code does there is what it does next.
`then` and the futures-like `await_*` are `Held` and `Done`.

### TimedCallbacks
An iterator is an index, a holder is a program variable that owns a token.
`EraseOverwriting` follows what libstdc++'s `vector::erase` does with
`TimerInfo`'s move assignment, which resets the overwritten element's token and
thereby erases again. `capacity` is kept because a growing vector invalidates
`fire`'s iterator. `CallbackOps` is what callbacks may do to the timers: resetting
one's own token, or an earlier one, is undefined behaviour (`TimedCallbacks.hpp:85`
says so of one's own) and ends the behaviour with `ub` set. `MoveToken` is the
move assignment between two variables, `TokenStartEvery` the `start` that sets an
interval. Not modelled: `setCb`, which replaces a callback and changes no timer.

### TaskBuffer
A step is what lies between two accesses to shared state. `taskLock` and
`mtTaskLock` protect one access each and are not variables; `cvLock` is, since
it is held over waiting and running. `Waiting` is the set of threads in
`wait_for`; notifying wakes one of them, if there is one, and `Timeout` is the
ten seconds or a spurious wakeup. The number of workers that are started is
chosen in `Init`. Clients are other threads or running tasks. The destructor is
`Stop`, `NotifyAll`, `Joined`; it is preceded by `prepareForDestruction`, as its
comment asks. `nullSend` records the use of the reset `execCaller`, which programs can
only avoid; no property speaks of it.

### AsyncCurl
`handle` and `told` are libcurl: the state of each easy handle, and whether
libcurl assumes that a timer runs for its earliest timeout. libcurl calls the
timer function when that timeout changes, after `curl_multi_add_handle` and
after `CURL_SOCKET_TIMEOUT` in any case; whether a change in between moves the
earliest one is left open. `SocketAction` is `curl_multi_socket_action`: it
brings handles forward and starts queued ones again when a transfer is over.
`Limits` are those that the constructor sets, on all connections and of one for each
host, and `Multiplexing` are hosts whose one connection carries several transfers. A
socket is watched exactly while a handle is in `transfer`. `processCompleted` is
split where it calls the owner (`finished`, `finishedReturns`, `processed`),
because the owner may call `httpGet` there (`CallbackRequests`) and may throw
(`Throwing`, `finishedThrows`): the exception leaves `processCompleted` between the
erase and the `delete` of the handle (`AsyncCurl.cpp:391-395`) and skips the other
results and the check of the count. Whoever runs the loop is assumed to catch it and
to run the loop again. `smtpSendMail`
differs from `httpGet` in what it sends only. `uncounted` is auxiliary: the
requests that libcurl has and `handleCount` does not have yet.

### Coroutines
Each thread executes the coroutine `top`, above those that `under` links: a call, an
event and the `resume` in `final_suspend` push one, suspending and ending pop it. The
threads are the event loop's and a TaskBuffer's workers, so that an event may resume
a task in another thread (`switchToThread`, `switchToMain`). `frame` is `final` exactly
when `done()` is true, and `resuming` while `final_suspend` is busy with the awaiter.
An `Async` object belongs to its caller (`holder`): for the tasks in `Kept` it is a
variable (`Drop`), for the others a temporary, which lasts to the end of the full
expression, over whatever the expression calls and awaits meanwhile
(`EndExpression`). `await_ready` (`Await`) and `await_suspend` (`AwaitSuspend`) are two
steps, and the task may end between them in another thread. `final_suspend` is one
step up to the resumption: what another thread does inside it amounts to doing it
before or after, apart from data races on the promise, which are not modelled.
Assumed of programs: a task is awaited at most once (`async.tpp:81`, "just supports one
awaiter") and ends with a value (`async.tpp:32`). `awaited`, `endedFirst`, `missed`,
`heldOn` and `touched` are auxiliary.

### IdSys, MultiStopSource
`inUse` is auxiliary: what `getId` gave and `freeId` has not had back. `freeId`
is called with such identifiers only. `shrink` is stated by its result, the
counter `d` at which its loop stops (`Shrinks`). In MultiStopSource a token's
`request_stop` and the source's callback for it are two steps, because other
callbacks of the token may run before and use the source; `due` holds the
callbacks in between, `asked` what was connected in time.

### PropertyReader
Strings are sequences of characters, and `Load` and `Save` escape, split into
lines and cut at the first space as the code does, in loops of one turn for each
character or property (`Loop`). Keys have no spaces, which the code asks for and
does not check. `file` is what the path
holds. Objects are constructed, copied, moved and destroyed; opening the file
for writing may fail, which nothing notices (`AfterWrite`). `remove()` of a file
that is not there throws, from the destructor too, and ends the program. `base`,
`unsaved` and `loose` are auxiliary: what the path held when the object last
read or wrote it, and the keys that differ since.

### Bucket
Allowances are counted in `1/Scale`, so that a second adds a whole number.
The clock has run for `Uptime` when the bucket is made, which matters because
the first update counts from the clock's zero. `since` and `spent` belong to an
observer who may begin to look at any time.

### RestApis
A check asks (`Ask`) and its request ends in one of `Results`, each of which the
code treats in another way; AsyncCurl, which answers every request once, is left
to its own module. `Escape` is an exception that leaves a callback.
`checkv3` passes the score and the moved response to one call, whose arguments
the compiler may evaluate in either order.

### Varints, Packets
Types are records, and values are numbers, Booleans and sequences. Bytes have
`GroupBits + 1` bits and words `WordBytes` of them; reads return the last byte
they looked at (`last`), which is what `ReadsInside` is about, also when they
throw. The build is the Makefile's: with exceptions, and with assertions, since it
defines no `NDEBUG`; one that fails ends the program (`aborted`). Two overloads of
`toBuffer` make the buffer and assert that what was written fills it (`toBuffer`), one
takes the caller's (`toBufferInto`), which is large enough here. A `std::array` is one
of numbers, because reading one of anything else does not compile. `Foreign` is a
message from any other program, the empty one among them: `read` looks at its opcode
nevertheless, that is, at whatever memory follows (`Memories`), and passes on its size
less one, which wraps. Where the groups of a foreign varint overlap, the code takes
them bit by bit and the model adds them; what is read of such numbers is not looked at.

C++ instantiates overloads of `getSize`, `writeToBuf` and `readFromBuf` for each
type, which call those of the type's parts. `Writers` and `ReadersOf` are that:
functions that give what is written of each value, and each type's reader, from
those of the parts. `Types` are the types that a program uses, which are
finitely many and so nested to some depth (`MaxNesting`).

### Rle
A loop is a recursive function of its turns: `Scan` is a turn of the search for
runs, `KeepFirst` one of the copying, `Expand` one of the unpacking. The header and the points of a compressed array are a record, whose bytes are
counted; `allocated` is the size that was computed beforehand. Only what
`compress` returned is decompressed: the code says that it does not check input.

### PngImage
Memory is a sequence that `ByteAt` indexes as the code does, modulo the word.
The loops of `paste` and `applyTransform` are recursive functions of their turns
(`RowDrawn`, `Drawn`); what they draw is given to them row by row. New memory is
zeroed, and memory of the same shape is used again. An image is not pasted onto
itself, and offsets of `move` are small against the word (`PngAssumption`). Pasted colours are opaque or clear,
so that blending replaces or keeps.

## 4. Runs

| Run | What it checks |
| --- | --- |
| `pg_safety` | safety and refinement of AsyncPostgres with all operations that programs may use, at any point |
| `pg_live` | what must stay scheduled, and liveness, with every fault, and with all operations but `setAutoReconnect`, the misuses included |
| `pg_lazy_waits` | fails: `AsyncPostgres.hpp:67`, see below |
| `pg_cancel_callback` | fails: `AsyncPostgres.hpp:88` |
| `pg_terminated` | fails: `AsyncPostgres.cpp:269` |
| `timers_tokens` | tokens and vector agree; TimerHandles is implemented |
| `timers_rate` | rate of callbacks, with expiring timers and all callback operations |
| `timers_neighbour` | fails: `TimedCallbacks.cpp:13` |
| `tasks` | TaskBuffer: safety, refinement for both queues, liveness, shutdown |
| `tasks_others` | fails: `TaskBuffer.cpp:90` |
| `curl` | AsyncCurl: ownership, the count, lost timers, and that requests end |
| `library` | frames, identifiers, stops, saved properties, budgets, verdicts, messages, compressed arrays and images |

### What they show
- `pg_safety`. `InflightIsCurrent` is the heart: any second
  `processNextCommand`, any wrong reset and any erase of the current query would
  break it. `ImplementsLifecycle` adds that commands never overlap and that each
  is the first by priority and age when it is sent. `FifoWithinPriority` and
  `CompletedAtMostOnce` hold across lost connections. `NoUB` holds with
  `connect()` and `reconnect()` wherever user code may run and with `disconnect()`
  everywhere but in the callback of a result or a notification. There, it leaves
  `manageSocketEvents` with a null `pSock`, and so does a `connect()` that fails at
  once (`startInResult`); a `reconnect()` that fails at once leaves it with a closed
  descriptor. The run shows that nothing else does.
- `pg_live`. `NeverStranded` and `NoStall` say which step is scheduled in every
  state that needs one, `EveryQueryLeaves` and `LazyDisconnectHappens` that it
  leads there. There are two ways in which a client is cut off for good, and the
  properties except them by name (`CutOff`). First, a query is refused, which starts
  the retry timer, and the connection is lost, which starts the reconnect timer
  behind it: the end of the first takes the second along. Second, the handle hears of
  nothing and no timer runs, after a `reconnect()` of the program that failed (it
  returns false, and nobody retries) or a `connect()` in a result's callback whose
  handle `manageSocketEvents` has changed. The properties say that there is no third.
  `TimerOnlyWhenDown`: the client itself never lets the reconnect
  timer run against a connection; a program does that calls `connect` or
  `reconnect` while the timer runs, or `connect` inside the callback of a
  disconnection, and gets its new connection reset once, by the timer. Behaviours
  that end in undefined behaviour are left out of the promise.
- `timers_tokens`. As long as timers are ended by their tokens, no iterator is
  ever stale (`TokensAgree`), whatever is started, dropped,
  replaced or moved, also in callbacks, unless the vector grows inside one. The
  holders are alike, and the run uses that (SYMMETRY).
- `timers_rate`. `AtMostTwoMissed` bounds the burst after a stall: the tick that
  was due, the two made up for, and the current one. `start(interval)` is used
  here with an interval no shorter than the timers' own; a shortened one would
  make `RateBound`, which counts with the interval a timer was made with, false.
- `tasks`. One task at a time runs, in order, over all workers (`OneAtATime`,
  `ImplementsFifos`). With a single worker, a notification between its look
  at the queue and its wait is lost, and only the timeout of ten seconds saves
  the task: without it, `TasksRun` fails. The shutdown's chain of
  `clear`/`notify_one` reaches every worker (`StopNotLost`, `DestructorReturns`).

- `curl`. `processCompleted` stops the timer when `handleCount` is zero, which it
  is after the last transfers ended, also when one of their callbacks has just
  made a request: the request then stands still (`Stranded`) until something
  else is requested. `OnlyUncountedStranded` says that this is the only way to
  lose the timer: requests made elsewhere, or while anything else runs, keep it.
  `OwnsHandles`: no handle is freed twice, and only one whose callback threw is freed
  by nobody. `EveryRequestEnds` says that all end if strandings do, that is, that the
  next request takes the stranded ones along, and with them the results that an
  exception left unread when nothing else ran (`LeftUnread`). `CountLags` says what
  `activeHandles()` is worth in between.
- `library`. A behaviour belongs to one part, which `part` names and `LibraryInit`
  chooses; the others stay as they begin. States of the parts therefore add up
  instead of multiplying. `AwaitEnds` rests on the fairness of coroutines, and
  the properties of the other parts are invariants.

  Coroutines. `OnlyEndedFirstLeak`: the frame of a task that ends without
  suspending and is discarded is never freed, contrary to what the comment at
  `async.tpp:23` has in mind, and no other frame is leaked. `OnlyHeldOnTouched`: an
  `Async` object writes to a freed frame if its holder awaited the task, was resumed by
  it and suspends again before the object is destroyed, and nothing else does. That is
  a variable after any later `co_await`, and a temporary in an expression such as
  `use(co_await a(), co_await b())`. `AwaiterIsResumed` and `AwaitEnds`: an awaiter is
  not lost, and goes on, unless the task ends in another thread between its
  `await_ready` and `await_suspend` (`missed`), or it awaits one that is lost so.

  `IdsExact`: identifiers up to the counter are in use or free, never both, and
  the counter comes down with them. The loop that shrinks the counter stops at
  the set's first element; the property is exact about what that leaves.

  `StopsWithLast`: the source stops with the last token that was connected in
  time, whatever runs between a token's stop and its callback here.

  `OutdatedIsFlagged`: while nobody else changes the file, what differs from it
  was set and is flagged, or was removed by `delProp()`, which does not flag it
  and is therefore not saved by the destructor.

  `WithinBudget`: from any moment on, no more is spent than one full bucket and
  what the time adds, whatever is punished and however the settings changed
  before.

  `AnswersStay`: of two checks of one address that ran together and were
  answered differently, the first one's verdict is kept, and later checks get
  it. They get it for ever, since the timer that should clean the cache has
  stopped. A mistyped answer leaves the callback as an exception, and that
  check is never answered.

  `PacketsRoundTrip`: a packet comes back as it was sent, with two exceptions
  that the property is exact about: a varint that takes more groups than its
  word has bytes is refused, and numbers in a container come back with their
  bytes swapped, because they are written in big-endian order and read as they
  are. `getSize` counts the length of a `std::array`, which is not written, so that
  the assertion of `toBuffer` (`Packet.tpp:451`, `466`) ends the program for each packet
  with one, and for no other; in a buffer of the caller's they are sent and read well.
  A container of values that take no bytes would be refused, too; the run has none
  (`ElementsTakeBytes`). `ReadsInside`: the empty message makes the reader look behind
  its end (`PacketReader.tpp:7`), and no other does, although the product of a length
  and a size wraps.

  `RunsRoundTrip`: the array comes back, and `compress` writes exactly what it
  allocated, which is never more than the array and an empty header. An empty
  array is refused by `decompress`, and `compress` never ends for the largest
  count, because its index has the type of the count.

  `PixelsExact`: `paste` draws the rectangle clipped by both images, and
  nothing at all when one of its ends wraps, as it does when the largest size is to
  mean all the rest from some place on; `move`, by an offset and back, brings back what it did not lose; nothing leaves
  the memory, also after `nearestDownscale`, which keeps the number of channels
  of an image whose memory it replaces by that of one of four. (Its samples are
  all of the first pixel: it divides before it multiplies.)

### Statements of the source that do not hold
- `AsyncPostgres.hpp:67`, "will disconnect when the query queue is empty":
  `lazyDisconnect` right after `query`, before the signal's callback, finds the
  client not busy and disconnects with the query still queued.
- `AsyncPostgres.hpp:88`, "query callback will still be called, even if
  cancelled ok": for an awaited query nothing is called, the coroutine hangs.
- `AsyncPostgres.cpp:269`, "shouldn't happen anyways": a session that the server
  ends yields two final results, and the second one dereferences `queries.end()`.
- `TimedCallbacks.cpp:13`, "cb returns false if the timer should be stopped":
  while its token is alive, the next timer is lost with it. AsyncPostgres's own
  timers end like this, and one of them can be the other's next.
- `TaskBuffer.cpp:90`, "the other threads should be able to get work too while
  tasks execute": tasks run with `cvLock` held.

### Bounds, and why they are enough
- `pg_safety`: three queries, two of one priority and one of a higher one (the
  least that tells priority, age and a command on the wire apart), one of them
  awaited and one a COPY; three operations on the connection and two faults, so
  that a signal or a timer of one connection can meet the second and the third.
- `pg_live`: two queries, three operations, three faults of every kind: enough for
  a failed attempt, its retry and a loss after it, for a refused query and a loss
  before it is retried, and for a program that connects, reconnects or disconnects
  between any of them and in any callback.
- `timers_tokens`: three timers and holders, so that an erased element has
  neighbours on both sides and the vector grows twice; two time units, as one
  due tick suffices to run a callback. `timers_rate`: five units, intervals of
  one and two, which is more than the two missed ticks that are made up for.
- `tasks`: one or two workers, two tasks of each kind, so that one can be queued
  while the other runs. A single client submits them; its calls are split at
  every access, and the properties do not depend on who submits.

- `curl`: three requests, two of which callbacks may make, so that a stranded one
  can be rescued by another; one connection and two hosts, one of which takes several
  transfers at a time, so that requests queue for the connection to their host or for
  any while others fail at once; two callbacks that may throw, with results behind.
- `library`. Coroutines: three tasks in two threads, one of them kept: a task that
  awaits another while a third ends in the other thread, and one that awaits two in one
  expression, in every order of calls, events and ends; the two
  that are not kept are alike and are called in one order only (`CalledInOrder`).
  Five identifiers, so that free ones lie below, between and above those in use.
  Three tokens: one that runs, one that is due, one that stops. Two objects of one
  file, and one key, a backslash, with values that hold every character that is
  escaped or separates. Rates of 0, 1 and 3, periods of one and two seconds (and
  zero in `set`), a clock from 2 to 4: a full bucket is spent, punished below
  zero and filled again. Three checks of one address. Words of six bits in groups
  of two, which take up to three groups for two bytes, as 64 bits take ten for
  eight; values at the limits of the groups; seven packet types with each kind of
  argument, two opcodes with two types, and one opcode at a time with a handler; other
  messages of up to four bytes behind the opcode, and the empty one.
  Arrays of up to eight items, of one, two and four bytes, in which runs are worth
  a point or not; eight stands for 65535. Images of up to two by two pixels of
  three and four channels, under rectangles that reach out of both images and
  whose ends wrap at 32.

### Fairness
The event loop runs callbacks that stay due (weak fairness per callback), and a
handshake whose handle watches for what will come comes to an end. Nothing is assumed
of a lost connection, which is a fault. Threads that can go on do, and
`wait_for` returns after ten seconds. Nothing is assumed of user operations, of
faults (their number is bounded), of what callbacks request, of who gets a mutex, or of whether the program
ever destroys an object; tasks return, unless they are in `Endless`. Remote
servers answer or fail some day, although no request has a timeout; coroutines
end some day, and the events they wait for come.

## 5. Proofs

TLAPS checks these for every set of queries, priorities, threads, tasks, requests,
coroutines, timers, tokens and objects of a file, for arrays of every length, texts and
images of every size, for every rate, and for every bound. TLC evaluates the
assumptions on constants in every run.

`AsyncPostgresProofs` assumes `Supported`: the program neither disconnects inside
the callback of a result or a notification nor cancels a query twice, what it connects
or reconnects there does not fail at once, and libpq neither refuses a
command on a working connection nor reports the end of a session. Each of these
leads to undefined behaviour, a refused command when it is refused again. Proved: `TypeOK`, `NoUB`,
`InflightIsCurrent`, `CompletedAtMostOnce`, `FifoWithinPriority`, and that the
client implements QueryLifecycle (`ImplementsLifecycle`). The inductive invariant
adds to the types
- `InflightIsCurrent` itself, with `busy` and the absence of a signal: it is
  inductive only together with the facts which states of `pSock`, `conn`, `pc` and
  `signals` go together, since these decide who may signal;
- that a query is completed exactly if it does not expect results, so that a
  query that still waits was not completed before;
- that a query that was answered is out of the queue unless its callback is
  running, and that no older query of its priority waits behind it. This needs
  that the one on the wire had no predecessor when it was sent and that later
  queries get later stamps.

In these states the phase of a query is that of `inflight`, `queue`, `stamp` and
`expectsResults`, of which each handler changes what one step of the life cycle
does or nothing: a handler that sets `inflight` to `NoQuery` loses the connection
of the query on the wire, if there is one (`LossMaps`).

Three theorems of the module need no `Supported`, since they hold with every fault
and every misuse. `QueueNeverStalls` (`NoStall`): the invariant speaks of a busy
client, too, as `query()` does not signal then. `ClientIsNeverStranded` needs that
the program leaves `autoReconnect` on, and excepts the two ways in which a client is cut
off (`CutOff`), as the property does. `TimerMeetsNoConnection`
(`TimerOnlyWhenDown`) goes through the actions.

`TaskBufferProofs` needs no assumption beyond the constants'. Proved: `TypeOK`,
`OneAtATime`, `StopNotLost` and `MainWakeup`. `OneAtATime` is inductive with the
types. `StopNotLost` is inductive together with it: the worker that sets the
flag in order to read it owns `cvLock` until it has cleared it again, so that no
other worker can look in between. `MainWakeup` needs the same for the time when
the callback runs, and that `execCaller` is not reset before the destruction.
`ImplementsFifos` is proved, too, for the workers and for the main thread: by
`OneAtATime` all tasks that were taken are those of the owner of `cvLock`, so that
the waiting tasks are its vector and then the queue; and whatever is queued,
taken, running or finished was submitted (`Accounted`), so that nothing that is
submitted is known already.

`AsyncCurlProofs` assumes a finite set of requests, as the run does. Proved:
`TypeOK`, `OwnsHandles`, `CountLags`, `OnlyUncountedStranded`. `OwnsHandles` says whose
handles are left, too: a handle whose result has been read is the current callback's
until that returns, and stays only if it throws. `CountLags` follows
action by action: a request that is made runs at once and joins `uncounted`, a
call for an event counts everything anew, and no other step makes a handle run or
stop. The invariant behind the last:
libcurl assumes a timer exactly when some handle has a timeout; the timer is
armed then, except that nothing is armed when the last count was zero; and a
count of zero means that whatever runs was made since, in callbacks, and has not
been started. The last point is why no socket is watched in that state, so
that nothing but a new request leads out of it.

`TimedCallbacksProofs` assumes what `TimedCallbacks` does of its constants. Proved:
`TypeOK`, `RateBound`, `AtMostTwoMissed`, `TokensAgree`, and that the vector with its
tokens implements TimerHandles (`ImplementsHandles`). The actions are first
sorted by what they do to the vector (`StepKind`): timers are rearranged and some
of them dropped, in one way for all of growing, erasing, moving and clearing; time
passes; one timer is adjusted; one is started; the timer `fire` is at is skipped
or called. Each invariant is then shown once for each kind.
- The rate: the next call of each timer in the vector comes an interval after what
  all its calls so far take (`RateInv`), and each call while the clock stands still
  brings the next one nearer to the present (`BurstInv`).
- Both bounds need that nobody shortens an interval (`NeverShortened`, in the
  theorems' statements): a program that does gets calls at the new rate, which
  are more than the first interval allows. `RateWithLongerIntervals` states
  them for all programs that set no interval but one, which is not shorter than those
  that timers began with, as in `timers_rate`.
- The tokens: they and the elements point at each other both ways (`AgreeOn`), which
  each way of moving an element keeps, since an element that moves takes its
  token's iterator along. It needs that no timer ends in its callback while another
  stands behind it (`ExpiresInFront`): the run `timers_neighbour` shows how that one
  is lost. `LastingTimers` states it for programs without such
  callbacks, as in `timers_tokens`, with no condition on behaviours.

`CoroutinesProofs` assumes nothing of programs and threads. Proved: `TypeOK`,
`OnlyHeldOnTouched`, `OnlyEndedFirstLeak`, `AwaiterIsResumed`, and that no task is missed
with a single thread (`OneThreadMissesNone`). The stacks are sound by themselves:
pushing a task that is on none and popping the innermost keep them so (`Pushed`,
`Popped`). The rest of the invariant says who knows of whom:
objects point to frames that exist, and the promise of a live task without an
object or an awaiter knows that the object is gone; who was awaited
has an awaiter, is being asked for, or was freed; a task that has ended is kept for the
object that was there then, or is freed, and only an object held on to may still point to
it; and no two live tasks have one awaiter, so that resuming
one leaves no task behind that would resume it again.

`LibraryProofs` is about five parts that stand alone.

IdSys: the bound needs to be a number only. Proved: `IdsTypeOK`, `IdsExact`,
and that the next identifier is 1 when all have been freed. `IdsExact` is
inductive with the types; its last part, that only a single free identifier can
be at the counter, is what makes the loop of `shrink` leave nothing behind.

MultiStopSource: nothing is assumed. Proved: `StopsWithLast`, with the types
and with the fact that the callbacks that are due are those of connections whose
token is stopped: without it, a stopped token could stay in the list unseen.

RestApis: it is assumed that checks are of one kind and that no verdict stands for
none. Proved: `AnswersStay`, with the types and with the fact that a check
is late only for an address that was judged.

Bucket: it is assumed that the scale divides into whole numbers, as the run does.
Proved: `WithinBudget`. It is inductive only with what could be spent now added:
what was spent and what the bucket holds are within the budget together. That
the allowance is lowered to the full bucket, and never raised by a punishment, keeps
the sum.

PropertyReader: it is assumed that the characters include those that are treated
specially, that keys have no spaces, and that no text is mistaken for a missing or
an unknown one. Proved: what is saved is loaded (`SavedIsLoaded`), the types, and
`OutdatedIsFlagged`. A loop over a sequence is a fold, which exists (by
`LoopExists` of `DataProofs`), is the only one, and goes on by one turn when the sequence does;
with induction over sequences this gives in turn
- that what was escaped has no newline and, for a key, no space, and is parsed to
  what it was: after each character the parser is not inside an escape;
- that a line of escaped key, space and escaped value is assigned as it was written;
- that reading a text and then such a line is reading the text and assigning the
  line, so that after each line of `Save` the properties that were written so far
  are those that are read.

`OutdatedIsFlagged` speaks of objects whose base is what the path holds now, which
others may bring about by writing the same text again. The inductive invariant
therefore says of each object, whatever the path holds, how it differs from what
its own base gives when loaded (`KnowsItsBase`). A step that writes needs `SavedIsLoaded`; all
others keep it object by object.

`DataProofs` assumes that sizes are positive and that an exception is no number. Proved:
`RunsRoundTrip`, for arrays of every length. The library's induction theorems
cannot be instantiated by the provers used, so the module has its own, over sets of
numbers (`Induction`, from a set's least number), and from it that a loop has a value
at each turn if each turn leads from what holds before it to what holds after it
(`LoopExists`, `LoopKeeps`). Three loops follow:
- the search finds runs of equal items, in order, each worth more than its point,
  and what it means to allocate is what is not left out (`Scanned`, `Pays`);
- after each point, the copy holds the items up to the first of each run, each as
  far before its place in the array as items were left out (`Kept`);
- after each point, what is unpacked is the array up to the end of that run
  (`Unpacked`).

`Pays` also says that an item of each run remains, so that only the empty array is
taken for corrupted.

For PngImage, `DataProofs` assumes that the bytes of every image that is asked for or
pasted can be counted in the word, with four channels, that offsets are within a quarter
of it, and that pasted pixels are opaque or clear. Proved: the types
(`ImagesTypeCorrect`), of which the part that matters is that the memory holds all
pixels, and `PixelsExact`, for images of every size, rectangles of any place and size and
images of either number of channels.
- The pixels are numbered row by row. A number below the product of the sides is that
  of exactly one pixel (`OneCell`, `CellOf`), so that the bytes of two pixels do
  not overlap, and those of every pixel are in memory and counted without wrapping
  (`InMemory`). Hence `setPixel` changes one pixel (`SetsPixel`).
- A turn of the inner loop draws a pixel and a turn of the outer one a row
  (`RowTurn`, `AreaTurn`), so that both draw the rectangle and nothing else (`Draws`).
- The steps that the loops take are those of the clipped rectangle, and none if an end
  wraps: what wraps ends before it begins (`StepsClip`).
- What `nearestDownscale` leaves, memory of four channels read as three, is
  more than is needed (`DownscaleKeeps`). It keeps the invariant, which says nothing of
  what the pixels are then.

For Varints, `DataProofs` assumes nothing but that groups and words have bits. Proved:
`UnsignedVarintsRoundTrip` and `SignedVarintsRoundTrip`. These are no properties of a run,
which sees them through `PacketsRoundTrip`, but what the code promises of all numbers.
- A power of two is a recursive function (`Power`), which exists, and of which the power
  of a sum is a product (`PowerSum`). What encodes a number goes on with its quotient,
  and exists by induction over smaller numbers (`Quotients`, `Encodes`).
- After k groups, the number is what was added plus what remains times the power of
  the bits so far, and the bytes to come are those of what remains (`Remains`, `GroupTurn`).
- No shift of a number that was encoded is as large as the word (`ShiftFits`): the
  undefined shift of varints.cpp:32 takes bytes that no encoder wrote.
- With n bytes a number is decoded if the limit is at least n, and refused otherwise. With
  the limit of a word's bytes, which the readers of packets have, the largest numbers are.

`PacketsProofs` is about packets of all types, assuming that types consist of types that are
less deeply nested (`TypesAssumption`), that values are those of their types and small
enough for their lengths to be counted in a word (`ValuesAssumption`), and that messages
are bytes. Proved: `ReadsInside`, for messages of any bytes, the empty one included, of
which the opcode is read behind the end, and nothing is promised beyond that. An outcome is `Inside` what it
was given if it touched no byte behind and ended no later; a reader is one (`IsReader`)
if this holds wherever in the message it begins.
- Numbers, varints and containers of numbers are inside by what they check first. The
  product that counts the bytes of a container may wrap: what is compared with the
  rest is also what is read (`NumbersInside`).
- What reads one value after the other is inside if its readers are (`AllInside`), by
  induction over its turns.
- Readers made from those of the parts change no more after as many times as types are
  nested, so that the recursive function exists (`ReadersMade`), and all of them are inside
  by induction over the nesting (`TypesInside`).

Proved with one more assumption: `PacketsRoundTrip`. The assumption is needed, and the proof
found it: a container that is not one of numbers is refused if fewer bytes follow than it
has values, so values that are written as nothing (an empty `std::tuple` or
`std::array`) are not read back. The code says so itself
(Packet.tpp:331, "size of the elements will be 1 at least"), and `ElementsTakeBytes` is that.
The invariant says that the message is what is written of what was sent, or that the
program has ended, and the result what the handler's type makes of the message.
- What is written, and what is expected of it, exists for every value as the readers do
  (`FromPartsExists`). The bytes take no more than their size, and exactly that if and only
  if no `std::array` is among the values (`AllWritten`, `AllExact`), which is what the assertion
  compares.
- A reader gives back what bytes hold (`ReadsAs`) if, wherever they stand in a message and
  whatever follows, it ends behind them with the value that is expected, or throws if
  that is not readable.
- The bytes of a number add up to it, in the order in which they were written or in the
  other one (`BytesReturn`, `BytesSwap`); of varints this is `UnsignedVarintsRoundTrip`
  with the limit of a word's bytes (`VarintBack`).
- Where joined bytes stand, each part stands behind those before it (`JoinedParts`,
  `PartHolds`), so that readers that give back the parts give back all of them, one
  after the other, up to the first that is not readable (`AllBack`). Tuples, arrays,
  containers and optionals follow, each by what it checks before (`TupleBack`,
  `ArrayBack`, `ElementsBack`, `OptionalBack`, `NumbersBack`), and then all types, by
  induction over the nesting (`TypesBack`), and messages (`MessageBack`).

The rest is model-checked only: liveness (`AwaitEnds`, `TasksRun` and the like) needs
fairness and ENABLED, which the prover does not reason about.

## 6. Not modelled

- What is listed under "The rest" above, and PostgresRows: conversions and
  wrappers without a protocol.
- What queries, requests and mails send and receive; the storage of parameters.
- PNG files and their chunks, which are libpng's, and colours that are neither
  opaque nor clear, which are a matter of rounding.
- Varints of strings, which nothing in the library uses; big-endian hosts, and
  floating-point numbers in packets; additional arguments of packet handlers; a
  caller's buffer that is too small for a packet; builds with `NDEBUG`.
- Pasting an image onto itself, and moving one by more than a quarter of the word.
- Other objects' timers in the vector that AsyncPostgres uses, of which one that ends
  in front of its timers takes them along.
- Data races on a coroutine's promise that two threads use at once.
- Floats: the rounding of Bucket's allowance, and its period of zero.
- A file of properties that is written in part.
- What programs must not do, and the code cannot prevent: a stop callback of a
  query in another thread, `runInMainThread` while the TaskBuffer is destroyed, a
  task that ends with an exception and is awaited nevertheless. The coroutines
  that wait for tasks which the TaskBuffer drops at its end are not followed.
- Requests have no timeout: that servers answer some day is assumed.

## 7. Running

`tlc -config pg_safety.cfg MCAsyncPostgres.tla`, and likewise for the other runs
(`MCTimedCallbacks`, `MCTaskBuffer`, `MCAsyncCurl`, `MCLibrary`); `tlapm` for
each of the modules `*Proofs.tla`. `PROJECT.json` lists the runs, the mutants, the
source lines of each definition, the hazards and the theorems.
