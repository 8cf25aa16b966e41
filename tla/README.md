# A TLA+ verification of jhttpd

jhttpd is a small HTTP server library in C++11: a service object that a program
configures, runs and stops, a listener with an accept loop, a pool of worker
threads, and the code that receives requests and sends responses on a
connection. This directory holds TLA+ models of that code, TLC configurations
that check them on small instances, and TLAPS proofs of its most important
properties for every size. `src/...` below is a path of the repository.

## The system

| component | code | state | operations |
|---|---|---|---|
| `JService` | `src/src/jservice.*` | `m_status`, `m_mtx`, `m_resps`, `m_server`, `m_thread`, port, thread count, root | `addResp`, `delResp`, `setLog`, `setRoot`, `setPort`, `setThreadCount`, `run`, `stop` |
| `JServer` | `src/src/jserver.*` | `_tcpServer`, `m_resps`, `m_running`, `m_threadPool` | `bind`, `listen`, `run` (the accept loop), `stop`, `resp_add`, `resp_at` |
| `TcpListener` | `src/src/jtcplistener.*` | a descriptor, its status | `bind`, `listen`, `accept`, the destructor |
| `ThreadPool` | `src/src/jtheadpool.h`, `theadpool.cpp` | `m_workers`, `m_tasks`, `m_queue_mutex`, `m_condition`, `m_stop` | the constructor, `enqueue`, the workers' loop, the destructor |
| `HttpServerTask` | `src/src/jserver.cpp` | a socket handle | `operator()`: requests and responses in turn until the connection is down |
| `HttpSocket` | `src/src/jsocket.*` | `_connUp`, the state of `crlf`, the line at hand | `recv`, `sendHeader`, `sendBody` |
| `HttpRequest` | `src/src/jrequest.*` | `_header`, `_method`, `_uri`, `_version` | the parsers of the request line |
| `JResponse` | `src/src/jresponse.*` | `_header`, `_content`, `_content_length`, `_ifs` | the constructor (responders, then the web root), `body` |
| `TransportSocket`, `TcpSocket` | `src/src/jtransportsocket.*`, `jtcpsocket.*` | a descriptor | `waitForRecvEvent`, `recv`, `send`, `sendFile`, `shutdown` |
| `JLoger` | `src/src/jlog.*` | `m_output_device`, `m_mutex` | `log`, `set_output_device` |
| `Tools` | `src/src/jtools.*` | the static buffers of the C library | `getLocalTime`, `fileStat`, `splitLineInTokens` |
| `JHttpCreateService`, `JHttpdestroyService` | `src/src/jhttpd.cpp` | the `JService` | create, delete |
| `Helper` | `src/src/jhelper.*` | none | `datetime`, the stamp of a log line |
| `HttpStatus` | `src/include/jstatuscode.h` | none | `reason` |
| the demo | `src/demo/main.cpp` | a service and a responder | `main`, `JResp::get` |

How they interact: a user thread calls `run`, which creates the `JServer` and
its pool, binds, listens, and runs the accept loop itself (`block`) or in a
thread of its own. The loop enqueues an `HttpServerTask` for each connection.
A worker executes it and calls, through `JResponse`, the responders of the
user. `stop`, in any thread, deletes the listener under the loop, joins the
loop's thread and destroys the `JServer`, which waits for the workers. All
threads share the logger, the buffers of the C library and plain pointers to
the `JServer` and the responders.

What is hard, and what would make each part correct:

- **ThreadPool**: lost wakeups between `notify_one`, the predicate and sleep;
  the one `notify_all` of the destructor; tasks that enqueue tasks while the
  pool stops. Correct when every accepted task runs once, in order, and the
  destructor returns with nothing left.
- **JService and JServer**: `run` and `stop` from several threads, a listener
  deleted under the thread blocked in it, errors half way through `run`,
  a `JServer` kept from a failed `run`, the order in which things are joined
  and destroyed. Correct when `m_status` tells the truth, nobody uses a
  `JServer` that is gone, and `stop` returns.
- **The sockets' numbers**: a number is closed in one thread while another is
  about to use it, may be given out again at once, and 0 is a legal one that the
  code takes for none. Correct when nobody uses the number of a socket that is
  no longer his, and every socket is closed in the end.
- **A connection**: pipelined requests, short sends, files that change, clients
  that leave. Correct when a client can tell the responses apart, gets one for
  each request, and releases its worker when it leaves.
- **Receiving**: a state machine over single bytes that must stop exactly at an
  empty line, and a tokenizer that decides whether a request is understood.
- **Naming**: a URI becomes a path below the web root and an extension a type,
  and several responders write into one answer.
- **Logger**: a device may be destroyed by its owner once it has been replaced,
  lines are written with and without the lock, and a device may call back.
- **Times**: static buffers shared by all workers.

## The modules

| module | models | composed with |
|---|---|---|
| `Executor` | what a pool promises: tasks start in the order they were accepted, at most `Capacity` at once, and after `Close` nothing is accepted and everything accepted is executed | implemented by `ThreadPool`; `Service` uses the pool in this form |
| `ThreadPool` | the pool, each lock, wait, notification and join a step | `ThreadPoolProofs` |
| `Reception` | what the server promises its clients: an open desk turns nobody away, whoever was admitted is served, and the desk is gone only after the last of them | implemented by `Service` and by `Descriptors` |
| `Service` | `JService`, `JServer`, the listener and the accept loop, with the users and the clients | the pool as in `Executor`, a connection served in one step; `ServiceProofs` |
| `Descriptors` | the table of open files, and which handle has which number | every step is one of `Service` with its effect on the table; `ServiceProofs` |
| `Demo` | `main` of `src/demo/main.cpp` | the only user of a `Service` |
| `HttpConnection` | one task: requests, the choice of the response, header and body on the wire | fed by requests as `RequestParser` makes them; `HttpConnectionProofs` |
| `RequestParser` | `HttpSocket::recv` byte by byte, `splitLineInTokens` token by token, and the parsing of the request line | `RequestParserProofs` |
| `Resource` | from the URI to the path, the responders' answers, type, time and status of the header | the part of `JResponse` that `HttpConnection` leaves open; `ResourceProofs` |
| `SendFile` | `TransportSocket::sendFile` (which nothing in the repository calls) | `SendFileProofs` |
| `Logger` | `JLoger` and the devices that are given to it | `LoggerProofs` |
| `Clock` | `getLocalTime` and `fileStat` with the C library's buffers, `Helper::datetime` without | `ClockProofs` |
| `MC...` | the constants of TLC's instances | |

State and actions carry the names of the code where there is one. An action is
what happens between two points where another thread or the environment can
interfere: for `ThreadPool` that is every access to the mutex and the condition
variable, for `Service` every system call and every access to an unprotected
member, for `HttpConnection` every call of a responder, of the file system and
of `send`, for `Clock` every access to a buffer. Each module has a section of
mutations: forms of its own definitions with a plausible bug, which take no part
in the specification and are there to show that the properties notice.

Correspondence, module by module:

- **ThreadPool**. `m_tasks` is the queue, `m_stop` the flag, `lock` the owner of
  `m_queue_mutex`; `wpc` is a worker's place in its lambda (`check` is the
  predicate evaluated under the lock, `asleep` the wait), `cpc` a caller's place
  in `enqueue`, `dpc` the destructor's. `EnqueueNotify` wakes one sleeper, if
  there is one, and is a step after the lock has been released, as in the code.
- **Service**. `upc` is the place of a user in its call; `m_mtx` its lock, held
  from the first statement of `_start` or `_stop` to the last, and therefore
  throughout a blocking `run`. `apc` and `aby` are the accept loop's place and
  thread. `RunReuse` is a `run` that finds the `JServer` of an earlier `run`
  that failed. A failing system call costs one of `MaxFailures`. Undefined
  behaviour is a choice: `LoopCall` may dereference the pointer that `stop` has
  reset (`crashed = "null"`); `LoopEnter` and `LoopAccept` may read the status,
  the number and the address of the listener that `stop` has deleted, and die of
  it or not (`"freed"`); `addResp`, `delResp` and `setRoot` during another
  thread's `run` may be harmless or not. The kernel accepts connections until
  the descriptor is closed and, on Linux, for as long as a thread is blocked in
  `accept` on it; what waits in the backlog of a closed listener is reset.
- **Reception** is reached from `Service` by a refinement mapping: the desk is
  read off the pool and the listener (`Desk`), a guest off the state of its
  connection (`Guest`). An admitted guest cannot be turned away in `Reception`,
  so the refinement says that no accepted connection is dropped, however `run`,
  `stop` and failures interleave, and that the pool outlives them all.
- **Descriptors**. `table` says who uses each number, `lfd` and `cfd` are the
  `_socket` of the listener and of each connection, `held` the connection whose
  handle is still a local variable of the accept loop, `afd` the number the loop
  has read from the listener and is about to call `::accept` with, which a `stop`
  may close and the program get for a file before the call. The lowest free
  number is given out; `isValid` is `fd > 0`. The program may close its standard input and
  open files of its own (`App`).
- **Demo**. `mpc` is the place of `main`, `s` whether its pointer is set; the
  other steps are those of `Service`, taken as calls or while main waits.
- **HttpConnection**. Bodies are counted in units, `Chunk` of which go into one
  `send`; `wire` is, for every response, the length its header declares and
  what followed it. `fsize` is what `stat` says of the size, a directory's too. `Ask` is a turn of the loop of `JResponse` over the
  responders (`asked` of them so far, `found` if `resp_status` is 200), then
  `BuildResp`, or `BuildStat` and `BuildOpen`, or one of the errors. A file may
  change between any two of these. `sendHeader` and `sendBody` compare the
  address of the function `send` instead of the result, so `_connUp` does not
  depend on what was sent. `SendUp`, `SendClosed`, `SendAborted` and `SendReset`
  are the four things a `send` can meet.
- **RequestParser**. `s` is the state of the lambda `crlf`, `line` and `header`
  are the variables of `recv`, `rest` and `tokens` those of `splitLineInTokens`;
  a symbol is a byte or a word that the parsers compare as a whole. A message of
  the client arrives (`Arrive`) when the one before has been read to its end:
  `recv` takes one byte at a time, so it cannot tell whether more had been there
  already. `RecvByte` is a turn of the loop of `recv`, `SplitToken` one of the
  loop that splits, `Parse` the rest of `recv` and the next one's beginning.
  `got`, `ends` and `served` are history variables: the bytes of this `recv`,
  where its lines ended, and the requests that were answered.
- **Resource**. Strings are sequences of `/`, `.` and letters; the table of
  MIME types is the constant `Rows`, a sequence, since `std::map` keeps the
  first of several rows with one key and the source has such rows. `Ask` is one
  turn of the loop over the responders, `Asked` its end. `ext`, `time` and
  `status` are the locals of the constructor that responders and `fileStat`
  write to one after the other; `content` says whose content is sent. For its
  properties the module has what a file system makes of a path: `Resolve` is
  where it leads, with `.` and `..` resolved, and `Climbs` says that it goes
  above its start on the way. The code has nothing of the kind.
- **SendFile, Logger, Clock**. The variables of the functions, the mutex and
  the device pointer, the buffers. A device in `Reentrant` may call back: the
  thread is then `stuck` in its own mutex. In `Clock` a call of `Helper` goes
  through the worker's `own` struct and needs no shared buffer; the history
  variable `near` has, for each worker, the times that its call and those that
  overlap with it were asked for.

## What is checked

Deadlock is checked in every run but `logger`, where a device that called back
keeps the mutex and everybody may wait for it; a module whose system really ends
has an action (`Terminated`, `Ended`) that says where.

| run | instance | shows |
|---|---|---|
| `pool` | 2 workers, 3 tasks, tasks may enqueue tasks, 1 spurious wakeup | `NoTaskLost`, `NoDoubleExecution`, `NoLostWakeup`, `NoSleeperMissesStop`, `DestroyedMeansDrained`; `EveryTaskSettled`, `DestructorReturns`; `ImplementsExecutor` |
| `service` | 2 users, 2 clients, 1 responder, 2 port and 2 thread arguments, 1 failure, Linux | `TypeOK`, `RunningMeansServing`, `StoppedMeansGone`, `NobodyOutlivesServer`, `BlockingRunIsNeverStopped`, `DeathsExplained`; `ConfigStableWhileServing`; `ImplementsReception` |
| `service_stop` | 1 user, 2 clients that may never come, numbers 0 to 3, 1 failure, closing wakes `accept` (Windows, macOS) | `StopReturns`, `ClientAnswered`; `NoStaleNumber`, `NothingLeaks` |
| `demo_linux` | the demo, 1 client that need not come, Linux | `DemoEnds` is violated |
| `conn` | 2 requests, bodies up to 2 chunks, 2 responders, short and failing sends, SIGPIPE | `FramingKept`, `ZerosExplained`, `OneResponsePerRequest`; `WorkerReleased` |
| `conn_send_result` | no responders, sends never short | `SendFailureNoticed` is violated |
| `parser` | all streams of 9 control bytes, all lines of 4 words and more of 5, 1 or 2 messages | `StopsAtEmptyLine`, `EmptyLineStops`, `LinesAreWhatCame`, `RequestLineRead`, `RequestsAsSent` |
| `resource` | URIs of 4 parts, 3 roots, 2 responders | `KnownFileTyped`, `FileBelowRoot`, `AnswerOfOneResponder` |
| `sendfile` | files up to 7 bytes, a buffer of 3 | `ResultExplained`, `FileArrives` |
| `logger` | 3 threads, 2 devices of which one may call back | `RetiredDeviceUnused`; `LineWrittenOnce`, `CallsReturn` |
| `clock` | 2 workers, 3 times | `NoTimeLeftOver`, `StampIsRight` |
| `clock_shared` | 2 workers, 2 times | `TimeIsWhatWasAsked` is violated |

Why the bounds are enough. Two workers are the fewest with which a notification
can reach the wrong one, and three tasks leave one queued while both are busy;
more of either is what the proofs are for. Two users are the fewest that make
`run` and `stop` overlap, one responder can be registered, copied and deleted,
and one failure puts every call of `run` in the way of every recovery; 65616 is
a port that only the mask makes legal. Two clients are one that is served and
one that waits. Numbers up to 3 are one for the standard input, one for the
listener and two for clients or files of the program, so that the table fills
up and numbers come round. A body of two chunks has a first and a last `send`,
two responders an earlier and a later one, and two requests a response that
follows another. Nine bytes hold two ends of lines, an empty line and what
surrounds them in any arrangement; five words are the shortest request line and
every way to disturb it. Seven bytes and a buffer of three include a file of
whole buffers, one with a rest and an empty one. Four parts of a URI suffice for
a directory with a dot, for a name with two and for a `..` with a name behind
it. Symmetry is used in `service`
only, whose invariants and refinement are about safety.

### Fairness

- `ThreadPool`: workers, callers inside `enqueue` and the destructor are weakly
  fair: the scheduler runs them and tasks return. Nobody has to call `enqueue`
  or the destructor, nothing is woken spuriously for sure. Each of them is a
  thread that always has its next step as soon as its lock is free; the mutex
  is free again and again, and the liveness checked does not depend on which
  thread gets it first.
- `Service`, `Descriptors`: threads that can run do run. A thread blocked in
  `accept` is woken by the close of its listener where the platform does that
  (`LoopWoken`), otherwise only by a client. Acceptance and the start of a task
  are strongly fair per client, because the backlog and the queue of the pool
  are first in, first out. Clients leave in the end (the receive timeout sees to
  silent ones, not to busy ones); no client has to connect, no call has to fail,
  nobody has to call the API. `Demo` adds that `main` goes on when it can.
- `HttpConnection`: the worker runs, and `send`, responders and disk answer; a
  request that does not come ends in the receive timeout.
- `Logger`: a thread gets the mutex in the end if it is free again and again, and
  devices return unless they are stuck in it.
- `RequestParser`, `Resource`, `SendFile` and `Clock` are checked for safety only.

### What the violated properties mean

- `demo_linux`: `JServer::stop` closes the descriptor under a thread blocked in
  `accept`, and on Linux that wakes nobody. `JService::stop` then joins that
  thread with `m_mtx` held. It returns after the next client has connected, or
  never; the demo calls it after two minutes and relies on its return. The
  safety of the rest of the shutdown does not depend on it (`service` is checked
  with the behaviour of Linux). With a platform that wakes the thread,
  `StopReturns` holds (`service_stop`).
- `conn_send_result`: `jsocket.cpp:125` and `:142` test `send` where `sent` is
  meant, so the promise of `operator bool` (`jsocket.h:77`) is not kept for
  sends. What that costs is bounded by `FramingKept`, which `conn` checks with
  short and failing sends: no body is longer than its header declares, by more
  than the chunk that a declining responder may add; only a response of which a
  send was short or failed may be followed by another before it is complete.
- `clock_shared`: two responses formatted at the same time can have each
  other's time, or half of it.

Other places where comment and code differ, seen while modelling and not worth
a run each: after a failed `accept` the loop sleeps and goes on, though a
comment says it stops the server (`jserver.cpp:144`); connections go to a fixed
pool, not to a thread each (`jserver.cpp:139`); the default port is 0 and not
80 (`jhttpd.cpp:40`, `jhttpd.h:108`); a send on a reset connection raises
SIGPIPE, which nothing ignores, instead of returning -1
(`jtransportsocket.h:106`); a body is never read (`jrequest.h:28`); `sendFile`
sends the buffer from its start again after a short send, and returns -1 for a
file of whole buffers (`jtransportsocket.cpp:75`, `:89`); `fileStat` reports the
time of the last access as that of the modification (`jtools.h:93`), and as the
extension of a file without one what follows a dot in its directory
(`jtools.h:94`). The models contain all of these as the code has them, and the
properties say where they matter: `RequestsAsSent` stops at a body,
`FileArrives` at a short send, `ResultExplained` names the whole buffers.

## What is proved

`tlapm` checks all of the following without further assumptions than the named
`ASSUME` of each module (there is a worker, the special values are not members
of the sets they are distinguished from; the bounds are natural numbers; a
client sends symbols; a key of the table of types is a dot and what has neither
a dot nor a slash, as all of the source's are). TLC evaluates these assumptions
in the runs, and checks there all but the types and `OneCall` on small instances.
With them every safety property of the passing runs is a theorem, and so are
the two refinements, fairness apart. The exception is `FileBelowRoot`: where a
path leads is a fold over the path, and what a recursion computes is out of the
provers' reach. What is proved is the part that the code answers for, without
the recursion (`RootIsLeftByUriOnly`). The argument is the same each time: an
inductive invariant is needed because the property speaks of two
places (a queue and a sleeper, a status and a thread, a number and its owner)
that a step can change one at a time.

**ThreadPoolProofs**, for any number of workers and tasks, nested calls of
`enqueue` included. The argument has four layers, each inductive on top of those
before:

1. `TypeInv`: types, and that whoever is in `run` or `enqueue` has a task in
   hand (`InHand`), without which a moved-from function could get into the
   queue. Gives `TypeCorrect`.
2. `Control`: how `m_stop`, the destructor's place, the workers' ends and the
   sleepers depend on each other. In particular a worker ends only when the
   queue is empty and the pool stopped, and this stays so because `enqueue`
   throws from then on. Gives `NoSleeper`.
3. `NoLostWakeup` is inductive by itself given the types: tasks in the queue
   are at most the workers awake and looking plus the notifications under way
   while somebody sleeps. The proof counts finite sets. Gives `NoWakeupLost`.
4. `Whereabouts`: a task is in one place: on its way, queued, in a worker's
   hands, finished or refused. Gives `NothingLost` and `NothingTwice`, and with
   `Control` gives `Drained`.

`PoolIsExecutor`: every behaviour of the pool is, fairness apart, one of
`Executor`. A step of the pool maps to `Submit` (`EnqueueEmplace`), `Start`
(`WorkerTake`), `Finish`, `Close`, `Closed` or a stutter; `Start` needs
`Capacity`, which the finite set of workers in `run` provides.

**ServiceProofs**, for any number of users, clients, responders and failures, on
both kinds of platforms. `m_mtx` lets one user at a time be inside `run` or
`stop` (`Mutex`); the place of that user, `Pos`, together with `m_status`
determines what the rest is like: `StoppedInv` and `RunningInv` (what each status
means), `PlaceInv` (what the call has done so far), `PoolInv`, `LoopInv` (whose
thread the loop has, and that it ends only after the listener is gone),
`ConnInv` (which connections can exist) and `DeathsExplained` itself, which a
step can only make true where the rest puts the threads. The theorems
`RunningServes`, `StoppedIsGone`, `ServerOutlives`, `BlockingRunGoesOn` and
`DeathsAreExplained` are read off this invariant; `ConfigIsStable`, on single
steps, follows from it for the two actions that write.
`Refines` maps every step to one of `Reception`: what is hard are the steps that
must not turn anybody away (`StopServer` and `LoopAccept` with a listener that is
gone) and `StopDrained`, which needs that nobody is admitted any more. The proofs
are about `Step`, which also has the failures without their bound, so that
`Descriptors` can use them.

The second part of **ServiceProofs** is about `Descriptors`, for tables of any
size. Every step is a `Step` of the service, so the invariant above holds here
too; `DInv` adds that whoever has a valid number is the one the table names for
it (`ListenerFd`, `ConnFds`) and which connection the loop still has a handle of
(`HeldInv`). A number is taken when it is free and given back by its owner, so
the entries of the others stay. The number in the loop's hands, `afd`, is not
given back by its owner, so `AcceptFd` follows it from the moment the loop reads
it: as long as the listener is there it is the listener's, and from then on
nobody takes a number for a listener or a connection until the loop has made
its call, because a stop holds `m_mtx` and the loop accepts nothing meanwhile.
Gives `NumbersAreOwned`, `SocketsAreClosed` and
`RefinesWithNumbers`.

**HttpConnectionProofs**, for any number of requests, responders and units. All
responses but the last are settled, and the last one is when the task is not
sending (`Framed`); while it is, the last response has got what `readed` counts,
unless a send was cut short (`Sending`). `readed` does not pass the length of the
header because the content is empty or what the length was taken from
(`ContentFits`), and a file that has not changed is as long as the header says
(`FileFits`); where a responder that declined has left content instead, one
chunk is all it can be too much. Gives `TypeCorrect`, `FramingIsKept`, `OneResponseEach` and
`ZerosAreExplained`.

**RequestParserProofs**, for every client, whatever and how much it sends. The
argument goes from bytes to messages:

1. `StateFollows` and `StateKeepsUp`: each state of `crlf` is what the last bytes
   are, and, unless two CR stood in a row, these bytes force the state. Neither
   is inductive alone, since the state after a byte follows from the state
   before it. Gives `StopsOnlyAtEmptyLine` and `StopsAtEveryEmptyLine`.
2. `LinesInv`: the lines lie in the bytes without a gap, each up to its CR LF, of
   which the CR is still in `line` while the LF is awaited. Gives
   `LinesLoseNothing`.
3. `SplitInv`: there is a function that says where in the first line each token
   ends (`Cuts`), at a blank or behind the line, and no blank before the last of
   them is left out. When nothing is left of a line that ends in CR LF it has been
   cut at every blank and nowhere else (`AllCut`), so that three tokens and two
   blanks are the same thing (`KnownHasTwoBlanks`, `TwoBlanksMakeThree`). Gives
   `RequestLineUnderstood`. This takes the place of an induction over the line.
4. `PlaceInv`: if every head is well formed, `recv` is within the head of the
   message that arrived last and stops where it ends (`WithinHead`), or waits for
   the next one (`Between`), or a message with a body was answered (`Astray`).
   That it stops neither earlier nor later is 1 again. With `RightInv`, that what
   was answered so far is what it meant, this is inductive, and gives
   `AnswersAsSent`.

**ResourceProofs**, for every table of types, web root and URI and any number of
responders. `Asking`, `Filing` and `Header` say what each stage of the
constructor has decided, `LastWriter` whose content and type there are while the
responders are asked, and `Rooted` that the path of a file is the root with
`LocalPath` behind it. They give `TypeCorrect` and `OneResponderAnswers`.
`RootIsKept` needs a lemma besides, on what a slash in front of a path does to
its names and its `..`: it shifts them by one (`SlashBefore`), so that the path
climbs only if the URI does (`ClimbingPath`). `KnownFilesTyped` needs a fact
about the operators besides: the last dot of a path that ends in a key of the
table is the key's dot (`ExtOfKnownFile`), so that what `fileStat` finds is the
key, and the first row with it is the one `std::map` keeps.

**SendFileProofs**, for files and buffers of any size: while the stream is good
a whole number of buffers has been read (`ReadSoFar`), and what has been sent is
what has been read, in order, up to the buffer at hand (`InOrder`, `Counted`,
`NothingLeft`). Gives `FileComes` and `ResultIsExplained`.

**LoggerProofs**, for any number of threads and devices: whoever is inside a
device holds the mutex (`Exclusion`), the device it is in is the one that is set
(`DeviceIsSet`), and a log has seen whatever was set since it began
(`LineIsSeen`). Gives `RetiredUnused`, `OneCall` and `WrittenOnce`.

**ClockProofs**, for any number of workers: whatever a call leaves in a buffer
is near to everybody who is using the buffers with it (`Together`, `NearSoFar`),
since each of them has been overlapping with the one who wrote it; a stamp is
right at every stage because it never leaves its own struct (`StampSoFar`).
Gives `NothingLeftOver` and `StampsAreRight`.

Model-checked only: everything about liveness (`EveryTaskSettled`,
`DestructorReturns`, `StopReturns`, `ClientAnswered`, `WorkerReleased`,
`CallsReturn`), since TLAPS does not prove liveness under fairness here; the
fairness of the abstract specifications, which the refinements leave out; and
the runs of `Demo`, whose one question is about liveness.

## What is not modelled

- A check of the path of a URI: there is none in the code. `..` reaches the file
  system as the client wrote it, and a file outside of the web root is served
  like any other; the repository's README has "add path check for safe" under
  TBD. `FileBelowRoot` is therefore about URIs that do not climb. `Resolve`
  follows no links and stays at the top of the file system, as the system does.
- What becomes of a process after undefined behaviour that did not kill it: a
  deleted listener that is read is either fatal or behaves as if it had been
  valid or not, its number is the one it had or no number at all. The program's
  own files can get that number, so that `::accept` is called on one of them
  and fails; that such a file is itself a listening socket is left out.
- Failures the code does not handle are named in the properties and not
  forbidden: a launch that fails (`launchFailed` in `RunningMeansServing`),
  descriptor 0 (`NothingLeaks`, `ClientAnswered`), two CR in a row
  (`EmptyLineStops`), what follows a body (`RequestsAsSent`), a device that
  calls back (`CallsReturn`), a process that dies of SIGPIPE (`WorkerReleased`),
  responders that forget the type (`AnswerOfOneResponder`). And `StopReturns` and
  `ClientAnswered` assume that clients leave: how long a patient one can hold up
  either is not bounded.
- The order of responses by identity: `wire` counts responses. One task answers
  its requests one after the other, and it is the only one that sends.
- The text of headers, error pages and log lines; addresses and ports of peers;
  the conversion of a status, a `tick`, a duration or an RFC 7232 time to text;
  the enumeration and the predicates of `HttpStatus`, which the library does not
  use (its `reason` is in `Resource`).
- `OsSocketSupport`, `jconfig` and `NoCopyable`: the initialisation of Winsock,
  macros and a deleted copy constructor. The one difference between platforms
  that matters is the constant `CloseWakesAccept`.
- `JObject`: a name and a parent pointer; `root()` finds the `JServer`, which
  the models refer to directly.
- The select mask and `operator<<` of `TransportSocket`. `FD_SET` with a number
  of `FD_SETSIZE` or more writes beside the mask, and after that there is no
  state to speak of; `MaxFd` stands for that limit as well as for the process's.
- Time: a timeout is an action that may happen. A client that sends a byte every
  two minutes is not told apart from one that takes its time.
- Memory, and so what is left after `delete` through a base class without a
  virtual destructor (`Destroy` models that `stop` is not called).
- Of the demo, what `JResp` writes and what its log device prints.

## Plan

Done: all the components above but those under "not modelled"; the two abstract
specifications and their refinements; inductive invariants and theorems for every
module but `Demo`, and for every safety property that a run checks, of
`FileBelowRoot` the part without recursion.

What is left, in this order:

1. `HttpConnection` with the choices that `Resource` makes, so that type, time
   and framing of one response are one behaviour, and with responders that a
   user deletes meanwhile.
2. A `Service` whose connections are tasks of `HttpConnection` and whose pool is
   `Executor`'s, small enough for TLC, so that a worker held by a client and a
   `stop` that waits for it are one behaviour.
3. Proofs: more action properties like `ConfigStableWhileServing` (what no step
   may do to a port, what `Parse` may do to `served`), and lemmas that carry the
   liveness arguments to the point where fairness comes in.
