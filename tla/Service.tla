------------------------------ MODULE Service -------------------------------
(***************************************************************************)
(* The life cycle of the server: JService (src/src/jservice.h, .cpp), the  *)
(* JServer it owns (src/src/jserver.h, .cpp), its TcpListener and accept   *)
(* loop, and the threads that use them: the users of the API, the thread   *)
(* of the accept loop and the pool's workers.                              *)
(*                                                                         *)
(* The pool appears as Executor.tla describes it (connections queued,      *)
(* connections being served, at most s_threads of them), which             *)
(* ThreadPool.tla implements; its destructor is the "draining" phase here. *)
(* A connection is served in one step from "serving" to "closed":          *)
(* HttpConnection.tla models what happens in between.                      *)
(*                                                                         *)
(* What is undefined behaviour in the code is modelled by the outcomes a   *)
(* build has: _tcpServer tested and then dereferenced while stop() resets  *)
(* it (crashed, a null dereference); TcpListener::accept reading a         *)
(* listener that stop() has deleted, before ::accept (crashed, or a status *)
(* or a number with which no connection is accepted) and after it          *)
(* (crashed, or a wrong local address); and addResp, delResp or setRoot    *)
(* changing a member while run() reads it in another thread (harmless or   *)
(* crashed).                                                               *)
(*                                                                         *)
(* Descriptors.tla adds the numbers of the sockets, Demo.tla the program   *)
(* of the repository that uses the service, and Reception.tla is what all  *)
(* of it looks like to a client.                                           *)
(***************************************************************************)
EXTENDS Naturals, FiniteSets

CONSTANTS
    Users,              \* threads that call the API of one JService
    Conns,              \* clients; each may connect again after it was closed
    Resps,              \* the responders (JHttpResp objects)
    Nobody,             \* m_mtx is free, or the accept loop has no thread
    LoopThread,         \* the thread of JService::m_thread
    InitPort,           \* the port the constructor was called with
    PortArgs,           \* arguments of setPort
    ThreadArgs,         \* arguments of setThreadCount
    DefaultThreads,     \* m_threadCnt before any setThreadCount, 10 in the code
    BlockArgs,          \* arguments of run: TRUE blocks
    CloseWakesAccept,   \* what close does to a thread blocked in accept:
                        \*   TRUE on Windows and macOS, FALSE on Linux
    MaxFailures         \* bound: system calls that fail

ASSUME ServiceAssumption ==
    /\ Nobody \notin Users \cup {LoopThread}
    /\ LoopThread \notin Users
    /\ InitPort \in Nat
    /\ PortArgs \subseteq Nat
    /\ ThreadArgs \subseteq Nat
    /\ DefaultThreads \in Nat \ {0}
    /\ BlockArgs \subseteq BOOLEAN
    /\ CloseWakesAccept \in BOOLEAN
    /\ MaxFailures \in Nat

VARIABLES
    \* JService
    m_status,       \* "stopped" or "running"
    m_mtx,          \* the user inside run or stop, or Nobody
    m_resps,        \* registered responders
    m_server,       \* whether a JServer exists
    m_thread,       \* whether m_thread holds a thread
    m_port,
    m_threadCnt,
    destroyed,      \* JHttpdestroyService has been called
    \* JServer
    s_resps,        \* its responders, JServer::m_resps
    s_threads,      \* the workers of its pool
    pool,           \* "none", "open" or "draining" (in ~ThreadPool)
    listener,       \* _tcpServer: "none", "unbound", "bound" or "listening"
    lport,          \* the port bind was called with (0: any port that is free)
    \* the accept loop, JServer::run
    apc,            \* where it is
    aby,            \* the thread that executes it
    \* threads and clients
    upc,            \* where each user is in its call
    block,          \* the argument of each user's run
    conn,           \* what has become of each client's connection
    \* outcomes and history
    failures,       \* system calls that have failed
    crashed,        \* "no", or the undefined behaviour the process died of
    launchFailed    \* the std::thread constructor of the last launch threw

serviceVars == <<m_status, m_mtx, m_resps, m_server, m_thread, destroyed>>
configVars == <<m_port, m_threadCnt>>
serverVars == <<s_resps, s_threads, pool, listener, lport>>
loopVars == <<apc, aby>>
userVars == <<upc, block>>
histVars == <<failures, crashed, launchFailed>>
vars == <<serviceVars, configVars, serverVars, loopVars, userVars, conn, histVars>>

Init ==
    /\ m_status = "stopped"
    /\ m_mtx = Nobody
    /\ m_resps = {}
    /\ m_server = FALSE
    /\ m_thread = FALSE
    /\ m_port = InitPort
    /\ m_threadCnt = DefaultThreads
    /\ destroyed = FALSE
    /\ s_resps = {}
    /\ s_threads = 0
    /\ pool = "none"
    /\ listener = "none"
    /\ lport = 0
    /\ apc = "none"
    /\ aby = Nobody
    /\ upc = [u \in Users |-> "idle"]
    /\ block = [u \in Users |-> FALSE]
    /\ conn = [c \in Conns |-> "none"]
    /\ failures = 0
    /\ crashed = "no"
    /\ launchFailed = FALSE

InState(s) == {c \in Conns : conn[c] = s}

(* One more system call fails. *)
Fail ==
    /\ failures < MaxFailures
    /\ failures' = failures + 1

(* A user leaves run or stop; the lock_guard lets m_mtx go. *)
Return(u) ==
    /\ m_mtx' = Nobody
    /\ upc' = [upc EXCEPT ![u] = "idle"]

Goto(u, s) == upc' = [upc EXCEPT ![u] = s]

(* Clients that wait in the backlog when the kernel drops it. *)
ResetOffered == [c \in Conns |-> IF conn[c] = "offered" THEN "reset" ELSE conn[c]]

(* Where a thread stands, in a process that has not died. *)
At(u, s) == crashed = "no" /\ upc[u] = s
LoopAt(s) == crashed = "no" /\ apc = s

Idle(u) == At(u, "idle") /\ ~destroyed

(* Some user is iterating over m_resps, or about to read m_webroot. *)
Copying == \E u \in Users : upc[u] = "copy"
ReadingRoot == \E u \in Users : upc[u] \in {"bind", "listen"}

-----------------------------------------------------------------------------
(* Mutations: what some actions below would be with a plausible bug in the *)
(* code.  They take no part in Next; each one shows, put in the place of   *)
(* the action it is named after, that a property tells the difference.     *)

(* setPort stores what it is given. *)
SetPortUnmasked(u, p) ==
    /\ Idle(u)
    /\ p % 65536 # 0
    /\ m_port' = p
    /\ UNCHANGED <<serviceVars, m_threadCnt, serverVars, loopVars, userVars,
                   conn, histVars>>

(* The result of listen is ignored. *)
RunListenFailsUnnoticed(u) ==
    /\ At(u, "listen")
    /\ Fail
    /\ m_status' = "running"
    /\ Goto(u, "launch")
    /\ UNCHANGED <<m_mtx, m_resps, m_server, m_thread, destroyed, configVars,
                   serverVars, loopVars, block, conn, crashed, launchFailed>>

(* A blocking run lets the mutex go before it enters the loop. *)
RunListenUnlocks(u) ==
    /\ At(u, "listen")
    /\ listener' = "listening"
    /\ m_status' = "running"
    /\ launchFailed' = FALSE
    /\ Goto(u, IF block[u] THEN "in_run" ELSE "launch")
    /\ m_mtx' = IF block[u] THEN Nobody ELSE m_mtx
    /\ IF block[u]
         THEN /\ apc' = "begin"
              /\ aby' = u
         ELSE UNCHANGED loopVars
    /\ UNCHANGED <<m_resps, m_server, m_thread, destroyed, configVars, s_resps,
                   s_threads, pool, lport, block, conn, failures, crashed>>

(* The listener is kept open. *)
StopServerKeeps(u) ==
    /\ At(u, "stop_server")
    /\ Goto(u, "stop_join")
    /\ UNCHANGED <<serviceVars, configVars, serverVars, loopVars, block, conn,
                   histVars>>

(* The thread is detached instead of joined. *)
StopJoinDetaches(u) ==
    /\ At(u, "stop_join")
    /\ m_thread' = FALSE
    /\ Goto(u, "stop_reset")
    /\ UNCHANGED <<m_status, m_mtx, m_resps, m_server, destroyed, configVars,
                   serverVars, loopVars, block, conn, histVars>>

(* ~JServer destroys its members before the workers have ended: m_threadPool *)
(* declared before them. *)
StopDrainedAtOnce(u) ==
    /\ At(u, "stop_drain")
    /\ m_server' = FALSE
    /\ pool' = "none"
    /\ s_resps' = {}
    /\ s_threads' = 0
    /\ m_status' = "stopped"
    /\ Return(u)
    /\ UNCHANGED <<m_resps, m_thread, destroyed, configVars, listener, lport,
                   loopVars, block, conn, histVars>>

(* Workers end as soon as m_stop is set, and what is queued is dropped. *)
StopDrainedDropsQueued(u) ==
    /\ At(u, "stop_drain")
    /\ InState("serving") = {}
    /\ m_server' = FALSE
    /\ pool' = "none"
    /\ s_resps' = {}
    /\ s_threads' = 0
    /\ m_status' = "stopped"
    /\ conn' = [c \in Conns |-> IF conn[c] = "queued" THEN "closed" ELSE conn[c]]
    /\ Return(u)
    /\ UNCHANGED <<m_resps, m_thread, destroyed, configVars, listener, lport,
                   loopVars, block, histVars>>

(* delResp takes the responder from the JServer as well. *)
DelRespForwards(u, r) ==
    /\ Idle(u)
    /\ r \in m_resps
    /\ m_resps' = m_resps \ {r}
    /\ crashed' \in IF Copying THEN {"no", "resps"} ELSE {"no"}
    /\ s_resps' = s_resps \ {r}
    /\ UNCHANGED <<m_status, m_mtx, m_server, m_thread, destroyed, configVars,
                   s_threads, pool, listener, lport, loopVars, userVars, conn,
                   failures, launchFailed>>

(* The pool keeps one of its workers to itself. *)
ServeStartReserve(c) ==
    /\ crashed = "no"
    /\ conn[c] = "queued"
    /\ pool \in {"open", "draining"}
    /\ Cardinality(InState("serving")) + 1 < s_threads
    /\ conn' = [conn EXCEPT ![c] = "serving"]
    /\ UNCHANGED <<serviceVars, configVars, serverVars, loopVars, userVars,
                   histVars>>

-----------------------------------------------------------------------------
(* Setters. They take no lock.                                             *)

(* addResp and delResp of one user may meet the loop over m_resps in       *)
(* another user's run.                                                     *)
ChangeResps(resps) ==
    /\ m_resps' = resps
    /\ crashed' \in IF Copying THEN {"no", "resps"} ELSE {"no"}

AddResp(u, r) ==
    /\ Idle(u)
    /\ r \notin m_resps
    /\ ChangeResps(m_resps \cup {r})
    /\ UNCHANGED <<m_status, m_mtx, m_server, m_thread, destroyed, configVars,
                   serverVars, loopVars, userVars, conn, failures, launchFailed>>

(* The JServer's copy is not touched. *)
DelResp(u, r) ==
    /\ Idle(u)
    /\ r \in m_resps
    /\ ChangeResps(m_resps \ {r})
    /\ UNCHANGED <<m_status, m_mtx, m_server, m_thread, destroyed, configVars,
                   serverVars, loopVars, userVars, conn, failures, launchFailed>>

(* A string is not assigned in one go: run copies it to the JServer before *)
(* it binds, and prints it once it listens.                                *)
SetRoot(u) ==
    /\ Idle(u)
    /\ crashed' \in IF ReadingRoot THEN {"no", "root"} ELSE {"no"}
    /\ UNCHANGED <<serviceVars, configVars, serverVars, loopVars, userVars, conn,
                   failures, launchFailed>>

SetPort(u, p) ==
    /\ Idle(u)
    /\ p % 65536 # 0
    /\ m_port' = p % 65536
    /\ UNCHANGED <<serviceVars, m_threadCnt, serverVars, loopVars, userVars,
                   conn, histVars>>

SetThreadCount(u, n) ==
    /\ Idle(u)
    /\ n >= 1
    /\ m_threadCnt' = n
    /\ UNCHANGED <<serviceVars, m_port, serverVars, loopVars, userVars, conn,
                   histVars>>

-----------------------------------------------------------------------------
(* run.                                                                    *)

RunBegin(u, b) ==
    /\ Idle(u)
    /\ block' = [block EXCEPT ![u] = b]
    /\ Goto(u, "run_lock")
    /\ UNCHANGED <<serviceVars, configVars, serverVars, loopVars, conn, histVars>>

RunLock(u) ==
    /\ At(u, "run_lock")
    /\ m_mtx = Nobody
    /\ m_mtx' = u
    /\ Goto(u, "run")
    /\ UNCHANGED <<m_status, m_resps, m_server, m_thread, destroyed, configVars,
                   serverVars, loopVars, block, conn, histVars>>

(* HAS_RUNNING. *)
RunRefused(u) ==
    /\ At(u, "run")
    /\ m_status = "running"
    /\ Return(u)
    /\ UNCHANGED <<m_status, m_resps, m_server, m_thread, destroyed, configVars,
                   serverVars, loopVars, block, conn, histVars>>

(* A JServer left over by a run that could not bind or listen is used      *)
(* again, with the responders and the pool it was created with.            *)
RunReuse(u) ==
    /\ At(u, "run")
    /\ m_status = "stopped"
    /\ m_server
    /\ Goto(u, "bind")
    /\ UNCHANGED <<serviceVars, configVars, serverVars, loopVars, block, conn,
                   histVars>>

(* make_shared<JServer>(m_threadCnt): a new pool, no responders yet.       *)
RunCreate(u) ==
    /\ At(u, "run")
    /\ m_status = "stopped"
    /\ ~m_server
    /\ m_server' = TRUE
    /\ pool' = "open"
    /\ s_threads' = m_threadCnt
    /\ s_resps' = {}
    /\ Goto(u, "copy")
    /\ UNCHANGED <<m_status, m_mtx, m_resps, m_thread, destroyed, configVars,
                   listener, lport, loopVars, block, conn, histVars>>

(* The first thread of the pool cannot be created: the exception leaves    *)
(* run.  When a later one cannot, the vector of joinable threads is        *)
(* destroyed and the process terminates.                                   *)
RunCreateThrows(u) ==
    /\ At(u, "run")
    /\ m_status = "stopped"
    /\ ~m_server
    /\ Fail
    /\ Return(u)
    /\ crashed' \in IF m_threadCnt > 1 THEN {"no", "terminate"} ELSE {"no"}
    /\ UNCHANGED <<m_status, m_resps, m_server, m_thread, destroyed, configVars,
                   serverVars, loopVars, block, conn, launchFailed>>

(* for (auto resp : m_resps) m_server->resp_add(resp).                     *)
RunCopy(u) ==
    /\ At(u, "copy")
    /\ s_resps' = m_resps
    /\ Goto(u, "bind")
    /\ UNCHANGED <<serviceVars, configVars, s_threads, pool, listener, lport,
                   loopVars, block, conn, failures, crashed, launchFailed>>

(* JServer::bind replaces the listener by a new socket.                    *)
RunBind(u) ==
    /\ At(u, "bind")
    /\ listener' = "bound"
    /\ lport' = m_port % 65536
    /\ Goto(u, "listen")
    /\ UNCHANGED <<serviceVars, configVars, s_resps, s_threads, pool, loopVars,
                   block, conn, histVars>>

(* BIND_PORT_FAIL: m_server stays.                                         *)
BindRefused(u) ==
    /\ At(u, "bind")
    /\ listener' = "unbound"
    /\ lport' = 0
    /\ Return(u)
    /\ UNCHANGED <<m_status, m_resps, m_server, m_thread, destroyed, configVars,
                   s_resps, s_threads, pool, loopVars, block, conn, crashed,
                   launchFailed>>

RunBindFails(u) == Fail /\ BindRefused(u)

(* From here on clients can connect; status_t::running is set.             *)
RunListen(u) ==
    /\ At(u, "listen")
    /\ listener' = "listening"
    /\ m_status' = "running"
    /\ launchFailed' = FALSE
    /\ Goto(u, IF block[u] THEN "in_run" ELSE "launch")
    /\ IF block[u]
         THEN /\ apc' = "begin"
              /\ aby' = u
         ELSE UNCHANGED loopVars
    /\ UNCHANGED <<m_mtx, m_resps, m_server, m_thread, destroyed, configVars,
                   s_resps, s_threads, pool, lport, block, conn, failures,
                   crashed>>

(* LISTEN_PORT_FAIL: m_server and the bound socket stay.                   *)
RunListenFails(u) ==
    /\ At(u, "listen")
    /\ Fail
    /\ Return(u)
    /\ UNCHANGED <<m_status, m_resps, m_server, m_thread, destroyed, configVars,
                   serverVars, loopVars, block, conn, crashed, launchFailed>>

(* make_shared<std::thread>: the accept loop gets a thread of its own.     *)
RunLaunch(u) ==
    /\ At(u, "launch")
    /\ m_thread' = TRUE
    /\ apc' = "begin"
    /\ aby' = LoopThread
    /\ Return(u)
    /\ UNCHANGED <<m_status, m_resps, m_server, destroyed, configVars,
                   serverVars, block, conn, histVars>>

(* The constructor of the thread throws: m_status is running already.      *)
RunLaunchThrows(u) ==
    /\ At(u, "launch")
    /\ Fail
    /\ launchFailed' = TRUE
    /\ Return(u)
    /\ UNCHANGED <<m_status, m_resps, m_server, m_thread, destroyed, configVars,
                   serverVars, loopVars, block, conn, crashed>>

RunStep(u) ==
    \/ RunLock(u)
    \/ RunRefused(u)
    \/ RunReuse(u)
    \/ RunCreate(u)
    \/ RunCreateThrows(u)
    \/ RunCopy(u)
    \/ RunBind(u)
    \/ RunBindFails(u)
    \/ RunListen(u)
    \/ RunListenFails(u)
    \/ RunLaunch(u)
    \/ RunLaunchThrows(u)

-----------------------------------------------------------------------------
(* stop.                                                                   *)

StopBegin(u) ==
    /\ Idle(u)
    /\ Goto(u, "stop_lock")
    /\ UNCHANGED <<serviceVars, configVars, serverVars, loopVars, block, conn,
                   histVars>>

StopLock(u) ==
    /\ At(u, "stop_lock")
    /\ m_mtx = Nobody
    /\ m_mtx' = u
    /\ Goto(u, "stop_server")
    /\ UNCHANGED <<m_status, m_resps, m_server, m_thread, destroyed, configVars,
                   serverVars, loopVars, block, conn, histVars>>

(* JServer::stop closes the listener.  On Linux a thread blocked in accept *)
(* keeps the listening socket alive, and clients can still connect.        *)
StopServer(u) ==
    /\ At(u, "stop_server")
    /\ listener' = "none"
    /\ lport' = 0
    /\ conn' = IF apc = "blocked" /\ ~CloseWakesAccept THEN conn ELSE ResetOffered
    /\ Goto(u, "stop_join")
    /\ UNCHANGED <<serviceVars, configVars, s_resps, s_threads, pool, loopVars,
                   block, histVars>>

(* m_thread->join(), if there is a thread.                                 *)
StopJoin(u) ==
    /\ At(u, "stop_join")
    /\ m_thread => apc = "ended"
    /\ m_thread' = FALSE
    /\ apc' = IF m_thread THEN "none" ELSE apc
    /\ aby' = IF m_thread THEN Nobody ELSE aby
    /\ Goto(u, "stop_reset")
    /\ UNCHANGED <<m_status, m_mtx, m_resps, m_server, destroyed, configVars,
                   serverVars, block, conn, histVars>>

(* m_server.reset(): ~JServer destroys the pool first.                     *)
StopReset(u) ==
    /\ At(u, "stop_reset")
    /\ pool' = IF m_server THEN "draining" ELSE pool
    /\ Goto(u, "stop_drain")
    /\ UNCHANGED <<serviceVars, configVars, s_resps, s_threads, listener, lport,
                   loopVars, block, conn, histVars>>

(* The pool has joined its workers, the JServer is gone.                   *)
StopDrained(u) ==
    /\ At(u, "stop_drain")
    /\ InState("queued") \cup InState("serving") = {}
    /\ m_server' = FALSE
    /\ pool' = "none"
    /\ s_resps' = {}
    /\ s_threads' = 0
    /\ m_status' = "stopped"
    /\ Return(u)
    /\ UNCHANGED <<m_resps, m_thread, destroyed, configVars, listener, lport,
                   loopVars, block, conn, histVars>>

(* Once the mutex is taken. *)
StopStep(u) ==
    \/ StopServer(u)
    \/ StopJoin(u)
    \/ StopReset(u)
    \/ StopDrained(u)

(* JHttpdestroyService deletes through a base class without a virtual      *)
(* destructor: ~JService, which would call stop, is not run.  A user who   *)
(* destroys the service has no call in progress on it.                     *)
Destroy ==
    /\ crashed = "no"
    /\ ~destroyed
    /\ \A u \in Users : upc[u] = "idle"
    /\ destroyed' = TRUE
    /\ UNCHANGED <<m_status, m_mtx, m_resps, m_server, m_thread, configVars,
                   serverVars, loopVars, userVars, conn, histVars>>

-----------------------------------------------------------------------------
(* The accept loop, JServer::run.                                          *)

LoopBegin ==
    /\ LoopAt("begin")
    /\ apc' = "test"
    /\ UNCHANGED <<serviceVars, configVars, serverVars, aby, userVars, conn,
                   histVars>>

(* while (_tcpServer). *)
LoopTest ==
    /\ LoopAt("test")
    /\ listener # "none"
    /\ apc' = "call"
    /\ UNCHANGED <<serviceVars, configVars, serverVars, aby, userVars, conn,
                   histVars>>

(* The loop ends; in a blocking run the user returns (with FAIL).          *)
LoopEnd ==
    /\ LoopAt("test")
    /\ listener = "none"
    /\ apc' = "ended"
    /\ IF aby \in Users THEN Return(aby) ELSE UNCHANGED <<m_mtx, upc>>
    /\ UNCHANGED <<m_status, m_resps, m_server, m_thread, destroyed, configVars,
                   serverVars, aby, block, conn, histVars>>

(* _tcpServer->accept() reads _tcpServer a second time.                    *)
LoopCall ==
    /\ LoopAt("call")
    /\ IF listener = "none"
         THEN crashed' = "null" /\ UNCHANGED apc
         ELSE apc' = "entered" /\ UNCHANGED crashed
    /\ UNCHANGED <<serviceVars, configVars, serverVars, aby, userVars, conn,
                   failures, launchFailed>>

(* TcpListener::accept reads _status and _socket and calls ::accept.  If   *)
(* the object has been deleted meanwhile, the read may crash, the status   *)
(* may not be VALID, or ::accept is called with the number of the closed   *)
(* socket or with any other: no listening socket is left (NoStaleNumber    *)
(* and NothingLeaks of Descriptors), so it fails.                          *)
LoopEnter ==
    /\ LoopAt("entered")
    /\ \/ listener # "none" /\ apc' = "blocked" /\ UNCHANGED crashed
       \/ listener = "none" /\ apc' = "failed" /\ crashed' \in {"no", "freed"}
    /\ UNCHANGED <<serviceVars, configVars, serverVars, aby, userVars, conn,
                   failures, launchFailed>>

(* A connection is accepted.  If the listener has been closed meanwhile,   *)
(* the socket dies with this call and the backlog with it, and the local   *)
(* address is read from the deleted object.                                *)
LoopAccept(c) ==
    /\ LoopAt("blocked")
    /\ conn[c] = "offered"
    /\ apc' = "enqueue"
    /\ conn' = [(IF listener = "none" THEN ResetOffered ELSE conn)
                   EXCEPT ![c] = "accepted"]
    /\ crashed' \in IF listener = "none" THEN {"no", "freed"} ELSE {"no"}
    /\ UNCHANGED <<serviceVars, configVars, serverVars, aby, userVars, failures,
                   launchFailed>>

AcceptFailed ==
    /\ LoopAt("blocked")
    /\ apc' = "failed"
    /\ conn' = IF listener = "none" THEN ResetOffered ELSE conn
    /\ UNCHANGED <<serviceVars, configVars, serverVars, aby, userVars, crashed,
                   launchFailed>>

(* On the platforms where close wakes the thread that is blocked in accept *)
(* it always does; otherwise it may.                                       *)
LoopAcceptFails ==
    /\ IF listener = "none" /\ CloseWakesAccept THEN UNCHANGED failures ELSE Fail
    /\ AcceptFailed

LoopWoken == listener = "none" /\ CloseWakesAccept /\ LoopAcceptFails

(* sd > 0 takes descriptor 0 for a failure: the client is connected, and   *)
(* nobody in the program knows of it or will ever close the socket.        *)
AcceptLost(c) ==
    /\ LoopAt("blocked")
    /\ conn[c] = "offered"
    /\ apc' = "failed"
    /\ conn' = [(IF listener = "none" THEN ResetOffered ELSE conn)
                   EXCEPT ![c] = "lost"]
    /\ UNCHANGED <<serviceVars, configVars, serverVars, aby, userVars, crashed,
                   launchFailed>>

LoopAcceptLost(c) == Fail /\ AcceptLost(c)

(* No handle: sleep for a second and continue.                             *)
LoopSleep ==
    /\ LoopAt("failed")
    /\ apc' = "test"
    /\ UNCHANGED <<serviceVars, configVars, serverVars, aby, userVars, conn,
                   histVars>>

(* m_threadPool->enqueue throws on a stopped pool, and nobody catches.     *)
LoopEnqueue(c) ==
    /\ LoopAt("enqueue")
    /\ conn[c] = "accepted"
    /\ IF pool = "open"
         THEN /\ conn' = [conn EXCEPT ![c] = "queued"]
              /\ apc' = "test"
              /\ UNCHANGED crashed
         ELSE /\ crashed' = "enqueue"
              /\ UNCHANGED <<conn, apc>>
    /\ UNCHANGED <<serviceVars, configVars, serverVars, aby, userVars, failures,
                   launchFailed>>

LoopStep ==
    \/ LoopBegin
    \/ LoopTest
    \/ LoopEnd
    \/ LoopCall
    \/ LoopEnter
    \/ \E c \in Conns : LoopAccept(c) \/ LoopEnqueue(c)
    \/ LoopSleep

-----------------------------------------------------------------------------
(* Clients and workers.                                                    *)

(* The kernel completes connections while the listening socket exists.     *)
Connect(c) ==
    /\ crashed = "no"
    /\ conn[c] \in {"none", "closed", "reset", "lost"}
    /\ listener = "listening" \/ (apc = "blocked" /\ ~CloseWakesAccept)
    /\ conn' = [conn EXCEPT ![c] = "offered"]
    /\ UNCHANGED <<serviceVars, configVars, serverVars, loopVars, userVars,
                   histVars>>

(* A free worker starts HttpServerTask.                                    *)
ServeStart(c) ==
    /\ crashed = "no"
    /\ conn[c] = "queued"
    /\ pool \in {"open", "draining"}
    /\ Cardinality(InState("serving")) < s_threads
    /\ conn' = [conn EXCEPT ![c] = "serving"]
    /\ UNCHANGED <<serviceVars, configVars, serverVars, loopVars, userVars,
                   histVars>>

(* The client leaves, is silent for the receive timeout, or an error ends  *)
(* the task.                                                               *)
ServeEnd(c) ==
    /\ crashed = "no"
    /\ conn[c] = "serving"
    /\ conn' = [conn EXCEPT ![c] = "closed"]
    /\ UNCHANGED <<serviceVars, configVars, serverVars, loopVars, userVars,
                   histVars>>

-----------------------------------------------------------------------------

UserCall(u) ==
    \/ \E b \in BlockArgs : RunBegin(u, b)
    \/ StopBegin(u)
    \/ \E r \in Resps : AddResp(u, r) \/ DelResp(u, r)
    \/ SetRoot(u)
    \/ \E p \in PortArgs : SetPort(u, p)
    \/ \E n \in ThreadArgs : SetThreadCount(u, n)

(* The process is dead, or the service is destroyed and nothing of it runs. *)
Terminated ==
    /\ crashed # "no" \/ (destroyed /\ apc = "none")
    /\ UNCHANGED vars

Next ==
    \/ \E u \in Users : UserCall(u) \/ RunStep(u) \/ StopLock(u) \/ StopStep(u)
    \/ Destroy
    \/ LoopStep
    \/ LoopAcceptFails
    \/ \E c \in Conns : LoopAcceptLost(c)
    \/ \E c \in Conns : Connect(c) \/ ServeStart(c) \/ ServeEnd(c)
    \/ Terminated

(* Threads that can run do run; the backlog and the queue of the pool are  *)
(* first in, first out, so no client is passed over for ever.  Nobody has  *)
(* to call the API, no client has to connect, no system call has to fail.  *)
(* Clients leave in the end: the code alone does not see to that, since it *)
(* waits for every byte of a request for up to two minutes.                *)
Fairness ==
    /\ \A u \in Users : WF_vars(RunStep(u)) /\ WF_vars(StopStep(u))
    /\ WF_vars(LoopStep \/ LoopWoken)
    /\ \A c \in Conns :
          /\ SF_vars(LoopAccept(c))
          /\ SF_vars(ServeStart(c))
          /\ WF_vars(ServeEnd(c))

Spec == Init /\ [][Next]_vars /\ Fairness

-----------------------------------------------------------------------------
(* Invariants.                                                             *)

LoopStates == {"none", "begin", "test", "call", "entered", "blocked", "failed",
               "enqueue", "ended"}
UserStates == {"idle", "run_lock", "run", "copy", "bind", "listen", "launch",
               "in_run", "stop_lock", "stop_server", "stop_join", "stop_reset",
               "stop_drain"}
ConnStates == {"none", "offered", "accepted", "queued", "serving", "closed",
               "reset", "lost"}
PortNumbers == {p \in Nat : p < 65536}

(* Every variable has its type; a port set by setPort fits in 16 bits and  *)
(* is not 0, only the constructor's argument is taken as it comes.         *)
TypeOK ==
    /\ m_status \in {"stopped", "running"}
    /\ m_mtx \in Users \cup {Nobody}
    /\ m_resps \subseteq Resps
    /\ m_server \in BOOLEAN
    /\ m_thread \in BOOLEAN
    /\ m_port \in (PortNumbers \ {0}) \cup {InitPort}
    /\ m_threadCnt \in Nat \ {0}
    /\ destroyed \in BOOLEAN
    /\ s_resps \subseteq Resps
    /\ s_threads \in Nat
    /\ pool \in {"none", "open", "draining"}
    /\ listener \in {"none", "unbound", "bound", "listening"}
    /\ lport \in PortNumbers
    /\ apc \in LoopStates
    /\ aby \in Users \cup {LoopThread, Nobody}
    /\ upc \in [Users -> UserStates]
    /\ block \in [Users -> BOOLEAN]
    /\ conn \in [Conns -> ConnStates]
    /\ failures \in 0..MaxFailures
    /\ crashed \in {"no", "null", "freed", "enqueue", "terminate", "resps", "root"}
    /\ launchFailed \in BOOLEAN

Looping == apc \notin {"none", "ended"}

(* While nobody is inside run or stop, m_status tells whether there is a   *)
(* server at work: if it says running, the listener listens, the pool is   *)
(* open and the accept loop runs (unless its thread could not be created,  *)
(* when status_t::running has been set in vain).                           *)
RunningMeansServing ==
    m_mtx = Nobody /\ m_status = "running" =>
        /\ m_server
        /\ pool = "open"
        /\ listener = "listening"
        /\ Looping \/ launchFailed

(* ... and if it says stopped, no accept loop is left, no connection is    *)
(* still waiting, queued or being served, and the port is closed.  Only a  *)
(* client that got descriptor 0 is still connected.                        *)
StoppedMeansGone ==
    m_mtx = Nobody /\ m_status = "stopped" =>
        /\ apc = "none"
        /\ ~m_thread
        /\ listener # "listening"
        /\ \A c \in Conns : conn[c] \in {"none", "closed", "reset", "lost"}

(* Threads that hold a plain pointer to the JServer never see it destroyed *)
(* or its pool stopped: the accept loop has ended before the pool drains,  *)
(* the tasks have ended before the members they use are destroyed.         *)
NobodyOutlivesServer ==
    /\ Looping => m_server /\ pool = "open"
    /\ InState("queued") \cup InState("serving") # {} =>
           m_server /\ pool \in {"open", "draining"}

(* A blocking run keeps m_mtx until its loop ends, and only stop, which    *)
(* needs m_mtx, could end it: no other thread can stop a blocking run.     *)
BlockingRunIsNeverStopped ==
    aby \in Users => /\ m_mtx = aby
                     /\ upc[aby] = "in_run"
                     /\ listener = "listening"
                     /\ Looping

(* What the accept loop and the tasks read from the JServer without a      *)
(* lock, m_resps and _webRootPath, is written only while there is neither  *)
(* a loop nor a connection in the pool: however runs fail and are          *)
(* repeated, stops interleave with them and responders are added and       *)
(* deleted, nobody iterates over the one or copies the other meanwhile.    *)
(* (That a responder deleted since is still in s_resps is the price.)      *)
ConfigStableWhileServing ==
    [][ s_resps' # s_resps \/ (\E u \in Users : upc[u] = "bind" /\ upc'[u] # "bind")
        => /\ ~Looping
           /\ \A c \in Conns : conn[c] \notin {"accepted", "queued", "serving"}
      ]_vars

(* When the process dies in the service, this is where its threads are.    *)
(*   - null, freed: the accept loop uses the listener that a stop has just *)
(*     deleted.  It takes one user only, who calls run(false) and stop, but *)
(*     that stop always holds m_mtx and waits to join the loop; the loop   *)
(*     of a blocking run never dies this way.                              *)
(*   - terminate: a pool cannot be created; nothing else of the service is *)
(*     at work then.                                                       *)
(*   - resps, root: addResp, delResp or setRoot of one user meets the run  *)
(*     of another.                                                         *)
(* enqueue never throws in the loop.  What SIGPIPE does is in              *)
(* HttpConnection, and what is left of a service that is destroyed while   *)
(* it runs is not modelled.                                                *)
DeathsExplained ==
    /\ crashed # "enqueue"
    /\ crashed \in {"null", "freed"} =>
           /\ aby = LoopThread
           /\ listener = "none"
           /\ \E u \in Users : m_mtx = u /\ upc[u] = "stop_join"
    /\ crashed = "terminate" => ~m_server /\ apc = "none"
    /\ crashed = "resps" =>
           \E u, v \in Users : u # v /\ upc[u] = "copy" /\ upc[v] = "idle"
    /\ crashed = "root" =>
           \E u, v \in Users : u # v /\ upc[u] \in {"bind", "listen"} /\ upc[v] = "idle"

-----------------------------------------------------------------------------
(* What a client sees: the service is a reception desk.  The desk is open  *)
(* while the listener listens; the pool tells whether there is one at all. *)

Desk ==
    CASE pool = "none" -> "none"
      [] pool = "draining" -> "closing"
      [] pool = "open" /\ listener = "listening" -> "open"
      [] OTHER -> "shut"

Guest(c) ==
    CASE conn[c] = "offered" -> "waiting"
      [] conn[c] \in {"accepted", "queued"} -> "admitted"
      [] conn[c] = "serving" -> "served"
      [] OTHER -> "away"

Reception == INSTANCE Reception WITH
    Guests <- Conns,
    desk   <- Desk,
    guest  <- [c \in Conns |-> Guest(c)]

(* No client is turned away while the server is open, none that was        *)
(* accepted is dropped, however stop comes in between, and the server is   *)
(* gone only when all of them have been served.                            *)
ImplementsReception == Reception!Spec

-----------------------------------------------------------------------------
(* Temporal properties.                                                    *)

(* A stop that has got the mutex returns, given that clients leave in the  *)
(* end: the join in ~ThreadPool waits for the connections of its workers.  *)
StopReturns ==
    \A u \in Users :
        upc[u] = "stop_server" ~> upc[u] = "idle" \/ crashed # "no"

(* A client in the backlog is served, or refused because the server stops, *)
(* however accept fails in between and however few the workers are, unless *)
(* it is given descriptor 0.  The workers come free because, as assumed,   *)
(* every client leaves in the end.                                         *)
ClientAnswered ==
    \A c \in Conns :
        conn[c] = "offered" ~> \/ conn[c] \in {"serving", "reset"}
                              \/ launchFailed
                              \/ conn[c] = "lost"
                              \/ crashed # "no"

=============================================================================
