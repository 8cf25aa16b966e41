---------------------------- MODULE ServiceProofs ----------------------------
(***************************************************************************)
(* Theorems about Service, for any number of users, clients and            *)
(* responders, on both kinds of platforms, and then, from the same         *)
(* invariant, about Descriptors.                                           *)
(*                                                                         *)
(* The argument: m_mtx makes run and stop follow one another, so at any    *)
(* time one user at most is inside of one of them, at the place Pos.  What *)
(* the service, the listener, the pool and the accept loop are like is a   *)
(* function of that place and of m_status, and only two things change      *)
(* beside it: the loop, which can end only after stop has reset the        *)
(* listener, and the connections, which exist only between the listen of a *)
(* run and the drained pool of a stop.  The safety properties follow from  *)
(* this invariant, and with it every step of the service is a step of      *)
(* Reception or leaves its desk and its guests alone.                      *)
(***************************************************************************)
EXTENDS Descriptors, WellFoundedInduction, TLAPS

(* Between the lock_guard of run or stop and its destruction.              *)
Inside == UserStates \ {"idle", "run_lock", "stop_lock"}

Stopping == {"stop_join", "stop_reset", "stop_drain"}

(* Where the user that holds m_mtx is. *)
Pos == IF m_mtx = Nobody THEN "free" ELSE upc[m_mtx]

(* One user at a time is inside run or stop: the one that holds m_mtx.     *)
Mutex == \A u \in Users : upc[u] \in Inside <=> m_mtx = u

Gone(c) == conn[c] \in {"none", "closed", "reset", "lost"}

(* While m_status says stopped, there is nothing but, perhaps, the JServer *)
(* of a run that could not bind or listen.                                 *)
StoppedInv ==
    m_status = "stopped" =>
        /\ apc = "none"
        /\ listener # "listening"
        /\ \A c \in Conns : Gone(c)

(* While it says running, the listener listens until stop has reset it,    *)
(* and the loop runs unless it is about to or could not be started.        *)
RunningInv ==
    m_status = "running" =>
        /\ m_server
        /\ Pos \notin Stopping => listener = "listening"
        /\ Pos \notin Stopping \cup {"launch"} => Looping \/ (launchFailed /\ apc = "none")

(* Where run and stop are, and what they have done so far.                 *)
PlaceInv ==
    /\ Pos \in {"copy", "bind", "listen"} => m_status = "stopped" /\ m_server
    /\ Pos \in {"launch", "in_run"} => m_status = "running"
    /\ Pos \in {"launch", "stop_reset", "stop_drain"} => apc = "none"
    /\ Pos \in Stopping => listener = "none"

(* The pool is there as long as the JServer is, open until ~JServer.       *)
PoolInv ==
    /\ ~m_server => pool = "none"
    /\ m_server /\ Pos # "stop_drain" => pool = "open"
    /\ m_server /\ Pos = "stop_drain" => pool = "draining"

(* The thread of the accept loop.                                          *)
LoopInv ==
    /\ aby = Nobody <=> apc = "none"
    /\ m_thread <=> aby = LoopThread
    /\ aby \in Users => Pos = "in_run" /\ m_mtx = aby
    /\ Pos = "in_run" => aby = m_mtx
    /\ apc = "ended" => Pos = "stop_join"

(* Connections: in the backlog while there is a socket, between ::accept   *)
(* and enqueue only in the hands of the loop.                              *)
ConnInv ==
    \A c \in Conns :
        /\ conn[c] = "offered" =>
              listener = "listening" \/ (apc = "blocked" /\ ~CloseWakesAccept)
        /\ conn[c] = "accepted" =>
              /\ apc = "enqueue"
              /\ \A d \in Conns : conn[d] = "accepted" => d = c

(* What holds at each place of run and stop. *)
Core ==
    /\ StoppedInv
    /\ RunningInv
    /\ PlaceInv
    /\ PoolInv
    /\ LoopInv
    /\ ConnInv

Inv ==
    /\ TypeOK
    /\ Mutex
    /\ Core
    /\ DeathsExplained

(* A step, whether or not a system call that fails in it is counted:       *)
(* Descriptors has calls that fail for want of a number.                   *)
Step ==
    \/ Next
    \/ /\ UNCHANGED failures
       /\ \/ \E u \in Users : BindRefused(u)
          \/ AcceptFailed
          \/ \E c \in Conns : AcceptLost(c)

-----------------------------------------------------------------------------
(* Types.                                                                  *)

(* A port that is cast to uint16_t is a port number.                       *)
LEMMA PortFits ==
  /\ 0 \in PortNumbers
  /\ \A p \in Nat : p % 65536 \in PortNumbers
  /\ \A p \in PortNumbers \cup {InitPort} : p \in Nat
<1>1. 0 \in PortNumbers
  BY DEF PortNumbers
<1>2. ASSUME NEW p \in Nat PROVE p % 65536 \in PortNumbers
  BY DEF PortNumbers
<1>3. ASSUME NEW p \in PortNumbers \cup {InitPort} PROVE p \in Nat
  BY <1>3, ServiceAssumption DEF PortNumbers
<1> QED
  BY <1>1, <1>2, <1>3

LEMMA TypeInit == Init => TypeOK
<1> SUFFICES ASSUME Init PROVE TypeOK
  OBVIOUS
<1> USE ServiceAssumption DEF Init
<1>1. m_port \in (PortNumbers \ {0}) \cup {InitPort} /\ lport \in PortNumbers
  BY PortFits
<1>2. /\ upc \in [Users -> UserStates]
      /\ block \in [Users -> BOOLEAN]
      /\ conn \in [Conns -> ConnStates]
      /\ apc \in LoopStates
  BY DEF UserStates, ConnStates, LoopStates
<1>3. failures \in 0..MaxFailures /\ m_threadCnt \in Nat \ {0} /\ s_threads \in Nat
  OBVIOUS
<1> QED
  BY <1>1, <1>2, <1>3 DEF TypeOK

LEMMA SettersType ==
  ASSUME TypeOK, NEW u \in Users,
         \/ \E r \in Resps : AddResp(u, r) \/ DelResp(u, r)
         \/ SetRoot(u)
         \/ \E p \in PortArgs : SetPort(u, p)
         \/ \E n \in ThreadArgs : SetThreadCount(u, n)
  PROVE  TypeOK'
<1> USE ServiceAssumption
        DEF TypeOK, serviceVars, serverVars, configVars, loopVars, userVars, histVars
<1>1. ASSUME NEW r \in Resps, AddResp(u, r) PROVE TypeOK'
  BY <1>1 DEF AddResp, ChangeResps
<1>2. ASSUME NEW r \in Resps, DelResp(u, r) PROVE TypeOK'
  BY <1>2 DEF DelResp, ChangeResps
<1>3. CASE SetRoot(u)
  BY <1>3 DEF SetRoot
<1>4. ASSUME NEW p \in PortArgs, SetPort(u, p) PROVE TypeOK'
  BY <1>4, PortFits DEF SetPort
<1>5. ASSUME NEW n \in ThreadArgs, SetThreadCount(u, n) PROVE TypeOK'
  BY <1>5 DEF SetThreadCount
<1> QED
  BY <1>1, <1>2, <1>3, <1>4, <1>5

LEMMA RunType ==
  ASSUME TypeOK, NEW u \in Users,
         \/ RunStep(u)
         \/ \E b \in BlockArgs : RunBegin(u, b)
         \/ BindRefused(u) /\ UNCHANGED failures
  PROVE  TypeOK'
<1> USE ServiceAssumption
        DEF TypeOK, serviceVars, serverVars, configVars, loopVars, userVars, histVars,
            UserStates, Return, Goto, LoopStates
<1>1. ASSUME NEW b \in BlockArgs, RunBegin(u, b) PROVE TypeOK'
  BY <1>1 DEF RunBegin
<1>2. CASE RunLock(u)
  BY <1>2 DEF RunLock
<1>3. CASE RunRefused(u)
  BY <1>3 DEF RunRefused
<1>4. CASE RunReuse(u)
  BY <1>4 DEF RunReuse
<1>5. CASE RunCreate(u)
  BY <1>5 DEF RunCreate
<1>6. CASE RunCreateThrows(u)
  BY <1>6 DEF RunCreateThrows, Fail
<1>7. CASE RunCopy(u)
  BY <1>7 DEF RunCopy
<1>8. CASE RunBind(u)
  <2>1. m_port % 65536 \in PortNumbers
    BY PortFits
  <2> QED
    BY <1>8, <2>1 DEF RunBind
<1>9. CASE RunBindFails(u)
  BY <1>9, PortFits DEF RunBindFails, BindRefused, Fail
<1>14. CASE BindRefused(u) /\ UNCHANGED failures
  BY <1>14, PortFits DEF BindRefused
<1>10. CASE RunListen(u)
  <2>1. /\ apc' \in LoopStates
        /\ aby' \in Users \cup {LoopThread, Nobody}
        /\ upc' \in [Users -> UserStates]
    BY <1>10 DEF RunListen
  <2>2. launchFailed' \in BOOLEAN
    BY <1>10, Zenon DEF RunListen
  <2>3. /\ listener' = "listening"
        /\ m_status' = "running"
        /\ UNCHANGED <<m_mtx, m_resps, m_server, m_thread, destroyed, configVars,
                       s_resps, s_threads, pool, lport, block, conn, failures, crashed>>
    BY <1>10 DEF RunListen
  <2> QED
    BY <2>1, <2>2, <2>3
<1>11. CASE RunListenFails(u)
  BY <1>11 DEF RunListenFails, Fail
<1>12. CASE RunLaunch(u)
  BY <1>12 DEF RunLaunch
<1>13. CASE RunLaunchThrows(u)
  BY <1>13 DEF RunLaunchThrows, Fail
<1> QED
  BY <1>1, <1>2, <1>3, <1>4, <1>5, <1>6, <1>7, <1>8, <1>9, <1>10, <1>11, <1>12,
     <1>13, <1>14 DEF RunStep

LEMMA StopType ==
  ASSUME TypeOK, NEW u \in Users, StopStep(u) \/ StopLock(u) \/ StopBegin(u) \/ Destroy
  PROVE  TypeOK'
<1> USE ServiceAssumption
        DEF TypeOK, serviceVars, serverVars, configVars, loopVars, userVars, histVars,
            UserStates, Return, Goto, LoopStates
<1>1. CASE StopBegin(u)
  BY <1>1 DEF StopBegin
<1>2. CASE StopLock(u)
  BY <1>2 DEF StopLock
<1>3. CASE StopServer(u)
  BY <1>3, PortFits DEF StopServer, ResetOffered, ConnStates
<1>4. CASE StopJoin(u)
  <2>1. m_thread' \in BOOLEAN
    BY <1>4, Zenon DEF StopJoin
  <2>2. apc' \in LoopStates /\ aby' \in Users \cup {LoopThread, Nobody}
    BY <1>4 DEF StopJoin
  <2>3. upc' \in [Users -> UserStates]
    BY <1>4 DEF StopJoin
  <2>4. UNCHANGED <<m_status, m_mtx, m_resps, m_server, destroyed, configVars,
                    serverVars, block, conn, histVars>>
    BY <1>4 DEF StopJoin
  <2> QED
    BY <2>1, <2>2, <2>3, <2>4
<1>5. CASE StopReset(u)
  BY <1>5 DEF StopReset
<1>6. CASE StopDrained(u)
  <2>1. m_server' \in BOOLEAN
    BY <1>6, Zenon DEF StopDrained
  <2>2. upc' \in [Users -> UserStates]
    BY <1>6 DEF StopDrained
  <2>3. /\ s_threads' = 0 /\ s_resps' = {} /\ pool' = "none"
        /\ m_status' = "stopped" /\ m_mtx' = Nobody
    BY <1>6 DEF StopDrained
  <2>4. UNCHANGED <<m_resps, m_thread, destroyed, configVars, listener, lport,
                    loopVars, block, conn, histVars>>
    BY <1>6 DEF StopDrained
  <2> QED
    BY <2>1, <2>2, <2>3, <2>4
<1>7. CASE Destroy
  BY <1>7 DEF Destroy
<1> QED
  BY <1>1, <1>2, <1>3, <1>4, <1>5, <1>6, <1>7 DEF StopStep

LEMMA LoopType ==
  ASSUME TypeOK,
         \/ LoopStep
         \/ LoopAcceptFails
         \/ \E c \in Conns : LoopAcceptLost(c)
         \/ UNCHANGED failures /\ (AcceptFailed \/ \E c \in Conns : AcceptLost(c))
         \/ \E c \in Conns : Connect(c) \/ ServeStart(c) \/ ServeEnd(c)
  PROVE  TypeOK'
<1> USE ServiceAssumption
        DEF TypeOK, serviceVars, serverVars, configVars, loopVars, userVars, histVars,
            UserStates, Return, LoopStates, ConnStates, ResetOffered
<1>1. CASE LoopBegin
  BY <1>1 DEF LoopBegin
<1>2. CASE LoopTest
  BY <1>2 DEF LoopTest
<1>3. CASE LoopEnd
  BY <1>3 DEF LoopEnd
<1>4. CASE LoopCall
  BY <1>4 DEF LoopCall
<1>5. CASE LoopEnter
  BY <1>5 DEF LoopEnter
<1>6. ASSUME NEW c \in Conns, LoopAccept(c) PROVE TypeOK'
  BY <1>6 DEF LoopAccept
<1>7. CASE LoopAcceptFails
  BY <1>7 DEF LoopAcceptFails, AcceptFailed, Fail
<1>8. ASSUME NEW c \in Conns, LoopAcceptLost(c) PROVE TypeOK'
  BY <1>8 DEF LoopAcceptLost, AcceptLost, Fail
<1>9. CASE LoopSleep
  BY <1>9 DEF LoopSleep
<1>10. ASSUME NEW c \in Conns, LoopEnqueue(c) PROVE TypeOK'
  BY <1>10 DEF LoopEnqueue
<1>11. ASSUME NEW c \in Conns, Connect(c) \/ ServeStart(c) \/ ServeEnd(c) PROVE TypeOK'
  BY <1>11 DEF Connect, ServeStart, ServeEnd
<1>12. CASE UNCHANGED failures /\ AcceptFailed
  BY <1>12 DEF AcceptFailed
<1>13. ASSUME NEW c \in Conns, UNCHANGED failures, AcceptLost(c) PROVE TypeOK'
  BY <1>13 DEF AcceptLost
<1> QED
  BY <1>1, <1>2, <1>3, <1>4, <1>5, <1>6, <1>7, <1>8, <1>9, <1>10, <1>11, <1>12, <1>13
     DEF LoopStep

LEMMA TypeNext == TypeOK /\ [Step]_vars => TypeOK'
<1> SUFFICES ASSUME TypeOK, [Step]_vars PROVE TypeOK'
  OBVIOUS
<1>1. CASE UNCHANGED vars
  BY <1>1 DEF TypeOK, vars, serviceVars, serverVars, configVars, loopVars, userVars,
              histVars
<1>2. CASE Next
  <2>1. ASSUME NEW u \in Users, UserCall(u) PROVE TypeOK'
    BY <2>1, SettersType, RunType, StopType DEF UserCall
  <2>2. ASSUME NEW u \in Users, RunStep(u) \/ StopLock(u) \/ StopStep(u) PROVE TypeOK'
    BY <2>2, RunType, StopType
  <2>3. CASE Destroy
    BY <2>3 DEF Destroy, TypeOK, serviceVars, configVars, serverVars, loopVars,
                userVars, histVars
  <2>4. CASE Terminated
    BY <1>1, <2>4 DEF Terminated
  <2> QED
    BY <1>2, <2>1, <2>2, <2>3, <2>4, LoopType DEF Next
<1>3. ASSUME NEW u \in Users, BindRefused(u), UNCHANGED failures PROVE TypeOK'
  BY <1>3, RunType
<1> QED
  BY <1>1, <1>2, <1>3, LoopType DEF Step

(* Every variable keeps its type; in particular the port a listener is     *)
(* bound to and the ports that setPort stores fit in 16 bits.              *)
THEOREM TypeCorrect == Spec => []TypeOK
<1>1. TypeOK /\ [Next]_vars => TypeOK'
  BY TypeNext DEF Step
<1> QED
  BY <1>1, TypeInit, PTL DEF Spec

-----------------------------------------------------------------------------
(* The place.                                                              *)

LEMMA PosMoves ==
  ASSUME TypeOK, Mutex, NEW u \in Users, NEW s \in Inside, upc[u] \in Inside,
         m_mtx' = m_mtx, Goto(u, s)
  PROVE  Mutex' /\ m_mtx = u /\ Pos = upc[u] /\ Pos' = s
  BY ServiceAssumption DEF TypeOK, Mutex, Pos, Goto, Inside

LEMMA PosReturns ==
  ASSUME TypeOK, Mutex, NEW u \in Users, upc[u] \in Inside, Return(u)
  PROVE  Mutex' /\ m_mtx = u /\ Pos = upc[u] /\ Pos' = "free"
  BY ServiceAssumption DEF TypeOK, Mutex, Pos, Return, Inside

LEMMA PosLocks ==
  ASSUME TypeOK, Mutex, NEW u \in Users, NEW s \in Inside, m_mtx = Nobody, m_mtx' = u,
         Goto(u, s)
  PROVE  Mutex' /\ Pos = "free" /\ Pos' = s
  BY ServiceAssumption DEF TypeOK, Mutex, Pos, Goto, Inside

LEMMA PosCalls ==
  ASSUME TypeOK, Mutex, NEW u \in Users, NEW s \in UserStates \ Inside,
         upc[u] \notin Inside, m_mtx' = m_mtx, Goto(u, s)
  PROVE  Mutex' /\ Pos' = Pos
  BY ServiceAssumption DEF TypeOK, Mutex, Pos, Goto, Inside

LEMMA PosStays ==
  ASSUME Mutex, m_mtx' = m_mtx, upc' = upc
  PROVE  Mutex' /\ Pos' = Pos
  BY DEF Mutex, Pos

(* The calls that do not have the mutex touch neither the JServer nor the  *)
(* loop.                                                                   *)
LEMMA CallsLeaveAlone ==
  ASSUME TypeOK, Mutex, NEW u \in Users, UserCall(u)
  PROVE  UNCHANGED <<m_server, s_resps, listener, apc, conn>> /\ Pos' = Pos
<1> USE DEF serviceVars, serverVars, loopVars, userVars
<1>1. CASE (\E b \in BlockArgs : RunBegin(u, b)) \/ StopBegin(u)
  <2>1. upc[u] \notin Inside /\ {"run_lock", "stop_lock"} \subseteq UserStates \ Inside
    BY <1>1 DEF RunBegin, StopBegin, Idle, At, Inside, UserStates
  <2>2. PICK s \in {"run_lock", "stop_lock"} :
            /\ Goto(u, s) /\ m_mtx' = m_mtx
            /\ UNCHANGED <<m_server, s_resps, listener, apc, conn>>
    BY <1>1 DEF RunBegin, StopBegin
  <2> QED
    BY <2>1, <2>2, PosCalls
<1>2. ASSUME UNCHANGED <<m_server, s_resps, listener, apc, conn, m_mtx, upc>>
      PROVE  UNCHANGED <<m_server, s_resps, listener, apc, conn>> /\ Pos' = Pos
  BY <1>2, PosStays
<1>3. ASSUME NEW r \in Resps, AddResp(u, r) \/ DelResp(u, r)
      PROVE  UNCHANGED <<m_server, s_resps, listener, apc, conn, m_mtx, upc>>
  BY <1>3 DEF AddResp, DelResp
<1>4. CASE SetRoot(u)
  BY <1>2, <1>4 DEF SetRoot
<1>5. ASSUME NEW p \in PortArgs, SetPort(u, p)
      PROVE  UNCHANGED <<m_server, s_resps, listener, apc, conn, m_mtx, upc>>
  BY <1>5 DEF SetPort
<1>6. ASSUME NEW n \in ThreadArgs, SetThreadCount(u, n)
      PROVE  UNCHANGED <<m_server, s_resps, listener, apc, conn, m_mtx, upc>>
  BY <1>6 DEF SetThreadCount
<1> QED
  BY <1>1, <1>2, <1>3, <1>4, <1>5, <1>6 DEF UserCall

-----------------------------------------------------------------------------
(* run.                                                                    *)

LEMMA RunKeeps ==
  ASSUME Inv, NEW u \in Users, RunStep(u) \/ BindRefused(u)
  PROVE  Mutex' /\ Core'
<1> USE ServiceAssumption
        DEF Core, StoppedInv, RunningInv, PlaceInv, PoolInv, LoopInv, ConnInv, Gone,
            Looping, Stopping, At, serviceVars, configVars, serverVars, loopVars, histVars
<1> SUFFICES ASSUME TypeOK, Mutex, Core PROVE Mutex' /\ Core'
  BY DEF Inv
<1>0. /\ m_status \in {"stopped", "running"}
      /\ m_server \in BOOLEAN
      /\ m_thread \in BOOLEAN
      /\ block \in [Users -> BOOLEAN]
      /\ {"run", "copy", "bind", "listen", "launch", "in_run"} \subseteq Inside
  BY DEF TypeOK, Inside, UserStates
<1>1. CASE RunLock(u)
  <2>1. Mutex' /\ Pos = "free" /\ Pos' = "run"
    BY <1>0, <1>1, PosLocks DEF RunLock
  <2> QED
    BY <1>0, <1>1, <2>1 DEF RunLock
<1>2. CASE RunRefused(u)
  <2>1. Mutex' /\ Pos = "run" /\ Pos' = "free"
    BY <1>0, <1>2, PosReturns DEF RunRefused
  <2> QED
    BY <1>0, <1>2, <2>1 DEF RunRefused, Return
<1>3. CASE RunReuse(u)
  <2>1. Mutex' /\ Pos = "run" /\ Pos' = "bind"
    BY <1>0, <1>3, PosMoves DEF RunReuse
  <2> QED
    BY <1>0, <1>3, <2>1 DEF RunReuse
<1>4. CASE RunCreate(u)
  <2>1. Mutex' /\ Pos = "run" /\ Pos' = "copy"
    BY <1>0, <1>4, PosMoves DEF RunCreate
  <2> QED
    BY <1>0, <1>4, <2>1 DEF RunCreate
<1>5. CASE RunCreateThrows(u)
  <2>1. Mutex' /\ Pos = "run" /\ Pos' = "free"
    BY <1>0, <1>5, PosReturns DEF RunCreateThrows
  <2> QED
    BY <1>0, <1>5, <2>1 DEF RunCreateThrows, Return
<1>6. CASE RunCopy(u)
  <2>1. Mutex' /\ Pos = "copy" /\ Pos' = "bind"
    BY <1>0, <1>6, PosMoves DEF RunCopy
  <2> QED
    BY <1>0, <1>6, <2>1 DEF RunCopy
<1>7. CASE RunBind(u)
  <2>1. Mutex' /\ Pos = "bind" /\ Pos' = "listen"
    BY <1>0, <1>7, PosMoves DEF RunBind
  <2> QED
    BY <1>0, <1>7, <2>1 DEF RunBind
<1>8. CASE BindRefused(u)
  <2>1. Mutex' /\ Pos = "bind" /\ Pos' = "free"
    BY <1>0, <1>8, PosReturns DEF BindRefused
  <2> QED
    BY <1>0, <1>8, <2>1 DEF BindRefused, Return
<1>9. CASE RunListen(u)
  <2>1. CASE block[u]
    <3>1. Mutex' /\ Pos = "listen" /\ Pos' = "in_run" /\ m_mtx = u
      BY <1>0, <1>9, <2>1, PosMoves DEF RunListen
    <3> QED
      BY <1>0, <1>9, <2>1, <3>1 DEF RunListen
  <2>2. CASE ~block[u]
    <3>1. Mutex' /\ Pos = "listen" /\ Pos' = "launch"
      BY <1>0, <1>9, <2>2, PosMoves DEF RunListen
    <3> QED
      BY <1>0, <1>9, <2>2, <3>1 DEF RunListen
  <2> QED
    BY <2>1, <2>2
<1>10. CASE RunListenFails(u)
  <2>1. Mutex' /\ Pos = "listen" /\ Pos' = "free"
    BY <1>0, <1>10, PosReturns DEF RunListenFails
  <2> QED
    BY <1>0, <1>10, <2>1 DEF RunListenFails, Return
<1>11. CASE RunLaunch(u)
  <2>1. Mutex' /\ Pos = "launch" /\ Pos' = "free"
    BY <1>0, <1>11, PosReturns DEF RunLaunch
  <2> QED
    BY <1>0, <1>11, <2>1 DEF RunLaunch, Return
<1>12. CASE RunLaunchThrows(u)
  <2>1. Mutex' /\ Pos = "launch" /\ Pos' = "free"
    BY <1>0, <1>12, PosReturns DEF RunLaunchThrows
  <2> QED
    BY <1>0, <1>12, <2>1 DEF RunLaunchThrows, Return
<1> QED
  BY <1>1, <1>2, <1>3, <1>4, <1>5, <1>6, <1>7, <1>8, <1>9, <1>10, <1>11, <1>12
     DEF RunStep, RunBindFails

-----------------------------------------------------------------------------
(* stop.                                                                   *)

LEMMA StopKeeps ==
  ASSUME Inv, NEW u \in Users, StopLock(u) \/ StopStep(u)
  PROVE  Mutex' /\ Core'
<1> USE ServiceAssumption
        DEF Core, StoppedInv, RunningInv, PlaceInv, PoolInv, LoopInv, ConnInv, Gone,
            Looping, Stopping, At, serviceVars, configVars, serverVars, loopVars, histVars
<1> SUFFICES ASSUME TypeOK, Mutex, Core PROVE Mutex' /\ Core'
  BY DEF Inv
<1>0. /\ m_status \in {"stopped", "running"}
      /\ m_server \in BOOLEAN
      /\ m_thread \in BOOLEAN
      /\ conn \in [Conns -> ConnStates]
      /\ aby \in Users \cup {LoopThread, Nobody}
      /\ Stopping \cup {"stop_server"} \subseteq Inside
  BY DEF TypeOK, Inside, UserStates
<1>1. CASE StopLock(u)
  <2>1. Mutex' /\ Pos = "free" /\ Pos' = "stop_server"
    BY <1>0, <1>1, PosLocks DEF StopLock
  <2> QED
    BY <1>0, <1>1, <2>1 DEF StopLock
<1>2. CASE StopServer(u)
  <2>1. Mutex' /\ Pos = "stop_server" /\ Pos' = "stop_join"
    BY <1>0, <1>2, PosMoves DEF StopServer
  <2>2. ConnInv'
    BY <1>0, <1>2 DEF StopServer, ResetOffered, ConnStates
  <2>3. \A c \in Conns : Gone(c) => Gone(c)'
    BY <1>0, <1>2 DEF StopServer, ResetOffered, ConnStates
  <2> QED
    BY <1>0, <1>2, <2>1, <2>2, <2>3 DEF StopServer
<1>3. CASE StopJoin(u)
  <2>1. Mutex' /\ Pos = "stop_join" /\ Pos' = "stop_reset"
    BY <1>0, <1>3, PosMoves DEF StopJoin
  <2>2. apc' = "none" /\ aby' = Nobody
    <3>1. CASE m_thread
      BY <1>3, <3>1 DEF StopJoin
    <3>2. CASE ~m_thread
      <4>1. aby = Nobody
        BY <1>0, <2>1, <3>2
      <4> QED
        BY <1>3, <3>2, <4>1 DEF StopJoin
    <3> QED
      BY <3>1, <3>2
  <2> QED
    BY <1>0, <1>3, <2>1, <2>2 DEF StopJoin
<1>4. CASE StopReset(u)
  <2>1. Mutex' /\ Pos = "stop_reset" /\ Pos' = "stop_drain"
    BY <1>0, <1>4, PosMoves DEF StopReset
  <2>2. PoolInv'
    BY <1>0, <1>4, <2>1 DEF StopReset
  <2> QED
    BY <1>0, <1>4, <2>1, <2>2 DEF StopReset
<1>5. CASE StopDrained(u)
  <2>1. Mutex' /\ Pos = "stop_drain" /\ Pos' = "free"
    BY <1>0, <1>5, PosReturns DEF StopDrained
  <2>2. \A c \in Conns : Gone(c)
    <3> SUFFICES ASSUME NEW c \in Conns PROVE Gone(c)
      OBVIOUS
    <3>1. conn[c] \notin {"queued", "serving"}
      BY <1>5 DEF StopDrained, InState
    <3>2. conn[c] \notin {"offered", "accepted"}
      BY <2>1
    <3> QED
      BY <1>0, <3>1, <3>2 DEF ConnStates
  <2> QED
    BY <1>0, <1>5, <2>1, <2>2 DEF StopDrained, Return
<1> QED
  BY <1>1, <1>2, <1>3, <1>4, <1>5 DEF StopStep

-----------------------------------------------------------------------------
(* Calls that begin, setters, and the end of the service.                  *)

LEMMA CallKeeps ==
  ASSUME Inv, NEW u \in Users, UserCall(u)
  PROVE  Mutex' /\ Core'
<1> USE DEF Core, StoppedInv, RunningInv, PlaceInv, PoolInv, LoopInv, ConnInv, Gone,
            Looping, Stopping, At, Idle, serviceVars, configVars, serverVars, loopVars,
            userVars, histVars
<1> SUFFICES ASSUME TypeOK, Mutex, Core PROVE Mutex' /\ Core'
  BY DEF Inv
<1>0. /\ "idle" \notin Inside
      /\ {"run_lock", "stop_lock"} \subseteq UserStates \ Inside
  BY DEF Inside, UserStates
<1>1. ASSUME NEW b \in BlockArgs, RunBegin(u, b) PROVE Mutex' /\ Core'
  <2>1. Mutex' /\ Pos' = Pos
    BY <1>0, <1>1, PosCalls DEF RunBegin
  <2> QED
    BY <1>1, <2>1 DEF RunBegin
<1>2. CASE StopBegin(u)
  <2>1. Mutex' /\ Pos' = Pos
    BY <1>0, <1>2, PosCalls DEF StopBegin
  <2> QED
    BY <1>2, <2>1 DEF StopBegin
<1>3. ASSUME NEW r \in Resps, AddResp(u, r) \/ DelResp(u, r) PROVE Mutex' /\ Core'
  <2>1. Mutex' /\ Pos' = Pos
    BY <1>3, PosStays DEF AddResp, DelResp
  <2> QED
    BY <1>3, <2>1 DEF AddResp, DelResp
<1>4. CASE \/ SetRoot(u)
           \/ \E p \in PortArgs : SetPort(u, p)
           \/ \E n \in ThreadArgs : SetThreadCount(u, n)
  <2>1. Mutex' /\ Pos' = Pos
    BY <1>4, PosStays DEF SetRoot, SetPort, SetThreadCount
  <2> QED
    BY <1>4, <2>1 DEF SetRoot, SetPort, SetThreadCount
<1> QED
  BY <1>1, <1>2, <1>3, <1>4 DEF UserCall

-----------------------------------------------------------------------------
(* The accept loop, clients and workers.                                   *)

LEMMA LoopKeeps ==
  ASSUME Inv,
         \/ LoopStep
         \/ AcceptFailed
         \/ \E c \in Conns : AcceptLost(c)
  PROVE  Mutex' /\ Core'
<1> USE ServiceAssumption
        DEF Core, StoppedInv, RunningInv, PlaceInv, PoolInv, LoopInv, ConnInv, Gone,
            Looping, Stopping, LoopAt, serviceVars, configVars, serverVars, loopVars,
            userVars, histVars
<1> SUFFICES ASSUME TypeOK, Mutex, Core PROVE Mutex' /\ Core'
  BY DEF Inv
<1>0. /\ m_status \in {"stopped", "running"}
      /\ listener \in {"none", "unbound", "bound", "listening"}
      /\ conn \in [Conns -> ConnStates]
  BY DEF TypeOK
<1>1. CASE LoopBegin \/ LoopTest \/ LoopSleep \/ LoopCall \/ LoopEnter
  <2>1. Mutex' /\ Pos' = Pos
    BY <1>1, PosStays DEF LoopBegin, LoopTest, LoopSleep, LoopCall, LoopEnter
  <2>2. CASE LoopBegin \/ LoopTest \/ LoopSleep
    BY <2>1, <2>2 DEF LoopBegin, LoopTest, LoopSleep
  <2>3. CASE LoopCall \/ LoopEnter
    BY <2>1, <2>3 DEF LoopCall, LoopEnter
  <2> QED
    BY <1>1, <2>2, <2>3
<1>2. CASE LoopEnd
  <2>1. m_status = "running" /\ Pos \in Stopping
    BY <1>0, <1>2 DEF LoopEnd
  <2>2. aby \notin Users /\ Pos = "stop_join"
    BY <1>2, <2>1 DEF LoopEnd
  <2>3. Mutex' /\ Pos' = Pos
    BY <1>2, <2>2, PosStays DEF LoopEnd
  <2> QED
    BY <1>2, <2>1, <2>2, <2>3 DEF LoopEnd
<1>3. ASSUME apc = "blocked", apc' \in {"enqueue", "failed"},
             UNCHANGED <<serviceVars, serverVars, aby, upc, launchFailed>>,
             \A d \in Conns :
                /\ conn'[d] = "offered" => listener # "none" /\ conn[d] = "offered"
                /\ conn'[d] = "accepted" =>
                      /\ apc' = "enqueue"
                      /\ \A e \in Conns : conn'[e] = "accepted" => e = d
      PROVE  Mutex' /\ Core'
  <2>1. Mutex' /\ Pos' = Pos
    BY <1>3, PosStays
  <2>2. m_status = "running" /\ listener \in {"none", "listening"}
    BY <1>0, <1>3
  <2>3. ConnInv'
    BY <1>3, <2>2
  <2> QED
    BY <1>3, <2>1, <2>2, <2>3
<1>4. ASSUME NEW c \in Conns, LoopAccept(c) PROVE Mutex' /\ Core'
  <2>1. /\ conn'[c] = "accepted"
        /\ \A d \in Conns \ {c} :
              conn'[d] = IF listener = "none" /\ conn[d] = "offered"
                           THEN "reset" ELSE conn[d]
    BY <1>0, <1>4 DEF LoopAccept, ResetOffered
  <2>2. \A d \in Conns : conn[d] # "accepted"
    BY <1>4 DEF LoopAccept
  <2> QED
    BY <1>3, <1>4, <2>1, <2>2 DEF LoopAccept
<1>5. CASE AcceptFailed
  <2>1. \A d \in Conns :
           conn'[d] = IF listener = "none" /\ conn[d] = "offered"
                        THEN "reset" ELSE conn[d]
    BY <1>0, <1>5 DEF AcceptFailed, ResetOffered
  <2>2. \A d \in Conns : conn[d] # "accepted"
    BY <1>5 DEF AcceptFailed
  <2> QED
    BY <1>3, <1>5, <2>1, <2>2 DEF AcceptFailed
<1>6. ASSUME NEW c \in Conns, AcceptLost(c) PROVE Mutex' /\ Core'
  <2>1. /\ conn'[c] = "lost"
        /\ \A d \in Conns \ {c} :
              conn'[d] = IF listener = "none" /\ conn[d] = "offered"
                           THEN "reset" ELSE conn[d]
    BY <1>0, <1>6 DEF AcceptLost, ResetOffered
  <2>2. \A d \in Conns : conn[d] # "accepted"
    BY <1>6 DEF AcceptLost
  <2> QED
    BY <1>3, <1>6, <2>1, <2>2 DEF AcceptLost
<1>7. ASSUME NEW c \in Conns, LoopEnqueue(c) PROVE Mutex' /\ Core'
  <2>1. Mutex' /\ Pos' = Pos
    BY <1>7, PosStays DEF LoopEnqueue
  <2> QED
    BY <1>0, <1>7, <2>1 DEF LoopEnqueue
<1> QED
  BY <1>1, <1>2, <1>4, <1>5, <1>6, <1>7 DEF LoopStep

LEMMA ClientKeeps ==
  ASSUME Inv, NEW c \in Conns, Connect(c) \/ ServeStart(c) \/ ServeEnd(c)
  PROVE  Mutex' /\ Core'
<1> USE DEF Core, StoppedInv, RunningInv, PlaceInv, PoolInv, LoopInv, ConnInv, Gone,
            Looping, Stopping, serviceVars, configVars, serverVars, loopVars, userVars,
            histVars
<1> SUFFICES ASSUME TypeOK, Mutex, Core PROVE Mutex' /\ Core'
  BY DEF Inv
<1>0. m_status \in {"stopped", "running"} /\ conn \in [Conns -> ConnStates]
  BY DEF TypeOK
<1>1. Mutex' /\ Pos' = Pos
  BY PosStays DEF Connect, ServeStart, ServeEnd
<1>2. CASE Connect(c)
  BY <1>0, <1>1, <1>2 DEF Connect
<1>3. CASE ServeStart(c) \/ ServeEnd(c)
  BY <1>0, <1>1, <1>3 DEF ServeStart, ServeEnd
<1> QED
  BY <1>2, <1>3

-----------------------------------------------------------------------------
(* How the process may die.                                                *)

(* Whoever is at a place of run or stop is the one that holds m_mtx.       *)
LEMMA Holder ==
  ASSUME TypeOK, Mutex, NEW s \in Inside
  PROVE  /\ Pos = s => \E u \in Users : m_mtx = u /\ upc[u] = s
         /\ \A u \in Users : upc[u] = s => m_mtx = u /\ Pos = s
<1>1. "free" \notin Inside
  BY DEF Inside, UserStates
<1> QED
  BY <1>1, ServiceAssumption DEF TypeOK, Mutex, Pos

(* The listener is gone under a loop that runs: stop waits to join it.     *)
LEMMA LoopWithoutListener ==
  ASSUME Inv, Looping, listener = "none"
  PROVE  aby = LoopThread /\ \E u \in Users : m_mtx = u /\ upc[u] = "stop_join"
<1>0. TypeOK /\ Mutex /\ Core
  BY DEF Inv
<1>1. apc # "none" /\ apc # "ended"
  BY DEF Looping
<1>2. m_status = "running"
  BY <1>0, <1>1 DEF TypeOK, Core, StoppedInv
<1>3. Pos = "stop_join"
  BY <1>0, <1>1, <1>2 DEF Core, RunningInv, PlaceInv, Stopping
<1>4. aby = LoopThread
  BY <1>0, <1>1, <1>3 DEF TypeOK, Core, LoopInv
<1>5. "stop_join" \in Inside
  BY DEF Inside, UserStates
<1> QED
  BY <1>0, <1>3, <1>4, <1>5, Holder

LEMMA CrashKeeps ==
  ASSUME Inv, [Step]_vars
  PROVE  DeathsExplained'
<1> USE DEF serviceVars, configVars, serverVars, loopVars, userVars, histVars, vars
<1>0. TypeOK /\ Mutex /\ Core /\ DeathsExplained
  BY DEF Inv
<1>1. CASE UNCHANGED vars
  BY <1>0, <1>1 DEF DeathsExplained
<1>2. ASSUME crashed' = "no" PROVE DeathsExplained'
  BY <1>2 DEF DeathsExplained
<1>3. ASSUME NEW u \in Users, UserCall(u) PROVE DeathsExplained'
  <2>1. CASE (\E b \in BlockArgs : RunBegin(u, b)) \/ StopBegin(u)
    BY <1>2, <2>1 DEF RunBegin, StopBegin, Idle, At
  <2>2. ASSUME NEW r \in Resps, AddResp(u, r) \/ DelResp(u, r) PROVE DeathsExplained'
    <3>1. upc[u] = "idle" /\ upc' = upc
      BY <2>2 DEF AddResp, DelResp, Idle, At
    <3>2. CASE crashed' = "resps"
      <4>1. PICK v \in Users : upc[v] = "copy"
        BY <2>2, <3>2 DEF AddResp, DelResp, ChangeResps, Copying
      <4>2. u # v
        BY <3>1, <4>1
      <4> QED
        BY <3>1, <3>2, <4>1, <4>2 DEF DeathsExplained
    <3> QED
      BY <1>2, <2>2, <3>2 DEF AddResp, DelResp, ChangeResps
  <2>3. CASE SetRoot(u)
    <3>1. upc[u] = "idle" /\ upc' = upc
      BY <2>3 DEF SetRoot, Idle, At
    <3>2. CASE crashed' = "root"
      <4>1. PICK v \in Users : upc[v] \in {"bind", "listen"}
        BY <2>3, <3>2 DEF SetRoot, ReadingRoot
      <4>2. u # v
        BY <3>1, <4>1
      <4> QED
        BY <3>1, <3>2, <4>1, <4>2 DEF DeathsExplained
    <3> QED
      BY <1>2, <2>3, <3>2 DEF SetRoot
  <2>4. CASE \/ \E p \in PortArgs : SetPort(u, p)
             \/ \E n \in ThreadArgs : SetThreadCount(u, n)
    BY <1>2, <2>4 DEF SetPort, SetThreadCount, Idle, At
  <2> QED
    BY <1>3, <2>1, <2>2, <2>3, <2>4 DEF UserCall
<1>4. ASSUME NEW u \in Users, RunCreateThrows(u) PROVE DeathsExplained'
  <2>1. crashed' = "terminate" => ~m_server' /\ apc' = "none"
    BY <1>0, <1>4 DEF RunCreateThrows, TypeOK, Core, StoppedInv
  <2>2. crashed' \in {"no", "terminate"}
    BY <1>4 DEF RunCreateThrows
  <2> QED
    BY <2>1, <2>2 DEF DeathsExplained
<1>5. ASSUME NEW u \in Users, RunStep(u) \/ BindRefused(u), ~RunCreateThrows(u)
      PROVE  DeathsExplained'
  BY <1>2, <1>5 DEF RunStep, At, RunLock, RunRefused, RunReuse, RunCreate, RunCopy,
                    RunBind, RunBindFails, BindRefused, RunListen, RunListenFails,
                    RunLaunch, RunLaunchThrows
<1>6. ASSUME NEW u \in Users, StopLock(u) \/ StopStep(u) PROVE DeathsExplained'
  BY <1>2, <1>6 DEF StopStep, At, StopLock, StopServer, StopJoin, StopReset, StopDrained
<1>7. ASSUME apc \in {"call", "entered", "blocked"},
             UNCHANGED <<aby, listener, m_mtx, upc>>,
             crashed' = "no" \/ (crashed' \in {"null", "freed"} /\ listener = "none")
      PROVE  DeathsExplained'
  <2>1. CASE listener = "none"
    <3>1. aby = LoopThread /\ \E u \in Users : m_mtx = u /\ upc[u] = "stop_join"
      BY <1>7, <2>1, LoopWithoutListener DEF Looping
    <3> QED
      BY <1>7, <2>1, <3>1 DEF DeathsExplained
  <2> QED
    BY <1>2, <1>7, <2>1
<1>8. ASSUME NEW c \in Conns, LoopEnqueue(c) PROVE DeathsExplained'
  <2>1. m_server /\ Pos # "stop_drain"
    BY <1>0, <1>8
       DEF LoopEnqueue, LoopAt, TypeOK, Core, StoppedInv, RunningInv, PlaceInv
  <2>2. pool = "open"
    BY <1>0, <2>1 DEF Core, PoolInv
  <2> QED
    BY <1>2, <1>8, <2>2 DEF LoopEnqueue, LoopAt
<1>9. CASE LoopCall \/ LoopEnter \/ \E c \in Conns : LoopAccept(c)
  BY <1>7, <1>9 DEF LoopAt, LoopCall, LoopEnter, LoopAccept
<1>10. CASE \/ LoopBegin
            \/ LoopTest
            \/ LoopEnd
            \/ \E c \in Conns : AcceptLost(c)
            \/ AcceptFailed
            \/ LoopSleep
  BY <1>2, <1>10 DEF LoopAt, LoopBegin, LoopTest, LoopEnd, AcceptFailed, AcceptLost,
                     LoopSleep
<1>11. CASE Destroy \/ \E c \in Conns : Connect(c) \/ ServeStart(c) \/ ServeEnd(c)
  BY <1>2, <1>11 DEF Destroy, Connect, ServeStart, ServeEnd
<1> QED
  BY <1>1, <1>3, <1>4, <1>5, <1>6, <1>8, <1>9, <1>10, <1>11
     DEF Next, Step, LoopStep, LoopAcceptFails, LoopAcceptLost, Terminated

-----------------------------------------------------------------------------
(* The invariant.                                                          *)

LEMMA InvInit == Init => Inv
<1> SUFFICES ASSUME Init PROVE Inv
  OBVIOUS
<1>1. TypeOK
  BY TypeInit
<1>2. Pos = "free"
  BY DEF Init, Pos
<1>3. Mutex
  BY ServiceAssumption DEF Init, Mutex, Inside
<1>4. Core
  BY ServiceAssumption, <1>2
     DEF Init, Core, StoppedInv, RunningInv, PlaceInv, PoolInv, LoopInv, ConnInv, Gone,
         Stopping
<1>5. DeathsExplained
  BY DEF Init, DeathsExplained
<1> QED
  BY <1>1, <1>3, <1>4, <1>5 DEF Inv

LEMMA CoreNext ==
  ASSUME Inv, [Step]_vars
  PROVE  Mutex' /\ Core'
<1>1. ASSUME m_mtx' = m_mtx, upc' = upc,
             UNCHANGED <<m_status, m_server, m_thread, pool, listener, apc, aby, conn,
                         launchFailed>>
      PROVE  Mutex' /\ Core'
  <2>1. Mutex' /\ Pos' = Pos
    BY <1>1, PosStays DEF Inv
  <2> QED
    BY <1>1, <2>1
       DEF Inv, Core, StoppedInv, RunningInv, PlaceInv, PoolInv, LoopInv, ConnInv, Gone,
           Looping
<1>2. CASE UNCHANGED vars
  BY <1>1, <1>2 DEF vars, serviceVars, serverVars, loopVars, userVars, histVars
<1>3. ASSUME NEW u \in Users,
             UserCall(u) \/ RunStep(u) \/ StopLock(u) \/ StopStep(u) \/ BindRefused(u)
      PROVE  Mutex' /\ Core'
  BY <1>3, CallKeeps, RunKeeps, StopKeeps
<1>4. CASE Destroy
  BY <1>1, <1>4 DEF Destroy, serverVars, loopVars, userVars, histVars
<1>5. CASE LoopStep \/ AcceptFailed \/ \E c \in Conns : AcceptLost(c)
  BY <1>5, LoopKeeps
<1>6. ASSUME NEW c \in Conns, Connect(c) \/ ServeStart(c) \/ ServeEnd(c)
      PROVE  Mutex' /\ Core'
  BY <1>6, ClientKeeps
<1>7. CASE Terminated
  BY <1>2, <1>7 DEF Terminated
<1> QED
  BY <1>2, <1>3, <1>4, <1>5, <1>6, <1>7 DEF Next, Step, LoopAcceptFails, LoopAcceptLost

LEMMA InvNext == Inv /\ [Step]_vars => Inv'
<1> SUFFICES ASSUME Inv, [Step]_vars PROVE Inv'
  OBVIOUS
<1>1. TypeOK'
  BY TypeNext DEF Inv
<1> QED
  BY <1>1, CoreNext, CrashKeeps DEF Inv

LEMMA InvHolds == Spec => []Inv
<1>1. Inv /\ [Next]_vars => Inv'
  BY InvNext DEF Step
<1> QED
  BY <1>1, InvInit, PTL DEF Spec

-----------------------------------------------------------------------------
(* What follows from it.                                                   *)

(* Outside of run and stop, "running" means that the server is at work.    *)
THEOREM RunningServes == Spec => []RunningMeansServing
<1>1. Inv => RunningMeansServing
  BY DEF Inv, TypeOK, Core, RunningInv, PoolInv, Pos, Stopping, RunningMeansServing
<1> QED
  BY <1>1, InvHolds, PTL

(* Outside of run and stop, "stopped" means that nothing is left.          *)
THEOREM StoppedIsGone == Spec => []StoppedMeansGone
<1>1. Inv => StoppedMeansGone
  <2> SUFFICES ASSUME Inv, m_status = "stopped"
               PROVE  /\ apc = "none"
                      /\ ~m_thread
                      /\ listener # "listening"
                      /\ \A c \in Conns : Gone(c)
    BY DEF StoppedMeansGone, Gone
  <2>1. apc = "none" /\ listener # "listening" /\ \A c \in Conns : Gone(c)
    BY DEF Inv, Core, StoppedInv
  <2>2. ~m_thread
    BY <2>1, ServiceAssumption DEF Inv, Core, LoopInv
  <2> QED
    BY <2>1, <2>2
<1> QED
  BY <1>1, InvHolds, PTL

(* The loop, the tasks and ~JServer never meet.                            *)
THEOREM ServerOutlives == Spec => []NobodyOutlivesServer
<1>1. Inv => NobodyOutlivesServer
  <2> SUFFICES ASSUME Inv PROVE NobodyOutlivesServer
    OBVIOUS
  <2> USE DEF Inv, TypeOK, Core, StoppedInv, RunningInv, PlaceInv, PoolInv, Gone
  <2>1. Looping => m_status = "running" /\ Pos # "stop_drain"
    BY DEF Looping
  <2>2. InState("queued") \cup InState("serving") # {} => m_status = "running"
    BY DEF InState
  <2> QED
    BY <2>1, <2>2 DEF NobodyOutlivesServer
<1> QED
  BY <1>1, InvHolds, PTL

(* The loop of a blocking run goes on for ever.                            *)
THEOREM BlockingRunGoesOn == Spec => []BlockingRunIsNeverStopped
<1>1. Inv => BlockingRunIsNeverStopped
  <2> SUFFICES ASSUME Inv, aby \in Users PROVE BlockingRunIsNeverStopped
    BY DEF BlockingRunIsNeverStopped
  <2>1. Pos = "in_run" /\ m_mtx = aby /\ apc # "none"
    BY ServiceAssumption DEF Inv, Core, LoopInv
  <2>2. upc[aby] = "in_run"
    BY <2>1, ServiceAssumption DEF Pos
  <2>3. m_status = "running"
    BY <2>1 DEF Inv, Core, PlaceInv
  <2>4. listener = "listening" /\ Looping
    BY <2>1, <2>3 DEF Inv, Core, RunningInv, Stopping
  <2> QED
    BY <2>1, <2>2, <2>4 DEF BlockingRunIsNeverStopped
<1> QED
  BY <1>1, InvHolds, PTL

(* Where the threads are whenever the process dies in the service: a stop  *)
(* waits to join the loop, or two users are at it, or there is no server.  *)
THEOREM DeathsAreExplained == Spec => []DeathsExplained
<1>1. Inv => DeathsExplained
  BY DEF Inv
<1> QED
  BY <1>1, InvHolds, PTL

(* JServer::m_resps and _webRootPath are written only while nobody who     *)
(* reads them without a lock is there.                                     *)
THEOREM ConfigIsStable == Spec => ConfigStableWhileServing
<1> DEFINE Rewrites == \/ s_resps' # s_resps
                       \/ \E u \in Users : upc[u] = "bind" /\ upc'[u] # "bind"
           Quiet == /\ ~Looping
                    /\ \A c \in Conns : conn[c] \notin {"accepted", "queued", "serving"}
<1>1. ASSUME Inv, Next, Rewrites PROVE Quiet
  <2> USE DEF serviceVars, configVars, serverVars, loopVars, userVars, histVars, vars
  <2>0. TypeOK /\ Mutex /\ Core /\ {"run", "copy", "bind", "stop_drain"} \subseteq Inside
    BY <1>1 DEF Inv, Inside, UserStates
  <2>1. ASSUME m_status = "stopped" PROVE Quiet
    BY <2>0, <2>1 DEF Core, StoppedInv, Gone, Looping
  <2>2. ASSUME NEW u \in Users, upc[u] \in {"copy", "bind"} PROVE Quiet
    <3>1. Pos \in {"copy", "bind"}
      BY <2>0, <2>2, Holder
    <3> QED
      BY <2>0, <2>1, <3>1 DEF Core, PlaceInv
  <2>3. ASSUME NEW u \in Users, RunCreate(u) PROVE Quiet
    BY <2>1, <2>3 DEF RunCreate
  <2>4. ASSUME NEW u \in Users, RunCopy(u) PROVE Quiet
    BY <2>2, <2>4 DEF RunCopy, At
  <2>5. ASSUME NEW u \in Users, StopDrained(u) PROVE Quiet
    <3>1. Pos = "stop_drain"
      BY <2>0, <2>5, Holder DEF StopDrained, At
    <3>2. apc = "none"
      BY <2>0, <3>1 DEF Core, PlaceInv
    <3>3. \A c \in Conns : conn[c] \notin {"queued", "serving"}
      BY <2>5 DEF StopDrained, InState
    <3>4. \A c \in Conns : conn[c] # "accepted"
      BY <2>0, <3>2 DEF Core, ConnInv
    <3> QED
      BY <3>2, <3>3, <3>4 DEF Looping
  <2>6. CASE \E u \in Users : upc[u] = "bind" /\ upc'[u] # "bind"
    BY <2>2, <2>6
  <2>7. CASE s_resps' # s_resps
    <3>1. ASSUME NEW u \in Users
          PROVE  ~UserCall(u) /\ ~StopLock(u)
      BY <2>0, <2>7, CallsLeaveAlone DEF StopLock
    <3>2. ASSUME NEW u \in Users, RunStep(u) PROVE Quiet
      BY <2>3, <2>4, <2>7, <3>2
         DEF RunStep, RunLock, RunRefused, RunReuse, RunCreateThrows, RunBind,
             RunBindFails, BindRefused, RunListen, RunListenFails, RunLaunch,
             RunLaunchThrows
    <3>3. ASSUME NEW u \in Users, StopStep(u) PROVE Quiet
      BY <2>5, <2>7, <3>3 DEF StopStep, StopServer, StopJoin, StopReset
    <3>4. ~LoopStep /\ ~LoopAcceptFails /\ \A c \in Conns : ~LoopAcceptLost(c)
      BY <2>7 DEF LoopStep, LoopBegin, LoopTest, LoopEnd, LoopCall, LoopEnter, LoopAccept,
                  LoopAcceptFails, AcceptFailed, LoopAcceptLost, AcceptLost, LoopSleep,
                  LoopEnqueue
    <3>5. /\ ~Destroy /\ ~Terminated
          /\ \A c \in Conns : ~Connect(c) /\ ~ServeStart(c) /\ ~ServeEnd(c)
      BY <2>7 DEF Destroy, Terminated, Connect, ServeStart, ServeEnd
    <3> QED
      BY <1>1, <3>1, <3>2, <3>3, <3>4, <3>5 DEF Next
  <2> QED
    BY <1>1, <2>6, <2>7
<1>2. Inv /\ [Next]_vars =>
        [ s_resps' # s_resps \/ (\E u \in Users : upc[u] = "bind" /\ upc'[u] # "bind")
          => /\ ~Looping
             /\ \A c \in Conns : conn[c] \notin {"accepted", "queued", "serving"}
        ]_vars
  BY <1>1
<1> HIDE DEF Rewrites, Quiet
<1> QED
  BY <1>2, InvHolds, PTL DEF Spec, ConfigStableWhileServing

-----------------------------------------------------------------------------
(* The service implements Reception: every step of it is one of the desk   *)
(* and its guests, or leaves both as they are.                             *)

(* The guests, as the refinement maps them.                                *)
guests == [c \in Conns |-> Guest(c)]

LEMMA Stutters ==
  ASSUME Desk' = Desk, \A c \in Conns : Guest(c)' = Guest(c)
  PROVE  UNCHANGED Reception!vars
  BY DEF Reception!vars

(* Only these steps change the pool, the listener or a connection.         *)
LEMMA QuietSteps ==
  ASSUME UNCHANGED <<pool, listener, conn>>
  PROVE  UNCHANGED Reception!vars
<1>1. Desk' = Desk
  BY DEF Desk
<1>2. \A c \in Conns : Guest(c)' = Guest(c)
  BY DEF Guest
<1> QED
  BY <1>1, <1>2, Stutters

LEMMA ReceptionInit == Init => Reception!Init
  BY DEF Init, Reception!Init, Desk, Guest

LEMMA ReceptionRun ==
  ASSUME Inv, NEW u \in Users, RunStep(u) \/ BindRefused(u)
  PROVE  [Reception!Next]_(Reception!vars)
<1> USE DEF serviceVars, serverVars, loopVars, userVars, histVars, At
<1>0. /\ TypeOK /\ Mutex /\ Core
      /\ {"run", "copy", "bind", "listen"} \subseteq Inside
  BY DEF Inv, Inside, UserStates
<1>1. CASE RunCreate(u)
  <2>1. pool = "none" /\ listener # "listening"
    BY <1>0, <1>1 DEF RunCreate, Core, PoolInv, StoppedInv
  <2>2. Desk = "none" /\ Desk' = "shut"
    BY <1>1, <2>1 DEF RunCreate, Desk
  <2>3. guests' = guests
    BY <1>1 DEF RunCreate, guests, Guest
  <2> QED
    BY <2>2, <2>3 DEF Reception!Next, Reception!SetUp, guests
<1>2. CASE RunBind(u) \/ BindRefused(u)
  <2>1. m_mtx = u /\ Pos = "bind"
    BY <1>0, <1>2, ServiceAssumption DEF RunBind, BindRefused, Mutex, Pos
  <2>2. pool = "open" /\ listener # "listening"
    BY <1>0, <2>1 DEF Core, PlaceInv, PoolInv, StoppedInv
  <2>3. pool' = pool /\ listener' # "listening" /\ conn' = conn
    BY <1>2 DEF RunBind, BindRefused
  <2>4. Desk' = Desk
    BY <2>2, <2>3 DEF Desk
  <2> QED
    BY <2>3, <2>4, Stutters DEF Guest
<1>3. CASE RunListen(u)
  <2>1. m_mtx = u /\ Pos = "listen"
    BY <1>0, <1>3, ServiceAssumption DEF RunListen, Mutex, Pos
  <2>2. pool = "open" /\ listener # "listening"
    BY <1>0, <2>1 DEF Core, PlaceInv, PoolInv, StoppedInv
  <2>3. Desk = "shut" /\ Desk' = "open"
    BY <1>3, <2>2 DEF RunListen, Desk
  <2>4. guests' = guests
    BY <1>3 DEF RunListen, guests, Guest
  <2> QED
    BY <2>3, <2>4 DEF Reception!Next, Reception!Open, guests
<1>4. CASE \/ RunLock(u) \/ RunRefused(u) \/ RunReuse(u) \/ RunCreateThrows(u)
           \/ RunCopy(u) \/ RunListenFails(u) \/ RunLaunch(u) \/ RunLaunchThrows(u)
  <2>1. UNCHANGED <<pool, listener, conn>>
    BY <1>4 DEF RunLock, RunRefused, RunReuse, RunCreateThrows, RunCopy, RunListenFails,
                RunLaunch, RunLaunchThrows
  <2> QED
    BY <2>1, QuietSteps
<1> QED
  BY <1>1, <1>2, <1>3, <1>4 DEF RunStep, RunBindFails

LEMMA ReceptionStop ==
  ASSUME Inv, NEW u \in Users, StopLock(u) \/ StopStep(u)
  PROVE  [Reception!Next]_(Reception!vars)
<1> USE DEF serviceVars, serverVars, loopVars, userVars, histVars, At
<1>0. /\ TypeOK /\ Mutex /\ Core
      /\ m_server \in BOOLEAN
      /\ conn \in [Conns -> ConnStates]
      /\ Stopping \cup {"stop_server"} \subseteq Inside
  BY DEF Inv, TypeOK, Inside, UserStates, Stopping
<1>1. CASE StopServer(u)
  <2>1. m_mtx = u /\ Pos = "stop_server"
    BY <1>0, <1>1, ServiceAssumption DEF StopServer, Mutex, Pos, Inside
  <2>2. CASE m_server
    <3> DEFINE S == IF apc = "blocked" /\ ~CloseWakesAccept THEN {} ELSE InState("offered")
    <3>1. pool = "open" /\ pool' = "open"
      BY <1>0, <1>1, <2>1, <2>2 DEF StopServer, Core, PoolInv
    <3>2. Desk \in {"open", "shut"} /\ Desk' = "shut"
      BY <1>1, <3>1 DEF StopServer, Desk
    <3>3. S \subseteq Reception!In("waiting")
      BY DEF InState, Reception!In, Guest
    <3>4. guests' = Reception!TurnedAway(S)
      BY <1>0, <1>1 DEF StopServer, guests, Guest, ResetOffered, InState,
                        Reception!TurnedAway
    <3>5. Reception!Shut(S)
      BY <3>2, <3>3, <3>4 DEF Reception!Shut, guests
    <3>6. S \in SUBSET Conns
      BY DEF InState
    <3> QED
      BY <3>5, <3>6 DEF Reception!Next
  <2>3. CASE ~m_server
    <3>1. pool = "none" /\ pool' = "none"
      BY <1>0, <1>1, <2>3 DEF StopServer, Core, PoolInv
    <3>2. \A c \in Conns : Gone(c)
      BY <1>0, <2>3 DEF TypeOK, Core, RunningInv, StoppedInv
    <3>3. conn' = conn
      BY <1>0, <1>1, <3>2 DEF StopServer, ResetOffered, Gone
    <3>4. Desk' = Desk
      BY <3>1 DEF Desk
    <3> QED
      BY <3>3, <3>4, Stutters DEF Guest
  <2> QED
    BY <1>0, <2>2, <2>3
<1>2. CASE StopReset(u)
  <2>1. m_mtx = u /\ Pos = "stop_reset"
    BY <1>0, <1>2, ServiceAssumption DEF StopReset, Mutex, Pos, Inside, Stopping
  <2>2. CASE m_server
    <3>1. pool = "open" /\ pool' = "draining"
      BY <1>0, <1>2, <2>1, <2>2 DEF StopReset, Core, PoolInv
    <3>2. Desk \in {"open", "shut"} /\ Desk' = "closing"
      BY <1>2, <3>1 DEF StopReset, Desk
    <3>3. \A c \in Conns : conn[c] # "offered"
      BY <1>0, <2>1 DEF Core, ConnInv, PlaceInv, Stopping
    <3>4. Reception!In("waiting") = {}
      BY <3>3 DEF Reception!In, Guest
    <3>5. guests' = guests
      BY <1>2 DEF StopReset, guests, Guest
    <3> QED
      BY <3>2, <3>4, <3>5 DEF Reception!Next, Reception!BeginClosing, guests
  <2>3. CASE ~m_server
    <3>1. UNCHANGED <<pool, listener, conn>>
      BY <1>2, <2>3 DEF StopReset
    <3> QED
      BY <3>1, QuietSteps
  <2> QED
    BY <1>0, <2>2, <2>3
<1>3. CASE StopDrained(u)
  <2>1. m_mtx = u /\ Pos = "stop_drain"
    BY <1>0, <1>3, ServiceAssumption DEF StopDrained, Mutex, Pos, Inside, Stopping
  <2>2. pool' = "none" /\ conn' = conn /\ listener' = listener
    BY <1>3 DEF StopDrained
  <2>3. CASE m_server
    <3>1. Desk = "closing" /\ Desk' = "none"
      BY <1>0, <2>1, <2>2, <2>3 DEF Core, PoolInv, Desk
    <3>2. \A c \in Conns : conn[c] \notin {"accepted", "queued", "serving"}
      BY <1>0, <1>3, <2>1 DEF StopDrained, InState, Core, ConnInv, PlaceInv
    <3>3. Reception!In("admitted") \cup Reception!In("served") = {}
      BY <3>2 DEF Reception!In, Guest
    <3>4. guests' = guests
      BY <2>2 DEF guests, Guest
    <3> QED
      BY <3>1, <3>3, <3>4 DEF Reception!Next, Reception!Closed, guests
  <2>4. CASE ~m_server
    <3>1. pool = "none"
      BY <1>0, <2>4 DEF Core, PoolInv
    <3> QED
      BY <2>2, <3>1, QuietSteps
  <2> QED
    BY <1>0, <2>3, <2>4
<1>4. CASE StopLock(u) \/ StopJoin(u)
  BY <1>4, QuietSteps DEF StopLock, StopJoin
<1> QED
  BY <1>1, <1>2, <1>3, <1>4 DEF StopStep

(* Whom accept turns away besides the one it takes: the rest of a backlog  *)
(* that dies with its socket.                                              *)
TurnedOut == IF listener = "none" THEN InState("offered") ELSE {}

LEMMA ReceptionAccept ==
  ASSUME Inv, LoopAt("blocked"), UNCHANGED serverVars
  PROVE  /\ Desk \in {"open", "shut"}
         /\ Desk' = Desk
         /\ Desk = "open" => TurnedOut = {}
         /\ TurnedOut \subseteq Reception!In("waiting")
         /\ TurnedOut \subseteq Conns
<1>1. TypeOK /\ Core
  BY DEF Inv
<1>2. m_server /\ Pos # "stop_drain"
  BY <1>1 DEF LoopAt, TypeOK, Core, StoppedInv, RunningInv, PlaceInv
<1>3. pool = "open"
  BY <1>1, <1>2 DEF Core, PoolInv
<1>4. Desk \in {"open", "shut"} /\ (Desk = "open" => listener = "listening")
  BY <1>3 DEF Desk
<1>5. Desk' = Desk
  BY DEF Desk, serverVars
<1> QED
  BY <1>4, <1>5 DEF TurnedOut, InState, Reception!In, Guest

LEMMA ReceptionLoop ==
  ASSUME Inv,
         \/ LoopStep
         \/ AcceptFailed
         \/ \E c \in Conns : AcceptLost(c)
  PROVE  [Reception!Next]_(Reception!vars)
<1> USE DEF serviceVars, serverVars, loopVars, userVars, histVars
<1>0. TypeOK /\ Core /\ conn \in [Conns -> ConnStates]
  BY DEF Inv, TypeOK
<1>1. ASSUME NEW c \in Conns, LoopAccept(c)
      PROVE  [Reception!Next]_(Reception!vars)
  <2>1. LoopAt("blocked") /\ UNCHANGED serverVars /\ conn[c] = "offered"
    BY <1>1 DEF LoopAccept
  <2>2. guests' = [Reception!TurnedAway(TurnedOut \ {c}) EXCEPT ![c] = "admitted"]
    BY <1>0, <1>1 DEF LoopAccept, guests, Guest, ResetOffered, InState, TurnedOut,
                      Reception!TurnedAway
  <2>3. Reception!Admit(c, TurnedOut \ {c})
    BY <2>1, <2>2, ReceptionAccept DEF Reception!Admit, Guest, guests
  <2>4. TurnedOut \ {c} \in SUBSET Conns
    BY DEF TurnedOut, InState
  <2> QED
    BY <2>3, <2>4 DEF Reception!Next
<1>2. CASE AcceptFailed
  <2>1. LoopAt("blocked") /\ UNCHANGED serverVars
    BY <1>2 DEF AcceptFailed
  <2>2. CASE listener = "none"
    <3>1. guests' = Reception!TurnedAway(TurnedOut)
      BY <1>0, <1>2, <2>2
         DEF AcceptFailed, guests, Guest, ResetOffered, InState, TurnedOut,
             Reception!TurnedAway
    <3>2. Desk = "shut"
      BY <2>1, <2>2, ReceptionAccept DEF Desk
    <3>3. Reception!Shut(TurnedOut)
      BY <2>1, <3>1, <3>2, ReceptionAccept DEF Reception!Shut, guests
    <3>4. TurnedOut \in SUBSET Conns
      BY DEF TurnedOut, InState
    <3> QED
      BY <3>3, <3>4 DEF Reception!Next
  <2>3. CASE listener # "none"
    <3>1. UNCHANGED <<pool, listener, conn>>
      BY <1>2, <2>3 DEF AcceptFailed
    <3> QED
      BY <3>1, QuietSteps
  <2> QED
    BY <2>2, <2>3
<1>3. ASSUME NEW c \in Conns, AcceptLost(c)
      PROVE  [Reception!Next]_(Reception!vars)
  <2>1. LoopAt("blocked") /\ UNCHANGED serverVars /\ conn[c] = "offered"
    BY <1>3 DEF AcceptLost
  <2>2. guests' = Reception!TurnedAway((TurnedOut \ {c}) \cup {c})
    BY <1>0, <1>3 DEF AcceptLost, guests, Guest, ResetOffered, InState,
                      TurnedOut, Reception!TurnedAway
  <2>3. Reception!Lose(c, TurnedOut \ {c})
    BY <2>1, <2>2, ReceptionAccept DEF Reception!Lose, Guest, guests
  <2>4. TurnedOut \ {c} \in SUBSET Conns
    BY DEF TurnedOut, InState
  <2> QED
    BY <2>3, <2>4 DEF Reception!Next
<1>4. ASSUME NEW c \in Conns, LoopEnqueue(c)
      PROVE  [Reception!Next]_(Reception!vars)
  <2>1. \A d \in Conns : Guest(d)' = Guest(d)
    BY <1>0, <1>4 DEF LoopEnqueue, Guest
  <2>2. Desk' = Desk
    BY <1>4 DEF LoopEnqueue, Desk
  <2> QED
    BY <2>1, <2>2, Stutters
<1>5. CASE LoopBegin \/ LoopTest \/ LoopEnd \/ LoopCall \/ LoopEnter \/ LoopSleep
  BY <1>5, QuietSteps DEF LoopBegin, LoopTest, LoopEnd, LoopCall, LoopEnter, LoopSleep
<1> QED
  BY <1>1, <1>2, <1>3, <1>4, <1>5 DEF LoopStep

LEMMA ReceptionClient ==
  ASSUME Inv, NEW c \in Conns, Connect(c) \/ ServeStart(c) \/ ServeEnd(c)
  PROVE  [Reception!Next]_(Reception!vars)
<1>0. TypeOK /\ Core /\ conn \in [Conns -> ConnStates]
  BY DEF Inv, TypeOK
<1>1. Desk' = Desk
  BY DEF Connect, ServeStart, ServeEnd, serverVars, Desk
<1>2. CASE Connect(c)
  <2>1. m_server /\ Pos # "stop_drain"
    BY <1>0, <1>2 DEF Connect, TypeOK, Core, StoppedInv, RunningInv, PlaceInv, Stopping
  <2>2. Desk \in {"open", "shut"}
    BY <1>0, <2>1 DEF Core, PoolInv, Desk
  <2>3. Guest(c) = "away" /\ guests' = [guests EXCEPT ![c] = "waiting"]
    BY <1>0, <1>2 DEF Connect, guests, Guest
  <2> QED
    BY <1>1, <2>2, <2>3 DEF Reception!Next, Reception!Arrive, guests
<1>3. CASE ServeStart(c)
  <2>1. Desk # "none"
    BY <1>3 DEF ServeStart, Desk
  <2>2. Guest(c) = "admitted" /\ guests' = [guests EXCEPT ![c] = "served"]
    BY <1>0, <1>3 DEF ServeStart, guests, Guest
  <2> QED
    BY <1>1, <2>1, <2>2 DEF Reception!Next, Reception!Serve, guests
<1>4. CASE ServeEnd(c)
  <2>1. Guest(c) = "served" /\ guests' = [guests EXCEPT ![c] = "away"]
    BY <1>0, <1>4 DEF ServeEnd, guests, Guest
  <2> QED
    BY <1>1, <2>1 DEF Reception!Next, Reception!Leave, guests
<1> QED
  BY <1>2, <1>3, <1>4

LEMMA ReceptionNext ==
  ASSUME Inv, [Step]_vars
  PROVE  [Reception!Next]_(Reception!vars)
<1> USE DEF vars, serviceVars, serverVars, loopVars, userVars, histVars
<1>1. ASSUME NEW u \in Users, UserCall(u)
      PROVE  [Reception!Next]_(Reception!vars)
  <2>1. CASE (\E b \in BlockArgs : RunBegin(u, b)) \/ StopBegin(u)
    BY <2>1, QuietSteps DEF RunBegin, StopBegin
  <2>2. CASE (\E r \in Resps : AddResp(u, r) \/ DelResp(u, r)) \/ SetRoot(u)
    BY <2>2, QuietSteps DEF AddResp, DelResp, SetRoot
  <2>3. CASE \/ \E p \in PortArgs : SetPort(u, p)
             \/ \E n \in ThreadArgs : SetThreadCount(u, n)
    BY <2>3, QuietSteps DEF SetPort, SetThreadCount
  <2> QED
    BY <1>1, <2>1, <2>2, <2>3 DEF UserCall
<1>2. CASE Destroy \/ Terminated \/ UNCHANGED vars
  BY <1>2, QuietSteps DEF Destroy, Terminated
<1>3. ASSUME NEW u \in Users, RunStep(u) \/ BindRefused(u) \/ StopLock(u) \/ StopStep(u)
      PROVE  [Reception!Next]_(Reception!vars)
  BY <1>3, ReceptionRun, ReceptionStop
<1>4. CASE LoopStep \/ AcceptFailed \/ \E c \in Conns : AcceptLost(c)
  BY <1>4, ReceptionLoop
<1>5. ASSUME NEW c \in Conns, Connect(c) \/ ServeStart(c) \/ ServeEnd(c)
      PROVE  [Reception!Next]_(Reception!vars)
  BY <1>5, ReceptionClient
<1> HIDE DEF vars, serviceVars, serverVars, loopVars, userVars, histVars
<1> QED
  BY <1>1, <1>2, <1>3, <1>4, <1>5 DEF Next, Step, LoopAcceptFails, LoopAcceptLost

(* No client is turned away by an open server, and none it has accepted is *)
(* dropped by stop.                                                        *)
THEOREM Refines == Spec => ImplementsReception
<1>1. Inv /\ [Next]_vars => [Reception!Next]_(Reception!vars)
  BY ReceptionNext DEF Step
<1> QED
  BY <1>1, ReceptionInit, InvHolds, PTL DEF Spec, ImplementsReception, Reception!Spec

-----------------------------------------------------------------------------
(***************************************************************************)
(* Theorems about Descriptors, for any number of users and clients and     *)
(* tables of any size.                                                     *)
(*                                                                         *)
(* The argument: every step is one of the service, so what has been shown  *)
(* for it holds here as well; and whoever has a valid number is the one    *)
(* that the table names for it.  A number is taken only when it is free    *)
(* and given back only by its owner, so a step of one owner leaves the     *)
(* entries of the others alone.                                            *)
(***************************************************************************)

(* A task or an iteration of the accept loop has the socket of c.          *)
InUse(c) == HasTask(c) \/ held = c

DTypes ==
    /\ table \in [Fds -> Conns \cup {Free, App, Listening}]
    /\ lfd \in Fds \cup {Invalid}
    /\ cfd \in [Conns -> Fds \cup {Invalid}]
    /\ held \in Conns \cup {Nobody}

(* The listener's number. *)
ListenerFd ==
    /\ IsValid(lfd) => table[lfd] = Listening
    /\ \A n \in Fds \ {0} : table[n] = Listening => n = lfd
    /\ Pos = "listen" \/ listener = "listening" => IsValid(lfd)
    /\ listener = "bound" => IsValid(lfd)
    /\ Pos \in Stopping \/ ~m_server => lfd = Invalid

(* The numbers of the connections. *)
ConnFds ==
    /\ \A c \in Conns : InUse(c) => IsValid(cfd[c]) /\ table[cfd[c]] = c
    /\ \A n \in Fds \ {0}, c \in Conns : table[n] = c => cfd[c] = n /\ InUse(c)

(* What the accept loop holds. *)
HeldInv ==
    /\ held # Nobody => apc \in {"test", "enqueue"}
    /\ \A c \in Conns : conn[c] = "accepted" => held = c
    /\ held \in Conns => conn[held] \in {"accepted", "queued", "serving", "closed"}

DInv ==
    /\ Inv
    /\ DTypes
    /\ ListenerFd
    /\ ConnFds
    /\ HeldInv

-----------------------------------------------------------------------------
(* Numbers.                                                                *)

LEMMA FdTypes ==
  /\ Fds \subseteq Nat
  /\ \A n \in Fds : IsValid(n) <=> n # 0
  /\ ~IsValid(Invalid)
  /\ Invalid \notin Fds
  /\ 0 \in Fds
  BY DescriptorsAssumption DEF Fds, IsValid, Invalid

(* What the kernel gives out was free.                                     *)
LEMMA NextFdIsFree ==
  /\ NextFd \in Fds \cup {Invalid}
  /\ NextFd # Invalid => NextFd \in FreeFds
  /\ FreeFds # {} => NextFd \in FreeFds
<1>1. FreeFds \subseteq Fds /\ Invalid \notin Fds
  BY FdTypes DEF FreeFds
<1>2. ASSUME FreeFds # {} PROVE Min(FreeFds) \in FreeFds
  <2> DEFINE R == OpToRel(<, Nat)
  <2>1. FreeFds \subseteq Nat
    BY <1>1, FdTypes
  <2>2. PICK n \in FreeFds : \A m \in FreeFds : <<m, n>> \notin R
    <3> HIDE DEF R
    <3>1. IsWellFoundedOn(R, Nat)
      BY NatLessThanWellFounded DEF R
    <3> QED
      BY <1>2, <2>1, <3>1, WFMin
  <2>3. \A m \in FreeFds : n <= m
    <3> SUFFICES ASSUME NEW m \in FreeFds PROVE n <= m
      OBVIOUS
    <3>1. ~(m < n)
      BY <2>1, <2>2 DEF OpToRel
    <3> QED
      BY <2>1, <3>1
  <2> QED
    BY <2>3 DEF Min
<1> QED
  BY <1>1, <1>2 DEF NextFd

-----------------------------------------------------------------------------
(* Steps.                                                                  *)

(* Without the table, a step is one of the service.                        *)
LEMMA StepOfService == [DNext]_dvars => [Step]_vars
<1> SUFFICES ASSUME [DNext]_dvars PROVE [Step]_vars
  OBVIOUS
<1>1. ASSUME NEW u \in Users, RunStepD(u) PROVE [Step]_vars
  BY <1>1 DEF RunStepD, RunBindD, RunBindFailsD, RunStep, Step, Next
<1>2. ASSUME NEW u \in Users, StopStepD(u) PROVE [Step]_vars
  BY <1>2 DEF StopStepD, StopServerD, StopStep, Step, Next
<1>3. CASE LoopStepD
  <2>1. CASE LoopTestD
    BY <2>1 DEF LoopTestD, LoopStep, Step, Next
  <2>2. ASSUME NEW c \in Conns, LoopAcceptD(c) PROVE [Step]_vars
    BY <2>2 DEF LoopAcceptD, LoopStep, Step, Next
  <2>3. ASSUME NEW c \in Conns, LoopAcceptLostD(c) PROVE [Step]_vars
    BY <2>3 DEF LoopAcceptLostD, Step
  <2>4. CASE \/ LoopBegin \/ LoopCallD \/ LoopEnterD \/ LoopSleep
             \/ \E c \in Conns : LoopEnqueue(c)
    BY <2>4 DEF LoopCallD, LoopEnterD, LoopStep, Step, Next
  <2> QED
    BY <1>3, <2>1, <2>2, <2>3, <2>4 DEF LoopStepD
<1>4. CASE LoopAcceptFailsD
  BY <1>4 DEF LoopAcceptFailsD, Step, Next
<1>5. ASSUME NEW c \in Conns, ConnectD(c) \/ ServeEndD(c) PROVE [Step]_vars
  BY <1>5 DEF ConnectD, ServeEndD, Step, Next
<1>6. CASE AppOpen \/ (\E n \in Fds : AppClose(n)) \/ UNCHANGED dvars
  BY <1>6 DEF AppOpen, AppClose, dvars
<1>7. CASE OtherD
  BY <1>7 DEF OtherD, Step, Next
<1> QED
  BY <1>1, <1>2, <1>3, <1>4, <1>5, <1>6, <1>7 DEF DNext

(* A step that leaves the table alone, and everything the invariant is     *)
(* about as well.                                                          *)
LEMMA TableStays ==
  ASSUME DInv, UNCHANGED <<table, lfd, cfd, held>>, Inv',
         \A c \in Conns : HasTask(c)' <=> HasTask(c),
         \A c \in Conns : conn'[c] = "accepted" <=> conn[c] = "accepted",
         held \in Conns => conn'[held] = conn[held] \/ conn'[held] \in {"serving", "closed"},
         held # Nobody => apc' = apc,
         Pos' = "listen" \/ listener' = "listening" \/ listener' = "bound" =>
             Pos = "listen" \/ listener \in {"listening", "bound"},
         Pos' \in Stopping \/ ~m_server' => Pos \in Stopping \/ ~m_server
  PROVE  DInv'
<1> USE DEF DInv
<1>1. DTypes'
  BY DEF DTypes
<1>2. ListenerFd'
  BY DEF ListenerFd
<1>3. \A c \in Conns : InUse(c)' <=> InUse(c)
  BY DEF InUse
<1>4. ConnFds'
  BY <1>1, <1>3 DEF ConnFds, DTypes
<1>5. HeldInv'
  BY DEF HeldInv, DTypes
<1> QED
  BY <1>1, <1>2, <1>4, <1>5

(* What the table has for n when the sockets in S are closed.              *)
LEMMA AfterClosing ==
  ASSUME DTypes, NEW S, NEW n \in Fds
  PROVE  Closing(S)[n] = IF n \in S /\ n # 0 THEN Free ELSE table[n]
  BY FdTypes DEF Closing

(* The sets the table draws from are apart. *)
LEMMA Apart ==
  /\ Free \notin Conns /\ App \notin Conns /\ Listening \notin Conns /\ Nobody \notin Conns
  /\ Free # App /\ App # Listening /\ Listening # Free
  BY DescriptorsAssumption

(* What does not touch the listener's entry keeps its number.              *)
LEMMA ListenerKept ==
  ASSUME DInv, lfd' = lfd,
         \A n \in Fds : table'[n] = Listening <=> table[n] = Listening,
         Pos' = "listen" \/ listener' = "listening" \/ listener' = "bound" =>
             Pos = "listen" \/ listener \in {"listening", "bound"},
         Pos' \in Stopping \/ ~m_server' => Pos \in Stopping \/ ~m_server
  PROVE  ListenerFd'
<1>1. IsValid(lfd) => lfd \in Fds
  BY FdTypes DEF DInv, DTypes
<1> QED
  BY <1>1 DEF DInv, ListenerFd, IsValid

(* What does not touch the entries of connections keeps theirs.            *)
LEMMA ConnsKept ==
  ASSUME DInv, cfd' = cfd,
         \A n \in Fds \ {0}, c \in Conns : table'[n] = c <=> table[n] = c,
         \A c \in Conns : InUse(c)' <=> InUse(c)
  PROVE  ConnFds'
<1>1. ASSUME NEW c \in Conns, InUse(c)' PROVE IsValid(cfd'[c]) /\ table'[cfd'[c]] = c
  <2>1. InUse(c) /\ IsValid(cfd[c]) /\ table[cfd[c]] = c
    BY <1>1 DEF DInv, ConnFds
  <2>2. cfd[c] \in Fds \ {0}
    BY <2>1, FdTypes DEF DInv, DTypes
  <2> QED
    BY <2>1, <2>2
<1>2. ASSUME NEW n \in Fds \ {0}, NEW c \in Conns, table'[n] = c
      PROVE  cfd'[c] = n /\ InUse(c)'
  <2>1. table[n] = c
    BY <1>2
  <2> QED
    BY <2>1 DEF DInv, ConnFds
<1> QED
  BY <1>1, <1>2 DEF ConnFds

(* The socket of c is closed with its last user.                           *)
LEMMA ConnCloses ==
  ASSUME DInv, NEW c \in Conns, InUse(c),
         table' = Closing({cfd[c]}), cfd' = [cfd EXCEPT ![c] = Invalid],
         \A d \in Conns : InUse(d)' <=> InUse(d) /\ d # c
  PROVE  /\ table' \in [Fds -> Conns \cup {Free, App, Listening}]
         /\ cfd' \in [Conns -> Fds \cup {Invalid}]
         /\ ConnFds'
         /\ \A n \in Fds : table'[n] = Listening <=> table[n] = Listening
<1> USE DEF DInv, DTypes
<1>1. cfd[c] \in Fds \ {0} /\ table[cfd[c]] = c
  BY FdTypes DEF ConnFds
<1>2. \A n \in Fds : table'[n] = IF n = cfd[c] THEN Free ELSE table[n]
  BY <1>1, AfterClosing
<1>3. table' \in [Fds -> Conns \cup {Free, App, Listening}]
  BY <1>1 DEF Closing
<1>4. cfd' \in [Conns -> Fds \cup {Invalid}]
  OBVIOUS
<1>5. \A n \in Fds : table'[n] = Listening <=> table[n] = Listening
  BY <1>1, <1>2, Apart
<1>6. ASSUME NEW d \in Conns, InUse(d)' PROVE IsValid(cfd'[d]) /\ table'[cfd'[d]] = d
  <2>1. d # c /\ IsValid(cfd[d]) /\ table[cfd[d]] = d
    BY <1>6 DEF ConnFds
  <2>2. cfd[d] \in Fds /\ cfd'[d] = cfd[d]
    BY <2>1, FdTypes
  <2>3. cfd[d] # cfd[c]
    BY <1>1, <2>1
  <2> QED
    BY <1>2, <2>1, <2>2, <2>3
<1>7. ASSUME NEW n \in Fds \ {0}, NEW d \in Conns, table'[n] = d
      PROVE  cfd'[d] = n /\ InUse(d)'
  <2>1. n # cfd[c] /\ table[n] = d
    BY <1>2, <1>7, Apart
  <2>2. cfd[d] = n /\ InUse(d)
    BY <2>1 DEF ConnFds
  <2>3. d # c
    BY <2>1, <2>2
  <2> QED
    BY <2>2, <2>3
<1> QED
  BY <1>3, <1>4, <1>5, <1>6, <1>7 DEF ConnFds

(* bind: the old socket of the listener is closed, the new one open.       *)
LEMMA ListenerOpens ==
  ASSUME DInv, BindOpens(NextFd)
  PROVE  /\ DTypes'
         /\ IsValid(lfd') => table'[lfd'] = Listening
         /\ \A n \in Fds \ {0} : table'[n] = Listening => n = lfd'
         /\ \A n \in Fds \ {0}, c \in Conns : table'[n] = c <=> table[n] = c
<1> USE DEF DInv, DTypes, BindOpens
<1>1. /\ lfd' = NextFd /\ cfd' = cfd /\ held' = held
      /\ NextFd \in Fds \cup {Invalid}
      /\ NextFd # Invalid => NextFd \in Fds /\ table[NextFd] = Free
  BY NextFdIsFree DEF FreeFds
<1>2. /\ table' \in [Fds -> Conns \cup {Free, App, Listening}]
      /\ \A n \in Fds : table'[n] = IF n = NextFd THEN Listening
                                    ELSE IF n = lfd /\ n # 0 THEN Free ELSE table[n]
  <2>1. CASE NextFd = Invalid
    BY <1>1, <2>1, FdTypes DEF Closing
  <2>2. CASE NextFd # Invalid
    BY <1>1, <2>2, FdTypes DEF Closing
  <2> QED
    BY <2>1, <2>2
<1>3. \A n \in Fds \ {0} : table[n] = Listening => n = lfd
  BY DEF ListenerFd
<1>4. \A n \in Fds \ {0} : n = lfd => table[n] = Listening
  BY FdTypes DEF ListenerFd
<1> QED
  BY <1>1, <1>2, <1>3, <1>4, FdTypes, Apart

LEMMA RunKeepsD ==
  ASSUME DInv, Inv', NEW u \in Users, RunStepD(u)
  PROVE  DInv'
<1> USE DEF serverVars, loopVars, userVars, serviceVars, At
<1>0. /\ Inv /\ TypeOK /\ Mutex /\ Core
      /\ {"run", "copy", "bind", "listen", "launch"} \subseteq Inside
  BY DEF DInv, Inv, Inside, UserStates
<1>1. ASSUME NEW f \in {"listen", "free"}, Pos = "bind", Pos' = f, BindOpens(NextFd),
             m_server' = m_server, apc' = apc, conn' = conn,
             listener' # "listening",
             f = "listen" \/ listener' = "bound" => IsValid(NextFd)
      PROVE  DInv'
  <2>1. DTypes' /\ lfd' = NextFd /\ cfd' = cfd /\ held' = held
    BY <1>1, ListenerOpens DEF BindOpens
  <2>2. m_server
    BY <1>0, <1>1 DEF Core, PlaceInv
  <2>3. ListenerFd'
    BY <1>1, <2>1, <2>2, ListenerOpens DEF ListenerFd, Stopping
  <2>4. \A c \in Conns : InUse(c)' <=> InUse(c)
    BY <1>1, <2>1 DEF InUse, HasTask
  <2>5. ConnFds'
    BY <1>1, <2>1, <2>4, ListenerOpens, ConnsKept
  <2>6. HeldInv'
    BY <1>1, <2>1 DEF HeldInv, DInv
  <2> QED
    BY <2>1, <2>3, <2>5, <2>6 DEF DInv
<1>2. CASE RunBindD(u)
  <2>1. Mutex' /\ Pos = "bind" /\ Pos' = "listen"
    BY <1>0, <1>2, PosMoves DEF RunBindD, RunBind
  <2> QED
    BY <1>1, <1>2, <2>1 DEF RunBindD, RunBind
<1>3. CASE RunBindFailsD(u)
  <2>1. BindRefused(u) /\ BindOpens(NextFd)
    BY <1>3 DEF RunBindFailsD, RunBindFails
  <2>2. Mutex' /\ Pos = "bind" /\ Pos' = "free"
    BY <1>0, <2>1, PosReturns DEF BindRefused
  <2> QED
    BY <1>1, <2>1, <2>2 DEF BindRefused
<1>4. CASE RunStep(u) /\ upc[u] # "bind" /\ UNCHANGED fdVars
  <2>1. UNCHANGED <<fdVars, conn>>
    BY <1>4 DEF RunStep, RunLock, RunRefused, RunReuse, RunCreate, RunCreateThrows, RunCopy,
                RunBind, RunBindFails, BindRefused, RunListen, RunListenFails, RunLaunch,
                RunLaunchThrows
  <2>2. held = Nobody \/ apc' = apc
    <3>1. CASE RunListen(u)
      <4>1. apc = "none"
        BY <1>0, <3>1, ServiceAssumption
           DEF RunListen, Mutex, Pos, Core, PlaceInv, StoppedInv
      <4> QED
        BY <4>1 DEF DInv, HeldInv
    <3>2. CASE RunLaunch(u)
      <4>1. apc = "none"
        BY <1>0, <3>2, ServiceAssumption
           DEF RunLaunch, Mutex, Pos, Core, PlaceInv
      <4> QED
        BY <4>1 DEF DInv, HeldInv
    <3> QED
      BY <1>4, <3>1, <3>2
         DEF RunStep, RunLock, RunRefused, RunReuse, RunCreate, RunCreateThrows, RunCopy,
             RunBind, RunBindFails, BindRefused, RunListenFails, RunLaunchThrows
  <2>3. /\ Pos' = "listen" \/ listener' = "listening" \/ listener' = "bound" =>
             Pos = "listen" \/ listener \in {"listening", "bound"}
        /\ Pos' \in Stopping \/ ~m_server' => Pos \in Stopping \/ ~m_server
    <3>1. CASE RunLock(u)
      <4>1. Pos' = "run"
        BY <1>0, <3>1, PosLocks DEF RunLock
      <4> QED
        BY <3>1, <4>1 DEF RunLock, Stopping
    <3>2. CASE RunReuse(u) \/ RunCopy(u)
      <4>1. Pos' = "bind"
        BY <1>0, <3>2, PosMoves DEF RunReuse, RunCopy
      <4> QED
        BY <3>2, <4>1 DEF RunReuse, RunCopy, Stopping
    <3>3. CASE RunCreate(u)
      <4>1. Pos' = "copy"
        BY <1>0, <3>3, PosMoves DEF RunCreate
      <4> QED
        BY <3>3, <4>1 DEF RunCreate, Stopping
    <3>4. CASE RunListen(u)
      <4>1. Pos = "listen" /\ Pos' \in {"in_run", "launch"}
        <5>1. CASE block[u]
          BY <1>0, <3>4, <5>1, PosMoves DEF RunListen, Inside, UserStates
        <5>2. CASE ~block[u]
          BY <1>0, <3>4, <5>2, PosMoves DEF RunListen, Inside, UserStates
        <5> QED
          BY <5>1, <5>2
      <4> QED
        BY <3>4, <4>1 DEF RunListen, Stopping
    <3>5. CASE RunRefused(u) \/ RunCreateThrows(u) \/ RunListenFails(u) \/ RunLaunch(u)
               \/ RunLaunchThrows(u)
      <4>1. Pos' = "free"
        BY <1>0, <3>5, PosReturns
           DEF RunRefused, RunCreateThrows, RunListenFails, RunLaunch, RunLaunchThrows
      <4> QED
        BY <3>5, <4>1
           DEF RunRefused, RunCreateThrows, RunListenFails, RunLaunch, RunLaunchThrows,
               Stopping
    <3> QED
      BY <1>4, <3>1, <3>2, <3>3, <3>4, <3>5
         DEF RunStep, RunBind, RunBindFails, BindRefused
  <2> QED
    BY <2>1, <2>2, <2>3, TableStays DEF fdVars, HasTask
<1> QED
  BY <1>2, <1>3, <1>4 DEF RunStepD

LEMMA StopKeepsD ==
  ASSUME DInv, Inv', NEW u \in Users, StopStepD(u)
  PROVE  DInv'
<1> USE DEF serverVars, loopVars, userVars, serviceVars, At
<1>0. /\ Inv /\ TypeOK /\ Mutex /\ Core
      /\ {"stop_server", "stop_join", "stop_reset", "stop_drain"} \subseteq Inside
  BY DEF DInv, Inv, Inside, UserStates
<1>1. CASE StopServerD(u)
  <2>1. Pos' = "stop_join"
    BY <1>0, <1>1, PosMoves DEF StopServerD, StopServer
  <2>2. /\ table' = Closing({lfd}) /\ lfd' = Invalid /\ cfd' = cfd /\ held' = held
        /\ apc' = apc /\ listener' = "none"
        /\ \A c \in Conns : conn'[c] = conn[c] \/ (conn[c] = "offered" /\ conn'[c] = "reset")
    BY <1>0, <1>1 DEF StopServerD, StopServer, ResetOffered, TypeOK
  <2>3. \A n \in Fds : table'[n] = IF n = lfd /\ n # 0 THEN Free ELSE table[n]
    BY <2>2, AfterClosing DEF DInv
  <2>4. DTypes'
    BY <2>2 DEF DInv, DTypes, Closing
  <2>5. /\ \A n \in Fds \ {0} : table[n] = Listening <=> n = lfd
        /\ lfd # 0 => lfd \notin Fds \/ table[lfd] = Listening
    BY FdTypes DEF DInv, ListenerFd
  <2>6. ListenerFd'
    BY <2>1, <2>2, <2>3, <2>5, FdTypes, Apart DEF ListenerFd
  <2>7. \A n \in Fds \ {0}, c \in Conns : table'[n] = c <=> table[n] = c
    BY <2>3, <2>5, Apart
  <2>8. \A c \in Conns : InUse(c)' <=> InUse(c)
    BY <2>2 DEF InUse, HasTask
  <2>9. ConnFds'
    BY <2>2, <2>7, <2>8, ConnsKept
  <2>10. HeldInv'
    BY <2>2 DEF HeldInv, DInv
  <2> QED
    BY <2>4, <2>6, <2>9, <2>10 DEF DInv
<1>2. CASE StopStep(u) /\ upc[u] # "stop_server" /\ UNCHANGED fdVars
  <2>1. UNCHANGED <<conn, listener>>
    BY <1>2 DEF StopStep, StopServer, StopJoin, StopReset, StopDrained
  <2>2. held # Nobody => apc' = apc
    BY <1>2 DEF StopStep, StopServer, StopJoin, StopReset, StopDrained, DInv, HeldInv
  <2>3. Pos \in Stopping /\ Pos' # "listen"
    <3>1. CASE StopJoin(u)
      BY <1>0, <3>1, PosMoves DEF StopJoin, Stopping
    <3>2. CASE StopReset(u)
      BY <1>0, <3>2, PosMoves DEF StopReset, Stopping
    <3>3. CASE StopDrained(u)
      BY <1>0, <3>3, PosReturns DEF StopDrained, Stopping
    <3> QED
      BY <1>2, <3>1, <3>2, <3>3 DEF StopStep, StopServer
  <2> QED
    BY <1>2, <2>1, <2>2, <2>3, TableStays DEF fdVars, HasTask
<1> QED
  BY <1>1, <1>2 DEF StopStepD

LEMMA LoopKeepsD ==
  ASSUME DInv, Inv', LoopStepD
  PROVE  DInv'
<1> USE DEF serverVars, loopVars, userVars, serviceVars, LoopAt
<1>0. Inv /\ TypeOK /\ Mutex /\ Core
  BY DEF DInv, Inv
<1>1. CASE LoopTestD
  <2>1. /\ held' = Nobody /\ lfd' = lfd /\ apc = "test"
        /\ conn' = conn /\ listener' = listener /\ m_server' = m_server
    BY <1>1 DEF LoopTestD, LoopTest, LoopEnd
  <2>2. Pos' = Pos \/ Pos' = "free"
    <3>1. CASE UNCHANGED <<m_mtx, upc>>
      BY <1>0, <3>1, PosStays
    <3>2. CASE aby \in Users /\ Return(aby)
      <4>1. upc[aby] \in Inside
        BY <1>0, <3>2 DEF Core, LoopInv, Mutex
      <4> QED
        BY <1>0, <3>2, <4>1, PosReturns
    <3> QED
      BY <1>1, <3>1, <3>2 DEF LoopTestD, LoopTest, LoopEnd
  <2>3. HeldInv'
    BY <1>0, <2>1, Apart DEF HeldInv, Core, ConnInv
  <2>4. CASE held \in Conns /\ ~HasTask(held)
    <3>1. table' = Closing({cfd[held]}) /\ cfd' = [cfd EXCEPT ![held] = Invalid]
      BY <1>1, <2>4 DEF LoopTestD, Dropped
    <3>2. \A d \in Conns : InUse(d)' <=> InUse(d) /\ d # held
      BY <2>1, <2>4, Apart DEF InUse, HasTask
    <3>3. /\ table' \in [Fds -> Conns \cup {Free, App, Listening}]
          /\ cfd' \in [Conns -> Fds \cup {Invalid}]
          /\ ConnFds'
          /\ \A n \in Fds : table'[n] = Listening <=> table[n] = Listening
      BY <2>4, <3>1, <3>2, ConnCloses DEF InUse
    <3>4. ListenerFd'
      BY <2>1, <2>2, <3>3, ListenerKept DEF Stopping
    <3>5. DTypes'
      BY <2>1, <3>3 DEF DTypes, DInv
    <3> QED
      BY <2>3, <3>3, <3>4, <3>5 DEF DInv
  <2>5. CASE ~(held \in Conns /\ ~HasTask(held))
    <3>1. table' = table /\ cfd' = cfd
      BY <1>1, <2>5 DEF LoopTestD, Dropped
    <3>2. \A d \in Conns : InUse(d)' <=> InUse(d)
      BY <2>1, <2>5, Apart DEF InUse, HasTask
    <3>3. ConnFds'
      BY <3>1, <3>2, ConnsKept
    <3>4. ListenerFd'
      BY <2>1, <2>2, <3>1, ListenerKept DEF Stopping
    <3>5. DTypes'
      BY <2>1, <3>1 DEF DTypes, DInv
    <3> QED
      BY <2>3, <3>3, <3>4, <3>5 DEF DInv
  <2> QED
    BY <2>4, <2>5
<1>2. ASSUME NEW c \in Conns, LoopAcceptD(c) PROVE DInv'
  <2>1. /\ apc = "blocked" /\ conn[c] = "offered" /\ apc' = "enqueue"
        /\ IsValid(NextFd) /\ table' = [table EXCEPT ![NextFd] = c]
        /\ cfd' = [cfd EXCEPT ![c] = NextFd] /\ held' = c /\ lfd' = lfd
        /\ UNCHANGED <<listener, m_server, m_mtx, upc>>
        /\ conn'[c] = "accepted"
        /\ \A d \in Conns \ {c} :
              conn'[d] = conn[d] \/ (conn[d] = "offered" /\ conn'[d] = "reset")
    BY <1>0, <1>2 DEF LoopAcceptD, LoopAccept, ResetOffered, TypeOK
  <2>2. NextFd \in Fds \ {0} /\ table[NextFd] = Free
    BY <2>1, NextFdIsFree, FdTypes DEF FreeFds
  <2>3. held = Nobody /\ \A d \in Conns : conn[d] # "accepted"
    BY <1>0, <2>1 DEF DInv, HeldInv, Core, ConnInv
  <2>4. \A d \in Conns : InUse(d)' <=> InUse(d) \/ d = c
    BY <2>1, <2>3, Apart DEF InUse, HasTask
  <2>5. ~InUse(c)
    BY <2>1, <2>3, Apart DEF InUse, HasTask
  <2>6. \A n \in Fds : table'[n] = IF n = NextFd THEN c ELSE table[n]
    BY <2>1 DEF DInv, DTypes
  <2>7. \A d \in Conns : cfd'[d] = IF d = c THEN NextFd ELSE cfd[d]
    BY <2>1 DEF DInv, DTypes
  <2>8. DTypes'
    BY <2>1, <2>2 DEF DInv, DTypes
  <2>9. ListenerFd'
    <3>1. \A n \in Fds : table'[n] = Listening <=> table[n] = Listening
      BY <2>2, <2>6, Apart
    <3>2. Pos' = Pos
      BY <1>0, <2>1, PosStays
    <3> QED
      BY <2>1, <3>1, <3>2, ListenerKept
  <2>10. ConnFds'
    <3>1. ASSUME NEW d \in Conns, InUse(d)' PROVE IsValid(cfd'[d]) /\ table'[cfd'[d]] = d
      <4>1. CASE d = c
        BY <2>1, <2>2, <2>6, <2>7, <4>1
      <4>2. CASE d # c
        <5>1. IsValid(cfd[d]) /\ table[cfd[d]] = d
          BY <2>4, <3>1, <4>2 DEF DInv, ConnFds
        <5>2. cfd[d] \in Fds /\ cfd[d] # NextFd
          BY <2>2, <5>1, FdTypes, Apart DEF DInv, DTypes
        <5> QED
          BY <2>6, <2>7, <4>2, <5>1, <5>2
      <4> QED
        BY <4>1, <4>2
    <3>2. ASSUME NEW n \in Fds \ {0}, NEW d \in Conns, table'[n] = d
          PROVE  cfd'[d] = n /\ InUse(d)'
      <4>1. CASE n = NextFd
        BY <2>4, <2>6, <2>7, <3>2, <4>1
      <4>2. CASE n # NextFd
        <5>1. cfd[d] = n /\ InUse(d)
          BY <2>6, <3>2, <4>2 DEF DInv, ConnFds
        <5>2. d # c
          BY <2>5, <5>1
        <5> QED
          BY <2>4, <2>7, <5>1, <5>2
      <4> QED
        BY <4>1, <4>2
    <3> QED
      BY <3>1, <3>2 DEF ConnFds
  <2>11. HeldInv'
    BY <2>1, <2>3 DEF HeldInv
  <2> QED
    BY <2>8, <2>9, <2>10, <2>11 DEF DInv
<1>3. ASSUME NEW c \in Conns, LoopAcceptLostD(c) PROVE DInv'
  <2>1. /\ apc = "blocked" /\ conn[c] = "offered"
        /\ NextFd = 0 /\ table' = [table EXCEPT ![0] = c]
        /\ UNCHANGED <<cfd, held, lfd, listener, m_server, m_mtx, upc>>
        /\ \A d \in Conns :
              conn'[d] = conn[d] \/ (conn[d] = "offered" /\ conn'[d] \in {"reset", "lost"})
    BY <1>0, <1>3 DEF LoopAcceptLostD, AcceptLost, ResetOffered, TypeOK
  <2>2. table[0] = Free /\ 0 \in Fds /\ 0 # Invalid
    BY <2>1, NextFdIsFree, FdTypes DEF FreeFds
  <2>3. \A n \in Fds : table'[n] = IF n = 0 THEN c ELSE table[n]
    BY <2>1 DEF DInv, DTypes
  <2>4. DTypes'
    BY <2>1 DEF DInv, DTypes
  <2>5. ListenerFd'
    <3>1. \A n \in Fds : table'[n] = Listening <=> table[n] = Listening
      BY <2>2, <2>3, Apart
    <3>2. Pos' = Pos
      BY <1>0, <2>1, PosStays
    <3> QED
      BY <2>1, <3>1, <3>2, ListenerKept
  <2>6. \A d \in Conns : InUse(d)' <=> InUse(d)
    BY <2>1 DEF InUse, HasTask
  <2>7. ConnFds'
    BY <2>1, <2>3, <2>6, ConnsKept
  <2>8. HeldInv'
    BY <2>1 DEF DInv, HeldInv
  <2> QED
    BY <2>4, <2>5, <2>7, <2>8 DEF DInv
<1>4. CASE \/ (LoopBegin \/ LoopSleep) /\ UNCHANGED fdVars
           \/ LoopCallD \/ LoopEnterD
  <2>1. /\ UNCHANGED <<conn, listener, m_server, m_mtx, upc, table, lfd, cfd, held>>
        /\ apc \notin {"test", "enqueue"}
    BY <1>4 DEF LoopBegin, LoopCall, LoopEnter, LoopSleep, LoopCallD, LoopEnterD, fdVars
  <2>2. Pos' = Pos
    BY <1>0, <2>1, PosStays
  <2>3. held = Nobody
    BY <2>1 DEF DInv, HeldInv
  <2> QED
    BY <2>1, <2>2, <2>3, TableStays, Apart DEF HasTask
<1>5. ASSUME NEW c \in Conns, LoopEnqueue(c), UNCHANGED fdVars PROVE DInv'
  <2>1. /\ UNCHANGED <<listener, m_server, m_mtx, upc, cfd, held, table, lfd>>
        /\ conn[c] = "accepted" /\ apc = "enqueue"
        /\ \A d \in Conns \ {c} : conn'[d] = conn[d]
        /\ (apc' = "test" /\ conn'[c] = "queued") \/ (apc' = apc /\ conn' = conn)
    BY <1>0, <1>5 DEF LoopEnqueue, TypeOK, fdVars
  <2>2. Pos' = Pos
    BY <1>0, <2>1, PosStays
  <2>3. held = c
    BY <2>1 DEF DInv, HeldInv
  <2>4. \A d \in Conns : InUse(d)' <=> InUse(d)
    BY <2>1, <2>3 DEF InUse, HasTask
  <2>5. ConnFds'
    BY <2>1, <2>4, ConnsKept
  <2>6. ListenerFd'
    BY <2>1, <2>2, ListenerKept
  <2>7. HeldInv'
    BY <2>1, <2>3 DEF DInv, HeldInv
  <2>8. DTypes'
    BY <2>1 DEF DInv, DTypes
  <2> QED
    BY <2>5, <2>6, <2>7, <2>8 DEF DInv
<1> QED
  BY <1>1, <1>2, <1>3, <1>4, <1>5 DEF LoopStepD

(* The table is full, or ::accept fails. *)
LEMMA AcceptFailsD ==
  ASSUME DInv, Inv', LoopAcceptFailsD
  PROVE  DInv'
<1> USE DEF serverVars, loopVars, userVars, serviceVars, LoopAt
<1>0. Inv /\ TypeOK /\ Mutex /\ Core
  BY DEF DInv, Inv
<1>1. /\ UNCHANGED <<fdVars, listener, m_server, m_mtx, upc>> /\ apc = "blocked"
      /\ \A d \in Conns : conn'[d] = conn[d] \/ (conn[d] = "offered" /\ conn'[d] = "reset")
  BY <1>0 DEF LoopAcceptFailsD, LoopAcceptFails, AcceptFailed, ResetOffered, TypeOK
<1>2. Pos' = Pos
  BY <1>0, <1>1, PosStays
<1>3. held = Nobody
  BY <1>1 DEF DInv, HeldInv
<1> QED
  BY <1>1, <1>2, <1>3, TableStays, Apart DEF fdVars, HasTask

LEMMA ClientKeepsD ==
  ASSUME DInv, Inv', NEW c \in Conns, ConnectD(c) \/ ServeEndD(c)
  PROVE  DInv'
<1> USE DEF serverVars, loopVars, userVars, serviceVars
<1>0. Inv /\ TypeOK /\ Mutex /\ Core
  BY DEF DInv, Inv
<1>1. /\ UNCHANGED <<listener, m_server, m_mtx, upc, apc, lfd, held>>
      /\ \A d \in Conns \ {c} : conn'[d] = conn[d]
  BY <1>0 DEF ConnectD, ServeEndD, Connect, ServeEnd, TypeOK, fdVars
<1>2. Pos' = Pos
  BY <1>0, <1>1, PosStays
<1>3. CASE ConnectD(c)
  <2>1. /\ held # c /\ conn[c] \in {"none", "closed", "reset", "lost"}
        /\ conn'[c] = "offered" /\ UNCHANGED fdVars
    BY <1>0, <1>3 DEF ConnectD, Connect, TypeOK
  <2> QED
    BY <1>1, <1>2, <2>1, TableStays DEF fdVars, HasTask
<1>4. CASE ServeEndD(c) /\ held = c
  <2>1. conn[c] = "serving" /\ conn'[c] = "closed" /\ table' = table /\ cfd' = cfd
    BY <1>0, <1>4 DEF ServeEndD, ServeEnd, Dropped, TypeOK
  <2>2. \A d \in Conns : InUse(d)' <=> InUse(d)
    BY <1>1, <1>4, <2>1 DEF InUse, HasTask
  <2>3. ConnFds'
    BY <2>1, <2>2, ConnsKept
  <2>4. ListenerFd'
    BY <1>1, <1>2, <2>1, ListenerKept
  <2>5. HeldInv'
    BY <1>1, <2>1, <1>4 DEF DInv, HeldInv
  <2>6. DTypes'
    BY <1>1, <2>1 DEF DInv, DTypes
  <2> QED
    BY <2>3, <2>4, <2>5, <2>6 DEF DInv
<1>5. CASE ServeEndD(c) /\ held # c
  <2>1. /\ conn[c] = "serving" /\ conn'[c] = "closed"
        /\ table' = Closing({cfd[c]}) /\ cfd' = [cfd EXCEPT ![c] = Invalid]
    BY <1>0, <1>5 DEF ServeEndD, ServeEnd, Dropped, TypeOK
  <2>2. InUse(c) /\ \A d \in Conns : InUse(d)' <=> InUse(d) /\ d # c
    BY <1>1, <1>5, <2>1 DEF InUse, HasTask
  <2>3. /\ table' \in [Fds -> Conns \cup {Free, App, Listening}]
        /\ cfd' \in [Conns -> Fds \cup {Invalid}]
        /\ ConnFds'
        /\ \A n \in Fds : table'[n] = Listening <=> table[n] = Listening
    BY <2>1, <2>2, ConnCloses
  <2>4. ListenerFd'
    BY <1>1, <1>2, <2>3, ListenerKept
  <2>5. HeldInv'
    BY <1>1, <2>1, <1>5 DEF DInv, HeldInv
  <2>6. DTypes'
    BY <1>1, <2>3 DEF DInv, DTypes
  <2> QED
    BY <2>3, <2>4, <2>5, <2>6 DEF DInv
<1> QED
  BY <1>3, <1>4, <1>5

(* Files of the program's own, and the calls without sockets. *)
LEMMA OthersKeepD ==
  ASSUME DInv, Inv', AppOpen \/ (\E n \in Fds : AppClose(n)) \/ OtherD \/ UNCHANGED dvars
  PROVE  DInv'
<1> USE DEF vars, serverVars, loopVars, userVars, serviceVars
<1>0. Inv /\ TypeOK /\ Mutex /\ Core
  BY DEF DInv, Inv
<1>1. ASSUME NEW n \in Fds, NEW e \in {Free, App}, table[n] \in {Free, App},
             table' = [table EXCEPT ![n] = e], UNCHANGED <<vars, lfd, cfd, held>>
      PROVE  DInv'
  <2>1. \A m \in Fds : table'[m] = IF m = n THEN e ELSE table[m]
    BY <1>1 DEF DInv, DTypes
  <2>2. DTypes'
    BY <1>1 DEF DInv, DTypes
  <2>3. Pos' = Pos
    BY <1>0, <1>1, PosStays
  <2>4. ListenerFd'
    BY <1>1, <2>1, <2>3, Apart, ListenerKept
  <2>5. \A c \in Conns : InUse(c)' <=> InUse(c)
    BY <1>1 DEF InUse, HasTask
  <2>6. \A m \in Fds \ {0}, c \in Conns : table'[m] = c <=> table[m] = c
    BY <1>1, <2>1, Apart
  <2>7. ConnFds'
    BY <1>1, <2>5, <2>6, ConnsKept
  <2>8. HeldInv'
    BY <1>1 DEF DInv, HeldInv
  <2> QED
    BY <2>2, <2>4, <2>7, <2>8 DEF DInv
<1>2. CASE AppOpen
  BY <1>1, <1>2, NextFdIsFree DEF AppOpen, FreeFds
<1>3. ASSUME NEW n \in Fds, AppClose(n) PROVE DInv'
  BY <1>1, <1>3 DEF AppClose
<1>4. CASE OtherD \/ UNCHANGED dvars
  <2>1. ASSUME NEW u \in Users, UserCall(u)
        PROVE  /\ UNCHANGED <<apc, listener, m_server, conn>>
               /\ Pos' = Pos
    BY <1>0, <2>1, CallsLeaveAlone
  <2>2. ASSUME NEW u \in Users, StopLock(u)
        PROVE  UNCHANGED <<apc, listener, m_server, conn>> /\ Pos' = "stop_server"
    <3>1. "stop_server" \in Inside
      BY DEF Inside, UserStates
    <3> QED
      BY <1>0, <2>2, <3>1, PosLocks DEF StopLock
  <2>3. CASE Destroy \/ Terminated \/ (\E c \in Conns : ServeStart(c)) \/ UNCHANGED dvars
    <3>1. UNCHANGED <<apc, listener, m_server, m_mtx, upc>>
      BY <2>3 DEF Destroy, Terminated, ServeStart, dvars
    <3>2. \A c \in Conns : conn'[c] = conn[c] \/ (conn[c] = "queued" /\ conn'[c] = "serving")
      BY <1>0, <2>3 DEF Destroy, Terminated, ServeStart, dvars, TypeOK
    <3>3. Pos' = Pos
      BY <1>0, <3>1, PosStays
    <3>4. UNCHANGED fdVars
      BY <1>4 DEF OtherD, dvars
    <3> QED
      BY <3>1, <3>2, <3>3, <3>4, TableStays DEF fdVars, HasTask
  <2>4. CASE \E u \in Users : UserCall(u) \/ StopLock(u)
    <3>1. UNCHANGED fdVars
      BY <1>4 DEF OtherD, dvars
    <3> QED
      BY <2>1, <2>2, <2>4, <3>1, TableStays DEF fdVars, HasTask, Stopping
  <2> QED
    BY <1>4, <2>3, <2>4 DEF OtherD
<1> QED
  BY <1>1, <1>2, <1>3, <1>4

-----------------------------------------------------------------------------
(* The invariant.                                                          *)

LEMMA DInvInit == DInit => DInv
<1> SUFFICES ASSUME DInit PROVE DInv
  OBVIOUS
<1>1. Inv
  BY InvInit DEF DInit
<1>2. DTypes
  BY FdTypes DEF DInit, DTypes
<1>3. \A c \in Conns : ~InUse(c) /\ conn[c] = "none"
  BY Apart DEF DInit, Init, InUse, HasTask
<1>4. ListenerFd
  BY FdTypes, Apart DEF DInit, Init, ListenerFd, Pos, Stopping
<1>5. ConnFds
  BY <1>3, Apart DEF DInit, ConnFds
<1>6. HeldInv
  BY <1>3, Apart DEF DInit, HeldInv
<1> QED
  BY <1>1, <1>2, <1>4, <1>5, <1>6 DEF DInv

LEMMA DInvNext == DInv /\ [DNext]_dvars => DInv'
<1> SUFFICES ASSUME DInv, [DNext]_dvars PROVE DInv'
  OBVIOUS
<1>1. Inv'
  BY StepOfService, InvNext DEF DInv
<1> QED
  BY <1>1, RunKeepsD, StopKeepsD, LoopKeepsD, AcceptFailsD, ClientKeepsD, OthersKeepD
     DEF DNext

LEMMA DInvHolds == DSpec => []DInv
  BY DInvInit, DInvNext, PTL DEF DSpec

-----------------------------------------------------------------------------
(* The number the loop is about to give to ::accept.                       *)

AcceptFd ==
    apc = "entered" =>
        /\ afd \in Fds \ {0}
        /\ \/ Pos # "stop_join" /\ listener = "listening" /\ afd = lfd
           \/ Pos = "stop_join" /\ table[afd] \in {Free, App}

LEMMA AcceptFdNext ==
  ASSUME DInv, AcceptFd, [DNext]_dvars
  PROVE  AcceptFd'
<1> USE DEF serverVars, loopVars, userVars, serviceVars, fdVars
<1>0. /\ Inv /\ TypeOK /\ Mutex /\ Core /\ DTypes
      /\ {"bind", "stop_server", "stop_join", "stop_reset", "stop_drain"} \subseteq Inside
  BY DEF DInv, Inv, Inside, UserStates
<1>1. ASSUME Looping PROVE m_status = "running" /\ (listener = "none" => Pos = "stop_join")
  BY <1>0, <1>1 DEF Looping, TypeOK, Core, StoppedInv, RunningInv, PlaceInv, Stopping
<1>2. CASE LoopCallD
  <2>1. UNCHANGED <<listener, m_mtx, upc, lfd, table>> /\ afd' = lfd /\ apc = "call"
    BY <1>2 DEF LoopCallD, LoopCall, LoopAt
  <2>2. CASE listener = "none"
    BY <1>2, <2>2 DEF LoopCallD, LoopCall, LoopAt, AcceptFd
  <2>3. CASE listener # "none"
    <3>1. Pos \notin Stopping /\ listener = "listening"
      BY <1>0, <1>1, <2>1, <2>3 DEF Looping, Core, RunningInv, PlaceInv
    <3>2. lfd \in Fds \ {0}
      BY <1>0, <3>1, FdTypes DEF DInv, ListenerFd, DTypes
    <3>3. Pos' = Pos
      BY <1>0, <2>1, PosStays
    <3> QED
      BY <2>1, <3>1, <3>2, <3>3 DEF AcceptFd, Stopping
  <2> QED
    BY <2>2, <2>3
<1>3. ASSUME ~LoopCallD, apc' = "entered" PROVE apc = "entered" /\ afd' = afd
  <2>1. CASE UNCHANGED <<apc, afd>>
    BY <1>3, <2>1
  <2>2. ASSUME NEW u \in Users, RunStepD(u) PROVE UNCHANGED <<apc, afd>>
    BY <1>3, <2>2
       DEF RunStepD, RunBindD, RunBindFailsD, BindOpens, RunStep, RunLock, RunRefused,
           RunReuse, RunCreate, RunCreateThrows, RunCopy, RunBind, RunBindFails,
           BindRefused, RunListen, RunListenFails, RunLaunch, RunLaunchThrows
  <2>3. ASSUME NEW u \in Users, StopStepD(u) PROVE UNCHANGED <<apc, afd>>
    BY <1>3, <2>3
       DEF StopStepD, StopServerD, StopStep, StopServer, StopJoin, StopReset, StopDrained
  <2>4. ~LoopStepD
    BY <1>3 DEF LoopStepD, LoopTestD, LoopTest, LoopEnd, LoopBegin, LoopEnterD, LoopEnter,
                LoopAcceptD, LoopAccept, LoopAcceptLostD, AcceptLost, LoopEnqueue, LoopSleep,
                LoopAt
  <2>5. ~LoopAcceptFailsD
    BY <1>3 DEF LoopAcceptFailsD, LoopAcceptFails, AcceptFailed
  <2>6. ASSUME NEW c \in Conns, ConnectD(c) \/ ServeEndD(c) PROVE UNCHANGED <<apc, afd>>
    BY <2>6 DEF ConnectD, ServeEndD, Connect, ServeEnd
  <2>7. CASE AppOpen \/ (\E n \in Fds : AppClose(n)) \/ UNCHANGED dvars
    BY <2>1, <2>7 DEF AppOpen, AppClose, dvars, vars
  <2>8. CASE OtherD
    BY <1>0, <2>1, <2>8, CallsLeaveAlone
       DEF OtherD, StopLock, Destroy, ServeStart, Terminated, vars
  <2> QED
    BY <2>1, <2>2, <2>3, <2>4, <2>5, <2>6, <2>7, <2>8 DEF DNext
<1>4. ASSUME apc = "entered", afd' = afd, UNCHANGED <<listener, lfd>>,
             Pos' = Pos \/ (Pos # "stop_join" /\ Pos' # "stop_join"),
             \A n \in Fds : table[n] \in {Free, App} => table'[n] \in {Free, App}
      PROVE  AcceptFd'
  BY <1>4 DEF AcceptFd
<1>5. ASSUME apc = "entered", NEW u \in Users, RunStepD(u) PROVE AcceptFd'
  <2>1. m_status = "running"
    BY <1>1, <1>5 DEF Looping
  <2>2. ~At(u, "bind") /\ ~At(u, "launch")
    <3>1. upc[u] = "bind" => Pos = "bind"
      BY <1>0, Holder
    <3>2. upc[u] = "launch" => Pos = "launch"
      BY <1>0, Holder DEF Inside, UserStates
    <3> QED
      BY <1>0, <1>5, <2>1, <3>1, <3>2 DEF Core, PlaceInv, At
  <2>3. ~At(u, "copy") /\ ~At(u, "listen")
    <3>1. upc[u] = "copy" => Pos = "copy"
      BY <1>0, Holder DEF Inside, UserStates
    <3>2. upc[u] = "listen" => Pos = "listen"
      BY <1>0, Holder DEF Inside, UserStates
    <3> QED
      BY <1>0, <2>1, <3>1, <3>2 DEF Core, PlaceInv, At
  <2>4. RunLock(u) \/ RunRefused(u)
    BY <1>5, <2>1, <2>2, <2>3
       DEF RunStepD, RunBindD, RunBindFailsD, RunStep, RunReuse, RunCreate,
           RunCreateThrows, RunCopy, RunBind, RunBindFails, BindRefused, RunListen,
           RunListenFails, RunLaunch, RunLaunchThrows
  <2>5. UNCHANGED fdVars
    BY <1>5, <2>2 DEF RunStepD, RunBindD, RunBindFailsD, RunBind, RunBindFails, BindRefused
  <2>6. Pos # "stop_join" /\ Pos' # "stop_join"
    <3>1. CASE RunLock(u)
      BY <1>0, <3>1, PosLocks DEF RunLock, Inside, UserStates
    <3>2. CASE RunRefused(u)
      BY <1>0, <3>2, PosReturns DEF RunRefused, At, Inside, UserStates
    <3> QED
      BY <2>4, <3>1, <3>2
  <2>7. listener' = listener
    BY <2>4 DEF RunLock, RunRefused
  <2> QED
    BY <1>4, <1>5, <2>5, <2>6, <2>7
<1>6. ASSUME apc = "entered", NEW u \in Users, StopStepD(u) PROVE AcceptFd'
  <2>1. CASE StopServerD(u)
    <3>1. Pos = "stop_server" /\ Pos' = "stop_join"
      BY <1>0, <2>1, PosMoves DEF StopServerD, StopServer, At
    <3>2. afd' = afd /\ table' = Closing({lfd})
      BY <2>1 DEF StopServerD
    <3>3. afd \in Fds \ {0} /\ afd = lfd
      BY <1>6, <3>1 DEF AcceptFd
    <3>4. table'[afd] = Free
      BY <1>0, <3>2, <3>3, AfterClosing
    <3> QED
      BY <3>1, <3>2, <3>3, <3>4 DEF AcceptFd
  <2>2. Pos \notin {"stop_reset", "stop_drain"} /\ (Pos = "stop_join" => aby = LoopThread)
    BY <1>0, <1>6 DEF TypeOK, Core, PlaceInv, LoopInv
  <2>3. ~StopJoin(u) /\ ~StopReset(u) /\ ~StopDrained(u)
    <3>1. ASSUME StopJoin(u) PROVE FALSE
      <4>1. Pos = "stop_join"
        BY <1>0, <3>1, Holder DEF StopJoin, At
      <4>2. m_thread
        BY <1>0, <2>2, <4>1 DEF Core, LoopInv
      <4> QED
        BY <1>6, <3>1, <4>2 DEF StopJoin
    <3>2. ASSUME StopReset(u) \/ StopDrained(u) PROVE FALSE
      <4>1. upc[u] \in {"stop_reset", "stop_drain"}
        BY <3>2 DEF StopReset, StopDrained, At
      <4>2. Pos \in {"stop_reset", "stop_drain"}
        BY <1>0, <4>1, Holder
      <4> QED
        BY <2>2, <4>2
    <3> QED
      BY <3>1, <3>2
  <2> QED
    BY <1>6, <2>1, <2>3 DEF StopStepD, StopStep, StopServer, At
<1>7. ASSUME apc = "entered", afd' = afd, NEW c \in Conns, ConnectD(c) \/ ServeEndD(c)
      PROVE  AcceptFd'
  <2>1. UNCHANGED <<listener, lfd, m_mtx, upc>>
    BY <1>7 DEF ConnectD, ServeEndD, Connect, ServeEnd
  <2>2. table' = table \/ table' = Closing({cfd[c]})
    BY <1>7 DEF ConnectD, ServeEndD, Dropped
  <2>3. \A n \in Fds : table[n] \in {Free, App} => table'[n] \in {Free, App}
    BY <1>0, <2>2, AfterClosing
  <2>4. Pos' = Pos
    BY <1>0, <2>1, PosStays
  <2> QED
    BY <1>4, <1>7, <2>1, <2>3, <2>4
<1>8. ASSUME apc = "entered", afd' = afd, AppOpen \/ (\E n \in Fds : AppClose(n))
      PROVE  AcceptFd'
  <2>1. UNCHANGED <<listener, lfd, m_mtx, upc>>
    BY <1>8 DEF AppOpen, AppClose, vars
  <2>2. \E n \in Fds, e \in {Free, App} : table' = [table EXCEPT ![n] = e]
    BY <1>8, NextFdIsFree, FdTypes DEF AppOpen, AppClose
  <2>3. \A n \in Fds : table[n] \in {Free, App} => table'[n] \in {Free, App}
    BY <1>0, <2>2 DEF DTypes
  <2>4. Pos' = Pos
    BY <1>0, <2>1, PosStays
  <2> QED
    BY <1>4, <1>8, <2>1, <2>3, <2>4
<1>9. ASSUME apc = "entered", OtherD \/ UNCHANGED dvars PROVE AcceptFd'
  <2>1. UNCHANGED fdVars
    BY <1>9 DEF OtherD, dvars
  <2>2. ASSUME NEW u \in Users, UserCall(u) PROVE listener' = listener /\ Pos' = Pos
    BY <1>0, <2>2, CallsLeaveAlone
  <2>3. ASSUME NEW u \in Users, StopLock(u)
        PROVE  listener' = listener /\ Pos = "free" /\ Pos' = "stop_server"
    BY <1>0, <2>3, PosLocks DEF StopLock, Inside, UserStates
  <2>4. CASE Destroy \/ Terminated \/ (\E c \in Conns : ServeStart(c)) \/ UNCHANGED dvars
    <3>1. UNCHANGED <<listener, m_mtx, upc>>
      BY <2>4 DEF Destroy, Terminated, ServeStart, dvars, vars
    <3> QED
      BY <1>0, <1>4, <1>9, <2>1, <3>1, PosStays
  <2>5. CASE \E u \in Users : UserCall(u) \/ StopLock(u)
    BY <1>4, <1>9, <2>1, <2>2, <2>3, <2>5
  <2> QED
    BY <1>9, <2>4, <2>5 DEF OtherD
<1>10. CASE apc' # "entered"
  BY <1>10 DEF AcceptFd
<1>11. ASSUME apc = "entered", apc' = "entered", ~LoopCallD
       PROVE  ~LoopStepD /\ ~LoopAcceptFailsD
  BY <1>11 DEF LoopStepD, LoopTestD, LoopTest, LoopEnd, LoopBegin, LoopEnterD, LoopEnter,
               LoopAcceptD, LoopAccept, LoopAcceptLostD, AcceptLost, LoopEnqueue, LoopSleep,
               LoopAt, LoopAcceptFailsD, LoopAcceptFails, AcceptFailed
<1> QED
  BY <1>2, <1>3, <1>5, <1>6, <1>7, <1>8, <1>9, <1>10, <1>11 DEF DNext

LEMMA AcceptFdHolds == DSpec => []AcceptFd
<1>1. DInit => AcceptFd
  BY DEF DInit, Init, AcceptFd
<1>2. DInv /\ AcceptFd /\ [DNext]_dvars => AcceptFd'
  BY AcceptFdNext
<1> QED
  BY <1>1, <1>2, DInvHolds, PTL DEF DSpec

-----------------------------------------------------------------------------
(* Theorems.                                                               *)

(* Neither the listener nor a connection is ever left with a number that   *)
(* has been closed and given to somebody else; and when the loop calls     *)
(* ::accept with a number that a stop has closed, it is free or a file of  *)
(* the program's own.                                                      *)
THEOREM NumbersAreOwned == DSpec => []NoStaleNumber
<1>1. DInv /\ AcceptFd => NoStaleNumber
  <2> SUFFICES ASSUME DInv, AcceptFd PROVE NoStaleNumber
    OBVIOUS
  <2>1. \A c \in Conns : conn[c] = "accepted" \/ HasTask(c) \/ held = c => InUse(c)
    BY DEF DInv, HeldInv, InUse
  <2>2. /\ IsValid(lfd) => table[lfd] = Listening
        /\ listener \in {"bound", "listening"} => IsValid(lfd)
    BY DEF DInv, ListenerFd
  <2>3. \A c \in Conns :
           conn[c] = "accepted" \/ HasTask(c) \/ held = c =>
               IsValid(cfd[c]) /\ table[cfd[c]] = c
    BY <2>1 DEF DInv, ConnFds
  <2>4. ASSUME apc = "entered"
        PROVE  /\ IsValid(afd)
               /\ \/ listener = "listening" /\ afd = lfd
                  \/ /\ \E u \in Users : m_mtx = u /\ upc[u] = "stop_join"
                     /\ table[afd] \in {Free, App}
    <3>1. IsValid(afd)
      BY <2>4, FdTypes DEF AcceptFd
    <3>2. Pos = "stop_join" => \E u \in Users : m_mtx = u /\ upc[u] = "stop_join"
      BY Holder DEF DInv, Inv, Inside, UserStates
    <3> QED
      BY <2>4, <3>1, <3>2 DEF AcceptFd
  <2> QED
    BY <2>2, <2>3, <2>4 DEF NoStaleNumber
<1> QED
  BY <1>1, DInvHolds, AcceptFdHolds, PTL

(* Each open socket with a valid number has somebody who will close it,    *)
(* and when stop has returned none is open.                                *)
THEOREM SocketsAreClosed == DSpec => []NothingLeaks
<1>1. DInv => NothingLeaks
  <2> SUFFICES ASSUME DInv PROVE NothingLeaks
    OBVIOUS
  <2>1. /\ \A n \in Fds \ {0} : table[n] = Listening => n = lfd
        /\ \A n \in Fds \ {0}, c \in Conns : table[n] = c => cfd[c] = n /\ InUse(c)
    BY DEF DInv, ListenerFd, ConnFds
  <2>2. ASSUME ~m_server, NEW n \in Fds \ {0} PROVE table[n] \in {Free, App}
    <3>1. lfd = Invalid
      BY <2>2 DEF DInv, ListenerFd
    <3>2. m_status = "stopped"
      BY <2>2 DEF DInv, Inv, TypeOK, Core, RunningInv
    <3>3. apc = "none" /\ \A c \in Conns : Gone(c)
      BY <3>2 DEF DInv, Inv, Core, StoppedInv
    <3>4. \A c \in Conns : ~InUse(c)
      BY <3>3, Apart DEF DInv, HeldInv, InUse, HasTask, Gone
    <3>5. table[n] \in Conns \cup {Free, App, Listening}
      BY DEF DInv, DTypes
    <3> QED
      BY <2>1, <3>1, <3>4, <3>5, FdTypes
  <2> QED
    BY <2>1, <2>2 DEF NothingLeaks, InUse
<1> QED
  BY <1>1, DInvHolds, PTL

(* To a client the service is the same reception desk when numbers are     *)
(* scarce, taken for failures or used up: no client the server has         *)
(* accepted is dropped.                                                    *)
THEOREM RefinesWithNumbers == DSpec => ImplementsReception
<1>1. DInit => Reception!Init
  BY ReceptionInit DEF DInit
<1>2. DInv /\ [DNext]_dvars => [Reception!Next]_(Reception!vars)
  BY StepOfService, ReceptionNext DEF DInv
<1> QED
  BY <1>1, <1>2, DInvHolds, PTL DEF DSpec, ImplementsReception, Reception!Spec

=============================================================================
