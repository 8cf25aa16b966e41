----------------------------- MODULE Descriptors -----------------------------
(***************************************************************************)
(* The numbers of the sockets: what the constructors and destructors of    *)
(* TransportSocket, TcpListener and TcpSocket (jtransportsocket,           *)
(* jtcplistener and jtcpsocket in src/src) do to the table of open files   *)
(* while the service of Service.tla runs.  Every action is one of Service  *)
(* together with its effect on the table.                                  *)
(*                                                                         *)
(* The kernel gives out the lowest free number.  isValid() takes number 0  *)
(* for no socket, and that number is free as soon as the program has       *)
(* closed its standard input.  The program opens and closes files of its   *)
(* own, none of them a listening socket, and uses up numbers as well:      *)
(* besides its standard input one at a time, so that some are left.        *)
(*                                                                         *)
(* A connection's socket is shared by the handle of the accept loop, until *)
(* the end of the iteration, and by the task in the pool; it is closed     *)
(* with the last of the two.                                               *)
(***************************************************************************)
EXTENDS Service, Integers, FiniteSetsExt

CONSTANTS
    MaxFd,      \* bound: the numbers are 0..MaxFd (FD_SETSIZE, ulimit -n)
    Free,       \* an entry that is not in use
    App,        \* a file of the program's own
    Listening   \* the listener's socket

ASSUME DescriptorsAssumption ==
    /\ MaxFd \in Nat
    /\ Free # App /\ App # Listening /\ Listening # Free
    /\ {Free, App, Listening, Nobody} \cap Conns = {}

VARIABLES
    table,  \* who uses each number
    lfd,    \* _socket of the listener, Invalid if ::socket failed
    cfd,    \* _socket of each client's TcpSocket
    held,   \* the connection whose handle is a local of the accept loop
    afd     \* _socket of the listener the loop is inside accept() of, which it
            \* is about to give to ::accept; Invalid when it is not

fdVars == <<table, lfd, cfd, held, afd>>
dvars == <<vars, fdVars>>

Invalid == -1
Fds == 0..MaxFd

DInit ==
    /\ Init
    /\ table = [n \in Fds |-> IF n = 0 THEN App ELSE Free]
    /\ lfd = Invalid
    /\ cfd = [c \in Conns |-> Invalid]
    /\ held = Nobody
    /\ afd = Invalid

FreeFds == {n \in Fds : table[n] = Free}

(* What the next ::socket, ::accept or ::open returns.                     *)
NextFd == IF FreeFds = {} THEN Invalid ELSE Min(FreeFds)

IsValid(fd) == fd > 0

(* ~TransportSocket for the sockets with the numbers in S.                 *)
Closing(S) == [n \in Fds |-> IF n \in S /\ IsValid(n) THEN Free ELSE table[n]]

(* A reference to the socket of c is gone; whether another one remains.    *)
Dropped(c, remains) ==
    /\ table' = IF remains THEN table ELSE Closing({cfd[c]})
    /\ cfd' = IF remains THEN cfd ELSE [cfd EXCEPT ![c] = Invalid]

(* The task of a connection, which holds a copy of its handle.             *)
HasTask(c) == conn[c] \in {"queued", "serving"}

-----------------------------------------------------------------------------
(* Mutations of actions below; they take no part in DNext.                 *)

(* The task keeps a handle to itself. *)
ServeEndCycle(c) ==
    /\ ServeEnd(c)
    /\ UNCHANGED fdVars

(* The accept loop closes what it has handed over. *)
LoopTestCloses ==
    /\ LoopTest \/ LoopEnd
    /\ held' = Nobody
    /\ table' = IF held \in Conns THEN Closing({cfd[held]}) ELSE table
    /\ UNCHANGED <<lfd, cfd, afd>>

-----------------------------------------------------------------------------
(* The listener.                                                           *)

(* _tcpServer = TcpListener::create(): the new socket is there before the  *)
(* old one is closed.                                                      *)
BindOpens(fd) ==
    /\ table' = IF fd = Invalid THEN Closing({lfd})
                ELSE [Closing({lfd}) EXCEPT ![fd] = Listening]
    /\ lfd' = fd
    /\ UNCHANGED <<cfd, held, afd>>

RunBindD(u) ==
    /\ RunBind(u)
    /\ IsValid(NextFd)
    /\ BindOpens(NextFd)

(* bind refuses a socket that is not valid, number 0 among them, without   *)
(* a call to the system; otherwise ::bind fails.                           *)
RunBindFailsD(u) ==
    /\ IF IsValid(NextFd) THEN RunBindFails(u)
       ELSE BindRefused(u) /\ UNCHANGED failures
    /\ BindOpens(NextFd)

StopServerD(u) ==
    /\ StopServer(u)
    /\ table' = Closing({lfd})
    /\ lfd' = Invalid
    /\ UNCHANGED <<cfd, held, afd>>

-----------------------------------------------------------------------------
(* The accept loop.                                                        *)

(* From here on the loop works on the object _tcpServer pointed to, and    *)
(* with its number, whatever stop makes of them.                           *)
LoopCallD ==
    /\ LoopCall
    /\ afd' = lfd
    /\ UNCHANGED <<table, lfd, cfd, held>>

(* ::accept has been called with afd, which the kernel looks up once.      *)
LoopEnterD ==
    /\ LoopEnter
    /\ afd' = Invalid
    /\ UNCHANGED <<table, lfd, cfd, held>>

LoopAcceptD(c) ==
    /\ LoopAccept(c)
    /\ IsValid(NextFd)
    /\ table' = [table EXCEPT ![NextFd] = c]
    /\ cfd' = [cfd EXCEPT ![c] = NextFd]
    /\ held' = c
    /\ UNCHANGED <<lfd, afd>>

(* Number 0 is nobody's from the start, and stays in use.                  *)
LoopAcceptLostD(c) ==
    /\ AcceptLost(c)
    /\ NextFd = 0
    /\ table' = [table EXCEPT ![0] = c]
    /\ UNCHANGED <<failures, lfd, cfd, held, afd>>

(* The table is full (EMFILE), or ::accept fails for another reason.       *)
LoopAcceptFailsD ==
    /\ IF NextFd = Invalid /\ InState("offered") # {}
         THEN AcceptFailed /\ UNCHANGED failures
         ELSE LoopAcceptFails
    /\ UNCHANGED fdVars

(* The locals of an iteration are destroyed at its end.                    *)
LoopTestD ==
    /\ LoopTest \/ LoopEnd
    /\ held' = Nobody
    /\ IF held \in Conns THEN Dropped(held, HasTask(held))
       ELSE UNCHANGED <<table, cfd>>
    /\ UNCHANGED <<lfd, afd>>

LoopStepD ==
    \/ LoopTestD
    \/ LoopBegin /\ UNCHANGED fdVars
    \/ LoopCallD
    \/ LoopEnterD
    \/ \E c \in Conns : LoopAcceptD(c) \/ LoopAcceptLostD(c)
    \/ \E c \in Conns : LoopEnqueue(c) /\ UNCHANGED fdVars
    \/ LoopSleep /\ UNCHANGED fdVars

-----------------------------------------------------------------------------
(* Tasks and the program.                                                  *)

(* The worker destroys its task, and the handle in it.  A connection whose *)
(* socket the loop still holds cannot come back under the same name.       *)
ServeEndD(c) ==
    /\ ServeEnd(c)
    /\ Dropped(c, held = c)
    /\ UNCHANGED <<lfd, held, afd>>

ConnectD(c) ==
    /\ Connect(c)
    /\ held # c
    /\ UNCHANGED fdVars

AppOpen ==
    /\ crashed = "no"
    /\ NextFd # Invalid
    /\ IsValid(NextFd) => App \notin {table[n] : n \in Fds \ {0}}
    /\ table' = [table EXCEPT ![NextFd] = App]
    /\ UNCHANGED <<vars, lfd, cfd, held, afd>>

AppClose(n) ==
    /\ crashed = "no"
    /\ table[n] = App
    /\ table' = [table EXCEPT ![n] = Free]
    /\ UNCHANGED <<vars, lfd, cfd, held, afd>>

RunStepD(u) ==
    \/ RunBindD(u)
    \/ RunBindFailsD(u)
    \/ RunStep(u) /\ upc[u] # "bind" /\ UNCHANGED fdVars

StopStepD(u) ==
    \/ StopServerD(u)
    \/ StopStep(u) /\ upc[u] # "stop_server" /\ UNCHANGED fdVars

(* Calls that have nothing to do with sockets. *)
OtherD ==
    /\ \/ \E u \in Users : UserCall(u) \/ StopLock(u)
       \/ Destroy
       \/ \E c \in Conns : ServeStart(c)
       \/ Terminated
    /\ UNCHANGED fdVars

DNext ==
    \/ \E u \in Users : RunStepD(u) \/ StopStepD(u)
    \/ LoopStepD
    \/ LoopAcceptFailsD
    \/ \E c \in Conns : ConnectD(c) \/ ServeEndD(c)
    \/ AppOpen
    \/ \E n \in Fds : AppClose(n)
    \/ OtherD

(* As in Service; what the program does with its files is up to it.        *)
DFairness ==
    /\ \A u \in Users : WF_dvars(RunStepD(u)) /\ WF_dvars(StopStepD(u))
    /\ WF_dvars(LoopStepD \/ (LoopWoken /\ UNCHANGED fdVars))
    /\ \A c \in Conns :
          /\ SF_dvars(LoopAcceptD(c))
          /\ SF_dvars(ServeStart(c) /\ UNCHANGED fdVars)
          /\ WF_dvars(ServeEndD(c))

DSpec == DInit /\ [][DNext]_dvars /\ DFairness

-----------------------------------------------------------------------------
(* Properties.                                                             *)

(* A socket that somebody may still use has its number to itself: neither  *)
(* the listener's number nor that of a connection, for as long as a task   *)
(* or an iteration of the loop has a handle to it, is ever another file's. *)
(* The one exception is the number the loop is about to give to ::accept   *)
(* while a stop deletes the listener: until the stop has joined the loop   *)
(* that number is free or, at worst, one under which the program has       *)
(* opened a file of its own, never a connection's or another listener's,   *)
(* so that ::accept fails and takes no connection from anybody.            *)
NoStaleNumber ==
    crashed = "no" =>
        /\ IsValid(lfd) => table[lfd] = Listening
        /\ listener \in {"bound", "listening"} => IsValid(lfd)
        /\ \A c \in Conns :
              conn[c] = "accepted" \/ HasTask(c) \/ held = c =>
                  IsValid(cfd[c]) /\ table[cfd[c]] = c
        /\ apc = "entered" =>
              /\ IsValid(afd)
              /\ \/ listener = "listening" /\ afd = lfd
                 \/ /\ \E u \in Users : m_mtx = u /\ upc[u] = "stop_join"
                    /\ table[afd] \in {Free, App}

(* Every socket whose number is valid is closed in the end: one that is    *)
(* open is the listener's or has a task or an iteration that will close    *)
(* it, and after a stop none is left.  What stays for ever is number 0.    *)
NothingLeaks ==
    /\ \A n \in Fds \ {0} :
          /\ table[n] = Listening => n = lfd
          /\ table[n] \in Conns =>
                cfd[table[n]] = n /\ (HasTask(table[n]) \/ held = table[n])
    /\ m_mtx = Nobody /\ ~m_server =>
          \A n \in Fds \ {0} : table[n] \in {Free, App}

=============================================================================
