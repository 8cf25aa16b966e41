------------------------------- MODULE Logger -------------------------------
(***************************************************************************)
(* JLoger (src/src/jlog.h, src/src/jlog.cpp): the one logger of the        *)
(* process, written to by every thread of it, and the output device that   *)
(* JService::setLog hands to it and takes away again.                      *)
(*                                                                         *)
(* The device is called with m_mutex held, the console is written to       *)
(* without it.  The mutex is not recursive: a device whose log function    *)
(* calls the service (setLog, or anything that logs) waits for itself, and *)
(* m_mutex is never free again.  (The standard calls it undefined; on the  *)
(* platforms of the project it is this deadlock.)                          *)
(***************************************************************************)
EXTENDS Naturals, FiniteSets, Sequences

CONSTANTS
    Threads,    \* the threads that log and call setLog
    Devices,    \* the JHttpLog objects of the user
    Reentrant,  \* those whose log may call back
    NoDevice,   \* nullptr
    Free        \* m_mutex is not held

ASSUME LoggerAssumption ==
    /\ NoDevice \notin Devices
    /\ Free \notin Threads
    /\ Reentrant \subseteq Devices

VARIABLES
    m_output_device,
    m_mutex,        \* who holds the mutex
    tpc,            \* where each thread is
    arg,            \* the argument of its set_output_device
    inside,         \* the device whose log it is executing
    retired,        \* history: devices that a set_output_device has replaced
    seen,           \* history: what was set at some time of each thread's log
    went            \* history: where the line of this log has been written

lineVars == <<seen, went>>
vars == <<m_output_device, m_mutex, tpc, arg, inside, retired, lineVars>>

Outputs == Devices \cup {NoDevice}     \* NoDevice stands for the console

Init ==
    /\ m_output_device = NoDevice
    /\ m_mutex = Free
    /\ tpc = [t \in Threads |-> "idle"]
    /\ arg = [t \in Threads |-> NoDevice]
    /\ inside = [t \in Threads |-> NoDevice]
    /\ retired = {}
    /\ seen = [t \in Threads |-> {}]
    /\ went = [t \in Threads |-> <<>>]

Goto(t, where) == tpc' = [tpc EXCEPT ![t] = where]

Logging(t) == tpc[t] \in {"log", "logging", "device", "stuck", "console"}

(* The history of a log that writes its line, and of one that returns.     *)
Write(t, output) ==
    /\ went' = [went EXCEPT ![t] = Append(went[t], output)]
    /\ UNCHANGED seen

LogReturns(t) ==
    /\ Goto(t, "idle")
    /\ seen' = [seen EXCEPT ![t] = {}]
    /\ went' = [went EXCEPT ![t] = <<>>]

-----------------------------------------------------------------------------
(* Mutations: what some actions below would be with a plausible bug in the *)
(* code.  They take no part in Next; each one shows, put in the place of   *)
(* the action it is named after, that a property tells the difference.     *)

(* The pointer is copied under the lock and used after it. *)
LogToDeviceUnlocked(t) ==
    /\ tpc[t] = "logging"
    /\ m_output_device # NoDevice
    /\ inside' = [inside EXCEPT ![t] = m_output_device]
    /\ m_mutex' = Free
    /\ Goto(t, "device")
    /\ Write(t, m_output_device)
    /\ UNCHANGED <<m_output_device, arg, retired>>

(* Without the break after the device has been called. *)
DeviceReturnsNoBreak(t) ==
    /\ tpc[t] = "device"
    /\ inside' = [inside EXCEPT ![t] = NoDevice]
    /\ m_mutex' = Free
    /\ Goto(t, "console")
    /\ Write(t, NoDevice)
    /\ UNCHANGED <<m_output_device, arg, retired>>

(* The lock is not released on the way to the console. *)
LogToConsoleLocked(t) ==
    /\ tpc[t] = "logging"
    /\ m_output_device = NoDevice
    /\ Goto(t, "console")
    /\ Write(t, NoDevice)
    /\ UNCHANGED <<m_output_device, m_mutex, arg, inside, retired>>

-----------------------------------------------------------------------------
(* log, called by t through one of fal, err, wrn, tra, inf and dbg.        *)

LogBegin(t) ==
    /\ tpc[t] = "idle"
    /\ Goto(t, "log")
    /\ seen' = [seen EXCEPT ![t] = {m_output_device}]
    /\ UNCHANGED <<m_output_device, m_mutex, arg, inside, retired, went>>

LogLock(t) ==
    /\ tpc[t] = "log"
    /\ m_mutex = Free
    /\ m_mutex' = t
    /\ Goto(t, "logging")
    /\ UNCHANGED <<m_output_device, arg, inside, retired, lineVars>>

(* m_output_device->log: the call begins.                                  *)
LogToDevice(t) ==
    /\ tpc[t] = "logging"
    /\ m_output_device # NoDevice
    /\ inside' = [inside EXCEPT ![t] = m_output_device]
    /\ Goto(t, "device")
    /\ Write(t, m_output_device)
    /\ UNCHANGED <<m_output_device, m_mutex, arg, retired>>

(* ... calls set_output_device or log, which lock m_mutex again ...        *)
DeviceCallsBack(t) ==
    /\ tpc[t] = "device"
    /\ inside[t] \in Reentrant
    /\ Goto(t, "stuck")
    /\ UNCHANGED <<m_output_device, m_mutex, arg, inside, retired, lineVars>>

(* ... or returns.                                                         *)
DeviceReturns(t) ==
    /\ tpc[t] = "device"
    /\ inside' = [inside EXCEPT ![t] = NoDevice]
    /\ m_mutex' = Free
    /\ LogReturns(t)
    /\ UNCHANGED <<m_output_device, arg, retired>>

(* No device: leave the block that holds the mutex.                        *)
LogToConsole(t) ==
    /\ tpc[t] = "logging"
    /\ m_output_device = NoDevice
    /\ m_mutex' = Free
    /\ Goto(t, "console")
    /\ Write(t, NoDevice)
    /\ UNCHANGED <<m_output_device, arg, inside, retired>>

(* std::cerr or std::cout.                                                 *)
ConsoleReturns(t) ==
    /\ tpc[t] = "console"
    /\ LogReturns(t)
    /\ UNCHANGED <<m_output_device, m_mutex, arg, inside, retired>>

-----------------------------------------------------------------------------
(* set_output_device, called by JService::setLog.                          *)

SetBegin(t, d) ==
    /\ tpc[t] = "idle"
    /\ arg' = [arg EXCEPT ![t] = d]
    /\ Goto(t, "set")
    /\ UNCHANGED <<m_output_device, m_mutex, inside, retired, lineVars>>

SetLock(t) ==
    /\ tpc[t] = "set"
    /\ m_mutex = Free
    /\ m_mutex' = t
    /\ Goto(t, "setting")
    /\ UNCHANGED <<m_output_device, arg, inside, retired, lineVars>>

SetDevice(t) ==
    /\ tpc[t] = "setting"
    /\ m_output_device' = arg[t]
    /\ retired' = (retired \cup {m_output_device}) \ {arg[t], NoDevice}
    /\ arg' = [arg EXCEPT ![t] = NoDevice]
    /\ seen' = [u \in Threads |-> IF Logging(u) THEN seen[u] \cup {arg[t]}
                                   ELSE seen[u]]
    /\ m_mutex' = Free
    /\ Goto(t, "idle")
    /\ UNCHANGED <<inside, went>>

-----------------------------------------------------------------------------

Call(t) == LogBegin(t) \/ \E d \in Outputs : SetBegin(t, d)
Lock(t) == LogLock(t) \/ SetLock(t)

Work(t) ==
    \/ LogToDevice(t)
    \/ DeviceCallsBack(t)
    \/ DeviceReturns(t)
    \/ LogToConsole(t)
    \/ ConsoleReturns(t)
    \/ SetDevice(t)

Next == \E t \in Threads : Call(t) \/ Lock(t) \/ Work(t)

(* Threads run, devices and the console return, and a thread that waits    *)
(* for a mutex that is free again and again gets it in the end.            *)
Fairness == \A t \in Threads : SF_vars(Lock(t)) /\ WF_vars(Work(t))

Spec == Init /\ [][Next]_vars /\ Fairness

-----------------------------------------------------------------------------
(* Properties.                                                             *)

(* Every variable has its type; a thread that calls a device calls a real  *)
(* one.                                                                    *)
TypeOK ==
    /\ m_output_device \in Outputs
    /\ m_mutex \in Threads \cup {Free}
    /\ tpc \in [Threads -> {"idle", "log", "logging", "device", "stuck",
                            "console", "set", "setting"}]
    /\ arg \in [Threads -> Outputs]
    /\ inside \in [Threads -> Outputs]
    /\ \A t \in Threads : tpc[t] \in {"device", "stuck"} => inside[t] \in Devices
    /\ retired \subseteq Devices
    /\ seen \in [Threads -> SUBSET Outputs]
    /\ went \in [Threads -> Seq(Outputs)]

(* A user may destroy a device as soon as another one, or none, is set:    *)
(* no thread is still inside it, and none gets into it any more.           *)
RetiredDeviceUnused == \A t \in Threads : inside[t] \notin retired

(* A device is called by one thread at a time, and needs no lock itself.   *)
OneCallAtATime ==
    \A t, u \in Threads :
        {tpc[t], tpc[u]} \subseteq {"device", "stuck"} => t = u

(* log is atomic although the console is written to without the lock: a    *)
(* line goes to one output, once, and that output was the one set at some  *)
(* time between the call and its return.                                   *)
LineWrittenOnce ==
    [][\A t \in Threads :
          Logging(t) /\ ~Logging(t)' => \E d \in seen[t] : went[t] = <<d>>]_vars

(* Every call of the logger returns, also one made while the device is     *)
(* being replaced, as long as no device has called back.                   *)
CallsReturn ==
    \A t \in Threads :
        tpc[t] # "idle" ~> \/ tpc[t] = "idle"
                           \/ \E u \in Threads : /\ tpc[u] = "stuck"
                                                  /\ inside[u] \in Reentrant

=============================================================================
