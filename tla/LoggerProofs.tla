---------------------------- MODULE LoggerProofs ----------------------------
(***************************************************************************)
(* Proofs about Logger, for any number of threads and devices.             *)
(*                                                                         *)
(* The argument: the thread that is inside a device holds m_mutex, and     *)
(* m_output_device does not change while somebody else holds it; so the    *)
(* device somebody is inside is the one that is set.  A log that is under  *)
(* way has seen every output set meanwhile (LineIsSeen), the one it writes *)
(* to among them.                                                          *)
(***************************************************************************)
EXTENDS Logger, TLAPS

(* Who is between lock and unlock is who the mutex says.                   *)
Exclusion ==
    \A t \in Threads :
        tpc[t] \in {"logging", "device", "stuck", "setting"} <=> m_mutex = t

(* A thread inside a device is inside the one that is set, and a device    *)
(* that is set has not been replaced.                                      *)
DeviceIsSet ==
    /\ \A t \in Threads :
          inside[t] # NoDevice =>
              tpc[t] \in {"device", "stuck"} /\ inside[t] = m_output_device
    /\ m_output_device \notin retired

(* What is set now has been seen by every log that is under way; a line    *)
(* that has been written went to one of the outputs seen.                  *)
LineIsSeen ==
    \A t \in Threads :
        /\ Logging(t) => m_output_device \in seen[t]
        /\ ~Logging(t) \/ tpc[t] \in {"log", "logging"} => went[t] = <<>>
        /\ tpc[t] \in {"device", "stuck", "console"} =>
              \E d \in seen[t] : went[t] = <<d>>

LoggerInv == TypeOK /\ Exclusion /\ DeviceIsSet /\ LineIsSeen

LEMMA LoggerInit == Init => LoggerInv
  BY LoggerAssumption
     DEF Init, Outputs, LoggerInv, TypeOK, Exclusion, DeviceIsSet, LineIsSeen, Logging

LEMMA FirstAppended == \A d \in Outputs : Append(<<>>, d) = <<d>>
<1> SUFFICES ASSUME NEW d \in Outputs PROVE Append(<<>>, d) = <<d>>
  OBVIOUS
<1>1. <<>> \in Seq(Outputs) /\ Len(<<>>) = 0
  OBVIOUS
<1>2. Len(Append(<<>>, d)) = 1 /\ Append(<<>>, d)[1] = d /\ Append(<<>>, d) \in Seq(Outputs)
  BY <1>1
<1> QED
  BY <1>2

(* The line of a log in the given output is the first one.                 *)
LEMMA WriteFirst ==
    ASSUME LoggerInv, NEW t \in Threads, tpc[t] = "logging", NEW d \in Outputs,
           Write(t, d)
    PROVE  /\ seen' = seen
           /\ went' = [went EXCEPT ![t] = <<d>>]
           /\ went' \in [Threads -> Seq(Outputs)]
<1>1. went[t] = <<>>
  BY DEF LoggerInv, LineIsSeen
<1>2. went' = [went EXCEPT ![t] = <<d>>]
  BY <1>1, FirstAppended DEF Write
<1>3. <<d>> \in Seq(Outputs)
  OBVIOUS
<1>4. went \in [Threads -> Seq(Outputs)]
  BY DEF LoggerInv, TypeOK
<1> QED
  BY <1>2, <1>3, <1>4 DEF Write

(* Every step keeps the invariant.                                         *)
LEMMA LoggerNext == LoggerInv /\ [Next]_vars => LoggerInv'
<1> SUFFICES ASSUME LoggerInv, [Next]_vars PROVE LoggerInv'
  OBVIOUS
<1> USE LoggerAssumption
    DEF LoggerInv, TypeOK, Exclusion, DeviceIsSet, LineIsSeen, Outputs, Logging,
        Goto, LogReturns, lineVars
<1>1. ASSUME NEW t \in Threads, LogBegin(t) PROVE LoggerInv'
  BY <1>1 DEF LogBegin
<1>2. ASSUME NEW t \in Threads, LogLock(t) PROVE LoggerInv'
  BY <1>2 DEF LogLock
<1>3. ASSUME NEW t \in Threads, LogToDevice(t) PROVE LoggerInv'
  <2>1. /\ seen' = seen
        /\ went' = [went EXCEPT ![t] = <<m_output_device>>]
        /\ went' \in [Threads -> Seq(Outputs)]
    BY <1>3, WriteFirst DEF LogToDevice
  <2>2. TypeOK' /\ Exclusion' /\ DeviceIsSet'
    BY <1>3, <2>1 DEF LogToDevice
  <2>3. LineIsSeen'
    BY <1>3, <2>1 DEF LogToDevice
  <2> QED
    BY <2>2, <2>3
<1>4. ASSUME NEW t \in Threads, DeviceCallsBack(t) PROVE LoggerInv'
  BY <1>4 DEF DeviceCallsBack
<1>5. ASSUME NEW t \in Threads, DeviceReturns(t) PROVE LoggerInv'
  BY <1>5 DEF DeviceReturns
<1>6. ASSUME NEW t \in Threads, LogToConsole(t) PROVE LoggerInv'
  <2>1. /\ seen' = seen
        /\ went' = [went EXCEPT ![t] = <<NoDevice>>]
        /\ went' \in [Threads -> Seq(Outputs)]
    BY <1>6, WriteFirst DEF LogToConsole
  <2>2. TypeOK' /\ Exclusion' /\ DeviceIsSet'
    BY <1>6, <2>1 DEF LogToConsole
  <2>3. LineIsSeen'
    BY <1>6, <2>1 DEF LogToConsole
  <2> QED
    BY <2>2, <2>3
<1>7. ASSUME NEW t \in Threads, ConsoleReturns(t) PROVE LoggerInv'
  BY <1>7 DEF ConsoleReturns
<1>8. ASSUME NEW t \in Threads, NEW d \in Outputs, SetBegin(t, d)
      PROVE  LoggerInv'
  BY <1>8 DEF SetBegin
<1>9. ASSUME NEW t \in Threads, SetLock(t) PROVE LoggerInv'
  BY <1>9 DEF SetLock
<1>10. ASSUME NEW t \in Threads, SetDevice(t) PROVE LoggerInv'
  <2>1. \A u \in Threads : inside[u] = NoDevice
    BY <1>10 DEF SetDevice
  <2>2. TypeOK'
    BY <1>10 DEF SetDevice
  <2>3. Exclusion'
    BY <1>10 DEF SetDevice
  <2>4. DeviceIsSet'
    BY <1>10, <2>1 DEF SetDevice
  <2>5. LineIsSeen'
    BY <1>10 DEF SetDevice
  <2> QED
    BY <2>2, <2>3, <2>4, <2>5
<1>11. CASE UNCHANGED vars
  BY <1>11 DEF vars
<1> QED
  BY <1>1, <1>2, <1>3, <1>4, <1>5, <1>6, <1>7, <1>8, <1>9, <1>10, <1>11
     DEF Next, Call, Lock, Work

(* Between any two steps of log and set_output_device: see LoggerInv.      *)
THEOREM LoggerInvariant == Spec => []LoggerInv
  BY LoggerInit, LoggerNext, PTL DEF Spec

(* A device that setLog has replaced is not in use any more.               *)
THEOREM RetiredUnused == Spec => []RetiredDeviceUnused
<1>1. LoggerInv => RetiredDeviceUnused
  BY LoggerAssumption DEF LoggerInv, TypeOK, DeviceIsSet, RetiredDeviceUnused
<1> QED
  BY <1>1, LoggerInvariant, PTL

(* No two threads are inside a device at the same time.                    *)
THEOREM OneCall == Spec => []OneCallAtATime
<1>1. LoggerInv => OneCallAtATime
  BY DEF LoggerInv, Exclusion, OneCallAtATime
<1> QED
  BY <1>1, LoggerInvariant, PTL

(* A line goes to one output, once, and that output was set at some time   *)
(* while log was being called.                                             *)
THEOREM WrittenOnce == Spec => LineWrittenOnce
<1> DEFINE Once == \A t \in Threads :
                      Logging(t) /\ ~Logging(t)' => \E d \in seen[t] : went[t] = <<d>>
<1>1. LoggerInv /\ [Next]_vars => [Once]_vars
  <2> SUFFICES ASSUME LoggerInv, Next, NEW u \in Threads, Logging(u), ~Logging(u)'
               PROVE  \E d \in seen[u] : went[u] = <<d>>
    OBVIOUS
  <2>1. PICK t \in Threads : Call(t) \/ Lock(t) \/ Work(t)
    BY DEF Next
  <2>2. tpc[u] \in {"device", "console"}
    BY <2>1 DEF Call, Lock, Work, LogBegin, LogLock, LogToDevice, DeviceCallsBack,
                DeviceReturns, LogToConsole, ConsoleReturns, SetBegin, SetLock,
                SetDevice, Goto, LogReturns, Logging, LoggerInv, TypeOK
  <2> QED
    BY <2>2 DEF LoggerInv, LineIsSeen
<1> QED
  BY <1>1, LoggerInvariant, PTL DEF Spec, LineWrittenOnce

=============================================================================
