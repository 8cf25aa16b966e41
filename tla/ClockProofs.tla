----------------------------- MODULE ClockProofs ----------------------------
(***************************************************************************)
(* Theorems about Clock, for any number of workers and any time.           *)
(*                                                                         *)
(* The argument: two workers that use the buffers at the same time are     *)
(* near each other.  Once a worker has been through localtime, what the    *)
(* buffers hold has been put there by itself or, later, by a worker whose  *)
(* call overlaps with its own: the struct tm, then each half of the text   *)
(* and, from there, of the copy is about a time that is near.  A stamp     *)
(* goes through variables of its own.                                      *)
(***************************************************************************)
EXTENDS Clock, TLAPS

Places == {"idle", "localtime", "asctime_first", "asctime_second", "copy_first",
           "copy_second", "localtime_r", "strftime"}

Types ==
    /\ now \in 0..MaxTime
    /\ atime \in 0..MaxTime
    /\ tm \in 0..MaxTime
    /\ text \in Halves
    /\ wpc \in [Workers -> Places]
    /\ ltime \in [Workers -> 0..MaxTime]
    /\ own \in [Workers -> 0..MaxTime]
    /\ copy \in [Workers -> Halves]
    /\ asked \in [Workers -> 0..MaxTime]
    /\ stamping \in [Workers -> BOOLEAN]
    /\ near \in [Workers -> SUBSET (0..MaxTime)]

(* Which of the two ways a call goes. *)
Way(w) ==
    /\ stamping[w] => ~UsesBuffers(w)
    /\ wpc[w] \in {"localtime_r", "strftime"} => stamping[w]

(* A stamp on its way. *)
StampSoFar(w) ==
    /\ wpc[w] # "idle" => ltime[w] = asked[w]
    /\ wpc[w] = "strftime" => own[w] = asked[w]
    /\ wpc[w] = "idle" /\ stamping[w] => copy[w] = Written(asked[w])

(* A call on its way through the buffers. *)
NearSoFar(w) ==
    /\ wpc[w] \in {"asctime_first", "asctime_second", "copy_first", "copy_second"} =>
           tm \in near[w]
    /\ wpc[w] \in {"asctime_second", "copy_first", "copy_second"} => text.first \in near[w]
    /\ wpc[w] \in {"copy_first", "copy_second"} => text.second \in near[w]
    /\ wpc[w] = "copy_second" => copy[w].first \in near[w]
    /\ wpc[w] = "idle" /\ ~stamping[w] => copy[w].first \in near[w] /\ copy[w].second \in near[w]

(* Two workers that use the buffers are near each other. *)
Together ==
    \A u, v \in Workers : UsesBuffers(u) /\ UsesBuffers(v) => asked[u] \in near[v]

Inv ==
    /\ Types
    /\ \A w \in Workers : Way(w) /\ StampSoFar(w) /\ NearSoFar(w)
    /\ Together

LEMMA InvInit == Init => Inv
  BY ClockAssumption
     DEF Init, Inv, Types, Places, Halves, Written, Way, StampSoFar, NearSoFar, Together,
         UsesBuffers

LEMMA InvBegin ==
  ASSUME Inv, NEW w \in Workers, Stamp(w) \/ GetLocalTime(w) \/ FileStat(w)
  PROVE  Inv'
<1> USE DEF Inv, Types, fileVars
<1>1. CASE Stamp(w)
  <2>1. Types'
    BY <1>1 DEF Stamp, Begin, Goto, Places
  <2>2. \A v \in Workers : Way(v)' /\ StampSoFar(v)' /\ NearSoFar(v)'
    BY <1>1, <2>1 DEF Stamp, Begin, Goto, Way, StampSoFar, NearSoFar, UsesBuffers
  <2>3. Together'
    BY <1>1, <2>1 DEF Stamp, Begin, Goto, Together, UsesBuffers
  <2> QED
    BY <2>1, <2>2, <2>3
<1>2. ASSUME NEW time \in 0..MaxTime, BeginShared(w, time) PROVE Inv'
  <2>1. Types'
    BY <1>2 DEF BeginShared, Begin, Goto, Places
  <2>2. \A v \in Workers : Way(v)'
    BY <1>2, <2>1 DEF BeginShared, Begin, Goto, Way, UsesBuffers
  <2>3. \A v \in Workers : StampSoFar(v)'
    BY <1>2, <2>1 DEF BeginShared, Begin, Goto, StampSoFar
  <2>4. \A v \in Workers : v # w => /\ wpc'[v] = wpc[v] /\ copy'[v] = copy[v]
                                    /\ near[v] \subseteq near'[v]
                                    /\ stamping'[v] = stamping[v]
    BY <1>2 DEF BeginShared, Begin, Goto
  <2>5. \A v \in Workers : NearSoFar(v)'
    BY <1>2, <2>1, <2>4 DEF BeginShared, Begin, Goto, NearSoFar
  <2>6. Together'
    BY <1>2, <2>1 DEF BeginShared, Begin, Goto, Together, UsesBuffers
  <2> QED
    BY <2>1, <2>2, <2>3, <2>5, <2>6
<1> QED
  BY <1>1, <1>2 DEF GetLocalTime, FileStat

LEMMA InvBuffers ==
  ASSUME Inv, NEW w \in Workers,
         \/ LocalTime(w) \/ AscTimeFirst(w) \/ AscTimeSecond(w)
         \/ CopyFirst(w) \/ CopySecond(w)
  PROVE  Inv'
<1> USE DEF Inv, Types, fileVars, histVars, Halves, Written
<1>0. /\ UsesBuffers(w)
      /\ ~stamping[w]
      /\ ltime[w] = asked[w]
      /\ \A v \in Workers : UsesBuffers(v) => asked[w] \in near[v]
  BY DEF UsesBuffers, Way, StampSoFar, Together, LocalTime, AscTimeFirst, AscTimeSecond, CopyFirst,
         CopySecond
<1>1. Together' /\ \A v \in Workers : Way(v)'
  <2>1. /\ wpc' \in [Workers -> Places]
        /\ \A v \in Workers : v # w => wpc'[v] = wpc[v]
        /\ wpc'[w] \in Places \ {"localtime_r", "strftime"}
        /\ stamping' = stamping /\ near' = near /\ asked' = asked
    BY DEF Goto, Places, LocalTime, AscTimeFirst, AscTimeSecond, CopyFirst, CopySecond
  <2> QED
    BY <1>0, <2>1 DEF UsesBuffers, Way, Together
<1>2. CASE LocalTime(w)
  <2>1. Types'
    BY <1>2 DEF LocalTime, Goto, Places
  <2>2. \A v \in Workers : StampSoFar(v)' /\ NearSoFar(v)'
    BY <1>0, <1>2, <2>1 DEF LocalTime, Goto, StampSoFar, NearSoFar, UsesBuffers
  <2> QED
    BY <1>1, <2>1, <2>2
<1>3. CASE AscTimeFirst(w)
  <2>1. Types'
    BY <1>3 DEF AscTimeFirst, Goto, Places
  <2>2. \A v \in Workers : StampSoFar(v)' /\ NearSoFar(v)'
    BY <1>0, <1>3, <2>1 DEF AscTimeFirst, Goto, StampSoFar, NearSoFar, UsesBuffers
  <2> QED
    BY <1>1, <2>1, <2>2
<1>4. CASE AscTimeSecond(w)
  <2>1. Types'
    BY <1>4 DEF AscTimeSecond, Goto, Places
  <2>2. \A v \in Workers : StampSoFar(v)' /\ NearSoFar(v)'
    BY <1>0, <1>4, <2>1 DEF AscTimeSecond, Goto, StampSoFar, NearSoFar, UsesBuffers
  <2> QED
    BY <1>1, <2>1, <2>2
<1>5. CASE CopyFirst(w)
  <2>1. Types'
    BY <1>5 DEF CopyFirst, Goto, Places
  <2>2. \A v \in Workers : StampSoFar(v)' /\ NearSoFar(v)'
    BY <1>0, <1>5, <2>1 DEF CopyFirst, Goto, StampSoFar, NearSoFar, UsesBuffers
  <2> QED
    BY <1>1, <2>1, <2>2
<1>6. CASE CopySecond(w)
  <2>1. Types'
    BY <1>6 DEF CopySecond, Goto, Places
  <2>2. \A v \in Workers : StampSoFar(v)' /\ NearSoFar(v)'
    BY <1>0, <1>6, <2>1 DEF CopySecond, Goto, StampSoFar, NearSoFar, UsesBuffers
  <2> QED
    BY <1>1, <2>1, <2>2
<1> QED
  BY <1>2, <1>3, <1>4, <1>5, <1>6

LEMMA InvStamp ==
  ASSUME Inv, NEW w \in Workers, LocalTimeR(w) \/ StrfTime(w)
  PROVE  Inv'
<1> USE ClockAssumption DEF Inv, Types, fileVars, histVars, Halves, Written
<1>1. CASE LocalTimeR(w)
  <2>1. Types'
    BY <1>1 DEF LocalTimeR, Goto, Places
  <2>2. stamping[w]
    BY <1>1 DEF LocalTimeR, Way
  <2>3. Together' /\ \A v \in Workers : Way(v)'
    BY <1>1, <2>2 DEF LocalTimeR, Goto, UsesBuffers, Way, Together
  <2>4. \A v \in Workers : StampSoFar(v)' /\ NearSoFar(v)'
    BY <1>1, <2>2 DEF LocalTimeR, Goto, StampSoFar, NearSoFar
  <2> QED
    BY <2>1, <2>3, <2>4
<1>2. CASE StrfTime(w)
  <2>1. Types'
    BY <1>2 DEF StrfTime, Goto, Places
  <2>2. stamping[w]
    BY <1>2 DEF StrfTime, Way
  <2>3. Together' /\ \A v \in Workers : Way(v)'
    BY <1>2, <2>2 DEF StrfTime, Goto, UsesBuffers, Way, Together
  <2>4. \A v \in Workers : StampSoFar(v)' /\ NearSoFar(v)'
    BY <1>2, <2>2 DEF StrfTime, Goto, StampSoFar, NearSoFar
  <2> QED
    BY <2>1, <2>3, <2>4
<1> QED
  BY <1>1, <1>2

LEMMA InvNext == Inv /\ [Next]_vars => Inv'
<1> SUFFICES ASSUME Inv, [Next]_vars PROVE Inv'
  OBVIOUS
<1>1. ASSUME now' \in 0..MaxTime, atime' \in 0..MaxTime,
             UNCHANGED <<tm, text, wpc, ltime, own, copy, histVars>>
      PROVE  Inv'
  BY <1>1 DEF Inv, Types, Way, StampSoFar, NearSoFar, Together, UsesBuffers, histVars
<1>2. CASE UNCHANGED vars
  BY <1>1, <1>2 DEF vars, Inv, Types
<1>3. CASE Tick \/ FileIsRead
  BY <1>1, <1>3, ClockAssumption DEF Tick, FileIsRead, Inv, Types
<1>4. ASSUME NEW w \in Workers, WorkerStep(w) PROVE Inv'
  BY <1>4, InvBegin, InvBuffers, InvStamp DEF WorkerStep
<1> QED
  BY <1>2, <1>3, <1>4 DEF Next

LEMMA InvHolds == Spec => []Inv
  BY InvInit, InvNext, PTL DEF Spec

(* Of the text of getLocalTime and fileStat no half is older than the call *)
(* and those that it overlaps with, however they come between each other.  *)
THEOREM NothingLeftOver == Spec => []NoTimeLeftOver
<1>1. Inv => NoTimeLeftOver
  BY DEF Inv, NearSoFar, NoTimeLeftOver
<1> QED
  BY <1>1, InvHolds, PTL

(* The stamp of a line of the log is right, whoever else formats a time.   *)
THEOREM StampsAreRight == Spec => []StampIsRight
<1>1. Inv => StampIsRight
  BY DEF Inv, StampSoFar, StampIsRight
<1> QED
  BY <1>1, InvHolds, PTL

=============================================================================
