------------------------------- MODULE Clock --------------------------------
(***************************************************************************)
(* The times in a response, Tools::getLocalTime and Tools::fileStat        *)
(* (src/src/jtools.cpp), as the workers of the pool call them from         *)
(* HttpServerTask (src/src/jserver.cpp) and JResponse                      *)
(* (src/src/jresponse.cpp), and the stamp of a line of the log,            *)
(* Helper::datetime (src/src/jhelper.cpp).                                 *)
(*                                                                         *)
(* The first two go through the C library's localtime, asctime and ctime,  *)
(* which leave their results in buffers that all threads share (glibc; the *)
(* library of MSVC has them for every thread).  Nothing in the code keeps  *)
(* two threads apart: every access to a buffer is a step of its own, and   *)
(* the text, which is longer than a word, is written and read in two       *)
(* halves.  Helper uses localtime_r and buffers of its own.                *)
(***************************************************************************)
EXTENDS Naturals

CONSTANTS
    Workers,    \* the worker threads of the pool
    MaxTime     \* bound: the clock stops there

ASSUME ClockAssumption == MaxTime \in Nat

VARIABLES
    now,        \* the time
    atime,      \* of the file: when it was read last
    tm,         \* the struct tm that localtime returns a pointer to
    text,       \* the char array that asctime and ctime return a pointer to
    wpc,        \* where each worker is
    ltime,      \* its time_t
    own,        \* its local struct tm, in a call of Helper
    copy,       \* the std::string it fills
    asked,      \* history: the time its call is about
    stamping,   \* history: the call is one of Helper
    near        \* history: the times that its call and those that overlap with
                \* it in the buffers are about

histVars == <<asked, stamping, near>>
vars == <<now, atime, tm, text, wpc, ltime, own, copy, histVars>>
fileVars == <<now, atime>>

Halves == [first : 0..MaxTime, second : 0..MaxTime]
Written(time) == [first |-> time, second |-> time]

Init ==
    /\ now = 0
    /\ atime = 0
    /\ tm = 0
    /\ text = Written(0)
    /\ wpc = [w \in Workers |-> "idle"]
    /\ ltime = [w \in Workers |-> 0]
    /\ own = [w \in Workers |-> 0]
    /\ copy = [w \in Workers |-> Written(0)]
    /\ stamping = [w \in Workers |-> FALSE]
    /\ asked = [w \in Workers |-> 0]
    /\ near = [w \in Workers |-> {0}]

Goto(w, where) == wpc' = [wpc EXCEPT ![w] = where]

(* A call to print the given time begins.                                  *)
Begin(w, time) ==
    /\ wpc[w] = "idle"
    /\ ltime' = [ltime EXCEPT ![w] = time]
    /\ asked' = [asked EXCEPT ![w] = time]
    /\ UNCHANGED <<fileVars, tm, text, own, copy>>

UsesBuffers(w) == wpc[w] \notin {"idle", "localtime_r", "strftime"}

BeginShared(w, time) ==
    /\ Begin(w, time)
    /\ stamping' = [stamping EXCEPT ![w] = FALSE]
    /\ near' = [v \in Workers |->
                   IF v = w THEN {time} \cup {asked[u] : u \in {u \in Workers : UsesBuffers(u)}}
                   ELSE IF UsesBuffers(v) THEN near[v] \cup {time}
                   ELSE near[v]]
    /\ Goto(w, "localtime")

-----------------------------------------------------------------------------
(* Mutation of GetLocalTime: it keeps the pointer that an earlier call of  *)
(* localtime has returned, and formats what is there.                      *)
GetLocalTimeKeepsTm(w) ==
    /\ Begin(w, now)
    /\ stamping' = [stamping EXCEPT ![w] = FALSE]
    /\ near' = [v \in Workers |->
                   IF v = w THEN {now} \cup {asked[u] : u \in {u \in Workers : UsesBuffers(u)}}
                   ELSE IF UsesBuffers(v) THEN near[v] \cup {now}
                   ELSE near[v]]
    /\ Goto(w, "asctime_first")

(* Mutation of LocalTimeR: the struct tm is static.                        *)
LocalTimeRStatic(w) ==
    /\ wpc[w] = "localtime_r"
    /\ own' = [v \in Workers |-> ltime[w]]
    /\ Goto(w, "strftime")
    /\ UNCHANGED <<fileVars, tm, text, ltime, copy, histVars>>

-----------------------------------------------------------------------------
(* The environment.                                                        *)

Tick ==
    /\ now < MaxTime
    /\ now' = now + 1
    /\ UNCHANGED <<atime, tm, text, wpc, ltime, own, copy, histVars>>

FileIsRead ==
    /\ atime' = now
    /\ UNCHANGED <<now, tm, text, wpc, ltime, own, copy, histVars>>

-----------------------------------------------------------------------------
(* getLocalTime, with the time of the day, and fileStat, with st_atime.    *)

GetLocalTime(w) == BeginShared(w, now)

FileStat(w) == BeginShared(w, atime)

(* ::localtime, the first half of ::ctime: fills the shared tm.            *)
LocalTime(w) ==
    /\ wpc[w] = "localtime"
    /\ tm' = ltime[w]
    /\ Goto(w, "asctime_first")
    /\ UNCHANGED <<fileVars, text, ltime, own, copy, histVars>>

(* ::asctime, the second half of ::ctime: formats tm into the shared text. *)
AscTimeFirst(w) ==
    /\ wpc[w] = "asctime_first"
    /\ text' = [text EXCEPT !.first = tm]
    /\ Goto(w, "asctime_second")
    /\ UNCHANGED <<fileVars, tm, ltime, own, copy, histVars>>

AscTimeSecond(w) ==
    /\ wpc[w] = "asctime_second"
    /\ text' = [text EXCEPT !.second = tm]
    /\ Goto(w, "copy_first")
    /\ UNCHANGED <<fileVars, tm, ltime, own, copy, histVars>>

(* The assignment to the std::string.                                      *)
CopyFirst(w) ==
    /\ wpc[w] = "copy_first"
    /\ copy' = [copy EXCEPT ![w].first = text.first]
    /\ Goto(w, "copy_second")
    /\ UNCHANGED <<fileVars, tm, text, ltime, own, histVars>>

CopySecond(w) ==
    /\ wpc[w] = "copy_second"
    /\ copy' = [copy EXCEPT ![w].second = text.second]
    /\ Goto(w, "idle")
    /\ UNCHANGED <<fileVars, tm, text, ltime, own, histVars>>

-----------------------------------------------------------------------------
(* Helper::datetime, for the prefix of a line of the log: msSinceEpoch,    *)
(* localtime_r into a local struct tm, strftime into a local array.        *)

Stamp(w) ==
    /\ Begin(w, now)
    /\ stamping' = [stamping EXCEPT ![w] = TRUE]
    /\ Goto(w, "localtime_r")
    /\ UNCHANGED near

LocalTimeR(w) ==
    /\ wpc[w] = "localtime_r"
    /\ own' = [own EXCEPT ![w] = ltime[w]]
    /\ Goto(w, "strftime")
    /\ UNCHANGED <<fileVars, tm, text, ltime, copy, histVars>>

StrfTime(w) ==
    /\ wpc[w] = "strftime"
    /\ copy' = [copy EXCEPT ![w] = Written(own[w])]
    /\ own' = [own EXCEPT ![w] = 0]
    /\ Goto(w, "idle")
    /\ UNCHANGED <<fileVars, tm, text, ltime, histVars>>

-----------------------------------------------------------------------------

WorkerStep(w) ==
    \/ Stamp(w)
    \/ LocalTimeR(w)
    \/ StrfTime(w)
    \/ GetLocalTime(w)
    \/ FileStat(w)
    \/ LocalTime(w)
    \/ AscTimeFirst(w)
    \/ AscTimeSecond(w)
    \/ CopyFirst(w)
    \/ CopySecond(w)

Next ==
    \/ Tick
    \/ FileIsRead
    \/ \E w \in Workers : WorkerStep(w)

Spec == Init /\ [][Next]_vars

-----------------------------------------------------------------------------
(* Properties.                                                             *)

(* However the calls overlap in the buffers, each half of the text that    *)
(* getLocalTime or fileStat hands back is a time that this call or one     *)
(* that overlaps with it was asked for: what can be wrong is whose time it *)
(* is, and never is it one that an earlier call or the log has left.       *)
NoTimeLeftOver ==
    \A w \in Workers :
        wpc[w] = "idle" /\ ~stamping[w] => {copy[w].first, copy[w].second} \subseteq near[w]

(* The stamp of a line is the time at which it was asked for, however many *)
(* workers format times with it, with or without the shared buffers.       *)
StampIsRight ==
    \A w \in Workers : wpc[w] = "idle" /\ stamping[w] => copy[w] = Written(asked[w])

-----------------------------------------------------------------------------
(* What the comments of the code say.                                      *)

(* jtools.h:62-66, "Gets the system time [...] the string will contain the *)
(* time": one time, and the one that the caller has asked for.             *)
TimeIsWhatWasAsked ==
    \A w \in Workers : wpc[w] = "idle" => copy[w] = Written(asked[w])

=============================================================================
