--------------------------- MODULE HttpConnection ---------------------------
(***************************************************************************)
(* One connection in the hands of one worker: HttpServerTask::operator()   *)
(* (src/src/jserver.cpp), the HttpSocket it makes for every request        *)
(* (src/src/jsocket.cpp) and the JResponse it builds                       *)
(* (src/src/jresponse.cpp), with the client, the network, the responders   *)
(* and the file on disk as the environment.                                *)
(*                                                                         *)
(* Requests and bodies are counted, not spelled: a body is its length in   *)
(* units, sendBody moves Chunk of them at a time (1 << 20 bytes in the     *)
(* code), an error page is one unit.  wire is what the client gets: for    *)
(* every response the length its header declares and the body units that   *)
(* followed, which is all a client has to find the next response.          *)
(*                                                                         *)
(* sendHeader and sendBody store the result of ::send in sent and then     *)
(* compare send, the address of the function, with 0 and with the size:    *)
(* the result is never looked at.  The address of ::send, cut to 32 bits,  *)
(* is taken to be larger than any size that is sent.                       *)
(*                                                                         *)
(* A client leaves by closing its socket, so that what is sent afterwards  *)
(* is answered by a reset, or by resetting the connection at once: the     *)
(* first ::send then fails, and the next one raises SIGPIPE.               *)
(***************************************************************************)
EXTENDS Integers, Sequences

CONSTANTS
    MaxRequests,    \* bound: requests the client sends
    MaxLen,         \* bound: length of a file and of a responder's content
    Chunk,          \* the count of sendBody
    NumResps,       \* responders of the JServer
    SendMayFail,    \* whether ::send may send less than it is given, or fail
    SigPipe         \* whether ::send raises SIGPIPE (flags is 0, on Linux)

ASSUME ConnectionAssumption ==
    /\ MaxRequests \in Nat
    /\ MaxLen \in Nat \ {0}
    /\ Chunk \in Nat \ {0}
    /\ NumResps \in Nat
    /\ SendMayFail \in BOOLEAN
    /\ SigPipe \in BOOLEAN

VARIABLES
    \* the client, the network, the disk
    inbox,      \* requests on their way to the server
    requests,   \* requests sent so far
    net,        \* "up", "closed" or "aborted" by the client, or "reset": the
                \* last recv or send has been told so
    fsize,      \* the size on disk of the file, or of the directory
    changed,    \* history: that changed since stat
    wire,       \* the responses as the client sees them
    killed,     \* the process has died of SIGPIPE
    \* the task
    tpc,        \* where it is
    method,     \* of the request at hand
    asked,      \* responders that have been asked
    found,      \* resp_status is 200: one of them has answered
    connUp,     \* _connUp of the HttpSocket
    content,    \* size of _content
    length,     \* _content_length
    open,       \* _ifs.is_open()
    good,       \* _ifs.good()
    dir,        \* what was opened is a directory: it has a size and no bytes
    clean,      \* history: the content is what the status line is about
    readed,     \* of sendBody
    sentAll     \* history: the last ::send for this request sent what it was
                \* given

envVars == <<inbox, requests, net, fsize, changed, wire, killed>>
respVars == <<method, asked, found, content, length, open, good, dir, clean>>
vars == <<envVars, tpc, connUp, respVars, readed, sentAll>>

Methods == {"GET", "HEAD", "POST", "UNKNOWN"}

(* What a responder's get did: the code it returned was 200, and the size  *)
(* it gave to ret_content, -1 if it left it alone.                         *)
Answers == [ok : BOOLEAN, size : -1..MaxLen]

Lesser(a, b) == IF a < b THEN a ELSE b

Init ==
    /\ inbox = <<>>
    /\ requests = 0
    /\ net = "up"
    /\ fsize \in 0..MaxLen
    /\ changed = FALSE
    /\ wire = <<>>
    /\ killed = FALSE
    /\ tpc = "recv"
    /\ method = "UNKNOWN"
    /\ asked = 0
    /\ found = FALSE
    /\ connUp = TRUE
    /\ content = 0
    /\ length = 0
    /\ open = FALSE
    /\ good = FALSE
    /\ dir = FALSE
    /\ clean = TRUE
    /\ readed = 0
    /\ sentAll = TRUE

-----------------------------------------------------------------------------
(* The environment.                                                        *)

(* A client may send the next request before it has the last response.     *)
ClientSends(m) ==
    /\ net = "up"
    /\ requests < MaxRequests
    /\ requests' = requests + 1
    /\ inbox' = Append(inbox, m)
    /\ UNCHANGED <<net, fsize, changed, wire, killed, tpc, connUp, respVars,
                   readed, sentAll>>

(* What the client has sent may still be read.                             *)
ClientLeaves(how) ==
    /\ net = "up"
    /\ net' = how
    /\ UNCHANGED <<inbox, requests, fsize, changed, wire, killed, tpc, connUp,
                   respVars, readed, sentAll>>

(* The file is replaced, truncated or extended. *)
FileChanges(n) ==
    /\ n # fsize
    /\ fsize' = n
    /\ changed' = (changed \/ tpc = "open" \/ open)
    /\ UNCHANGED <<inbox, requests, net, wire, killed, tpc, connUp, respVars,
                   readed, sentAll>>

(* The JResponse is destroyed at the end of an iteration.                  *)
Released ==
    /\ method' = "UNKNOWN"
    /\ asked' = 0
    /\ found' = FALSE
    /\ content' = 0
    /\ length' = 0
    /\ open' = FALSE
    /\ good' = FALSE
    /\ dir' = FALSE
    /\ clean' = TRUE
    /\ readed' = 0
    /\ changed' = FALSE

-----------------------------------------------------------------------------
(* Mutations: what some definitions below would be with a plausible bug in *)
(* the code.  They take no part in Next; each one shows, put in the place  *)
(* of the definition it is named after, that a property tells the          *)
(* difference.                                                             *)

(* A closed connection is taken for one that has nothing to say yet. *)
RecvDownRetried ==
    /\ tpc = "recv"
    /\ inbox = <<>> \/ net \in {"aborted", "reset"}
    /\ UNCHANGED vars

(* body reads count bytes, whatever is left of the file. *)
BodySizeWhole ==
    IF content > 0 THEN Lesser(Chunk, content - readed)
    ELSE IF length > readed /\ open /\ good THEN Chunk
    ELSE 0

(* A body that has come out too short goes unnoticed. *)
SendDoneUnchecked ==
    /\ tpc = "sent"
    /\ connUp' = connUp
    /\ tpc' = IF connUp' THEN "recv" ELSE "shutdown"
    /\ Released
    /\ UNCHANGED <<inbox, requests, net, fsize, wire, killed, sentAll>>

(* A method that is not known is dropped without a response. *)
BuildRefusedSilent ==
    /\ tpc = "build"
    /\ method = "UNKNOWN"
    /\ tpc' = "recv"
    /\ UNCHANGED <<envVars, respVars, connUp, readed, sentAll>>

-----------------------------------------------------------------------------
(* Receiving.                                                              *)

(* A new HttpSocket, and HttpSocket::recv up to the empty line.            *)
RecvRequest ==
    /\ tpc = "recv"
    /\ inbox # <<>>
    /\ method' = Head(inbox)
    /\ inbox' = Tail(inbox)
    /\ connUp' = TRUE
    /\ sentAll' = TRUE
    /\ tpc' = "build"
    /\ UNCHANGED <<requests, net, fsize, changed, wire, killed, asked, found,
                   content, length, open, good, dir, clean, readed>>

(* Timeout, error or end of stream: if (!httpSocket) break.  After a reset *)
(* it depends on the platform whether what has come can still be read.     *)
RecvDown ==
    /\ tpc = "recv"
    /\ inbox = <<>> \/ net \in {"aborted", "reset"}
    /\ connUp' = FALSE
    /\ tpc' = "shutdown"
    /\ UNCHANGED <<envVars, respVars, readed, sentAll>>

-----------------------------------------------------------------------------
(* The constructor of JResponse.                                           *)

(* formatError: status 401, 403 or 404 with a page of its own.             *)
BuildError ==
    /\ content' = 1
    /\ length' = 1
    /\ open' = FALSE
    /\ good' = FALSE
    /\ dir' = FALSE
    /\ clean' = TRUE

(* UNKNOWN: 403 before anything is looked up.                              *)
BuildRefused ==
    /\ tpc = "build"
    /\ method = "UNKNOWN"
    /\ BuildError
    /\ tpc' = "header"
    /\ UNCHANGED <<envVars, method, asked, found, connUp, readed, sentAll>>

(* A turn of the loop over the responders: every one is asked, each may    *)
(* write _content, and _content_length is set when it returns 200.         *)
Ask(a) ==
    /\ tpc = "build"
    /\ method # "UNKNOWN"
    /\ asked < NumResps
    /\ asked' = asked + 1
    /\ found' = (found \/ a.ok)
    /\ content' = IF a.size = -1 THEN content ELSE a.size
    /\ length' = IF a.ok THEN content' ELSE length
    /\ clean' = (a.ok \/ (clean /\ a.size = -1))
    /\ UNCHANGED <<envVars, tpc, method, connUp, open, good, dir, readed, sentAll>>

AllAsked == tpc = "build" /\ method # "UNKNOWN" /\ asked = NumResps

(* A responder has answered 200. *)
BuildResp ==
    /\ AllAsked
    /\ found
    /\ tpc' = "header"
    /\ UNCHANGED <<envVars, respVars, connUp, readed, sentAll>>

(* None has: fileStat tells the size of the file, or of the directory that *)
(* is in its place.  What a responder has left in _content stays there.    *)
BuildStat ==
    /\ AllAsked
    /\ ~found
    /\ tpc' = "open"
    /\ dir' \in BOOLEAN
    /\ length' = fsize
    /\ UNCHANGED <<envVars, method, asked, found, connUp, content, open, good,
                   clean, readed, sentAll>>

(* No web root, or no such file. *)
BuildNoFile ==
    /\ AllAsked
    /\ ~found
    /\ BuildError
    /\ tpc' = "header"
    /\ UNCHANGED <<envVars, method, asked, found, connUp, readed, sentAll>>

(* ifstream opens a directory too (on Linux); nothing can be read from it. *)
BuildOpen ==
    /\ tpc = "open"
    /\ open' = TRUE
    /\ good' = TRUE
    /\ tpc' = "header"
    /\ UNCHANGED <<envVars, method, asked, found, connUp, content, length, dir,
                   clean, readed, sentAll>>

BuildOpenFails ==
    /\ tpc = "open"
    /\ BuildError
    /\ tpc' = "header"
    /\ UNCHANGED <<envVars, method, asked, found, connUp, readed, sentAll>>

-----------------------------------------------------------------------------
(* Sending.                                                                *)

(* ::send of n units to a client that is there: all of them arrive, or k   *)
(* of them when the call is cut short or fails.  after[k] is the wire then. *)
SendUp(n, after) ==
    /\ net = "up"
    /\ \/ /\ wire' = after[n]
          /\ sentAll' = TRUE
       \/ /\ SendMayFail
          /\ \E k \in 0..(n - 1) : wire' = after[k]
          /\ sentAll' = FALSE
    /\ UNCHANGED <<net, killed>>

(* To a client that has gone: accepted, and sooner or later answered by a  *)
(* reset.                                                                  *)
SendClosed ==
    /\ net = "closed"
    /\ net' \in {"closed", "reset"}
    /\ sentAll' = TRUE
    /\ UNCHANGED <<wire, killed>>

(* On a connection that the client has reset: -1.                          *)
SendAborted ==
    /\ net = "aborted"
    /\ net' = "reset"
    /\ sentAll' = FALSE
    /\ UNCHANGED <<wire, killed>>

(* From then on SIGPIPE, or -1.                                            *)
SendReset ==
    /\ net = "reset"
    /\ killed' = SigPipe
    /\ sentAll' = FALSE
    /\ UNCHANGED <<wire, net>>

(* A response is as long as its header says, without the body.             *)
Headed ==
    [k \in 0..1 |->
        Append(wire, [head |-> method = "HEAD", length |-> length, body |-> 0,
                      clean |-> clean, lossy |-> k = 0, zeros |-> FALSE])]

(* Of n units given to ::send, k more arrive for the last response; zeros  *)
(* of them may be zeros that nobody has read from anywhere.                *)
Extended(n, zeros) ==
    [k \in 0..n |->
        [wire EXCEPT ![Len(wire)].body = @ + k,
                     ![Len(wire)].lossy = @ \/ k < n,
                     ![Len(wire)].zeros = @ \/ (zeros /\ k > 0)]]

Send(n, after) == SendUp(n, after) \/ SendClosed \/ SendAborted \/ SendReset

SendHeader ==
    /\ tpc = "header"
    /\ Send(1, Headed)
    /\ tpc' = IF killed' THEN "dead" ELSE IF method = "HEAD" THEN "recv" ELSE "body"
    /\ IF method = "HEAD" THEN Released
       ELSE UNCHANGED <<respVars, readed, changed>>
    /\ UNCHANGED <<inbox, requests, fsize, connUp>>

(* The size of what JResponse::body returns for the offset readed.         *)
BodySize ==
    IF content > 0 THEN Lesser(Chunk, content - readed)
    ELSE IF length > readed /\ open /\ good THEN Lesser(Chunk, length - readed)
    ELSE 0

(* How many of n units from readed on are in the file. *)
ReadFromFile(n) ==
    IF dir \/ fsize <= readed THEN 0 ELSE Lesser(n, fsize - readed)

(* One turn of the loop of sendBody.  A file that has become shorter gives *)
(* a chunk of the size that was asked for, filled up with zeros, and a     *)
(* stream that is no longer good.                                          *)
SendChunk ==
    /\ tpc = "body"
    /\ BodySize > 0
    /\ LET n == BodySize
           short == content = 0 /\ ReadFromFile(n) < n
       IN  /\ Send(n, Extended(n, short /\ ~changed /\ ~dir))
           /\ readed' = readed + n
           /\ good' = (good /\ ~short)
    /\ tpc' = IF killed' THEN "dead" ELSE IF readed' >= length THEN "sent" ELSE "body"
    /\ UNCHANGED <<inbox, requests, fsize, changed, connUp, method, asked, found,
                   content, length, open, dir, clean>>

(* body returns nothing: break. *)
SendNothing ==
    /\ tpc = "body"
    /\ BodySize = 0
    /\ tpc' = "sent"
    /\ UNCHANGED <<envVars, connUp, respVars, readed, sentAll>>

(* The end of sendBody: the whole body has been handed over, or the task   *)
(* ends.                                                                   *)
SendDone ==
    /\ tpc = "sent"
    /\ connUp' = (connUp /\ readed >= length)
    /\ tpc' = IF connUp' THEN "recv" ELSE "shutdown"
    /\ Released
    /\ UNCHANGED <<inbox, requests, net, fsize, wire, killed, sentAll>>

(* shutdown, and the socket closes with its last handle.                   *)
Shutdown ==
    /\ tpc = "shutdown"
    /\ tpc' = "done"
    /\ UNCHANGED <<envVars, connUp, respVars, readed, sentAll>>

-----------------------------------------------------------------------------

Build ==
    \/ BuildRefused
    \/ \E a \in Answers : Ask(a)
    \/ BuildResp
    \/ BuildStat
    \/ BuildNoFile
    \/ BuildOpen
    \/ BuildOpenFails

TaskStep ==
    \/ RecvRequest
    \/ RecvDown
    \/ Build
    \/ SendHeader
    \/ SendChunk
    \/ SendNothing
    \/ SendDone
    \/ Shutdown

Terminated == tpc \in {"done", "dead"} /\ UNCHANGED vars

Next ==
    \/ \E m \in Methods : ClientSends(m)
    \/ \E how \in {"closed", "aborted"} : ClientLeaves(how)
    \/ \E n \in 0..MaxLen : FileChanges(n)
    \/ TaskStep
    \/ Terminated

(* The worker runs; ::send, the responders and the disk answer.  A request *)
(* that does not come ends in the receive timeout.                         *)
Spec == Init /\ [][Next]_vars /\ WF_vars(TaskStep)

-----------------------------------------------------------------------------
(* Properties.                                                             *)

TaskStates == {"recv", "build", "open", "header", "body", "sent", "shutdown", "done",
               "dead"}

(* Every variable has its type. *)
TypeOK ==
    /\ inbox \in Seq(Methods)
    /\ requests \in 0..MaxRequests
    /\ net \in {"up", "closed", "aborted", "reset"}
    /\ fsize \in 0..MaxLen
    /\ changed \in BOOLEAN
    /\ wire \in Seq([head : BOOLEAN, length : Nat, body : Nat, clean : BOOLEAN,
                     lossy : BOOLEAN, zeros : BOOLEAN])
    /\ killed \in BOOLEAN
    /\ tpc \in TaskStates
    /\ method \in Methods
    /\ asked \in 0..NumResps
    /\ found \in BOOLEAN
    /\ connUp \in BOOLEAN
    /\ content \in Nat
    /\ length \in Nat
    /\ open \in BOOLEAN
    /\ good \in BOOLEAN
    /\ dir \in BOOLEAN
    /\ clean \in BOOLEAN
    /\ readed \in Nat
    /\ sentAll \in BOOLEAN

(* The client can tell the responses apart: no response has more body than *)
(* its header declares, however ::send is cut short, and none is followed  *)
(* by another one, or by the wait for a request, before its body is        *)
(* complete; a file that changes size meanwhile costs at most the          *)
(* connection.  Two things the code does not guard against: after a        *)
(* responder that writes content and then does not return 200, which is    *)
(* sent in the place of the file, the body is too long, but by a chunk at  *)
(* most; and when a ::send has been cut short, or has failed with the      *)
(* connection up, what follows comes too early.                            *)
FramingKept ==
    \A i \in 1..Len(wire) :
        LET w == wire[i]
            declared == IF w.head THEN 0 ELSE w.length
        IN  /\ w.body <= IF w.clean THEN declared ELSE declared + Chunk
            /\ ~w.lossy /\ (i < Len(wire) \/ (tpc = "recv" /\ net = "up")) =>
                   w.body >= declared

(* What a client gets for a file is the file: a body is filled up with     *)
(* zeros only when the file has got shorter since its size was put into    *)
(* the header, or when what the URI names is a directory.                  *)
ZerosExplained == \A i \in 1..Len(wire) : ~wire[i].zeros

(* While the client is there, it gets one response for each request that   *)
(* has been read, even for one that is malformed, and none in advance.     *)
OneResponsePerRequest ==
    net = "up" =>
        Len(wire) + Len(inbox)
            + (IF tpc \in {"build", "open", "header"} THEN 1 ELSE 0) = requests

(* A client that has gone does not keep a worker: the task ends, wherever  *)
(* it was.                                                                 *)
WorkerReleased == net # "up" ~> tpc \in {"done", "dead"}

-----------------------------------------------------------------------------
(* What the comments of the code say.                                      *)

(* jsocket.h:77, of operator bool: "Returns false if last recv/send        *)
(* operation detected that connection was down".                           *)
SendFailureNoticed ==
    tpc \in {"body", "sent"} /\ net = "reset" /\ ~sentAll => ~connUp

=============================================================================
