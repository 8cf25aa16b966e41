--------------------------- MODULE RequestParser ----------------------------
(***************************************************************************)
(* How the bytes of a connection become requests: HttpSocket::recv         *)
(* (src/src/jsocket.cpp) reads byte after byte up to an empty line and     *)
(* cuts them into lines, and the parsers of HttpRequest                    *)
(* (src/src/jrequest.h, .cpp) take the first of them apart.  Every request *)
(* gets a new HttpSocket, so recv starts afresh where it left off before.  *)
(*                                                                         *)
(* A symbol stands for one byte ("CR", "LF", "SP", "/", "x") or for a word *)
(* that is told apart as a whole ("GET", "HTTP/1.1", ...).                 *)
(***************************************************************************)
EXTENDS Naturals, Sequences, FiniteSetsExt

CONSTANTS
    Symbols,    \* what a client may send
    Inputs      \* what it does send: sequences of messages, [head, body]

Messages == [head : Seq(Symbols), body : Seq(Symbols)]

ASSUME InputAssumption == Inputs \subseteq Seq(Messages)

VARIABLES
    input,      \* the messages of this client
    sent,       \* the number of the one that is being received, 0 for none yet
    stream,     \* the bytes of it that have not been received
    pc,         \* "recv", "parse" or, when the connection is down, "down"
    s,          \* the state of the lambda crlf
    line,       \* the bytes since the last end of a line
    header,     \* HttpRequest::_header
    rest,       \* subline of splitLineInTokens
    tokens,     \* its tokens
    got,        \* history: the bytes this recv has taken
    ends,       \* history: how many there were at the end of each line
    served      \* history: the requests the task has answered

netVars == <<input, sent, stream>>
recvVars == <<s, line, header, got, ends>>
splitVars == <<rest, tokens>>
vars == <<pc, served, netVars, recvVars, splitVars>>

CRLF == <<"CR", "LF">>
EmptyLine == <<"CR", "LF", "CR", "LF">>

Init ==
    /\ input \in Inputs
    /\ sent = 0
    /\ stream = <<>>
    /\ pc = "recv"
    /\ s = "IDLE"
    /\ line = <<>>
    /\ header = <<>>
    /\ rest = <<>>
    /\ tokens = <<>>
    /\ got = <<>>
    /\ ends = <<>>
    /\ served = <<>>

-----------------------------------------------------------------------------
(* Mutations: what some definitions would be with a plausible bug in the   *)
(* code.  They take no part in Next; each one shows, put in the place of   *)
(* the definition it is named after, that a property tells the difference. *)

(* One end of a line is enough. *)
CrlfOnce(state, c) ==
    CASE state = "IDLE" /\ c = "CR" -> "CR1"
      [] state = "CR1" /\ c = "LF" -> "LF2"
      [] OTHER -> "IDLE"

(* The state does not survive the end of a line. *)
CrlfForgets(state, c) ==
    CASE state \in {"IDLE", "LF1"} /\ c = "CR" -> "CR1"
      [] state = "CR1" /\ c = "LF" -> "LF1"
      [] OTHER -> "IDLE"

(* Blanks in a row count as one. *)
SplitMerging ==
    /\ pc = "parse"
    /\ rest # <<>>
    /\ LET blanks == {i \in DOMAIN rest : rest[i] = "SP"}
           at == IF blanks = {} THEN Len(rest) + 1 ELSE Min(blanks)
       IN  /\ tokens' = IF at = 1 THEN tokens ELSE Append(tokens, SubSeq(rest, 1, at - 1))
           /\ rest' = SubSeq(rest, at + 1, Len(rest))
    /\ UNCHANGED <<pc, served, netVars, recvVars>>

(* The end of the line is not cut off. *)
VersionWhole(token) ==
    IF \E v \in {"HTTP/1.0", "HTTP/1.1"} : token = <<v>> THEN Head(token) ELSE "UNKNOWN"

-----------------------------------------------------------------------------
(* The request line.                                                       *)

Methods == {"GET", "HEAD", "POST"}
Versions == {"HTTP/1.0", "HTTP/1.1"}

Method(token) ==
    IF \E m \in Methods : token = <<m>> THEN Head(token) ELSE "UNKNOWN"

(* JHTTPD_SERVER_INDEX in the place of "/".                                *)
Uri(token) == IF token = <<"/">> THEN <<"index.html">> ELSE token

(* The token is cut to the length of "HTTP/x.x": what follows, the end of  *)
(* the line among it, does not count.                                      *)
Version(token) ==
    IF token # <<>> /\ Head(token) \in Versions THEN Head(token) ELSE "UNKNOWN"

Unknown == [method |-> "UNKNOWN", uri |-> <<>>, version |-> "UNKNOWN"]

(* Three tokens make a request line.                                       *)
ParseRequest(words) ==
    IF Len(words) # 3 THEN Unknown
    ELSE [method  |-> Method(words[1]),
          uri     |-> Uri(words[2]),
          version |-> Version(words[3])]

-----------------------------------------------------------------------------
(* The end of the head.                                                    *)

(* crlf: the four bytes of an empty line, one after the other.             *)
Crlf(state, c) ==
    CASE state = "IDLE" /\ c = "CR" -> "CR1"
      [] state = "CR1" /\ c = "LF" -> "LF1"
      [] state = "LF1" /\ c = "CR" -> "CR2"
      [] state = "CR2" /\ c = "LF" -> "LF2"
      [] state = "LF2" -> "LF2"
      [] OTHER -> "IDLE"

-----------------------------------------------------------------------------
(* The next message begins to arrive.  Whether the client had sent it long *)
(* before makes no difference: recv takes one byte at a time.              *)
Arrive ==
    /\ pc = "recv"
    /\ stream = <<>>
    /\ sent < Len(input)
    /\ sent' = sent + 1
    /\ stream' = input[sent'].head \o input[sent'].body
    /\ UNCHANGED <<pc, served, input, recvVars, splitVars>>

(* Mutation of RecvByte: line.clear() is forgotten. *)
RecvByteKeepsLine ==
    /\ pc = "recv"
    /\ stream # <<>>
    /\ LET c == Head(stream)
       IN  /\ got' = Append(got, c)
           /\ s' = Crlf(s, c)
           /\ line' = Append(line, c)
           /\ IF s' = "LF1"
                THEN header' = Append(header, line') /\ ends' = Append(ends, Len(got'))
                ELSE UNCHANGED <<header, ends>>
    /\ stream' = Tail(stream)
    /\ pc' = IF s' = "LF2" THEN "parse" ELSE "recv"
    /\ rest' = IF s' = "LF2" /\ header # <<>> THEN Head(header) ELSE <<>>
    /\ tokens' = <<>>
    /\ UNCHANGED <<served, input, sent>>

(* A byte arrives.  The one that completes the empty line ends the loop,   *)
(* and the first line is to be split; the one that completes any other     *)
(* line ends that line.                                                    *)
RecvByte ==
    /\ pc = "recv"
    /\ stream # <<>>
    /\ LET c == Head(stream)
       IN  /\ got' = Append(got, c)
           /\ s' = Crlf(s, c)
           /\ IF s' = "LF1"
                THEN /\ header' = Append(header, Append(line, c))
                     /\ line' = <<>>
                     /\ ends' = Append(ends, Len(got'))
                ELSE line' = Append(line, c) /\ UNCHANGED <<header, ends>>
    /\ stream' = Tail(stream)
    /\ pc' = IF s' = "LF2" THEN "parse" ELSE "recv"
    /\ rest' = IF s' = "LF2" /\ header # <<>> THEN Head(header) ELSE <<>>
    /\ tokens' = <<>>
    /\ UNCHANGED <<served, input, sent>>

(* A timeout, an error or the end of the stream: recv still parses what it *)
(* has, but the task looks at the connection first and drops it.           *)
RecvDown ==
    /\ pc = "recv"
    /\ pc' = "down"
    /\ UNCHANGED <<served, netVars, recvVars, splitVars>>

(* One turn of the loop of splitLineInTokens: up to the next blank, or all *)
(* there is.  What follows the last blank is a token only if it is not     *)
(* empty.                                                                  *)
SplitToken ==
    /\ pc = "parse"
    /\ rest # <<>>
    /\ LET blanks == {i \in DOMAIN rest : rest[i] = "SP"}
           at == IF blanks = {} THEN Len(rest) + 1 ELSE Min(blanks)
       IN  /\ tokens' = Append(tokens, SubSeq(rest, 1, at - 1))
           /\ rest' = SubSeq(rest, at + 1, Len(rest))
    /\ UNCHANGED <<pc, served, netVars, recvVars>>

(* The request is parsed and, which is all HttpConnection is about,        *)
(* answered; the next recv starts.                                         *)
Parse ==
    /\ pc = "parse"
    /\ rest = <<>>
    /\ served' = Append(served, ParseRequest(tokens))
    /\ pc' = "recv"
    /\ s' = "IDLE"
    /\ line' = <<>>
    /\ header' = <<>>
    /\ got' = <<>>
    /\ ends' = <<>>
    /\ tokens' = <<>>
    /\ UNCHANGED <<rest, netVars>>

Terminated == pc = "down" /\ UNCHANGED vars

Next == Arrive \/ RecvByte \/ RecvDown \/ SplitToken \/ Parse \/ Terminated

Spec == Init /\ [][Next]_vars

-----------------------------------------------------------------------------
(* Properties.                                                             *)

Words == Symbols \cup {"index.html"}
Requests == [method : Methods \cup {"UNKNOWN"}, uri : Seq(Words),
             version : Versions \cup {"UNKNOWN"}]

(* Every variable has its type; a method is one of the four.               *)
TypeOK ==
    /\ input \in Seq(Messages)
    /\ sent \in 0..Len(input)
    /\ stream \in Seq(Symbols)
    /\ pc \in {"recv", "parse", "down"}
    /\ s \in {"IDLE", "CR1", "LF1", "CR2", "LF2"}
    /\ line \in Seq(Symbols)
    /\ header \in Seq(Seq(Symbols))
    /\ rest \in Seq(Symbols)
    /\ tokens \in Seq(Seq(Symbols))
    /\ got \in Seq(Symbols)
    /\ ends \in Seq(Nat)
    /\ served \in Seq(Requests)

(* The last symbols of b are those of t.                                   *)
EndsWith(b, t) ==
    /\ Len(t) <= Len(b)
    /\ \A i \in 1..Len(t) : b[Len(b) - Len(t) + i] = t[i]

(* recv returns a request only at an empty line, with at least one line    *)
(* before it for the parsers to look at.                                   *)
StopsAtEmptyLine == pc = "parse" => EndsWith(got, EmptyLine) /\ header # <<>>

(* ... and it never reads on beyond one, into the next request: as long as *)
(* no two CR stand in a row (crlf does not take the second one for the     *)
(* beginning of an end of line, and misses an empty line behind it).       *)
NoDoubledCR(b) == \A i \in 2..Len(b) : ~(b[i - 1] = "CR" /\ b[i] = "CR")
EmptyLineStops == NoDoubledCR(got) /\ EndsWith(got, EmptyLine) => pc # "recv"

(* Cutting the head into lines loses and doubles no byte: each line is what *)
(* came between its predecessor's end and its own, and ends in CR LF.      *)
LineStart(i) == IF i = 1 THEN 1 ELSE ends[i - 1] + 1
LinesAreWhatCame ==
    /\ Len(ends) = Len(header)
    /\ \A i \in DOMAIN header : /\ header[i] = SubSeq(got, LineStart(i), ends[i])
                                /\ EndsWith(header[i], CRLF)
    /\ line = SubSeq(got, LineStart(Len(header) + 1), Len(got))

(* A request line is understood, that is, its method is not UNKNOWN, if    *)
(* and only if it begins with a known method and has exactly two blanks,   *)
(* the first of them right behind the method: a blank too few or too many, *)
(* also one at the very beginning, makes the request one that is refused.  *)
(* The URI is then what is between the two, the version what is behind the *)
(* second.  Nothing is asked of either: the URI may be empty, and with no  *)
(* third word, or one that is no version of HTTP, the version is UNKNOWN   *)
(* and the request is answered all the same.                               *)
RequestLineRead ==
    pc = "parse" /\ rest = <<>> =>
        LET l == header[1]
            blanks == {i \in DOMAIN l : l[i] = "SP"}
            r == ParseRequest(tokens)
        IN  /\ r.method # "UNKNOWN" <=>
                   /\ l[1] \in Methods
                   /\ \E i \in DOMAIN l : i > 2 /\ blanks = {2, i}
            /\ \A i \in DOMAIN l :
                   r.method # "UNKNOWN" /\ i > 2 /\ l[i] = "SP" =>
                       /\ r.uri = Uri(SubSeq(l, 3, i - 1))
                       /\ r.version = Version(SubSeq(l, i + 1, Len(l)))

(* A head is well formed: three words apart from each other by a blank,    *)
(* the end of the line, any fields, and an empty line that comes last.     *)
WellFormed(m) ==
    /\ Len(m.head) >= 9
    /\ \A i \in 1..6 : m.head[i] = "SP" <=> i \in {2, 4}
    /\ \A i \in 1..6 : m.head[i] = "CR" <=> i = 6
    /\ m.head[7] = "LF"
    /\ NoDoubledCR(m.head)
    /\ \A n \in 1..Len(m.head) :
           EndsWith(SubSeq(m.head, 1, n), EmptyLine) <=> n = Len(m.head)

(* What such a message means.                                              *)
Meaning(m) ==
    [method  |-> IF m.head[1] \in Methods THEN m.head[1] ELSE "UNKNOWN",
     uri     |-> IF m.head[3] = "/" THEN <<"index.html">> ELSE <<m.head[3]>>,
     version |-> IF m.head[5] \in Versions THEN m.head[5] ELSE "UNKNOWN"]

(* The requests the task answers are the messages the client has sent, one *)
(* after the other, also when it has sent them all before the first was    *)
(* answered: up to the first one with a body, which nobody reads and which *)
(* is taken for the beginning of the next request.                         *)
Bodiless(n) == \A i \in 1..n : input[i].body = <<>>
RequestsAsSent ==
    (\A i \in DOMAIN input : WellFormed(input[i])) =>
        /\ Bodiless(Len(input)) => Len(served) <= Len(input)
        /\ \A i \in DOMAIN served :
               i <= Len(input) /\ Bodiless(i - 1) => served[i] = Meaning(input[i])

=============================================================================
