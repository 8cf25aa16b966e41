------------------------ MODULE HttpConnectionProofs ------------------------
(***************************************************************************)
(* Theorems about HttpConnection, for any number of requests and           *)
(* responders and files of any length.                                     *)
(*                                                                         *)
(* The argument: as long as the client is there, every response but the    *)
(* last is settled, and the last one has got as many units as readed       *)
(* counts, or fewer when a ::send was cut short (Sending).  readed stays   *)
(* below the length in the header because the content is either what that  *)
(* length was taken from or empty, and passes it by a chunk at most even   *)
(* when it is neither (ContentFits); and the task goes on to the next      *)
(* request only when readed has come to it.  A client that has gone gets   *)
(* nothing any more, so what it has got stays as it is.                    *)
(***************************************************************************)
EXTENDS HttpConnection, TLAPS

Responses == [head : BOOLEAN, length : Nat, body : Nat, clean : BOOLEAN,
              lossy : BOOLEAN, zeros : BOOLEAN]

Declared(w) == IF w.head THEN 0 ELSE w.length
Within(w) == w.body <= IF w.clean THEN Declared(w) ELSE Declared(w) + Chunk
Settled(w) == ~w.lossy => w.body >= Declared(w)

(* All responses but the last are settled, and the last one as soon as the *)
(* task is done with it.                                                   *)
Framed ==
    /\ \A i \in 1..Len(wire) :
          /\ Within(wire[i])
          /\ i < Len(wire) => Settled(wire[i])
    /\ net = "up" /\ tpc \in {"recv", "build", "open", "header"} /\ Len(wire) > 0 =>
          Settled(wire[Len(wire)])

(* The response that is being sent is the last one. *)
Sending ==
    net = "up" /\ tpc \in {"body", "sent"} =>
        /\ Len(wire) > 0
        /\ ~wire[Len(wire)].head
        /\ wire[Len(wire)].length = length
        /\ wire[Len(wire)].clean = clean
        /\ wire[Len(wire)].body <= readed
        /\ wire[Len(wire)].lossy \/ wire[Len(wire)].body = readed

(* Where content and length come from. *)
ContentFits ==
    /\ tpc = "recv" => content = 0 /\ ~found
    /\ tpc \in {"build", "open"} /\ clean =>
          content = IF found THEN length ELSE 0
    /\ tpc = "open" => ~found
    /\ tpc \in {"header", "body", "sent"} /\ clean => content \in {0, length}
    /\ tpc \in {"recv", "build", "open", "header"} => readed = 0
    /\ tpc \in {"body", "sent"} /\ clean => readed <= length
    /\ tpc = "body" => readed = 0 \/ readed < length
    /\ tpc \in {"body", "sent"} => readed <= length + Chunk

(* The length of a file that has not changed. *)
FileFits ==
    /\ tpc \in {"recv", "build", "open"} => ~open
    /\ (tpc = "open" \/ open) /\ ~changed /\ ~dir => length = fsize

Inv ==
    /\ TypeOK
    /\ Framed
    /\ Sending
    /\ ContentFits
    /\ FileFits
    /\ OneResponsePerRequest
    /\ ZerosExplained

-----------------------------------------------------------------------------
(* Types.                                                                  *)

LEMMA LesserIs ==
  ASSUME NEW a \in Int, NEW b \in Int
  PROVE  /\ Lesser(a, b) \in Int
         /\ Lesser(a, b) <= a /\ Lesser(a, b) <= b
         /\ Lesser(a, b) = a \/ Lesser(a, b) = b
  BY DEF Lesser

(* The header makes a new response. *)
LEMMA HeadedIs ==
  ASSUME TypeOK, NEW k \in 0..1
  PROVE  Headed[k] = Append(wire, [head |-> method = "HEAD", length |-> length,
                                   body |-> 0, clean |-> clean, lossy |-> k = 0,
                                   zeros |-> FALSE])
  BY DEF Headed

(* A chunk adds to the last response and leaves the others alone.          *)
LEMMA ExtendedIs ==
  ASSUME wire \in Seq(Responses), Len(wire) > 0,
         NEW n \in Nat, NEW k \in 0..n, NEW z \in BOOLEAN,
         NEW after, after = Extended(n, z)[k]
  PROVE  /\ after \in Seq(Responses)
         /\ Len(after) = Len(wire)
         /\ \A i \in 1..Len(wire) : i < Len(wire) => after[i] = wire[i]
         /\ after[Len(wire)].head = wire[Len(wire)].head
         /\ after[Len(wire)].length = wire[Len(wire)].length
         /\ after[Len(wire)].clean = wire[Len(wire)].clean
         /\ after[Len(wire)].body = wire[Len(wire)].body + k
         /\ after[Len(wire)].lossy = (wire[Len(wire)].lossy \/ k < n)
         /\ after[Len(wire)].zeros = (wire[Len(wire)].zeros \/ (z /\ k > 0))
<1> DEFINE last == Len(wire)
           v == wire[last]
           b == v.body + k
           l == v.lossy \/ k < n
           zs == v.zeros \/ (z /\ k > 0)
           w == [v EXCEPT !.body = b, !.lossy = l, !.zeros = zs]
<1>1. last \in 1..last /\ v \in Responses
  OBVIOUS
<1>2. after = [wire EXCEPT ![last] = w]
  BY <1>1 DEF Extended
<1>3. b \in Nat /\ l \in BOOLEAN /\ zs \in BOOLEAN
  BY <1>1 DEF Responses
<1>4. /\ w \in Responses
      /\ w.head = v.head /\ w.length = v.length /\ w.clean = v.clean
      /\ w.body = b /\ w.lossy = l /\ w.zeros = zs
  <2>1. v \in Responses /\ b \in Nat /\ l \in BOOLEAN /\ zs \in BOOLEAN
    BY <1>1, <1>3
  <2> HIDE DEF v, b, l, zs
  <2>2. w \in Responses
    BY <2>1 DEF Responses
  <2>3. w.head = v.head /\ w.length = v.length /\ w.clean = v.clean
    BY <2>1 DEF Responses
  <2>4. w.body = b /\ w.lossy = l /\ w.zeros = zs
    BY <2>1 DEF Responses
  <2> QED
    BY <2>2, <2>3, <2>4
<1>5. /\ after \in Seq(Responses) /\ Len(after) = last /\ after[last] = w
      /\ \A i \in 1..last : i < last => after[i] = wire[i]
  <2> HIDE DEF w
  <2> QED
    BY <1>1, <1>2, <1>4
<1> QED
  <2> HIDE DEF w
  <2> QED
    BY <1>4, <1>5, Zenon

LEMMA TypeInit == Init => TypeOK
<1> SUFFICES ASSUME Init PROVE TypeOK
  OBVIOUS
<1> USE ConnectionAssumption DEF Init
<1>1. inbox \in Seq(Methods) /\ wire \in Seq(Responses)
  OBVIOUS
<1>2. tpc \in TaskStates /\ method \in Methods
  BY DEF TaskStates, Methods
<1> HIDE DEF Init
<1>3. /\ requests \in 0..MaxRequests /\ asked \in 0..NumResps /\ fsize \in 0..MaxLen
      /\ content \in Nat /\ length \in Nat /\ readed \in Nat
  BY DEF Init
<1>4. /\ net = "up" /\ ~changed /\ ~killed /\ ~found /\ connUp /\ ~open /\ ~good /\ ~dir
      /\ clean /\ sentAll
  BY Zenon DEF Init
<1>5. {changed, killed, found, connUp, open, good, dir, clean, sentAll} \subseteq BOOLEAN
  BY Zenon DEF Init
<1> QED
  BY <1>1, <1>2, <1>3, <1>4, <1>5 DEF TypeOK, Responses

LEMMA EnvTypes ==
  ASSUME TypeOK,
         \/ \E m \in Methods : ClientSends(m)
         \/ \E how \in {"closed", "aborted"} : ClientLeaves(how)
         \/ \E n \in 0..MaxLen : FileChanges(n)
  PROVE  TypeOK'
<1> USE ConnectionAssumption DEF TypeOK, envVars, respVars
<1>1. ASSUME NEW m \in Methods, ClientSends(m) PROVE TypeOK'
  BY <1>1 DEF ClientSends
<1>2. ASSUME NEW how \in {"closed", "aborted"}, ClientLeaves(how) PROVE TypeOK'
  BY <1>2 DEF ClientLeaves
<1>3. ASSUME NEW n \in 0..MaxLen, FileChanges(n) PROVE TypeOK'
  <2>1. changed' \in BOOLEAN
    BY <1>3, Zenon DEF FileChanges
  <2> QED
    BY <1>3, <2>1 DEF FileChanges
<1> QED
  BY <1>1, <1>2, <1>3

LEMMA BuildTypes ==
  ASSUME TypeOK, RecvRequest \/ RecvDown \/ Build
  PROVE  TypeOK'
<1> USE ConnectionAssumption DEF TypeOK, envVars, respVars, TaskStates
<1>1. CASE RecvRequest
  BY <1>1 DEF RecvRequest
<1>2. CASE RecvDown
  BY <1>2 DEF RecvDown
<1>3. CASE BuildRefused
  BY <1>3 DEF BuildRefused, BuildError
<1>4. ASSUME NEW a \in Answers, Ask(a) PROVE TypeOK'
  <2>1. found' \in BOOLEAN /\ clean' \in BOOLEAN
    BY <1>4, Zenon DEF Ask, Answers
  <2>2. content' \in Nat
    BY <1>4 DEF Ask, Answers
  <2>3. length' \in Nat
    <3>1. length' = content' \/ length' = length
      BY <1>4 DEF Ask
    <3> QED
      BY <2>2, <3>1
  <2>4. asked' \in 0..NumResps
    BY <1>4 DEF Ask
  <2>5. UNCHANGED <<envVars, tpc, method, connUp, open, good, dir, readed, sentAll>>
    BY <1>4 DEF Ask
  <2> QED
    BY <2>1, <2>2, <2>3, <2>4, <2>5
<1>5. CASE BuildResp
  BY <1>5 DEF BuildResp
<1>6. CASE BuildStat
  <2>1. length' \in Nat
    BY <1>6 DEF BuildStat
  <2> QED
    BY <1>6, <2>1 DEF BuildStat
<1>7. CASE BuildNoFile
  BY <1>7 DEF BuildNoFile, BuildError
<1>8. CASE BuildOpen
  BY <1>8 DEF BuildOpen
<1>9. CASE BuildOpenFails
  BY <1>9 DEF BuildOpenFails, BuildError
<1> QED
  BY <1>1, <1>2, <1>3, <1>4, <1>5, <1>6, <1>7, <1>8, <1>9 DEF Build

-----------------------------------------------------------------------------
(* ::send.                                                                 *)

(* Either something arrives and the client is there, or the wire stays as  *)
(* it is and the client is gone.                                           *)
LEMMA SendIs ==
  ASSUME TypeOK, NEW n \in Nat \ {0}, NEW after, Send(n, after)
  PROVE  /\ net' \in {"up", "closed", "aborted", "reset"}
         /\ killed' \in BOOLEAN /\ sentAll' \in BOOLEAN
         /\ net' = "up" <=> net = "up"
         /\ net = "up" => \E k \in 0..n : wire' = after[k]
         /\ net # "up" => wire' = wire
<1>1. CASE SendUp(n, after)
  <2>1. \E k \in 0..n : wire' = after[k]
    BY <1>1 DEF SendUp
  <2>2. sentAll' \in BOOLEAN
    BY <1>1, Zenon DEF SendUp
  <2> QED
    BY <1>1, <2>1, <2>2 DEF SendUp, TypeOK
<1>2. CASE SendClosed
  BY <1>2 DEF SendClosed, TypeOK
<1>3. CASE SendAborted
  BY <1>3 DEF SendAborted, TypeOK
<1>4. CASE SendReset
  BY <1>4, ConnectionAssumption DEF SendReset, TypeOK
<1> QED
  BY <1>1, <1>2, <1>3, <1>4 DEF Send

(* A header sent. *)
LEMMA HeaderSent ==
  ASSUME TypeOK, SendHeader
  PROVE  /\ net' \in {"up", "closed", "aborted", "reset"}
         /\ killed' \in BOOLEAN /\ sentAll' \in BOOLEAN
         /\ net' = "up" <=> net = "up"
         /\ net # "up" => wire' = wire
         /\ net = "up" => \E w \in Responses :
                /\ wire' = Append(wire, w)
                /\ w.head <=> method = "HEAD"
                /\ w.length = length /\ w.body = 0 /\ w.clean = clean /\ ~w.zeros
<1>1. Send(1, Headed)
  BY DEF SendHeader
<1>2. ASSUME net = "up"
      PROVE  \E w \in Responses :
                /\ wire' = Append(wire, w)
                /\ w.head <=> method = "HEAD"
                /\ w.length = length /\ w.body = 0 /\ w.clean = clean /\ ~w.zeros
  <2>1. PICK k \in 0..1 : wire' = Headed[k]
    BY <1>1, <1>2, SendIs
  <2> DEFINE w == [head |-> method = "HEAD", length |-> length, body |-> 0,
                   clean |-> clean, lossy |-> k = 0, zeros |-> FALSE]
  <2>2. wire' = Append(wire, w)
    BY <2>1, HeadedIs
  <2>3. w \in Responses
    BY DEF TypeOK, Responses
  <2>4. /\ w.head <=> method = "HEAD"
        /\ w.length = length /\ w.body = 0 /\ w.clean = clean /\ ~w.zeros
    OBVIOUS
  <2> HIDE DEF w
  <2> QED
    BY <2>2, <2>3, <2>4
<1> QED
  BY <1>1, <1>2, SendIs

(* What body gives to ::send. *)
LEMMA BodySizeIs ==
  ASSUME TypeOK, BodySize > 0
  PROVE  /\ BodySize \in Nat \ {0} /\ BodySize <= Chunk
         /\ content > 0 => readed + BodySize <= content
         /\ content = 0 => /\ readed + BodySize <= length
                           /\ open
                           /\ BodySize = Lesser(Chunk, length - readed)
<1>1. Chunk \in Int /\ content - readed \in Int /\ length - readed \in Int
  BY ConnectionAssumption DEF TypeOK
<1>2. CASE content > 0
  <2>1. BodySize = Lesser(Chunk, content - readed)
    BY <1>2 DEF BodySize
  <2>2. BodySize \in Int /\ BodySize <= content - readed /\ BodySize <= Chunk
    BY <1>1, <2>1, LesserIs
  <2> QED
    BY <1>2, <2>2 DEF TypeOK
<1>3. CASE ~(content > 0)
  <2>1. /\ length > readed /\ open /\ good
        /\ BodySize = Lesser(Chunk, length - readed)
    BY <1>3 DEF BodySize
  <2>2. BodySize \in Int /\ BodySize <= length - readed /\ BodySize <= Chunk
    BY <1>1, <2>1, LesserIs
  <2> QED
    BY <1>3, <2>1, <2>2 DEF TypeOK
<1> QED
  BY <1>2, <1>3

(* A file that is as long as the header says fills every chunk.            *)
LEMMA NothingShort ==
  ASSUME TypeOK, BodySize > 0, content = 0, length = fsize, ~dir
  PROVE  ~(ReadFromFile(BodySize) < BodySize)
<1>1. BodySize \in Nat \ {0} /\ readed + BodySize <= length
  BY BodySizeIs
<1>2. fsize - readed \in Int /\ BodySize <= fsize - readed /\ ~(fsize <= readed)
  BY <1>1 DEF TypeOK
<1>3. ReadFromFile(BodySize) = Lesser(BodySize, fsize - readed)
  BY <1>2 DEF ReadFromFile
<1> QED
  BY <1>1, <1>2, <1>3 DEF Lesser

(* A chunk sent. *)
LEMMA ChunkSent ==
  ASSUME TypeOK, Sending, SendChunk
  PROVE  /\ BodySize > 0 /\ BodySize \in Nat \ {0} /\ readed' = readed + BodySize
         /\ net' \in {"up", "closed", "aborted", "reset"}
         /\ killed' \in BOOLEAN /\ sentAll' \in BOOLEAN
         /\ net' = "up" <=> net = "up"
         /\ net # "up" => wire' = wire
         /\ net = "up" =>
               LET old == wire[Len(wire)]
                   new == wire'[Len(wire)]
               IN  /\ wire' \in Seq(Responses)
                   /\ Len(wire') = Len(wire)
                   /\ \A i \in 1..Len(wire) : i < Len(wire) => wire'[i] = wire[i]
                   /\ new.head = old.head /\ new.length = old.length
                   /\ new.clean = old.clean
                   /\ new.body <= old.body + BodySize
                   /\ new.lossy \/ (~old.lossy /\ new.body = old.body + BodySize)
                   /\ new.zeros = (old.zeros \/ new.zeros)
                   /\ new.zeros => \/ old.zeros
                                   \/ /\ content = 0 /\ ~changed /\ ~dir
                                      /\ ReadFromFile(BodySize) < BodySize
<1> DEFINE n == BodySize
           short == content = 0 /\ ReadFromFile(n) < n
           z == short /\ ~changed /\ ~dir
<1>1. /\ n > 0 /\ n \in Nat \ {0} /\ readed' = readed + n
      /\ Send(n, Extended(n, z))
  BY BodySizeIs DEF SendChunk
<1>2. z \in BOOLEAN
  OBVIOUS
<1>3. ASSUME net = "up"
      PROVE  LET old == wire[Len(wire)]
                 new == wire'[Len(wire)]
             IN  /\ wire' \in Seq(Responses)
                 /\ Len(wire') = Len(wire)
                 /\ \A i \in 1..Len(wire) : i < Len(wire) => wire'[i] = wire[i]
                 /\ new.head = old.head /\ new.length = old.length
                 /\ new.clean = old.clean
                 /\ new.body <= old.body + BodySize
                 /\ new.lossy \/ (~old.lossy /\ new.body = old.body + BodySize)
                 /\ new.zeros = (old.zeros \/ new.zeros)
                 /\ new.zeros => old.zeros \/ z
  <2> HIDE DEF n, z
  <2>1. PICK k \in 0..n : wire' = Extended(n, z)[k]
    BY <1>1, <1>3, SendIs
  <2>2. Len(wire) > 0 /\ wire \in Seq(Responses)
    BY <1>3 DEF Sending, SendChunk, TypeOK, Responses
  <2> DEFINE old == wire[Len(wire)]
             new == wire'[Len(wire)]
  <2>3. /\ wire' \in Seq(Responses)
        /\ Len(wire') = Len(wire)
        /\ \A i \in 1..Len(wire) : i < Len(wire) => wire'[i] = wire[i]
        /\ new.head = old.head /\ new.length = old.length
        /\ new.clean = old.clean
        /\ new.body = old.body + k
        /\ new.lossy = (old.lossy \/ k < n)
        /\ new.zeros = (old.zeros \/ (z /\ k > 0))
    BY <1>1, <1>2, <2>1, <2>2, ExtendedIs
  <2> HIDE DEF old, new
  <2>4. new.lossy \/ (~old.lossy /\ new.body = old.body + n)
    <3> SUFFICES ASSUME ~new.lossy PROVE ~old.lossy /\ new.body = old.body + n
      OBVIOUS
    <3>1. ~old.lossy /\ ~(k < n)
      BY <2>3, Zenon
    <3>2. k = n
      BY <1>1, <3>1
    <3> QED
      BY <2>3, <3>1, <3>2
  <2>5. new.body <= old.body + n
    <3>1. old \in Responses
      BY <2>2 DEF old
    <3>2. old.body \in Nat /\ k <= n /\ n \in Nat
      BY <1>1, <3>1 DEF Responses
    <3> QED
      BY <2>3, <3>2
  <2>7. new.zeros => old.zeros \/ z
    BY <2>3, Zenon
  <2>6. new.zeros = (old.zeros \/ new.zeros)
    BY <2>3, Zenon
  <2> QED
    BY <2>3, <2>4, <2>5, <2>6, <2>7 DEF n, old, new
<1>4. /\ net' \in {"up", "closed", "aborted", "reset"}
      /\ killed' \in BOOLEAN /\ sentAll' \in BOOLEAN
      /\ net' = "up" <=> net = "up"
      /\ net # "up" => wire' = wire
  <2> HIDE DEF n, z
  <2> QED
    BY <1>1, SendIs
<1> QED
  BY <1>1, <1>3, <1>4

LEMMA ReleasedTypes ==
  ASSUME Released
  PROVE  /\ method' \in Methods
         /\ asked' \in 0..NumResps
         /\ content' \in Nat /\ length' \in Nat /\ readed' \in Nat
         /\ found' \in BOOLEAN /\ open' \in BOOLEAN /\ good' \in BOOLEAN
         /\ dir' \in BOOLEAN /\ clean' \in BOOLEAN /\ changed' \in BOOLEAN
<1>1. method' \in Methods
  BY DEF Released, Methods
<1>2. /\ asked' \in 0..NumResps
      /\ content' \in Nat /\ length' \in Nat /\ readed' \in Nat
  BY ConnectionAssumption DEF Released
<1>3. /\ found' \in BOOLEAN /\ open' \in BOOLEAN /\ good' \in BOOLEAN
      /\ dir' \in BOOLEAN /\ clean' \in BOOLEAN /\ changed' \in BOOLEAN
  BY DEF Released
<1> QED
  BY <1>1, <1>2, <1>3

LEMMA SendTypes ==
  ASSUME TypeOK, Sending, SendHeader \/ SendChunk \/ SendNothing \/ SendDone \/ Shutdown
  PROVE  TypeOK'
<1> USE ConnectionAssumption DEF envVars, respVars, TaskStates
<1>1. CASE SendHeader
  <2>1. wire' \in Seq(Responses)
    <3>1. wire \in Seq(Responses)
      BY DEF TypeOK, Responses
    <3> QED
      BY <1>1, <3>1, HeaderSent
  <2>2. /\ net' \in {"up", "closed", "aborted", "reset"}
        /\ killed' \in BOOLEAN /\ sentAll' \in BOOLEAN
    BY <1>1, HeaderSent
  <2>3. UNCHANGED <<inbox, requests, fsize, connUp>> /\ tpc' \in TaskStates
    BY <1>1 DEF SendHeader
  <2>4. CASE Released
    BY <2>1, <2>2, <2>3, <2>4, ReleasedTypes DEF TypeOK, Responses
  <2>5. CASE UNCHANGED <<respVars, readed, changed>>
    BY <2>1, <2>2, <2>3, <2>5 DEF TypeOK, Responses
  <2> QED
    BY <1>1, <2>4, <2>5 DEF SendHeader
<1>2. CASE SendChunk
  <2>1. wire' \in Seq(Responses)
    <3>1. wire \in Seq(Responses)
      BY DEF TypeOK, Responses
    <3> QED
      BY <1>2, <3>1, ChunkSent
  <2>2. /\ net' \in {"up", "closed", "aborted", "reset"}
        /\ killed' \in BOOLEAN /\ sentAll' \in BOOLEAN
    BY <1>2, ChunkSent
  <2>3. readed' \in Nat
    BY <1>2, ChunkSent DEF TypeOK
  <2>4. good' \in BOOLEAN
    BY <1>2, Zenon DEF SendChunk
  <2>5. /\ UNCHANGED <<inbox, requests, fsize, changed, connUp, method, asked, found,
                       content, length, open, dir, clean>>
        /\ tpc' \in TaskStates
    BY <1>2 DEF SendChunk
  <2> QED
    BY <2>1, <2>2, <2>3, <2>4, <2>5 DEF TypeOK, Responses
<1>3. CASE SendNothing
  BY <1>3 DEF SendNothing, TypeOK
<1>4. CASE SendDone
  <2>1. connUp' \in BOOLEAN
    BY <1>4, Zenon DEF SendDone
  <2>2. /\ Released /\ tpc' \in TaskStates
        /\ UNCHANGED <<inbox, requests, net, fsize, wire, killed, sentAll>>
    BY <1>4 DEF SendDone
  <2> QED
    BY <2>1, <2>2, ReleasedTypes DEF TypeOK
<1>5. CASE Shutdown
  BY <1>5 DEF Shutdown, TypeOK
<1> QED
  BY <1>1, <1>2, <1>3, <1>4, <1>5

-----------------------------------------------------------------------------
(* The conjuncts of the invariant.                                         *)

Early == {"recv", "build", "open", "header"}

(* What a step that sends nothing may do. *)
LEMMA Quiet ==
  ASSUME TypeOK, [Next]_vars, ~SendHeader, ~SendChunk, ~SendDone
  PROVE  /\ wire' = wire
         /\ net' = "up" => net = "up"
         /\ tpc' \in Early => tpc \in Early
         /\ tpc' \in {"body", "sent"} =>
               /\ tpc \in {"body", "sent"}
               /\ UNCHANGED <<length, clean, content, found, readed>>
<1> USE DEF envVars, respVars, Early
<1>1. ASSUME NEW m \in Methods, ClientSends(m) PROVE UNCHANGED <<wire, net, tpc, respVars, readed>>
  BY <1>1 DEF ClientSends
<1>2. ASSUME NEW how \in {"closed", "aborted"}, ClientLeaves(how)
      PROVE  net' # "up" /\ UNCHANGED <<wire, tpc, respVars, readed>>
  BY <1>2 DEF ClientLeaves
<1>3. ASSUME NEW n \in 0..MaxLen, FileChanges(n) PROVE UNCHANGED <<wire, net, tpc, respVars, readed>>
  BY <1>3 DEF FileChanges
<1>4. CASE RecvRequest \/ RecvDown
  BY <1>4 DEF RecvRequest, RecvDown
<1>5. ASSUME NEW a \in Answers, Ask(a) PROVE UNCHANGED <<wire, net, tpc>> /\ tpc = "build"
  BY <1>5 DEF Ask
<1>6. CASE BuildRefused \/ BuildResp \/ BuildStat \/ BuildNoFile \/ BuildOpen \/ BuildOpenFails
  BY <1>6 DEF BuildRefused, BuildResp, BuildStat, BuildNoFile, BuildOpen, BuildOpenFails, AllAsked
<1>7. CASE SendNothing \/ Shutdown
  BY <1>7 DEF SendNothing, Shutdown
<1>8. CASE Terminated \/ UNCHANGED vars
  BY <1>8 DEF Terminated, vars
<1> QED
  BY <1>1, <1>2, <1>3, <1>4, <1>5, <1>6, <1>7, <1>8 DEF Next, TaskStep, Build

LEMMA FramedNext ==
  ASSUME Inv, [Next]_vars, TypeOK'
  PROVE  Framed'
<1> USE DEF Within, Settled, Declared
<1>0. TypeOK /\ Framed /\ Sending /\ ContentFits /\ wire \in Seq(Responses)
  BY DEF Inv, TypeOK, Responses
<1>1. \A i \in 1..Len(wire) : /\ wire[i].head \in BOOLEAN /\ wire[i].clean \in BOOLEAN
                              /\ wire[i].lossy \in BOOLEAN
                              /\ wire[i].body \in Nat /\ wire[i].length \in Nat
  <2>1. \A i \in 1..Len(wire) : wire[i] \in Responses
    BY <1>0
  <2>2. ASSUME NEW w \in Responses
        PROVE  w.head \in BOOLEAN /\ w.clean \in BOOLEAN /\ w.lossy \in BOOLEAN
    BY Zenon DEF Responses
  <2>3. ASSUME NEW w \in Responses PROVE w.body \in Nat /\ w.length \in Nat
    BY DEF Responses
  <2> QED
    BY <2>1, <2>2, <2>3
<1>2. ASSUME wire' = wire,
             net' = "up" /\ tpc' \in Early /\ Len(wire) > 0 => Settled(wire[Len(wire)])
      PROVE  Framed'
  BY <1>0, <1>2 DEF Framed, Early
<1>3. CASE ~SendHeader /\ ~SendChunk /\ ~SendDone
  BY <1>0, <1>2, <1>3, Quiet DEF Framed, Early
<1>4. CASE SendHeader
  <2>1. net' = "up" <=> net = "up"
    BY <1>0, <1>4, HeaderSent
  <2>2. CASE net # "up"
    BY <1>0, <1>2, <1>4, <2>1, <2>2, HeaderSent
  <2>3. CASE net = "up"
    <3>1. PICK w \in Responses :
             /\ wire' = Append(wire, w)
             /\ w.head <=> method = "HEAD"
             /\ w.length = length /\ w.body = 0 /\ w.clean = clean
      BY <1>0, <1>4, <2>3, HeaderSent
    <3>2. /\ Len(wire') = Len(wire) + 1 /\ wire'[Len(wire')] = w
          /\ \A i \in 1..Len(wire) : wire'[i] = wire[i]
      BY <1>0, <3>1
    <3>3. \A i \in 1..Len(wire) : Settled(wire[i])
      BY <1>0, <1>4, <2>3 DEF Framed, SendHeader
    <3>4. \A i \in 1..Len(wire) : Within(wire[i])
      BY <1>0 DEF Framed
    <3>5. w.length \in Nat /\ Within(w)
      BY <3>1, ConnectionAssumption DEF Responses
    <3>6. tpc' \in Early => Settled(w)
      BY <1>4, <3>1 DEF SendHeader, Early
    <3>7. ASSUME NEW i \in 1..Len(wire')
          PROVE  Within(wire'[i]) /\ (i < Len(wire') => Settled(wire'[i]))
      <4>1. CASE i = Len(wire')
        BY <3>2, <3>5, <4>1
      <4>2. CASE i # Len(wire')
        <5>1. i \in 1..Len(wire)
          BY <1>0, <3>2, <4>2
        <5> QED
          BY <3>2, <3>3, <3>4, <5>1
      <4> QED
        BY <4>1, <4>2
    <3> QED
      BY <3>2, <3>6, <3>7 DEF Framed, Early
  <2> QED
    BY <2>2, <2>3
<1>5. CASE SendChunk
  <2>1. net' = "up" <=> net = "up"
    BY <1>0, <1>5, ChunkSent
  <2>2. tpc = "body" /\ tpc' \notin Early
    BY <1>5 DEF SendChunk, Early
  <2>3. CASE net # "up"
    BY <1>0, <1>2, <1>5, <2>1, <2>3, ChunkSent
  <2>4. CASE net = "up"
    <3> DEFINE l == Len(wire)
    <3>1. /\ l > 0 /\ l \in 1..l /\ ~wire[l].head /\ wire[l].length = length
          /\ wire[l].clean = clean /\ wire[l].body <= readed
      BY <1>0, <2>2, <2>4 DEF Sending
    <3>2. /\ Len(wire') = l
          /\ \A i \in 1..l : i < l => wire'[i] = wire[i]
          /\ wire'[l].head = wire[l].head /\ wire'[l].length = wire[l].length
          /\ wire'[l].clean = wire[l].clean
          /\ wire'[l].body <= wire[l].body + BodySize
          /\ BodySize > 0
      BY <1>0, <1>5, <2>4, ChunkSent
    <3>3. clean => readed + BodySize <= length
      <4>1. clean => content \in {0, length}
        BY <1>0, <2>2 DEF ContentFits
      <4>2. content \in Nat
        BY <1>0 DEF TypeOK
      <4> QED
        BY <1>0, <3>2, <4>1, <4>2, BodySizeIs
    <3>8. BodySize \in Nat /\ readed + BodySize <= length + Chunk
      <4>1. BodySize \in Nat /\ BodySize <= Chunk
        BY <1>0, <3>2, BodySizeIs
      <4>2. readed = 0 \/ readed < length
        BY <1>0, <2>2 DEF ContentFits
      <4> QED
        BY <1>0, <4>1, <4>2, ConnectionAssumption DEF TypeOK
    <3>9. wire'[l].body <= readed + BodySize /\ wire'[l].body \in Nat
      <4>1. wire' \in Seq(Responses) /\ l \in 1..Len(wire')
        BY <3>1, <3>2 DEF TypeOK, Responses
      <4>2. wire'[l] \in Responses
        BY <4>1
      <4>3. wire'[l].body \in Nat
        BY <4>2 DEF Responses
      <4>4. wire[l].body \in Nat /\ readed \in Nat
        BY <1>0, <1>1, <3>1 DEF TypeOK
      <4> HIDE DEF l
      <4> QED
        BY <3>1, <3>2, <3>8, <4>3, <4>4
    <3>4. Within(wire'[l])
      <4>1. readed \in Nat /\ length \in Nat
        BY <1>0 DEF TypeOK
      <4> QED
        BY <3>1, <3>2, <3>3, <3>8, <3>9, <4>1, ConnectionAssumption
    <3>5. ASSUME NEW i \in 1..Len(wire')
          PROVE  Within(wire'[i]) /\ (i < Len(wire') => Settled(wire'[i]))
      <4>1. CASE i = l
        BY <3>2, <3>4, <4>1
      <4>2. CASE i # l
        <5>1. i \in 1..l /\ i < l
          BY <1>0, <3>2, <4>2
        <5> QED
          BY <1>0, <3>2, <5>1 DEF Framed
      <4> QED
        BY <4>1, <4>2
    <3> QED
      BY <2>2, <3>5 DEF Framed, Early
  <2> QED
    BY <2>3, <2>4
<1>6. CASE SendDone
  <2>1. wire' = wire /\ net' = net /\ tpc = "sent"
    BY <1>6 DEF SendDone
  <2>2. ASSUME net = "up", tpc' \in Early, Len(wire) > 0 PROVE Settled(wire[Len(wire)])
    <3>1. readed >= length
      BY <1>6, <2>2 DEF SendDone, Early
    <3>3. /\ ~wire[Len(wire)].head /\ wire[Len(wire)].length = length
          /\ wire[Len(wire)].clean = clean
          /\ wire[Len(wire)].lossy \/ wire[Len(wire)].body = readed
      BY <1>0, <2>1, <2>2 DEF Sending
    <3>4. readed \in Nat /\ length \in Nat
      BY <1>0 DEF TypeOK
    <3> QED
      BY <3>1, <3>3, <3>4
  <2> QED
    BY <1>2, <2>1, <2>2
<1> QED
  BY <1>3, <1>4, <1>5, <1>6

LEMMA SendingNext ==
  ASSUME Inv, [Next]_vars
  PROVE  Sending'
<1>0. TypeOK /\ Sending /\ ContentFits /\ wire \in Seq(Responses)
  BY DEF Inv, TypeOK, Responses
<1>1. CASE ~SendHeader /\ ~SendChunk /\ ~SendDone
  BY <1>0, <1>1, Quiet DEF Sending
<1>2. CASE SendHeader
  <2> SUFFICES ASSUME net' = "up", tpc' \in {"body", "sent"}
               PROVE  /\ Len(wire') > 0
                      /\ ~wire'[Len(wire')].head
                      /\ wire'[Len(wire')].length = length'
                      /\ wire'[Len(wire')].clean = clean'
                      /\ wire'[Len(wire')].body = 0 /\ readed' = 0
    BY DEF Sending
  <2>1. PICK w \in Responses :
           /\ wire' = Append(wire, w)
           /\ w.head <=> method = "HEAD"
           /\ w.length = length /\ w.body = 0 /\ w.clean = clean
    BY <1>0, <1>2, HeaderSent
  <2>2. method # "HEAD" /\ UNCHANGED <<respVars, readed>> /\ tpc = "header"
    BY <1>2 DEF SendHeader, Released
  <2>3. readed = 0
    BY <1>0, <2>2 DEF ContentFits
  <2>4. Len(wire') > 0 /\ wire'[Len(wire')] = w
    BY <1>0, <2>1
  <2> QED
    BY <2>1, <2>2, <2>3, <2>4 DEF respVars
<1>3. CASE SendChunk
  <2> SUFFICES ASSUME net' = "up"
               PROVE  /\ Len(wire') > 0
                      /\ ~wire'[Len(wire')].head
                      /\ wire'[Len(wire')].length = length'
                      /\ wire'[Len(wire')].clean = clean'
                      /\ wire'[Len(wire')].body <= readed'
                      /\ wire'[Len(wire')].lossy \/ wire'[Len(wire')].body = readed'
    BY DEF Sending
  <2> DEFINE l == Len(wire)
  <2>1. net = "up"
    BY <1>0, <1>3, ChunkSent
  <2>2. /\ Len(wire') = l
        /\ wire'[l].head = wire[l].head /\ wire'[l].length = wire[l].length
        /\ wire'[l].clean = wire[l].clean
        /\ wire'[l].body <= wire[l].body + BodySize
        /\ wire'[l].lossy \/ (~wire[l].lossy /\ wire'[l].body = wire[l].body + BodySize)
        /\ readed' = readed + BodySize
        /\ BodySize \in Nat
        /\ wire' \in Seq(Responses)
    BY <1>0, <1>3, <2>1, ChunkSent
  <2>3. /\ l > 0 /\ ~wire[l].head /\ wire[l].length = length
        /\ wire[l].clean = clean /\ wire[l].body <= readed
        /\ wire[l].lossy \/ wire[l].body = readed
    BY <1>0, <1>3, <2>1 DEF Sending, SendChunk
  <2>4. length' = length /\ clean' = clean
    BY <1>3 DEF SendChunk
  <2>5. readed \in Nat /\ wire[l].body \in Nat /\ wire'[l].body \in Nat
    <3>1. l \in 1..l /\ readed \in Nat
      BY <1>0, <2>3 DEF TypeOK
    <3>2. wire[l] \in Responses /\ wire'[l] \in Responses
      BY <1>0, <2>2, <3>1
    <3> QED
      BY <3>1, <3>2 DEF Responses
  <2>6. wire'[l].body <= readed'
    BY <2>2, <2>3, <2>5
  <2> QED
    BY <2>2, <2>3, <2>4, <2>6
<1>4. CASE SendDone
  BY <1>4 DEF SendDone, Sending
<1> QED
  BY <1>1, <1>2, <1>3, <1>4

LEMMA ContentFitsNext ==
  ASSUME Inv, [Next]_vars
  PROVE  ContentFits'
<1> USE DEF envVars, respVars
<1>0. TypeOK /\ ContentFits
  BY DEF Inv
<1>1. ASSUME UNCHANGED <<tpc, found, content, length, clean, readed>>
      PROVE  ContentFits'
  BY <1>0, <1>1 DEF ContentFits
<1>2. ASSUME NEW m \in Methods, ClientSends(m) PROVE ContentFits'
  BY <1>1, <1>2 DEF ClientSends
<1>3. ASSUME NEW how \in {"closed", "aborted"}, ClientLeaves(how) PROVE ContentFits'
  BY <1>1, <1>3 DEF ClientLeaves
<1>4. ASSUME NEW n \in 0..MaxLen, FileChanges(n) PROVE ContentFits'
  BY <1>1, <1>4 DEF FileChanges
<1>5. CASE RecvRequest
  BY <1>0, <1>5 DEF RecvRequest, ContentFits
<1>6. CASE RecvDown
  BY <1>0, <1>6 DEF RecvDown, ContentFits
<1>7. CASE BuildRefused \/ BuildNoFile \/ BuildOpenFails
  BY <1>0, <1>7 DEF BuildRefused, BuildNoFile, BuildOpenFails, AllAsked, BuildError, ContentFits
<1>8. ASSUME NEW a \in Answers, Ask(a) PROVE ContentFits'
  <2>1. /\ tpc = "build" /\ tpc' = "build" /\ readed' = readed
        /\ found' = (found \/ a.ok)
        /\ content' = IF a.size = -1 THEN content ELSE a.size
        /\ length' = IF a.ok THEN content' ELSE length
        /\ clean' = (a.ok \/ (clean /\ a.size = -1))
    BY <1>8 DEF Ask
  <2>2. readed = 0 /\ (clean => content = IF found THEN length ELSE 0)
    BY <1>0, <2>1 DEF ContentFits
  <2>3. clean' => content' = IF found' THEN length' ELSE 0
    <3>1. CASE a.ok
      BY <2>1, <3>1
    <3>2. CASE ~a.ok
      BY <2>1, <2>2, <3>2
    <3> QED
      BY <3>1, <3>2
  <2> QED
    BY <2>1, <2>2, <2>3 DEF ContentFits
<1>9. CASE BuildResp
  BY <1>0, <1>9 DEF BuildResp, AllAsked, ContentFits
<1>10. CASE BuildStat
  BY <1>0, <1>10 DEF BuildStat, AllAsked, ContentFits
<1>11. CASE BuildOpen
  BY <1>0, <1>11 DEF BuildOpen, ContentFits
<1>12. CASE SendHeader
  <2>1. tpc = "header" /\ tpc' \in {"dead", "recv", "body"}
    BY <1>12 DEF SendHeader
  <2>2. CASE Released
    BY <2>1, <2>2, ConnectionAssumption DEF Released, ContentFits
  <2>3. CASE UNCHANGED <<respVars, readed, changed>> /\ method # "HEAD"
    <3>1. tpc' \in {"dead", "body"}
      BY <1>12, <2>3 DEF SendHeader
    <3>2. length + Chunk \in Nat
      BY <1>0, ConnectionAssumption DEF TypeOK
    <3> QED
      BY <1>0, <2>1, <2>3, <3>1, <3>2 DEF ContentFits, TypeOK
  <2> QED
    BY <1>12, <2>2, <2>3 DEF SendHeader
<1>13. CASE SendChunk
  <2>1. /\ tpc = "body" /\ tpc' \in {"dead", "sent", "body"}
        /\ BodySize > 0 /\ readed' = readed + BodySize
        /\ UNCHANGED <<content, length, clean, found>>
    BY <1>13 DEF SendChunk
  <2>2. clean => content \in {0, length}
    BY <1>0, <2>1 DEF ContentFits
  <2>3. clean => readed + BodySize <= length
    BY <1>0, <2>1, <2>2, BodySizeIs DEF TypeOK
  <2>4. readed + BodySize <= length + Chunk
    <3>1. BodySize \in Nat /\ BodySize <= Chunk
      BY <1>0, <2>1, BodySizeIs
    <3>2. readed = 0 \/ readed < length
      BY <1>0, <2>1 DEF ContentFits
    <3> QED
      BY <1>0, <3>1, <3>2, ConnectionAssumption DEF TypeOK
  <2>5. tpc' = "body" => readed' < length
    <3>1. tpc' = "body" => ~(readed' >= length)
      BY <1>13 DEF SendChunk
    <3>2. readed' \in Int /\ length \in Int
      BY <1>0, <2>1, BodySizeIs DEF TypeOK
    <3> QED
      BY <3>1, <3>2
  <2> QED
    BY <2>1, <2>2, <2>3, <2>4, <2>5 DEF ContentFits
<1>14. CASE SendNothing
  BY <1>0, <1>14 DEF SendNothing, ContentFits
<1>15. CASE SendDone
  BY <1>15 DEF SendDone, Released, ContentFits
<1>16. CASE Shutdown
  BY <1>16 DEF Shutdown, ContentFits
<1>17. CASE Terminated \/ UNCHANGED vars
  BY <1>1, <1>17 DEF Terminated, vars
<1> QED
  BY <1>2, <1>3, <1>4, <1>5, <1>6, <1>7, <1>8, <1>9, <1>10, <1>11, <1>12, <1>13, <1>14,
     <1>15, <1>16, <1>17 DEF Next, TaskStep, Build

LEMMA FileFitsNext ==
  ASSUME Inv, [Next]_vars
  PROVE  FileFits'
<1> USE DEF envVars, respVars
<1>0. TypeOK /\ FileFits
  BY DEF Inv
<1>1. ASSUME UNCHANGED <<tpc, open, changed, dir, length, fsize>>
      PROVE  FileFits'
  BY <1>0, <1>1 DEF FileFits
<1>2. ASSUME NEW m \in Methods, ClientSends(m) PROVE FileFits'
  BY <1>1, <1>2 DEF ClientSends
<1>3. ASSUME NEW how \in {"closed", "aborted"}, ClientLeaves(how) PROVE FileFits'
  BY <1>1, <1>3 DEF ClientLeaves
<1>4. ASSUME NEW n \in 0..MaxLen, FileChanges(n) PROVE FileFits'
  BY <1>0, <1>4 DEF FileChanges, FileFits
<1>5. CASE RecvRequest
  BY <1>0, <1>5 DEF RecvRequest, FileFits
<1>6. CASE RecvDown
  BY <1>0, <1>6 DEF RecvDown, FileFits
<1>7. CASE BuildRefused \/ BuildNoFile \/ BuildOpenFails
  BY <1>7 DEF BuildRefused, BuildNoFile, BuildOpenFails, BuildError, FileFits
<1>8. ASSUME NEW a \in Answers, Ask(a) PROVE FileFits'
  BY <1>0, <1>8 DEF Ask, FileFits
<1>9. CASE BuildResp
  BY <1>0, <1>9 DEF BuildResp, AllAsked, FileFits
<1>10. CASE BuildStat
  BY <1>0, <1>10 DEF BuildStat, AllAsked, FileFits
<1>11. CASE BuildOpen
  BY <1>0, <1>11 DEF BuildOpen, FileFits
<1>12. CASE SendHeader
  BY <1>0, <1>12 DEF SendHeader, Released, FileFits
<1>13. CASE SendChunk
  BY <1>0, <1>13 DEF SendChunk, FileFits
<1>14. CASE SendNothing
  BY <1>0, <1>14 DEF SendNothing, FileFits
<1>15. CASE SendDone
  BY <1>15 DEF SendDone, Released, FileFits
<1>16. CASE Shutdown
  BY <1>0, <1>16 DEF Shutdown, FileFits
<1>17. CASE Terminated \/ UNCHANGED vars
  BY <1>1, <1>17 DEF Terminated, vars
<1> QED
  BY <1>2, <1>3, <1>4, <1>5, <1>6, <1>7, <1>8, <1>9, <1>10, <1>11, <1>12, <1>13, <1>14,
     <1>15, <1>16, <1>17 DEF Next, TaskStep, Build

(* Waiting: a request that has been read and has no response yet.          *)
Waiting == IF tpc \in {"build", "open", "header"} THEN 1 ELSE 0

LEMMA OneResponseNext ==
  ASSUME Inv, [Next]_vars
  PROVE  OneResponsePerRequest'
<1> USE DEF envVars, respVars
<1>0. /\ TypeOK /\ Sending
      /\ net = "up" => Len(wire) + Len(inbox) + Waiting = requests
      /\ wire \in Seq(Responses) /\ inbox \in Seq(Methods) /\ requests \in Int
  BY DEF Inv, OneResponsePerRequest, Waiting, TypeOK, Responses
<1> SUFFICES ASSUME net' = "up"
             PROVE  Len(wire') + Len(inbox') + Waiting' = requests'
  BY DEF OneResponsePerRequest, Waiting
<1>1. ASSUME UNCHANGED <<net, wire, inbox, requests>>, Waiting' = Waiting
      PROVE  Len(wire') + Len(inbox') + Waiting' = requests'
  BY <1>0, <1>1
<1>2. ASSUME NEW m \in Methods, ClientSends(m)
      PROVE  Len(wire') + Len(inbox') + Waiting' = requests'
  <2>1. /\ net = "up" /\ wire' = wire /\ Waiting' = Waiting
        /\ requests' = requests + 1 /\ inbox' = Append(inbox, m)
    BY <1>2 DEF ClientSends, Waiting
  <2>2. Len(inbox') = Len(inbox) + 1
    BY <1>0, <2>1
  <2>3. Len(wire) \in Nat /\ Len(inbox) \in Nat /\ Waiting \in Nat
    BY <1>0 DEF Waiting
  <2> QED
    BY <1>0, <2>1, <2>2, <2>3
<1>3. ASSUME NEW how \in {"closed", "aborted"}, ClientLeaves(how) PROVE FALSE
  BY <1>3 DEF ClientLeaves
<1>4. ASSUME NEW n \in 0..MaxLen, FileChanges(n)
      PROVE  Len(wire') + Len(inbox') + Waiting' = requests'
  BY <1>1, <1>4 DEF FileChanges, Waiting
<1>5. CASE RecvRequest
  <2>1. /\ net = "up" /\ wire' = wire /\ Waiting' = 1 /\ Waiting = 0
        /\ requests' = requests /\ inbox # <<>> /\ inbox' = Tail(inbox)
    BY <1>5 DEF RecvRequest, Waiting
  <2>2. Len(inbox') = Len(inbox) - 1
    BY <1>0, <2>1
  <2>3. Len(wire) \in Nat /\ Len(inbox) \in Nat
    BY <1>0
  <2> QED
    BY <1>0, <2>1, <2>2, <2>3
<1>6. CASE RecvDown \/ SendNothing \/ Shutdown
  BY <1>1, <1>6 DEF RecvDown, SendNothing, Shutdown, Waiting
<1>7. ASSUME NEW a \in Answers, Ask(a)
      PROVE  Len(wire') + Len(inbox') + Waiting' = requests'
  BY <1>1, <1>7 DEF Ask, Waiting
<1>8. CASE BuildRefused \/ BuildResp \/ BuildStat \/ BuildNoFile \/ BuildOpen \/ BuildOpenFails
  BY <1>1, <1>8 DEF BuildRefused, BuildResp, BuildStat, BuildNoFile, BuildOpen,
                    BuildOpenFails, AllAsked, Waiting
<1>9. CASE SendHeader
  <2>1. net = "up"
    BY <1>0, <1>9, HeaderSent
  <2>2. PICK w \in Responses : wire' = Append(wire, w)
    BY <1>0, <1>9, <2>1, HeaderSent
  <2>3. Len(wire') = Len(wire) + 1 /\ Len(wire) \in Nat /\ Len(inbox) \in Nat
    BY <1>0, <2>2
  <2>4. inbox' = inbox /\ requests' = requests /\ Waiting = 1 /\ Waiting' = 0
    BY <1>9 DEF SendHeader, Waiting
  <2> QED
    BY <1>0, <2>1, <2>3, <2>4
<1>10. CASE SendChunk
  <2>1. net = "up"
    BY <1>0, <1>10, ChunkSent
  <2>2. Len(wire') = Len(wire)
    BY <1>0, <1>10, <2>1, ChunkSent
  <2>3. inbox' = inbox /\ requests' = requests /\ Waiting = 0 /\ Waiting' = 0
    BY <1>10 DEF SendChunk, Waiting
  <2> QED
    BY <1>0, <2>1, <2>2, <2>3
<1>11. CASE SendDone
  BY <1>1, <1>11 DEF SendDone, Waiting
<1>12. CASE Terminated \/ UNCHANGED vars
  BY <1>1, <1>12 DEF Terminated, vars, Waiting
<1> QED
  BY <1>2, <1>3, <1>4, <1>5, <1>6, <1>7, <1>8, <1>9, <1>10, <1>11, <1>12
     DEF Next, TaskStep, Build

LEMMA ZerosNext ==
  ASSUME Inv, [Next]_vars
  PROVE  ZerosExplained'
<1>0. /\ TypeOK /\ Sending /\ ContentFits /\ FileFits /\ ZerosExplained
      /\ wire \in Seq(Responses)
  BY DEF Inv, TypeOK, Responses
<1>1. ASSUME wire' = wire PROVE ZerosExplained'
  BY <1>0, <1>1 DEF ZerosExplained
<1>2. CASE ~SendHeader /\ ~SendChunk /\ ~SendDone
  BY <1>0, <1>1, <1>2, Quiet
<1>3. CASE SendDone
  BY <1>1, <1>3 DEF SendDone
<1>4. CASE SendHeader
  <2>1. CASE net # "up"
    BY <1>0, <1>1, <1>4, <2>1, HeaderSent
  <2>2. CASE net = "up"
    <3>1. PICK w \in Responses : wire' = Append(wire, w) /\ ~w.zeros
      BY <1>0, <1>4, <2>2, HeaderSent
    <3>2. /\ Len(wire') = Len(wire) + 1 /\ wire'[Len(wire) + 1] = w
          /\ \A i \in 1..Len(wire) : wire'[i] = wire[i]
      BY <1>0, <3>1
    <3>3. ASSUME NEW i \in 1..Len(wire') PROVE ~wire'[i].zeros
      <4>1. CASE i = Len(wire) + 1
        BY <3>1, <3>2, <4>1
      <4>2. CASE i # Len(wire) + 1
        <5>1. i \in 1..Len(wire)
          BY <1>0, <3>2, <4>2
        <5> QED
          BY <1>0, <3>2, <5>1 DEF ZerosExplained
      <4> QED
        BY <4>1, <4>2
    <3> QED
      BY <3>3 DEF ZerosExplained
  <2> QED
    BY <2>1, <2>2
<1>5. CASE SendChunk
  <2>1. CASE net # "up"
    BY <1>0, <1>1, <1>5, <2>1, ChunkSent
  <2>2. CASE net = "up"
    <3> DEFINE l == Len(wire)
    <3>1. /\ BodySize > 0
          /\ Len(wire') = l
          /\ \A i \in 1..l : i < l => wire'[i] = wire[i]
          /\ wire'[l].zeros => \/ wire[l].zeros
                               \/ /\ content = 0 /\ ~changed /\ ~dir
                                  /\ ReadFromFile(BodySize) < BodySize
      BY <1>0, <1>5, <2>2, ChunkSent
    <3>2. l > 0 /\ l \in 1..l /\ ~wire[l].zeros
      BY <1>0, <1>5, <2>2 DEF Sending, SendChunk, ZerosExplained
    <3>3. ~wire'[l].zeros
      <4> SUFFICES ASSUME content = 0, ~changed, ~dir,
                          ReadFromFile(BodySize) < BodySize
                   PROVE  FALSE
        BY <3>1, <3>2
      <4>1. open
        BY <1>0, <3>1, BodySizeIs
      <4>2. length = fsize
        BY <1>0, <4>1 DEF FileFits
      <4> QED
        BY <1>0, <3>1, <4>2, NothingShort
    <3>4. ASSUME NEW i \in 1..Len(wire') PROVE ~wire'[i].zeros
      <4>1. CASE i = l
        BY <3>3, <4>1
      <4>2. CASE i # l
        <5>1. i \in 1..l /\ i < l
          BY <1>0, <3>1, <4>2
        <5> QED
          BY <1>0, <3>1, <5>1 DEF ZerosExplained
      <4> QED
        BY <4>1, <4>2
    <3> QED
      BY <3>4 DEF ZerosExplained
  <2> QED
    BY <2>1, <2>2
<1> QED
  BY <1>2, <1>3, <1>4, <1>5

LEMMA InvInit == Init => Inv
<1> SUFFICES ASSUME Init PROVE Inv
  OBVIOUS
<1>1. TypeOK
  BY TypeInit
<1>2. Len(wire) = 0 /\ Len(inbox) = 0 /\ requests = 0 /\ tpc = "recv"
  BY DEF Init
<1>3. Framed /\ Sending /\ ZerosExplained
  BY <1>2 DEF Framed, Sending, ZerosExplained
<1>4. ContentFits /\ FileFits
  BY DEF Init, ContentFits, FileFits
<1>5. OneResponsePerRequest
  BY <1>2 DEF OneResponsePerRequest
<1> QED
  BY <1>1, <1>3, <1>4, <1>5 DEF Inv

LEMMA TypeNext ==
  ASSUME TypeOK, Sending, [Next]_vars
  PROVE  TypeOK'
<1>1. CASE TaskStep
  BY <1>1, BuildTypes, SendTypes DEF TaskStep
<1>2. CASE Terminated \/ UNCHANGED vars
  BY <1>2 DEF Terminated, vars, envVars, respVars, TypeOK
<1> QED
  BY <1>1, <1>2, EnvTypes DEF Next

LEMMA InvNext == Inv /\ [Next]_vars => Inv'
<1> SUFFICES ASSUME Inv, [Next]_vars PROVE Inv'
  OBVIOUS
<1>1. TypeOK'
  BY TypeNext DEF Inv
<1> QED
  BY <1>1, FramedNext, SendingNext, ContentFitsNext, FileFitsNext, OneResponseNext,
     ZerosNext DEF Inv

(* What the loop of HttpServerTask keeps true between any two of its steps. *)
THEOREM Invariance == Spec => []Inv
BY InvInit, InvNext, PTL DEF Spec

-----------------------------------------------------------------------------

(* Every variable has its type, for any number of requests, responders and *)
(* units: recv, the constructor of JResponse and the sends of              *)
(* HttpServerTask never leave a value of another kind behind.              *)
THEOREM TypeCorrect == Spec => []TypeOK
<1>1. Inv => TypeOK
  BY DEF Inv
<1> QED
  BY <1>1, Invariance, PTL

(* Whatever the sizes and however many requests a connection carries, and  *)
(* although sendHeader and sendBody never look at what ::send returns: no  *)
(* body is longer than its header declares, or longer by more than a chunk *)
(* when a responder that declines has left content, which is sent for the  *)
(* file; and every body is complete before anything else follows, except   *)
(* one of which a ::send has sent less than it was given.                  *)
THEOREM FramingIsKept == Spec => []FramingKept
<1>1. Inv => FramingKept
  <2> SUFFICES ASSUME Inv, NEW i \in 1..Len(wire)
               PROVE  LET w == wire[i]
                          declared == IF w.head THEN 0 ELSE w.length
                      IN  /\ w.body <= IF w.clean THEN declared ELSE declared + Chunk
                          /\ ~w.lossy /\ (i < Len(wire) \/ (tpc = "recv" /\ net = "up")) =>
                                 w.body >= declared
    BY DEF FramingKept
  <2>1. Within(wire[i]) /\ (i < Len(wire) => Settled(wire[i]))
    BY DEF Inv, Framed
  <2>2. ASSUME tpc = "recv", net = "up", ~(i < Len(wire)) PROVE Settled(wire[i])
    <3>1. i = Len(wire) /\ Len(wire) > 0
      BY <2>2 DEF Inv, TypeOK
    <3> QED
      BY <2>2, <3>1 DEF Inv, Framed
  <2> QED
    BY <2>1, <2>2 DEF Within, Settled, Declared
<1> QED
  BY <1>1, Invariance, PTL

(* One response for each request that has been read, while the client is   *)
(* there: the loop of HttpServerTask sends neither two nor none.           *)
THEOREM OneResponseEach == Spec => []OneResponsePerRequest
<1>1. Inv => OneResponsePerRequest
  BY DEF Inv
<1> QED
  BY <1>1, Invariance, PTL

(* JResponse::body hands over zeros in place of bytes of the file only     *)
(* when the file has changed since stat, or is a directory.                *)
THEOREM ZerosAreExplained == Spec => []ZerosExplained
<1>1. Inv => ZerosExplained
  BY DEF Inv
<1> QED
  BY <1>1, Invariance, PTL

=============================================================================
