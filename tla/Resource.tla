------------------------------- MODULE Resource -------------------------------
(***************************************************************************)
(* What a URI names: HttpRequest::parseUri (src/src/jrequest.h), the       *)
(* constructor of JResponse with its responders and its web root, the      *)
(* table of MIME types (src/src/jresponse.cpp) and the extension that      *)
(* Tools::fileStat reports (src/src/jtools.cpp), for one request; the      *)
(* status of the response and its phrase (src/include/jstatuscode.h).      *)
(*                                                                         *)
(* A string is a sequence over Chars, in which "/" and "." are themselves  *)
(* and a letter stands for a run of other characters; a type is a sequence *)
(* too, since an extension without a row in the table becomes the type.    *)
(* How the body and the header are sent is in HttpConnection.              *)
(***************************************************************************)
EXTENDS Integers, Sequences, SequencesExt, FiniteSetsExt

CONSTANTS
    Letters,    \* everything but "/" and "."
    MaxUri,     \* bound: length of the URI of the request line
    Roots,      \* the web roots that are tried, the empty one is the default
    Index,      \* JHTTPD_SERVER_INDEX
    Rows,       \* _s_ext2mime_type as it is written: a sequence of rows, each
                \* with a dot and what follows it for the key
    NumResps,   \* responders of the JServer
    Answers     \* what a responder may do: return 200 or not (ok), write
                \* ret_content or leave it alone (wrote), give ret_type this
                \* value (type, <<>> for one left alone), write ret_datetime or
                \* leave it alone (dated)

Chars == Letters \cup {"/", "."}

ASSUME ResourceAssumption ==
    /\ Letters \cap {"/", "."} = {}
    /\ MaxUri \in Nat
    /\ \A root \in Roots : root \in Seq(Chars)
    /\ Index \in Seq(Chars) /\ Index # <<>>
    /\ Rows \in Seq([ext : Seq(Chars), type : Seq(STRING) \ {<<>>}])
    /\ \A i \in DOMAIN Rows : LET key == Rows[i].ext
                             IN  key # <<>> /\ key[1] = "." /\ Tail(key) \in Seq(Letters)
    /\ NumResps \in Nat
    /\ \A a \in Answers : /\ {a.ok, a.wrote, a.dated} \subseteq BOOLEAN
                          /\ a.type \in Seq(Chars)

VARIABLES
    pc,         \* "line", "request", "ask", "root", "stat", "open", "format" or
                \* "done"
    root,       \* webRootPath
    uri,        \* _uri of the HttpRequest
    path,       \* _localUriPath
    answers,    \* what the responders asked so far did
    content,    \* the number of the one that wrote _content last, 0 for none
    ext,        \* resp_ext
    time,       \* resp_datetime: "none", "file", or by a responder ("resp")
    status,     \* resp_status
    type,       \* the Content-Type of the header, <<>> before it is formatted
    modified,   \* the Last Modified of the header, likewise
    phrase      \* the reason phrase of the status line

headVars == <<type, modified, phrase>>
vars == <<pc, root, uri, path, answers, content, ext, time, status, headVars>>

OctetStream == <<"application/octet-stream">>

(* The rows of the table for an extension; some have several. *)
RowsOf(e) == {i \in DOMAIN Rows : Rows[i].ext = e}

Init ==
    /\ pc = "line"
    /\ root \in Roots
    /\ uri = <<>>
    /\ path = <<>>
    /\ answers = <<>>
    /\ content = 0
    /\ ext = <<>>
    /\ time = "none"
    /\ status = 500
    /\ type = <<>>
    /\ modified = "none"
    /\ phrase = "none"

-----------------------------------------------------------------------------
(* Mutations: what some definitions below would be with a plausible bug in *)
(* the code.  They take no part in Next; each one shows, put in the place  *)
(* of the definition it is named after, that a property tells the          *)
(* difference.                                                             *)

(* The path is taken as it comes, with or without a slash. *)
LocalPathRaw(u) == u

(* The first dot instead of the last one. *)
FileExtFirst(p) ==
    LET dots == {i \in DOMAIN p : p[i] = "."}
    IN  IF dots = {} THEN <<".">> ELSE SubSeq(p, Min(dots), Len(p))

(* A type that a responder has given is kept by those after it. *)
AskKeepsType(a) ==
    /\ pc = "ask"
    /\ Len(answers) < NumResps
    /\ answers' = Append(answers, a)
    /\ content' = IF a.wrote THEN Len(answers') ELSE content
    /\ ext' = IF a.type # <<>> /\ ext = <<>> THEN a.type ELSE ext
    /\ time' = IF a.dated THEN "resp" ELSE time
    /\ status' = IF a.ok THEN 200 ELSE status
    /\ UNCHANGED <<pc, root, uri, path, headVars>>

-----------------------------------------------------------------------------
(* The operators the program is made of.                                   *)

(* parseUri and the lambda rpath: "/" is the index, and a path begins with *)
(* a slash unless it is empty.                                             *)
ParseUri(u) == IF u = <<"/">> THEN Index ELSE u

LocalPath(u) == IF u # <<>> /\ u[1] # "/" THEN <<"/">> \o u ELSE u

(* fileStat: from the last dot of the whole path, or "." without one.      *)
FileExt(p) ==
    LET dots == {i \in DOMAIN p : p[i] = "."}
    IN  IF dots = {} THEN <<".">> ELSE SubSeq(p, Max(dots), Len(p))

(* formatPositiveResponse: std::map keeps the first of several rows with   *)
(* the same key.                                                           *)
ContentType(e) ==
    IF RowsOf(e) # {} THEN Rows[Min(RowsOf(e))].type
    ELSE IF e # <<>> THEN e ELSE OctetStream

(* HttpStatus::reason: the codes that have a phrase.                       *)
Phrased ==
    (100..103) \cup (200..208) \cup {226} \cup (300..305) \cup {307, 308}
    \cup (400..418) \cup (422..424) \cup {426, 428, 429, 431, 451}
    \cup (500..508) \cup {510, 511}

Reason(code) == IF code \in Phrased THEN "standard" ELSE "status-code"

-----------------------------------------------------------------------------
(* The request line is parsed; a method that is not known is refused.      *)
Parse(u) ==
    /\ pc = "line"
    /\ uri' = ParseUri(u)
    /\ pc' = "request"
    /\ UNCHANGED <<root, path, answers, content, ext, time, status, headVars>>

UnknownMethod ==
    /\ pc = "request"
    /\ status' = 403
    /\ pc' = "format"
    /\ UNCHANGED <<root, uri, path, answers, content, ext, time, headVars>>

(* Any other gets a path, and the loop over the responders begins.         *)
KnownMethod ==
    /\ pc = "request"
    /\ path' = LocalPath(uri)
    /\ pc' = "ask"
    /\ UNCHANGED <<root, uri, answers, content, ext, time, status, headVars>>

(* One turn of the loop: every responder is asked, and all of them write   *)
(* into the same _content, resp_ext and resp_datetime.                     *)
Ask(a) ==
    /\ pc = "ask"
    /\ Len(answers) < NumResps
    /\ answers' = Append(answers, a)
    /\ content' = IF a.wrote THEN Len(answers') ELSE content
    /\ ext' = IF a.type # <<>> THEN a.type ELSE ext
    /\ time' = IF a.dated THEN "resp" ELSE time
    /\ status' = IF a.ok THEN 200 ELSE status
    /\ UNCHANGED <<pc, root, uri, path, headVars>>

Asked ==
    /\ pc = "ask"
    /\ Len(answers) = NumResps
    /\ pc' = IF status = 200 THEN "format" ELSE "root"
    /\ UNCHANGED <<root, uri, path, answers, content, ext, time, status, headVars>>

(* An empty web root serves no files. *)
NoRoot ==
    /\ pc = "root"
    /\ root = <<>>
    /\ status' = 403
    /\ pc' = "format"
    /\ UNCHANGED <<root, uri, path, answers, content, ext, time, headVars>>

InRoot ==
    /\ pc = "root"
    /\ root # <<>>
    /\ path' = root \o path
    /\ pc' = "stat"
    /\ UNCHANGED <<root, uri, answers, content, ext, time, status, headVars>>

StatFails ==
    /\ pc = "stat"
    /\ status' = 404
    /\ pc' = "format"
    /\ UNCHANGED <<root, uri, path, answers, content, ext, time, headVars>>

FileStat ==
    /\ pc = "stat"
    /\ ext' = FileExt(path)
    /\ time' = "file"
    /\ pc' = "open"
    /\ UNCHANGED <<root, uri, path, answers, content, status, headVars>>

Open(ok) ==
    /\ pc = "open"
    /\ status' = IF ok THEN 200 ELSE 401
    /\ pc' = "format"
    /\ UNCHANGED <<root, uri, path, answers, content, ext, time, headVars>>

(* An error page is text/html and has no time, whatever resp_ext and       *)
(* resp_datetime hold.                                                     *)
FormatError ==
    /\ pc = "format"
    /\ status # 200
    /\ type' = <<"text/html">>
    /\ phrase' = Reason(status)
    /\ pc' = "done"
    /\ UNCHANGED <<root, uri, path, answers, content, ext, time, status, modified>>

FormatPositiveResponse ==
    /\ pc = "format"
    /\ status = 200
    /\ type' = ContentType(ext)
    /\ modified' = time
    /\ phrase' = "standard"
    /\ pc' = "done"
    /\ UNCHANGED <<root, uri, path, answers, content, ext, time, status>>

Terminated == pc = "done" /\ UNCHANGED vars

Next ==
    \/ \E n \in 0..MaxUri : \E u \in [1..n -> Chars] : Parse(u)
    \/ UnknownMethod
    \/ KnownMethod
    \/ \E a \in Answers : Ask(a)
    \/ Asked
    \/ NoRoot
    \/ InRoot
    \/ StatFails
    \/ FileStat
    \/ \E ok \in BOOLEAN : Open(ok)
    \/ FormatError
    \/ FormatPositiveResponse
    \/ Terminated

Spec == Init /\ [][Next]_vars

-----------------------------------------------------------------------------
(* Properties.                                                             *)

Types == {Rows[i].type : i \in DOMAIN Rows} \cup {OctetStream, <<"text/html">>}

(* Every variable has its type; a finished response has a Content-Type     *)
(* that is not empty and a status with a phrase, and never the 500 that    *)
(* resp_status begins with.                                                *)
TypeOK ==
    /\ pc \in {"line", "request", "ask", "root", "stat", "open", "format", "done"}
    /\ root \in Roots
    /\ uri \in Seq(Chars)
    /\ path \in Seq(Chars)
    /\ answers \in Seq(Answers) /\ Len(answers) <= NumResps
    /\ content \in 0..Len(answers)
    /\ ext \in Seq(Chars)
    /\ {time, modified} \subseteq {"none", "resp", "file"}
    /\ status \in {200, 401, 403, 404, 500}
    /\ type \in Types \/ type \in Seq(Chars)
    /\ phrase \in {"none", "standard"}
    /\ pc = "done" => type # <<>> /\ status # 500 /\ phrase = "standard"

Found == \E i \in DOMAIN answers : answers[i].ok
FromFile == pc = "done" /\ status = 200 /\ ~Found

(* The part of a path behind its last slash.                               *)
FileName(p) ==
    LET slashes == {i \in DOMAIN p : p[i] = "/"}
    IN  IF slashes = {} THEN p ELSE SubSeq(p, Max(slashes) + 1, Len(p))

(* A file whose name ends in an extension of the table is sent with the    *)
(* type of that extension's first row, whatever other dots its name, its   *)
(* directories and the web root have.                                      *)
KnownFileTyped ==
    FromFile =>
        \A i \in DOMAIN Rows :
            /\ IsSuffix(Rows[i].ext, FileName(path))
            /\ \A j \in 1..(i - 1) : Rows[j].ext # Rows[i].ext
            => type = Rows[i].type

(* What the file system makes of a path: between its slashes there are     *)
(* names, "." for the directory at hand, and ".." for the one above.  Each *)
(* of these is told where it begins.  (No link is followed.)               *)
Begins(p, i) == p[i] # "/" /\ (i = 1 \/ p[i - 1] = "/")
EndsAt(p, i) == i = Len(p) \/ p[i + 1] = "/"
IsHere(p, i) == Begins(p, i) /\ p[i] = "." /\ EndsAt(p, i)
IsUp(p, i) ==
    Begins(p, i) /\ i < Len(p) /\ p[i] = "." /\ p[i + 1] = "." /\ EndsAt(p, i + 1)
IsName(p, i) == Begins(p, i) /\ ~IsHere(p, i) /\ ~IsUp(p, i)

NameAt(p, i) == SubSeq(p, i, Min({j \in i..Len(p) : EndsAt(p, j)}))

(* The directories, from the top, that p leads through in the end.         *)
Resolve(p) ==
    FoldLeft(LAMBDA dirs, i :
                 IF IsName(p, i) THEN Append(dirs, NameAt(p, i))
                 ELSE IF IsUp(p, i) /\ dirs # <<>> THEN Front(dirs)
                 ELSE dirs,
             <<>>, [i \in DOMAIN p |-> i])

(* Somewhere on its way p is above the place it started from.              *)
Ups(p, n) == {i \in 1..n : IsUp(p, i)}
Names(p, n) == {i \in 1..n : IsName(p, i)}
Climbs(p) == \E n \in DOMAIN p : Cardinality(Ups(p, n)) > Cardinality(Names(p, n))

(* A file that is served lies below the web root, with or without a slash  *)
(* at the beginning of the URI and for the index too, so that the name of  *)
(* the root is never glued to that of the file.  This holds only for a URI *)
(* that does not climb: nothing in the code looks at "..", and a file out- *)
(* side of the root is served like any other (the repository's README has  *)
(* a check of the path under TBD).                                         *)
FileBelowRoot ==
    FromFile /\ ~Climbs(uri) => IsPrefix(Resolve(root), Resolve(path))

(* The same without recursion: the path is the root, a slash and a rest    *)
(* that does not climb unless the URI does.                                *)
RestOfPath == SubSeq(path, Len(root) + 1, Len(path))
RootIsLeftByUriOnly ==
    FromFile =>
        /\ path = root \o RestOfPath
        /\ RestOfPath # <<>> => RestOfPath[1] = "/"
        /\ Climbs(RestOfPath) => Climbs(uri)

(* When the responders behave, that is, when one that returns 200 writes   *)
(* its content and its type and one that declines writes neither, whatever *)
(* they do to the time, all of a response has one origin: content and type *)
(* are by the same responder, the last one that returned 200; or, when     *)
(* none did, there is no content of a responder that would be sent in the  *)
(* place of the file, and type and time are the file's.                    *)
AnswerOfOneResponder ==
    /\ pc = "done"
    /\ status = 200
    /\ \A i \in DOMAIN answers : answers[i].wrote = answers[i].ok
                                 /\ (answers[i].type # <<>>) = answers[i].ok
    => IF Found
         THEN LET last == Max({i \in DOMAIN answers : answers[i].ok})
              IN  content = last /\ type = ContentType(answers[last].type)
         ELSE content = 0 /\ type = ContentType(FileExt(path)) /\ modified = "file"

=============================================================================
