------------------------------ MODULE SendFile ------------------------------
(***************************************************************************)
(* TransportSocket::sendFile (src/src/jtransportsocket.cpp), which         *)
(* HttpSocket::sendFile hands to the users of that class: a file is read   *)
(* a buffer at a time and every buffer is sent until as many bytes have    *)
(* gone as it holds.                                                       *)
(*                                                                         *)
(* A byte is the number of its place in the file, so wire tells which      *)
(* bytes the peer has got and in which order.  BufSize is sizeof(buffer),  *)
(* the size of a pointer and not that of what it points to.                *)
(***************************************************************************)
EXTENDS Integers, Sequences

CONSTANTS
    BufSize,    \* bytes that one read asks for, 8 in the code
    FileSizes,  \* the sizes a file may have
    MayFail     \* whether the file may be missing and ::send fail

ASSUME SendFileAssumption ==
    /\ BufSize \in Nat \ {0}
    /\ FileSizes \subseteq Nat
    /\ MayFail \in BOOLEAN

VARIABLES
    fsize,      \* the size of the file
    pc,         \* "open", "test", "send" or "returned"
    pos,        \* bytes read from the file
    good,       \* ifs.good()
    size,       \* bytes in the buffer
    bsent,      \* bytes sent since the last read
    sent_bytes, \* bytes sent and added up
    result,     \* what the function has returned
    wire,       \* the bytes the peer has been sent
    cut,        \* history: some ::send took less than it was given
    failed      \* history: the file was missing, or some ::send failed

vars == <<fsize, pc, pos, good, size, bsent, sent_bytes, result, wire, cut, failed>>

Init ==
    /\ fsize \in FileSizes
    /\ pc = "open"
    /\ pos = 0
    /\ good = TRUE
    /\ size = 0
    /\ bsent = 0
    /\ sent_bytes = 0
    /\ result = 0
    /\ wire = <<>>
    /\ cut = FALSE
    /\ failed = FALSE

Return(r) ==
    /\ pc' = "returned"
    /\ result' = r

-----------------------------------------------------------------------------
(* Mutations: what some actions below would be with a plausible bug in the *)
(* code.  They take no part in Next; each one shows, put in the place of   *)
(* the action it is named after, that a property tells the difference.     *)

(* sent_bytes is counted per buffer read and not per byte sent. *)
SendCountsBuffer(txc) ==
    /\ pc = "send"
    /\ txc \in 1..size
    /\ wire' = wire \o [i \in 1..txc |-> pos - size + i]
    /\ bsent' = bsent + txc
    /\ cut' = (cut \/ txc < size)
    /\ IF bsent' >= size
         THEN pc' = "test" /\ sent_bytes' = sent_bytes + size
         ELSE UNCHANGED <<pc, sent_bytes>>
    /\ UNCHANGED <<fsize, pos, good, size, result, failed>>

(* The rest of a short last read is sent as well. *)
ReadWhole ==
    /\ pc = "test"
    /\ good
    /\ pos < fsize
    /\ size' = BufSize
    /\ pos' = pos + size'
    /\ good' = (fsize - pos >= BufSize)
    /\ bsent' = 0
    /\ pc' = "send"
    /\ UNCHANGED <<fsize, sent_bytes, result, wire, cut, failed>>

-----------------------------------------------------------------------------

Open ==
    /\ pc = "open"
    /\ pc' = "test"
    /\ UNCHANGED <<fsize, pos, good, size, bsent, sent_bytes, result, wire, cut, failed>>

OpenFails ==
    /\ pc = "open"
    /\ MayFail
    /\ Return(-1)
    /\ failed' = TRUE
    /\ UNCHANGED <<fsize, pos, good, size, bsent, sent_bytes, wire, cut>>

(* Less than was asked for ends the stream. *)
Read ==
    /\ pc = "test"
    /\ good
    /\ pos < fsize
    /\ size' = IF fsize - pos < BufSize THEN fsize - pos ELSE BufSize
    /\ pos' = pos + size'
    /\ good' = (size' = BufSize)
    /\ bsent' = 0
    /\ pc' = "send"
    /\ UNCHANGED <<fsize, sent_bytes, result, wire, cut, failed>>

(* Nothing was left to read: return -1.                                    *)
ReadNothing ==
    /\ pc = "test"
    /\ good
    /\ pos = fsize
    /\ size' = 0
    /\ good' = FALSE
    /\ Return(-1)
    /\ UNCHANGED <<fsize, pos, bsent, sent_bytes, wire, cut, failed>>

(* The loop ends at the end of the stream.                                 *)
Done ==
    /\ pc = "test"
    /\ ~good
    /\ Return(sent_bytes)
    /\ UNCHANGED <<fsize, pos, good, size, bsent, sent_bytes, wire, cut, failed>>

(* send(buffer.get(), size): always from the start of the buffer and       *)
(* always the whole of it, however much of it has gone already.            *)
Send(txc) ==
    /\ pc = "send"
    /\ txc \in 1..size
    /\ wire' = wire \o [i \in 1..txc |-> pos - size + i]
    /\ bsent' = bsent + txc
    /\ cut' = (cut \/ txc < size)
    /\ IF bsent' >= size
         THEN pc' = "test" /\ sent_bytes' = sent_bytes + bsent'
         ELSE UNCHANGED <<pc, sent_bytes>>
    /\ UNCHANGED <<fsize, pos, good, size, result, failed>>

(* ::send takes nothing: sleep for a second and try again.                 *)
SendCongested ==
    /\ pc = "send"
    /\ UNCHANGED vars

SendFails ==
    /\ pc = "send"
    /\ MayFail
    /\ Return(-1)
    /\ failed' = TRUE
    /\ UNCHANGED <<fsize, pos, good, size, bsent, sent_bytes, wire, cut>>

Terminated == pc = "returned" /\ UNCHANGED vars

Sends == \E txc \in 1..BufSize : Send(txc)

Next ==
    \/ Open
    \/ OpenFails
    \/ Read
    \/ ReadNothing
    \/ Done
    \/ Sends
    \/ SendCongested
    \/ SendFails
    \/ Terminated

Spec == Init /\ [][Next]_vars

-----------------------------------------------------------------------------
(* Properties.                                                             *)

(* As long as ::send takes all it is given, the peer gets the file: a      *)
(* part of it that begins at the beginning, all of it when the function    *)
(* has reported success.                                                   *)
FileArrives ==
    ~cut => /\ Len(wire) <= fsize
            /\ \A i \in 1..Len(wire) : wire[i] = i
            /\ pc = "returned" /\ result # -1 => Len(wire) = fsize

(* A result that is not an error is the number of bytes sent, those that   *)
(* were sent twice included.  A result of -1 is an error, with one         *)
(* exception: when the file is a multiple of what one read asks for, the   *)
(* last read finds nothing, and -1 is what the caller gets for a file that *)
(* has been sent to its end.                                               *)
ResultExplained ==
    pc = "returned" =>
        IF result # -1 THEN result = Len(wire)
        ELSE failed \/ (pos = fsize /\ fsize % BufSize = 0)

=============================================================================
