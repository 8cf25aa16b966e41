-------------------------- MODULE MCRequestParser ---------------------------
(* Instances of RequestParser for TLC.                                     *)
EXTENDS RequestParser, SequencesExt

AllSymbols == {"CR", "LF", "SP", "/", "x", "GET", "HEAD", "POST", "HTTP/1.1"}

CONSTANT MaxBytes   \* bound: bytes of the connection, in RawInputs

(* Every sequence of at most MaxBytes symbols over CR, LF and another byte. *)
ControlBytes == {"CR", "LF", "x"}
RawInputs == {<<[head |-> b, body |-> <<>>]>> : b \in BoundedSeq(ControlBytes, MaxBytes)}

(* Request lines of up to five words in any order.                         *)
LineInputs ==
    {<<[head |-> l \o EmptyLine, body |-> <<>>]>> :
        l \in BoundedSeq(AllSymbols \ {"CR", "LF"}, 4) \cup
              [1..5 -> {"SP", "/", "x", "GET", "HTTP/1.1"}]}

(* Well-formed messages, with and without a field and a body.              *)
Field == <<"x", "x", "CR", "LF">>
Heads ==
    {<<m, "SP", u, "SP", v>> \o CRLF \o f \o CRLF :
        m \in {"GET", "POST", "x"}, u \in {"/", "x"}, v \in {"HTTP/1.1", "x"},
        f \in {<<>>, Field}}
PlainMessages == [head : Heads, body : {<<>>}]
PlainInputs == UNION {[1..n -> PlainMessages] : n \in 1..2}

(* A form posted as text.                                                  *)
BodyInputs ==
    {<<[head |-> <<"POST", "SP", "/", "SP", "HTTP/1.1">> \o EmptyLine,
        body |-> <<"x", "CR", "LF">>],
       [head |-> <<"GET", "SP", "x", "SP", "HTTP/1.1">> \o EmptyLine,
        body |-> <<>>]>>}

AllInputs == RawInputs \cup LineInputs \cup PlainInputs \cup BodyInputs

=============================================================================
