------------------------ MODULE RequestParserProofs -------------------------
(***************************************************************************)
(* Theorems about RequestParser, for every client, whatever it sends.      *)
(*                                                                         *)
(* The argument: the state of crlf tells which part of an empty line got   *)
(* ends with, and, as long as no CR is doubled, what got ends with tells   *)
(* the state of crlf.  The lines lie one behind the other in got, and the  *)
(* tokens in the first of them, each up to the blank that ends it.  So if  *)
(* every head is well formed, recv is always within the message it should  *)
(* be in, unless a body has put it out of step before.                     *)
(***************************************************************************)
EXTENDS RequestParser, SequenceTheorems, WellFoundedInduction, TLAPS

(* What got ends with: CR, CR LF, CR LF CR, and CR LF CR LF.               *)
EndsCR1 == Len(got) >= 1 /\ got[Len(got)] = "CR"
EndsLF1 == Len(got) >= 2 /\ got[Len(got)] = "LF" /\ got[Len(got) - 1] = "CR"
EndsCR2 ==
    /\ Len(got) >= 3
    /\ got[Len(got)] = "CR"
    /\ got[Len(got) - 1] = "LF"
    /\ got[Len(got) - 2] = "CR"
EndsLF2 ==
    /\ Len(got) >= 4
    /\ got[Len(got)] = "LF"
    /\ got[Len(got) - 1] = "CR"
    /\ got[Len(got) - 2] = "LF"
    /\ got[Len(got) - 3] = "CR"

(* The state of crlf is never ahead of the bytes ...                       *)
StateFollows ==
    /\ s = "CR1" => EndsCR1
    /\ s = "LF1" => EndsLF1
    /\ s = "CR2" => EndsCR2
    /\ s = "LF2" => EndsLF2
    /\ s \in {"LF1", "CR2", "LF2"} => Len(header) > 0
    /\ pc = "parse" => s = "LF2"
    /\ pc = "recv" => s # "LF2"

(* ... and never behind them, unless a CR was doubled.                     *)
StateKeepsUp ==
    NoDoubledCR(got) =>
        /\ EndsCR1 => s \in {"CR1", "CR2"}
        /\ EndsLF1 => s \in {"LF1", "LF2"}
        /\ EndsCR2 => s = "CR2"
        /\ EndsLF2 => s = "LF2"

(* The lines lie in got without a gap, each with its CR LF.                *)
IsLine(l) == Len(l) >= 2 /\ l[Len(l) - 1] = "CR" /\ l[Len(l)] = "LF"

LinesInv ==
    /\ Len(ends) = Len(header)
    /\ \A i \in 1..Len(header) : /\ ends[i] \in LineStart(i)..Len(got)
                                 /\ header[i] = SubSeq(got, LineStart(i), ends[i])
                                 /\ IsLine(header[i])
    /\ line = SubSeq(got, LineStart(Len(header) + 1), Len(got))
    /\ s \in {"CR1", "CR2"} => line # <<>> /\ line[Len(line)] = "CR"

(* The words of a line l so far, and what is left of it: cut[i] is where   *)
(* the i-th of them ends, at a blank or behind the line.                   *)
Cuts(l, words, left, cut) ==
    LET n == Len(words)
    IN  /\ cut[0] = 0
        /\ \A i \in 1..n : /\ cut[i - 1] < cut[i]
                           /\ words[i] = SubSeq(l, cut[i - 1] + 1, cut[i] - 1)
                           /\ cut[i] <= Len(l) => l[cut[i]] = "SP"
        /\ \A x \in 1..Len(l) :
               x <= cut[n] /\ l[x] = "SP" => \E i \in 1..n : cut[i] = x
        /\ left = SubSeq(l, cut[n] + 1, Len(l))

AreCut(l, words, left) ==
    \E cut \in [0..Len(words) -> 0..(Len(l) + 1)] : Cuts(l, words, left, cut)

SplitInv ==
    IF pc = "parse"
      THEN AreCut(header[1], tokens, rest)
      ELSE rest = <<>> /\ tokens = <<>>

RecvInv == TypeOK /\ StateFollows /\ StateKeepsUp /\ LinesInv /\ SplitInv

(* Where recv is among the messages: within the head of one of them ...    *)
AllWell == \A i \in DOMAIN input : WellFormed(input[i])

IsWithin(m) ==
    /\ Len(got) <= Len(m.head)
    /\ Len(got) = Len(m.head) <=> pc = "parse"
    /\ Len(got) + Len(stream) = Len(m.head) + Len(m.body)
    /\ \A j \in 1..Len(got) : got[j] = m.head[j]
    /\ \A j \in 1..Len(stream) :
           Len(got) + j <= Len(m.head) => stream[j] = m.head[Len(got) + j]
    /\ IF Len(got) < 7 THEN header = <<>> ELSE header # <<>> /\ ends[1] = 7

WithinHead ==
    /\ sent >= 1 /\ Bodiless(sent - 1) /\ Len(served) = sent - 1
    /\ IsWithin(input[sent])

(* ... or between two of them ...                                          *)
Between ==
    /\ Bodiless(sent) /\ Len(served) = sent
    /\ got = <<>> /\ stream = <<>>
    /\ pc # "parse"

(* ... or out of step, since the message with the body was answered.       *)
Astray == \E i \in 1..Len(served) : i <= Len(input) /\ input[i].body # <<>>

PlaceInv == AllWell => WithinHead \/ Between \/ Astray

RightInv ==
    AllWell => \A i \in DOMAIN served :
                   i <= Len(input) /\ Bodiless(i - 1) => served[i] = Meaning(input[i])

-----------------------------------------------------------------------------
(* Sequences.                                                              *)

(* A set of numbers that is not empty has a least element.                 *)
LEMMA LeastOf ==
    ASSUME NEW S, S \subseteq Nat, S # {}
    PROVE  Min(S) \in S /\ \A i \in S : Min(S) <= i
<1> DEFINE R == OpToRel(<, Nat)
<1>1. PICK n \in S : \A m \in S : <<m, n>> \notin R
  <2> HIDE DEF R
  <2>1. IsWellFoundedOn(R, Nat)
    BY NatLessThanWellFounded DEF R
  <2> QED
    BY <2>1, WFMin
<1>2. \A m \in S : n <= m
  <2> SUFFICES ASSUME NEW m \in S PROVE n <= m
    OBVIOUS
  <2>1. ~(m < n)
    BY <1>1 DEF OpToRel
  <2> QED
    BY <2>1
<1> QED
  BY <1>2 DEF Min

(* Where the next token ends: at the first blank, or behind it all.        *)
LEMMA FirstBlank ==
    ASSUME rest \in Seq(Symbols)
    PROVE  LET blanks == {i \in DOMAIN rest : rest[i] = "SP"}
               at == IF blanks = {} THEN Len(rest) + 1 ELSE Min(blanks)
           IN  /\ at \in 1..(Len(rest) + 1)
               /\ at <= Len(rest) => rest[at] = "SP"
               /\ \A i \in 1..Len(rest) : rest[i] = "SP" => at <= i
<1> DEFINE blanks == {i \in DOMAIN rest : rest[i] = "SP"}
           at == IF blanks = {} THEN Len(rest) + 1 ELSE Min(blanks)
<1>1. blanks \subseteq 1..Len(rest) /\ Len(rest) \in Nat
  OBVIOUS
<1>2. CASE blanks = {}
  <2>1. \A i \in 1..Len(rest) : rest[i] # "SP"
    BY <1>2
  <2> QED
    BY <1>1, <1>2, <2>1
<1>3. CASE blanks # {}
  <2>1. Min(blanks) \in blanks /\ \A i \in blanks : Min(blanks) <= i
    <3>1. blanks \subseteq Nat
      BY <1>1
    <3> HIDE DEF blanks
    <3> QED
      BY <1>3, <3>1, LeastOf
  <2>2. at = Min(blanks)
    BY <1>3
  <2>3. at \in 1..Len(rest) /\ rest[at] = "SP"
    BY <2>1, <2>2
  <2>4. \A i \in 1..Len(rest) : rest[i] = "SP" => at <= i
    BY <2>1, <2>2
  <2> QED
    BY <1>1, <2>3, <2>4
<1> QED
  BY <1>2, <1>3

(* A part of the end of a sequence.                                        *)
LEMMA PartOfEnd ==
    ASSUME NEW S, NEW l \in Seq(S), NEW a \in 0..Len(l),
           NEW i \in Nat \ {0}, NEW j \in 0..(Len(l) - a)
    PROVE  SubSeq(SubSeq(l, a + 1, Len(l)), i, j) = SubSeq(l, a + i, a + j)
<1> DEFINE e == SubSeq(l, a + 1, Len(l))
           p == SubSeq(e, i, j)
           q == SubSeq(l, a + i, a + j)
<1>1. e \in Seq(S) /\ Len(e) = Len(l) - a /\ \A k \in 1..Len(e) : e[k] = l[a + k]
  OBVIOUS
<1>2. CASE i > j
  <2>1. p = <<>>
    <3> HIDE DEF e
    <3> QED
      BY <1>1, <1>2, SubSeqEmpty
  <2>2. q = <<>>
    BY <1>2, SubSeqEmpty
  <2> QED
    BY <2>1, <2>2
<1>3. CASE i <= j
  <2>1. p \in Seq(S) /\ Len(p) = j - i + 1 /\ \A k \in 1..Len(p) : p[k] = e[i + k - 1]
    <3> HIDE DEF e
    <3>1. i \in Int /\ j \in Int /\ \A k \in i..j : k \in 1..Len(e)
      BY <1>1
    <3>2. \A k \in i..j : e[k] \in S
      BY <1>1, <3>1, ElementOfSeq
    <3>3. /\ p \in Seq(S)
          /\ Len(p) = IF i <= j THEN j - i + 1 ELSE 0
          /\ \A k \in 1..(j - i + 1) : p[k] = e[i + k - 1]
      BY <3>1, <3>2, SubSeqProperties
    <3> QED
      BY <1>3, <3>3
  <2>2. q \in Seq(S) /\ Len(q) = j - i + 1 /\ \A k \in 1..Len(q) : q[k] = l[a + i + k - 1]
    BY <1>3
  <2>3. \A k \in 1..Len(p) : p[k] = q[k]
    <3> SUFFICES ASSUME NEW k \in 1..Len(p) PROVE p[k] = q[k]
      OBVIOUS
    <3> HIDE DEF p, q, e
    <3>1. i + k - 1 \in 1..Len(e) /\ a + (i + k - 1) = a + i + k - 1
      BY <1>1, <1>3, <2>1
    <3> QED
      BY <1>1, <2>1, <2>2, <3>1
  <2> HIDE DEF p, q
  <2> QED
    BY <2>1, <2>2, <2>3, SeqEqual
<1> QED
  BY <1>2, <1>3

(* One byte more at the end of a part that reaches the end.                *)
LEMMA PartGrows ==
    ASSUME NEW S, NEW b \in Seq(S), NEW c \in S, NEW i \in 1..(Len(b) + 1)
    PROVE  SubSeq(Append(b, c), i, Len(b) + 1) = Append(SubSeq(b, i, Len(b)), c)
<1> DEFINE p == SubSeq(Append(b, c), i, Len(b) + 1)
           q == Append(SubSeq(b, i, Len(b)), c)
<1>1. Append(b, c) \in Seq(S) /\ Len(Append(b, c)) = Len(b) + 1
  OBVIOUS
<1>2. /\ p \in Seq(S) /\ Len(p) = Len(b) + 2 - i
      /\ \A k \in 1..Len(p) : p[k] = Append(b, c)[i + k - 1]
  BY <1>1
<1>3. /\ q \in Seq(S) /\ Len(q) = Len(b) + 2 - i
      /\ \A k \in 1..(Len(b) + 1 - i) : q[k] = b[i + k - 1]
      /\ q[Len(b) + 2 - i] = c
  <2>1. /\ SubSeq(b, i, Len(b)) \in Seq(S) /\ Len(SubSeq(b, i, Len(b))) = Len(b) + 1 - i
        /\ \A k \in 1..(Len(b) + 1 - i) : SubSeq(b, i, Len(b))[k] = b[i + k - 1]
    OBVIOUS
  <2> QED
    BY <2>1
<1>4. \A k \in 1..Len(p) : p[k] = q[k]
  <2> SUFFICES ASSUME NEW k \in 1..Len(p) PROVE p[k] = q[k]
    OBVIOUS
  <2>1. CASE k = Len(b) + 2 - i
    BY <1>2, <1>3, <2>1
  <2>2. CASE k # Len(b) + 2 - i
    <3>1. k \in 1..(Len(b) + 1 - i) /\ i + k - 1 \in 1..Len(b)
      BY <1>2, <2>2
    <3> QED
      BY <1>2, <1>3, <3>1
  <2> QED
    BY <2>1, <2>2
<1> HIDE DEF p, q
<1> QED
  BY <1>2, <1>3, <1>4, SeqEqual

(* ... does not change the parts before it.                                *)
LEMMA PartStays ==
    ASSUME NEW S, NEW b \in Seq(S), NEW c \in S, NEW i \in Nat \ {0}, NEW j \in i..Len(b)
    PROVE  SubSeq(Append(b, c), i, j) = SubSeq(b, i, j)
<1> DEFINE p == SubSeq(Append(b, c), i, j)
           q == SubSeq(b, i, j)
<1>1. /\ Append(b, c) \in Seq(S) /\ Len(b) \in Nat
      /\ \A k \in 1..Len(b) : Append(b, c)[k] = b[k]
      /\ i \in Int /\ j \in Int /\ i <= j /\ j <= Len(b) /\ i >= 1
  OBVIOUS
<1>2. \A k \in i..j : k \in 1..Len(b)
  BY <1>1
<1>3. \A k \in i..j : b[k] \in S /\ Append(b, c)[k] \in S
  BY <1>1, <1>2, ElementOfSeq
<1>4. p \in Seq(S) /\ Len(p) = j - i + 1 /\ \A k \in 1..(j - i + 1) : p[k] = Append(b, c)[i + k - 1]
  BY <1>1, <1>3, SubSeqProperties
<1>5. q \in Seq(S) /\ Len(q) = j - i + 1 /\ \A k \in 1..(j - i + 1) : q[k] = b[i + k - 1]
  BY <1>1, <1>3, SubSeqProperties
<1>6. \A k \in 1..Len(p) : p[k] = q[k]
  <2> SUFFICES ASSUME NEW k \in 1..(j - i + 1) PROVE p[k] = q[k]
    BY <1>4
  <2>1. i + k - 1 \in 1..Len(b)
    BY <1>1
  <2> HIDE DEF p, q
  <2> QED
    BY <1>1, <1>4, <1>5, <2>1
<1> HIDE DEF p, q
<1> QED
  BY <1>4, <1>5, <1>6, SeqEqual

-----------------------------------------------------------------------------
(* Types.                                                                  *)

LEMMA ParsedType ==
    ASSUME NEW words \in Seq(Seq(Symbols))
    PROVE  ParseRequest(words) \in Requests
<1>1. Unknown \in Requests
  BY DEF Unknown, Requests
<1>2. ASSUME Len(words) = 3 PROVE ParseRequest(words) \in Requests
  <2>1. words[2] \in Seq(Symbols)
    <3>1. 2 \in 1..Len(words)
      BY <1>2
    <3> QED
      BY <3>1, ElementOfSeq
  <2>2. ASSUME NEW word PROVE Method(word) \in Methods \cup {"UNKNOWN"}
    <3>1. CASE \E m \in Methods : word = <<m>>
      <4>1. PICK m \in Methods : word = <<m>>
        BY <3>1
      <4>2. Method(word) = m
        BY <4>1 DEF Method
      <4> QED
        BY <4>2
    <3>2. CASE ~\E m \in Methods : word = <<m>>
      BY <3>2 DEF Method
    <3> QED
      BY <3>1, <3>2
  <2>3. Uri(words[2]) \in Seq(Words)
    <3>1. Symbols \subseteq Words /\ <<"index.html">> \in Seq(Words)
      BY DEF Words
    <3>2. words[2] \in Seq(Words)
      BY <2>1, <3>1, SeqMonotonic
    <3> QED
      BY <3>1, <3>2 DEF Uri
  <2>4. ASSUME NEW word PROVE Version(word) \in Versions \cup {"UNKNOWN"}
    BY DEF Version
  <2>5. ParseRequest(words) = [method |-> Method(words[1]), uri |-> Uri(words[2]),
                               version |-> Version(words[3])]
    BY <1>2 DEF ParseRequest
  <2> QED
    BY <2>2, <2>3, <2>4, <2>5 DEF Requests
<1> QED
  BY <1>1, <1>2 DEF ParseRequest

LEMMA MessageType ==
    ASSUME NEW i \in 1..Len(input), input \in Seq(Messages)
    PROVE  input[i].head \in Seq(Symbols) /\ input[i].body \in Seq(Symbols)
<1>1. input[i] \in Messages
  BY ElementOfSeq
<1> QED
  BY <1>1 DEF Messages

LEMMA TypeInit == Init => TypeOK
  BY InputAssumption DEF Init, TypeOK

(* What a byte does to its line.                                           *)
LEMMA RecvByteTypes ==
    ASSUME TypeOK, RecvByte
    PROVE  /\ TypeOK'
           /\ Head(stream) \in Symbols /\ got' = Append(got, Head(stream))
           /\ s' = Crlf(s, Head(stream))
           /\ IF s' = "LF1"
                THEN /\ header' = Append(header, Append(line, Head(stream)))
                     /\ line' = <<>>
                     /\ ends' = Append(ends, Len(got) + 1)
                ELSE line' = Append(line, Head(stream)) /\ UNCHANGED <<header, ends>>
<1> USE DEF TypeOK
<1> DEFINE c == Head(stream)
<1>1. /\ c \in Symbols /\ stream' \in Seq(Symbols)
      /\ got' = Append(got, c) /\ got' \in Seq(Symbols)
      /\ Len(got') = Len(got) + 1 /\ Len(got) \in Nat
  BY DEF RecvByte
<1>2. s' = Crlf(s, c) /\ s' \in {"IDLE", "CR1", "LF1", "CR2", "LF2"}
  <2>1. s' = Crlf(s, c)
    BY DEF RecvByte
  <2> QED
    BY <2>1 DEF Crlf
<1>3. Append(line, c) \in Seq(Symbols)
  BY <1>1
<1>4. IF s' = "LF1"
        THEN /\ header' = Append(header, Append(line, c))
             /\ line' = <<>>
             /\ ends' = Append(ends, Len(got) + 1)
        ELSE line' = Append(line, c) /\ UNCHANGED <<header, ends>>
  BY <1>1 DEF RecvByte
<1>5. /\ header' \in Seq(Seq(Symbols)) /\ line' \in Seq(Symbols) /\ ends' \in Seq(Nat)
  <2>1. CASE s' = "LF1"
    <3>1. /\ header' = Append(header, Append(line, c))
          /\ line' = <<>>
          /\ ends' = Append(ends, Len(got) + 1)
      BY <1>4, <2>1
    <3> HIDE DEF c
    <3> QED
      BY <1>1, <1>3, <3>1
  <2>2. CASE s' # "LF1"
    BY <1>3, <1>4, <2>2
  <2> QED
    BY <2>1, <2>2
<1>6. rest' \in Seq(Symbols) /\ tokens' = <<>>
  <2>1. header # <<>> => Head(header) \in Seq(Symbols)
    OBVIOUS
  <2>2. rest' = IF s' = "LF2" /\ header # <<>> THEN Head(header) ELSE <<>>
    BY DEF RecvByte
  <2> QED
    BY <2>1, <2>2 DEF RecvByte
<1>7. pc' \in {"recv", "parse"} /\ UNCHANGED <<input, sent, served>>
  BY DEF RecvByte
<1>8. TypeOK'
  BY <1>1, <1>2, <1>5, <1>6, <1>7
<1> QED
  BY <1>1, <1>2, <1>4, <1>8

LEMMA SplitTokenTypes ==
    ASSUME TypeOK, SplitToken
    PROVE  TypeOK'
<1> USE DEF TypeOK
<1> DEFINE blanks == {i \in DOMAIN rest : rest[i] = "SP"}
           at == IF blanks = {} THEN Len(rest) + 1 ELSE Min(blanks)
<1>1. at \in 1..(Len(rest) + 1)
  BY FirstBlank
<1>2. /\ SubSeq(rest, 1, at - 1) \in Seq(Symbols)
      /\ SubSeq(rest, at + 1, Len(rest)) \in Seq(Symbols)
  <2> HIDE DEF at
  <2> QED
    BY <1>1
<1>3. /\ tokens' = Append(tokens, SubSeq(rest, 1, at - 1))
      /\ rest' = SubSeq(rest, at + 1, Len(rest))
  BY DEF SplitToken
<1>4. tokens' \in Seq(Seq(Symbols)) /\ rest' \in Seq(Symbols)
  <2> HIDE DEF at
  <2> QED
    BY <1>2, <1>3
<1>5. UNCHANGED <<pc, served, netVars, recvVars>>
  BY DEF SplitToken
<1> QED
  BY <1>4, <1>5 DEF netVars, recvVars

LEMMA ParseTypes ==
    ASSUME TypeOK, Parse
    PROVE  TypeOK'
<1> USE DEF TypeOK
<1>1. served' \in Seq(Requests)
  <2>1. ParseRequest(tokens) \in Requests
    BY ParsedType
  <2> QED
    BY <2>1 DEF Parse
<1> QED
  BY <1>1 DEF Parse, netVars

LEMMA ArriveTypes ==
    ASSUME TypeOK, Arrive
    PROVE  /\ TypeOK'
           /\ sent' \in 1..Len(input) /\ sent' = sent + 1
           /\ stream' = input[sent'].head \o input[sent'].body
           /\ UNCHANGED <<pc, served, input, recvVars, splitVars>>
<1> USE DEF TypeOK
<1>1. sent' = sent + 1 /\ sent' \in 1..Len(input)
  BY DEF Arrive
<1>2. input[sent'].head \in Seq(Symbols) /\ input[sent'].body \in Seq(Symbols)
  BY <1>1, MessageType
<1>3. stream' \in Seq(Symbols)
  BY <1>2 DEF Arrive
<1> QED
  BY <1>1, <1>3 DEF Arrive, recvVars, splitVars

LEMMA TypeNext == TypeOK /\ [Next]_vars => TypeOK'
<1> SUFFICES ASSUME TypeOK, [Next]_vars PROVE TypeOK'
  OBVIOUS
<1>1. CASE Arrive
  BY <1>1, ArriveTypes
<1>2. CASE RecvByte
  BY <1>2, RecvByteTypes
<1>3. CASE RecvDown
  BY <1>3 DEF RecvDown, TypeOK, netVars, recvVars, splitVars
<1>4. CASE SplitToken
  BY <1>4, SplitTokenTypes
<1>5. CASE Parse
  BY <1>5, ParseTypes
<1>6. CASE UNCHANGED vars
  BY <1>6 DEF vars, TypeOK, netVars, recvVars, splitVars
<1> QED
  BY <1>1, <1>2, <1>3, <1>4, <1>5, <1>6 DEF Next, Terminated

(* Every variable has its type: for whatever a client sends, an answered   *)
(* request has one of the four methods and one of the three versions.      *)
THEOREM TypeCorrect == Spec => []TypeOK
  BY TypeInit, TypeNext, PTL DEF Spec

-----------------------------------------------------------------------------
(* crlf and the bytes.                                                     *)

(* One more byte extends what got ended with, or starts anew.              *)
LEMMA OneMoreByte ==
    ASSUME got \in Seq(Symbols), NEW c \in Symbols, got' = Append(got, c)
    PROVE  /\ EndsCR1' <=> c = "CR"
           /\ EndsLF1' <=> EndsCR1 /\ c = "LF"
           /\ EndsCR2' <=> EndsLF1 /\ c = "CR"
           /\ EndsLF2' <=> EndsCR2 /\ c = "LF"
           /\ NoDoubledCR(got)' <=> NoDoubledCR(got) /\ ~(EndsCR1 /\ c = "CR")
<1>1. /\ Len(got') = Len(got) + 1
      /\ got'[Len(got) + 1] = c
      /\ \A i \in 1..Len(got) : got'[i] = got[i]
      /\ Len(got) \in Nat
  OBVIOUS
<1>2. EndsCR1' <=> c = "CR"
  BY <1>1 DEF EndsCR1
<1>3. EndsLF1' <=> EndsCR1 /\ c = "LF"
  BY <1>1 DEF EndsCR1, EndsLF1
<1>4. EndsCR2' <=> EndsLF1 /\ c = "CR"
  BY <1>1 DEF EndsLF1, EndsCR2
<1>5. EndsLF2' <=> EndsCR2 /\ c = "LF"
  BY <1>1 DEF EndsCR2, EndsLF2
<1>6. NoDoubledCR(got)' <=> NoDoubledCR(got) /\ ~(EndsCR1 /\ c = "CR")
  BY <1>1 DEF NoDoubledCR, EndsCR1
<1> QED
  BY <1>2, <1>3, <1>4, <1>5, <1>6

(* Before the first byte there is nothing to tell.                         *)
LEMMA NothingYet ==
    got = <<>> => ~EndsCR1 /\ ~EndsLF1 /\ ~EndsCR2 /\ ~EndsLF2
  BY DEF EndsCR1, EndsLF1, EndsCR2, EndsLF2

LEMMA StateOfByte ==
    ASSUME TypeOK, StateFollows, StateKeepsUp, RecvByte
    PROVE  StateFollows' /\ StateKeepsUp'
<1> DEFINE c == Head(stream)
<1>1. /\ TypeOK' /\ c \in Symbols /\ got' = Append(got, c) /\ s' = Crlf(s, c)
      /\ IF s' = "LF1"
           THEN header' = Append(header, Append(line, c))
           ELSE UNCHANGED header
  BY RecvByteTypes
<1>2. /\ EndsCR1' <=> c = "CR"
      /\ EndsLF1' <=> EndsCR1 /\ c = "LF"
      /\ EndsCR2' <=> EndsLF1 /\ c = "CR"
      /\ EndsLF2' <=> EndsCR2 /\ c = "LF"
      /\ NoDoubledCR(got)' <=> NoDoubledCR(got) /\ ~(EndsCR1 /\ c = "CR")
  BY <1>1, OneMoreByte DEF TypeOK
<1>3. s # "LF2" /\ s \in {"IDLE", "CR1", "LF1", "CR2"}
  BY DEF RecvByte, StateFollows, TypeOK
<1>4. pc' = IF s' = "LF2" THEN "parse" ELSE "recv"
  BY DEF RecvByte
<1>5. s' \in {"LF1", "CR2", "LF2"} => Len(header') > 0
  <2>1. Len(header) \in Nat
    BY DEF TypeOK
  <2>2. CASE s' = "LF1"
    <3>1. Len(header') = Len(header) + 1
      <4>1. header' = Append(header, Append(line, c))
        BY <1>1, <2>2
      <4>2. header \in Seq(Seq(Symbols)) /\ Append(line, c) \in Seq(Symbols)
        BY <1>1 DEF TypeOK
      <4> QED
        BY <4>1, <4>2
    <3> QED
      BY <2>1, <3>1
  <2>3. CASE s' \in {"CR2", "LF2"}
    <3>1. header' = header
      BY <1>1, <2>3
    <3>2. s \in {"LF1", "CR2"}
      BY <1>1, <1>3, <2>3 DEF Crlf
    <3> QED
      BY <3>1, <3>2 DEF StateFollows
  <2> QED
    BY <2>2, <2>3
<1>6. StateFollows'
  <2>1. /\ s' = "CR1" => EndsCR1'
        /\ s' = "LF1" => EndsLF1'
        /\ s' = "CR2" => EndsCR2'
        /\ s' = "LF2" => EndsLF2'
    BY <1>1, <1>2, <1>3 DEF StateFollows, Crlf
  <2> QED
    BY <1>4, <1>5, <2>1 DEF StateFollows
<1>7. ASSUME NoDoubledCR(got)'
      PROVE  /\ EndsCR1' => s' \in {"CR1", "CR2"}
             /\ EndsLF1' => s' \in {"LF1", "LF2"}
             /\ EndsCR2' => s' = "CR2"
             /\ EndsLF2' => s' = "LF2"
  <2>1. /\ EndsCR1 => s \in {"CR1", "CR2"}
        /\ EndsLF1 => s \in {"LF1", "LF2"}
        /\ EndsCR2 => s = "CR2"
        /\ ~(EndsCR1 /\ c = "CR")
    BY <1>2, <1>7 DEF StateKeepsUp
  <2>2. s \in {"CR1", "CR2"} => EndsCR1
    BY DEF StateFollows, EndsCR1, EndsCR2
  <2>3. c = "CR" => s \in {"IDLE", "LF1"}
    BY <1>3, <2>1, <2>2
  <2>4. EndsCR1' => s' \in {"CR1", "CR2"}
    BY <1>1, <1>2, <2>3 DEF Crlf
  <2>5. EndsLF1' => s' \in {"LF1", "LF2"}
    BY <1>1, <1>2, <2>1 DEF Crlf
  <2>6. EndsCR2' => s' = "CR2"
    BY <1>1, <1>2, <1>3, <2>1 DEF Crlf
  <2>7. EndsLF2' => s' = "LF2"
    BY <1>1, <1>2, <2>1 DEF Crlf
  <2> QED
    BY <2>4, <2>5, <2>6, <2>7
<1>8. StateKeepsUp'
  BY <1>7 DEF StateKeepsUp
<1> QED
  BY <1>6, <1>8

-----------------------------------------------------------------------------
(* The lines.                                                              *)

LEMMA LinesOfByte ==
    ASSUME TypeOK, StateFollows, LinesInv, RecvByte
    PROVE  LinesInv'
<1> DEFINE c == Head(stream)
<1>a. PICK n \in Nat : n = Len(header)
  BY DEF TypeOK
<1>b. PICK m \in Nat : m = Len(got)
  BY DEF TypeOK
<1>1. /\ TypeOK' /\ c \in Symbols /\ got' = Append(got, c) /\ s' = Crlf(s, c)
      /\ IF s' = "LF1"
           THEN /\ header' = Append(header, Append(line, c))
                /\ line' = <<>>
                /\ ends' = Append(ends, m + 1)
           ELSE line' = Append(line, c) /\ UNCHANGED <<header, ends>>
  BY <1>b, RecvByteTypes
<1>2. /\ got \in Seq(Symbols) /\ got' \in Seq(Symbols)
      /\ header \in Seq(Seq(Symbols)) /\ ends \in Seq(Nat) /\ line \in Seq(Symbols)
      /\ Len(header) = n /\ Len(got) = m /\ Len(got') = m + 1
      /\ \A i \in 1..m : got'[i] = got[i]
  <2>1. /\ got \in Seq(Symbols)
        /\ header \in Seq(Seq(Symbols)) /\ ends \in Seq(Nat) /\ line \in Seq(Symbols)
    BY DEF TypeOK
  <2>2. got' = Append(got, c) /\ c \in Symbols
    BY <1>1
  <2> HIDE DEF c
  <2> QED
    BY <1>a, <1>b, <2>1, <2>2
<1>3. /\ Len(ends) = n
      /\ \A i \in 1..n : /\ ends[i] \in LineStart(i)..m
                         /\ header[i] = SubSeq(got, LineStart(i), ends[i])
                         /\ IsLine(header[i])
      /\ line = SubSeq(got, LineStart(n + 1), m)
      /\ s \in {"CR1", "CR2"} => line # <<>> /\ line[Len(line)] = "CR"
  BY <1>a, <1>b DEF LinesInv
<1>4. \A i \in 1..(n + 1) : LineStart(i) \in 1..(m + 1)
  <2> SUFFICES ASSUME NEW i \in 1..(n + 1) PROVE LineStart(i) \in 1..(m + 1)
    OBVIOUS
  <2>1. CASE i = 1
    BY <1>2, <2>1 DEF LineStart
  <2>2. CASE i # 1
    <3>1. i - 1 \in 1..n /\ i - 1 \in 1..Len(ends)
      BY <1>2, <1>3, <2>2
    <3>2. ends[i - 1] <= m /\ ends[i - 1] \in Nat
      BY <1>2, <1>3, <3>1
    <3> QED
      BY <1>2, <2>2, <3>2 DEF LineStart
  <2> QED
    BY <2>1, <2>2
<1>5. Append(line, c) = SubSeq(got', LineStart(n + 1), m + 1)
  <2>1. n + 1 \in 1..(n + 1)
    BY <1>2
  <2> QED
    BY <1>1, <1>2, <1>3, <1>4, <2>1, PartGrows
<1>6. \A i \in 1..n : SubSeq(got', LineStart(i), ends[i]) = header[i]
  <2> SUFFICES ASSUME NEW i \in 1..n
               PROVE  SubSeq(got', LineStart(i), ends[i]) = SubSeq(got, LineStart(i), ends[i])
    BY <1>3
  <2>1. LineStart(i) \in 1..(m + 1) /\ ends[i] \in LineStart(i)..m
    BY <1>2, <1>3, <1>4
  <2>2. LineStart(i) \in Nat \ {0} /\ ends[i] \in LineStart(i)..Len(got)
    BY <1>2, <2>1
  <2> QED
    BY <1>1, <1>2, <2>2, PartStays
<1>7. CASE s' = "LF1"
  <2>1. /\ header' = Append(header, Append(line, c))
        /\ line' = <<>>
        /\ ends' = Append(ends, m + 1)
    BY <1>1, <1>7
  <2>2. Append(line, c) \in Seq(Symbols)
    BY <1>1, <1>2
  <2>3. /\ Len(header') = n + 1 /\ header'[n + 1] = Append(line, c)
        /\ \A i \in 1..n : header'[i] = header[i]
    <3>1. /\ Len(Append(header, Append(line, c))) = Len(header) + 1
          /\ \A i \in 1..Len(header) : Append(header, Append(line, c))[i] = header[i]
          /\ Append(header, Append(line, c))[Len(header) + 1] = Append(line, c)
      BY <1>2, <2>2, AppendProperties
    <3> QED
      BY <1>2, <2>1, <3>1
  <2>4. /\ Len(ends') = n + 1 /\ ends'[n + 1] = m + 1
        /\ \A i \in 1..n : ends'[i] = ends[i]
    BY <1>2, <1>3, <2>1
  <2>5. \A i \in 1..(n + 1) : LineStart(i)' = LineStart(i)
    <3> SUFFICES ASSUME NEW i \in 1..(n + 1) PROVE LineStart(i)' = LineStart(i)
      OBVIOUS
    <3>1. i # 1 => i - 1 \in 1..n
      BY <1>2
    <3> QED
      BY <2>4, <3>1 DEF LineStart
  <2>6. IsLine(Append(line, c))
    <3>1. s = "CR1" /\ c = "LF"
      BY <1>1, <1>7 DEF Crlf
    <3>2. line # <<>> /\ line[Len(line)] = "CR"
      BY <1>3, <3>1
    <3>3. /\ Len(line) \in Nat \ {0}
          /\ Len(Append(line, c)) = Len(line) + 1
          /\ Append(line, c)[Len(line) + 1] = c
          /\ Append(line, c)[Len(line)] = line[Len(line)]
      BY <1>1, <1>2, <3>2
    <3> QED
      BY <3>1, <3>2, <3>3 DEF IsLine
  <2>7. ASSUME NEW i \in 1..(n + 1)
        PROVE  /\ ends'[i] \in LineStart(i)'..(m + 1)
               /\ header'[i] = SubSeq(got', LineStart(i)', ends'[i])
               /\ IsLine(header'[i])
    <3>1. CASE i = n + 1
      <4>1. LineStart(n + 1)' = LineStart(n + 1) /\ LineStart(n + 1) \in 1..(m + 1)
        <5>1. n + 1 \in 1..(n + 1)
          BY <1>2
        <5> QED
          BY <1>4, <2>5, <5>1
      <4>2. ends'[n + 1] \in LineStart(n + 1)'..(m + 1)
        BY <1>2, <2>4, <4>1
      <4>3. header'[n + 1] = SubSeq(got', LineStart(n + 1)', ends'[n + 1])
        BY <1>5, <2>3, <2>4, <4>1
      <4> QED
        BY <2>3, <2>6, <3>1, <4>2, <4>3
    <3>2. CASE i # n + 1
      <4>1. i \in 1..n
        BY <1>2, <3>2
      <4>2. ends'[i] \in LineStart(i)..m /\ LineStart(i) \in 1..(m + 1)
        BY <1>3, <1>4, <2>4, <4>1
      <4>3. LineStart(i)' = LineStart(i) /\ ends'[i] = ends[i] /\ header'[i] = header[i]
        BY <2>3, <2>4, <2>5, <4>1
      <4>4. ends'[i] \in LineStart(i)'..(m + 1)
        BY <1>2, <4>2, <4>3
      <4>5. header'[i] = SubSeq(got', LineStart(i)', ends'[i])
        BY <1>6, <4>1, <4>3
      <4> QED
        BY <1>3, <4>1, <4>3, <4>4, <4>5
    <3> QED
      BY <3>1, <3>2
  <2>8. line' = SubSeq(got', LineStart(n + 2)', m + 1)
    <3>1. LineStart(n + 2)' = m + 2
      <4>1. n + 2 # 1 /\ (n + 2) - 1 = n + 1
        BY <1>2
      <4>2. LineStart(n + 2)' = ends'[n + 1] + 1
        BY <4>1 DEF LineStart
      <4> QED
        BY <1>2, <2>4, <4>2
    <3> QED
      BY <1>2, <2>1, <3>1, SubSeqEmpty
  <2>9. Len(header') + 1 = n + 2
    BY <1>2, <2>3
  <2>10. /\ Len(ends') = Len(header')
         /\ \A i \in 1..Len(header') : /\ ends'[i] \in LineStart(i)'..Len(got')
                                       /\ header'[i] = SubSeq(got', LineStart(i)', ends'[i])
                                       /\ IsLine(header'[i])
    BY <1>2, <2>3, <2>4, <2>7
  <2>11. line' = SubSeq(got, LineStart(Len(header) + 1), Len(got))'
    <3>1. LineStart(Len(header) + 1)' = LineStart(n + 2)'
      BY <2>9
    <3> QED
      BY <1>2, <2>8, <3>1
  <2> QED
    BY <1>7, <2>10, <2>11 DEF LinesInv
<1>8. CASE s' # "LF1"
  <2>1. line' = Append(line, c) /\ header' = header /\ ends' = ends
    BY <1>1, <1>8
  <2>2. \A i : LineStart(i)' = LineStart(i)
    BY <2>1 DEF LineStart
  <2>3. s' \in {"CR1", "CR2"} => line' # <<>> /\ line'[Len(line')] = "CR"
    <3>1. s' \in {"CR1", "CR2"} => c = "CR"
      BY <1>1 DEF Crlf
    <3>2. line' # <<>> /\ line'[Len(line')] = c
      <4>1. line' = Append(line, c) /\ c \in Symbols
        BY <1>1, <2>1
      <4> HIDE DEF c
      <4>2. Len(line') = Len(line) + 1 /\ Len(line) \in Nat /\ line'[Len(line) + 1] = c
        BY <1>2, <4>1
      <4> QED
        BY <4>2
    <3> QED
      BY <3>1, <3>2
  <2>4. \A i \in 1..n : ends'[i] \in LineStart(i)..(m + 1)
    <3> SUFFICES ASSUME NEW i \in 1..n PROVE ends'[i] \in LineStart(i)..(m + 1)
      OBVIOUS
    <3>1. ends[i] \in LineStart(i)..m /\ LineStart(i) \in 1..(m + 1)
      BY <1>2, <1>3, <1>4
    <3> QED
      BY <1>2, <2>1, <3>1
  <2>5. line' = SubSeq(got', LineStart(n + 1), Len(got'))
    BY <1>2, <1>5, <2>1
  <2>6. \A i \in 1..n : header'[i] = SubSeq(got', LineStart(i), ends'[i]) /\ IsLine(header'[i])
    BY <1>3, <1>6, <2>1
  <2> QED
    BY <1>2, <1>3, <2>1, <2>2, <2>3, <2>4, <2>5, <2>6 DEF LinesInv
<1> QED
  BY <1>7, <1>8

-----------------------------------------------------------------------------
(* The tokens.                                                             *)

LEMMA NothingCut ==
    ASSUME NEW l \in Seq(Symbols)
    PROVE  AreCut(l, <<>>, l)
<1> DEFINE cut == [i \in 0..0 |-> 0]
<1>1. cut[0] = 0 /\ Len(l) \in Nat /\ Len(<<>>) = 0
  OBVIOUS
<1>2. cut \in [0..0 -> 0..(Len(l) + 1)]
  BY <1>1
<1>3. l = SubSeq(l, cut[0] + 1, Len(l))
  BY <1>1, SubSeqFull
<1> HIDE DEF cut
<1>4. Cuts(l, <<>>, l, cut)
  BY <1>1, <1>3 DEF Cuts
<1> QED
  BY <1>1, <1>2, <1>4 DEF AreCut

(* One turn of the loop.                                                   *)
LEMMA CutOnce ==
    ASSUME NEW l \in Seq(Symbols), NEW words \in Seq(Seq(Symbols)), NEW left \in Seq(Symbols),
           AreCut(l, words, left), left # <<>>,
           NEW at \in 1..(Len(left) + 1),
           at <= Len(left) => left[at] = "SP",
           \A i \in 1..Len(left) : left[i] = "SP" => at <= i
    PROVE  AreCut(l, Append(words, SubSeq(left, 1, at - 1)), SubSeq(left, at + 1, Len(left)))
<1> DEFINE word == SubSeq(left, 1, at - 1)
           more == Append(words, word)
<1>1. PICK n \in Nat : n = Len(words)
  OBVIOUS
<1>2. PICK z \in Nat : z = Len(l)
  OBVIOUS
<1>3. PICK cut \in [0..n -> 0..(z + 1)] : Cuts(l, words, left, cut)
  BY <1>1, <1>2 DEF AreCut
<1>4. /\ cut[0] = 0
      /\ \A i \in 1..n : /\ cut[i - 1] < cut[i]
                         /\ words[i] = SubSeq(l, cut[i - 1] + 1, cut[i] - 1)
                         /\ cut[i] <= z => l[cut[i]] = "SP"
      /\ \A x \in 1..z : x <= cut[n] /\ l[x] = "SP" => \E i \in 1..n : cut[i] = x
      /\ left = SubSeq(l, cut[n] + 1, z)
  BY <1>1, <1>2, <1>3 DEF Cuts
<1>5. PICK a \in 0..z : a = cut[n]
  <2>1. n \in 0..n
    OBVIOUS
  <2>2. cut[n] \in 0..(z + 1)
    BY <2>1, <1>3
  <2>3. cut[n] # z + 1
    BY <1>2, <1>4, SubSeqEmpty
  <2> QED
    BY <2>2, <2>3
<1>6. Len(left) = z - a /\ \A k \in 1..Len(left) : left[k] = l[a + k]
  <2>1. left = SubSeq(l, a + 1, Len(l)) /\ Len(l) = z
    BY <1>2, <1>4, <1>5
  <2> QED
    BY <2>1
<1>7. /\ word \in Seq(Symbols)
      /\ Len(more) = n + 1 /\ more[n + 1] = word
      /\ \A i \in 1..n : more[i] = words[i]
  <2>1. word \in Seq(Symbols)
    BY <1>6
  <2> HIDE DEF word
  <2> QED
    BY <1>1, <2>1, AppendProperties
<1>8. word = SubSeq(l, a + 1, a + at - 1)
  <2>1. at - 1 \in 0..(Len(l) - a) /\ a \in 0..Len(l) /\ 1 \in Nat \ {0}
    BY <1>2, <1>6
  <2>2. SubSeq(SubSeq(l, a + 1, Len(l)), 1, at - 1) = SubSeq(l, a + 1, a + (at - 1))
    BY <2>1, PartOfEnd
  <2>3. a + (at - 1) = a + at - 1
    BY <1>6
  <2> QED
    BY <1>2, <1>4, <1>5, <2>2, <2>3
<1>9. SubSeq(left, at + 1, Len(left)) = SubSeq(l, a + at + 1, z)
  <2>1. Len(left) \in 0..(Len(l) - a) /\ a \in 0..Len(l) /\ at + 1 \in Nat \ {0}
    BY <1>2, <1>6
  <2>2. SubSeq(SubSeq(l, a + 1, Len(l)), at + 1, Len(left)) = SubSeq(l, a + (at + 1), a + Len(left))
    BY <2>1, PartOfEnd
  <2>3. a + (at + 1) = a + at + 1 /\ a + Len(left) = z
    BY <1>6
  <2> QED
    BY <1>2, <1>4, <1>5, <2>2, <2>3
<1> DEFINE next == [i \in 0..(n + 1) |-> IF i <= n THEN cut[i] ELSE a + at]
<1>10. /\ next[n + 1] = a + at
       /\ \A i \in 0..n : next[i] = cut[i]
  OBVIOUS
<1>11. next \in [0..(n + 1) -> 0..(z + 1)]
  <2>1. a + at \in 0..(z + 1)
    BY <1>6
  <2>2. \A i \in 0..(n + 1) : (IF i <= n THEN cut[i] ELSE a + at) \in 0..(z + 1)
    BY <1>3, <2>1
  <2> QED
    BY <2>2
<1>12. ASSUME NEW i \in 1..(n + 1)
       PROVE  /\ next[i - 1] < next[i]
              /\ more[i] = SubSeq(l, next[i - 1] + 1, next[i] - 1)
              /\ next[i] <= z => l[next[i]] = "SP"
  <2> HIDE DEF next, more, word
  <2>1. CASE i = n + 1
    <3>1. next[i] = a + at /\ next[i - 1] = a
      BY <1>5, <1>10, <2>1
    <3>2. more[i] = SubSeq(l, next[i - 1] + 1, next[i] - 1)
      BY <1>7, <1>8, <2>1, <3>1
    <3>3. a + at <= z => l[a + at] = "SP"
      <4>1. a + at <= z => at \in 1..Len(left) /\ at <= Len(left)
        BY <1>6
      <4> QED
        BY <1>6, <4>1
    <3> QED
      BY <3>1, <3>2, <3>3
  <2>2. CASE i # n + 1
    <3>1. i \in 1..n /\ i - 1 \in 0..n /\ i \in 0..n
      BY <2>2
    <3>2. next[i] = cut[i] /\ next[i - 1] = cut[i - 1] /\ more[i] = words[i]
      BY <1>7, <1>10, <3>1
    <3> QED
      BY <1>4, <3>1, <3>2
  <2> QED
    BY <2>1, <2>2
<1>13. ASSUME NEW x \in 1..z, x <= a + at, l[x] = "SP"
       PROVE  \E i \in 1..(n + 1) : next[i] = x
  <2> HIDE DEF next
  <2>1. CASE x <= a
    <3>1. PICK i \in 1..n : cut[i] = x
      BY <1>4, <1>5, <1>13, <2>1
    <3>2. i \in 1..(n + 1) /\ i \in 0..n
      OBVIOUS
    <3>3. next[i] = x
      BY <1>10, <3>1, <3>2
    <3> QED
      BY <3>2, <3>3
  <2>2. CASE x > a
    <3>1. x - a \in 1..Len(left) /\ left[x - a] = l[x]
      <4>1. x - a \in 1..Len(left) /\ a + (x - a) = x
        BY <1>6, <2>2
      <4> QED
        BY <1>6, <4>1
    <3>2. at <= x - a
      BY <1>13, <3>1
    <3>3. x = a + at /\ n + 1 \in 1..(n + 1)
      BY <1>13, <3>2
    <3> QED
      BY <1>10, <3>3
  <2> QED
    BY <2>1, <2>2
<1>14. Cuts(l, more, SubSeq(left, at + 1, Len(left)), next)
  <2>1. next[0] = 0
    BY <1>4, <1>10
  <2> HIDE DEF next, more, word
  <2>2. \A i \in 1..Len(more) : /\ next[i - 1] < next[i]
                                /\ more[i] = SubSeq(l, next[i - 1] + 1, next[i] - 1)
                                /\ next[i] <= Len(l) => l[next[i]] = "SP"
    BY <1>2, <1>7, <1>12
  <2>3. \A x \in 1..Len(l) :
            x <= next[Len(more)] /\ l[x] = "SP" => \E i \in 1..Len(more) : next[i] = x
    BY <1>2, <1>7, <1>10, <1>13
  <2>4. SubSeq(left, at + 1, Len(left)) = SubSeq(l, next[Len(more)] + 1, Len(l))
    BY <1>2, <1>7, <1>9, <1>10
  <2> DEFINE tail == SubSeq(left, at + 1, Len(left))
  <2>5. tail = SubSeq(l, next[Len(more)] + 1, Len(l))
    BY <2>4
  <2> HIDE DEF tail
  <2>6. Cuts(l, more, tail, next)
    BY <2>1, <2>2, <2>3, <2>5 DEF Cuts
  <2> QED
    BY <2>6 DEF tail
<1> HIDE DEF next, more, word
<1> QED
  BY <1>2, <1>7, <1>11, <1>14 DEF AreCut, more, word

CutAtBlanks(l, words, n, cut) ==
    /\ cut \in [0..n -> 0..(Len(l) + 1)]
    /\ cut[0] = 0
    /\ cut[n] = Len(l) + 1
    /\ \A i \in 1..n : /\ cut[i - 1] < cut[i]
                       /\ words[i] = SubSeq(l, cut[i - 1] + 1, cut[i] - 1)
    /\ \A i \in 1..(n - 1) : cut[i] \in 1..Len(l) /\ l[cut[i]] = "SP"
    /\ \A x \in 1..Len(l) : l[x] = "SP" => \E i \in 1..(n - 1) : cut[i] = x

(* When the loop has ended: a line that ends in CR LF is cut at all of its *)
(* blanks and nowhere else.                                                *)
LEMMA AllCut ==
    ASSUME NEW l \in Seq(Symbols), IsLine(l), NEW words \in Seq(Seq(Symbols)),
           AreCut(l, words, <<>>)
    PROVE  /\ Len(words) >= 1
           /\ \E cut : CutAtBlanks(l, words, Len(words), cut)
<1>1. PICK n \in Nat : n = Len(words)
  OBVIOUS
<1>2. PICK z \in Nat : z = Len(l)
  OBVIOUS
<1>3. PICK cut \in [0..n -> 0..(z + 1)] : Cuts(l, words, <<>>, cut)
  BY <1>1, <1>2 DEF AreCut
<1>4. /\ cut[0] = 0
      /\ \A i \in 1..n : /\ cut[i - 1] < cut[i]
                         /\ words[i] = SubSeq(l, cut[i - 1] + 1, cut[i] - 1)
                         /\ cut[i] <= z => l[cut[i]] = "SP"
      /\ \A x \in 1..z : x <= cut[n] /\ l[x] = "SP" => \E i \in 1..n : cut[i] = x
      /\ <<>> = SubSeq(l, cut[n] + 1, z)
  BY <1>1, <1>2, <1>3 DEF Cuts
<1>a. \A i \in 1..n : cut[i - 1] < cut[i] /\ (cut[i] <= z => l[cut[i]] = "SP")
  BY <1>4
<1>5. z >= 2 /\ l[z] = "LF"
  BY <1>2 DEF IsLine
<1>6. cut[n] \in 0..(z + 1) /\ cut[n] >= z
  <2>1. PICK a \in 0..(z + 1) : a = cut[n]
    <3>1. n \in 0..n
      OBVIOUS
    <3> QED
      BY <1>3, <3>1
  <2>2. a < z => Len(SubSeq(l, a + 1, z)) = z - a
    BY <1>2
  <2>3. Len(SubSeq(l, a + 1, z)) = 0
    BY <1>4, <2>1
  <2> QED
    BY <2>1, <2>2, <2>3
<1>7. n >= 1
  BY <1>4, <1>5, <1>6
<1>8. cut[n] = z + 1
  <2>1. cut[n] # z
    <3>1. n \in 1..n
      BY <1>7
    <3>2. cut[n] <= z => l[cut[n]] = "SP"
      BY <1>a, <3>1
    <3> QED
      BY <1>5, <3>2
  <2> QED
    BY <1>6, <2>1
<1>9. ASSUME NEW i \in 1..(n - 1) PROVE cut[i] \in 1..z /\ l[cut[i]] = "SP"
  <2>1. i \in 1..n /\ i \in 0..n /\ i + 1 \in 1..n /\ i + 1 \in 0..n /\ i - 1 \in 0..n /\ (i + 1) - 1 = i
    OBVIOUS
  <2>2. cut[i] < cut[i + 1] /\ cut[i - 1] < cut[i] /\ (cut[i] <= z => l[cut[i]] = "SP")
    BY <1>a, <2>1
  <2>3. cut[i] \in 0..(z + 1) /\ cut[i - 1] \in 0..(z + 1) /\ cut[i + 1] \in 0..(z + 1)
    BY <1>3, <2>1
  <2>4. cut[i] \in 1..z
    BY <2>2, <2>3
  <2> QED
    BY <2>2, <2>4
<1>10. ASSUME NEW x \in 1..z, l[x] = "SP" PROVE \E i \in 1..(n - 1) : cut[i] = x
  <2>1. PICK i \in 1..n : cut[i] = x
    BY <1>4, <1>8, <1>10
  <2>2. i # n
    BY <1>8, <2>1
  <2>3. i \in 1..(n - 1)
    BY <2>2
  <2> QED
    BY <2>1, <2>3
<1>11. CutAtBlanks(l, words, n, cut)
  <2>1. \A i \in 1..n : /\ cut[i - 1] < cut[i]
                        /\ words[i] = SubSeq(l, cut[i - 1] + 1, cut[i] - 1)
    BY <1>4
  <2> QED
    BY <1>2, <1>3, <1>4, <1>8, <1>9, <1>10, <2>1 DEF CutAtBlanks
<1> QED
  BY <1>1, <1>7, <1>11


-----------------------------------------------------------------------------
(* The inductive invariant.                                                *)

(* While nothing is parsed there is nothing to be split.                   *)
LEMMA SplitOfByte ==
    ASSUME TypeOK, StateFollows, StateKeepsUp, SplitInv, RecvByte
    PROVE  SplitInv'
<1>1. TypeOK' /\ StateFollows' /\ s' = Crlf(s, Head(stream))
  <2>1. TypeOK' /\ s' = Crlf(s, Head(stream))
    BY RecvByteTypes
  <2> QED
    BY <2>1, StateOfByte
<1>2. /\ pc' = IF s' = "LF2" THEN "parse" ELSE "recv"
      /\ rest' = IF s' = "LF2" /\ header # <<>> THEN Head(header) ELSE <<>>
      /\ tokens' = <<>>
  BY DEF RecvByte
<1>3. CASE s' = "LF2"
  <2>1. header' = header
    BY <1>3, RecvByteTypes
  <2>2. header # <<>>
    BY <1>1, <1>3, <2>1 DEF StateFollows
  <2>3. header[1] \in Seq(Symbols) /\ Head(header) = header[1]
    BY <2>2 DEF TypeOK
  <2>4. AreCut(header'[1], tokens', rest')
    BY <1>2, <1>3, <2>1, <2>2, <2>3, NothingCut
  <2> QED
    BY <1>2, <1>3, <2>4 DEF SplitInv
<1>4. CASE s' # "LF2"
  BY <1>2, <1>4 DEF SplitInv
<1> QED
  BY <1>3, <1>4

LEMMA SplitOfToken ==
    ASSUME TypeOK, StateFollows, SplitInv, SplitToken
    PROVE  SplitInv'
<1> DEFINE blanks == {i \in DOMAIN rest : rest[i] = "SP"}
           at == IF blanks = {} THEN Len(rest) + 1 ELSE Min(blanks)
<1>1. /\ at \in 1..(Len(rest) + 1)
      /\ at <= Len(rest) => rest[at] = "SP"
      /\ \A i \in 1..Len(rest) : rest[i] = "SP" => at <= i
  BY FirstBlank DEF TypeOK
<1>2. /\ pc = "parse" /\ rest # <<>> /\ pc' = pc /\ header' = header
      /\ tokens' = Append(tokens, SubSeq(rest, 1, at - 1))
      /\ rest' = SubSeq(rest, at + 1, Len(rest))
  BY DEF SplitToken, recvVars
<1>3. AreCut(header[1], tokens, rest)
  BY <1>2 DEF SplitInv
<1>4. header[1] \in Seq(Symbols) /\ tokens \in Seq(Seq(Symbols)) /\ rest \in Seq(Symbols)
  <2>1. Len(header) > 0
    BY <1>2 DEF StateFollows
  <2> QED
    BY <2>1 DEF TypeOK
<1> HIDE DEF at
<1>5. AreCut(header[1], Append(tokens, SubSeq(rest, 1, at - 1)), SubSeq(rest, at + 1, Len(rest)))
  BY <1>1, <1>2, <1>3, <1>4, CutOnce
<1> QED
  BY <1>2, <1>5 DEF SplitInv

LEMMA RecvInit == Init => RecvInv
<1> SUFFICES ASSUME Init PROVE RecvInv
  OBVIOUS
<1>1. TypeOK
  BY TypeInit
<1>2. StateFollows /\ StateKeepsUp
  <2>1. ~EndsCR1 /\ ~EndsLF1 /\ ~EndsCR2 /\ ~EndsLF2
    BY NothingYet DEF Init
  <2> QED
    BY <2>1 DEF Init, StateFollows, StateKeepsUp
<1>3. LinesInv
  <2>1. SubSeq(<<>>, 1, 0) = <<>>
    BY SubSeqEmpty
  <2> QED
    BY <2>1 DEF Init, LinesInv, LineStart
<1>4. SplitInv
  BY DEF Init, SplitInv
<1> QED
  BY <1>1, <1>2, <1>3, <1>4 DEF RecvInv

(* A recv that begins knows nothing of the one before.                     *)
LEMMA RecvOfParse ==
    ASSUME RecvInv, Parse
    PROVE  RecvInv'
<1>1. TypeOK'
  BY ParseTypes DEF RecvInv
<1>2. /\ pc' = "recv" /\ s' = "IDLE" /\ line' = <<>> /\ header' = <<>> /\ got' = <<>>
      /\ ends' = <<>> /\ tokens' = <<>> /\ rest' = <<>>
  BY DEF Parse
<1>3. StateFollows' /\ StateKeepsUp'
  <2>1. ~EndsCR1' /\ ~EndsLF1' /\ ~EndsCR2' /\ ~EndsLF2'
    BY <1>2 DEF EndsCR1, EndsLF1, EndsCR2, EndsLF2
  <2> QED
    BY <1>2, <2>1 DEF StateFollows, StateKeepsUp
<1>4. LinesInv'
  <2>1. SubSeq(<<>>, 1, 0) = <<>>
    BY SubSeqEmpty
  <2> QED
    BY <1>2, <2>1 DEF LinesInv, LineStart
<1>5. SplitInv'
  BY <1>2 DEF SplitInv
<1> QED
  BY <1>1, <1>3, <1>4, <1>5 DEF RecvInv

(* What recv does not touch.                                               *)
LEMMA RecvUntouched ==
    ASSUME RecvInv, TypeOK', UNCHANGED recvVars, UNCHANGED splitVars,
           pc' = pc \/ (pc = "recv" /\ pc' = "down")
    PROVE  RecvInv'
<1>1. UNCHANGED <<s, line, header, got, ends, rest, tokens>>
  BY DEF recvVars, splitVars
<1>2. StateKeepsUp' /\ LinesInv'
  BY <1>1 DEF RecvInv, StateKeepsUp, LinesInv, LineStart, EndsCR1, EndsLF1, EndsCR2, EndsLF2
<1>3. StateFollows' /\ SplitInv'
  BY <1>1 DEF RecvInv, StateFollows, SplitInv, EndsCR1, EndsLF1, EndsCR2, EndsLF2
<1> QED
  BY <1>2, <1>3 DEF RecvInv

LEMMA RecvStep == RecvInv /\ [Next]_vars => RecvInv'
<1> SUFFICES ASSUME RecvInv, [Next]_vars PROVE RecvInv'
  OBVIOUS
<1>1. TypeOK'
  BY TypeNext DEF RecvInv
<1>2. CASE RecvByte
  BY <1>2, <1>1, StateOfByte, LinesOfByte, SplitOfByte DEF RecvInv
<1>3. CASE SplitToken
  <2>1. UNCHANGED <<pc, recvVars>>
    BY <1>3 DEF SplitToken
  <2>2. StateFollows' /\ StateKeepsUp' /\ LinesInv'
    <3>1. UNCHANGED <<pc, s, line, header, got, ends>>
      BY <2>1 DEF recvVars
    <3> QED
      BY <3>1 DEF RecvInv, StateFollows, StateKeepsUp, LinesInv, LineStart, EndsCR1, EndsLF1,
                  EndsCR2, EndsLF2
  <2>3. SplitInv'
    BY <1>3, SplitOfToken DEF RecvInv
  <2> QED
    BY <1>1, <2>2, <2>3 DEF RecvInv
<1>4. CASE Parse
  BY <1>4, RecvOfParse
<1>6. CASE Arrive
  <2>1. (UNCHANGED recvVars) /\ (UNCHANGED splitVars) /\ pc' = pc
    BY <1>6 DEF Arrive
  <2> QED
    BY <1>1, <2>1, RecvUntouched
<1>7. CASE RecvDown
  BY <1>1, <1>7, RecvUntouched DEF RecvDown
<1>8. CASE UNCHANGED vars
  <2>1. UNCHANGED recvVars /\ UNCHANGED splitVars /\ pc' = pc
    BY <1>8 DEF vars
  <2> QED
    BY <1>1, <2>1, RecvUntouched
<1> QED
  BY <1>2, <1>3, <1>4, <1>6, <1>7, <1>8 DEF Next, Terminated

LEMMA RecvInvariant == Spec => []RecvInv
  BY RecvInit, RecvStep, PTL DEF Spec

-----------------------------------------------------------------------------
(* What follows from it.                                                   *)

LEMMA EmptyLineEnd ==
    ASSUME NEW b \in Seq(Symbols)
    PROVE  EndsWith(b, EmptyLine) <=>
               /\ Len(b) >= 4
               /\ b[Len(b)] = "LF"
               /\ b[Len(b) - 1] = "CR"
               /\ b[Len(b) - 2] = "LF"
               /\ b[Len(b) - 3] = "CR"
<1> DEFINE P(i) == b[Len(b) - 4 + i] = EmptyLine[i]
<1>1. Len(EmptyLine) = 4 /\ Len(b) \in Nat
  BY DEF EmptyLine
<1>2. (\A i \in 1..4 : P(i)) <=> P(1) /\ P(2) /\ P(3) /\ P(4)
  <2> HIDE DEF P
  <2> QED
    OBVIOUS
<1>3. ASSUME Len(b) >= 4
      PROVE  /\ P(1) <=> b[Len(b) - 3] = "CR"
             /\ P(2) <=> b[Len(b) - 2] = "LF"
             /\ P(3) <=> b[Len(b) - 1] = "CR"
             /\ P(4) <=> b[Len(b)] = "LF"
  <2>1. /\ Len(b) - 4 + 1 = Len(b) - 3 /\ Len(b) - 4 + 2 = Len(b) - 2
        /\ Len(b) - 4 + 3 = Len(b) - 1 /\ Len(b) - 4 + 4 = Len(b)
    BY <1>1
  <2>2. EmptyLine[1] = "CR" /\ EmptyLine[2] = "LF" /\ EmptyLine[3] = "CR" /\ EmptyLine[4] = "LF"
    BY DEF EmptyLine
  <2> QED
    BY <2>1, <2>2
<1>4. EndsWith(b, EmptyLine) <=> 4 <= Len(b) /\ \A i \in 1..4 : P(i)
  BY <1>1 DEF EndsWith
<1> HIDE DEF P
<1> QED
  BY <1>1, <1>2, <1>3, <1>4

LEMMA LineEnd ==
    ASSUME NEW l \in Seq(Symbols)
    PROVE  EndsWith(l, CRLF) <=> IsLine(l)
<1> DEFINE P(i) == l[Len(l) - 2 + i] = CRLF[i]
<1>1. Len(CRLF) = 2 /\ Len(l) \in Nat /\ CRLF[1] = "CR" /\ CRLF[2] = "LF"
  BY DEF CRLF
<1>2. (\A i \in 1..2 : P(i)) <=> P(1) /\ P(2)
  <2> HIDE DEF P
  <2> QED
    OBVIOUS
<1>3. ASSUME Len(l) >= 2
      PROVE  (P(1) <=> l[Len(l) - 1] = "CR") /\ (P(2) <=> l[Len(l)] = "LF")
  <2>1. Len(l) - 2 + 1 = Len(l) - 1 /\ Len(l) - 2 + 2 = Len(l)
    BY <1>1
  <2> QED
    BY <1>1, <2>1
<1>4. EndsWith(l, CRLF) <=> 2 <= Len(l) /\ \A i \in 1..2 : P(i)
  BY <1>1 DEF EndsWith
<1> HIDE DEF P
<1> QED
  BY <1>1, <1>2, <1>3, <1>4 DEF IsLine

(* recv returns a request only at an empty line with a line before it.     *)
THEOREM StopsOnlyAtEmptyLine == Spec => []StopsAtEmptyLine
<1>1. RecvInv => StopsAtEmptyLine
  <2> SUFFICES ASSUME RecvInv, pc = "parse"
               PROVE  EndsWith(got, EmptyLine) /\ header # <<>>
    BY DEF StopsAtEmptyLine
  <2>1. EndsLF2 /\ Len(header) > 0
    BY DEF RecvInv, StateFollows
  <2>2. header # <<>>
    BY <2>1
  <2>3. got \in Seq(Symbols)
    BY DEF RecvInv, TypeOK
  <2> QED
    BY <2>1, <2>2, <2>3, EmptyLineEnd DEF EndsLF2
<1> QED
  BY <1>1, RecvInvariant, PTL

(* recv reads on beyond no empty line, unless a CR was doubled before it.  *)
THEOREM StopsAtEveryEmptyLine == Spec => []EmptyLineStops
<1>1. RecvInv => EmptyLineStops
  <2> SUFFICES ASSUME RecvInv, NoDoubledCR(got), EndsWith(got, EmptyLine)
               PROVE  pc # "recv"
    BY DEF EmptyLineStops
  <2>1. got \in Seq(Symbols)
    BY DEF RecvInv, TypeOK
  <2>2. EndsLF2
    BY <2>1, EmptyLineEnd DEF EndsLF2
  <2> QED
    BY <2>2 DEF RecvInv, StateKeepsUp, StateFollows
<1> QED
  BY <1>1, RecvInvariant, PTL

(* Cutting the head into lines loses and doubles no byte.                  *)
THEOREM LinesLoseNothing == Spec => []LinesAreWhatCame
<1>1. RecvInv => LinesAreWhatCame
  <2> SUFFICES ASSUME RecvInv PROVE LinesAreWhatCame
    OBVIOUS
  <2>1. /\ Len(ends) = Len(header)
        /\ line = SubSeq(got, LineStart(Len(header) + 1), Len(got))
    BY DEF RecvInv, LinesInv
  <2>2. ASSUME NEW i \in DOMAIN header
        PROVE  header[i] = SubSeq(got, LineStart(i), ends[i]) /\ EndsWith(header[i], CRLF)
    <3>1. i \in 1..Len(header) /\ header[i] \in Seq(Symbols)
      BY DEF RecvInv, TypeOK
    <3>2. header[i] = SubSeq(got, LineStart(i), ends[i]) /\ IsLine(header[i])
      BY <3>1 DEF RecvInv, LinesInv
    <3> QED
      BY <3>1, <3>2, LineEnd
  <2> QED
    BY <2>1, <2>2 DEF LinesAreWhatCame
<1> QED
  BY <1>1, RecvInvariant, PTL

-----------------------------------------------------------------------------
(* The request line.                                                       *)

LEMMA MethodKnown ==
    ASSUME NEW words
    PROVE  ParseRequest(words).method # "UNKNOWN" <=>
               Len(words) = 3 /\ \E m \in Methods : words[1] = <<m>>
<1>1. ASSUME Len(words) = 3
      PROVE  ParseRequest(words).method = Method(words[1])
  BY <1>1 DEF ParseRequest
<1>2. ASSUME NEW m \in Methods, words[1] = <<m>> PROVE Method(words[1]) = m /\ m # "UNKNOWN"
  BY <1>2 DEF Method, Methods
<1>3. Len(words) # 3 => ParseRequest(words).method = "UNKNOWN"
  BY DEF ParseRequest, Unknown
<1>4. (~\E m \in Methods : words[1] = <<m>>) => Method(words[1]) = "UNKNOWN"
  BY DEF Method
<1> QED
  BY <1>1, <1>2, <1>3, <1>4

LEMMA OneOf ==
    ASSUME NEW l \in Seq(Symbols), NEW i \in 1..Len(l)
    PROVE  SubSeq(l, i, i) = <<l[i]>>
<1>1. /\ SubSeq(l, i, i) \in Seq(Symbols) /\ Len(SubSeq(l, i, i)) = 1
      /\ SubSeq(l, i, i)[1] = l[i]
  OBVIOUS
<1>2. /\ <<l[i]>> \in Seq(Symbols) /\ Len(<<l[i]>>) = 1 /\ <<l[i]>>[1] = l[i]
  OBVIOUS
<1>3. \A k \in 1..1 : SubSeq(l, i, i)[k] = <<l[i]>>[k]
  BY <1>1, <1>2
<1> QED
  BY <1>1, <1>2, <1>3, SeqEqual

(* A line with a known method has a blank behind it and one more.          *)
LEMMA KnownHasTwoBlanks ==
    ASSUME NEW l \in Seq(Symbols), IsLine(l), NEW words \in Seq(Seq(Symbols)),
           AreCut(l, words, <<>>), ParseRequest(words).method # "UNKNOWN"
    PROVE  /\ l[1] \in Methods
           /\ \E i \in 3..Len(l) : /\ {x \in DOMAIN l : l[x] = "SP"} = {2, i}
                                   /\ words[2] = SubSeq(l, 3, i - 1)
                                   /\ words[3] = SubSeq(l, i + 1, Len(l))
<1>1. Len(words) = 3 /\ \E m \in Methods : words[1] = <<m>>
  BY MethodKnown
<1>2. PICK m \in Methods : words[1] = <<m>>
  BY <1>1
<1>3. PICK cut : CutAtBlanks(l, words, 3, cut)
  BY <1>1, AllCut
<1>c. /\ cut \in [0..3 -> 0..(Len(l) + 1)]
      /\ cut[0] = 0
      /\ cut[3] = Len(l) + 1
      /\ \A i \in 1..3 : /\ cut[i - 1] < cut[i]
                         /\ words[i] = SubSeq(l, cut[i - 1] + 1, cut[i] - 1)
      /\ \A i \in 1..2 : cut[i] \in 1..Len(l) /\ l[cut[i]] = "SP"
      /\ \A x \in 1..Len(l) : l[x] = "SP" => \E i \in 1..2 : cut[i] = x
  <2>1. 1..(3 - 1) = 1..2
    OBVIOUS
  <2>2. /\ \A i \in 1..(3 - 1) : cut[i] \in 1..Len(l) /\ l[cut[i]] = "SP"
        /\ \A x \in 1..Len(l) : l[x] = "SP" => \E i \in 1..(3 - 1) : cut[i] = x
    BY <1>3 DEF CutAtBlanks
  <2>3. /\ \A i \in 1..2 : cut[i] \in 1..Len(l) /\ l[cut[i]] = "SP"
        /\ \A x \in 1..Len(l) : l[x] = "SP" => \E i \in 1..2 : cut[i] = x
    BY <2>1, <2>2, Zenon
  <2> QED
    BY <1>3, <2>3 DEF CutAtBlanks
<1>4. PICK z \in Nat : z = Len(l)
  OBVIOUS
<1>5. PICK a \in 1..z : a = cut[1]
  BY <1>c, <1>4
<1>6. PICK b \in 1..z : b = cut[2]
  BY <1>c, <1>4
<1>7. /\ a < b /\ words[1] = SubSeq(l, 1, a - 1)
      /\ words[2] = SubSeq(l, a + 1, b - 1) /\ words[3] = SubSeq(l, b + 1, z)
  <2>1. \A i \in 1..3 : /\ cut[i - 1] < cut[i]
                        /\ words[i] = SubSeq(l, cut[i - 1] + 1, cut[i] - 1)
    BY <1>c
  <2>2. words[1] = SubSeq(l, cut[0] + 1, cut[1] - 1)
    BY <2>1
  <2>3. cut[1] < cut[2] /\ words[2] = SubSeq(l, cut[1] + 1, cut[2] - 1)
    BY <2>1
  <2>4. words[3] = SubSeq(l, cut[2] + 1, cut[3] - 1)
    BY <2>1
  <2> QED
    BY <1>c, <1>4, <1>5, <1>6, <2>2, <2>3, <2>4
<1>8. a = 2
  <2>1. Len(SubSeq(l, 1, a - 1)) = a - 1
    BY <1>4
  <2>2. Len(<<m>>) = 1
    OBVIOUS
  <2>3. <<m>> = SubSeq(l, 1, a - 1)
    BY <1>2, <1>7
  <2>4. a - 1 = 1
    BY <2>1, <2>2, <2>3
  <2> QED
    BY <2>4
<1>9. m = l[1]
  <2>1. 1 \in 1..Len(l) /\ 2 - 1 = 1
    BY <1>4
  <2>2. <<m>> = <<l[1]>>
    BY <1>2, <1>7, <1>8, <2>1, OneOf
  <2> QED
    BY <2>2
<1>10. {x \in DOMAIN l : l[x] = "SP"} = {2, b}
  <2>1. DOMAIN l = 1..z
    BY <1>4
  <2>2. l[2] = "SP" /\ l[b] = "SP" /\ 2 \in 1..z
    <3>1. \A i \in 1..2 : l[cut[i]] = "SP"
      BY <1>c
    <3>2. l[cut[1]] = "SP" /\ l[cut[2]] = "SP"
      BY <3>1
    <3> QED
      BY <1>5, <1>6, <1>8, <3>2
  <2>3. ASSUME NEW x \in 1..z, l[x] = "SP" PROVE x \in {2, b}
    <3>1. PICK i \in 1..2 : cut[i] = x
      BY <1>c, <1>4, <2>3
    <3>2. i = 1 \/ i = 2
      OBVIOUS
    <3> QED
      BY <1>5, <1>6, <1>8, <3>1, <3>2
  <2> QED
    BY <2>1, <2>2, <2>3
<1>11. b \in 3..Len(l)
  BY <1>4, <1>7, <1>8
<1>12. words[2] = SubSeq(l, 3, b - 1) /\ words[3] = SubSeq(l, b + 1, Len(l))
  BY <1>4, <1>7, <1>8
<1> QED
  BY <1>9, <1>10, <1>11, <1>12

(* ... and a line with two blanks, the first behind one symbol, has three  *)
(* words.                                                                  *)
LEMMA TwoBlanksMakeThree ==
    ASSUME NEW l \in Seq(Symbols), IsLine(l), NEW words \in Seq(Seq(Symbols)),
           AreCut(l, words, <<>>),
           NEW b \in 3..Len(l), \A x \in 1..Len(l) : l[x] = "SP" <=> x \in {2, b}
    PROVE  /\ Len(words) = 3
           /\ words[1] = <<l[1]>>
           /\ words[2] = SubSeq(l, 3, b - 1)
           /\ words[3] = SubSeq(l, b + 1, Len(l))
<1>1. PICK n \in Nat : n = Len(words)
  OBVIOUS
<1>2. PICK cut : CutAtBlanks(l, words, n, cut)
  BY <1>1, AllCut
<1>c. /\ cut \in [0..n -> 0..(Len(l) + 1)] /\ cut[0] = 0 /\ cut[n] = Len(l) + 1
      /\ \A i \in 1..n : /\ cut[i - 1] < cut[i]
                         /\ words[i] = SubSeq(l, cut[i - 1] + 1, cut[i] - 1)
      /\ \A i \in 1..(n - 1) : cut[i] \in 1..Len(l) /\ l[cut[i]] = "SP"
      /\ \A x \in 1..Len(l) : l[x] = "SP" => \E i \in 1..(n - 1) : cut[i] = x
  BY <1>2 DEF CutAtBlanks
<1>3. \A i \in 1..(n - 1) : cut[i] \in {2, b}
  BY <1>c
<1>4. \A i \in 1..n : cut[i - 1] < cut[i]
  BY <1>c
<1>d. \A x \in {2, b} : \E i \in 1..(n - 1) : cut[i] = x
  <2>1. 2 \in 1..Len(l) /\ b \in 1..Len(l)
    OBVIOUS
  <2>2. l[2] = "SP" /\ l[b] = "SP"
    BY <2>1
  <2> QED
    BY <1>c, <2>1, <2>2
<1>5. PICK i \in 1..(n - 1) : cut[i] = 2
  BY <1>d
<1>6. PICK j \in 1..(n - 1) : cut[j] = b
  BY <1>d
<1>7. n >= 3
  <2>1. i # j
    BY <1>5, <1>6
  <2> QED
    BY <2>1
<1>8. cut[1] = 2 /\ cut[2] = b
  <2>1. cut[1] \in {2, b} /\ cut[2] \in {2, b}
    BY <1>3, <1>7
  <2>2. cut[1] < cut[2]
    <3>1. 2 \in 1..n /\ 2 - 1 = 1
      BY <1>7
    <3> QED
      BY <1>4, <3>1
  <2> QED
    BY <2>1, <2>2
<1>9. n = 3
  <2> SUFFICES ASSUME n >= 4 PROVE FALSE
    BY <1>7
  <2>1. cut[3] \in {2, b}
    BY <1>3
  <2>2. cut[2] < cut[3]
    <3>1. 3 \in 1..n /\ 3 - 1 = 2
      OBVIOUS
    <3> QED
      BY <1>4, <3>1
  <2> QED
    BY <1>8, <2>1, <2>2
<1>10. /\ words[1] = SubSeq(l, cut[0] + 1, cut[1] - 1)
       /\ words[2] = SubSeq(l, cut[1] + 1, cut[2] - 1)
       /\ words[3] = SubSeq(l, cut[2] + 1, cut[3] - 1)
  <2>1. \A k \in 1..3 : words[k] = SubSeq(l, cut[k - 1] + 1, cut[k] - 1)
    BY <1>c, <1>9
  <2>2. 1 - 1 = 0 /\ 2 - 1 = 1 /\ 3 - 1 = 2
    OBVIOUS
  <2>3. words[1] = SubSeq(l, cut[0] + 1, cut[1] - 1)
    BY <2>1, <2>2
  <2>4. words[2] = SubSeq(l, cut[1] + 1, cut[2] - 1)
    BY <2>1, <2>2
  <2>5. words[3] = SubSeq(l, cut[2] + 1, cut[3] - 1)
    BY <2>1, <2>2
  <2> QED
    BY <2>3, <2>4, <2>5
<1>11. /\ cut[0] + 1 = 1 /\ cut[1] - 1 = 1 /\ cut[1] + 1 = 3
       /\ cut[2] - 1 = b - 1 /\ cut[2] + 1 = b + 1 /\ cut[3] - 1 = Len(l)
  <2>1. cut[0] = 0 /\ cut[3] = Len(l) + 1 /\ Len(l) \in Nat
    BY <1>c, <1>9
  <2> QED
    BY <1>8, <2>1
<1>12. 1 \in 1..Len(l)
  OBVIOUS
<1> QED
  BY <1>1, <1>9, <1>10, <1>11, <1>12, OneOf

(* What recv knows when a request is parsed.                               *)
LEMMA AtParse ==
    ASSUME RecvInv, pc = "parse", rest = <<>>
    PROVE  /\ header[1] \in Seq(Symbols) /\ IsLine(header[1])
           /\ header[1] = SubSeq(got, 1, ends[1]) /\ ends[1] \in 1..Len(got)
           /\ tokens \in Seq(Seq(Symbols)) /\ AreCut(header[1], tokens, <<>>)
<1>1. Len(header) \in Nat /\ Len(header) > 0 /\ 1 \in 1..Len(header)
  BY DEF RecvInv, TypeOK, StateFollows
<1>2. header[1] \in Seq(Symbols) /\ tokens \in Seq(Seq(Symbols))
  BY <1>1 DEF RecvInv, TypeOK
<1>3. /\ IsLine(header[1]) /\ header[1] = SubSeq(got, LineStart(1), ends[1])
      /\ ends[1] \in LineStart(1)..Len(got)
  BY <1>1 DEF RecvInv, LinesInv
<1>4. LineStart(1) = 1
  BY DEF LineStart
<1>5. AreCut(header[1], tokens, <<>>)
  BY DEF RecvInv, SplitInv
<1> QED
  BY <1>2, <1>3, <1>4, <1>5

(* A request line is understood if and only if it begins with a known      *)
(* method and has two blanks, whatever the words between and behind them   *)
(* are, and these are its URI and its version.                             *)
THEOREM RequestLineUnderstood == Spec => []RequestLineRead
<1>1. RecvInv => RequestLineRead
  <2> SUFFICES ASSUME RecvInv, pc = "parse", rest = <<>> PROVE RequestLineRead
    BY DEF RequestLineRead
  <2> DEFINE l == header[1]
             blanks == {x \in DOMAIN l : l[x] = "SP"}
             r == ParseRequest(tokens)
  <2>1. /\ l \in Seq(Symbols) /\ IsLine(l)
        /\ tokens \in Seq(Seq(Symbols)) /\ AreCut(l, tokens, <<>>)
    BY AtParse
  <2>2. ASSUME r.method # "UNKNOWN"
        PROVE  /\ l[1] \in Methods
               /\ \E i \in 3..Len(l) : /\ blanks = {2, i}
                                       /\ tokens[2] = SubSeq(l, 3, i - 1)
                                       /\ tokens[3] = SubSeq(l, i + 1, Len(l))
    <3> HIDE DEF l
    <3> QED
      BY <2>1, <2>2, KnownHasTwoBlanks
  <2>3. ASSUME l[1] \in Methods, NEW i \in DOMAIN l, i > 2, blanks = {2, i}
        PROVE  r.method # "UNKNOWN"
    <3> HIDE DEF l
    <3>1. i \in 3..Len(l) /\ DOMAIN l = 1..Len(l)
      BY <2>1, <2>3
    <3>2. \A x \in 1..Len(l) : l[x] = "SP" <=> x \in {2, i}
      BY <2>3, <3>1
    <3>3. Len(tokens) = 3 /\ tokens[1] = <<l[1]>>
      BY <2>1, <3>1, <3>2, TwoBlanksMakeThree
    <3> QED
      BY <2>3, <3>3, MethodKnown
  <2>4. r.method # "UNKNOWN" => /\ r.uri = Uri(tokens[2])
                                /\ r.version = Version(tokens[3])
    BY MethodKnown DEF ParseRequest
  <2>5. ASSUME NEW i \in DOMAIN l, r.method # "UNKNOWN", i > 2, l[i] = "SP"
        PROVE  /\ r.uri = Uri(SubSeq(l, 3, i - 1))
               /\ r.version = Version(SubSeq(l, i + 1, Len(l)))
    <3>1. PICK j \in 3..Len(l) : /\ blanks = {2, j}
                                 /\ tokens[2] = SubSeq(l, 3, j - 1)
                                 /\ tokens[3] = SubSeq(l, j + 1, Len(l))
      BY <2>2, <2>5
    <3>2. i \in blanks
      BY <2>5
    <3>3. i = j
      BY <2>5, <3>1, <3>2
    <3> QED
      BY <2>4, <2>5, <3>1, <3>3
  <2>6. r.method # "UNKNOWN" <=>
            l[1] \in Methods /\ \E i \in DOMAIN l : i > 2 /\ blanks = {2, i}
    <3>1. ASSUME r.method # "UNKNOWN"
          PROVE  \E i \in DOMAIN l : i > 2 /\ blanks = {2, i}
      <4>1. PICK i \in 3..Len(l) : blanks = {2, i}
        BY <2>2, <3>1
      <4>2. i \in DOMAIN l /\ i > 2
        BY <2>1
      <4> QED
        BY <4>1, <4>2
    <3> QED
      BY <2>2, <2>3, <3>1
  <2> QED
    BY <2>5, <2>6 DEF RequestLineRead
<1> QED
  BY <1>1, RecvInvariant, PTL

-----------------------------------------------------------------------------
(* The requests and the messages.                                          *)

(* A part of a well-formed head has no doubled CR, ends with an empty line *)
(* only where the head ends, and has its first end of a line at the        *)
(* seventh byte.                                                           *)
LEMMA PartOfHead ==
    ASSUME NEW m \in Messages, WellFormed(m), NEW b \in Seq(Symbols),
           Len(b) <= Len(m.head), \A j \in 1..Len(b) : b[j] = m.head[j]
    PROVE  /\ NoDoubledCR(b)
           /\ Len(b) >= 1 => (EndsWith(b, EmptyLine) <=> Len(b) = Len(m.head))
<1> DEFINE h == m.head
<1>1. h \in Seq(Symbols)
  BY DEF Messages
<1>2. NoDoubledCR(b)
  <2>1. \A i \in 2..Len(h) : ~(h[i - 1] = "CR" /\ h[i] = "CR")
    BY DEF WellFormed, NoDoubledCR
  <2> SUFFICES ASSUME NEW i \in 2..Len(b), b[i - 1] = "CR", b[i] = "CR" PROVE FALSE
    BY DEF NoDoubledCR
  <2>2. i \in 2..Len(h) /\ i \in 1..Len(b) /\ i - 1 \in 1..Len(b)
    BY <1>1
  <2> QED
    BY <2>1, <2>2
<1>3. ASSUME Len(b) >= 1
      PROVE  EndsWith(b, EmptyLine) <=> Len(b) = Len(h)
  <2>1. Len(b) \in 1..Len(h)
    BY <1>1, <1>3
  <2>2. EndsWith(SubSeq(h, 1, Len(b)), EmptyLine) <=> Len(b) = Len(h)
    BY <2>1 DEF WellFormed
  <2>3. /\ SubSeq(h, 1, Len(b)) \in Seq(Symbols) /\ Len(SubSeq(h, 1, Len(b))) = Len(b)
        /\ \A j \in 1..Len(b) : SubSeq(h, 1, Len(b))[j] = h[j]
    BY <1>1, <2>1
  <2>4. SubSeq(h, 1, Len(b)) = b
    BY <2>3, SeqEqual
  <2> QED
    BY <2>2, <2>4
<1> QED
  BY <1>2, <1>3

(* The first line of a head.                                               *)
LEMMA FirstLineAt ==
    ASSUME NEW m \in Messages, WellFormed(m), NEW n \in 1..7, n <= Len(m.head)
    PROVE  /\ n < 7 => ~(n >= 2 /\ m.head[n] = "LF" /\ m.head[n - 1] = "CR")
           /\ m.head[6] = "CR" /\ m.head[7] = "LF" /\ m.head[4] # "CR"
           /\ \A x \in 1..7 : m.head[x] = "SP" <=> x \in {2, 4}
<1>1. \A i \in 1..6 : m.head[i] = "SP" <=> i \in {2, 4}
  BY DEF WellFormed
<1>2. \A i \in 1..6 : m.head[i] = "CR" <=> i = 6
  BY DEF WellFormed
<1>3. m.head[7] = "LF"
  BY DEF WellFormed
<1>4. ASSUME n < 7, n >= 2 PROVE m.head[n - 1] # "CR"
  <2>1. n - 1 \in 1..6 /\ n - 1 # 6
    BY <1>4
  <2> QED
    BY <1>2, <2>1
<1>5. ASSUME NEW x \in 1..7 PROVE m.head[x] = "SP" <=> x \in {2, 4}
  <2>1. x = 7 \/ x \in 1..6
    OBVIOUS
  <2> QED
    BY <1>1, <1>3, <2>1
<1> QED
  BY <1>2, <1>3, <1>4, <1>5

(* Within a head, one byte on.                                             *)
LEMMA WithinByByte ==
    ASSUME NEW m \in Messages, WellFormed(m), RecvInv, RecvInv', IsWithin(m), RecvByte
    PROVE  IsWithin(m)'
<1> DEFINE h == m.head
           c == Head(stream)
<1>1. PICK n \in Nat : n = Len(got)
  BY DEF RecvInv, TypeOK
<1>2. PICK k \in Nat : k = Len(h)
  BY DEF Messages
<1>3. h \in Seq(Symbols) /\ m.body \in Seq(Symbols)
  BY DEF Messages
<1>4. /\ got \in Seq(Symbols) /\ got' \in Seq(Symbols)
      /\ stream \in Seq(Symbols) /\ stream # <<>> /\ stream' = Tail(stream)
      /\ pc = "recv" /\ pc' = IF s' = "LF2" THEN "parse" ELSE "recv"
  BY DEF RecvInv, TypeOK, RecvByte
<1>5. /\ c \in Symbols /\ got' = Append(got, c)
      /\ IF s' = "LF1"
           THEN /\ header' = Append(header, Append(line, c))
                /\ ends' = Append(ends, n + 1)
           ELSE UNCHANGED <<header, ends>>
  BY <1>1, RecvByteTypes DEF RecvInv
<1>6. /\ n <= k
      /\ n = k <=> pc = "parse"
      /\ n + Len(stream) = k + Len(m.body)
      /\ \A j \in 1..n : got[j] = h[j]
      /\ \A j \in 1..Len(stream) : n + j <= k => stream[j] = h[n + j]
      /\ IF n < 7 THEN header = <<>> ELSE header # <<>> /\ ends[1] = 7
  BY <1>1, <1>2 DEF IsWithin
<1>7. n < k
  BY <1>4, <1>6
<1>8. /\ c = stream[1] /\ Len(stream) \in Nat \ {0} /\ Len(stream') = Len(stream) - 1
      /\ \A j \in 1..Len(stream') : stream'[j] = stream[j + 1]
  BY <1>4
<1>9. c = h[n + 1]
  <2>1. 1 \in 1..Len(stream) /\ n + 1 <= k
    BY <1>7, <1>8
  <2> QED
    BY <1>6, <1>8, <2>1
<1>10. /\ Len(got') = n + 1 /\ got'[n + 1] = c
       /\ \A j \in 1..n : got'[j] = got[j]
  BY <1>1, <1>4, <1>5
<1>11. \A j \in 1..(n + 1) : got'[j] = h[j]
  <2> SUFFICES ASSUME NEW j \in 1..(n + 1) PROVE got'[j] = h[j]
    OBVIOUS
  <2>1. CASE j = n + 1
    BY <1>9, <1>10, <2>1
  <2>2. CASE j # n + 1
    <3>1. j \in 1..n
      BY <2>2
    <3> QED
      BY <1>6, <1>10, <3>1
  <2> QED
    BY <2>1, <2>2
<1>12. \A j \in 1..Len(stream') : n + 1 + j <= k => stream'[j] = h[n + 1 + j]
  <2> SUFFICES ASSUME NEW j \in 1..Len(stream'), n + 1 + j <= k
               PROVE  stream'[j] = h[n + 1 + j]
    OBVIOUS
  <2>1. j + 1 \in 1..Len(stream) /\ n + (j + 1) = n + 1 + j
    BY <1>8
  <2> QED
    BY <1>6, <1>8, <2>1
<1>13. n + 1 + Len(stream') = k + Len(m.body)
  <2>1. Len(m.body) \in Nat
    BY <1>3
  <2>2. n + Len(stream) = k + Len(m.body)
    BY <1>6
  <2>3. Len(stream') = Len(stream) - 1 /\ Len(stream) \in Nat
    BY <1>8
  <2> QED
    BY <2>1, <2>2, <2>3
<1>14. /\ NoDoubledCR(got')
       /\ EndsWith(got', EmptyLine) <=> n + 1 = k
  <2>1. Len(got') <= Len(h) /\ \A j \in 1..Len(got') : got'[j] = h[j]
    BY <1>2, <1>7, <1>10, <1>11
  <2>2. Len(got') >= 1
    BY <1>10
  <2> QED
    BY <1>2, <1>4, <1>10, <2>1, <2>2, PartOfHead
<1>15. EndsLF2' <=> n + 1 = k
  <2>1. EndsWith(got', EmptyLine) <=>
            /\ Len(got') >= 4
            /\ got'[Len(got')] = "LF"
            /\ got'[Len(got') - 1] = "CR"
            /\ got'[Len(got') - 2] = "LF"
            /\ got'[Len(got') - 3] = "CR"
    BY <1>4, EmptyLineEnd
  <2> QED
    BY <1>14, <2>1 DEF EndsLF2
<1>16. /\ EndsLF1' => s' \in {"LF1", "LF2"}
       /\ EndsLF2' <=> s' = "LF2"
       /\ s' = "LF1" => EndsLF1'
  BY <1>14 DEF RecvInv, StateKeepsUp, StateFollows
<1>17. n + 1 = k <=> pc' = "parse"
  BY <1>4, <1>15, <1>16
<1>18. IF n + 1 < 7 THEN header' = <<>> ELSE header' # <<>> /\ ends'[1] = 7
  <2>0. /\ header \in Seq(Seq(Symbols)) /\ ends \in Seq(Nat) /\ Len(ends) = Len(header)
        /\ Append(line, c) \in Seq(Symbols)
    BY <1>5 DEF RecvInv, TypeOK, LinesInv
  <2>1. EndsLF1' <=> n + 1 >= 2 /\ h[n + 1] = "LF" /\ h[n] = "CR"
    <3>1. n + 1 >= 2 => got'[(n + 1) - 1] = h[n] /\ got'[n + 1] = h[n + 1]
      <4>1. n + 1 >= 2 => n \in 1..(n + 1) /\ n + 1 \in 1..(n + 1) /\ (n + 1) - 1 = n
        OBVIOUS
      <4> QED
        BY <1>11, <4>1
    <3> QED
      BY <1>10, <3>1 DEF EndsLF1
  <2>2. CASE n + 1 < 7
    <3>1. ~EndsLF1'
      <4>1. n + 1 \in 1..7 /\ n + 1 <= Len(h) /\ (n + 1) - 1 = n
        BY <1>2, <1>7, <2>2
      <4> QED
        BY <2>1, <2>2, <4>1, FirstLineAt
    <3>2. header' = header
      BY <1>5, <1>16, <3>1
    <3> QED
      BY <1>6, <2>2, <3>2
  <2>3. CASE n + 1 = 7
    <3>1. h[6] = "CR" /\ h[7] = "LF" /\ h[4] # "CR"
      <4>1. 7 \in 1..7 /\ 7 <= Len(h)
        BY <1>2, <1>7, <2>3
      <4> QED
        BY <4>1, FirstLineAt
    <3>2. n = 6
      BY <2>3
    <3>3. EndsLF1'
      BY <2>1, <3>1, <3>2
    <3>4. ~EndsLF2'
      <4>1. Len(got') - 3 = 4 /\ got'[4] = h[4]
        BY <1>10, <1>11, <3>2
      <4> QED
        BY <3>1, <4>1 DEF EndsLF2
    <3>5. s' = "LF1" /\ header = <<>>
      BY <1>6, <1>16, <3>2, <3>3, <3>4
    <3>6. header' = Append(header, Append(line, c)) /\ ends' = Append(ends, n + 1)
      BY <1>5, <3>5
    <3>7. ends = <<>>
      BY <2>0, <3>5
    <3>8. ends'[1] = 7
      BY <3>2, <3>6, <3>7
    <3> HIDE DEF c
    <3>9. Len(header') = 1
      BY <2>0, <3>5, <3>6, AppendProperties
    <3> QED
      BY <2>3, <3>8, <3>9
  <2>4. CASE n + 1 > 7
    <3>1. header # <<>> /\ ends[1] = 7
      BY <1>6, <2>4
    <3>2. Len(ends) >= 1 /\ Len(header) >= 1
      BY <2>0, <3>1
    <3>3. CASE s' = "LF1"
      <4>1. header' = Append(header, Append(line, c)) /\ ends' = Append(ends, n + 1)
        BY <1>5, <3>3
      <4>2. ends'[1] = 7
        BY <2>0, <3>1, <3>2, <4>1
      <4> HIDE DEF c
      <4>3. Len(header') = Len(header) + 1
        BY <2>0, <4>1, AppendProperties
      <4>4. header' # <<>>
        BY <2>0, <4>3
      <4> QED
        BY <2>4, <4>2, <4>4
    <3>4. CASE s' # "LF1"
      BY <1>5, <2>4, <3>1, <3>4
    <3> QED
      BY <3>3, <3>4
  <2> QED
    BY <2>2, <2>3, <2>4
<1>19. n + 1 <= k
  BY <1>7
<1> HIDE DEF h, c
<1>20. /\ Len(got') <= Len(h)
       /\ Len(got') = Len(h) <=> pc' = "parse"
       /\ Len(got') + Len(stream') = Len(h) + Len(m.body)
       /\ \A j \in 1..Len(got') : got'[j] = h[j]
       /\ \A j \in 1..Len(stream') :
              Len(got') + j <= Len(h) => stream'[j] = h[Len(got') + j]
       /\ IF Len(got') < 7 THEN header' = <<>> ELSE header' # <<>> /\ ends'[1] = 7
  BY <1>2, <1>10, <1>11, <1>12, <1>13, <1>17, <1>18, <1>19
<1> QED
  BY <1>20 DEF IsWithin, h

(* The sixth and seventh byte end the request line: what is parsed is what *)
(* the message means.                                                      *)
LEMMA ParsedAsMeant ==
    ASSUME NEW m \in Messages, WellFormed(m), RecvInv, IsWithin(m), pc = "parse", rest = <<>>
    PROVE  ParseRequest(tokens) = Meaning(m)
<1> DEFINE h == m.head
           l == header[1]
<1>1. h \in Seq(Symbols) /\ Len(h) >= 9
  BY DEF Messages, WellFormed
<1>2. /\ l \in Seq(Symbols) /\ IsLine(l)
      /\ l = SubSeq(got, 1, ends[1])
      /\ tokens \in Seq(Seq(Symbols)) /\ AreCut(l, tokens, <<>>)
  BY AtParse
<1>3. /\ Len(got) = Len(h) /\ \A j \in 1..Len(got) : got[j] = h[j]
      /\ got \in Seq(Symbols)
  BY DEF IsWithin, RecvInv, TypeOK
<1>4. ends[1] = 7
  <2>1. ~(Len(got) < 7)
    BY <1>1, <1>3
  <2> QED
    BY <2>1 DEF IsWithin
<1>5. Len(l) = 7 /\ \A j \in 1..7 : l[j] = h[j]
  <2>1. Len(SubSeq(got, 1, 7)) = 7 /\ \A j \in 1..7 : SubSeq(got, 1, 7)[j] = got[j]
    BY <1>1, <1>3
  <2>2. \A j \in 1..7 : got[j] = h[j]
    BY <1>1, <1>3
  <2> QED
    BY <1>2, <1>4, <2>1, <2>2
<1>6. \A x \in 1..7 : l[x] = "SP" <=> x \in {2, 4}
  <2>1. 7 \in 1..7 /\ 7 <= Len(h)
    BY <1>1
  <2> QED
    BY <1>5, <2>1, FirstLineAt
<1> HIDE DEF l
<1>7. Len(tokens) = 3 /\ tokens[1] = <<l[1]>> /\ tokens[2] = SubSeq(l, 3, 3) /\ tokens[3] = SubSeq(l, 5, 7)
  <2>1. 4 \in 3..Len(l) /\ 4 - 1 = 3 /\ 4 + 1 = 5
    BY <1>5
  <2>2. \A x \in 1..Len(l) : l[x] = "SP" <=> x \in {2, 4}
    BY <1>5, <1>6
  <2>3. /\ Len(tokens) = 3 /\ tokens[1] = <<l[1]>>
        /\ tokens[2] = SubSeq(l, 3, 4 - 1) /\ tokens[3] = SubSeq(l, 4 + 1, Len(l))
    BY <1>2, <2>1, <2>2, TwoBlanksMakeThree
  <2> QED
    BY <1>5, <2>1, <2>3
<1>8. Method(tokens[1]) = IF h[1] \in Methods THEN h[1] ELSE "UNKNOWN"
  <2>1. tokens[1] = <<h[1]>>
    BY <1>5, <1>7
  <2> HIDE DEF h
  <2>2. (\E x \in Methods : <<h[1]>> = <<x>>) <=> h[1] \in Methods
    OBVIOUS
  <2>3. Head(<<h[1]>>) = h[1]
    OBVIOUS
  <2> QED
    BY <2>1, <2>2, <2>3 DEF Method
<1>9. Uri(tokens[2]) = IF h[3] = "/" THEN <<"index.html">> ELSE <<h[3]>>
  <2>1. tokens[2] = <<h[3]>>
    <3>1. SubSeq(l, 3, 3) = <<l[3]>>
      <4>1. 3 \in 1..Len(l)
        BY <1>5
      <4> QED
        BY <1>2, <4>1, OneOf
    <3>2. l[3] = h[3]
      BY <1>5
    <3> QED
      BY <1>7, <3>1, <3>2
  <2> HIDE DEF h
  <2>2. <<h[3]>> = <<"/">> <=> h[3] = "/"
    OBVIOUS
  <2> QED
    BY <2>1, <2>2 DEF Uri
<1>10. Version(tokens[3]) = IF h[5] \in Versions THEN h[5] ELSE "UNKNOWN"
  <2>1. tokens[3] # <<>> /\ Head(tokens[3]) = h[5]
    <3> DEFINE w == SubSeq(l, 5, 7)
    <3>1. w \in Seq(Symbols) /\ Len(w) = 3 /\ w[1] = l[5]
      BY <1>2, <1>5
    <3>2. l[5] = h[5]
      BY <1>5
    <3>3. tokens[3] = w
      BY <1>7
    <3> HIDE DEF w
    <3>4. w # <<>> /\ Head(w) = w[1]
      BY <3>1
    <3> QED
      BY <3>1, <3>2, <3>3, <3>4
  <2> QED
    BY <2>1 DEF Version
<1> QED
  BY <1>7, <1>8, <1>9, <1>10 DEF ParseRequest, Meaning

LEMMA BodilessSame ==
    ASSUME UNCHANGED input, NEW n \in Nat
    PROVE  Bodiless(n)' <=> Bodiless(n)
  BY DEF Bodiless

LEMMA SentMessage ==
    ASSUME TypeOK, AllWell, NEW n \in 1..Len(input)
    PROVE  input[n] \in Messages /\ WellFormed(input[n])
<1>1. input \in Seq(Messages) /\ DOMAIN input = 1..Len(input)
  BY DEF TypeOK
<1>2. input[n] \in Messages
  BY <1>1, ElementOfSeq
<1> QED
  BY <1>1, <1>2 DEF AllWell

LEMMA MessageLengths ==
    ASSUME NEW m \in Messages
    PROVE  /\ m.head \in Seq(Symbols) /\ m.body \in Seq(Symbols)
           /\ Len(m.head) \in Nat /\ Len(m.body) \in Nat
  BY DEF Messages

(* Nothing that was answered is taken back.                                *)
LEMMA StaysAstray ==
    ASSUME TypeOK, TypeOK', UNCHANGED input, Astray,
           served' = served \/ \E r \in Requests : served' = Append(served, r)
    PROVE  Astray'
<1>1. PICK i \in 1..Len(served) : i <= Len(input) /\ input[i].body # <<>>
  BY DEF Astray
<1>2. Len(served) \in Nat /\ Len(served') >= Len(served) /\ Len(served') \in Nat
  <2>1. served \in Seq(Requests) /\ served' \in Seq(Requests)
    BY DEF TypeOK
  <2>2. CASE served' = served
    BY <2>1, <2>2
  <2>3. CASE \E r \in Requests : served' = Append(served, r)
    BY <2>1, <2>3
  <2> QED
    BY <2>2, <2>3
<1>3. i \in 1..Len(served')
  BY <1>2
<1> QED
  BY <1>1, <1>3 DEF Astray

LEMMA PlaceByArrive ==
    ASSUME RecvInv, RecvInv', AllWell, WithinHead \/ Between \/ Astray, Arrive
    PROVE  (WithinHead \/ Between \/ Astray)'
<1>1. /\ TypeOK' /\ sent' \in 1..Len(input) /\ sent' = sent + 1
      /\ stream' = input[sent'].head \o input[sent'].body
      /\ pc' = pc /\ served' = served /\ input' = input
      /\ UNCHANGED recvVars
      /\ pc = "recv" /\ stream = <<>>
  BY ArriveTypes DEF RecvInv, Arrive
<1>2. /\ got' = got /\ header' = header /\ ends' = ends
      /\ sent \in Nat /\ Len(input) \in Nat /\ Len(got) \in Nat
  BY <1>1 DEF recvVars, RecvInv, TypeOK
<1>3. CASE WithinHead
  <2>1. sent \in 1..Len(input)
    BY <1>1, <1>2, <1>3 DEF WithinHead
  <2>2. PICK m \in Messages : m = input[sent]
    BY <2>1, SentMessage DEF RecvInv
  <2>3. IsWithin(m)
    BY <1>3, <2>2 DEF WithinHead
  <2>4. /\ Len(got) <= Len(m.head) /\ Len(got) # Len(m.head)
        /\ Len(got) + Len(stream) = Len(m.head) + Len(m.body)
    BY <1>1, <2>3 DEF IsWithin
  <2>5. Len(stream) = 0
    BY <1>1
  <2>6. PICK a \in Nat : a = Len(m.head)
    BY MessageLengths
  <2>7. PICK b \in Nat : b = Len(m.body)
    BY MessageLengths
  <2>8. PICK n \in Nat : n = Len(got)
    BY <1>2
  <2>9. n <= a /\ n # a /\ n + 0 = a + b
    BY <2>4, <2>5, <2>6, <2>7, <2>8
  <2> QED
    BY <2>9
<1>4. CASE Between
  <2>1. got = <<>> /\ Len(got) = 0 /\ Bodiless(sent) /\ Len(served) = sent
    BY <1>4 DEF Between
  <2>2. header = <<>>
    <3>1. ASSUME header # <<>> PROVE FALSE
      <4>1. 1 \in 1..Len(header)
        BY <3>1 DEF RecvInv, TypeOK
      <4>2. ends[1] \in LineStart(1)..Len(got)
        BY <4>1 DEF RecvInv, LinesInv
      <4>3. LineStart(1) = 1
        BY DEF LineStart
      <4> QED
        BY <2>1, <4>2, <4>3
    <3> QED
      BY <3>1
  <2>3. PICK m \in Messages : m = input[sent'] /\ WellFormed(m)
    <3>1. PICK n \in 1..Len(input) : n = sent'
      BY <1>1
    <3>2. input[n] \in Messages /\ WellFormed(input[n])
      BY SentMessage DEF RecvInv
    <3> QED
      BY <3>1, <3>2
  <2>4. /\ m.head \in Seq(Symbols) /\ m.body \in Seq(Symbols) /\ Len(m.head) >= 9
        /\ Len(m.head) \in Nat /\ Len(m.body) \in Nat
    BY <2>3, MessageLengths DEF WellFormed
  <2>5. /\ Len(stream') = Len(m.head) + Len(m.body)
        /\ \A j \in 1..Len(m.head) : stream'[j] = m.head[j]
    <3>1. stream' = m.head \o m.body
      BY <1>1, <2>3
    <3>2. /\ Len(m.head \o m.body) = Len(m.head) + Len(m.body)
          /\ \A j \in 1..(Len(m.head) + Len(m.body)) :
                 (m.head \o m.body)[j] =
                     IF j <= Len(m.head) THEN m.head[j] ELSE m.body[j - Len(m.head)]
      BY <2>4, ConcatProperties
    <3>3. \A j \in 1..Len(m.head) : j \in 1..(Len(m.head) + Len(m.body)) /\ j <= Len(m.head)
      <4>1. PICK a \in Nat : a = Len(m.head)
        BY MessageLengths
      <4>2. PICK b \in Nat : b = Len(m.body)
        BY MessageLengths
      <4>3. \A j \in 1..a : j \in 1..(a + b) /\ j <= a
        OBVIOUS
      <4> QED
        BY <4>1, <4>2, <4>3
    <3> QED
      BY <3>1, <3>2, <3>3
  <2>6. got' = <<>> /\ header' = <<>> /\ pc' = "recv" /\ Len(got') = 0
    BY <1>1, <1>2, <2>1, <2>2
  <2>7. IsWithin(m)'
    <3>1. \A j \in 1..Len(stream') : 0 + j <= Len(m.head) => stream'[j] = m.head[0 + j]
      <4> SUFFICES ASSUME NEW j \in 1..Len(stream'), 0 + j <= Len(m.head)
                   PROVE  stream'[j] = m.head[0 + j]
        OBVIOUS
      <4>1. 0 + j = j /\ j \in 1..Len(m.head)
        BY <2>4, <2>5
      <4> QED
        BY <2>5, <4>1
    <3>2. \A j \in 1..0 : got'[j] = m.head[j]
      OBVIOUS
    <3>3. 0 + Len(stream') = Len(m.head) + Len(m.body) /\ 0 # Len(m.head) /\ 0 <= Len(m.head)
      BY <2>4, <2>5
    <3>4. /\ Len(got') <= Len(m.head)
          /\ Len(got') = Len(m.head) <=> pc' = "parse"
          /\ Len(got') + Len(stream') = Len(m.head) + Len(m.body)
      BY <2>6, <3>3
    <3>5. /\ \A j \in 1..Len(got') : got'[j] = m.head[j]
          /\ \A j \in 1..Len(stream') :
                 Len(got') + j <= Len(m.head) => stream'[j] = m.head[Len(got') + j]
      BY <2>6, <3>1, <3>2
    <3>6. IF Len(got') < 7 THEN header' = <<>> ELSE header' # <<>> /\ ends'[1] = 7
      BY <2>6
    <3> QED
      BY <3>4, <3>5, <3>6 DEF IsWithin
  <2>8. sent' >= 1 /\ sent' - 1 = sent
    BY <1>1, <1>2
  <2>9. Bodiless(sent - 1)'
    <3>1. \A i \in 1..sent : input'[i].body = <<>>
      BY <1>1, <2>1 DEF Bodiless
    <3> QED
      BY <2>8, <3>1 DEF Bodiless
  <2>10. WithinHead'
    BY <1>1, <2>1, <2>3, <2>7, <2>8, <2>9 DEF WithinHead
  <2> QED
    BY <2>10
<1>5. CASE Astray
  BY <1>1, <1>5, StaysAstray DEF RecvInv
<1> QED
  BY <1>3, <1>4, <1>5

LEMMA PlaceByByte ==
    ASSUME RecvInv, RecvInv', AllWell, WithinHead \/ Between \/ Astray, RecvByte
    PROVE  (WithinHead \/ Between \/ Astray)'
<1>1. /\ stream # <<>> /\ input' = input /\ sent' = sent /\ served' = served
  BY DEF RecvByte
<1>2. CASE WithinHead
  <2>1. sent \in 1..Len(input)
    BY <1>2 DEF WithinHead, RecvInv, TypeOK
  <2>2. PICK m \in Messages : m = input[sent] /\ WellFormed(m)
    BY <2>1, SentMessage DEF RecvInv
  <2>3. IsWithin(m)'
    BY <1>2, <2>2, WithinByByte DEF WithinHead
  <2>4. Bodiless(sent - 1)'
    BY <1>1, <1>2 DEF WithinHead, Bodiless
  <2> QED
    BY <1>1, <1>2, <2>2, <2>3, <2>4 DEF WithinHead
<1>3. CASE Between
  BY <1>1, <1>3 DEF Between
<1>4. CASE Astray
  BY <1>1, <1>4 DEF Astray
<1> QED
  BY <1>2, <1>3, <1>4

(* A body that nobody reads puts recv out of step.                         *)
LEMMA PlaceByParse ==
    ASSUME RecvInv, RecvInv', AllWell, WithinHead \/ Between \/ Astray, Parse
    PROVE  (WithinHead \/ Between \/ Astray)'
<1>1. /\ pc = "parse" /\ pc' = "recv" /\ got' = <<>>
      /\ input' = input /\ sent' = sent /\ stream' = stream
      /\ served' = Append(served, ParseRequest(tokens))
      /\ ParseRequest(tokens) \in Requests
  BY ParsedType DEF Parse, netVars, RecvInv, TypeOK
<1>2. CASE WithinHead
  <2>1. sent \in 1..Len(input) /\ Len(input) \in Nat /\ served \in Seq(Requests)
    BY <1>2 DEF WithinHead, RecvInv, TypeOK
  <2>2. PICK m \in Messages : m = input[sent]
    BY <2>1, SentMessage DEF RecvInv
  <2>3. Len(served') = sent
    <3>1. Len(served) = sent - 1
      BY <1>2 DEF WithinHead
    <3>2. Len(served') = Len(served) + 1
      BY <1>1, <2>1, AppendProperties
    <3> QED
      BY <2>1, <3>1, <3>2
  <2>4. CASE m.body = <<>>
    <3>1. \A i \in 1..sent : input[i].body = <<>>
      <4> SUFFICES ASSUME NEW i \in 1..sent PROVE input[i].body = <<>>
        OBVIOUS
      <4>1. i = sent \/ i \in 1..(sent - 1)
        BY <2>1
      <4>2. \A j \in 1..(sent - 1) : input[j].body = <<>>
        BY <1>2 DEF WithinHead, Bodiless
      <4> QED
        BY <2>2, <2>4, <4>1, <4>2
    <3>2. Bodiless(sent)'
      BY <1>1, <3>1 DEF Bodiless
    <3>3. stream = <<>>
      <4>1. IsWithin(m)
        BY <1>2, <2>2 DEF WithinHead
      <4>2. Len(got) + Len(stream) = Len(m.head) + Len(m.body) /\ Len(got) = Len(m.head)
        BY <1>1, <4>1 DEF IsWithin
      <4>3. Len(m.body) = 0
        BY <2>4
      <4>4. PICK a \in Nat : a = Len(m.head)
        BY MessageLengths
      <4>5. PICK b \in Nat : b = Len(stream)
        BY DEF RecvInv, TypeOK
      <4>6. Len(stream) = 0
        BY <4>2, <4>3, <4>4, <4>5
      <4> QED
        BY <4>6 DEF RecvInv, TypeOK
    <3>4. Between'
      BY <1>1, <2>3, <3>2, <3>3 DEF Between
    <3> QED
      BY <3>4
  <2>5. CASE m.body # <<>>
    <3>1. sent \in 1..Len(served')
      BY <2>1, <2>3
    <3>2. sent <= Len(input') /\ input'[sent].body # <<>>
      BY <1>1, <2>1, <2>2, <2>5
    <3>3. Astray'
      BY <3>1, <3>2 DEF Astray
    <3> QED
      BY <3>3
  <2> QED
    BY <2>4, <2>5
<1>3. CASE Between
  BY <1>1, <1>3 DEF Between
<1>4. CASE Astray
  BY <1>1, <1>4, StaysAstray DEF RecvInv
<1> QED
  BY <1>2, <1>3, <1>4

(* A connection that goes down, and the turns of splitLineInTokens.        *)
LEMMA PlaceUntouched ==
    ASSUME UNCHANGED netVars, UNCHANGED recvVars, served' = served,
           pc' = pc \/ (pc = "recv" /\ pc' = "down"),
           WithinHead \/ Between \/ Astray
    PROVE  (WithinHead \/ Between \/ Astray)'
<1>1. /\ input' = input /\ sent' = sent /\ stream' = stream
      /\ header' = header /\ got' = got /\ ends' = ends
  BY DEF netVars, recvVars
<1>2. CASE WithinHead
  <2>1. PICK m : m = input[sent]
    OBVIOUS
  <2>2. IsWithin(m)
    BY <1>2, <2>1 DEF WithinHead
  <2>3. pc' = "parse" <=> pc = "parse"
    OBVIOUS
  <2>4. IsWithin(m)'
    BY <1>1, <2>2, <2>3 DEF IsWithin
  <2>5. Bodiless(sent - 1)'
    BY <1>1, <1>2 DEF WithinHead, Bodiless
  <2> QED
    BY <1>1, <1>2, <2>1, <2>4, <2>5 DEF WithinHead
<1>3. CASE Between
  <2>1. Bodiless(sent)'
    BY <1>1, <1>3 DEF Between, Bodiless
  <2> QED
    BY <1>1, <1>3, <2>1 DEF Between
<1>4. CASE Astray
  BY <1>1, <1>4 DEF Astray
<1> QED
  BY <1>2, <1>3, <1>4

LEMMA PlaceStep ==
    ASSUME RecvInv, RecvInv', PlaceInv, [Next]_vars
    PROVE  PlaceInv'
<1> SUFFICES ASSUME AllWell' PROVE (WithinHead \/ Between \/ Astray)'
  BY DEF PlaceInv
<1>1. input' = input
  BY DEF Next, Arrive, RecvByte, RecvDown, SplitToken, Parse, Terminated, vars, netVars
<1>2. AllWell /\ (WithinHead \/ Between \/ Astray)
  BY <1>1 DEF AllWell, PlaceInv
<1>3. CASE Arrive
  BY <1>2, <1>3, PlaceByArrive
<1>4. CASE RecvByte
  BY <1>2, <1>4, PlaceByByte
<1>5. CASE Parse
  BY <1>2, <1>5, PlaceByParse
<1>6. CASE SplitToken
  <2>1. UNCHANGED netVars /\ UNCHANGED recvVars /\ served' = served /\ pc' = pc
    BY <1>6 DEF SplitToken
  <2> QED
    BY <1>2, <2>1, PlaceUntouched
<1>7. CASE RecvDown
  <2>1. /\ UNCHANGED netVars /\ UNCHANGED recvVars /\ served' = served
        /\ pc = "recv" /\ pc' = "down"
    BY <1>7 DEF RecvDown
  <2> QED
    BY <1>2, <2>1, PlaceUntouched
<1>8. CASE UNCHANGED vars
  <2>1. UNCHANGED netVars /\ UNCHANGED recvVars /\ served' = served /\ pc' = pc
    BY <1>8 DEF vars
  <2> QED
    BY <1>2, <2>1, PlaceUntouched
<1> QED
  BY <1>3, <1>4, <1>5, <1>6, <1>7, <1>8 DEF Next, Terminated

(* The request that is answered next is the next message, unless a body    *)
(* has been left unread.                                                   *)
LEMMA RightStep ==
    ASSUME RecvInv, PlaceInv, RightInv, [Next]_vars
    PROVE  RightInv'
<1>1. input' = input
  BY DEF Next, Arrive, RecvByte, RecvDown, SplitToken, Parse, Terminated, vars, netVars
<1> SUFFICES ASSUME AllWell', NEW i \in DOMAIN served', i <= Len(input'), Bodiless(i - 1)'
             PROVE  served'[i] = Meaning(input'[i])
  BY DEF RightInv
<1>2. AllWell /\ Bodiless(i - 1) /\ i <= Len(input)
  BY <1>1 DEF AllWell, Bodiless
<1>3. CASE served' = served
  BY <1>1, <1>2, <1>3 DEF RightInv
<1>4. CASE Parse
  <2>1. /\ pc = "parse" /\ rest = <<>>
        /\ served' = Append(served, ParseRequest(tokens))
    BY <1>4 DEF Parse
  <2>2. served \in Seq(Requests) /\ Len(served) \in Nat /\ ParseRequest(tokens) \in Requests
    BY ParsedType DEF RecvInv, TypeOK
  <2>3. /\ Len(served') = Len(served) + 1
        /\ served'[Len(served) + 1] = ParseRequest(tokens)
        /\ \A k \in 1..Len(served) : served'[k] = served[k]
        /\ i \in 1..(Len(served) + 1)
    BY <2>1, <2>2
  <2>4. CASE i \in 1..Len(served)
    <3>1. served[i] = Meaning(input[i])
      BY <1>2, <2>2, <2>4 DEF RightInv
    <3> QED
      BY <1>1, <2>3, <2>4, <3>1
  <2>5. CASE i = Len(served) + 1
    <3>1. ~Astray
      <4> SUFFICES ASSUME NEW j \in 1..Len(served), input[j].body # <<>> PROVE FALSE
        BY DEF Astray
      <4>1. j \in 1..(i - 1)
        BY <2>2, <2>5
      <4> QED
        BY <1>2, <4>1 DEF Bodiless
    <3>2. WithinHead
      BY <1>2, <2>1, <3>1 DEF PlaceInv, Between
    <3>3. i = sent /\ sent \in 1..Len(input)
      <4>1. sent \in 0..Len(input) /\ Len(input) \in Nat
        BY DEF RecvInv, TypeOK
      <4>2. sent >= 1 /\ Len(served) = sent - 1
        BY <3>2 DEF WithinHead
      <4> QED
        BY <2>2, <2>5, <4>1, <4>2
    <3>4. PICK m \in Messages : m = input[sent] /\ WellFormed(m)
      BY <1>2, <3>3, SentMessage DEF RecvInv
    <3>5. ParseRequest(tokens) = Meaning(m)
      BY <2>1, <3>2, <3>4, ParsedAsMeant DEF WithinHead
    <3> QED
      BY <1>1, <2>3, <2>5, <3>3, <3>4, <3>5
  <2> QED
    BY <2>2, <2>3, <2>4, <2>5
<1>5. Parse \/ served' = served
  BY DEF Next, Arrive, RecvByte, RecvDown, SplitToken, Terminated, vars
<1> QED
  BY <1>3, <1>4, <1>5

(* The task answers the messages, one after the other, as they were sent:  *)
(* up to the first one with a body.                                        *)
THEOREM AnswersAsSent == Spec => []RequestsAsSent
<1>1. Init => RecvInv /\ PlaceInv /\ RightInv
  <2> SUFFICES ASSUME Init PROVE PlaceInv /\ RightInv
    BY RecvInit
  <2>1. Between
    <3>1. Bodiless(0)
      BY DEF Bodiless
    <3> QED
      BY <3>1 DEF Init, Between
  <2>2. DOMAIN served = {}
    BY DEF Init
  <2> QED
    BY <2>1, <2>2 DEF PlaceInv, RightInv
<1>2. RecvInv /\ PlaceInv /\ RightInv /\ [Next]_vars => (RecvInv /\ PlaceInv /\ RightInv)'
  <2>1. RecvInv /\ [Next]_vars => RecvInv'
    BY RecvStep
  <2>2. RecvInv /\ RecvInv' /\ PlaceInv /\ [Next]_vars => PlaceInv'
    BY PlaceStep
  <2>3. RecvInv /\ PlaceInv /\ RightInv /\ [Next]_vars => RightInv'
    BY RightStep
  <2> QED
    BY <2>1, <2>2, <2>3
<1>3. RecvInv /\ PlaceInv /\ RightInv => RequestsAsSent
  <2> SUFFICES ASSUME RecvInv, PlaceInv, RightInv, AllWell PROVE
                   /\ Bodiless(Len(input)) => Len(served) <= Len(input)
                   /\ \A i \in DOMAIN served :
                          i <= Len(input) /\ Bodiless(i - 1) => served[i] = Meaning(input[i])
    BY DEF RequestsAsSent, AllWell
  <2>1. ASSUME Bodiless(Len(input)) PROVE Len(served) <= Len(input)
    <3>1. ~Astray
      <4> SUFFICES ASSUME NEW j \in 1..Len(served), j <= Len(input), input[j].body # <<>>
                   PROVE  FALSE
        BY DEF Astray
      <4>1. j \in 1..Len(input)
        BY DEF RecvInv, TypeOK
      <4> QED
        BY <2>1, <4>1 DEF Bodiless
    <3>2. Len(served) = sent - 1 \/ Len(served) = sent
      BY <3>1 DEF PlaceInv, WithinHead, Between
    <3>3. sent \in 0..Len(input) /\ Len(input) \in Nat
      BY DEF RecvInv, TypeOK
    <3> QED
      BY <3>2, <3>3
  <2> QED
    BY <2>1 DEF RightInv
<1> QED
  BY <1>1, <1>2, <1>3, PTL DEF Spec

=============================================================================
