--------------------------- MODULE SendFileProofs ---------------------------
(***************************************************************************)
(* Theorems about SendFile, for files and buffers of any size.             *)
(*                                                                         *)
(* The argument: while the stream is good, a whole number of buffers has   *)
(* been read; while no ::send has been cut short, what has been sent is    *)
(* what has been read, up to the buffer at hand, which goes in one piece.  *)
(***************************************************************************)
EXTENDS SendFile, SequenceTheorems, TLAPS

Types ==
    /\ fsize \in Nat
    /\ pc \in {"open", "test", "send", "returned"}
    /\ pos \in 0..fsize
    /\ good \in BOOLEAN
    /\ size \in 0..BufSize
    /\ size <= pos
    /\ bsent \in Nat
    /\ sent_bytes \in Nat
    /\ result \in Int
    /\ wire \in Seq(Int)
    /\ cut \in BOOLEAN
    /\ failed \in BOOLEAN

(* What has been sent but not added up yet. *)
Pending == IF pc = "send" THEN bsent ELSE 0

(* The bytes of the buffer at hand. *)
InHand == IF pc = "send" THEN size ELSE 0

(* Reading. *)
ReadSoFar ==
    /\ good => \E k \in Nat : pos = k * BufSize
    /\ ~good /\ pc # "returned" => pos = fsize
    /\ pc = "send" => size > 0 /\ (~good => pos = fsize)
    /\ pc = "open" => good /\ pos = 0

(* Sending, as long as ::send takes all it is given. *)
InOrder ==
    ~cut => /\ \A i \in 1..Len(wire) : wire[i] = i
            /\ Len(wire) = pos - InHand \/ (pc = "returned" /\ Len(wire) <= pos)
            /\ pc = "returned" /\ result # -1 => Len(wire) = fsize
            /\ pc = "send" => bsent = 0

(* Adding up. *)
Counted ==
    /\ pc # "returned" => Len(wire) = sent_bytes + Pending
    /\ pc = "returned" /\ result # -1 => result = Len(wire)

(* -1 without a failure: the last read found nothing. *)
NothingLeft ==
    pc = "returned" /\ result = -1 /\ ~failed =>
        pos = fsize /\ \E k \in Nat : pos = k * BufSize

Inv == Types /\ ReadSoFar /\ InOrder /\ Counted /\ NothingLeft

(* n bytes more, from b on. *)
LEMMA Extend ==
  ASSUME NEW s \in Seq(Int), NEW b \in Int, NEW n \in Nat
  PROVE  LET t == s \o [i \in 1..n |-> b + i]
         IN  /\ t \in Seq(Int)
             /\ Len(t) = Len(s) + n
             /\ \A i \in 1..Len(s) : t[i] = s[i]
             /\ \A i \in (Len(s) + 1)..Len(t) : t[i] = b + i - Len(s)
<1> DEFINE t == [i \in 1..n |-> b + i]
           c == s \o t
<1>1. t \in Seq(Int) /\ Len(t) = n /\ \A i \in 1..n : t[i] = b + i
  OBVIOUS
<1> HIDE DEF t
<1>2. c \in Seq(Int) /\ Len(c) = Len(s) + n
  BY <1>1, ConcatProperties
<1>3. \A i \in 1..Len(s) : c[i] = s[i]
  BY <1>1, ConcatProperties
<1>4. \A i \in (Len(s) + 1)..(Len(s) + n) : c[i] = t[i - Len(s)]
  BY <1>1, ConcatProperties
<1>5. ASSUME NEW i \in (Len(s) + 1)..(Len(s) + n) PROVE c[i] = b + i - Len(s)
  <2>1. i - Len(s) \in 1..n
    OBVIOUS
  <2> QED
    BY <1>1, <1>4, <2>1
<1> HIDE DEF c
<1>6. /\ c \in Seq(Int)
      /\ Len(c) = Len(s) + n
      /\ \A i \in 1..Len(s) : c[i] = s[i]
      /\ \A i \in (Len(s) + 1)..Len(c) : c[i] = b + i - Len(s)
  BY <1>2, <1>3, <1>5
<1> QED
  BY <1>6 DEF c, t

LEMMA InvInit == Init => Inv
<1> SUFFICES ASSUME Init PROVE Inv
  OBVIOUS
<1> USE SendFileAssumption DEF Init
<1>1. Types
  <2>1. fsize \in Nat /\ pos \in 0..fsize /\ size \in 0..BufSize /\ size <= pos
    OBVIOUS
  <2>2. good \in BOOLEAN /\ cut \in BOOLEAN /\ failed \in BOOLEAN
    BY Zenon
  <2>3. wire \in Seq(Int)
    BY EmptySeq
  <2> QED
    BY <2>1, <2>2, <2>3 DEF Types
<1>2. ReadSoFar
  <2>1. pos = 0 * BufSize
    OBVIOUS
  <2> QED
    BY <2>1 DEF ReadSoFar
<1>3. InOrder /\ Counted /\ NothingLeft
  BY DEF InOrder, Counted, NothingLeft, InHand, Pending
<1> QED
  BY <1>1, <1>2, <1>3 DEF Inv

LEMMA InvRead == Inv /\ Read => Inv'
<1> SUFFICES ASSUME Inv, Read PROVE Inv'
  OBVIOUS
<1> USE SendFileAssumption DEF Inv, Read, Types
<1>1. size' \in 1..BufSize /\ pos' = pos + size' /\ pos' \in 0..fsize
  OBVIOUS
<1>2. good' \in BOOLEAN /\ (good' <=> size' = BufSize)
  BY Zenon
<1>3. Types'
  BY <1>1, <1>2
<1>4. ReadSoFar'
  <2>1. ASSUME good' PROVE \E k \in Nat : pos' = k * BufSize
    <3>1. PICK k \in Nat : pos = k * BufSize
      BY DEF ReadSoFar
    <3>2. pos' = k * BufSize + BufSize
      BY <1>1, <1>2, <2>1, <3>1
    <3>3. k * BufSize + BufSize = (k + 1) * BufSize
      OBVIOUS
    <3>4. k + 1 \in Nat /\ pos' = (k + 1) * BufSize
      BY <3>2, <3>3
    <3> QED
      BY <3>4, Zenon
  <2>2. ASSUME ~good' PROVE pos' = fsize'
    BY <1>1, <1>2, <2>2
  <2>3. pc' = "send" /\ size' > 0
    BY <1>1
  <2> QED
    BY <2>1, <2>2, <2>3 DEF ReadSoFar
<1>5. InOrder' /\ Counted' /\ NothingLeft'
  BY <1>1 DEF InOrder, Counted, NothingLeft, InHand, Pending
<1> QED
  BY <1>3, <1>4, <1>5

LEMMA InvSend == ASSUME NEW txc \in 1..BufSize, Inv, Send(txc) PROVE Inv'
<1> USE SendFileAssumption DEF Inv, Send, Types
<1>1. /\ wire' \in Seq(Int)
      /\ Len(wire') = Len(wire) + txc
      /\ \A i \in 1..Len(wire) : wire'[i] = wire[i]
      /\ \A i \in (Len(wire) + 1)..Len(wire') : wire'[i] = pos - size + i - Len(wire)
  <2> DEFINE t == wire \o [i \in 1..txc |-> (pos - size) + i]
  <2>1. wire \in Seq(Int) /\ pos - size \in Int /\ txc \in Nat
    OBVIOUS
  <2>2. wire' = t
    OBVIOUS
  <2>3. /\ t \in Seq(Int)
        /\ Len(t) = Len(wire) + txc
        /\ \A i \in 1..Len(wire) : t[i] = wire[i]
        /\ \A i \in (Len(wire) + 1)..Len(t) : t[i] = (pos - size) + i - Len(wire)
    BY <2>1, Extend
  <2> HIDE DEF t
  <2> QED
    BY <2>2, <2>3
<1>2. Types'
  <2>1. cut' \in BOOLEAN
    BY Zenon
  <2>2. pc' \in {"send", "test"} /\ bsent' \in Nat /\ sent_bytes' \in Nat
    OBVIOUS
  <2> QED
    BY <1>1, <2>1, <2>2
<1>3. ReadSoFar'
  BY DEF ReadSoFar
<1>4. Counted' /\ NothingLeft'
  <2>1. pc' \in {"send", "test"}
    OBVIOUS
  <2>2. NothingLeft'
    BY <2>1 DEF NothingLeft
  <2>3. Len(wire) = sent_bytes + bsent
    BY DEF Counted, Pending
  <2>4. \/ pc' = "test" /\ sent_bytes' = sent_bytes + bsent + txc
        \/ pc' = "send" /\ sent_bytes' = sent_bytes /\ bsent' = bsent + txc
    OBVIOUS
  <2>5. Counted'
    <3>1. Len(wire') = Len(wire) + txc
      BY <1>1
    <3>2. sent_bytes \in Nat /\ bsent \in Nat /\ txc \in Nat
      OBVIOUS
    <3> HIDE DEF Inv, Send, Types
    <3> QED
      BY <2>3, <2>4, <3>1, <3>2 DEF Counted, Pending
  <2> QED
    BY <2>2, <2>5
<1>5. InOrder'
  <2> SUFFICES ASSUME ~cut' PROVE InOrder'
    BY Zenon DEF InOrder
  <2>0. ~cut /\ ~(txc < size)
    BY Zenon
  <2>1. txc = size
    BY <2>0
  <2>2. Len(wire) = pos - size /\ bsent = 0
    BY <2>0 DEF InOrder, InHand
  <2>3. pc' = "test" /\ Len(wire') = pos
    BY <1>1, <2>1, <2>2
  <2>4. \A i \in 1..Len(wire') : wire'[i] = i
    <3> SUFFICES ASSUME NEW i \in 1..Len(wire') PROVE wire'[i] = i
      OBVIOUS
    <3>1. CASE i <= Len(wire)
      <4>1. i \in 1..Len(wire)
        BY <3>1, <1>1
      <4> QED
        BY <1>1, <2>0, <4>1 DEF InOrder
    <3>2. CASE i > Len(wire)
      <4>1. i \in (Len(wire) + 1)..Len(wire')
        BY <3>2, <1>1
      <4>2. wire'[i] = pos - size + i - Len(wire)
        BY <1>1, <4>1
      <4>3. pos \in Int /\ size \in Int /\ Len(wire) \in Int /\ i \in Int
        OBVIOUS
      <4> HIDE DEF Inv, Send, Types
      <4> QED
        BY <2>2, <4>2, <4>3
    <3> QED
      BY <1>1, <3>1, <3>2
  <2> QED
    BY <2>3, <2>4 DEF InOrder, InHand
<1> QED
  BY <1>2, <1>3, <1>4, <1>5

LEMMA InvEnds ==
  ASSUME Inv, Open \/ OpenFails \/ ReadNothing \/ Done \/ SendFails
  PROVE  Inv'
<1> USE SendFileAssumption
        DEF Inv, Types, Return, ReadSoFar, InOrder, Counted, NothingLeft, InHand, Pending
<1>1. CASE Open
  BY <1>1 DEF Open
<1>2. CASE OpenFails
  BY <1>2 DEF OpenFails
<1>3. CASE ReadNothing
  <2>1. good' \in BOOLEAN /\ UNCHANGED <<fsize, pos, bsent, sent_bytes, wire, cut, failed>>
    BY <1>3, Zenon DEF ReadNothing
  <2>2. ~good' /\ pc' = "returned" /\ result' = -1 /\ size' = 0
    BY <1>3 DEF ReadNothing
  <2>3. Len(wire) <= pos \/ cut
    BY <1>3 DEF ReadNothing
  <2>4. pos = fsize /\ \E k \in Nat : pos = k * BufSize
    BY <1>3 DEF ReadNothing
  <2>5. NothingLeft'
    BY <2>1, <2>4, Zenon
  <2>6. Types' /\ ReadSoFar' /\ Counted'
    BY <2>1, <2>2, <2>4
  <2> QED
    BY <2>1, <2>2, <2>3, <2>5, <2>6
<1>4. CASE Done
  BY <1>4 DEF Done
<1>5. CASE SendFails
  BY <1>5 DEF SendFails
<1> QED
  BY <1>1, <1>2, <1>3, <1>4, <1>5

LEMMA InvNext == Inv /\ [Next]_vars => Inv'
<1> SUFFICES ASSUME Inv, [Next]_vars PROVE Inv'
  OBVIOUS
<1>1. CASE UNCHANGED vars
  BY <1>1 DEF vars, Inv, Types, ReadSoFar, InOrder, Counted, NothingLeft, InHand, Pending
<1>2. CASE SendCongested \/ Terminated
  BY <1>1, <1>2 DEF SendCongested, Terminated
<1> QED
  BY <1>1, <1>2, InvRead, InvSend, InvEnds DEF Next, Sends

LEMMA InvHolds == Spec => []Inv
  BY InvInit, InvNext, PTL DEF Spec

(* While ::send takes all it is given, the peer gets the file in order.    *)
THEOREM FileComes == Spec => []FileArrives
<1>1. Inv => FileArrives
  BY SendFileAssumption DEF Inv, Types, InOrder, InHand, FileArrives
<1> QED
  BY <1>1, InvHolds, PTL

(* What was read in whole buffers is a multiple of one.                    *)
LEMMA Multiple ==
  ASSUME NEW k \in Nat, NEW n \in Nat \ {0}
  PROVE  (k * n) % n = 0
  OBVIOUS

(* A result is the number of bytes sent; -1 is an error, or a file that is *)
(* a multiple of the buffer.                                               *)
THEOREM ResultIsExplained == Spec => []ResultExplained
<1>1. Inv => ResultExplained
  <2> SUFFICES ASSUME Inv, pc = "returned" PROVE ResultExplained
    BY DEF ResultExplained
  <2>1. result # -1 => result = Len(wire)
    BY DEF Inv, Counted
  <2>2. ASSUME result = -1, ~failed PROVE pos = fsize /\ fsize % BufSize = 0
    <3>1. PICK k \in Nat : pos = fsize /\ fsize = k * BufSize
      BY <2>2 DEF Inv, NothingLeft
    <3> QED
      BY <3>1, Multiple, SendFileAssumption
  <2> QED
    BY <2>1, <2>2 DEF ResultExplained
<1> QED
  BY <1>1, InvHolds, PTL

=============================================================================
