--------------------------- MODULE ResourceProofs ----------------------------
(***************************************************************************)
(* Theorems about Resource, for every table of types, every set of web     *)
(* roots, any number of responders and URIs of any length.                 *)
(*                                                                         *)
(* The argument: the request goes through its stages one after the other,  *)
(* and Asking, Filing and Header say what each of them has decided.  While *)
(* the responders are asked, LastWriter keeps hold of the one that content *)
(* and type are by.  What a finished response then says of its file is a   *)
(* fact about the operators alone: the last dot of a path is the one that  *)
(* a key of the table begins with, and a slash put before a URI adds no    *)
(* step upwards to it.                                                     *)
(***************************************************************************)
EXTENDS Resource, SequenceTheorems, FiniteSetTheorems, WellFoundedInduction, TLAPS

(* The path is the root followed by what the URI gives.                    *)
Rooted == path = root \o LocalPath(uri)

(* Before the responders are asked, and while they are.                    *)
Asking ==
    /\ pc \in {"line", "request"} => answers = <<>> /\ content = 0 /\ status = 500
    /\ pc = "ask" => status = IF Found THEN 200 ELSE 500
    /\ pc \in {"root", "stat", "open"} => ~Found
    /\ pc \in {"ask", "root"} => path = LocalPath(uri)

(* The file, when no responder took the request.                           *)
Filing ==
    /\ pc \in {"stat", "open"} => Rooted
    /\ pc = "open" => ext = FileExt(path) /\ time = "file"
    /\ pc \in {"format", "done"} /\ status = 200 /\ ~Found =>
           Rooted /\ ext = FileExt(path) /\ time = "file"

(* The header.                                                             *)
Header ==
    /\ pc \in {"format", "done"} => status # 500
    /\ pc # "done" => modified = "none"
    /\ pc = "done" =>
           /\ phrase = "standard"
           /\ type = IF status = 200 THEN ContentType(ext) ELSE <<"text/html">>
           /\ modified = IF status = 200 THEN time ELSE "none"

(* Every responder that returns 200 writes its content and its type, and   *)
(* one that declines writes neither.                                       *)
Behaved ==
    \A i \in DOMAIN answers : /\ answers[i].wrote = answers[i].ok
                              /\ (answers[i].type # <<>>) = answers[i].ok

(* The one that content is by is then the last that took the request, and  *)
(* the type, if there is one, is by the same.                              *)
LastWriter ==
    Behaved =>
        /\ content # 0 => answers[content].ok
        /\ \A i \in DOMAIN answers : i > content => ~answers[i].ok
        /\ content # 0 /\ pc \in {"ask", "format", "done"} => ext = answers[content].type

(* The inductive invariant.                                                *)
RInv == TypeOK /\ Asking /\ Filing /\ Header /\ LastWriter

-----------------------------------------------------------------------------
(* The operators.                                                          *)

(* A set of numbers that is not empty has a least element ...              *)
LEMMA LeastOf ==
    ASSUME NEW S, S \subseteq Nat, S # {}
    PROVE  Min(S) \in S /\ \A i \in S : Min(S) <= i
<1> DEFINE R == OpToRel(<, Nat)
<1>1. PICK n \in S : \A m \in S : <<m, n>> \notin R
  <2> HIDE DEF R
  <2>1. IsWellFoundedOn(R, Nat)
    BY NatLessThanWellFounded DEF R
  <2> QED
    BY <2>1, WFMin
<1>2. \A m \in S : n <= m
  <2> SUFFICES ASSUME NEW m \in S PROVE n <= m
    OBVIOUS
  <2>1. ~(m < n)
    BY <1>1 DEF OpToRel
  <2> QED
    BY <2>1
<1> QED
  BY <1>2 DEF Min

(* ... and, when it is bounded, a greatest one.                            *)
LEMMA GreatestOf ==
    ASSUME NEW n \in Nat, NEW S, S \subseteq 1..n, S # {}
    PROVE  Max(S) \in S /\ \A i \in S : i <= Max(S)
<1> DEFINE T == {n - i : i \in S}
<1>1. T \subseteq Nat /\ T # {}
  OBVIOUS
<1>2. Min(T) \in T /\ \A j \in T : Min(T) <= j
  <2> HIDE DEF T
  <2> QED
    BY <1>1, LeastOf
<1>3. PICK m \in S : Min(T) = n - m
  BY <1>2
<1>4. \A i \in S : i <= m
  <2> SUFFICES ASSUME NEW i \in S PROVE i <= m
    OBVIOUS
  <2>1. n - m <= n - i
    BY <1>2, <1>3
  <2> QED
    BY <2>1
<1> QED
  BY <1>4 DEF Max

(* A subsequence that reaches the end.                                     *)
LEMMA FromOn ==
    ASSUME NEW S, NEW p \in Seq(S), NEW k \in 1..Len(p)
    PROVE  /\ SubSeq(p, k, Len(p)) \in Seq(S)
           /\ SubSeq(p, k, Len(p)) # <<>>
           /\ Len(SubSeq(p, k, Len(p))) = Len(p) - k + 1
           /\ \A i \in 1..(Len(p) - k + 1) : SubSeq(p, k, Len(p))[i] = p[k + i - 1]
<1>1. Len(p) \in Nat /\ Len(SubSeq(p, k, Len(p))) = Len(p) - k + 1
  OBVIOUS
<1>2. SubSeq(p, k, Len(p)) \in Seq(S)
  OBVIOUS
<1>3. \A i \in 1..(Len(p) - k + 1) : SubSeq(p, k, Len(p))[i] = p[k + i - 1]
  OBVIOUS
<1>4. SubSeq(p, k, Len(p)) # <<>>
  <2>1. Len(SubSeq(p, k, Len(p))) > 0 /\ Len(<<>>) = 0
    BY <1>1
  <2> QED
    BY <2>1
<1> QED
  BY <1>1, <1>2, <1>3, <1>4

(* An extension is a text and never empty.                                 *)
LEMMA ExtOfPath ==
    ASSUME NEW p \in Seq(Chars)
    PROVE  FileExt(p) \in Seq(Chars) /\ FileExt(p) # <<>>
<1> DEFINE dots == {i \in DOMAIN p : p[i] = "."}
<1>1. CASE dots = {}
  BY <1>1 DEF FileExt, Chars
<1>2. CASE dots # {}
  <2>1. dots \subseteq 1..Len(p) /\ Len(p) \in Nat
    OBVIOUS
  <2>2. Max(dots) \in dots
    BY <1>2, <2>1, GreatestOf
  <2>3. Max(dots) \in 1..Len(p)
    BY <2>1, <2>2
  <2>4. FileExt(p) = SubSeq(p, Max(dots), Len(p))
    BY <1>2 DEF FileExt
  <2> QED
    BY <2>3, <2>4, FromOn
<1> QED
  BY <1>1, <1>2

(* The rows of the table.                                                  *)
LEMMA RowTypes ==
    ASSUME NEW i \in DOMAIN Rows
    PROVE  /\ DOMAIN Rows \subseteq Nat
           /\ Rows[i].ext \in Seq(Chars) /\ Rows[i].ext # <<>>
           /\ Rows[i].ext[1] = "."
           /\ \A j \in 2..Len(Rows[i].ext) : Rows[i].ext[j] \notin {"/", "."}
           /\ Rows[i].type # <<>> /\ Rows[i].type \in Types
<1>1. /\ Rows \in Seq([ext : Seq(Chars), type : Seq(STRING) \ {<<>>}])
      /\ Rows[i].ext # <<>> /\ Rows[i].ext[1] = "." /\ Tail(Rows[i].ext) \in Seq(Letters)
  BY ResourceAssumption
<1>2. DOMAIN Rows \subseteq Nat /\ Rows[i] \in [ext : Seq(Chars), type : Seq(STRING) \ {<<>>}]
  <2>1. DOMAIN Rows = 1..Len(Rows)
    BY <1>1
  <2>2. i \in 1..Len(Rows)
    BY <2>1
  <2>3. Rows[i] \in [ext : Seq(Chars), type : Seq(STRING) \ {<<>>}]
    <3> DEFINE RowSet == [ext : Seq(Chars), type : Seq(STRING) \ {<<>>}]
    <3> HIDE DEF RowSet
    <3>1. Rows \in Seq(RowSet)
      BY <1>1 DEF RowSet
    <3>2. Rows[i] \in RowSet
      BY <2>2, <3>1, ElementOfSeq
    <3> QED
      BY <3>2 DEF RowSet
  <2> QED
    BY <2>1, <2>3
<1>3. Rows[i].ext \in Seq(Chars) /\ Rows[i].type # <<>>
  BY <1>2
<1>4. ASSUME NEW j \in 2..Len(Rows[i].ext) PROVE Rows[i].ext[j] \notin {"/", "."}
  <2> DEFINE key == Rows[i].ext
  <2>1. Tail(key)[j - 1] = key[j] /\ j - 1 \in 1..Len(Tail(key))
    <3> HIDE DEF key
    <3>1. key \in Seq(Chars) /\ key # <<>> /\ j \in 2..Len(key)
      BY <1>1, <1>3, <1>4 DEF key
    <3> QED
      BY <3>1
  <2>2. key[j] \in Letters
    <3> HIDE DEF key
    <3>1. Tail(key) \in Seq(Letters)
      BY <1>1 DEF key
    <3> QED
      BY <2>1, <3>1
  <2> QED
    BY <2>2, ResourceAssumption
<1> QED
  BY <1>1, <1>2, <1>3, <1>4 DEF Types

(* The Content-Type of whatever there may be in resp_ext.                  *)
LEMMA TypeOfExt ==
    ASSUME NEW e \in Seq(Chars)
    PROVE  ContentType(e) # <<>> /\ ContentType(e) \in Types \cup Seq(Chars)
<1>1. CASE RowsOf(e) # {}
  <2>1. RowsOf(e) \subseteq DOMAIN Rows /\ DOMAIN Rows \subseteq Nat
    BY ResourceAssumption DEF RowsOf
  <2>2. Min(RowsOf(e)) \in DOMAIN Rows
    BY <1>1, <2>1, LeastOf
  <2>3. ContentType(e) = Rows[Min(RowsOf(e))].type
    BY <1>1 DEF ContentType
  <2> QED
    BY <2>2, <2>3, RowTypes
<1>2. CASE RowsOf(e) = {}
  BY <1>2 DEF ContentType, OctetStream, Types
<1> QED
  BY <1>1, <1>2

LEMMA PathOfUri ==
    ASSUME NEW u \in Seq(Chars)
    PROVE  /\ ParseUri(u) \in Seq(Chars)
           /\ LocalPath(u) \in Seq(Chars)
           /\ LocalPath(u) # <<>> => LocalPath(u)[1] = "/"
<1>1. ParseUri(u) \in Seq(Chars)
  BY ResourceAssumption DEF ParseUri
<1>2. CASE u # <<>> /\ u[1] # "/"
  <2>1. <<"/">> \in Seq(Chars) /\ LocalPath(u) = <<"/">> \o u
    BY <1>2 DEF LocalPath, Chars
  <2> QED
    BY <1>1, <2>1
<1>3. CASE u = <<>> \/ u[1] = "/"
  BY <1>1, <1>3 DEF LocalPath
<1> QED
  BY <1>2, <1>3

(* The slash that a path may get before it is no part of it that leads     *)
(* anywhere, and those behind it lead where they did.                      *)
LEMMA SlashBefore ==
    ASSUME NEW u \in Seq(Chars), u # <<>>, NEW n \in 1..(Len(u) + 1)
    PROVE  LET v == <<"/">> \o u
           IN  /\ Ups(v, n) = {i + 1 : i \in Ups(u, n - 1)}
               /\ Names(v, n) = {i + 1 : i \in Names(u, n - 1)}
<1> DEFINE v == <<"/">> \o u
<1>1. /\ Len(u) \in Nat \ {0}
      /\ Len(v) = Len(u) + 1
      /\ v[1] = "/"
      /\ \A i \in 1..Len(u) : v[i + 1] = u[i]
  <2>1. <<"/">> \in Seq(Chars) /\ Len(<<"/">>) = 1 /\ <<"/">>[1] = "/"
    BY DEF Chars
  <2>2. Len(u) \in Nat \ {0}
    BY EmptySeq
  <2> QED
    BY <2>1, <2>2
<1> HIDE DEF v
<1>2. ~Begins(v, 1)
  BY <1>1 DEF Begins
<1>3. ASSUME NEW i \in 1..Len(u)
      PROVE  /\ Begins(v, i + 1) <=> Begins(u, i)
             /\ EndsAt(v, i + 1) <=> EndsAt(u, i)
  <2>1. v[i + 1] = u[i] /\ i + 1 # 1
    BY <1>1
  <2>2. i = 1 => v[i] = "/"
    BY <1>1
  <2>3. i # 1 => v[i] = u[i - 1]
    <3> SUFFICES ASSUME i # 1 PROVE v[i] = u[i - 1]
      OBVIOUS
    <3>1. i - 1 \in 1..Len(u) /\ (i - 1) + 1 = i
      BY <1>1
    <3> QED
      BY <1>1, <3>1
  <2>4. (i + 1) - 1 = i
    BY <1>1
  <2>5. Begins(v, i + 1) <=> Begins(u, i)
    BY <2>1, <2>2, <2>3, <2>4 DEF Begins
  <2>6. i + 1 = Len(v) <=> i = Len(u)
    BY <1>1
  <2>7. i # Len(u) => v[(i + 1) + 1] = u[i + 1]
    <3> SUFFICES ASSUME i # Len(u) PROVE v[(i + 1) + 1] = u[i + 1]
      OBVIOUS
    <3>1. i + 1 \in 1..Len(u)
      BY <1>1
    <3> QED
      BY <1>1, <3>1
  <2> QED
    BY <2>5, <2>6, <2>7 DEF EndsAt
<1>4. ASSUME NEW i \in 1..Len(u)
      PROVE  /\ IsHere(v, i + 1) <=> IsHere(u, i)
             /\ IsUp(v, i + 1) <=> IsUp(u, i)
  <2>1. v[i + 1] = u[i]
    BY <1>1
  <2>2. IsHere(v, i + 1) <=> IsHere(u, i)
    BY <1>3, <2>1 DEF IsHere
  <2>3. i + 1 < Len(v) <=> i < Len(u)
    BY <1>1
  <2>4. i < Len(u) => /\ i + 1 \in 1..Len(u)
                      /\ v[(i + 1) + 1] = u[i + 1]
                      /\ EndsAt(v, (i + 1) + 1) <=> EndsAt(u, i + 1)
    <3> SUFFICES ASSUME i < Len(u)
                 PROVE  /\ i + 1 \in 1..Len(u)
                        /\ v[(i + 1) + 1] = u[i + 1]
                        /\ EndsAt(v, (i + 1) + 1) <=> EndsAt(u, i + 1)
      OBVIOUS
    <3>1. i + 1 \in 1..Len(u)
      BY <1>1
    <3> QED
      BY <1>1, <1>3, <3>1
  <2> QED
    BY <1>3, <2>1, <2>2, <2>3, <2>4 DEF IsUp
<1>5. \A i \in 1..Len(u) : IsName(v, i + 1) <=> IsName(u, i)
  BY <1>3, <1>4 DEF IsName
<1>6. ~IsUp(v, 1) /\ ~IsName(v, 1)
  BY <1>2 DEF IsUp, IsName
<1>7. /\ \A i \in 1..(n - 1) : i \in 1..Len(u) /\ i + 1 \in 1..n
      /\ \A i \in 1..n : i # 1 => i - 1 \in 1..(n - 1) /\ (i - 1) + 1 = i
  BY <1>1
<1>8. Ups(v, n) = {i + 1 : i \in Ups(u, n - 1)}
  BY <1>4, <1>6, <1>7 DEF Ups
<1>9. Names(v, n) = {i + 1 : i \in Names(u, n - 1)}
  BY <1>5, <1>6, <1>7 DEF Names
<1> QED
  BY <1>8, <1>9 DEF v

LEMMA ShiftedSet ==
    ASSUME NEW n \in Nat, NEW S, S \subseteq 1..n
    PROVE  Cardinality({i + 1 : i \in S}) = Cardinality(S)
<1> DEFINE T == {i + 1 : i \in S}
           f == [i \in S |-> i + 1]
<1>1. f \in [S -> T]
  OBVIOUS
<1>2. \A a, b \in S : f[a] = f[b] => a = b
  OBVIOUS
<1>3. \A t \in T : \E a \in S : f[a] = t
  OBVIOUS
<1>4. f \in Bijection(S, T)
  BY <1>1, <1>2, <1>3 DEF Bijection, Injection, Surjection, IsInjective
<1>5. IsFiniteSet(S)
  <2>1. IsFiniteSet(1..n) /\ S \in SUBSET (1..n)
    BY FS_Interval
  <2> HIDE DEF f, T
  <2> QED
    BY <2>1, FS_Subset
<1> HIDE DEF f, T
<1>6. ExistsBijection(S, T)
  BY <1>4 DEF ExistsBijection
<1> QED
  BY <1>5, <1>6, FS_Bijection DEF T

(* So the path climbs no higher than the URI does.                         *)
LEMMA ClimbingPath ==
    ASSUME NEW u \in Seq(Chars), Climbs(LocalPath(u))
    PROVE  Climbs(u)
<1> SUFFICES ASSUME u # <<>>, LocalPath(u) = <<"/">> \o u
             PROVE  Climbs(u)
  BY DEF LocalPath
<1> DEFINE v == <<"/">> \o u
<1>1. Len(v) = Len(u) + 1 /\ DOMAIN v = 1..Len(v) /\ DOMAIN u = 1..Len(u) /\ Len(u) \in Nat
  <2>1. <<"/">> \in Seq(Chars) /\ Len(<<"/">>) = 1
    BY DEF Chars
  <2> QED
    BY <2>1
<1>2. PICK n \in 1..(Len(u) + 1) : Cardinality(Ups(v, n)) > Cardinality(Names(v, n))
  <2>1. \E n \in DOMAIN v : Cardinality(Ups(v, n)) > Cardinality(Names(v, n))
    BY DEF Climbs
  <2> HIDE DEF v
  <2> QED
    BY <1>1, <2>1
<1>3. /\ Ups(v, n) = {i + 1 : i \in Ups(u, n - 1)}
      /\ Names(v, n) = {i + 1 : i \in Names(u, n - 1)}
  BY SlashBefore
<1> HIDE DEF v
<1>4. n - 1 \in Nat /\ n - 1 \in 0..Len(u)
  BY <1>1
<1>5. Ups(u, n - 1) \subseteq 1..(n - 1) /\ Names(u, n - 1) \subseteq 1..(n - 1)
  BY DEF Ups, Names
<1>6. Cardinality(Ups(u, n - 1)) > Cardinality(Names(u, n - 1))
  BY <1>2, <1>3, <1>4, <1>5, ShiftedSet
<1>7. n - 1 # 0
  <2> SUFFICES ASSUME n - 1 = 0 PROVE FALSE
    OBVIOUS
  <2>1. Ups(u, n - 1) = {} /\ Names(u, n - 1) = {}
    BY <1>5
  <2>2. Cardinality({}) = 0
    BY FS_EmptySet
  <2>3. Cardinality(Ups(u, n - 1)) = 0 /\ Cardinality(Names(u, n - 1)) = 0
    BY <2>1, <2>2
  <2> QED
    BY <1>6, <2>3
<1> QED
  BY <1>1, <1>4, <1>6, <1>7 DEF Climbs

(* What is behind the root, when it and a path are put together.           *)
LEMMA BehindRoot ==
    ASSUME NEW r \in Seq(Chars), NEW p \in Seq(Chars)
    PROVE  /\ r \o p \in Seq(Chars)
           /\ SubSeq(r \o p, Len(r) + 1, Len(r \o p)) = p
<1> DEFINE w == r \o p
           q == SubSeq(w, Len(r) + 1, Len(w))
<1>1. /\ w \in Seq(Chars)
      /\ Len(w) = Len(r) + Len(p)
      /\ \A i \in 1..Len(p) : w[Len(r) + i] = p[i]
      /\ Len(r) \in Nat /\ Len(p) \in Nat
  OBVIOUS
<1> HIDE DEF w
<1>2. q \in Seq(Chars) /\ Len(q) = Len(p) /\ \A i \in 1..Len(p) : q[i] = w[Len(r) + i]
  BY <1>1
<1> HIDE DEF q
<1>3. \A i \in 1..Len(p) : q[i] = p[i]
  BY <1>1, <1>2
<1>4. q = p
  BY <1>2, <1>3, SeqEqual
<1> QED
  BY <1>1, <1>4 DEF q, w

LEMMA PhrasedErrors == \A code \in {401, 403, 404} : Reason(code) = "standard"
<1>1. {401, 403, 404} \subseteq 400..418
  OBVIOUS
<1> QED
  BY <1>1 DEF Reason, Phrased

-----------------------------------------------------------------------------
(* The steps.                                                              *)

LEMMA RInit == Init => RInv
<1> SUFFICES ASSUME Init PROVE RInv
  OBVIOUS
<1> USE DEF Init
<1>1. TypeOK
  <2>1. <<>> \in Seq(Answers) /\ <<>> \in Seq(Chars) /\ Len(<<>>) = 0
    OBVIOUS
  <2> QED
    BY <2>1, ResourceAssumption DEF TypeOK, OctetStream
<1>2. Asking
  BY DEF Asking
<1>3. Filing /\ Header
  BY DEF Filing, Header
<1>4. LastWriter
  BY DEF LastWriter
<1> QED
  BY <1>1, <1>2, <1>3, <1>4 DEF RInv

(* What the responders have done stays as it is while nobody is asked.     *)
LEMMA AnswersStay ==
    ASSUME LastWriter, UNCHANGED <<answers, content, ext>>,
           pc' \in {"ask", "format", "done"} => pc \in {"ask", "format", "done"}
    PROVE  LastWriter'
  BY DEF LastWriter, Behaved

LEMMA FoundStays ==
    UNCHANGED answers => (Found' <=> Found)
  BY DEF Found

LEMMA RootStays ==
    UNCHANGED <<root, uri, path>> => (Rooted' <=> Rooted)
  BY DEF Rooted

(* The steps before the responders are asked, and the turn to the file.    *)
LEMMA EarlySteps ==
    ASSUME RInv,
           \/ \E n \in 0..MaxUri : \E u \in [1..n -> Chars] : Parse(u)
           \/ UnknownMethod \/ KnownMethod \/ Asked \/ NoRoot
    PROVE  RInv'
<1> USE DEF RInv
<1>1. CASE \E n \in 0..MaxUri : \E u \in [1..n -> Chars] : Parse(u)
  <2>0. PICK n \in 0..MaxUri : \E u \in [1..n -> Chars] : Parse(u)
    BY <1>1
  <2>1. PICK u \in [1..n -> Chars] : Parse(u)
    BY <2>0
  <2>2. ParseUri(u) \in Seq(Chars)
    <3>1. n \in Nat
      BY ResourceAssumption
    <3>2. u \in Seq(Chars)
      BY <3>1
    <3> QED
      BY <3>2, PathOfUri
  <2>3. TypeOK'
    BY <2>1, <2>2 DEF Parse, TypeOK, headVars
  <2>4. Asking' /\ Filing' /\ Header'
    BY <2>1 DEF Parse, Asking, Filing, Header, headVars
  <2>5. LastWriter'
    BY <2>1, AnswersStay DEF Parse
  <2> QED
    BY <2>3, <2>4, <2>5
<1>2. CASE UnknownMethod
  <2>1. TypeOK'
    BY <1>2 DEF UnknownMethod, TypeOK, headVars
  <2>2. Asking' /\ Filing' /\ Header'
    BY <1>2 DEF UnknownMethod, Asking, Filing, Header, headVars
  <2>3. LastWriter'
    BY <1>2 DEF UnknownMethod, Asking, LastWriter
  <2> QED
    BY <2>1, <2>2, <2>3
<1>3. CASE KnownMethod
  <2>1. path' \in Seq(Chars) /\ path' = LocalPath(uri')
    BY <1>3, PathOfUri DEF KnownMethod, TypeOK
  <2>2. TypeOK'
    BY <1>3, <2>1 DEF KnownMethod, TypeOK, headVars
  <2>3. Asking'
    BY <1>3, <2>1, FoundStays DEF KnownMethod, Asking, Found
  <2>4. Filing' /\ Header'
    BY <1>3 DEF KnownMethod, Filing, Header, headVars
  <2>5. LastWriter'
    BY <1>3 DEF KnownMethod, Asking, LastWriter
  <2> QED
    BY <2>2, <2>3, <2>4, <2>5
<1>4. CASE Asked
  <2>1. Found' <=> Found
    BY <1>4, FoundStays DEF Asked
  <2>2. status' = status /\ (status = 200 <=> Found)
    BY <1>4 DEF Asked, Asking
  <2>3. TypeOK'
    BY <1>4 DEF Asked, TypeOK, headVars
  <2>4. Asking'
    BY <1>4, <2>1, <2>2 DEF Asked, Asking
  <2>5. Filing' /\ Header'
    BY <1>4, <2>1, <2>2 DEF Asked, Filing, Header, headVars
  <2>6. LastWriter'
    BY <1>4, AnswersStay DEF Asked
  <2> QED
    BY <2>3, <2>4, <2>5, <2>6
<1>5. CASE NoRoot
  <2>1. TypeOK'
    BY <1>5 DEF NoRoot, TypeOK, headVars
  <2>2. Asking' /\ Filing' /\ Header'
    BY <1>5 DEF NoRoot, Asking, Filing, Header, headVars
  <2>3. content = 0 \/ ~Behaved
    BY <1>5 DEF NoRoot, Asking, LastWriter, Found, TypeOK
  <2>4. LastWriter'
    BY <1>5, <2>3 DEF NoRoot, LastWriter, Behaved
  <2> QED
    BY <2>1, <2>2, <2>4
<1> QED
  BY <1>1, <1>2, <1>3, <1>4, <1>5

(* A responder is asked.                                                   *)
LEMMA AskStep ==
    ASSUME RInv, NEW a \in Answers, Ask(a)
    PROVE  RInv'
<1> USE DEF RInv
<1>1. /\ answers \in Seq(Answers) /\ answers' = Append(answers, a)
      /\ Len(answers) < NumResps /\ NumResps \in Nat
      /\ content \in 0..Len(answers)
  BY ResourceAssumption DEF Ask, TypeOK
<1> DEFINE n == Len(answers) + 1
<1>2. /\ answers' \in Seq(Answers)
      /\ Len(answers') = n /\ n \in Nat \ {0}
      /\ DOMAIN answers = 1..Len(answers)
      /\ DOMAIN answers' = 1..n
      /\ answers'[n] = a
      /\ \A i \in 1..Len(answers) : answers'[i] = answers[i]
  BY <1>1
<1>3. Found' <=> Found \/ a.ok
  BY <1>2 DEF Found
<1>4. pc = "ask" /\ pc' = "ask"
  BY DEF Ask
<1>5. status' = IF Found' THEN 200 ELSE 500
  BY <1>3, <1>4 DEF Ask, Asking
<1>6. content' = IF a.wrote THEN n ELSE content
  BY <1>2 DEF Ask
<1>7. TypeOK'
  <2>1. a.type \in Seq(Chars)
    BY ResourceAssumption
  <2>2. ext' \in Seq(Chars)
    BY <2>1 DEF Ask, TypeOK
  <2>3. content' \in 0..Len(answers')
    BY <1>1, <1>2, <1>6
  <2>4. Len(answers') <= NumResps
    BY <1>1, <1>2
  <2>5. status' \in {200, 500}
    BY <1>5
  <2>6. time' \in {"none", "resp", "file"}
    BY DEF Ask, TypeOK
  <2> HIDE DEF n
  <2> QED
    BY <1>2, <1>4, <2>2, <2>3, <2>4, <2>5, <2>6 DEF Ask, TypeOK, headVars
<1>8. Asking'
  BY <1>4, <1>5 DEF Ask, Asking
<1>9. Filing' /\ Header'
  BY <1>4 DEF Ask, Filing, Header, headVars
<1>10. ASSUME Behaved'
       PROVE  /\ content' # 0 => answers'[content'].ok
              /\ \A i \in DOMAIN answers' : i > content' => ~answers'[i].ok
              /\ content' # 0 => ext' = answers'[content'].type
  <2>1. Behaved
    BY <1>2, <1>10 DEF Behaved
  <2>2. a.wrote = a.ok /\ (a.type # <<>>) = a.ok
    BY <1>2, <1>10 DEF Behaved
  <2>3. /\ content # 0 => answers[content].ok
        /\ \A i \in DOMAIN answers : i > content => ~answers[i].ok
        /\ content # 0 => ext = answers[content].type
    BY <1>4, <2>1 DEF LastWriter
  <2>4. CASE a.wrote
    <3>1. content' = n /\ answers'[content'] = a
      BY <1>2, <1>6, <2>4
    <3>2. a.ok /\ a.type # <<>>
      BY <2>2, <2>4
    <3>3. ext' = a.type
      BY <3>2 DEF Ask
    <3>4. \A i \in DOMAIN answers' : ~(i > content')
      BY <1>2, <3>1
    <3> QED
      BY <3>1, <3>2, <3>3, <3>4
  <2>5. CASE ~a.wrote
    <3>1. content' = content /\ ~a.ok /\ a.type = <<>>
      BY <1>6, <2>2, <2>5
    <3>2. ext' = ext
      BY <3>1 DEF Ask
    <3>3. content # 0 => answers'[content] = answers[content]
      BY <1>1, <1>2
    <3>4. \A i \in DOMAIN answers' : i > content => ~answers'[i].ok
      BY <1>1, <1>2, <2>3, <3>1
    <3> QED
      BY <2>3, <3>1, <3>2, <3>3, <3>4
  <2> QED
    BY <2>4, <2>5
<1>11. LastWriter'
  BY <1>10 DEF LastWriter
<1> QED
  BY <1>7, <1>8, <1>9, <1>11

(* The file is looked for and opened.                                      *)
LEMMA FileSteps ==
    ASSUME RInv,
           InRoot \/ StatFails \/ FileStat \/ \E ok \in BOOLEAN : Open(ok)
    PROVE  RInv'
<1> USE DEF RInv
<1>1. ~Found /\ (Behaved => content = 0)
  BY DEF InRoot, StatFails, FileStat, Open, Asking, LastWriter, Found, TypeOK
<1>2. UNCHANGED <<root, answers, content>>
  BY DEF InRoot, StatFails, FileStat, Open
<1>3. ~Found'
  BY <1>1, <1>2, FoundStays
<1>4. LastWriter'
  BY <1>1, <1>2 DEF LastWriter, Behaved
<1>5. CASE InRoot
  <2>1. root \in Seq(Chars) /\ path \in Seq(Chars) /\ path' = root \o path
    BY <1>5, ResourceAssumption DEF InRoot, TypeOK
  <2>2. path = LocalPath(uri) /\ uri' = uri
    BY <1>5 DEF InRoot, Asking
  <2>3. path' \in Seq(Chars) /\ Rooted'
    BY <1>2, <2>1, <2>2, BehindRoot DEF Rooted
  <2>4. TypeOK'
    BY <1>5, <2>3 DEF InRoot, TypeOK, headVars
  <2>5. Asking' /\ Filing' /\ Header'
    BY <1>3, <1>5, <2>3 DEF InRoot, Asking, Filing, Header, headVars
  <2> QED
    BY <1>4, <2>4, <2>5
<1>6. CASE StatFails
  <2>1. TypeOK'
    BY <1>6 DEF StatFails, TypeOK, headVars
  <2>2. Asking' /\ Filing' /\ Header'
    BY <1>6 DEF StatFails, Asking, Filing, Header, headVars
  <2> QED
    BY <1>4, <2>1, <2>2
<1>7. CASE FileStat
  <2>1. Rooted'
    BY <1>7, RootStays DEF FileStat, Filing
  <2>2. path' = path /\ ext' = FileExt(path') /\ ext' \in Seq(Chars)
    BY <1>7, ExtOfPath DEF FileStat, TypeOK
  <2>3. TypeOK'
    BY <1>7, <2>2 DEF FileStat, TypeOK, headVars
  <2>4. Asking' /\ Filing' /\ Header'
    BY <1>3, <1>7, <2>1, <2>2 DEF FileStat, Asking, Filing, Header, headVars
  <2> QED
    BY <1>4, <2>3, <2>4
<1>8. CASE \E ok \in BOOLEAN : Open(ok)
  <2>1. PICK ok \in BOOLEAN : Open(ok)
    BY <1>8
  <2>2. Rooted'
    BY <2>1, RootStays DEF Open, Filing
  <2>3. path' = path /\ ext' = FileExt(path') /\ time' = "file"
    BY <2>1 DEF Open, Filing
  <2>4. status' \in {200, 401} /\ pc' = "format"
    BY <2>1 DEF Open
  <2>5. TypeOK'
    BY <2>1, <2>4 DEF Open, TypeOK, headVars
  <2>6. Asking' /\ Filing' /\ Header'
    BY <2>1, <2>2, <2>3, <2>4 DEF Open, Asking, Filing, Header, headVars
  <2> QED
    BY <1>4, <2>5, <2>6
<1> QED
  BY <1>5, <1>6, <1>7, <1>8

(* The header is written.                                                  *)
LEMMA FormatSteps ==
    ASSUME RInv, FormatError \/ FormatPositiveResponse
    PROVE  RInv'
<1> USE DEF RInv
<1>1. /\ UNCHANGED <<root, uri, path, answers, content, ext, time, status>>
      /\ pc = "format" /\ pc' = "done"
  BY DEF FormatError, FormatPositiveResponse
<1>2. Found' <=> Found
  BY <1>1, FoundStays
<1>3. Rooted' <=> Rooted
  BY <1>1, RootStays
<1>4. Asking' /\ Filing'
  BY <1>1, <1>2, <1>3 DEF Asking, Filing
<1>5. LastWriter'
  BY <1>1, AnswersStay
<1>6. /\ phrase' = "standard"
      /\ type' = IF status = 200 THEN ContentType(ext) ELSE <<"text/html">>
      /\ modified' = IF status = 200 THEN time ELSE "none"
  <2>1. CASE FormatError
    <3>1. status \in {401, 403, 404}
      BY <2>1 DEF FormatError, Header, TypeOK
    <3> QED
      BY <2>1, <3>1, PhrasedErrors DEF FormatError, Header
  <2>2. CASE FormatPositiveResponse
    BY <2>2 DEF FormatPositiveResponse
  <2> QED
    BY <2>1, <2>2
<1>7. Header'
  BY <1>1, <1>6 DEF Header
<1>8. TypeOK'
  <2>1. type' # <<>> /\ type' \in Types \cup Seq(Chars)
    BY <1>6, TypeOfExt DEF TypeOK, Types
  <2>2. modified' \in {"none", "resp", "file"}
    BY <1>6 DEF TypeOK
  <2>3. status # 500
    BY <1>1 DEF Header
  <2> QED
    BY <1>1, <1>6, <2>1, <2>2, <2>3 DEF TypeOK
<1> QED
  BY <1>4, <1>5, <1>7, <1>8

LEMMA RNext == RInv /\ [Next]_vars => RInv'
<1> SUFFICES ASSUME RInv, [Next]_vars PROVE RInv'
  OBVIOUS
<1>1. CASE UNCHANGED vars
  BY <1>1 DEF vars, headVars, RInv, TypeOK, Asking, Filing, Header, LastWriter,
              Rooted, Behaved, Found
<1>2. CASE Next
  BY <1>1, <1>2, EarlySteps, AskStep, FileSteps, FormatSteps DEF Next, Terminated
<1> QED
  BY <1>1, <1>2

LEMMA RInvHolds == Spec => []RInv
  BY RInit, RNext, PTL DEF Spec

-----------------------------------------------------------------------------
(* The theorems.                                                           *)

(* Every variable has its type, and a finished response has a Content-Type *)
(* that is not empty and a status with a phrase: the constructor of        *)
(* JResponse leaves no way out that sends the 500 resp_status begins with. *)
THEOREM TypeCorrect == Spec => []TypeOK
<1>1. RInv => TypeOK
  BY DEF RInv
<1> QED
  BY <1>1, RInvHolds, PTL

(* The code leaves the web root by no means of its own: the path of a file *)
(* that is sent is the root, a slash and a rest that climbs above the root *)
(* only if the URI, as it was sent or as the index, does so itself.  That  *)
(* a URI which climbs is served, the code does nothing about.              *)
THEOREM RootIsKept == Spec => []RootIsLeftByUriOnly
<1>1. RInv => RootIsLeftByUriOnly
  <2> SUFFICES ASSUME RInv, FromFile
               PROVE  /\ path = root \o RestOfPath
                      /\ RestOfPath # <<>> => RestOfPath[1] = "/"
                      /\ Climbs(RestOfPath) => Climbs(uri)
    BY DEF RootIsLeftByUriOnly
  <2>1. path = root \o LocalPath(uri)
    BY DEF RInv, Filing, FromFile, Rooted
  <2>2. uri \in Seq(Chars) /\ root \in Seq(Chars)
    BY ResourceAssumption DEF RInv, TypeOK
  <2>3. LocalPath(uri) \in Seq(Chars) /\ (LocalPath(uri) # <<>> => LocalPath(uri)[1] = "/")
    BY <2>2, PathOfUri
  <2>4. RestOfPath = LocalPath(uri)
    BY <2>1, <2>2, <2>3, BehindRoot DEF RestOfPath
  <2> QED
    BY <2>1, <2>2, <2>3, <2>4, ClimbingPath
<1> QED
  BY <1>1, RInvHolds, PTL

(* If the responders behave, content and type of a response are by the     *)
(* same one, the last that returned 200; and when none did, nothing but    *)
(* the file has a part in the response: no content that would be sent in   *)
(* its place, no type and no time but the file's.                          *)
THEOREM OneResponderAnswers == Spec => []AnswerOfOneResponder
<1>1. ASSUME RInv, pc = "done", status = 200, ~Found, Behaved
      PROVE  content = 0 /\ type = ContentType(FileExt(path)) /\ modified = "file"
  <2>1. ext = FileExt(path) /\ time = "file"
    BY <1>1 DEF RInv, Filing
  <2>2. type = ContentType(FileExt(path)) /\ modified = "file"
    BY <1>1, <2>1 DEF RInv, Header
  <2>3. content # 0 => content \in DOMAIN answers /\ answers[content].ok
    BY <1>1 DEF RInv, TypeOK, LastWriter
  <2> QED
    BY <1>1, <2>2, <2>3 DEF Found
<1>2. RInv => AnswerOfOneResponder
  <2> SUFFICES ASSUME RInv, pc = "done", status = 200, Found, Behaved
               PROVE  LET last == Max({i \in DOMAIN answers : answers[i].ok})
                      IN  /\ content = last
                          /\ type = ContentType(answers[last].type)
    BY <1>1 DEF AnswerOfOneResponder, Behaved
  <2> DEFINE takers == {i \in DOMAIN answers : answers[i].ok}
  <2>1. /\ answers \in Seq(Answers) /\ content \in 0..Len(answers)
        /\ DOMAIN answers = 1..Len(answers) /\ Len(answers) \in Nat
    BY DEF RInv, TypeOK
  <2>2. /\ content # 0 => answers[content].ok
        /\ \A i \in DOMAIN answers : i > content => ~answers[i].ok
        /\ content # 0 => ext = answers[content].type
    BY DEF RInv, LastWriter
  <2>3. content # 0
    BY <2>1, <2>2 DEF Found
  <2>4. content \in takers /\ takers \subseteq 1..Len(answers)
    BY <2>1, <2>2, <2>3
  <2>5. Max(takers) \in takers /\ content <= Max(takers)
    <3> HIDE DEF takers
    <3> QED
      BY <2>1, <2>4, GreatestOf
  <2>6. ~(Max(takers) > content)
    BY <2>2, <2>5
  <2>7. content = Max(takers)
    BY <2>1, <2>4, <2>5, <2>6
  <2>8. type = ContentType(answers[content].type)
    BY <2>2, <2>3 DEF RInv, Header
  <2> QED
    BY <2>7, <2>8
<1> QED
  BY <1>2, RInvHolds, PTL

LEMMA ReverseIsSeq ==
    ASSUME NEW S, NEW s \in Seq(S)
    PROVE  Reverse(s) \in Seq(S) /\ Len(Reverse(s)) = Len(s)
<1>1. \A i \in 1..Len(s) : s[(Len(s) - i) + 1] \in S
  OBVIOUS
<1> QED
  BY <1>1 DEF Reverse

(* The name of a file ends in a key of the table: then the key is its      *)
(* extension, for the key's dot is the last one of the whole path.         *)
LEMMA ExtOfKnownFile ==
    ASSUME NEW p \in Seq(Chars), NEW i \in DOMAIN Rows,
           IsSuffix(Rows[i].ext, FileName(p))
    PROVE  FileExt(p) = Rows[i].ext
<1> DEFINE key == Rows[i].ext
           k == Len(key)
           n == Len(p)
           d == n - k + 1
<1>1. /\ key \in Seq(Chars) /\ key # <<>> /\ key[1] = "."
      /\ \A j \in 2..k : key[j] # "."
  BY RowTypes
<1>2. k \in Nat \ {0} /\ n \in Nat
  BY <1>1
<1>3. \E m \in 1..(n + 1) : FileName(p) = SubSeq(p, m, n)
  <2> DEFINE slashes == {j \in DOMAIN p : p[j] = "/"}
  <2>1. CASE slashes = {}
    <3>1. FileName(p) = p /\ p = SubSeq(p, 1, n)
      BY <2>1, SubSeqFull DEF FileName
    <3> QED
      BY <1>2, <3>1
  <2>2. CASE slashes # {}
    <3>1. slashes \subseteq 1..n
      OBVIOUS
    <3>2. Max(slashes) \in slashes
      <4> HIDE DEF slashes, n
      <4> QED
        BY <1>2, <2>2, <3>1, GreatestOf
    <3>3. Max(slashes) + 1 \in 1..(n + 1)
      <4>1. Max(slashes) \in 1..n
        <5> HIDE DEF slashes
        <5> QED
          BY <3>1, <3>2
      <4> HIDE DEF slashes, n
      <4> QED
        BY <1>2, <4>1
    <3>4. FileName(p) = SubSeq(p, Max(slashes) + 1, n)
      BY <2>2 DEF FileName
    <3> QED
      BY <3>3, <3>4
  <2> QED
    BY <2>1, <2>2
<1>4. PICK m \in 1..(n + 1) : FileName(p) = SubSeq(p, m, n)
  BY <1>3
<1> DEFINE f == FileName(p)
           q == Len(f)
<1>5. q = n - m + 1 /\ \A j \in 1..q : f[j] = p[m + j - 1]
  BY <1>2, <1>4
<1>6. k <= q /\ \A j \in 1..k : key[j] = f[q - k + j]
  <2>1. k <= q /\ SubSeq(Reverse(key), 1, k) = SubSeq(Reverse(f), 1, k)
    <3>1. Len(Reverse(key)) = k /\ Len(Reverse(f)) = q
      BY <1>2, <1>5 DEF Reverse
    <3> QED
      BY <3>1 DEF IsSuffix, IsPrefix
  <2>2. \A j \in 1..k : Reverse(key)[j] = Reverse(f)[j]
    <3> DEFINE a == Reverse(key)
               b == Reverse(f)
    <3>1. key \in Seq(Chars) /\ f \in Seq(Chars)
      <4>1. f \in Seq(Chars)
        BY <1>2, <1>4
      <4> QED
        BY <1>1, <4>1
    <3>2. a \in Seq(Chars) /\ Len(a) = k /\ b \in Seq(Chars) /\ Len(b) = q
      BY <3>1, ReverseIsSeq
    <3> HIDE DEF a, b, k, q
    <3>3. \A j \in 1..k : SubSeq(a, 1, k)[j] = a[j] /\ SubSeq(b, 1, k)[j] = b[j]
      BY <1>2, <2>1, <3>2
    <3> QED
      BY <2>1, <3>3 DEF a, b
  <2>3. /\ \A j \in 1..k : Reverse(key)[j] = key[k - j + 1]
        /\ \A j \in 1..q : Reverse(f)[j] = f[q - j + 1]
    BY DEF Reverse
  <2> HIDE DEF f, key, k, q
  <2>4. ASSUME NEW j \in 1..k PROVE key[j] = f[q - k + j]
    <3> DEFINE h == k - j + 1
    <3>1. h \in 1..k /\ h \in 1..q /\ k - h + 1 = j /\ q - h + 1 = q - k + j
      BY <1>2, <1>5, <2>1
    <3> QED
      BY <2>2, <2>3, <3>1
  <2> QED
    BY <2>1, <2>4
<1>7. d \in 1..n /\ \A j \in 1..k : key[j] = p[d + j - 1]
  <2> HIDE DEF f, key, k, n, q
  <2>1. d \in 1..n
    BY <1>2, <1>5, <1>6 DEF d
  <2>2. ASSUME NEW j \in 1..k PROVE key[j] = p[d + j - 1]
    <3>1. q - k + j \in 1..q /\ m + (q - k + j) - 1 = d + j - 1
      BY <1>2, <1>5, <1>6
    <3> QED
      BY <1>5, <1>6, <3>1
  <2> QED
    BY <2>1, <2>2
<1>8. p[d] = "." /\ \A j \in 1..n : j > d => p[j] # "."
  <2> HIDE DEF key, k, n
  <2>1. p[d] = "."
    <3>1. 1 \in 1..k /\ d + 1 - 1 = d
      BY <1>2
    <3> QED
      BY <1>1, <1>7, <3>1
  <2>2. ASSUME NEW j \in 1..n, j > d PROVE p[j] # "."
    <3>1. j - d + 1 \in 2..k /\ j - d + 1 \in 1..k /\ d + (j - d + 1) - 1 = j
      BY <1>2, <2>2
    <3> QED
      BY <1>1, <1>7, <3>1
  <2> QED
    BY <2>1, <2>2
<1> DEFINE dots == {j \in DOMAIN p : p[j] = "."}
<1>9. d \in dots /\ dots \subseteq 1..n /\ \A j \in dots : ~(j > d)
  <2>1. DOMAIN p = 1..n
    OBVIOUS
  <2> HIDE DEF d, n
  <2> QED
    BY <1>7, <1>8, <2>1
<1>10. Max(dots) = d
  <2>1. Max(dots) \in dots /\ d <= Max(dots)
    <3> HIDE DEF dots, d, n
    <3> QED
      BY <1>2, <1>9, GreatestOf
  <2> HIDE DEF dots, d, n
  <2>2. Max(dots) \in 1..n /\ d \in 1..n /\ ~(Max(dots) > d)
    BY <1>9, <2>1
  <2> QED
    BY <1>2, <2>1, <2>2
<1>11. FileExt(p) = SubSeq(p, d, n)
  BY <1>9, <1>10 DEF FileExt
<1>12. SubSeq(p, d, n) = key
  <2>1. /\ SubSeq(p, d, n) \in Seq(Chars)
        /\ Len(SubSeq(p, d, n)) = k
        /\ \A j \in 1..k : SubSeq(p, d, n)[j] = p[d + j - 1]
    <3>1. Len(p) - d + 1 = k
      BY <1>2
    <3> QED
      BY <1>7, <3>1, FromOn
  <2> HIDE DEF key, k, n, d
  <2>2. \A j \in 1..k : SubSeq(p, d, n)[j] = key[j]
    BY <1>7, <2>1
  <2> QED
    BY <1>1, <2>1, <2>2, SeqEqual DEF k
<1> QED
  BY <1>11, <1>12

(* A file with a known extension is sent with the type of the first row    *)
(* for it, whatever other dots its path has.                               *)
THEOREM KnownFilesTyped == Spec => []KnownFileTyped
<1>1. RInv => KnownFileTyped
  <2> SUFFICES ASSUME RInv, FromFile, NEW i \in DOMAIN Rows,
                      IsSuffix(Rows[i].ext, FileName(path)),
                      \A j \in 1..(i - 1) : Rows[j].ext # Rows[i].ext
               PROVE  type = Rows[i].type
    BY DEF KnownFileTyped
  <2>1. type = ContentType(FileExt(path)) /\ path \in Seq(Chars)
    BY DEF RInv, TypeOK, Filing, Header, FromFile
  <2> DEFINE e == Rows[i].ext
  <2>2. FileExt(path) = e
    BY <2>1, ExtOfKnownFile
  <2>3. DOMAIN Rows = 1..Len(Rows) /\ Len(Rows) \in Nat
    BY ResourceAssumption
  <2>4. i \in RowsOf(e) /\ RowsOf(e) \subseteq DOMAIN Rows
    BY DEF RowsOf
  <2>5. Min(RowsOf(e)) \in RowsOf(e) /\ Min(RowsOf(e)) <= i
    BY <2>3, <2>4, LeastOf
  <2>6. Rows[Min(RowsOf(e))].ext = e /\ Min(RowsOf(e)) \in 1..Len(Rows)
    BY <2>3, <2>4, <2>5 DEF RowsOf
  <2>7. Min(RowsOf(e)) = i
    <3>1. Min(RowsOf(e)) \notin 1..(i - 1)
      BY <2>6
    <3> QED
      BY <2>3, <2>5, <2>6, <3>1
  <2>8. ContentType(e) = Rows[i].type
    BY <2>4, <2>7 DEF ContentType
  <2> QED
    BY <2>1, <2>2, <2>8
<1> QED
  BY <1>1, RInvHolds, PTL

=============================================================================
