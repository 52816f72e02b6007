---------------------------- MODULE H1Conn_proofs ----------------------------
(***************************************************************************)
(* The invariants of H1Conn, for streams of any number of requests of any  *)
(* shape.  The parser's position in the stream is the number of tokens it  *)
(* has consumed; what a request's tokens are and where they begin follows  *)
(* from lemmas about FlattenSeq, proved by induction over the sequences.   *)
(***************************************************************************)
EXTENDS H1Conn, FiniteSetTheorems, SequenceTheorems, WellFoundedInduction, TLAPS

-----------------------------------------------------------------------------
(* The invariant. *)

Token == [kind : Kinds, req : 1..NumRequests, size : Nat]
Reply == [kind : {"answer", "partial", "error", "redirect", "switch"}, req : Nat,
          close : BOOLEAN]
Hows  == {"answer", "unanswered", "upgrade", "upgrade_failed"}
Call  == [req : Nat, body : Seq(Token), how : Hows]

ChunkStates  == {"size", "data", "crlf", "trailer"}
ParserStates == ChunkStates \cup {"reqline", "headers", "body_cl", "dead"}

FittingShapes(sh) ==
  /\ sh \in [1..NumRequests -> UNION {Shapes[r] : r \in 1..NumRequests}]
  /\ \A r \in 1..NumRequests : sh[r] \in Shapes[r]

H1Types ==
  /\ FittingShapes(shapes)
  /\ inb \in Seq(Token) /\ unread \in Seq(Token) /\ body \in Seq(Token)
  /\ got \in Seq(Reply) /\ out \in Seq(Reply) /\ handled \in Seq(Call)
  /\ proto \in {"tls", "unknown", "h1"} /\ st \in ParserStates
  /\ pc \in {"poll", "feed", "dispatch", "flush", "sweep", "gone"}
  /\ remaining \in Nat /\ req \in Nat
  /\ closeAfter \in BOOLEAN /\ keepAlive \in BOOLEAN /\ graceful \in BOOLEAN
  /\ responded \in BOOLEAN /\ receiving \in BOOLEAN
  /\ dead \in BOOLEAN /\ wantClose \in BOOLEAN

(* The control flags of the connection and of the loop. *)
Control ==
  /\ closeAfter = (responded \/ st = "dead")
  /\ closeAfter => wantClose
  /\ responded => st \in {"body_cl", "trailer", "dead"}
  /\ st # "reqline" => proto = "h1" /\ req \in 1..NumRequests
  /\ pc = "dispatch" => st \in {"body_cl", "trailer"}
  /\ dead => pc \in {"flush", "sweep", "gone"}
  /\ why # "open" => dead
  /\ pc = "sweep" /\ ~dead /\ wantClose => out # <<>>

(* NothingLeftBehind, from the moment the parser returns. *)
Left ==
  (pc \in {"flush", "sweep"} /\ proto = "h1" /\ ~dead /\ ~wantClose) =>
    /\ Len(inb) <= 1
    /\ inb # <<>> => receiving /\ st = "reqline"

(* The first i sequences of ss in a row, and their length. *)
First(ss, i)  == FlattenSeq(SubSeq(ss, 1, i))
Before(ss, i) == Len(First(ss, i))

Requests(sh)  == [r \in 1..NumRequests |-> TokensOf(r, sh[r])]
Payload(r, s) == [i \in 1..Len(s.body) |-> Data(r, s.body[i])]

(* How much of the stream precedes request r; how many tokens, and how much of the
   body, the first c chunks are. *)
Start(sh, r)          == Before(Requests(sh), r - 1)
ChunksEnd(r, s, c)    == Before(Chunks(r, s), c)
PayloadEnd(r, s, c)   == Before(Payload(r, s), c)

Consumed == Len(Stream(shapes)) - Len(inb) - Len(unread)

(* What the server has not consumed is the rest of the stream. *)
Unconsumed ==
  /\ Len(inb) + Len(unread) <= Len(Stream(shapes))
  /\ \A i \in 1..Len(inb) : inb[i] = Stream(shapes)[Consumed + i]
  /\ \A i \in 1..Len(unread) :
       unread[i] = Stream(shapes)[Len(Stream(shapes)) - Len(unread) + i]

(* x begins with y. *)
Begins(x, y) == Len(y) <= Len(x) /\ \A i \in 1..Len(y) : y[i] = x[i]

(* The parser is at position `at' of the chunked body of request r, in chunk c + 1. *)
InChunk(r, s, c, at) ==
  /\ st = "size" => at = ChunksEnd(r, s, c) /\ Len(body) = PayloadEnd(r, s, c)
  /\ st = "data" =>
       /\ c < Len(s.body) /\ remaining <= s.body[c + 1]
       /\ at = ChunksEnd(r, s, c) + 1 + s.body[c + 1] - remaining
       /\ Len(body) = PayloadEnd(r, s, c) + s.body[c + 1] - remaining
  /\ st = "crlf" =>
       /\ c < Len(s.body)
       /\ at = ChunksEnd(r, s, c) + 1 + s.body[c + 1]
       /\ Len(body) = PayloadEnd(r, s, c) + s.body[c + 1]
  /\ st = "trailer" =>
       /\ c = Len(s.body) /\ Len(body) = PayloadEnd(r, s, c)
       /\ at = ChunksEnd(r, s, c) + (IF pc = "dispatch" THEN 2 ELSE 1)

(* The parser is in request r, and has consumed `at' tokens of it. *)
InRequest(r, at) ==
  LET s == shapes[r] IN
  /\ r <= NumRequests /\ req = r
  /\ Begins(BodyOf(r, s), body)
  /\ st = "headers" => at = 2 /\ body = <<>>
  /\ st = "body_cl" =>
       /\ s.framing # "chunked" /\ at = 3 + Len(body)
       /\ Len(body) + remaining = Len(BodyOf(r, s))
       /\ pc = "dispatch" => remaining = 0
  /\ st \in ChunkStates =>
       /\ s.framing = "chunked"
       /\ \E c \in 0..Len(s.body) : InChunk(r, s, c, at - 3)

(* Where the parser is in the stream, as long as it reads requests. *)
Parsing ==
  ~dead /\ ~closeAfter =>
    \E r \in 1..(NumRequests + 1), at \in 0..Len(Stream(shapes)) :
      /\ r = Len(handled) + 1 /\ Consumed = Start(shapes, r) + at
      /\ IF st = "reqline" THEN at = 0 /\ body = <<>> ELSE InRequest(r, at)

Handling ==
  /\ RequestsAsSent
  /\ Len(handled) <= NumRequests
  /\ responded => req = Len(handled)

(* A reply that is whole and announces the close. *)
Closes(x) == x.close /\ x.kind # "partial"

(* Such a reply is to the last request handled, or a later one. *)
ClosesAt(s) == \A i \in 1..Len(s) : Closes(s[i]) => closeAfter /\ Len(handled) <= s[i].req

UpgradeIsLast ==
  \A i \in 1..Len(handled) : handled[i].how = "upgrade" => i = Len(handled) /\ dead

NumAnswered ==
  IF \E i \in 1..Len(handled) : handled[i].how = "upgrade" THEN Len(handled) - 1
                                                          ELSE Len(handled)

(* The answers in w are one to each of the requests 1..n, in this order. *)
AnswersUpTo(w, n) ==
  LET A == {i \in 1..Len(w) : w[i].kind = "answer"} IN
  /\ {w[i].req : i \in A} = 1..n
  /\ \A i, k \in A : i < k => w[i].req < w[k].req

Replies ==
  /\ ClosesAt(got) /\ ClosesAt(out)
  /\ UpgradeIsLast
  /\ ~UpgradeFailed /\ ~OutOfMemory => AnswersUpTo(got \o out, NumAnswered)

H1Inv ==
  /\ H1Types /\ Control /\ Left /\ OrderlyEnd
  /\ Unconsumed /\ Parsing /\ Handling /\ Replies

-----------------------------------------------------------------------------
(* Induction over the naturals, for the sequences the stream is built from. *)

(* Every set of naturals that is not empty has a least element. *)
LEMMA Least ==
  ASSUME NEW T \in SUBSET Nat, T # {}
  PROVE  \E m \in T : \A k \in T : m <= k
<1> DEFINE R == {p \in Nat \X Nat : p[1] < p[2]}
<1>1. IsWellFoundedOn(R, Nat)
  BY NatLessThanWellFounded DEF OpToRel
<1> HIDE DEF R
<1>2. \E m \in T : \A k \in T : ~(<<k, m>> \in R)
  BY <1>1, WFMin
<1>3. PICK m \in T : \A k \in T : ~(<<k, m>> \in R)
  BY <1>2
<1>4. ASSUME NEW k \in T PROVE m <= k
  <2>1. m \in Nat /\ k \in Nat
    OBVIOUS
  <2>2. k < m => <<k, m>> \in R
    BY <2>1 DEF R
  <2>3. QED BY <1>3, <2>1, <2>2
<1>5. QED
  BY <1>3, <1>4

(* Induction, for a set of naturals. *)
LEMMA SetInduction ==
  ASSUME NEW S \in SUBSET Nat, 0 \in S, \A n \in S : n + 1 \in S
  PROVE  S = Nat
<1>1. SUFFICES ASSUME S # Nat PROVE FALSE
  OBVIOUS
<1>2. PICK m \in Nat \ S : \A k \in Nat \ S : m <= k
  <2>1. Nat \ S # {} /\ Nat \ S \in SUBSET Nat
    BY <1>1
  <2>2. QED BY <2>1, Least
<1>3. m # 0 /\ m - 1 \in Nat /\ m - 1 \in S
  BY <1>2
<1>4. QED
  BY <1>2, <1>3

-----------------------------------------------------------------------------
(* What FlattenSeq returns. *)

(* f holds, for every i in 1..n, the first i sequences of ss in a row. *)
Join(a, b) == a \o b

Row(f, ss, n) == \A i \in 1..n : f[i] = IF i = 1 THEN ss[i] ELSE Join(f[i - 1], ss[i])

Flattens(f, ss, n) == f = [i \in 1..n |-> f[i]] /\ Row(f, ss, n)

LEMMA RowStep ==
  ASSUME NEW f, NEW ss, NEW n, Row(f, ss, n), NEW i, NEW j \in 1..n, j # 1, i = j - 1
  PROVE  f[j] = Join(f[i], ss[j])
<1>1. f[j] = Join(f[j - 1], ss[j])
  BY Zenon DEF Row
<1>2. QED
  BY <1>1, Zenon

LEMMA RowsAgree ==
  ASSUME NEW f, NEW g, NEW ss, NEW tt, NEW m, NEW n, Row(f, tt, m), Row(g, ss, n),
         NEW i, NEW j \in 1..n, j \in 1..m, i = j - 1, tt[j] = ss[j],
         j # 1 => f[i] = g[i]
  PROVE  f[j] = g[j]
<1>1. CASE j = 1
  BY <1>1, Zenon DEF Row
<1>2. CASE j # 1
  <2>1. f[j] = Join(f[i], tt[j]) /\ g[j] = Join(g[i], ss[j])
    BY <1>2, RowStep
  <2>2. QED BY <1>2, <2>1, Zenon
<1>3. QED BY <1>1, <1>2

LEMMA FlattensExists ==
  ASSUME NEW ss
  PROVE  \A n \in Nat : \E f : Flattens(f, ss, n)
<1> DEFINE T == {n \in Nat : \E f : Flattens(f, ss, n)}
<1>1. 0 \in T
  <2>1. Flattens([i \in 1..0 |-> 0], ss, 0)
    BY DEF Flattens, Row
  <2>2. QED BY <2>1
<1>2. ASSUME NEW n \in T PROVE n + 1 \in T
  <2>1. PICK f : Flattens(f, ss, n)
    OBVIOUS
  <2>0. n \in Nat /\ Row(f, ss, n)
    BY <2>1 DEF Flattens
  <2> DEFINE g == [i \in 1..(n + 1) |-> IF i <= n THEN f[i]
                     ELSE IF i = 1 THEN ss[i] ELSE Join(f[i - 1], ss[i])]
  <2>2. ASSUME NEW i \in 1..(n + 1)
        PROVE  g[i] = IF i = 1 THEN ss[i] ELSE Join(g[i - 1], ss[i])
    <3>1. CASE i <= n
      <4>1. f[i] = IF i = 1 THEN ss[i] ELSE Join(f[i - 1], ss[i])
        BY <2>0, <3>1 DEF Row
      <4>2. g[i] = f[i] /\ (i # 1 => g[i - 1] = f[i - 1])
        BY <3>1
      <4>3. QED BY <4>1, <4>2
    <3>2. CASE i = n + 1
      <4>1. i # 1 => g[i - 1] = f[i - 1]
        BY <3>2
      <4>2. QED BY <3>2, <4>1
    <3>3. QED BY <3>1, <3>2
  <2>3. g = [i \in 1..(n + 1) |-> g[i]]
    OBVIOUS
  <2> HIDE DEF g
  <2>4. Flattens(g, ss, n + 1)
    BY <2>2, <2>3 DEF Flattens, Row
  <2>5. QED BY <2>4
<1> HIDE DEF T
<1>3. T = Nat
  <2>1. T \in SUBSET Nat BY DEF T
  <2>2. QED BY <1>1, <1>2, <2>1, SetInduction
<1>4. QED BY <1>3 DEF T

LEMMA FlattenSeqIs ==
  ASSUME NEW ss, Len(ss) \in Nat \ {0}
  PROVE  \E f : Flattens(f, ss, Len(ss)) /\ FlattenSeq(ss) = f[Len(ss)]
<1> DEFINE Step(f) == [i \in 1..Len(ss) |-> IF i = 1 THEN ss[i] ELSE Join(f[i - 1], ss[i])]
           g == CHOOSE f : f = Step(f)
<1>1. \E f : f = Step(f)
  <2>1. PICK f : Flattens(f, ss, Len(ss))
    BY FlattensExists
  <2>2. f = Step(f)
    BY <2>1 DEF Flattens, Row
  <2>3. QED BY <2>2
<1>2. FlattenSeq(ss) = g[Len(ss)]
  BY DEF FlattenSeq, Join
<1>3. g = Step(g)
  <2> HIDE DEF Step
  <2>1. QED BY <1>1
<1> HIDE DEF g
<1>4. Flattens(g, ss, Len(ss))
  <2> DEFINE h == Step(g)
  <2>1. h = [i \in 1..Len(ss) |-> h[i]]
        /\ \A i \in 1..Len(ss) : h[i] = IF i = 1 THEN ss[i] ELSE Join(g[i - 1], ss[i])
    OBVIOUS
  <2>2. g = h
    BY <1>3
  <2> HIDE DEF h
  <2>3. QED BY <2>1, <2>2 DEF Flattens, Row
<1>5. QED BY <1>2, <1>4

LEMMA FlattenEmpty == FlattenSeq(<<>>) = <<>>
BY DEF FlattenSeq

(* Flattening one sequence more. *)
LEMMA FlattenAppend ==
  ASSUME NEW S, NEW ss \in Seq(Seq(S)), NEW x \in Seq(S), FlattenSeq(ss) \in Seq(S)
  PROVE  FlattenSeq(Append(ss, x)) = FlattenSeq(ss) \o x
<1> DEFINE tt == Append(ss, x)
           n == Len(ss)
<1>1. Len(tt) = n + 1 /\ n \in Nat /\ tt[n + 1] = x /\ \A i \in 1..n : tt[i] = ss[i]
  OBVIOUS
<1> HIDE DEF tt
<1>2. PICK f : Row(f, tt, n + 1) /\ FlattenSeq(tt) = f[n + 1]
  BY <1>1, FlattenSeqIs DEF Flattens
<1>3. CASE n = 0
  <2>1. f[1] = x
    BY <1>1, <1>2, <1>3 DEF Row
  <2>2. ss = <<>>
    BY <1>3
  <2>3. QED BY <1>2, <1>3, <2>1, <2>2, FlattenEmpty DEF tt
<1>4. CASE n # 0
  <2>1. PICK g : Row(g, ss, n) /\ FlattenSeq(ss) = g[n]
    BY <1>1, <1>4, FlattenSeqIs DEF Flattens
  <2> DEFINE T == {k \in Nat : k \in 1..n => f[k] = g[k]}
  <2>2. 0 \in T
    OBVIOUS
  <2>3. ASSUME NEW k \in T PROVE k + 1 \in T
    <3>1. SUFFICES ASSUME NEW j, j = k + 1, j \in 1..n PROVE f[j] = g[j]
      OBVIOUS
    <3>2. j \in 1..(n + 1) /\ k = j - 1 /\ tt[j] = ss[j] /\ (j # 1 => f[k] = g[k])
      BY <1>1, <3>1
    <3> HIDE DEF T
    <3>3. QED BY <1>2, <2>1, <3>1, <3>2, RowsAgree, SMT
  <2> HIDE DEF T
  <2>4. T = Nat
    <3>1. T \in SUBSET Nat BY DEF T
    <3>2. QED BY <2>2, <2>3, <3>1, SetInduction
  <2>5. f[n] = g[n]
    <3>1. n \in T /\ n \in 1..n
      BY <1>1, <1>4, <2>4
    <3>2. QED BY <3>1 DEF T
  <2>6. f[n + 1] = f[n] \o x
    <3>1. n + 1 \in 1..(n + 1) /\ n + 1 # 1 /\ n = n + 1 - 1
      BY <1>1, <1>4
    <3>2. f[n + 1] = Join(f[n], tt[n + 1])
      BY <1>2, <3>1, RowStep
    <3>3. QED BY <1>1, <3>2 DEF Join
  <2>7. QED BY <1>2, <2>1, <2>5, <2>6 DEF tt
<1>5. QED BY <1>3, <1>4

LEMMA JoinFacts ==
  ASSUME NEW S, NEW a \in Seq(S), NEW b \in Seq(S), NEW c, c = a \o b
  PROVE  /\ c \in Seq(S) /\ Len(c) = Len(a) + Len(b) /\ Len(a) \in Nat /\ Len(b) \in Nat
         /\ \A j \in 1..Len(a) : c[j] = a[j]
         /\ \A j \in 1..Len(b) : c[Len(a) + j] = b[j]
OBVIOUS

LEMMA FirstStep ==
  ASSUME NEW S, NEW ss \in Seq(Seq(S)), NEW k \in Nat, NEW i \in 1..Len(ss), k = i - 1,
         First(ss, k) \in Seq(S)
  PROVE  First(ss, i) = First(ss, k) \o ss[i] /\ ss[i] \in Seq(S)
<1> DEFINE p == SubSeq(ss, 1, k)
<1>1. p \in Seq(Seq(S)) /\ ss[i] \in Seq(S)
  OBVIOUS
<1>2. SubSeq(ss, 1, i) = Append(p, ss[i])
  OBVIOUS
<1>3. First(ss, k) = FlattenSeq(p) /\ First(ss, i) = FlattenSeq(SubSeq(ss, 1, i))
  BY DEF First
<1> HIDE DEF p
<1>4. FlattenSeq(Append(p, ss[i])) = FlattenSeq(p) \o ss[i]
  BY <1>1, <1>3, FlattenAppend
<1>5. QED BY <1>1, <1>2, <1>3, <1>4

LEMMA FirstZero ==
  ASSUME NEW S, NEW ss \in Seq(Seq(S))
  PROVE  First(ss, 0) = <<>> /\ First(ss, Len(ss)) = FlattenSeq(ss) /\ Len(ss) \in Nat
<1>1. SubSeq(ss, 1, 0) = <<>> /\ SubSeq(ss, 1, Len(ss)) = ss /\ Len(ss) \in Nat
  OBVIOUS
<1>2. QED BY <1>1, FlattenEmpty DEF First


(* x is in s, from position p on. *)
Within(s, p, x) == p + Len(x) <= Len(s) /\ \A j \in 1..Len(x) : s[p + j] = x[j]

LEMMA WithinJoin ==
  ASSUME NEW S, NEW a \in Seq(S), NEW b \in Seq(S), NEW c, c = a \o b,
         NEW x \in Seq(S), NEW p \in Nat, Within(a, p, x)
  PROVE  Within(c, p, x)
<1>1. /\ Len(c) = Len(a) + Len(b) /\ Len(a) \in Nat /\ Len(b) \in Nat
      /\ \A j \in 1..Len(a) : c[j] = a[j]
  BY JoinFacts
<1>2. Len(x) \in Nat
  OBVIOUS
<1>3. p + Len(x) <= Len(a) /\ \A j \in 1..Len(x) : a[p + j] = x[j]
  BY DEF Within
<1>4. ASSUME NEW j \in 1..Len(x) PROVE c[p + j] = x[j]
  <2>1. p + j \in 1..Len(a)
    BY <1>1, <1>2, <1>3
  <2>2. QED BY <1>1, <1>3, <2>1
<1>5. QED BY <1>1, <1>2, <1>3, <1>4 DEF Within

LEMMA WithinLast ==
  ASSUME NEW S, NEW a \in Seq(S), NEW b \in Seq(S), NEW c, c = a \o b
  PROVE  Within(c, Len(a), b)
BY JoinFacts DEF Within

Placed(S, ss, i) ==
  /\ First(ss, i) \in Seq(S) /\ Before(ss, i) \in Nat
  /\ \A m \in 1..i : /\ Before(ss, m - 1) \in Nat
                     /\ Before(ss, m) = Before(ss, m - 1) + Len(ss[m])
                     /\ Within(First(ss, i), Before(ss, m - 1), ss[m])

LEMMA PlacedStep ==
  ASSUME NEW S, NEW ss \in Seq(Seq(S)), NEW k \in Nat, NEW i \in 1..Len(ss), k = i - 1,
         Placed(S, ss, k)
  PROVE  Placed(S, ss, i)
<1>1. First(ss, k) \in Seq(S) /\ Before(ss, k) \in Nat
  BY DEF Placed
<1>2. First(ss, i) = First(ss, k) \o ss[i] /\ ss[i] \in Seq(S)
  BY <1>1, FirstStep
<1>3. /\ First(ss, i) \in Seq(S)
      /\ Before(ss, i) = Before(ss, k) + Len(ss[i]) /\ Before(ss, i) \in Nat
  <2> DEFINE a == First(ss, k)
             b == ss[i]
             c == First(ss, i)
  <2> HIDE DEF a, b, c
  <2>1. a \in Seq(S) /\ b \in Seq(S) /\ c = a \o b
    BY <1>1, <1>2 DEF a, b, c
  <2>2. c \in Seq(S) /\ Len(c) = Len(a) + Len(b) /\ Len(c) \in Nat
    BY <2>1
  <2>3. QED BY <2>2, Zenon DEF Before, a, b, c
<1>4. Within(First(ss, i), Before(ss, k), ss[i])
  BY <1>1, <1>2, WithinLast DEF Before
<1>5. ASSUME NEW m \in 1..k
      PROVE  /\ Before(ss, m - 1) \in Nat
             /\ Before(ss, m) = Before(ss, m - 1) + Len(ss[m])
             /\ Within(First(ss, i), Before(ss, m - 1), ss[m])
  <2>1. /\ Before(ss, m - 1) \in Nat
        /\ Before(ss, m) = Before(ss, m - 1) + Len(ss[m])
        /\ Within(First(ss, k), Before(ss, m - 1), ss[m])
    BY <1>5, Zenon DEF Placed
  <2>2. ss[m] \in Seq(S)
    OBVIOUS
  <2>3. Within(First(ss, i), Before(ss, m - 1), ss[m])
    BY <1>1, <1>2, <2>1, <2>2, WithinJoin
  <2>4. QED BY <2>1, <2>3
<1>6. ASSUME NEW m \in 1..i
      PROVE  /\ Before(ss, m - 1) \in Nat
             /\ Before(ss, m) = Before(ss, m - 1) + Len(ss[m])
             /\ Within(First(ss, i), Before(ss, m - 1), ss[m])
  <2>1. m \in 1..k \/ (m = i /\ m - 1 = k)
    OBVIOUS
  <2>2. CASE m \in 1..k
    BY <1>5, <2>2, Zenon
  <2>3. CASE m = i /\ m - 1 = k
    BY <1>1, <1>3, <1>4, <2>3, Zenon
  <2>4. QED BY <2>1, <2>2, <2>3
<1>7. QED BY <1>3, <1>6, Zenon DEF Placed

LEMMA AllPlaced ==
  ASSUME NEW S, NEW ss \in Seq(Seq(S))
  PROVE  \A i \in 0..Len(ss) : Placed(S, ss, i)
<1> DEFINE T == {i \in Nat : i <= Len(ss) => Placed(S, ss, i)}
<1>1. 0 \in T
  <2>1. First(ss, 0) = <<>> BY FirstZero
  <2>2. First(ss, 0) \in Seq(S) /\ Before(ss, 0) \in Nat
    <3>1. <<>> \in Seq(S) /\ Len(<<>>) \in Nat
      OBVIOUS
    <3>2. QED BY <2>1, <3>1, Zenon DEF Before
  <2>3. 1..0 = {}
    OBVIOUS
  <2>4. Placed(S, ss, 0)
    BY <2>2, <2>3, Zenon DEF Placed
  <2>5. QED BY <2>4
<1>2. ASSUME NEW i \in T PROVE i + 1 \in T
  <2>1. SUFFICES ASSUME NEW n \in Nat, n = i + 1, n <= Len(ss) PROVE Placed(S, ss, n)
    OBVIOUS
  <2>2. i \in Nat /\ Placed(S, ss, i) /\ n \in 1..Len(ss) /\ i = n - 1
    BY <2>1
  <2>3. QED BY <2>2, PlacedStep
<1> HIDE DEF T
<1>3. T = Nat
  <2>1. T \in SUBSET Nat BY DEF T
  <2>2. QED BY <1>1, <1>2, <2>1, SetInduction
<1>4. QED
  <2>1. SUFFICES ASSUME NEW i \in 0..Len(ss) PROVE Placed(S, ss, i)
    OBVIOUS
  <2>2. i \in T /\ i <= Len(ss)
    BY <1>3
  <2>3. QED BY <2>2 DEF T

(* Where the i-th of a row of sequences is in their concatenation. *)
LEMMA Flattened ==
  ASSUME NEW S, NEW ss \in Seq(Seq(S))
  PROVE  /\ FlattenSeq(ss) \in Seq(S)
         /\ Before(ss, 0) = 0 /\ Before(ss, Len(ss)) = Len(FlattenSeq(ss))
         /\ \A i \in 1..Len(ss) :
              /\ Before(ss, i - 1) \in Nat
              /\ Before(ss, i) = Before(ss, i - 1) + Len(ss[i])
              /\ Within(FlattenSeq(ss), Before(ss, i - 1), ss[i])
<1>1. Len(ss) \in Nat /\ First(ss, 0) = <<>> /\ First(ss, Len(ss)) = FlattenSeq(ss)
  BY FirstZero
<1>2. Placed(S, ss, Len(ss))
  <2>1. Len(ss) \in 0..Len(ss) BY <1>1
  <2>2. QED BY <2>1, AllPlaced
<1>3. Before(ss, 0) = 0
  BY <1>1 DEF Before
<1>4. QED BY <1>1, <1>2, <1>3, Zenon DEF Placed, Before
-----------------------------------------------------------------------------
(* Where each token of the client's stream is. *)

GoodShape(s) ==
  /\ s.framing \in Framings
  /\ s.body \in Seq(Nat)
  /\ s.framing = "cl" => Len(s.body) = 1
  /\ {s.close, s.ws} \subseteq BOOLEAN

LEMMA ShapeIsGood ==
  ASSUME NEW sh, FittingShapes(sh), NEW r \in 1..NumRequests
  PROVE  GoodShape(sh[r])
BY ShapesAssumption DEF FittingShapes, GoodShape

LEMMA TokIsToken ==
  ASSUME NEW k \in Kinds, NEW r \in 1..NumRequests, NEW n \in Nat
  PROVE  /\ Tok(k, r, n) \in Token
         /\ Tok(k, r, n).kind = k /\ Tok(k, r, n).req = r /\ Tok(k, r, n).size = n
BY DEF Tok, Token

LEMMA DataIs ==
  ASSUME NEW r \in 1..NumRequests, NEW n \in Nat
  PROVE  /\ Data(r, n) \in Seq(Token) /\ Len(Data(r, n)) = n
         /\ \A i \in 1..n : Data(r, n)[i] = Tok("data", r, i)
<1>1. \A i \in 1..n : Tok("data", r, i) \in Token
  BY TokIsToken DEF Kinds
<1>2. QED BY <1>1 DEF Data

LEMMA ChunkIs ==
  ASSUME NEW r \in 1..NumRequests, NEW n \in Nat
  PROVE  /\ Chunk(r, n) \in Seq(Token) /\ Len(Chunk(r, n)) = n + 2
         /\ Chunk(r, n)[1] = Tok("size", r, n)
         /\ \A i \in 1..n : Chunk(r, n)[1 + i] = Tok("data", r, i)
         /\ Chunk(r, n)[n + 2] = Tok("crlf", r, 0)
<1> DEFINE a == Tok("size", r, n)
           z == Tok("crlf", r, 0)
           d == Data(r, n)
<1>1. a \in Token /\ z \in Token
  BY TokIsToken DEF Kinds
<1>2. d \in Seq(Token) /\ Len(d) = n /\ \A i \in 1..n : d[i] = Tok("data", r, i)
  BY DataIs
<1>3. Chunk(r, n) = <<a>> \o d \o <<z>>
  BY DEF Chunk
<1> HIDE DEF a, z, d
<1> DEFINE c == <<a>> \o d \o <<z>>
<1>4. c \in Seq(Token) /\ Len(c) = n + 2 /\ c[1] = a /\ c[n + 2] = z
  BY <1>1, <1>2
<1>5. \A i \in 1..n : c[1 + i] = d[i]
  BY <1>1, <1>2
<1>6. QED BY <1>2, <1>3, <1>4, <1>5 DEF a, z

LEMMA ChunksAre ==
  ASSUME NEW r \in 1..NumRequests, NEW s, GoodShape(s)
  PROVE  /\ Chunks(r, s) \in Seq(Seq(Token)) /\ Len(Chunks(r, s)) = Len(s.body)
         /\ \A c \in 1..Len(s.body) : Chunks(r, s)[c] = Chunk(r, s.body[c])
<1>1. s.body \in Seq(Nat) /\ Len(s.body) \in Nat
  BY DEF GoodShape
<1>2. \A c \in 1..Len(s.body) : Chunk(r, s.body[c]) \in Seq(Token)
  BY <1>1, ChunkIs
<1>3. QED BY <1>1, <1>2 DEF Chunks

LEMMA PayloadIs ==
  ASSUME NEW r \in 1..NumRequests, NEW s, GoodShape(s)
  PROVE  /\ Payload(r, s) \in Seq(Seq(Token)) /\ Len(Payload(r, s)) = Len(s.body)
         /\ \A c \in 1..Len(s.body) : Payload(r, s)[c] = Data(r, s.body[c])
<1>1. s.body \in Seq(Nat) /\ Len(s.body) \in Nat
  BY DEF GoodShape
<1>2. \A c \in 1..Len(s.body) : Data(r, s.body[c]) \in Seq(Token)
  <2>1. \A n \in Nat : Data(r, n) \in Seq(Token)
    BY DataIs
  <2>2. \A c \in 1..Len(s.body) : s.body[c] \in Nat
    BY <1>1
  <2>3. QED BY <2>1, <2>2
<1>3. QED BY <1>1, <1>2 DEF Payload

(* The tokens of the chunks: chunk c + 1 follows the first c. *)
LEMMA ChunksLaid ==
  ASSUME NEW r \in 1..NumRequests, NEW s, GoodShape(s)
  PROVE  /\ FlattenSeq(Chunks(r, s)) \in Seq(Token)
         /\ ChunksEnd(r, s, 0) = 0
         /\ ChunksEnd(r, s, Len(s.body)) = Len(FlattenSeq(Chunks(r, s)))
<1>1. /\ Chunks(r, s) \in Seq(Seq(Token)) /\ Len(Chunks(r, s)) = Len(s.body)
  BY ChunksAre
<1>2. QED BY <1>1, Flattened DEF ChunksEnd

LEMMA ChunkLaid ==
  ASSUME NEW r \in 1..NumRequests, NEW s, GoodShape(s), NEW c \in 1..Len(s.body)
  PROVE  LET f == FlattenSeq(Chunks(r, s))
             p == ChunksEnd(r, s, c - 1) 
             n == s.body[c] IN
         /\ p \in Nat /\ n \in Nat /\ p + n + 2 <= Len(f)
         /\ ChunksEnd(r, s, c) = p + n + 2
         /\ f[p + 1] = Tok("size", r, n)
         /\ \A i \in 1..n : f[p + 1 + i] = Tok("data", r, i)
         /\ f[p + n + 2] = Tok("crlf", r, 0)
<1> DEFINE f == FlattenSeq(Chunks(r, s))
           p == ChunksEnd(r, s, c - 1) 
           n == s.body[c]
           k == Chunk(r, n)
<1>1. n \in Nat /\ Chunks(r, s)[c] = k
  BY ChunksAre DEF GoodShape
<1>2. /\ k \in Seq(Token) /\ Len(k) = n + 2
      /\ k[1] = Tok("size", r, n)
      /\ \A i \in 1..n : k[1 + i] = Tok("data", r, i)
      /\ k[n + 2] = Tok("crlf", r, 0)
  BY <1>1, ChunkIs
<1>3. /\ Chunks(r, s) \in Seq(Seq(Token)) /\ c \in 1..Len(Chunks(r, s))
  BY ChunksAre
<1>4. p \in Nat /\ ChunksEnd(r, s, c) = p + Len(k) /\ Within(f, p, k)
  <2>1. /\ Before(Chunks(r, s), c - 1) \in Nat
        /\ Before(Chunks(r, s), c) = Before(Chunks(r, s), c - 1) + Len(Chunks(r, s)[c])
        /\ Within(FlattenSeq(Chunks(r, s)), Before(Chunks(r, s), c - 1), Chunks(r, s)[c])
    BY <1>3, Flattened
  <2>2. QED BY <1>1, <2>1, Zenon DEF ChunksEnd
<1> HIDE DEF f, p, n, k
<1>5. p + Len(k) <= Len(f) /\ \A j \in 1..(n + 2) : f[p + j] = k[j]
  BY <1>2, <1>4 DEF Within
<1>6. \A i \in 1..n : f[p + 1 + i] = Tok("data", r, i)
  <2>1. SUFFICES ASSUME NEW i \in 1..n PROVE f[p + 1 + i] = Tok("data", r, i)
    OBVIOUS
  <2>2. 1 + i \in 1..(n + 2) /\ p + (1 + i) = p + 1 + i
    BY <1>1, <1>4
  <2>3. QED BY <1>2, <1>5, <2>2
<1>7. f[p + 1] = Tok("size", r, n) /\ f[p + n + 2] = Tok("crlf", r, 0)
  <2>1. 1 \in 1..(n + 2) /\ n + 2 \in 1..(n + 2) /\ p + (n + 2) = p + n + 2
    BY <1>1, <1>4
  <2>2. QED BY <1>2, <1>5, <2>1
<1>8. p + n + 2 <= Len(f) /\ ChunksEnd(r, s, c) = p + n + 2
  BY <1>1, <1>2, <1>4, <1>5
<1>9. QED BY <1>1, <1>4, <1>6, <1>7, <1>8 DEF f, p, n

(* The same of the body: the payload of chunk c + 1 follows that of the first c. *)
LEMMA PayloadLaid ==
  ASSUME NEW r \in 1..NumRequests, NEW s, GoodShape(s), s.framing = "chunked"
  PROVE  /\ BodyOf(r, s) \in Seq(Token)
         /\ PayloadEnd(r, s, 0) = 0
         /\ PayloadEnd(r, s, Len(s.body)) = Len(BodyOf(r, s))
         /\ \A c \in 1..Len(s.body) :
              /\ PayloadEnd(r, s, c - 1) \in Nat
              /\ PayloadEnd(r, s, c) = PayloadEnd(r, s, c - 1) + s.body[c]
              /\ PayloadEnd(r, s, c) <= Len(BodyOf(r, s))
              /\ \A i \in 1..s.body[c] :
                   BodyOf(r, s)[PayloadEnd(r, s, c - 1) + i] = Tok("data", r, i)
<1>1. /\ Payload(r, s) \in Seq(Seq(Token)) /\ Len(Payload(r, s)) = Len(s.body)
      /\ \A c \in 1..Len(s.body) : Payload(r, s)[c] = Data(r, s.body[c])
  BY PayloadIs
<1>2. BodyOf(r, s) = FlattenSeq(Payload(r, s))
  BY DEF BodyOf, Payload
<1>3. /\ BodyOf(r, s) \in Seq(Token)
      /\ PayloadEnd(r, s, 0) = 0
      /\ PayloadEnd(r, s, Len(s.body)) = Len(BodyOf(r, s))
  BY <1>1, <1>2, Flattened DEF PayloadEnd
<1>4. ASSUME NEW c \in 1..Len(s.body)
      PROVE  /\ PayloadEnd(r, s, c - 1) \in Nat
             /\ PayloadEnd(r, s, c) = PayloadEnd(r, s, c - 1) + s.body[c]
             /\ PayloadEnd(r, s, c) <= Len(BodyOf(r, s))
             /\ \A i \in 1..s.body[c] :
                  BodyOf(r, s)[PayloadEnd(r, s, c - 1) + i] = Tok("data", r, i)
  <2> DEFINE f == BodyOf(r, s)
             p == PayloadEnd(r, s, c - 1)
             n == s.body[c]
             d == Data(r, n)
  <2>1. n \in Nat
    BY DEF GoodShape
  <2>2. d \in Seq(Token) /\ Len(d) = n /\ \A i \in 1..n : d[i] = Tok("data", r, i)
    BY <2>1, DataIs
  <2>3. p \in Nat /\ PayloadEnd(r, s, c) = p + Len(d) /\ Within(f, p, d)
    <3>1. /\ Before(Payload(r, s), c - 1) \in Nat
          /\ Before(Payload(r, s), c) = Before(Payload(r, s), c - 1) + Len(Payload(r, s)[c])
          /\ Within(FlattenSeq(Payload(r, s)), Before(Payload(r, s), c - 1), Payload(r, s)[c])
      BY <1>1, Flattened
    <3>2. QED BY <1>1, <1>2, <3>1, Zenon DEF PayloadEnd
  <2> HIDE DEF f, p, n, d
  <2>4. p + Len(d) <= Len(f) /\ \A j \in 1..n : f[p + j] = d[j]
    BY <2>2, <2>3 DEF Within
  <2>5. QED BY <2>1, <2>2, <2>3, <2>4 DEF f, p, n
<1>5. QED BY <1>3, <1>4

(* The other two framings. *)
LEMMA PlainBodies ==
  ASSUME NEW r \in 1..NumRequests, NEW s, GoodShape(s), s.framing # "chunked"
  PROVE  /\ BodyOf(r, s) \in Seq(Token) /\ BodyTokens(r, s) = BodyOf(r, s)
         /\ Len(BodyOf(r, s)) = IF s.framing = "cl" THEN s.body[1] ELSE 0
         /\ s.framing = "cl" => s.body[1] \in Nat
<1>1. s.framing \in {"none", "cl"} /\ (s.framing = "cl" => s.body[1] \in Nat)
  BY DEF GoodShape, Framings
<1>2. CASE s.framing = "none"
  <2>1. BodyOf(r, s) = <<>> /\ BodyTokens(r, s) = <<>>
    BY <1>2 DEF BodyOf, BodyTokens
  <2>2. QED BY <1>1, <1>2, <2>1
<1>3. CASE s.framing = "cl"
  <2>1. BodyOf(r, s) = Data(r, s.body[1]) /\ BodyTokens(r, s) = Data(r, s.body[1])
    BY <1>3 DEF BodyOf, BodyTokens
  <2>2. QED BY <1>1, <1>3, <2>1, DataIs
<1>4. QED BY <1>1, <1>2, <1>3

LEMMA ChunkedBody ==
  ASSUME NEW r \in 1..NumRequests, NEW s, GoodShape(s), s.framing = "chunked"
  PROVE  LET e == ChunksEnd(r, s, Len(s.body)) 
             b == BodyTokens(r, s) IN
         /\ e \in Nat /\ b \in Seq(Token) /\ Len(b) = e + 2
         /\ \A i \in 1..e : b[i] = FlattenSeq(Chunks(r, s))[i]
         /\ b[e + 1] = Tok("last", r, 0) /\ b[e + 2] = Tok("trailer", r, 0)
<1> DEFINE f == FlattenSeq(Chunks(r, s))
           x == Tok("last", r, 0)
           y == Tok("trailer", r, 0)
<1>1. f \in Seq(Token) /\ ChunksEnd(r, s, Len(s.body)) = Len(f)
  BY ChunksLaid
<1>2. x \in Token /\ y \in Token
  BY TokIsToken DEF Kinds
<1>3. BodyTokens(r, s) = f \o <<x, y>>
  BY DEF BodyTokens
<1> HIDE DEF f, x, y
<1> DEFINE b == f \o <<x, y>>
<1>4. /\ Len(f) \in Nat /\ b \in Seq(Token) /\ Len(b) = Len(f) + 2
      /\ \A i \in 1..Len(f) : b[i] = f[i]
      /\ b[Len(f) + 1] = x /\ b[Len(f) + 2] = y
  BY <1>1, <1>2
<1>5. QED BY <1>1, <1>3, <1>4 DEF f, x, y

LEMMA BodyTokensType ==
  ASSUME NEW r \in 1..NumRequests, NEW s, GoodShape(s)
  PROVE  BodyTokens(r, s) \in Seq(Token)
BY PlainBodies, ChunkedBody

LEMMA TokensOfAre ==
  ASSUME NEW r \in 1..NumRequests, NEW s, GoodShape(s)
  PROVE  LET t == TokensOf(r, s)
             b == BodyTokens(r, s) IN
         /\ t \in Seq(Token) /\ Len(t) = 3 + Len(b) /\ b \in Seq(Token)
         /\ t[1] = Tok("line0", r, 0) /\ t[2] = Tok("line", r, 0) /\ t[3] = Tok("head", r, 0)
         /\ \A i \in 1..Len(b) : t[3 + i] = b[i]
<1> DEFINE b == BodyTokens(r, s)
           x == Tok("line0", r, 0)
           y == Tok("line", r, 0)
           z == Tok("head", r, 0)
<1>1. x \in Token /\ y \in Token /\ z \in Token
  BY TokIsToken DEF Kinds
<1>2. b \in Seq(Token)
  BY BodyTokensType
<1>3. TokensOf(r, s) = <<x, y, z>> \o b
  BY DEF TokensOf
<1> HIDE DEF b, x, y, z
<1> DEFINE t == <<x, y, z>> \o b
<1>4. /\ t \in Seq(Token) /\ Len(t) = 3 + Len(b)
      /\ t[1] = x /\ t[2] = y /\ t[3] = z
      /\ \A i \in 1..Len(b) : t[3 + i] = b[i]
  BY <1>1, <1>2
<1>5. QED BY <1>2, <1>3, <1>4 DEF b, x, y, z

LEMMA RequestsAre ==
  ASSUME NEW sh, FittingShapes(sh)
  PROVE  /\ Requests(sh) \in Seq(Seq(Token)) /\ Len(Requests(sh)) = NumRequests
         /\ Stream(sh) = FlattenSeq(Requests(sh))
         /\ \A r \in 1..NumRequests : Requests(sh)[r] = TokensOf(r, sh[r])
<1>1. NumRequests \in Nat
  BY ShapesAssumption
<1>2. \A r \in 1..NumRequests : TokensOf(r, sh[r]) \in Seq(Token)
  BY TokensOfAre, ShapeIsGood
<1>3. QED BY <1>1, <1>2 DEF Requests, Stream

LEMMA StreamLaid ==
  ASSUME NEW sh, FittingShapes(sh)
  PROVE  /\ Stream(sh) \in Seq(Token)
         /\ Start(sh, 1) = 0 /\ Start(sh, NumRequests + 1) = Len(Stream(sh))
<1>1. NumRequests \in Nat /\ 1 - 1 = 0 /\ NumRequests + 1 - 1 = NumRequests
  BY ShapesAssumption
<1>2. /\ Requests(sh) \in Seq(Seq(Token)) /\ Len(Requests(sh)) = NumRequests
      /\ Stream(sh) = FlattenSeq(Requests(sh))
  BY RequestsAre
<1>3. /\ FlattenSeq(Requests(sh)) \in Seq(Token)
      /\ Before(Requests(sh), 0) = 0
      /\ Before(Requests(sh), NumRequests) = Len(FlattenSeq(Requests(sh)))
  BY <1>2, Flattened
<1>4. Start(sh, 1) = Before(Requests(sh), 0)
      /\ Start(sh, NumRequests + 1) = Before(Requests(sh), NumRequests)
  BY <1>1 DEF Start
<1>5. QED BY <1>2, <1>3, <1>4

(* Request r in the stream. *)
LEMMA RequestLaid ==
  ASSUME NEW sh, FittingShapes(sh), NEW r \in 1..NumRequests
  PROVE  LET f == Stream(sh)
             p == Start(sh, r)
             b == BodyTokens(r, sh[r]) IN
         /\ p \in Nat /\ Start(sh, r + 1) = p + 3 + Len(b) /\ p + 3 + Len(b) <= Len(f)
         /\ b \in Seq(Token)
         /\ f[p + 1] = Tok("line0", r, 0) /\ f[p + 2] = Tok("line", r, 0)
         /\ f[p + 3] = Tok("head", r, 0)
         /\ \A i \in 1..Len(b) : f[p + 3 + i] = b[i]
<1> DEFINE f == Stream(sh)
           p == Start(sh, r)
           b == BodyTokens(r, sh[r])
           t == TokensOf(r, sh[r])
<1>1. /\ t \in Seq(Token) /\ Len(t) = 3 + Len(b) /\ b \in Seq(Token) /\ Len(b) \in Nat
      /\ t[1] = Tok("line0", r, 0) /\ t[2] = Tok("line", r, 0) /\ t[3] = Tok("head", r, 0)
      /\ \A i \in 1..Len(b) : t[3 + i] = b[i]
  <2>1. GoodShape(sh[r])
    BY ShapeIsGood
  <2>2. QED BY <2>1, TokensOfAre
<1>2. p \in Nat /\ Start(sh, r + 1) = p + Len(t) /\ Within(f, p, t)
  <2>1. /\ Requests(sh) \in Seq(Seq(Token)) /\ r \in 1..Len(Requests(sh))
        /\ Stream(sh) = FlattenSeq(Requests(sh)) /\ Requests(sh)[r] = t
    BY RequestsAre
  <2>2. /\ Before(Requests(sh), r - 1) \in Nat
        /\ Before(Requests(sh), r) = Before(Requests(sh), r - 1) + Len(Requests(sh)[r])
        /\ Within(FlattenSeq(Requests(sh)), Before(Requests(sh), r - 1), Requests(sh)[r])
    BY <2>1, Flattened
  <2>3. Start(sh, r) = Before(Requests(sh), r - 1) /\ Start(sh, r + 1) = Before(Requests(sh), r)
    BY DEF Start
  <2>4. QED BY <2>1, <2>2, <2>3, Zenon
<1> HIDE DEF f, p, b, t
<1>3. p + Len(t) <= Len(f) /\ \A j \in 1..(3 + Len(b)) : f[p + j] = t[j]
  BY <1>1, <1>2 DEF Within
<1>4. f[p + 1] = t[1] /\ f[p + 2] = t[2] /\ f[p + 3] = t[3]
  BY <1>1, <1>2, <1>3
<1>5. ASSUME NEW i \in 1..Len(b) PROVE f[p + 3 + i] = b[i]
  <2>1. 3 + i \in 1..(3 + Len(b)) /\ p + (3 + i) = p + 3 + i
    BY <1>1, <1>2
  <2>2. QED BY <1>1, <1>3, <2>1
<1>6. Start(sh, r + 1) = p + 3 + Len(b) /\ p + 3 + Len(b) <= Len(f)
  BY <1>1, <1>2, <1>3
<1>7. QED BY <1>1, <1>2, <1>4, <1>5, <1>6 DEF f, p, b

-----------------------------------------------------------------------------
(* The types and the control. *)

LEMMA ReplyType ==
  ASSUME NEW k \in {"answer", "partial", "error", "redirect", "switch"},
         NEW r \in Nat, NEW c \in BOOLEAN
  PROVE  Response(k, r, c) \in Reply
BY DEF Response, Reply

LEMMA SeqTypes ==
  ASSUME NEW S, NEW a \in Seq(S), NEW b \in Seq(S), NEW x \in S
  PROVE  Append(a, x) \in Seq(S) /\ a \o b \in Seq(S) /\ a \o <<x>> \o b \in Seq(S)
OBVIOUS

LEMMA EmptyTypes == <<>> \in Seq(Token) /\ <<>> \in Seq(Reply)
OBVIOUS

LEMMA AppendType ==
  ASSUME NEW S, NEW a \in Seq(S), NEW x \in S
  PROVE  Append(a, x) \in Seq(S)
OBVIOUS

LEMMA TwoTokens ==
  ASSUME NEW s \in Seq(Token), Len(s) > 1
  PROVE  /\ Tail(Tail(s)) \in Seq(Token) /\ Len(Tail(Tail(s))) = Len(s) - 2
         /\ \A i \in 1..(Len(s) - 2) : Tail(Tail(s))[i] = s[i + 2]
<1> DEFINE t == Tail(s)
<1>0. s # <<>> /\ Len(s) \in Nat
  OBVIOUS
<1>1. /\ t \in Seq(Token) /\ Len(t) = Len(s) - 1 /\ t # <<>>
      /\ \A i \in 1..(Len(s) - 1) : t[i] = s[i + 1]
  <2>1. t \in Seq(Token) /\ Len(t) = Len(s) - 1
    BY <1>0
  <2>2. \A i \in 1..(Len(s) - 1) : t[i] = s[i + 1]
    BY <1>0
  <2> HIDE DEF t
  <2>3. QED BY <1>0, <2>1, <2>2
<1> HIDE DEF t
<1>2. Tail(t) \in Seq(Token) /\ Len(Tail(t)) = Len(t) - 1
      /\ \A i \in 1..(Len(t) - 1) : Tail(t)[i] = t[i + 1]
  BY <1>1
<1>3. Len(s) \in Nat
  OBVIOUS
<1>4. ASSUME NEW i \in 1..(Len(s) - 2) PROVE Tail(t)[i] = s[i + 2]
  <2>1. i \in 1..(Len(t) - 1) /\ i + 1 \in 1..(Len(s) - 1) /\ i + 1 + 1 = i + 2
    BY <1>1, <1>3
  <2>2. QED BY <1>1, <1>2, <2>1
<1>5. QED BY <1>1, <1>2, <1>3, <1>4 DEF t

LEMMA FirstToken ==
  ASSUME NEW s \in Seq(Token), s # <<>>
  PROVE  /\ Head(s) = s[1] /\ Head(s) \in Token /\ Tail(s) \in Seq(Token)
         /\ Head(s).req \in 1..NumRequests /\ Head(s).req \in Nat /\ Head(s).size \in Nat
<1>1. Head(s) = s[1] /\ Head(s) \in Token /\ Tail(s) \in Seq(Token)
  OBVIOUS
<1>2. QED BY <1>1, ShapesAssumption DEF Token

(* What FeedReqLine does, case by case. *)
LEMMA ReqLineCases ==
  ASSUME H1Types, FeedReqLine
  PROVE  \/ inb # <<>> /\ EmitSimple("error") /\ UNCHANGED inb
         \/ Len(inb) <= 1 /\ LeaveFeed(FALSE) /\ NoOutput /\ UNCHANGED <<inb, st>>
         \/ /\ Len(inb) > 1 /\ inb # <<>> /\ inb' = Tail(Tail(inb)) /\ st' = "headers"
            /\ Continue /\ NoOutput
<1>1. inb \in Seq(Token)
  BY DEF H1Types
<1>2. DOMAIN inb # {} => inb # <<>>
  OBVIOUS
<1>3. Len(inb) > 1 => inb # <<>>
  BY <1>1
<1>4. (\E i \in DOMAIN inb : i <= 2 /\ Malformed(inb[i])) => DOMAIN inb # {}
  OBVIOUS
<1>5. QED BY <1>2, <1>3, <1>4 DEF FeedReqLine

LEMMA EmitTypes ==
  ASSUME H1Types, NEW k \in {"error", "redirect"}, req' \in Nat, EmitSimple(k)
  PROVE  /\ out' \in Seq(Reply) /\ closeAfter' \in BOOLEAN /\ wantClose' \in BOOLEAN
         /\ st' \in ParserStates /\ pc' = "flush"
<1>1. Response(k, req', TRUE) \in Reply
  BY ReplyType
<1>2. out' = Append(out, Response(k, req', TRUE)) /\ out \in Seq(Reply)
  BY DEF EmitSimple, H1Types
<1>3. out' \in Seq(Reply)
  BY <1>1, <1>2, AppendType
<1>4. QED BY <1>3 DEF EmitSimple, LeaveFeed, H1Types, ParserStates

LEMMA CallTypes ==
  ASSUME H1Types, NEW how \in Hows, CallHandler(how)
  PROVE  handled' \in Seq(Call)
<1>1. [req |-> req, body |-> body, how |-> how] \in Call
  BY DEF H1Types, Call
<1>2. handled \in Seq(Call)
  BY DEF H1Types
<1>3. QED BY <1>1, <1>2 DEF CallHandler

LEMMA RespondTypes ==
  ASSUME H1Types, Respond
  PROVE  out' \in Seq(Reply) /\ closeAfter' \in BOOLEAN
<1>1. ClosesAfter \in BOOLEAN
  BY DEF ClosesAfter, CapReached, H1Types
<1>2. Response("answer", req, ClosesAfter) \in Reply
  BY <1>1, ReplyType DEF H1Types
<1>3. out \in Seq(Reply) /\ closeAfter \in BOOLEAN
  BY DEF H1Types
<1>4. QED BY <1>1, <1>2, <1>3 DEF Respond

LEMMA TypesStep ==
  H1Types /\ Control /\ [Next]_vars => H1Types'
<1> SUFFICES ASSUME H1Types /\ Control, [Next]_vars PROVE H1Types'
  OBVIOUS
<1> USE DEF inputVars, connVars, assembly, history, H1Types, Control, ParserStates, ChunkStates
<1>1. CASE BeginStop
  BY <1>1 DEF BeginStop
<1>2. CASE PollRead
  <2>1. PICK k \in 0 .. (IF MaxRead < Len(unread) THEN MaxRead ELSE Len(unread)) :
          /\ inb' = inb \o SubSeq(unread, 1, k)
          /\ unread' = SubSeq(unread, k + 1, Len(unread))
    BY <1>2 DEF PollRead
  <2>2. k \in 0..Len(unread)
    BY ShapesAssumption
  <2>3. inb' \in Seq(Token) /\ unread' \in Seq(Token)
    BY <2>1, <2>2
  <2>4. QED BY <1>2, <2>3 DEF PollRead
<1>3. CASE PollEof
  BY <1>3 DEF PollEof
<1>4. CASE PollHandshake
  BY <1>4 DEF PollHandshake
<1>5. CASE Sniff
  BY <1>5 DEF Sniff
<1>6. CASE FeedReqLine
  <2>1. req' \in Nat
    BY <1>6, FirstToken DEF FeedReqLine
  <2>2. \/ \E k \in {"error", "redirect"} : EmitSimple(k)
        \/ /\ UNCHANGED <<out, closeAfter>> /\ pc' \in {"feed", "flush", "dispatch"}
           /\ st' \in ParserStates /\ wantClose' \in BOOLEAN
    BY <1>6 DEF FeedReqLine, Feeding, NoteFirstByte, feedRest, LeaveFeed, Continue, Complete, NoOutput
  <2>3. /\ out' \in Seq(Reply) /\ closeAfter' \in BOOLEAN /\ wantClose' \in BOOLEAN
        /\ st' \in ParserStates /\ pc' \in {"feed", "flush", "dispatch"}
    BY <2>1, <2>2, EmitTypes
  <2>4. inb' \in Seq(Token) /\ remaining' \in Nat /\ keepAlive' \in BOOLEAN /\ receiving' \in BOOLEAN
    <3>1. inb' \in Seq(Token)
      BY <1>6, TwoTokens DEF FeedReqLine
    <3>2. QED BY <1>6, <3>1 DEF FeedReqLine, NoteFirstByte
  <2>5. QED BY <1>6, <2>1, <2>3, <2>4 DEF FeedReqLine, Feeding, NoteFirstByte, feedRest
<1>7. CASE FeedHeaders
  <2>1. req' \in Nat
    BY <1>7 DEF FeedHeaders, Feeding, feedRest, Token
  <2>2. \/ \E k \in {"error", "redirect"} : EmitSimple(k)
        \/ /\ UNCHANGED <<out, closeAfter>> /\ pc' \in {"feed", "flush", "dispatch"}
           /\ st' \in ParserStates /\ wantClose' \in BOOLEAN
    BY <1>7 DEF FeedHeaders, Feeding, feedRest, LeaveFeed, Continue, Complete, NoOutput
  <2>3. /\ out' \in Seq(Reply) /\ closeAfter' \in BOOLEAN /\ wantClose' \in BOOLEAN
        /\ st' \in ParserStates /\ pc' \in {"feed", "flush", "dispatch"}
    BY <2>1, <2>2, EmitTypes
  <2>4. inb' \in Seq(Token) /\ remaining' \in Nat /\ keepAlive' \in BOOLEAN /\ receiving' \in BOOLEAN
    <3>1. inb' = inb \/ (inb # <<>> /\ inb' = Tail(inb))
      BY <1>7 DEF FeedHeaders
    <3>2. inb' \in Seq(Token)
      BY <3>1, FirstToken
    <3>3. GoodShape(shapes[req])
      BY <1>7, ShapeIsGood DEF FeedHeaders, Feeding
    <3>4. /\ remaining' \in {remaining, 0}
             \/ (shapes[req].framing = "cl" /\ remaining' = shapes[req].body[1])
          /\ keepAlive' = keepAlive \/ keepAlive' = ~shapes[req].close
      BY <1>7 DEF FeedHeaders
    <3>5. remaining' \in Nat /\ keepAlive' \in BOOLEAN
      <4>1. shapes[req].framing = "cl" => shapes[req].body[1] \in Nat
        BY <3>3 DEF GoodShape
      <4>2. shapes[req].close \in BOOLEAN
        BY <3>3 DEF GoodShape
      <4>3. keepAlive' \in BOOLEAN
        BY <3>4, <4>2, Zenon DEF H1Types
      <4>4. QED BY <3>4, <4>1, <4>3
    <3>6. QED BY <1>7, <3>2, <3>5 DEF FeedHeaders
  <2>5. QED BY <1>7, <2>1, <2>3, <2>4 DEF FeedHeaders, Feeding, feedRest
<1>8. CASE FeedBodyCl
  BY <1>8 DEF FeedBodyCl, Feeding, TakeBody, Complete, LeaveFeed, NoOutput, feedRest
<1>9. CASE FeedChunkWait
  BY <1>9 DEF FeedChunkWait, LeaveFeed, NoOutput, chunkRest, feedRest
<1>10. CASE FeedChunkSize
  <2>1. req' \in Nat
    BY <1>10 DEF FeedChunkSize, Feeding, chunkRest, feedRest, Token
  <2>2. \/ \E k \in {"error", "redirect"} : EmitSimple(k)
        \/ /\ UNCHANGED <<out, closeAfter>> /\ pc' \in {"feed", "flush", "dispatch"}
           /\ st' \in ParserStates /\ wantClose' \in BOOLEAN
    BY <1>10 DEF FeedChunkSize, Feeding, chunkRest, feedRest, LeaveFeed, Continue, Complete, NoOutput
  <2>3. /\ out' \in Seq(Reply) /\ closeAfter' \in BOOLEAN /\ wantClose' \in BOOLEAN
        /\ st' \in ParserStates /\ pc' \in {"feed", "flush", "dispatch"}
    BY <2>1, <2>2, EmitTypes
  <2>4. inb' \in Seq(Token) /\ remaining' \in Nat /\ keepAlive' \in BOOLEAN /\ receiving' \in BOOLEAN
    BY <1>10, FirstToken DEF FeedChunkSize, chunkRest
  <2>5. QED BY <1>10, <2>1, <2>3, <2>4 DEF FeedChunkSize, Feeding, chunkRest, feedRest
<1>11. CASE FeedChunkData
  BY <1>11 DEF FeedChunkData, Feeding, TakeBody, LeaveFeed, Continue, NoOutput, chunkRest, feedRest
<1>12. CASE FeedChunkCrlf
  <2>1. req' \in Nat
    BY <1>12 DEF FeedChunkCrlf, Feeding, chunkRest, feedRest, Token
  <2>2. \/ \E k \in {"error", "redirect"} : EmitSimple(k)
        \/ /\ UNCHANGED <<out, closeAfter>> /\ pc' \in {"feed", "flush", "dispatch"}
           /\ st' \in ParserStates /\ wantClose' \in BOOLEAN
    BY <1>12 DEF FeedChunkCrlf, Feeding, chunkRest, feedRest, LeaveFeed, Continue, Complete, NoOutput
  <2>3. /\ out' \in Seq(Reply) /\ closeAfter' \in BOOLEAN /\ wantClose' \in BOOLEAN
        /\ st' \in ParserStates /\ pc' \in {"feed", "flush", "dispatch"}
    BY <2>1, <2>2, EmitTypes
  <2>4. inb' \in Seq(Token) /\ remaining' \in Nat /\ keepAlive' \in BOOLEAN /\ receiving' \in BOOLEAN
    BY <1>12, FirstToken DEF FeedChunkCrlf, chunkRest
  <2>5. QED BY <1>12, <2>1, <2>3, <2>4 DEF FeedChunkCrlf, Feeding, chunkRest, feedRest
<1>13. CASE FeedTrailer
  <2>1. req' \in Nat
    BY <1>13 DEF FeedTrailer, Feeding, chunkRest, feedRest, Token
  <2>2. \/ \E k \in {"error", "redirect"} : EmitSimple(k)
        \/ /\ UNCHANGED <<out, closeAfter>> /\ pc' \in {"feed", "flush", "dispatch"}
           /\ st' \in ParserStates /\ wantClose' \in BOOLEAN
    BY <1>13 DEF FeedTrailer, Feeding, chunkRest, feedRest, LeaveFeed, Continue, Complete, NoOutput
  <2>3. /\ out' \in Seq(Reply) /\ closeAfter' \in BOOLEAN /\ wantClose' \in BOOLEAN
        /\ st' \in ParserStates /\ pc' \in {"feed", "flush", "dispatch"}
    BY <2>1, <2>2, EmitTypes
  <2>4. inb' \in Seq(Token) /\ remaining' \in Nat /\ keepAlive' \in BOOLEAN /\ receiving' \in BOOLEAN
    BY <1>13 DEF FeedTrailer, Feeding, chunkRest, feedRest, Token
  <2>5. QED BY <1>13, <2>1, <2>3, <2>4 DEF FeedTrailer, Feeding, chunkRest, feedRest
<1>14. CASE FeedStaleTrailer
  <2>1. req' \in Nat
    BY <1>14 DEF FeedStaleTrailer, Feeding, chunkRest, feedRest, Token
  <2>2. \/ \E k \in {"error", "redirect"} : EmitSimple(k)
        \/ /\ UNCHANGED <<out, closeAfter>> /\ pc' \in {"feed", "flush", "dispatch"}
           /\ st' \in ParserStates /\ wantClose' \in BOOLEAN
    BY <1>14 DEF FeedStaleTrailer, Feeding, chunkRest, feedRest, LeaveFeed, Continue, Complete, NoOutput
  <2>3. /\ out' \in Seq(Reply) /\ closeAfter' \in BOOLEAN /\ wantClose' \in BOOLEAN
        /\ st' \in ParserStates /\ pc' \in {"feed", "flush", "dispatch"}
    BY <2>1, <2>2, EmitTypes
  <2>4. inb' \in Seq(Token) /\ remaining' \in Nat /\ keepAlive' \in BOOLEAN /\ receiving' \in BOOLEAN
    BY <1>14 DEF FeedStaleTrailer, Feeding, chunkRest, feedRest, Token
  <2>5. QED BY <1>14, <2>1, <2>3, <2>4 DEF FeedStaleTrailer, Feeding, chunkRest, feedRest
<1>15. CASE FeedDead
  BY <1>15 DEF FeedDead, Feeding, LeaveFeed, NoOutput, feedRest
<1>16. CASE FeedHardError
  BY <1>16 DEF FeedHardError
<1>17. CASE Dispatch
  <2>1. CallHandler("answer") /\ Respond /\ AfterResponse
    BY <1>17 DEF Dispatch
  <2>2. handled' \in Seq(Call) /\ out' \in Seq(Reply) /\ closeAfter' \in BOOLEAN
    BY <2>1, CallTypes, RespondTypes DEF Hows
  <2>3. /\ st' \in ParserStates /\ receiving' \in BOOLEAN /\ keepAlive' \in BOOLEAN
        /\ remaining' \in Nat /\ body' \in Seq(Token) /\ responded' \in BOOLEAN
        /\ wantClose' \in BOOLEAN /\ pc' \in {"feed", "flush"}
    <3>1. CASE closeAfter'
      BY <2>1, <3>1 DEF AfterResponse, LeaveFeed, Continue
    <3>2. CASE ~closeAfter'
      <4>1. body' = <<>> /\ st' = "reqline" /\ receiving' = FALSE /\ keepAlive' = FALSE
            /\ remaining' = 0 /\ responded' = FALSE /\ wantClose' = wantClose /\ pc' = "feed"
        BY <2>1, <3>2 DEF AfterResponse, Continue
      <4>2. body' \in Seq(Token)
        BY <4>1, EmptyTypes, Zenon
      <4>3. QED BY <4>1, <4>2
    <3>3. QED BY <3>1, <3>2
  <2>5. QED BY <1>17, <2>2, <2>3 DEF Dispatch
<1>25. CASE DispatchNoMemory
  <2>1. /\ CallHandler("unanswered") /\ AfterResponse /\ closeAfter' = closeAfter
        /\ out' = out \/ \E c \in {FALSE, ClosesAfter} : out' = Append(out, Response("partial", req, c))
    BY <1>25 DEF DispatchNoMemory
  <2>2. handled' \in Seq(Call)
    BY <2>1, CallTypes DEF Hows
  <2>3. ClosesAfter \in BOOLEAN
    BY DEF ClosesAfter, CapReached
  <2>4. \A c \in {FALSE, ClosesAfter} : Response("partial", req, c) \in Reply
    BY <2>3, ReplyType
  <2>5. out' \in Seq(Reply)
    BY <2>1, <2>4, AppendType
  <2>6. /\ st' \in ParserStates /\ receiving' \in BOOLEAN /\ keepAlive' \in BOOLEAN
        /\ remaining' \in Nat /\ body' \in Seq(Token) /\ responded' \in BOOLEAN
        /\ wantClose' \in BOOLEAN /\ pc' \in {"feed", "flush"}
    <3>1. CASE closeAfter'
      BY <2>1, <3>1 DEF AfterResponse, LeaveFeed, Continue
    <3>2. CASE ~closeAfter'
      <4>1. body' = <<>> /\ st' = "reqline" /\ receiving' = FALSE /\ keepAlive' = FALSE
            /\ remaining' = 0 /\ responded' = FALSE /\ wantClose' = wantClose /\ pc' = "feed"
        BY <2>1, <3>2 DEF AfterResponse, Continue
      <4>2. body' \in Seq(Token)
        BY <4>1, EmptyTypes, Zenon
      <4>3. QED BY <4>1, <4>2
    <3>3. QED BY <3>1, <3>2
  <2>7. QED BY <1>25, <2>1, <2>2, <2>5, <2>6 DEF DispatchNoMemory
<1>18. CASE DispatchUpgrade
  <2>1. CallHandler("upgrade") /\ got' = got \o <<Response("switch", req, FALSE)>> \o out
    BY <1>18 DEF DispatchUpgrade
  <2>2. handled' \in Seq(Call) /\ Response("switch", req, FALSE) \in Reply
    BY <2>1, CallTypes, ReplyType DEF Hows
  <2>3. got' \in Seq(Reply)
    BY <2>1, <2>2, SeqTypes
  <2>4. QED BY <1>18, <2>2, <2>3, EmptyTypes DEF DispatchUpgrade
<1>19. CASE DispatchUpgradeFails
  <2>1. CallHandler("upgrade_failed") /\ Respond /\ AfterResponse
    BY <1>19 DEF DispatchUpgradeFails
  <2>2. handled' \in Seq(Call) /\ out' \in Seq(Reply) /\ closeAfter' \in BOOLEAN
    BY <2>1, CallTypes, RespondTypes DEF Hows
  <2>3. /\ st' \in ParserStates /\ receiving' \in BOOLEAN /\ keepAlive' \in BOOLEAN
        /\ remaining' \in Nat /\ body' \in Seq(Token) /\ responded' \in BOOLEAN
        /\ wantClose' \in BOOLEAN /\ pc' \in {"feed", "flush"}
    <3>1. CASE closeAfter'
      BY <2>1, <3>1 DEF AfterResponse, LeaveFeed, Continue
    <3>2. CASE ~closeAfter'
      <4>1. body' = <<>> /\ st' = "reqline" /\ receiving' = FALSE /\ keepAlive' = FALSE
            /\ remaining' = 0 /\ responded' = FALSE /\ wantClose' = wantClose /\ pc' = "feed"
        BY <2>1, <3>2 DEF AfterResponse, Continue
      <4>2. body' \in Seq(Token)
        BY <4>1, EmptyTypes, Zenon
      <4>3. QED BY <4>1, <4>2
    <3>3. QED BY <3>1, <3>2
  <2>4. got' \in Seq(Reply)
    <3>1. Response("switch", req, FALSE) \in Reply
      BY ReplyType
    <3>2. \/ got' = got
          \/ \E k \in 0 .. (Len(out) - 1) :
               got' = got \o <<Response("switch", req, FALSE)>> \o SubSeq(out, 1, k)
      BY <1>19 DEF DispatchUpgradeFails
    <3>3. \A k \in 0 .. (Len(out) - 1) : SubSeq(out, 1, k) \in Seq(Reply)
      OBVIOUS
    <3>4. ASSUME NEW k \in 0 .. (Len(out) - 1)
          PROVE  got \o <<Response("switch", req, FALSE)>> \o SubSeq(out, 1, k) \in Seq(Reply)
      BY <3>1, <3>3, SeqTypes
    <3>5. QED BY <3>2, <3>4
  <2>5. QED BY <1>19, <2>2, <2>3, <2>4 DEF DispatchUpgradeFails
<1>20. CASE FlushSome
  BY <1>20 DEF FlushSome, Flush, CloseDecisions, flushRest
<1>21. CASE FlushError
  BY <1>21 DEF FlushError, flushRest
<1>22. CASE Sweep
  BY <1>22 DEF Sweep, Drained
<1>23. CASE UNCHANGED vars
  BY <1>23 DEF vars
<1>24. QED
  BY <1>1, <1>2, <1>3, <1>4, <1>5, <1>6, <1>7, <1>8, <1>9, <1>10, <1>11, <1>12, <1>13, <1>14, <1>15, <1>16, <1>17, <1>18, <1>19, <1>20, <1>21, <1>22, <1>23, <1>25 DEF Next, Loop, Feed

LEMMA ControlStep ==
  H1Types /\ Control /\ [Next]_vars => Control'
<1> SUFFICES ASSUME H1Types /\ Control, [Next]_vars PROVE Control'
  OBVIOUS
<1> USE DEF inputVars, connVars, assembly, history, H1Types, Control, ParserStates, ChunkStates
<1>1. CASE BeginStop
  BY <1>1 DEF BeginStop
<1>2. CASE PollRead
  BY <1>2 DEF PollRead
<1>3. CASE PollEof
  BY <1>3 DEF PollEof
<1>4. CASE PollHandshake
  BY <1>4 DEF PollHandshake
<1>5. CASE Sniff
  BY <1>5 DEF Sniff
<1>6. CASE FeedReqLine
  <2>1. \/ inb # <<>> /\ st' = "dead" /\ closeAfter' = TRUE /\ wantClose' = TRUE /\ pc' = "flush"
        \/ st' = st /\ closeAfter' = closeAfter /\ wantClose' = wantClose /\ pc' = "flush"
        \/ /\ inb # <<>> /\ st' = "headers" /\ closeAfter' = closeAfter
           /\ wantClose' = wantClose /\ pc' = "feed"
    BY <1>6, ReqLineCases DEF EmitSimple, LeaveFeed, Continue, NoOutput
  <2>2. inb # <<>> => req' \in 1..NumRequests
    BY <1>6, FirstToken DEF FeedReqLine
  <2>3. pc = "feed" /\ st = "reqline" /\ proto = "h1"
    BY <1>6 DEF FeedReqLine, Feeding
  <2>4. UNCHANGED <<proto, responded, dead, why>>
    BY <1>6 DEF FeedReqLine, feedRest
  <2>5. QED BY <2>1, <2>2, <2>3, <2>4
<1>7. CASE FeedHeaders
  BY <1>7 DEF FeedHeaders, Feeding, EmitSimple, LeaveFeed, Continue, NoOutput, Response, feedRest
<1>8. CASE FeedBodyCl
  BY <1>8 DEF FeedBodyCl, Feeding, TakeBody, Complete, LeaveFeed, NoOutput, feedRest
<1>9. CASE FeedChunkWait
  BY <1>9 DEF FeedChunkWait, LeaveFeed, NoOutput, chunkRest, feedRest
<1>10. CASE FeedChunkSize
  BY <1>10 DEF FeedChunkSize, Feeding, EmitSimple, LeaveFeed, Continue, NoOutput, Response, chunkRest, feedRest
<1>11. CASE FeedChunkData
  BY <1>11 DEF FeedChunkData, Feeding, TakeBody, LeaveFeed, Continue, NoOutput, chunkRest, feedRest
<1>12. CASE FeedChunkCrlf
  BY <1>12 DEF FeedChunkCrlf, Feeding, EmitSimple, LeaveFeed, Continue, NoOutput, Response, chunkRest, feedRest
<1>13. CASE FeedTrailer
  BY <1>13 DEF FeedTrailer, Feeding, EmitSimple, Complete, LeaveFeed, NoOutput, Response, chunkRest, feedRest
<1>14. CASE FeedStaleTrailer
  <2>1. \/ st' = "dead" /\ closeAfter' = TRUE /\ wantClose' = TRUE /\ pc' = "flush"
        \/ st' = st /\ closeAfter' = closeAfter /\ wantClose' = wantClose /\ pc' \in {"feed", "dispatch"}
    BY <1>14 DEF FeedStaleTrailer, EmitSimple, Complete, LeaveFeed, Continue, NoOutput
  <2>2. pc = "feed" /\ st = "trailer" /\ proto = "h1" /\ responded
    BY <1>14 DEF FeedStaleTrailer, Feeding
  <2>3. UNCHANGED <<proto, responded, dead, why, req>>
    BY <1>14 DEF FeedStaleTrailer, chunkRest, feedRest
  <2>4. QED BY <2>1, <2>2, <2>3
<1>15. CASE FeedDead
  BY <1>15 DEF FeedDead, Feeding, LeaveFeed, NoOutput, feedRest
<1>16. CASE FeedHardError
  BY <1>16 DEF FeedHardError
<1>17. CASE Dispatch
  BY <1>17 DEF Dispatch, CallHandler, Respond, ClosesAfter, CapReached, AfterResponse, LeaveFeed, Continue, Response
<1>25. CASE DispatchNoMemory
  BY <1>25 DEF DispatchNoMemory, CallHandler, ClosesAfter, CapReached, AfterResponse, LeaveFeed, Continue, Response
<1>18. CASE DispatchUpgrade
  BY <1>18 DEF DispatchUpgrade, CallHandler, Response
<1>19. CASE DispatchUpgradeFails
  BY <1>19 DEF DispatchUpgradeFails, CallHandler, Respond, ClosesAfter, CapReached, AfterResponse, LeaveFeed, Continue, Response
<1>20. CASE FlushSome
  BY <1>20 DEF FlushSome, Flush, CloseDecisions, flushRest
<1>21. CASE FlushError
  BY <1>21 DEF FlushError, flushRest
<1>22. CASE Sweep
  BY <1>22 DEF Sweep, Drained
<1>23. CASE UNCHANGED vars
  BY <1>23 DEF vars
<1>24. QED
  BY <1>1, <1>2, <1>3, <1>4, <1>5, <1>6, <1>7, <1>8, <1>9, <1>10, <1>11, <1>12, <1>13, <1>14, <1>15, <1>16, <1>17, <1>18, <1>19, <1>20, <1>21, <1>22, <1>23, <1>25 DEF Next, Loop, Feed

-----------------------------------------------------------------------------
(* What is left in the buffer, and the end of the connection. *)

(* h1_body_cl and h1_body_chunk stop short only when the buffer is empty. *)
LEMMA TakeIs ==
  ASSUME H1Types, TakeBody
  PROVE  \E n \in 0..Len(inb) :
           /\ n <= remaining /\ remaining' = remaining - n
           /\ body' = body \o SubSeq(inb, 1, n)
           /\ inb' = SubSeq(inb, n + 1, Len(inb))
           /\ remaining' # 0 => n = Len(inb)
<1> DEFINE take == IF Len(inb) < remaining THEN Len(inb) ELSE remaining
<1>1. remaining \in Nat /\ Len(inb) \in Nat
  BY DEF H1Types
<1>2. /\ body' = body \o SubSeq(inb, 1, take)
      /\ inb' = SubSeq(inb, take + 1, Len(inb))
      /\ remaining' = remaining - take
  BY DEF TakeBody
<1>3. take \in 0..Len(inb) /\ take <= remaining /\ (remaining - take # 0 => take = Len(inb))
  BY <1>1
<1>4. QED BY <1>2, <1>3

LEMMA TakeAll ==
  ASSUME H1Types, TakeBody, remaining' # 0
  PROVE  inb' = <<>> /\ Len(inb') = 0
<1>1. inb' = SubSeq(inb, Len(inb) + 1, Len(inb))
  BY TakeIs
<1>2. QED BY <1>1 DEF H1Types

LEMMA LeftStep ==
  H1Types /\ Control /\ Left /\ [Next]_vars => Left'
<1> SUFFICES ASSUME H1Types /\ Control /\ Left, [Next]_vars PROVE Left'
  OBVIOUS
<1> USE DEF inputVars, connVars, assembly, history, H1Types, Control, Left, ParserStates, ChunkStates
<1>1. CASE BeginStop
  BY <1>1 DEF BeginStop
<1>2. CASE PollRead
  BY <1>2 DEF PollRead
<1>3. CASE PollEof
  BY <1>3 DEF PollEof
<1>4. CASE PollHandshake
  BY <1>4 DEF PollHandshake
<1>5. CASE Sniff
  BY <1>5 DEF Sniff
<1>6. CASE FeedReqLine
  BY <1>6 DEF FeedReqLine, Feeding, NoteFirstByte, EmitSimple, LeaveFeed, Continue, NoOutput, Response, feedRest
<1>7. CASE FeedHeaders
  <2>1. \/ inb = <<>> /\ inb' = inb
        \/ \E k \in {"error", "redirect"} : EmitSimple(k)
        \/ pc' = "feed"
    BY <1>7 DEF FeedHeaders, Continue
  <2>2. (\E k \in {"error", "redirect"} : EmitSimple(k)) => wantClose'
    BY DEF EmitSimple, LeaveFeed
  <2>3. inb = <<>> => Len(inb) = 0
    OBVIOUS
  <2>4. QED BY <2>1, <2>2, <2>3
<1>8. CASE FeedBodyCl
  <2>1. TakeBody /\ (pc' = "dispatch" \/ remaining' # 0)
    BY <1>8 DEF FeedBodyCl, Complete
  <2>2. QED BY <2>1, TakeAll
<1>9. CASE FeedChunkWait
  BY <1>9 DEF FeedChunkWait, LeaveFeed, NoOutput, chunkRest, feedRest
<1>10. CASE FeedChunkSize
  BY <1>10 DEF FeedChunkSize, Feeding, EmitSimple, LeaveFeed, Continue, NoOutput, Response, chunkRest, feedRest
<1>11. CASE FeedChunkData
  <2>1. TakeBody /\ (pc' = "feed" \/ remaining' > 0)
    BY <1>11 DEF FeedChunkData, Continue
  <2>2. remaining' > 0 => remaining' # 0
    BY <2>1, TakeIs
  <2>3. QED BY <2>1, <2>2, TakeAll
<1>12. CASE FeedChunkCrlf
  BY <1>12 DEF FeedChunkCrlf, Feeding, EmitSimple, LeaveFeed, Continue, NoOutput, Response, chunkRest, feedRest
<1>13. CASE FeedTrailer
  BY <1>13 DEF FeedTrailer, Feeding, EmitSimple, Complete, LeaveFeed, NoOutput, Response, chunkRest, feedRest
<1>14. CASE FeedStaleTrailer
  BY <1>14 DEF FeedStaleTrailer, Feeding, EmitSimple, Complete, LeaveFeed, Continue, NoOutput, Response, chunkRest, feedRest
<1>15. CASE FeedDead
  BY <1>15 DEF FeedDead, Feeding, LeaveFeed, NoOutput, feedRest
<1>16. CASE FeedHardError
  BY <1>16 DEF FeedHardError
<1>17. CASE Dispatch
  BY <1>17 DEF Dispatch, CallHandler, Respond, ClosesAfter, CapReached, AfterResponse, LeaveFeed, Continue, Response
<1>25. CASE DispatchNoMemory
  BY <1>25 DEF DispatchNoMemory, CallHandler, ClosesAfter, CapReached, AfterResponse, LeaveFeed, Continue, Response
<1>18. CASE DispatchUpgrade
  BY <1>18 DEF DispatchUpgrade, CallHandler, Response
<1>19. CASE DispatchUpgradeFails
  BY <1>19 DEF DispatchUpgradeFails, CallHandler, Respond, ClosesAfter, CapReached, AfterResponse, LeaveFeed, Continue, Response
<1>20. CASE FlushSome
  BY <1>20 DEF FlushSome, Flush, CloseDecisions, flushRest
<1>21. CASE FlushError
  BY <1>21 DEF FlushError, flushRest
<1>22. CASE Sweep
  BY <1>22 DEF Sweep, Drained
<1>23. CASE UNCHANGED vars
  BY <1>23 DEF vars
<1>24. QED
  BY <1>1, <1>2, <1>3, <1>4, <1>5, <1>6, <1>7, <1>8, <1>9, <1>10, <1>11, <1>12, <1>13, <1>14, <1>15, <1>16, <1>17, <1>18, <1>19, <1>20, <1>21, <1>22, <1>23, <1>25 DEF Next, Loop, Feed

LEMMA EndStep ==
  H1Types /\ Control /\ Left /\ OrderlyEnd /\ [Next]_vars => OrderlyEnd'
<1> SUFFICES ASSUME H1Types /\ Control /\ Left /\ OrderlyEnd, [Next]_vars PROVE OrderlyEnd'
  OBVIOUS
<1> USE DEF inputVars, connVars, assembly, history, H1Types, Control, Left, OrderlyEnd
<1>1. CASE BeginStop
  BY <1>1 DEF BeginStop
<1>2. CASE PollRead
  BY <1>2 DEF PollRead
<1>3. CASE PollEof
  BY <1>3 DEF PollEof
<1>4. CASE PollHandshake
  BY <1>4 DEF PollHandshake
<1>5. CASE Sniff
  BY <1>5 DEF Sniff
<1>6. CASE FeedReqLine
  BY <1>6 DEF FeedReqLine, Feeding, NoteFirstByte, EmitSimple, LeaveFeed, Continue, NoOutput, Response, feedRest
<1>7. CASE FeedHeaders
  BY <1>7 DEF FeedHeaders, Feeding, EmitSimple, LeaveFeed, Continue, NoOutput, Response, feedRest
<1>8. CASE FeedBodyCl
  BY <1>8 DEF FeedBodyCl, Feeding, TakeBody, Complete, LeaveFeed, NoOutput, feedRest
<1>9. CASE FeedChunkWait
  BY <1>9 DEF FeedChunkWait, LeaveFeed, NoOutput, chunkRest, feedRest
<1>10. CASE FeedChunkSize
  BY <1>10 DEF FeedChunkSize, Feeding, EmitSimple, LeaveFeed, Continue, NoOutput, Response, chunkRest, feedRest
<1>11. CASE FeedChunkData
  BY <1>11 DEF FeedChunkData, Feeding, TakeBody, LeaveFeed, Continue, NoOutput, chunkRest, feedRest
<1>12. CASE FeedChunkCrlf
  BY <1>12 DEF FeedChunkCrlf, Feeding, EmitSimple, LeaveFeed, Continue, NoOutput, Response, chunkRest, feedRest
<1>13. CASE FeedTrailer
  BY <1>13 DEF FeedTrailer, Feeding, EmitSimple, Complete, LeaveFeed, NoOutput, Response, chunkRest, feedRest
<1>14. CASE FeedStaleTrailer
  BY <1>14 DEF FeedStaleTrailer, Feeding, EmitSimple, Complete, LeaveFeed, Continue, NoOutput, Response, chunkRest, feedRest
<1>15. CASE FeedDead
  BY <1>15 DEF FeedDead, Feeding, LeaveFeed, NoOutput, feedRest
<1>16. CASE FeedHardError
  BY <1>16 DEF FeedHardError
<1>17. CASE Dispatch
  BY <1>17 DEF Dispatch, CallHandler, Respond, ClosesAfter, CapReached, AfterResponse, LeaveFeed, Continue, Response
<1>25. CASE DispatchNoMemory
  BY <1>25 DEF DispatchNoMemory, CallHandler, ClosesAfter, CapReached, AfterResponse, LeaveFeed, Continue, Response
<1>18. CASE DispatchUpgrade
  BY <1>18 DEF DispatchUpgrade, CallHandler, Response
<1>19. CASE DispatchUpgradeFails
  BY <1>19 DEF DispatchUpgradeFails, CallHandler, Respond, ClosesAfter, CapReached, AfterResponse, LeaveFeed, Continue, Response
<1>20. CASE FlushSome
  BY <1>20 DEF FlushSome, Flush, CloseDecisions, flushRest
<1>21. CASE FlushError
  BY <1>21 DEF FlushError, flushRest
<1>22. CASE Sweep
  BY <1>22 DEF Sweep, Drained
<1>23. CASE UNCHANGED vars
  BY <1>23 DEF vars
<1>24. QED
  BY <1>1, <1>2, <1>3, <1>4, <1>5, <1>6, <1>7, <1>8, <1>9, <1>10, <1>11, <1>12, <1>13, <1>14, <1>15, <1>16, <1>17, <1>18, <1>19, <1>20, <1>21, <1>22, <1>23, <1>25 DEF Next, Loop, Feed

-----------------------------------------------------------------------------
(* Consuming the stream. *)

(* A step takes n tokens from the front of the buffer. *)
Eats(n) ==
  /\ n \in 0..Len(inb) /\ Len(inb') = Len(inb) - n
  /\ \A i \in 1..(Len(inb) - n) : inb'[i] = inb[n + i]
  /\ unread' = unread /\ shapes' = shapes

LEMMA EatNone ==
  ASSUME H1Types, UNCHANGED <<inb, unread, shapes>>
  PROVE  Eats(0)
BY DEF H1Types, Eats

LEMMA EatOne ==
  ASSUME H1Types, inb # <<>>, inb' = Tail(inb), UNCHANGED <<unread, shapes>>
  PROVE  Eats(1) /\ Head(inb) = inb[1] /\ 1 \in 1..Len(inb)
<1>1. inb \in Seq(Token)
  BY DEF H1Types
<1>2. Len(inb) \in Nat /\ Len(inb) > 0
  BY <1>1
<1>3. Len(inb') = Len(inb) - 1 /\ \A i \in 1..(Len(inb) - 1) : inb'[i] = inb[1 + i]
  BY <1>1
<1>4. Head(inb) = inb[1]
  BY <1>1
<1>5. QED BY <1>2, <1>3, <1>4 DEF Eats

LEMMA EatTwo ==
  ASSUME H1Types, Len(inb) > 1, inb' = Tail(Tail(inb)), UNCHANGED <<unread, shapes>>
  PROVE  Eats(2)
<1>1. inb \in Seq(Token) /\ Len(inb) \in Nat
  BY DEF H1Types
<1>2. Len(inb') = Len(inb) - 2 /\ \A i \in 1..(Len(inb) - 2) : inb'[i] = inb[i + 2]
  BY <1>1, TwoTokens
<1>3. QED BY <1>1, <1>2 DEF Eats

LEMMA EatSome ==
  ASSUME H1Types, NEW n \in 0..Len(inb), inb' = SubSeq(inb, n + 1, Len(inb)),
         UNCHANGED <<unread, shapes>>
  PROVE  Eats(n)
<1>1. inb \in Seq(Token) /\ Len(inb) \in Nat
  BY DEF H1Types
<1>2. Len(inb') = Len(inb) - n /\ \A i \in 1..(Len(inb) - n) : inb'[i] = inb[n + i]
  BY <1>1
<1>3. QED BY <1>1, <1>2 DEF Eats

LEMMA Position ==
  ASSUME H1Types, Unconsumed
  PROVE  /\ Stream(shapes) \in Seq(Token) /\ Len(Stream(shapes)) \in Nat
         /\ Len(inb) \in Nat /\ Len(unread) \in Nat
         /\ Consumed \in Nat
         /\ Consumed = Len(Stream(shapes)) - Len(inb) - Len(unread)
         /\ Consumed + Len(inb) <= Len(Stream(shapes))
         /\ \A i \in 1..Len(inb) : inb[i] = Stream(shapes)[Consumed + i]
<1>1. Stream(shapes) \in Seq(Token)
  BY StreamLaid DEF H1Types
<1>2. Len(Stream(shapes)) \in Nat /\ Len(inb) \in Nat /\ Len(unread) \in Nat
  BY <1>1 DEF H1Types
<1>3. QED BY <1>1, <1>2 DEF Unconsumed, Consumed

LEMMA Consume ==
  ASSUME H1Types, Unconsumed, NEW n, Eats(n)
  PROVE  Unconsumed' /\ Consumed' = Consumed + n
<1> DEFINE f == Stream(shapes)
<1>1. /\ Len(f) \in Nat /\ Len(inb) \in Nat /\ Len(unread) \in Nat
      /\ Consumed = Len(f) - Len(inb) - Len(unread)
      /\ Consumed + Len(inb) <= Len(f) /\ Consumed \in Nat
      /\ \A i \in 1..Len(inb) : inb[i] = f[Consumed + i]
  BY Position
<1>2. /\ n \in 0..Len(inb) /\ Len(inb') = Len(inb) - n /\ unread' = unread
      /\ \A i \in 1..(Len(inb) - n) : inb'[i] = inb[n + i]
  BY DEF Eats
<1>3. Stream(shapes)' = f
  BY DEF Eats
<1>4. /\ Len(inb) + Len(unread) <= Len(f)
      /\ \A i \in 1..Len(unread) : unread[i] = f[Len(f) - Len(unread) + i]
  BY DEF Unconsumed
<1> HIDE DEF f
<1>5. Consumed' = Len(f) - Len(inb') - Len(unread')
  BY <1>3 DEF Consumed
<1>6. Consumed' = Consumed + n
  BY <1>1, <1>2, <1>5
<1>7. ASSUME NEW i \in 1..Len(inb') PROVE inb'[i] = f[Consumed' + i]
  <2>1. i \in 1..(Len(inb) - n) /\ n + i \in 1..Len(inb) /\ Consumed + (n + i) = Consumed' + i
    BY <1>1, <1>2, <1>6
  <2>2. QED BY <1>1, <1>2, <2>1
<1>8. Len(inb') + Len(unread') <= Len(f)
  BY <1>1, <1>2, <1>4
<1>9. QED BY <1>2, <1>3, <1>4, <1>6, <1>7, <1>8 DEF Unconsumed

(* A read moves tokens from the socket to the buffer. *)
LEMMA ReadKeeps ==
  ASSUME H1Types, Unconsumed, PollRead
  PROVE  Unconsumed' /\ Consumed' = Consumed
<1> DEFINE f == Stream(shapes)
<1>1. /\ Len(f) \in Nat /\ Len(inb) \in Nat /\ Len(unread) \in Nat
      /\ Consumed = Len(f) - Len(inb) - Len(unread)
      /\ Consumed + Len(inb) <= Len(f) /\ Consumed \in Nat
      /\ \A i \in 1..Len(inb) : inb[i] = f[Consumed + i]
  BY Position
<1>2. PICK k \in 0 .. (IF MaxRead < Len(unread) THEN MaxRead ELSE Len(unread)) :
        /\ inb' = inb \o SubSeq(unread, 1, k)
        /\ unread' = SubSeq(unread, k + 1, Len(unread))
  BY DEF PollRead
<1>3. k \in 0..Len(unread)
  BY <1>1, ShapesAssumption
<1>4. /\ Len(inb') = Len(inb) + k
      /\ \A i \in 1..Len(inb) : inb'[i] = inb[i]
      /\ \A i \in 1..k : inb'[Len(inb) + i] = unread[i]
  BY <1>2, <1>3 DEF H1Types
<1>5. /\ Len(unread') = Len(unread) - k
      /\ \A i \in 1..(Len(unread) - k) : unread'[i] = unread[k + i]
  BY <1>2, <1>3 DEF H1Types
<1>6. /\ Len(inb) + Len(unread) <= Len(f)
      /\ \A i \in 1..Len(unread) : unread[i] = f[Len(f) - Len(unread) + i]
  BY DEF Unconsumed
<1>7. Stream(shapes)' = f
  BY DEF PollRead, inputVars
<1> HIDE DEF f
<1>8. Consumed' = Consumed
  BY <1>1, <1>3, <1>4, <1>5, <1>7 DEF Consumed
<1>9. ASSUME NEW i \in 1..Len(inb') PROVE inb'[i] = f[Consumed + i]
  <2>1. CASE i <= Len(inb)
    BY <1>1, <1>4, <2>1
  <2>2. CASE i > Len(inb)
    <3> DEFINE j == i - Len(inb)
    <3>1. j \in 1..k /\ Len(inb) + j = i /\ j \in 1..Len(unread)
          /\ Len(f) - Len(unread) + j = Consumed + i
      BY <1>1, <1>3, <1>4, <2>2
    <3> HIDE DEF j
    <3>2. inb'[i] = unread[j] /\ unread[j] = f[Len(f) - Len(unread) + j]
      BY <1>4, <1>6, <3>1
    <3>3. QED BY <3>1, <3>2
  <2>3. QED BY <1>1, <1>3, <1>4, <2>1, <2>2
<1>10. ASSUME NEW i \in 1..Len(unread') PROVE unread'[i] = f[Len(f) - Len(unread') + i]
  <2>1. i \in 1..(Len(unread) - k) /\ k + i \in 1..Len(unread)
        /\ Len(f) - Len(unread) + (k + i) = Len(f) - Len(unread') + i
    BY <1>1, <1>3, <1>5
  <2>2. QED BY <1>5, <1>6, <2>1
<1>11. Len(inb') + Len(unread') <= Len(f)
  BY <1>1, <1>3, <1>4, <1>5, <1>6
<1>12. QED BY <1>7, <1>8, <1>9, <1>10, <1>11 DEF Unconsumed

LEMMA UnconsumedStep ==
  H1Types /\ Unconsumed /\ [Next]_vars => Unconsumed'
<1> SUFFICES ASSUME H1Types, Unconsumed, [Next]_vars PROVE Unconsumed'
  OBVIOUS
<1> USE DEF inputVars, connVars, assembly, history
<1>1. CASE PollRead
  BY <1>1, ReadKeeps
<1>2. CASE FeedReqLine
  <2>1. UNCHANGED <<unread, shapes>>
    BY <1>2 DEF FeedReqLine, feedRest
  <2>2. inb' = inb \/ (Len(inb) > 1 /\ inb' = Tail(Tail(inb)))
    BY <1>2, ReqLineCases
  <2>3. QED BY <2>1, <2>2, EatNone, EatTwo, Consume
<1>3. CASE FeedHeaders
  <2>1. UNCHANGED <<unread, shapes>> /\ (inb' = inb \/ (inb # <<>> /\ inb' = Tail(inb)))
    BY <1>3 DEF FeedHeaders, feedRest
  <2>2. QED BY <2>1, EatNone, EatOne, Consume
<1>4. CASE FeedBodyCl \/ FeedChunkData
  <2>1. UNCHANGED <<unread, shapes>> /\ TakeBody
    BY <1>4 DEF FeedBodyCl, FeedChunkData, chunkRest, feedRest
  <2>2. QED BY <2>1, TakeIs, EatSome, Consume
<1>5. CASE FeedChunkSize \/ FeedChunkCrlf \/ FeedTrailer \/ FeedStaleTrailer
  <2>1. UNCHANGED <<unread, shapes>> /\ (inb' = inb \/ (inb # <<>> /\ inb' = Tail(inb)))
    BY <1>5 DEF FeedChunkSize, FeedChunkCrlf, FeedTrailer, FeedStaleTrailer, chunkRest, feedRest
  <2>2. QED BY <2>1, EatNone, EatOne, Consume
<1>6. CASE \/ BeginStop \/ PollEof \/ PollHandshake \/ Sniff \/ FeedChunkWait \/ FeedDead
           \/ FeedHardError \/ Dispatch \/ DispatchNoMemory \/ DispatchUpgrade \/ DispatchUpgradeFails
           \/ FlushSome \/ FlushError \/ Sweep \/ UNCHANGED vars
  <2>1. UNCHANGED <<inb, unread, shapes>>
    BY <1>6 DEF BeginStop, PollEof, PollHandshake, Sniff, FeedChunkWait, FeedDead,
                FeedHardError, Dispatch, DispatchNoMemory, DispatchUpgrade, DispatchUpgradeFails, FlushSome,
                Flush, FlushError, Sweep, vars, chunkRest, feedRest, flushRest
  <2>2. QED BY <2>1, EatNone, Consume
<1>7. QED
  BY <1>1, <1>2, <1>3, <1>4, <1>5, <1>6 DEF Next, Loop, Feed

-----------------------------------------------------------------------------
(* Where the parser is. *)

LEMMA StartType ==
  ASSUME NEW sh, FittingShapes(sh), NEW r \in 1..(NumRequests + 1)
  PROVE  Start(sh, r) \in Nat /\ Start(sh, r) <= Len(Stream(sh))
<1>1. NumRequests \in Nat /\ Stream(sh) \in Seq(Token)
      /\ Start(sh, NumRequests + 1) = Len(Stream(sh))
  BY ShapesAssumption, StreamLaid
<1>2. CASE r = NumRequests + 1
  BY <1>1, <1>2
<1>3. CASE r \in 1..NumRequests
  <2> DEFINE b == BodyTokens(r, sh[r])
  <2>1. Start(sh, r) \in Nat /\ Start(sh, r) + 3 + Len(b) <= Len(Stream(sh)) /\ b \in Seq(Token)
    BY <1>3, RequestLaid
  <2> HIDE DEF b
  <2>2. Len(b) \in Nat /\ Len(Stream(sh)) \in Nat
    BY <1>1, <2>1
  <2>3. QED BY <2>1, <2>2
<1>4. QED BY <1>1, <1>2, <1>3

(* Parsing, taken apart: request r begins after p tokens, and a more are consumed. *)
At(r, p, a) ==
  /\ r = Len(handled) + 1 /\ p = Start(shapes, r) /\ Consumed = p + a
  /\ r \in 1..(NumRequests + 1) /\ p \in Nat /\ a \in Nat

LEMMA Opened ==
  ASSUME H1Types, Unconsumed, Parsing, ~dead, ~closeAfter
  PROVE  \E r, p, a : 
           /\ At(r, p, a)
           /\ st = "reqline" => a = 0 /\ body = <<>>
           /\ st # "reqline" => r \in 1..NumRequests /\ InRequest(r, a)
<1>1. PICK r \in 1..(NumRequests + 1), a \in 0..Len(Stream(shapes)) :
        /\ r = Len(handled) + 1 /\ Consumed = Start(shapes, r) + a
        /\ IF st = "reqline" THEN a = 0 /\ body = <<>> ELSE InRequest(r, a)
  BY DEF Parsing
<1>2. FittingShapes(shapes)
  BY DEF H1Types
<1>3. Start(shapes, r) \in Nat
  BY <1>2, StartType
<1>4. At(r, Start(shapes, r), a)
  BY <1>1, <1>3 DEF At
<1>5. st # "reqline" => r \in 1..NumRequests
  BY <1>1, ShapesAssumption DEF InRequest
<1>6. QED BY <1>1, <1>4, <1>5

LEMMA ConsumedBound ==
  H1Types /\ Unconsumed => Consumed <= Len(Stream(shapes)) /\ Len(Stream(shapes)) \in Nat
BY Position

LEMMA Resumed ==
  ASSUME H1Types', Unconsumed', NEW r, NEW p, NEW a, At(r, p, a)',
         st' = "reqline" => a = 0 /\ body' = <<>>,
         st' # "reqline" => InRequest(r, a)'
  PROVE  Parsing'
<1>1. /\ r = Len(handled') + 1 /\ Consumed' = Start(shapes', r) + a
      /\ r \in 1..(NumRequests + 1) /\ Start(shapes', r) \in Nat /\ a \in Nat
  BY DEF At
<1>2. Consumed' <= Len(Stream(shapes')) /\ Len(Stream(shapes')) \in Nat
  <2>1. (H1Types /\ Unconsumed)' => (Consumed <= Len(Stream(shapes)) /\ Len(Stream(shapes)) \in Nat)'
    BY ConsumedBound, PTL
  <2>2. QED BY <2>1
<1>3. QED BY <1>1, <1>2 DEF Parsing

LEMMA Moved ==
  ASSUME H1Types, Unconsumed, NEW n, Eats(n), handled' = handled, NEW r, NEW p, NEW a, At(r, p, a)
  PROVE  At(r, p, a + n)' /\ Unconsumed' /\ a + n \in Nat
<1>1. Unconsumed' /\ Consumed' = Consumed + n
  BY Consume
<1>2. shapes' = shapes /\ n \in Nat
  BY DEF Eats, H1Types
<1>3. /\ r = Len(handled) + 1 /\ p = Start(shapes, r) /\ Consumed = p + a
      /\ r \in 1..(NumRequests + 1) /\ p \in Nat /\ a \in Nat
  BY DEF At
<1>4. a + n \in Nat /\ p + a + n = p + (a + n)
  BY <1>2, <1>3
<1>5. QED BY <1>1, <1>2, <1>3, <1>4 DEF At

LEMMA BodyOfType ==
  ASSUME NEW r \in 1..NumRequests, NEW s, GoodShape(s)
  PROVE  BodyOf(r, s) \in Seq(Token) /\ Begins(BodyOf(r, s), <<>>)
<1>1. BodyOf(r, s) \in Seq(Token)
  BY PlainBodies, PayloadLaid
<1>2. QED BY <1>1 DEF Begins

(* A token of the body in the buffer. *)
LEMMA BodyToken ==
  ASSUME H1Types, Unconsumed, NEW r \in 1..NumRequests, NEW p, NEW a, At(r, p, a),
         NEW k \in Nat, a = 3 + k, NEW i \in 1..Len(inb),
         k + i <= Len(BodyTokens(r, shapes[r]))
  PROVE  inb[i] = BodyTokens(r, shapes[r])[k + i]
<1> DEFINE b == BodyTokens(r, shapes[r])
           f == Stream(shapes)
<1>1. FittingShapes(shapes)
  BY DEF H1Types
<1>2. b \in Seq(Token) /\ \A j \in 1..Len(b) : f[Start(shapes, r) + 3 + j] = b[j]
  BY <1>1, RequestLaid
<1>3. p = Start(shapes, r) /\ Consumed = p + a /\ p \in Nat
  BY DEF At
<1>4. inb[i] = f[Consumed + i] /\ Len(inb) \in Nat
  BY Position
<1> HIDE DEF b, f
<1>5. k + i \in 1..Len(b) /\ Consumed + i = p + 3 + (k + i)
  BY <1>2, <1>3, <1>4 DEF b
<1>6. QED BY <1>2, <1>3, <1>4, <1>5 DEF b

LEMMA StillParsing ==
  ASSUME H1Types, H1Types', Unconsumed, Unconsumed', Parsing, Consumed' = Consumed,
         UNCHANGED <<shapes, handled, st, body, remaining, closeAfter>>,
         st = "reqline" \/ req' = req, pc # "dispatch", pc' # "dispatch", dead => dead'
  PROVE  Parsing'
<1> SUFFICES ASSUME ~dead', ~closeAfter' PROVE Parsing'
  BY DEF Parsing
<1>1. PICK r, p, a : /\ At(r, p, a)
                     /\ st = "reqline" => a = 0 /\ body = <<>>
                     /\ st # "reqline" => r \in 1..NumRequests /\ InRequest(r, a)
  BY Opened
<1>2. At(r, p, a)'
  BY <1>1 DEF At
<1>3. st' # "reqline" => InRequest(r, a)'
  BY <1>1 DEF InRequest, InChunk
<1>4. QED BY <1>1, <1>2, <1>3, Resumed

(* Between two requests, the token in front is the first of the next one. *)
LEMMA LineToken ==
  ASSUME H1Types, Unconsumed, inb # <<>>, NEW r, NEW p, NEW a, At(r, p, a), a = 0
  PROVE  r \in 1..NumRequests /\ Head(inb).req = r
<1>1. /\ Consumed + Len(inb) <= Len(Stream(shapes)) /\ Consumed \in Nat /\ Len(inb) \in Nat
      /\ Len(Stream(shapes)) \in Nat
  BY Position
<1>2. Head(inb) = inb[1] /\ 1 \in 1..Len(inb)
  BY DEF H1Types
<1>3. r \in 1..(NumRequests + 1) /\ Consumed = Start(shapes, r)
  BY DEF At
<1>4. Start(shapes, NumRequests + 1) = Len(Stream(shapes))
  BY StreamLaid DEF H1Types
<1>5. r # NumRequests + 1
  BY <1>1, <1>2, <1>3, <1>4
<1>6. r \in 1..NumRequests
  BY <1>3, <1>5, ShapesAssumption
<1>7. inb[1] = Stream(shapes)[Consumed + 1]
  BY <1>2, Position
<1>8. Stream(shapes)[Start(shapes, r) + 1] = Tok("line0", r, 0)
  BY <1>6, RequestLaid DEF H1Types
<1>9. Tok("line0", r, 0).req = r
  BY DEF Tok
<1>10. QED BY <1>2, <1>3, <1>6, <1>7, <1>8, <1>9

LEMMA ReqLineParses ==
  ASSUME H1Types, H1Types', Control, Unconsumed, Unconsumed', Parsing, FeedReqLine
  PROVE  Parsing'
<1>1. st = "reqline" /\ pc = "feed"
  BY DEF FeedReqLine, Feeding
<1>2. UNCHANGED <<shapes, handled, unread, body, remaining, dead>>
  BY DEF FeedReqLine, feedRest, inputVars, history
<1>3. CASE closeAfter'
  BY <1>3 DEF Parsing
<1>4. CASE ~closeAfter' /\ st' = st
  <2>1. inb' = inb /\ closeAfter' = closeAfter /\ pc' = "flush"
    BY <1>1, <1>4, ReqLineCases DEF EmitSimple, LeaveFeed, NoOutput
  <2>2. Consumed' = Consumed
    BY <1>2, <2>1 DEF Consumed
  <2>3. QED BY <1>1, <1>2, <1>4, <2>1, <2>2, StillParsing
<1>5. CASE ~closeAfter' /\ st' # st
  <2>1. Len(inb) > 1 /\ inb # <<>> /\ inb' = Tail(Tail(inb)) /\ st' = "headers" /\ closeAfter' = closeAfter
    BY <1>1, <1>5, ReqLineCases DEF EmitSimple, NoOutput
  <2>2. Eats(2)
    BY <1>2, <2>1, EatTwo
  <2>3. CASE dead
    BY <1>2, <2>3 DEF Parsing
  <2>4. CASE ~dead
    <3>1. PICK r, p, a : At(r, p, a) /\ a = 0 /\ body = <<>>
      BY <1>1, <1>5, <2>1, <2>4, Opened
    <3>2. At(r, p, 2)'
      BY <1>2, <2>2, <3>1, Moved
    <3>3. r \in 1..NumRequests /\ Head(inb).req = r
      BY <2>1, <3>1, LineToken
    <3>4. req' = r
      BY <2>1, <3>3 DEF FeedReqLine
    <3>5. Begins(BodyOf(r, shapes[r]), <<>>)
      BY <3>3, BodyOfType, ShapeIsGood DEF H1Types
    <3>6. InRequest(r, 2)'
      BY <1>2, <2>1, <3>1, <3>3, <3>4, <3>5 DEF InRequest, ChunkStates
    <3>7. QED BY <2>1, <3>2, <3>6, Resumed
  <2>5. QED BY <2>3, <2>4
<1>6. QED BY <1>3, <1>4, <1>5

LEMMA HeadersParse ==
  ASSUME H1Types, H1Types', Control, Unconsumed, Unconsumed', Parsing, FeedHeaders
  PROVE  Parsing'
<1>1. st = "headers" /\ pc = "feed"
  BY DEF FeedHeaders, Feeding
<1>2. UNCHANGED <<shapes, handled, unread, body, req, dead>>
  BY DEF FeedHeaders, feedRest, inputVars, history
<1>3. CASE closeAfter' \/ dead
  BY <1>2, <1>3 DEF Parsing
<1>4. CASE ~closeAfter' /\ ~dead /\ inb = <<>>
  <2>1. /\ UNCHANGED <<inb, st, remaining, closeAfter>> /\ pc' = "flush"
    BY <1>4 DEF FeedHeaders, LeaveFeed, NoOutput
  <2>2. Consumed' = Consumed
    BY <1>2, <2>1 DEF Consumed
  <2>3. QED BY <1>1, <1>2, <2>1, <2>2, StillParsing
<1>5. CASE ~closeAfter' /\ ~dead /\ inb # <<>>
  <2>1. /\ inb' = Tail(inb) /\ closeAfter' = closeAfter /\ pc' = "feed"
        /\ remaining' = IF shapes[req].framing = "cl" THEN shapes[req].body[1] ELSE 0
        /\ st' = IF shapes[req].framing = "chunked" THEN "size" ELSE "body_cl"
    BY <1>5 DEF FeedHeaders, EmitSimple, Continue, NoOutput
  <2>2. Eats(1)
    BY <1>2, <1>5, <2>1, EatOne
  <2>3. PICK r, p, a : At(r, p, a) /\ r \in 1..NumRequests /\ InRequest(r, a)
    BY <1>1, <1>5, <2>1, Opened
  <2>4. a = 2 /\ body = <<>> /\ Len(body) = 0 /\ req = r /\ Begins(BodyOf(r, shapes[r]), body)
    BY <1>1, <2>3 DEF InRequest
  <2>5. At(r, p, 3)'
    BY <1>2, <2>2, <2>3, <2>4, Moved
  <2>6. GoodShape(shapes[r])
    BY <2>3, ShapeIsGood DEF H1Types
  <2>7. InRequest(r, 3)'
    <3>1. CASE shapes[r].framing = "chunked"
      <4>1. ChunksEnd(r, shapes[r], 0) = 0 /\ PayloadEnd(r, shapes[r], 0) = 0
        BY <2>3, <2>6, <3>1, ChunksLaid, PayloadLaid
      <4>2. InChunk(r, shapes[r], 0, 0)'
        BY <1>2, <2>1, <2>4, <3>1, <4>1 DEF InChunk
      <4>3. 0 \in 0..Len(shapes[r].body)
        BY <2>6 DEF GoodShape
      <4>4. QED BY <1>2, <2>1, <2>3, <2>4, <3>1, <4>2, <4>3 DEF InRequest, ChunkStates
    <3>2. CASE shapes[r].framing # "chunked"
      <4>1. remaining' = Len(BodyOf(r, shapes[r])) /\ st' = "body_cl"
        BY <2>1, <2>3, <2>4, <2>6, <3>2, PlainBodies
      <4>2. remaining' \in Nat
        BY DEF H1Types
      <4>3. QED BY <1>2, <2>1, <2>3, <2>4, <3>2, <4>1, <4>2 DEF InRequest, ChunkStates
    <3>3. QED BY <3>1, <3>2
  <2>8. QED BY <2>1, <2>5, <2>7, Resumed
<1>6. QED BY <1>3, <1>4, <1>5

(* Body tokens that come next extend what is read of the body. *)
LEMMA BodyGrows ==
  ASSUME NEW x \in Seq(Token), NEW y \in Seq(Token), NEW q \in Seq(Token), Begins(x, y),
         NEW n \in 0..Len(q), Len(y) + n <= Len(x),
         \A i \in 1..n : q[i] = x[Len(y) + i]
  PROVE  LET z == y \o SubSeq(q, 1, n) IN Begins(x, z) /\ Len(z) = Len(y) + n
<1> DEFINE z == y \o SubSeq(q, 1, n)
<1>1. Len(x) \in Nat /\ Len(y) \in Nat
  OBVIOUS
<1>2. /\ Len(z) = Len(y) + n
      /\ \A i \in 1..Len(y) : z[i] = y[i]
      /\ \A i \in 1..n : z[Len(y) + i] = q[i]
  OBVIOUS
<1> HIDE DEF z
<1>3. Len(y) <= Len(x) /\ \A i \in 1..Len(y) : y[i] = x[i]
  BY DEF Begins
<1>4. ASSUME NEW i \in 1..Len(z) PROVE z[i] = x[i]
  <2>1. CASE i <= Len(y)
    BY <1>1, <1>2, <1>3, <2>1
  <2>2. CASE i > Len(y)
    <3> DEFINE j == i - Len(y)
    <3>1. j \in 1..n /\ Len(y) + j = i
      BY <1>1, <1>2, <2>2
    <3> HIDE DEF j
    <3>2. z[Len(y) + j] = q[j] /\ q[j] = x[Len(y) + j]
      BY <1>2, <3>1
    <3>3. QED BY <3>1, <3>2
  <2>3. QED BY <1>1, <1>2, <2>1, <2>2
<1>5. QED BY <1>1, <1>2, <1>4 DEF Begins, z

LEMMA BodyClParses ==
  ASSUME H1Types, H1Types', Control, Unconsumed, Unconsumed', Parsing, FeedBodyCl
  PROVE  Parsing'
<1>1. st = "body_cl" /\ pc = "feed" /\ TakeBody
  BY DEF FeedBodyCl, Feeding
<1>2. /\ UNCHANGED <<shapes, handled, unread, req, dead, st, closeAfter>>
      /\ pc' = "dispatch" => remaining' = 0
  BY DEF FeedBodyCl, feedRest, inputVars, history, NoOutput, LeaveFeed
<1>3. CASE closeAfter \/ dead
  BY <1>2, <1>3 DEF Parsing
<1>4. CASE ~closeAfter /\ ~dead
  <2>1. PICK r, p, a : At(r, p, a) /\ r \in 1..NumRequests /\ InRequest(r, a)
    BY <1>1, <1>4, Opened
  <2> DEFINE x == BodyOf(r, shapes[r])
  <2>2. /\ a = 3 + Len(body) /\ req = r /\ Begins(x, body) /\ shapes[r].framing # "chunked"
        /\ Len(body) + remaining = Len(x)
    BY <1>1, <2>1 DEF InRequest
  <2>3. GoodShape(shapes[r])
    BY <2>1, ShapeIsGood DEF H1Types
  <2>4. x \in Seq(Token) /\ BodyTokens(r, shapes[r]) = x
    BY <2>1, <2>2, <2>3, PlainBodies
  <2>5. PICK n \in 0..Len(inb) :
          /\ n <= remaining /\ remaining' = remaining - n
          /\ body' = body \o SubSeq(inb, 1, n)
          /\ inb' = SubSeq(inb, n + 1, Len(inb))
    BY <1>1, TakeIs
  <2>6. Eats(n)
    BY <1>2, <2>5, EatSome
  <2>7. At(r, p, a + n)'
    BY <1>2, <2>1, <2>6, Moved
  <2>8. /\ Len(body) \in Nat /\ remaining \in Nat /\ Len(x) \in Nat
        /\ body \in Seq(Token) /\ inb \in Seq(Token) /\ Len(inb) \in Nat
    BY <2>4 DEF H1Types
  <2>9. \A i \in 1..n : inb[i] = x[Len(body) + i]
    <3>1. SUFFICES ASSUME NEW i \in 1..n PROVE inb[i] = x[Len(body) + i]
      OBVIOUS
    <3>2. i \in 1..Len(inb) /\ Len(body) + i <= Len(x)
      BY <2>2, <2>5, <2>8
    <3>3. QED BY <2>1, <2>2, <2>4, <2>8, <3>2, BodyToken
  <2>10. Len(body) + n <= Len(x)
    BY <2>2, <2>5, <2>8
  <2> HIDE DEF x
  <2>11. Begins(x, body') /\ Len(body') = Len(body) + n
    BY <2>2, <2>4, <2>5, <2>8, <2>9, <2>10, BodyGrows
  <2>12. a + n = 3 + Len(body') /\ Len(body') + remaining' = Len(x)
    <3>1. Len(body') = Len(body) + n /\ remaining' = remaining - n /\ n \in Nat
          /\ a = 3 + Len(body) /\ Len(body) + remaining = Len(x)
      BY <2>2, <2>5, <2>8, <2>11 DEF x
    <3>2. QED BY <2>8, <3>1
  <2>13. InRequest(r, a + n)'
    BY <1>1, <1>2, <2>1, <2>2, <2>11, <2>12 DEF InRequest, ChunkStates, x
  <2>14. QED BY <1>1, <1>2, <2>7, <2>13, Resumed
<1>5. QED BY <1>3, <1>4

(* The ends of the chunks and of their payload, as numbers. *)
LEMMA EndsAre ==
  ASSUME NEW r \in 1..NumRequests, NEW s, GoodShape(s), s.framing = "chunked",
         NEW c \in 0..Len(s.body)
  PROVE  /\ ChunksEnd(r, s, c) \in Nat /\ PayloadEnd(r, s, c) \in Nat /\ Len(s.body) \in Nat
         /\ c < Len(s.body) =>
              /\ s.body[c + 1] \in Nat
              /\ ChunksEnd(r, s, c + 1) = ChunksEnd(r, s, c) + s.body[c + 1] + 2
              /\ PayloadEnd(r, s, c + 1) = PayloadEnd(r, s, c) + s.body[c + 1]
              /\ PayloadEnd(r, s, c + 1) <= Len(BodyOf(r, s))
<1>1. Len(s.body) \in Nat
  BY DEF GoodShape
<1>2. CASE c = Len(s.body)
  <2>1. ChunksEnd(r, s, Len(s.body)) \in Nat
    BY ChunkedBody
  <2>2. PayloadEnd(r, s, Len(s.body)) = Len(BodyOf(r, s)) /\ BodyOf(r, s) \in Seq(Token)
    BY PayloadLaid
  <2>3. Len(BodyOf(r, s)) \in Nat
    BY <2>2
  <2>4. QED BY <1>1, <1>2, <2>1, <2>2, <2>3
<1>3. CASE c < Len(s.body)
  <2>1. c + 1 \in 1..Len(s.body) /\ c + 1 - 1 = c
    BY <1>1, <1>3
  <2>2. /\ ChunksEnd(r, s, c) \in Nat /\ s.body[c + 1] \in Nat
        /\ ChunksEnd(r, s, c + 1) = ChunksEnd(r, s, c) + s.body[c + 1] + 2
    BY <2>1, ChunkLaid
  <2>3. /\ PayloadEnd(r, s, c) \in Nat
        /\ PayloadEnd(r, s, c + 1) = PayloadEnd(r, s, c) + s.body[c + 1]
        /\ PayloadEnd(r, s, c + 1) <= Len(BodyOf(r, s))
    BY <2>1, PayloadLaid
  <2>4. QED BY <1>1, <2>2, <2>3
<1>4. QED BY <1>1, <1>2, <1>3

(* The parser is in a chunked body: k of its tokens are consumed, c chunks of it done. *)
Chunking(r, s, p, k, c) ==
  /\ At(r, p, 3 + k) /\ r \in 1..NumRequests /\ k \in Nat
  /\ s = shapes[r] /\ req = r /\ GoodShape(s) /\ s.framing = "chunked"
  /\ Begins(BodyOf(r, s), body)
  /\ c \in 0..Len(s.body) /\ InChunk(r, s, c, k)

LEMMA InChunked ==
  ASSUME H1Types, Unconsumed, Parsing, ~dead, ~closeAfter, st \in ChunkStates
  PROVE  \E r, s, p, k, c : Chunking(r, s, p, k, c)
<1>1. PICK r, p, a : At(r, p, a) /\ r \in 1..NumRequests /\ InRequest(r, a)
  BY Opened DEF ChunkStates
<1>2. PICK s : s = shapes[r]
  OBVIOUS
<1>3. GoodShape(s) /\ a \in Nat
  BY <1>1, <1>2, ShapeIsGood DEF H1Types, At
<1>4. /\ req = r /\ s.framing = "chunked" /\ Begins(BodyOf(r, s), body)
  BY <1>1, <1>2 DEF InRequest
<1>5. PICK c \in 0..Len(s.body) : InChunk(r, s, c, a - 3)
  BY <1>1, <1>2 DEF InRequest
<1>6. a - 3 \in Nat
  <2>1. ChunksEnd(r, s, c) \in Nat /\ (c < Len(s.body) => s.body[c + 1] \in Nat) /\ remaining \in Nat
    BY <1>1, <1>3, <1>4, <1>5, EndsAre DEF H1Types
  <2>2. a - 3 \in Int
    BY <1>3
  <2>3. PICK k, q, m : k = a - 3 /\ q = ChunksEnd(r, s, c) /\ m = s.body[c + 1]
    OBVIOUS
  <2>4. \/ k = q
        \/ m \in Nat /\ remaining <= m /\ k = q + 1 + m - remaining
        \/ m \in Nat /\ k = q + 1 + m
        \/ k = q + 1 \/ k = q + 2
    BY <1>5, <2>1, <2>3 DEF InChunk, ChunkStates
  <2>5. q \in Nat /\ remaining \in Nat /\ k \in Int
    BY <2>1, <2>2, <2>3
  <2>6. k \in Nat
    BY <2>4, <2>5
  <2>7. QED BY <2>3, <2>6
<1>7. a = 3 + (a - 3)
  BY <1>3
<1>8. Chunking(r, s, p, a - 3, c)
  BY <1>1, <1>2, <1>3, <1>4, <1>5, <1>6, <1>7 DEF Chunking
<1>9. QED BY <1>8

LEMMA StillChunked ==
  ASSUME H1Types', Unconsumed', st' \in ChunkStates,
         NEW r \in 1..NumRequests, NEW s, NEW p, NEW k \in Nat, NEW c \in 0..Len(s.body), NEW a,
         At(r, p, a)', a = 3 + k, shapes'[r] = s, req' = r, s.framing = "chunked",
         Begins(BodyOf(r, s), body'), InChunk(r, s, c, k)'
  PROVE  Parsing'
<1>1. a - 3 = k
  OBVIOUS
<1>2. InRequest(r, a)'
  <2>1. InChunk(r, shapes[r], c, a - 3)'
    BY <1>1 DEF InChunk
  <2>2. QED BY <2>1 DEF InRequest, ChunkStates
<1>3. st' # "reqline"
  BY DEF ChunkStates
<1>4. QED BY <1>2, <1>3, Resumed

LEMMA ChunkWaitParses ==
  ASSUME H1Types, H1Types', Unconsumed, Unconsumed', Parsing, FeedChunkWait
  PROVE  Parsing'
<1>1. /\ UNCHANGED <<inb, unread, shapes, handled, st, body, remaining, closeAfter, req, dead>>
      /\ pc = "feed" /\ pc' = "flush"
  BY DEF FeedChunkWait, chunkRest, feedRest, inputVars, history, NoOutput, LeaveFeed
<1>2. Consumed' = Consumed
  BY <1>1 DEF Consumed
<1>3. QED BY <1>1, <1>2, StillParsing

(* The tokens of chunk c + 1 of a chunked body. *)
LEMMA ChunkTokens ==
  ASSUME NEW r \in 1..NumRequests, NEW s, GoodShape(s), s.framing = "chunked",
         NEW c \in 0..Len(s.body), c < Len(s.body)
  PROVE  /\ s.body[c + 1] \in Nat /\ ChunksEnd(r, s, c) \in Nat
         /\ Len(BodyTokens(r, s)) \in Nat
         /\ ChunksEnd(r, s, c) + s.body[c + 1] + 2 <= Len(BodyTokens(r, s)) - 2
         /\ BodyTokens(r, s)[ChunksEnd(r, s, c) + 1] = Tok("size", r, s.body[c + 1])
         /\ \A i \in 1..s.body[c + 1] :
              BodyTokens(r, s)[ChunksEnd(r, s, c) + 1 + i] = BodyOf(r, s)[PayloadEnd(r, s, c) + i]
<1> DEFINE q == ChunksEnd(r, s, c)
           m == s.body[c + 1]
           b == BodyTokens(r, s)
           l == Len(b)
           f == FlattenSeq(Chunks(r, s))
           e == ChunksEnd(r, s, Len(s.body))
           d == c + 1
<1>1. Len(s.body) \in Nat
  BY DEF GoodShape
<1>2. d \in 1..Len(s.body) /\ d - 1 = c
  BY <1>1
<1>3. /\ e \in Nat /\ l = e + 2 /\ \A i \in 1..e : b[i] = f[i]
  BY ChunkedBody
<1>4. Len(f) = e
  BY ChunksLaid
<1> HIDE DEF d
<1>5. /\ ChunksEnd(r, s, d - 1) \in Nat /\ s.body[d] \in Nat
      /\ ChunksEnd(r, s, d - 1) + s.body[d] + 2 <= Len(f)
      /\ f[ChunksEnd(r, s, d - 1) + 1] = Tok("size", r, s.body[d])
      /\ \A i \in 1..s.body[d] : f[ChunksEnd(r, s, d - 1) + 1 + i] = Tok("data", r, i)
  BY <1>2, ChunkLaid
<1>6. \A i \in 1..s.body[d] : BodyOf(r, s)[PayloadEnd(r, s, d - 1) + i] = Tok("data", r, i)
  BY <1>2, PayloadLaid
<1>7. m = s.body[d]
  BY DEF d
<1> HIDE DEF f, e, b, q, m, l
<1>8. /\ q \in Nat /\ m \in Nat /\ q + m + 2 <= e
      /\ f[q + 1] = Tok("size", r, m)
      /\ \A i \in 1..m : f[q + 1 + i] = Tok("data", r, i)
  BY <1>2, <1>4, <1>5, <1>7 DEF q
<1>9. \A i \in 1..m : BodyOf(r, s)[PayloadEnd(r, s, c) + i] = Tok("data", r, i)
  BY <1>2, <1>6, <1>7
<1>10. q + 1 \in 1..e /\ \A i \in 1..m : q + 1 + i \in 1..e
  <2>1. q \in Nat /\ m \in Nat /\ e \in Nat /\ q + m + 2 <= e
    BY <1>3, <1>8
  <2>2. QED BY <2>1
<1>11. l \in Nat /\ q + m + 2 <= l - 2
  <2>1. q \in Nat /\ m \in Nat /\ e \in Nat /\ q + m + 2 <= e /\ l = e + 2
    BY <1>3, <1>8
  <2>2. QED BY <2>1
<1>12. \A i \in 1..m : b[q + 1 + i] = BodyOf(r, s)[PayloadEnd(r, s, c) + i]
  BY <1>3, <1>8, <1>9, <1>10
<1>13. QED BY <1>3, <1>8, <1>10, <1>11, <1>12 DEF b, q, m, l

(* The token in front, between two chunks. *)
LEMMA SizeToken ==
  ASSUME H1Types, Unconsumed, st = "size", inb # <<>>,
         NEW r, NEW s, NEW p, NEW k, NEW c, Chunking(r, s, p, k, c)
  PROVE  Head(inb) = IF c < Len(s.body) THEN Tok("size", r, s.body[c + 1]) ELSE Tok("last", r, 0)
<1> DEFINE b == BodyTokens(r, s)
           e == ChunksEnd(r, s, Len(s.body))
<1>1. /\ r \in 1..NumRequests /\ GoodShape(s) /\ s.framing = "chunked" /\ s = shapes[r]
      /\ At(r, p, 3 + k) /\ k \in Nat /\ c \in 0..Len(s.body) /\ k = ChunksEnd(r, s, c)
  BY DEF Chunking, InChunk
<1>2. Head(inb) = inb[1] /\ 1 \in 1..Len(inb)
  BY DEF H1Types
<1>3. e \in Nat /\ Len(b) = e + 2 /\ b[e + 1] = Tok("last", r, 0)
  BY <1>1, ChunkedBody
<1>4. k + 1 <= Len(b) => inb[1] = b[k + 1]
  BY <1>1, <1>2, BodyToken
<1>5. Len(s.body) \in Nat
  BY <1>1 DEF GoodShape
<1>6. CASE c = Len(s.body)
  BY <1>1, <1>2, <1>3, <1>4, <1>5, <1>6
<1>7. CASE c < Len(s.body)
  <2>1. /\ s.body[c + 1] \in Nat /\ k + s.body[c + 1] + 2 <= Len(b) - 2
        /\ b[k + 1] = Tok("size", r, s.body[c + 1])
    BY <1>1, <1>7, ChunkTokens
  <2> HIDE DEF b, e
  <2>2. k + 1 <= Len(b)
    <3>1. PICK m, l : m = s.body[c + 1] /\ l = Len(b)
      OBVIOUS
    <3>2. m \in Nat /\ k \in Nat /\ l \in Nat /\ k + m + 2 <= l - 2
      BY <1>1, <1>3, <2>1, <3>1
    <3>3. k + 1 <= l
      BY <3>2
    <3>4. QED BY <3>1, <3>3
  <2>3. QED BY <1>2, <1>4, <1>7, <2>1, <2>2
<1>8. QED BY <1>1, <1>5, <1>6, <1>7

LEMMA ChunkSizeParses ==
  ASSUME H1Types, H1Types', Unconsumed, Unconsumed', Parsing, FeedChunkSize
  PROVE  Parsing'
<1>1. st = "size" /\ pc = "feed" /\ inb # <<>> /\ inb' = Tail(inb)
  BY DEF FeedChunkSize, Feeding
<1>2. UNCHANGED <<shapes, handled, unread, body, req, dead>>
  BY DEF FeedChunkSize, chunkRest, feedRest, inputVars, history
<1>3. CASE closeAfter' \/ dead
  BY <1>2, <1>3 DEF Parsing
<1>4. CASE ~closeAfter' /\ ~dead
  <2>1. /\ closeAfter' = closeAfter /\ pc' = "feed" /\ remaining' = Head(inb).size
        /\ st' = IF Head(inb).kind = "last" THEN "trailer" ELSE "data"
    BY <1>4 DEF FeedChunkSize, EmitSimple, Continue, NoOutput
  <2>2. PICK r, s, p, k, c : Chunking(r, s, p, k, c)
    BY <1>1, <1>4, <2>1, InChunked DEF ChunkStates
  <2>3. /\ r \in 1..NumRequests /\ GoodShape(s) /\ s.framing = "chunked" /\ s = shapes[r]
        /\ At(r, p, 3 + k) /\ k \in Nat /\ c \in 0..Len(s.body) /\ req = r
        /\ k = ChunksEnd(r, s, c) /\ Len(body) = PayloadEnd(r, s, c)
        /\ Begins(BodyOf(r, s), body)
    BY <1>1, <2>2 DEF Chunking, InChunk
  <2>4. Eats(1)
    BY <1>1, <1>2, EatOne
  <2>5. At(r, p, 3 + k + 1)' /\ 3 + k + 1 = 3 + (k + 1) /\ k + 1 \in Nat
    <3>1. At(r, p, 3 + k + 1)'
      BY <1>2, <2>3, <2>4, Moved
    <3>2. QED BY <2>3, <3>1
  <2>6. Len(s.body) \in Nat /\ ChunksEnd(r, s, c) \in Nat /\ PayloadEnd(r, s, c) \in Nat
        /\ (c < Len(s.body) => s.body[c + 1] \in Nat)
    BY <2>3, EndsAre
  <2>7. InChunk(r, s, c, k + 1)' /\ st' \in ChunkStates
    <3>1. Head(inb) = IF c < Len(s.body) THEN Tok("size", r, s.body[c + 1]) ELSE Tok("last", r, 0)
      BY <1>1, <2>2, SizeToken
    <3>2. CASE c < Len(s.body)
      <4>1. st' = "data" /\ remaining' = s.body[c + 1]
        BY <2>1, <3>1, <3>2 DEF Tok
      <4> DEFINE m == s.body[c + 1]
      <4>2. m \in Nat /\ k + 1 = ChunksEnd(r, s, c) + 1 + m - m
            /\ Len(body') = PayloadEnd(r, s, c) + m - m /\ m <= m
        <5>1. PICK q, e, u : q = ChunksEnd(r, s, c) /\ e = PayloadEnd(r, s, c) /\ u = Len(body')
          OBVIOUS
        <5>2. m \in Nat /\ q \in Nat /\ e \in Nat /\ k = q /\ u = e
          BY <1>2, <2>3, <2>6, <3>2, <5>1
        <5> HIDE DEF m
        <5>3. k + 1 = q + 1 + m - m /\ u = e + m - m /\ m <= m
          BY <5>2
        <5>4. QED BY <5>1, <5>2, <5>3
      <4>3. QED BY <3>2, <4>1, <4>2 DEF InChunk, ChunkStates
    <3>3. CASE c = Len(s.body)
      <4>1. st' = "trailer"
        BY <2>1, <2>6, <3>1, <3>3 DEF Tok
      <4>2. QED BY <1>2, <2>1, <2>3, <3>3, <4>1 DEF InChunk, ChunkStates
    <3>4. QED BY <2>3, <2>6, <3>2, <3>3
  <2>8. QED BY <1>2, <2>3, <2>5, <2>7, StillChunked
<1>5. QED BY <1>3, <1>4

(* A token of the payload of chunk c + 1 in the buffer. *)
LEMMA ChunkDataToken ==
  ASSUME H1Types, Unconsumed, st = "data",
         NEW r, NEW s, NEW p, NEW k, NEW c, Chunking(r, s, p, k, c),
         NEW i \in 1..Len(inb), i <= remaining
  PROVE  inb[i] = BodyOf(r, s)[Len(body) + i]
<1> DEFINE b == BodyTokens(r, s)
           q == ChunksEnd(r, s, c)
           m == s.body[c + 1]
           l == Len(b)
           j == m - remaining + i
<1>1. /\ r \in 1..NumRequests /\ GoodShape(s) /\ s.framing = "chunked" /\ s = shapes[r]
      /\ At(r, p, 3 + k) /\ k \in Nat /\ c \in 0..Len(s.body) /\ c < Len(s.body)
      /\ remaining <= m /\ k = q + 1 + m - remaining
      /\ Len(body) = PayloadEnd(r, s, c) + m - remaining
  BY DEF Chunking, InChunk
<1>2. /\ m \in Nat /\ q \in Nat /\ l \in Nat /\ q + m + 2 <= l - 2
      /\ \A n \in 1..m : b[q + 1 + n] = BodyOf(r, s)[PayloadEnd(r, s, c) + n]
  <2>1. /\ r \in 1..NumRequests /\ GoodShape(s) /\ s.framing = "chunked"
        /\ c \in 0..Len(s.body) /\ c < Len(s.body)
    BY <1>1
  <2>2. /\ m \in Nat /\ q \in Nat /\ l \in Nat /\ q + m + 2 <= l - 2
    BY <2>1, ChunkTokens
  <2>3. \A n \in 1..m : b[q + 1 + n] = BodyOf(r, s)[PayloadEnd(r, s, c) + n]
    BY <2>1, ChunkTokens
  <2>4. QED BY <2>2, <2>3
<1>3. PayloadEnd(r, s, c) \in Nat /\ remaining \in Nat /\ Len(inb) \in Nat
  <2>1. remaining \in Nat /\ Len(inb) \in Nat
    BY DEF H1Types
  <2>2. PayloadEnd(r, s, c) \in Nat
    BY <1>1, EndsAre
  <2>3. QED BY <2>1, <2>2
<1>4. k + i <= l => inb[i] = b[k + i]
  BY <1>1, BodyToken
<1> HIDE DEF b, q, m, l
<1>5. /\ j \in 1..m /\ k + i <= l /\ k + i = q + 1 + j
      /\ Len(body) + i = PayloadEnd(r, s, c) + j
  <2>1. PICK u, v : u = Len(body) /\ v = PayloadEnd(r, s, c)
    OBVIOUS
  <2>2. /\ m \in Nat /\ q \in Nat /\ l \in Nat /\ v \in Nat /\ remaining \in Nat /\ i \in Nat
        /\ i >= 1 /\ i <= remaining /\ remaining <= m /\ q + m + 2 <= l - 2
        /\ k = q + 1 + m - remaining /\ u = v + m - remaining
    BY <1>1, <1>2, <1>3, <2>1
  <2>3. j \in 1..m /\ k + i <= l /\ k + i = q + 1 + j /\ u + i = v + j
    BY <2>2
  <2>4. QED BY <2>1, <2>3
<1> HIDE DEF j
<1>6. b[q + 1 + j] = BodyOf(r, s)[PayloadEnd(r, s, c) + j]
  BY <1>2, <1>5
<1>7. QED BY <1>4, <1>5, <1>6

LEMMA ChunkDataParses ==
  ASSUME H1Types, H1Types', Unconsumed, Unconsumed', Parsing, FeedChunkData
  PROVE  Parsing'
<1>1. st = "data" /\ TakeBody
  BY DEF FeedChunkData, Feeding
<1>2. /\ UNCHANGED <<shapes, handled, unread, req, dead, closeAfter>>
      /\ st' = (IF remaining' = 0 THEN "crlf" ELSE "data")
  <2>1. remaining' \in Nat
    BY DEF H1Types
  <2>2. remaining' > 0 => remaining' # 0
    BY <2>1
  <2>3. QED BY <1>1, <2>2 DEF FeedChunkData, chunkRest, feedRest, inputVars, history, NoOutput, LeaveFeed
<1>3. CASE closeAfter \/ dead
  BY <1>2, <1>3 DEF Parsing
<1>4. CASE ~closeAfter /\ ~dead
  <2>1. PICK r, s, p, k, c : Chunking(r, s, p, k, c)
    BY <1>1, <1>4, InChunked DEF ChunkStates
  <2> DEFINE x == BodyOf(r, s)
             m == s.body[c + 1]
             q == ChunksEnd(r, s, c)
             e == PayloadEnd(r, s, c)
  <2>2. /\ r \in 1..NumRequests /\ GoodShape(s) /\ s.framing = "chunked" /\ s = shapes[r]
        /\ At(r, p, 3 + k) /\ k \in Nat /\ c \in 0..Len(s.body) /\ req = r
        /\ Begins(x, body) /\ c < Len(s.body)
        /\ remaining <= m /\ k = q + 1 + m - remaining /\ Len(body) = e + m - remaining
    BY <1>1, <2>1 DEF Chunking, InChunk
  <2>3. PICK n \in 0..Len(inb) :
          /\ n <= remaining /\ remaining' = remaining - n
          /\ body' = body \o SubSeq(inb, 1, n)
          /\ inb' = SubSeq(inb, n + 1, Len(inb))
    BY <1>1, TakeIs
  <2>4. Eats(n)
    BY <1>2, <2>3, EatSome
  <2>5. At(r, p, 3 + k + n)'
    BY <1>2, <2>2, <2>4, Moved
  <2>6. /\ m \in Nat /\ q \in Nat /\ e \in Nat /\ e + m <= Len(x)
    BY <2>2, EndsAre
  <2>7. /\ remaining \in Nat /\ Len(inb) \in Nat /\ Len(body) \in Nat /\ x \in Seq(Token)
        /\ body \in Seq(Token) /\ inb \in Seq(Token) /\ Len(x) \in Nat
    <3>1. /\ remaining \in Nat /\ Len(inb) \in Nat /\ Len(body) \in Nat
          /\ body \in Seq(Token) /\ inb \in Seq(Token)
      BY DEF H1Types
    <3>2. x \in Seq(Token)
      BY <2>2, BodyOfType
    <3> HIDE DEF x
    <3>3. Len(x) \in Nat
      BY <3>2
    <3>4. QED BY <3>1, <3>2, <3>3
  <2>8. \A i \in 1..n : inb[i] = x[Len(body) + i]
    <3>1. SUFFICES ASSUME NEW i \in 1..n PROVE inb[i] = x[Len(body) + i]
      OBVIOUS
    <3>2. i \in 1..Len(inb) /\ i <= remaining
      BY <2>3, <2>7
    <3>3. QED BY <1>1, <2>1, <3>2, ChunkDataToken
  <2> HIDE DEF x, m, q, e
  <2>9. Len(body) + n <= Len(x)
    BY <2>2, <2>3, <2>6, <2>7
  <2>10. Begins(x, body') /\ Len(body') = Len(body) + n
    BY <2>2, <2>3, <2>7, <2>8, <2>9, BodyGrows
  <2>11. /\ k + n \in Nat /\ 3 + k + n = 3 + (k + n) /\ remaining' <= m /\ remaining' \in Nat
         /\ k + n = q + 1 + m - remaining' /\ Len(body') = e + m - remaining'
    <3>1. n \in Nat /\ Len(body') = Len(body) + n /\ remaining' = remaining - n /\ n <= remaining
      BY <2>3, <2>7, <2>10
    <3>2. k = q + 1 + m - remaining /\ Len(body) = e + m - remaining /\ remaining <= m /\ k \in Nat
      BY <2>2
    <3>3. QED BY <2>6, <2>7, <3>1, <3>2
  <2>12. InChunk(r, s, c, k + n)' /\ st' \in ChunkStates
    <3>1. CASE remaining' = 0
      <4>1. k + n = q + 1 + m /\ Len(body') = e + m
        BY <2>6, <2>11, <3>1
      <4>2. st' = "crlf"
        BY <1>2, <3>1
      <4>3. QED BY <2>2, <4>1, <4>2 DEF InChunk, ChunkStates, m, q, e
    <3>2. CASE remaining' # 0
      <4>1. st' = "data"
        BY <1>2, <3>2
      <4>2. QED BY <2>2, <2>11, <4>1 DEF InChunk, ChunkStates, m, q, e
    <3>3. QED BY <3>1, <3>2
  <2>13. QED BY <1>2, <2>2, <2>5, <2>10, <2>11, <2>12, StillChunked DEF x
<1>5. QED BY <1>3, <1>4

LEMMA ChunkCrlfParses ==
  ASSUME H1Types, H1Types', Unconsumed, Unconsumed', Parsing, FeedChunkCrlf
  PROVE  Parsing'
<1>1. st = "crlf" /\ inb # <<>>
  BY DEF FeedChunkCrlf, Feeding
<1>2. UNCHANGED <<shapes, handled, unread, body, req, dead>>
  BY DEF FeedChunkCrlf, chunkRest, feedRest, inputVars, history
<1>3. CASE closeAfter' \/ dead
  BY <1>2, <1>3 DEF Parsing
<1>4. CASE ~closeAfter' /\ ~dead
  <2>1. closeAfter' = closeAfter /\ inb' = Tail(inb) /\ st' = "size"
    BY <1>4 DEF FeedChunkCrlf, EmitSimple, NoOutput
  <2>2. PICK r, s, p, k, c : Chunking(r, s, p, k, c)
    BY <1>1, <1>4, <2>1, InChunked DEF ChunkStates
  <2>3. /\ r \in 1..NumRequests /\ GoodShape(s) /\ s.framing = "chunked" /\ s = shapes[r]
        /\ At(r, p, 3 + k) /\ k \in Nat /\ c \in 0..Len(s.body) /\ req = r
        /\ Begins(BodyOf(r, s), body) /\ c < Len(s.body)
        /\ k = ChunksEnd(r, s, c) + 1 + s.body[c + 1]
        /\ Len(body) = PayloadEnd(r, s, c) + s.body[c + 1]
    BY <1>1, <2>2 DEF Chunking, InChunk
  <2>4. Eats(1)
    BY <1>1, <1>2, <2>1, EatOne
  <2>5. At(r, p, 3 + k + 1)'
    BY <1>2, <2>3, <2>4, Moved
  <2>6. /\ s.body[c + 1] \in Nat /\ ChunksEnd(r, s, c) \in Nat /\ Len(s.body) \in Nat
        /\ ChunksEnd(r, s, c + 1) = ChunksEnd(r, s, c) + s.body[c + 1] + 2
        /\ PayloadEnd(r, s, c + 1) = PayloadEnd(r, s, c) + s.body[c + 1]
    BY <2>3, EndsAre
  <2>7. /\ k + 1 \in Nat /\ 3 + k + 1 = 3 + (k + 1) /\ c + 1 \in 0..Len(s.body)
        /\ k + 1 = ChunksEnd(r, s, c + 1) /\ Len(body) = PayloadEnd(r, s, c + 1)
    <3>1. Len(body) = PayloadEnd(r, s, c + 1)
      BY <2>3, <2>6
    <3>2. PICK m, q, e, l : m = s.body[c + 1] /\ q = ChunksEnd(r, s, c)
                            /\ e = ChunksEnd(r, s, c + 1) /\ l = Len(s.body)
      OBVIOUS
    <3>3. /\ k \in Nat /\ m \in Nat /\ q \in Nat /\ l \in Nat /\ c \in 0..l /\ c < l
          /\ k = q + 1 + m /\ e = q + m + 2
      BY <2>3, <2>6, <3>2
    <3>4. k + 1 \in Nat /\ 3 + k + 1 = 3 + (k + 1) /\ c + 1 \in 0..l /\ k + 1 = e
      BY <3>3
    <3>5. QED BY <3>1, <3>2, <3>4
  <2>8. InChunk(r, s, c + 1, k + 1)' /\ st' \in ChunkStates
    BY <1>2, <2>1, <2>7 DEF InChunk, ChunkStates
  <2>9. QED BY <1>2, <2>3, <2>5, <2>7, <2>8, StillChunked
<1>5. QED BY <1>3, <1>4

LEMMA TrailerParses ==
  ASSUME H1Types, H1Types', Unconsumed, Unconsumed', Parsing, FeedTrailer
  PROVE  Parsing'
<1>1. st = "trailer" /\ pc = "feed" /\ inb # <<>> /\ inb' = Tail(inb)
  BY DEF FeedTrailer, Feeding
<1>2. UNCHANGED <<shapes, handled, unread, body, req, dead>>
  BY DEF FeedTrailer, chunkRest, feedRest, inputVars, history
<1>3. CASE closeAfter' \/ dead
  BY <1>2, <1>3 DEF Parsing
<1>4. CASE ~closeAfter' /\ ~dead
  <2>1. closeAfter' = closeAfter /\ st' = "trailer" /\ pc' = "dispatch"
    BY <1>1, <1>4 DEF FeedTrailer, EmitSimple, NoOutput, Complete
  <2>2. PICK r, s, p, k, c : Chunking(r, s, p, k, c)
    BY <1>1, <1>4, <2>1, InChunked DEF ChunkStates
  <2>3. /\ r \in 1..NumRequests /\ GoodShape(s) /\ s.framing = "chunked" /\ s = shapes[r]
        /\ At(r, p, 3 + k) /\ k \in Nat /\ c \in 0..Len(s.body) /\ req = r
        /\ Begins(BodyOf(r, s), body) /\ c = Len(s.body)
        /\ k = ChunksEnd(r, s, c) + 1 /\ Len(body) = PayloadEnd(r, s, c)
    BY <1>1, <2>2 DEF Chunking, InChunk
  <2>4. Eats(1)
    BY <1>1, <1>2, EatOne
  <2>5. At(r, p, 3 + k + 1)'
    BY <1>2, <2>3, <2>4, Moved
  <2>6. ChunksEnd(r, s, c) \in Nat
    BY <2>3, EndsAre
  <2>7. k + 1 \in Nat /\ 3 + k + 1 = 3 + (k + 1) /\ k + 1 = ChunksEnd(r, s, c) + 2
    BY <2>3, <2>6
  <2>8. InChunk(r, s, c, k + 1)' /\ st' \in ChunkStates
    BY <1>2, <2>1, <2>3, <2>7 DEF InChunk, ChunkStates
  <2>9. QED BY <1>2, <2>3, <2>5, <2>7, <2>8, StillChunked
<1>5. QED BY <1>3, <1>4

(* A request that is dispatched is whole, and the next one follows it. *)
LEMMA AtDispatch ==
  ASSUME H1Types, Control, Unconsumed, Parsing, ~dead, ~closeAfter, pc = "dispatch"
  PROVE  LET r == Len(handled) + 1 IN
         /\ r \in 1..NumRequests /\ req = r /\ body = BodyOf(r, shapes[r])
         /\ Consumed = Start(shapes, r + 1)
<1>1. st \in {"body_cl", "trailer"}
  BY DEF Control
<1>2. PICK r, p, a : At(r, p, a) /\ r \in 1..NumRequests /\ InRequest(r, a)
  BY <1>1, Opened
<1>3. r = Len(handled) + 1 /\ p = Start(shapes, r) /\ Consumed = p + a /\ p \in Nat /\ a \in Nat
  BY <1>2 DEF At
<1>4. PICK s : s = shapes[r]
  OBVIOUS
<1>5. GoodShape(s) /\ FittingShapes(shapes)
  BY <1>2, <1>4, ShapeIsGood DEF H1Types
<1> DEFINE x == BodyOf(r, s)
           b == BodyTokens(r, s)
<1>6. x \in Seq(Token) /\ Len(x) \in Nat /\ body \in Seq(Token) /\ Len(body) \in Nat
      /\ remaining \in Nat
  BY <1>2, <1>5, BodyOfType DEF H1Types
<1>7. req = r /\ Begins(x, body)
  BY <1>2, <1>4 DEF InRequest
<1>8. Start(shapes, r + 1) = p + 3 + Len(b) /\ b \in Seq(Token)
  BY <1>2, <1>3, <1>4, <1>5, RequestLaid
<1>9. Len(body) = Len(x) /\ a = 3 + Len(b)
  <2>1. CASE st = "body_cl"
    <3>1. s.framing # "chunked" /\ a = 3 + Len(body) /\ Len(body) + remaining = Len(x) /\ remaining = 0
      BY <1>2, <1>4, <2>1 DEF InRequest
    <3>2. b = x
      BY <1>2, <1>5, <3>1, PlainBodies
    <3>3. QED BY <1>6, <3>1, <3>2
  <2>2. CASE st = "trailer"
    <3>1. s.framing = "chunked" /\ \E c \in 0..Len(s.body) : InChunk(r, s, c, a - 3)
      BY <1>2, <1>4, <2>2 DEF InRequest, ChunkStates
    <3>2. PICK c \in 0..Len(s.body) : InChunk(r, s, c, a - 3)
      BY <3>1
    <3>3. c = Len(s.body) /\ Len(body) = PayloadEnd(r, s, c) /\ a - 3 = ChunksEnd(r, s, c) + 2
      BY <2>2, <3>2 DEF InChunk
    <3>4. Len(x) = PayloadEnd(r, s, c)
      BY <1>2, <1>5, <3>1, <3>3, PayloadLaid
    <3>5. Len(b) = ChunksEnd(r, s, c) + 2
      BY <1>2, <1>5, <3>1, <3>3, ChunkedBody
    <3> HIDE DEF x, b
    <3>6. QED BY <1>3, <1>8, <3>3, <3>4, <3>5
  <2>3. QED BY <1>1, <2>1, <2>2
<1> HIDE DEF x, b
<1>10. body = x
  BY <1>6, <1>7, <1>9 DEF Begins
<1>11. p + 3 + Len(b) = p + a
  BY <1>3, <1>8, <1>9
<1>12. QED BY <1>2, <1>3, <1>4, <1>7, <1>8, <1>10, <1>11 DEF x

(* What a call of the handler that does not detach the stream does. *)
LEMMA Dispatches ==
  ASSUME H1Types, Control, Dispatch \/ DispatchUpgradeFails \/ DispatchNoMemory
  PROVE  /\ pc = "dispatch" /\ ~dead /\ ~dead' /\ closeAfter = responded
         /\ UNCHANGED <<inb, unread, shapes, req>> /\ AfterResponse
         /\ \E how \in Hows : CallHandler(how)
         /\ responded => closeAfter'
         /\ closeAfter => closeAfter'
<1>1. /\ pc = "dispatch" /\ UNCHANGED <<inb, unread, shapes, req, dead>> /\ AfterResponse
      /\ Respond \/ ~responded
      /\ \E how \in Hows : CallHandler(how)
  BY DEF Dispatch, DispatchUpgradeFails, DispatchNoMemory, inputVars, Hows
<1>2. ~dead /\ closeAfter = responded /\ closeAfter \in BOOLEAN
  BY <1>1 DEF Control, H1Types
<1>3. responded => closeAfter'
  BY <1>1, <1>2 DEF Respond
<1>4. QED BY <1>1, <1>2, <1>3

LEMMA DispatchParses ==
  ASSUME H1Types, H1Types', Control, Unconsumed, Unconsumed', Parsing,
         Dispatch \/ DispatchUpgradeFails \/ DispatchNoMemory
  PROVE  Parsing'
<1>1. CASE closeAfter'
  BY <1>1 DEF Parsing
<1>2. CASE ~closeAfter'
  <2>1. /\ pc = "dispatch" /\ ~dead /\ ~responded /\ ~closeAfter
        /\ UNCHANGED <<inb, unread, shapes>>
        /\ \E how \in Hows : CallHandler(how)
        /\ AfterResponse
    BY <1>2, Dispatches
  <2>2. st' = "reqline" /\ body' = <<>>
    BY <1>2, <2>1 DEF AfterResponse
  <2>3. Len(handled') = Len(handled) + 1 /\ Len(handled) \in Nat
    BY <2>1 DEF CallHandler, H1Types
  <2>4. PICK r : r = Len(handled) + 1
    OBVIOUS
  <2>5. r \in 1..NumRequests /\ Consumed = Start(shapes, r + 1)
    BY <2>1, <2>4, AtDispatch
  <2>6. Consumed' = Consumed
    BY <2>1 DEF Consumed
  <2>7. r + 1 \in 1..(NumRequests + 1) /\ FittingShapes(shapes)
    <3>1. NumRequests \in Nat
      BY ShapesAssumption
    <3>2. r + 1 \in 1..(NumRequests + 1)
      BY <2>5, <3>1
    <3>3. QED BY <3>2 DEF H1Types
  <2>8. Start(shapes, r + 1) \in Nat
    BY <2>7, StartType
  <2>9. At(r + 1, Start(shapes, r + 1), 0)'
    BY <2>1, <2>3, <2>4, <2>5, <2>6, <2>7, <2>8 DEF At
  <2>10. QED BY <2>2, <2>9, Resumed
<1>3. QED BY <1>1, <1>2

LEMMA ParsingStep ==
  H1Types /\ H1Types' /\ Control /\ Unconsumed /\ Unconsumed' /\ Parsing /\ [Next]_vars => Parsing'
<1> SUFFICES ASSUME H1Types, H1Types', Control, Unconsumed, Unconsumed', Parsing, [Next]_vars
             PROVE  Parsing'
  OBVIOUS
<1> USE DEF inputVars, connVars, assembly, history
<1>1. CASE FeedReqLine
  BY <1>1, ReqLineParses
<1>2. CASE FeedHeaders
  BY <1>2, HeadersParse
<1>3. CASE FeedBodyCl
  BY <1>3, BodyClParses
<1>4. CASE FeedChunkWait \/ FeedChunkSize
  BY <1>4, ChunkWaitParses, ChunkSizeParses
<1>5. CASE FeedChunkData \/ FeedChunkCrlf
  BY <1>5, ChunkDataParses, ChunkCrlfParses
<1>6. CASE FeedTrailer
  BY <1>6, TrailerParses
<1>7. CASE Dispatch \/ DispatchUpgradeFails \/ DispatchNoMemory
  BY <1>7, DispatchParses
<1>8. CASE DispatchUpgrade \/ FeedHardError
  <2>1. dead'
    BY <1>8 DEF DispatchUpgrade, FeedHardError
  <2>2. QED BY <2>1 DEF Parsing
<1>9. CASE FeedStaleTrailer \/ FeedDead
  <2>1. closeAfter
    BY <1>9 DEF FeedStaleTrailer, FeedDead, Feeding, Control
  <2>2. closeAfter'
    BY <1>9, <2>1 DEF FeedStaleTrailer, FeedDead, EmitSimple, NoOutput
  <2>3. QED BY <2>2 DEF Parsing
<1>10. CASE PollRead
  <2>1. /\ UNCHANGED <<shapes, handled, st, body, remaining, closeAfter, req, dead>>
        /\ pc = "poll" /\ pc' = "feed"
    BY <1>10 DEF PollRead
  <2>2. Consumed' = Consumed
    BY <1>10, ReadKeeps
  <2>3. QED BY <2>1, <2>2, StillParsing
<1>11. CASE BeginStop \/ PollEof \/ PollHandshake \/ Sniff \/ FlushSome \/ FlushError \/ Sweep
  <2>1. UNCHANGED <<inb, unread, shapes, handled, st, body, remaining, closeAfter, req>>
    BY <1>11 DEF BeginStop, PollEof, PollHandshake, Sniff, FlushSome, Flush, FlushError,
                 Sweep, flushRest
  <2>2. pc # "dispatch" /\ pc' # "dispatch"
    BY <1>11 DEF BeginStop, PollEof, PollHandshake, Sniff, FlushSome, Flush, CloseDecisions,
                 FlushError, Sweep
  <2>3. dead => dead'
    BY <1>11 DEF BeginStop, PollEof, PollHandshake, Sniff, FlushSome, Flush, FlushError, Sweep
  <2>4. Consumed' = Consumed
    BY <2>1 DEF Consumed
  <2>5. QED BY <2>1, <2>2, <2>3, <2>4, StillParsing
<1>12. CASE UNCHANGED vars
  <2>1. UNCHANGED <<inb, unread, shapes, handled, st, body, remaining, closeAfter, req, dead, pc>>
    BY <1>12 DEF vars
  <2>2. CASE dead \/ closeAfter
    BY <2>1, <2>2 DEF Parsing
  <2>3. CASE ~dead /\ ~closeAfter
    <3>1. PICK r, p, a : /\ At(r, p, a)
                         /\ st = "reqline" => a = 0 /\ body = <<>>
                         /\ st # "reqline" => r \in 1..NumRequests /\ InRequest(r, a)
      BY <2>3, Opened
    <3>2. At(r, p, a)'
      BY <2>1, <3>1 DEF At, Consumed
    <3>3. st' # "reqline" => InRequest(r, a)'
      BY <2>1, <3>1 DEF InRequest, InChunk
    <3>4. QED BY <2>1, <3>1, <3>2, <3>3, Resumed
  <2>4. QED BY <2>2, <2>3
<1>13. QED
  BY <1>1, <1>2, <1>3, <1>4, <1>5, <1>6, <1>7, <1>8, <1>9, <1>10, <1>11, <1>12
  DEF Next, Loop, Feed

-----------------------------------------------------------------------------
(* The handler. *)

(* Every call of the handler for a new request is for the next one of the stream. *)
LEMMA CallIsNext ==
  ASSUME H1Types, Control, Unconsumed, Parsing, Handling, pc = "dispatch",
         NEW how \in Hows, CallHandler(how), shapes' = shapes
  PROVE  /\ RequestsAsSent' /\ Len(handled') <= NumRequests /\ req = Len(handled')
         /\ Len(handled') \in Nat
         /\ ~responded => /\ Len(handled') = Len(handled) + 1
                          /\ handled'[Len(handled')].how = how
                          /\ \A i \in 1..Len(handled) : handled'[i] = handled[i]
         /\ responded => handled' = handled
<1>1. handled \in Seq(Call) /\ Len(handled) \in Nat /\ NumRequests \in Nat
  BY ShapesAssumption DEF H1Types
<1>2. RequestsAsSent /\ Len(handled) <= NumRequests /\ (responded => req = Len(handled))
  BY DEF Handling
<1>3. CASE responded
  <2>1. handled' = handled
    BY <1>3 DEF CallHandler
  <2>2. RequestsAsSent'
    BY <1>2, <2>1 DEF RequestsAsSent
  <2>3. QED BY <1>1, <1>2, <1>3, <2>1, <2>2
<1>4. CASE ~responded
  <2> DEFINE x == [req |-> req, body |-> body, how |-> how]
             n == Len(handled) + 1
  <2>1. handled' = Append(handled, x)
    BY <1>4 DEF CallHandler
  <2>2. ~dead /\ ~closeAfter
    BY <1>4 DEF Control
  <2>3. n \in 1..NumRequests /\ req = n /\ body = BodyOf(n, shapes[n])
    BY <2>2, AtDispatch
  <2>4. /\ Len(handled') = n /\ handled'[n] = x
        /\ \A i \in 1..Len(handled) : handled'[i] = handled[i]
    BY <1>1, <2>1
  <2>5. DOMAIN handled' = 1..n /\ DOMAIN handled = 1..Len(handled)
    BY <1>1, <2>1
  <2>6. x.req = n /\ x.body = BodyOf(n, shapes[n]) /\ x.how = how
    BY <2>3
  <2> HIDE DEF x
  <2>7. \A i \in 1..Len(handled) : handled[i].req = i /\ handled[i].body = BodyOf(i, shapes[i])
    BY <1>2, <2>5 DEF RequestsAsSent
  <2>8. ASSUME NEW i \in 1..n
        PROVE  handled'[i].req = i /\ handled'[i].body = BodyOf(i, shapes[i])
    <3>1. i = n \/ i \in 1..Len(handled)
      BY <1>1
    <3>2. QED BY <2>4, <2>6, <2>7, <3>1
  <2>9. RequestsAsSent'
    BY <2>5, <2>8 DEF RequestsAsSent
  <2> HIDE DEF n
  <2>10. n = Len(handled) + 1
    BY DEF n
  <2>11. QED BY <1>1, <1>4, <2>3, <2>4, <2>6, <2>9, <2>10
<1>5. QED BY <1>3, <1>4

LEMMA HandlingStep ==
  H1Types /\ Control /\ Unconsumed /\ Parsing /\ Handling /\ [Next]_vars => Handling'
<1> SUFFICES ASSUME H1Types, Control, Unconsumed, Parsing, Handling, [Next]_vars PROVE Handling'
  OBVIOUS
<1> USE DEF inputVars, connVars, assembly, history
<1>1. CASE Dispatch \/ DispatchNoMemory \/ DispatchUpgrade \/ DispatchUpgradeFails
  <2>1. /\ pc = "dispatch" /\ UNCHANGED <<shapes, req>>
        /\ \E how \in Hows : CallHandler(how)
    BY <1>1 DEF Dispatch, DispatchNoMemory, DispatchUpgrade, DispatchUpgradeFails, Hows
  <2>2. RequestsAsSent' /\ Len(handled') <= NumRequests /\ req' = Len(handled')
    BY <2>1, CallIsNext
  <2>3. QED BY <2>2 DEF Handling
<1>2. CASE FeedReqLine
  <2>1. UNCHANGED <<shapes, handled, responded>> /\ ~responded
    BY <1>2 DEF FeedReqLine, Feeding, feedRest, Control
  <2>2. QED BY <2>1 DEF Handling, RequestsAsSent
<1>3. CASE \/ BeginStop \/ PollRead \/ PollEof \/ PollHandshake \/ Sniff \/ FeedHeaders
           \/ FeedBodyCl \/ FeedChunkWait \/ FeedChunkSize \/ FeedChunkData \/ FeedChunkCrlf
           \/ FeedTrailer \/ FeedStaleTrailer \/ FeedDead \/ FeedHardError
           \/ FlushSome \/ FlushError \/ Sweep \/ UNCHANGED vars
  <2>1. UNCHANGED <<shapes, handled, responded, req>>
    BY <1>3 DEF BeginStop, PollRead, PollEof, PollHandshake, Sniff, FeedHeaders, FeedBodyCl,
                FeedChunkWait, FeedChunkSize, FeedChunkData, FeedChunkCrlf, FeedTrailer,
                FeedStaleTrailer, FeedDead, FeedHardError, FlushSome, Flush, FlushError, Sweep,
                vars, chunkRest, feedRest, flushRest
  <2>2. QED BY <2>1 DEF Handling, RequestsAsSent
<1>4. QED BY <1>1, <1>2, <1>3 DEF Next, Loop, Feed

-----------------------------------------------------------------------------
(* The replies. *)

(* g takes every answer in z to its place in w; it keeps their order. *)
Places(z, w, g) ==
  \A i \in 1..Len(z) : z[i].kind = "answer" => g[i] \in 1..Len(w) /\ w[g[i]] = z[i]

InOrder(z, g) ==
  \A i, k \in 1..Len(z) : i < k => g[i] < g[k] \/ z[i].kind # "answer" \/ z[k].kind # "answer"

(* AnswersUpTo depends only on the answers and on their order. *)
LEMMA SameAnswers ==
  ASSUME NEW w \in Seq(Reply), NEW z \in Seq(Reply), NEW n, AnswersUpTo(w, n), NEW g, NEW h,
         Places(z, w, g), InOrder(z, g), Places(w, z, h)
  PROVE  AnswersUpTo(z, n)
<1> DEFINE A == {i \in 1..Len(w) : w[i].kind = "answer"}
           B == {i \in 1..Len(z) : z[i].kind = "answer"}
<1>1. /\ {w[i].req : i \in A} = 1..n
      /\ \A i, k \in A : i < k => w[i].req < w[k].req
  BY DEF AnswersUpTo
<1>2. \A i \in B : g[i] \in A /\ w[g[i]] = z[i]
  BY DEF Places
<1>3. \A i \in A : h[i] \in B /\ z[h[i]] = w[i]
  BY DEF Places
<1>4. \A i, k \in B : i < k => g[i] < g[k]
  BY DEF InOrder
<1> HIDE DEF A, B
<1>5. {z[i].req : i \in B} = {w[i].req : i \in A}
  BY <1>2, <1>3
<1>6. \A i, k \in B : i < k => z[i].req < z[k].req
  BY <1>1, <1>2, <1>4
<1>7. QED BY <1>1, <1>5, <1>6 DEF AnswersUpTo, A, B

LEMMA InsertOther ==
  ASSUME NEW u \in Seq(Reply), NEW v \in Seq(Reply), NEW n, AnswersUpTo(u \o v, n),
         NEW x \in Reply, x.kind # "answer"
  PROVE  AnswersUpTo(u \o <<x>> \o v, n)
<1> DEFINE w == u \o v
           z == u \o <<x>> \o v
           l == Len(u)
           m == Len(v)
<1>1. w \in Seq(Reply) /\ z \in Seq(Reply) /\ l \in Nat /\ m \in Nat
  OBVIOUS
<1>2. Len(w) = l + m /\ Len(z) = l + 1 + m
  OBVIOUS
<1>3. /\ \A i \in 1..l : w[i] = u[i] /\ z[i] = u[i]
      /\ \A i \in 1..m : w[l + i] = v[i] /\ z[l + 1 + i] = v[i]
      /\ z[l + 1] = x
  OBVIOUS
<1> DEFINE g == [i \in 1..(l + 1 + m) |-> IF i <= l THEN i ELSE i - 1]
           h == [i \in 1..(l + m) |-> IF i <= l THEN i ELSE i + 1]
<1>4. AnswersUpTo(w, n)
  OBVIOUS
<1> HIDE DEF w, z, l, m
<1>5. ASSUME NEW i \in 1..Len(z), z[i].kind = "answer"
      PROVE  g[i] \in 1..Len(w) /\ w[g[i]] = z[i] /\ i # l + 1
  <2>1. CASE i <= l
    BY <1>1, <1>2, <1>3, <2>1
  <2>2. CASE i = l + 1
    BY <1>3, <1>5, <2>2
  <2>3. CASE i > l + 1
    <3> DEFINE j == i - l - 1
    <3>1. j \in 1..m /\ l + 1 + j = i /\ l + j = i - 1 /\ g[i] = i - 1 /\ i - 1 \in 1..(l + m)
      BY <1>1, <1>2, <2>3
    <3> HIDE DEF j, g
    <3>2. w[l + j] = v[j] /\ z[l + 1 + j] = v[j]
      BY <1>3, <3>1
    <3>3. QED BY <1>1, <1>2, <2>3, <3>1, <3>2
  <2>4. QED BY <1>1, <1>2, <2>1, <2>2, <2>3
<1>6. ASSUME NEW i \in 1..Len(w), w[i].kind = "answer"
      PROVE  h[i] \in 1..Len(z) /\ z[h[i]] = w[i]
  <2>1. CASE i <= l
    BY <1>1, <1>2, <1>3, <2>1
  <2>2. CASE i > l
    <3> DEFINE j == i - l
    <3>1. j \in 1..m /\ l + 1 + j = i + 1 /\ l + j = i /\ h[i] = i + 1 /\ i + 1 \in 1..(l + 1 + m)
      BY <1>1, <1>2, <2>2
    <3> HIDE DEF j, h
    <3>2. w[l + j] = v[j] /\ z[l + 1 + j] = v[j]
      BY <1>3, <3>1
    <3>3. QED BY <1>1, <1>2, <3>1, <3>2
  <2>3. QED BY <1>1, <1>2, <2>1, <2>2
<1>7. ASSUME NEW i \in 1..Len(z), NEW k \in 1..Len(z), i < k
      PROVE  g[i] < g[k] \/ z[i].kind # "answer" \/ z[k].kind # "answer"
  <2>1. /\ z[i].kind = "answer" => i # l + 1
        /\ z[k].kind = "answer" => k # l + 1
    BY <1>5
  <2>2. i \in 1..(l + 1 + m) /\ k \in 1..(l + 1 + m) /\ i \in Int /\ k \in Int
    BY <1>1, <1>2
  <2>3. /\ g[i] = IF i <= l THEN i ELSE i - 1
        /\ g[k] = IF k <= l THEN k ELSE k - 1
    BY <2>2
  <2> HIDE DEF g
  <2>4. i # l + 1 /\ k # l + 1 => g[i] < g[k]
    BY <1>1, <1>7, <2>2, <2>3
  <2>5. QED BY <2>1, <2>4
<1> HIDE DEF g, h
<1>8. Places(z, w, g) /\ Places(w, z, h) /\ InOrder(z, g)
  BY <1>5, <1>6, <1>7 DEF Places, InOrder
<1>9. AnswersUpTo(z, n)
  BY <1>1, <1>4, <1>8, SameAnswers
<1>10. QED BY <1>9 DEF z

LEMMA AppendOther ==
  ASSUME NEW u \in Seq(Reply), NEW n, AnswersUpTo(u, n), NEW x \in Reply, x.kind # "answer"
  PROVE  AnswersUpTo(Append(u, x), n)
<1> DEFINE v == <<>>
<1>1. v \in Seq(Reply) /\ u \o v = u /\ u \o <<x>> \o v = Append(u, x)
  OBVIOUS
<1> HIDE DEF v
<1>2. AnswersUpTo(u \o v, n)
  BY <1>1
<1>3. AnswersUpTo(u \o <<x>> \o v, n)
  BY <1>1, <1>2, InsertOther
<1>4. QED BY <1>1, <1>3

LEMMA AppendAnswer ==
  ASSUME NEW u \in Seq(Reply), NEW n \in Nat, AnswersUpTo(u, n),
         NEW x \in Reply, x.kind = "answer", x.req = n + 1
  PROVE  AnswersUpTo(Append(u, x), n + 1)
<1> DEFINE A == {i \in 1..Len(u) : u[i].kind = "answer"}
           z == Append(u, x)
           B == {i \in 1..Len(z) : z[i].kind = "answer"}
           l == Len(u) + 1
<1>1. /\ {u[i].req : i \in A} = 1..n
      /\ \A i, k \in A : i < k => u[i].req < u[k].req
  BY DEF AnswersUpTo
<1>2. /\ Len(z) = l /\ z[l] = x /\ \A i \in 1..Len(u) : z[i] = u[i]
      /\ Len(u) \in Nat
  OBVIOUS
<1> HIDE DEF z
<1>3. B = A \cup {l} /\ \A i \in A : z[i] = u[i] /\ i < l /\ i \in Nat
  BY <1>2
<1> HIDE DEF A, B, l
<1>4. \A i \in A : u[i].req \in 1..n
  BY <1>1
<1>5. {z[i].req : i \in B} = {u[i].req : i \in A} \cup {n + 1}
  BY <1>2, <1>3
<1>6. {z[i].req : i \in B} = 1..(n + 1)
  BY <1>1, <1>5
<1>7. l \in Nat
  BY <1>2 DEF l
<1>8. ASSUME NEW i \in B, NEW k \in B, i < k PROVE z[i].req < z[k].req
  <2>1. CASE i \in A /\ k \in A
    BY <1>1, <1>3, <1>8, <2>1
  <2>2. CASE i \in A /\ k = l
    BY <1>2, <1>3, <1>4, <2>2
  <2>3. CASE i = l
    BY <1>3, <1>7, <1>8, <2>3
  <2>4. QED BY <1>3, <2>1, <2>2, <2>3
<1>9. QED BY <1>6, <1>8 DEF AnswersUpTo, B, z

(* The replies on the wire, whether the client has them or the server queues them. *)
LEMMA WireSplit ==
  ASSUME NEW g \in Seq(Reply), NEW o \in Seq(Reply), NEW k \in 0..Len(o)
  PROVE  (g \o SubSeq(o, 1, k)) \o SubSeq(o, k + 1, Len(o)) = g \o o
<1> DEFINE a == SubSeq(o, 1, k)
           b == SubSeq(o, k + 1, Len(o))
           w == a \o b
<1>1. a \in Seq(Reply) /\ b \in Seq(Reply)
  OBVIOUS
<1>2. w = o
  <2>1. /\ Len(a) = k /\ Len(b) = Len(o) - k /\ Len(o) \in Nat
        /\ \A i \in 1..k : a[i] = o[i]
        /\ \A i \in 1..(Len(o) - k) : b[i] = o[k + i]
    OBVIOUS
  <2> HIDE DEF a, b
  <2>2. /\ w \in Seq(Reply) /\ Len(w) = Len(o)
        /\ \A i \in 1..k : w[i] = a[i]
        /\ \A i \in 1..(Len(o) - k) : w[k + i] = b[i]
    BY <1>1, <2>1
  <2> HIDE DEF w
  <2>3. ASSUME NEW i \in 1..Len(o) PROVE w[i] = o[i]
    <3>1. CASE i <= k
      BY <2>1, <2>2, <3>1
    <3>2. CASE i > k
      <4> DEFINE j == i - k
      <4>1. j \in 1..(Len(o) - k) /\ k + j = i
        BY <2>1, <3>2
      <4> HIDE DEF j
      <4>2. w[k + j] = b[j] /\ b[j] = o[k + j]
        BY <2>1, <2>2, <4>1
      <4>3. QED BY <4>1, <4>2
    <3>3. QED BY <2>1, <3>1, <3>2
  <2>4. QED BY <2>2, <2>3
<1> HIDE DEF a, b
<1>3. (g \o a) \o b = g \o (a \o b)
  BY <1>1, ConcatAssociative
<1>4. QED BY <1>2, <1>3 DEF a, b, w

LEMMA WireAppend ==
  ASSUME NEW g \in Seq(Reply), NEW o \in Seq(Reply), NEW x \in Reply
  PROVE  g \o Append(o, x) = Append(g \o o, x) /\ g \o o \in Seq(Reply)
OBVIOUS

LEMMA QuietReplies ==
  ASSUME Replies, UNCHANGED <<got, out, handled, closeAfter>>, dead => dead'
  PROVE  Replies'
<1>1. ClosesAt(got)' /\ ClosesAt(out)'
  BY DEF Replies, ClosesAt
<1>2. UpgradeIsLast'
  BY DEF Replies, UpgradeIsLast
<1>3. /\ (UpgradeFailed' <=> UpgradeFailed) /\ (OutOfMemory' <=> OutOfMemory)
      /\ NumAnswered' = NumAnswered
  BY DEF UpgradeFailed, OutOfMemory, NumAnswered
<1>4. AnswersUpTo(got \o out, NumAnswered) => AnswersUpTo(got \o out, NumAnswered)'
  BY <1>3 DEF AnswersUpTo
<1>5. QED BY <1>1, <1>2, <1>3, <1>4 DEF Replies

(* While the close is not decided no reply announces it. *)
LEMMA NoCloseYet ==
  ASSUME Replies, ~closeAfter
  PROVE  /\ \A i \in 1..Len(got) : ~Closes(got[i])
         /\ \A i \in 1..Len(out) : ~Closes(out[i])
BY DEF Replies, ClosesAt

(* A reply of the server's own. *)
LEMMA EmitReplies ==
  ASSUME H1Types, Replies, NEW k \in {"error", "redirect"}, EmitSimple(k),
         UNCHANGED <<got, handled>>, dead => dead', req' \in Nat, Len(handled) <= req'
  PROVE  Replies'
<1> DEFINE x == Response(k, req', TRUE)
<1>1. out' = Append(out, x) /\ closeAfter'
  BY DEF EmitSimple
<1>2. x \in Reply /\ x.kind # "answer" /\ x.req = req'
  BY ReplyType DEF Response
<1> HIDE DEF x
<1>3. got \in Seq(Reply) /\ out \in Seq(Reply)
  BY DEF H1Types
<1>4. ClosesAt(got)'
  BY <1>1 DEF Replies, ClosesAt
<1>5. ClosesAt(out)'
  <2>1. \A i \in 1..Len(out) : Closes(out[i]) => Len(handled) <= out[i].req
    BY DEF Replies, ClosesAt
  <2>2. \A i \in 1..Len(out') : (i \in 1..Len(out) /\ out'[i] = out[i]) \/ out'[i] = x
    BY <1>1, <1>3
  <2>3. QED BY <1>1, <1>2, <2>1, <2>2 DEF ClosesAt
<1>6. UpgradeIsLast'
  BY DEF Replies, UpgradeIsLast
<1>7. /\ (UpgradeFailed' <=> UpgradeFailed) /\ (OutOfMemory' <=> OutOfMemory)
      /\ NumAnswered' = NumAnswered
  BY DEF UpgradeFailed, OutOfMemory, NumAnswered
<1>8. (got \o out)' = Append(got \o out, x) /\ got \o out \in Seq(Reply)
  BY <1>1, <1>2, <1>3, WireAppend
<1>9. AnswersUpTo(got \o out, NumAnswered) => AnswersUpTo((got \o out)', NumAnswered)
  BY <1>2, <1>8, AppendOther
<1>10. QED BY <1>4, <1>5, <1>6, <1>7, <1>9 DEF Replies

(* Writing moves replies from the queue to the client. *)
LEMMA FlushReplies ==
  ASSUME H1Types, Replies, FlushSome
  PROVE  Replies'
<1>1. PICK k \in 0..Len(out) : Flush(k)
  BY DEF FlushSome
<1>2. /\ got' = got \o SubSeq(out, 1, k) /\ out' = SubSeq(out, k + 1, Len(out))
      /\ UNCHANGED <<handled, closeAfter>> /\ (dead => dead')
  BY <1>1 DEF Flush, CloseDecisions, flushRest, history
<1>3. got \in Seq(Reply) /\ out \in Seq(Reply) /\ Len(out) \in Nat /\ Len(got) \in Nat
  BY DEF H1Types
<1>4. /\ \A i \in 1..Len(got) : Closes(got[i]) => closeAfter /\ Len(handled) <= got[i].req
      /\ \A i \in 1..Len(out) : Closes(out[i]) => closeAfter /\ Len(handled) <= out[i].req
  BY DEF Replies, ClosesAt
<1>5. ClosesAt(got)'
  <2>1. ASSUME NEW i \in 1..Len(got')
        PROVE  \/ i \in 1..Len(got) /\ got'[i] = got[i]
               \/ i - Len(got) \in 1..Len(out) /\ got'[i] = out[i - Len(got)]
    BY <1>2, <1>3
  <2>2. QED BY <1>2, <1>4, <2>1 DEF ClosesAt
<1>6. ClosesAt(out)'
  <2>1. ASSUME NEW i \in 1..Len(out')
        PROVE  k + i \in 1..Len(out) /\ out'[i] = out[k + i]
    BY <1>2, <1>3
  <2>2. QED BY <1>2, <1>4, <2>1 DEF ClosesAt
<1>7. UpgradeIsLast'
  BY <1>2 DEF Replies, UpgradeIsLast
<1>8. /\ (UpgradeFailed' <=> UpgradeFailed) /\ (OutOfMemory' <=> OutOfMemory)
      /\ NumAnswered' = NumAnswered
  BY <1>2 DEF UpgradeFailed, OutOfMemory, NumAnswered
<1>9. (got \o out)' = got \o out
  BY <1>2, <1>3, WireSplit
<1>10. QED BY <1>5, <1>6, <1>7, <1>8, <1>9 DEF Replies

(* A reply that is emitted is to a request no earlier than the last one handled. *)
LEMMA RequestIsLate ==
  ASSUME H1Types, Control, Unconsumed, Parsing, Handling, pc = "feed", st \notin {"reqline", "dead"}
  PROVE  Len(handled) <= req
<1>1. Len(handled) \in Nat /\ req \in Nat
  BY DEF H1Types
<1>2. CASE closeAfter
  <2>1. req = Len(handled)
    BY <1>2 DEF Control, Handling
  <2>2. QED BY <1>1, <2>1
<1>3. CASE ~closeAfter
  <2>1. ~dead
    BY DEF Control
  <2>2. PICK r, p, a : At(r, p, a) /\ InRequest(r, a)
    BY <1>3, <2>1, Opened
  <2>3. req = Len(handled) + 1
    BY <2>2 DEF At, InRequest
  <2>4. QED BY <1>1, <2>3
<1>4. QED BY <1>2, <1>3

LEMMA LineIsLate ==
  ASSUME H1Types, Control, Unconsumed, Parsing, FeedReqLine, inb # <<>>
  PROVE  Len(handled) <= req'
<1>1. st = "reqline" /\ pc = "feed" /\ req' = Head(inb).req
  BY DEF FeedReqLine, Feeding
<1>2. ~dead /\ ~closeAfter
  BY <1>1 DEF Control, H1Types
<1>3. PICK r, p, a : At(r, p, a) /\ a = 0
  BY <1>1, <1>2, Opened
<1>4. req' = r /\ r = Len(handled) + 1 /\ Len(handled) \in Nat
  BY <1>1, <1>3, LineToken DEF At, H1Types
<1>5. QED BY <1>4

LEMMA NotUpgraded ==
  ASSUME Replies, ~dead
  PROVE  /\ \A i \in 1..Len(handled) : handled[i].how # "upgrade"
         /\ NumAnswered = Len(handled)
BY DEF Replies, UpgradeIsLast, NumAnswered

(* A first call of the handler, for a request that is not upgraded. *)
LEMMA FirstCall ==
  ASSUME H1Types, H1Types', Control, Unconsumed, Parsing, Handling, Replies, ~responded,
         pc = "dispatch", shapes' = shapes,
         NEW how \in {"answer", "unanswered", "upgrade_failed"}, CallHandler(how)
  PROVE  /\ req = Len(handled) + 1 /\ Len(handled') = Len(handled) + 1 /\ Len(handled) \in Nat
         /\ UpgradeIsLast' /\ NumAnswered' = Len(handled) + 1 /\ NumAnswered = Len(handled)
         /\ UpgradeFailed => UpgradeFailed'
         /\ how = "upgrade_failed" => UpgradeFailed'
         /\ OutOfMemory => OutOfMemory'
         /\ how = "unanswered" => OutOfMemory'
<1>1. /\ req = Len(handled') /\ Len(handled') = Len(handled) + 1
      /\ handled'[Len(handled')].how = how
      /\ \A i \in 1..Len(handled) : handled'[i] = handled[i]
  BY CallIsNext DEF Hows
<1>2. ~dead
  BY DEF Control
<1>3. (\A i \in 1..Len(handled) : handled[i].how # "upgrade") /\ NumAnswered = Len(handled)
  BY <1>2, NotUpgraded
<1>4. handled \in Seq(Call) /\ handled' \in Seq(Call)
  BY DEF H1Types
<1>5. Len(handled) \in Nat /\ DOMAIN handled = 1..Len(handled) /\ DOMAIN handled' = 1..Len(handled')
  BY <1>4
<1>6. \A i \in 1..Len(handled') : i \in 1..Len(handled) \/ i = Len(handled')
  BY <1>1, <1>5
<1>7. \A i \in 1..Len(handled') : handled'[i].how # "upgrade"
  BY <1>1, <1>3, <1>6
<1>8. UpgradeIsLast' /\ NumAnswered' = Len(handled')
  BY <1>7 DEF UpgradeIsLast, NumAnswered
<1>9. (UpgradeFailed => UpgradeFailed') /\ (OutOfMemory => OutOfMemory')
  <2>1. 1..Len(handled) \subseteq 1..Len(handled')
    BY <1>1, <1>5
  <2>2. QED BY <1>1, <1>5, <2>1 DEF UpgradeFailed, OutOfMemory
<1>10. (how = "upgrade_failed" => UpgradeFailed') /\ (how = "unanswered" => OutOfMemory')
  <2>1. Len(handled') \in 1..Len(handled')
    BY <1>1, <1>5
  <2>2. QED BY <1>1, <1>5, <2>1 DEF UpgradeFailed, OutOfMemory
<1>11. QED BY <1>1, <1>3, <1>5, <1>8, <1>9, <1>10

(* The answer that is queued for it. *)
LEMMA FirstAnswer ==
  ASSUME H1Types, H1Types', Control, Replies, ~responded, Respond, pc = "dispatch",
         req = Len(handled) + 1, Len(handled') = Len(handled) + 1, Len(handled) \in Nat
  PROVE  /\ ClosesAt(out)'
         /\ \E x \in Reply : x.kind = "answer" /\ x.req = req /\ out' = Append(out, x)
<1> DEFINE x == Response("answer", req, ClosesAfter)
<1>1. out' = Append(out, x) /\ (ClosesAfter => closeAfter')
  BY DEF Respond
<1>2. ClosesAfter \in BOOLEAN
  BY DEF ClosesAfter, CapReached, H1Types
<1>3. x \in Reply
  BY <1>2, ReplyType DEF H1Types
<1>4. x.kind = "answer" /\ x.req = req /\ (Closes(x) => ClosesAfter)
  BY DEF Response, Closes
<1> HIDE DEF x
<1>5. ~closeAfter
  BY DEF Control
<1>6. \A i \in 1..Len(out) : ~Closes(out[i])
  BY <1>5, NoCloseYet
<1>7. out \in Seq(Reply)
  BY DEF H1Types
<1>8. \A i \in 1..Len(out') : (i \in 1..Len(out) /\ out'[i] = out[i]) \/ out'[i] = x
  BY <1>1, <1>3, <1>7
<1>9. Len(handled') <= x.req
  BY <1>4
<1>10. ClosesAt(out)'
  BY <1>1, <1>4, <1>6, <1>8, <1>9 DEF ClosesAt
<1>11. QED BY <1>1, <1>3, <1>4, <1>10

LEMMA DispatchReplies ==
  ASSUME H1Types, H1Types', Control, Unconsumed, Parsing, Handling, Replies, Dispatch
  PROVE  Replies'
<1>1. /\ pc = "dispatch" /\ UNCHANGED <<shapes, got, dead>> /\ CallHandler("answer") /\ Respond
  BY DEF Dispatch, inputVars
<1>2. CASE responded
  BY <1>1, <1>2, QuietReplies DEF CallHandler, Respond
<1>3. CASE ~responded
  <2>1. /\ req = Len(handled) + 1 /\ Len(handled') = Len(handled) + 1 /\ Len(handled) \in Nat
        /\ UpgradeIsLast' /\ NumAnswered' = Len(handled) + 1 /\ NumAnswered = Len(handled)
        /\ UpgradeFailed => UpgradeFailed'
        /\ OutOfMemory => OutOfMemory'
    BY <1>1, <1>3, FirstCall
  <2>2. ClosesAt(out)' /\ \E x \in Reply : x.kind = "answer" /\ x.req = req /\ out' = Append(out, x)
    BY <1>1, <1>3, <2>1, FirstAnswer
  <2>3. PICK x \in Reply : x.kind = "answer" /\ x.req = req /\ out' = Append(out, x)
    BY <2>2
  <2>4. ~closeAfter
    BY <1>1, <1>3 DEF Control
  <2>5. ClosesAt(got)'
    BY <1>1, <2>4, NoCloseYet DEF ClosesAt
  <2>6. got \in Seq(Reply) /\ out \in Seq(Reply)
    BY DEF H1Types
  <2>7. (got \o out)' = Append(got \o out, x) /\ got \o out \in Seq(Reply)
    BY <1>1, <2>3, <2>6, WireAppend
  <2>8. ASSUME AnswersUpTo(got \o out, NumAnswered) PROVE AnswersUpTo(got \o out, NumAnswered)'
    <3>1. PICK w, n : w = got \o out /\ n = Len(handled)
      OBVIOUS
    <3>2. AnswersUpTo(w, n) /\ w \in Seq(Reply) /\ n \in Nat /\ x.req = n + 1
      BY <2>1, <2>3, <2>7, <2>8, <3>1
    <3>3. AnswersUpTo(Append(w, x), n + 1)
      BY <2>3, <3>2, AppendAnswer
    <3>4. QED BY <2>1, <2>7, <3>1, <3>3
  <2>9. QED BY <2>1, <2>2, <2>5, <2>8 DEF Replies
<1>4. QED BY <1>2, <1>3

(* What memory running out leaves in the queue is no answer and decides no close. *)
LEMMA NoMemoryReplies ==
  ASSUME H1Types, H1Types', Control, Unconsumed, Parsing, Handling, Replies, DispatchNoMemory
  PROVE  Replies'
<1>1. /\ pc = "dispatch" /\ ~responded /\ UNCHANGED <<shapes, got, dead, closeAfter>>
      /\ CallHandler("unanswered")
      /\ out' = out \/ \E c : out' = Append(out, Response("partial", req, c))
  BY DEF DispatchNoMemory, inputVars
<1>2. UpgradeIsLast' /\ OutOfMemory'
  BY <1>1, FirstCall
<1>3. ~closeAfter
  BY <1>1 DEF Control
<1>4. /\ \A i \in 1..Len(got) : ~Closes(got[i])
      /\ \A i \in 1..Len(out) : ~Closes(out[i])
  BY <1>3, NoCloseYet
<1>5. ClosesAt(got)'
  BY <1>1, <1>4 DEF ClosesAt
<1>6. ClosesAt(out)'
  <2>1. CASE out' = out
    BY <1>4, <2>1 DEF ClosesAt
  <2>2. CASE out' # out
    <3>1. PICK c : out' = Append(out, Response("partial", req, c))
      BY <1>1, <2>2
    <3>2. PICK x : x = Response("partial", req, c)
      OBVIOUS
    <3>3. ~Closes(x)
      BY <3>2 DEF Response, Closes
    <3>4. out \in Seq(Reply) /\ out' = Append(out, x)
      BY <3>1, <3>2 DEF H1Types
    <3>5. \A i \in 1..Len(out') : (i \in 1..Len(out) /\ out'[i] = out[i]) \/ out'[i] = x
      BY <3>4
    <3>6. QED BY <1>4, <3>3, <3>5 DEF ClosesAt
  <2>3. QED BY <2>1, <2>2
<1>7. QED BY <1>2, <1>5, <1>6 DEF Replies

LEMMA UpgradeFailsReplies ==
  ASSUME H1Types, H1Types', Control, Unconsumed, Parsing, Handling, Replies, DispatchUpgradeFails
  PROVE  Replies'
<1>1. /\ pc = "dispatch" /\ UNCHANGED <<shapes, dead>> /\ CallHandler("upgrade_failed") /\ Respond
      /\ \/ UNCHANGED got
         \/ ~responded /\ \E k \in 0 .. (Len(out) - 1) :
              got' = got \o <<Response("switch", req, FALSE)>> \o SubSeq(out, 1, k)
  BY DEF DispatchUpgradeFails, inputVars
<1>2. CASE responded
  BY <1>1, <1>2, QuietReplies DEF CallHandler, Respond
<1>3. CASE ~responded
  <2>1. /\ req = Len(handled) + 1 /\ Len(handled') = Len(handled) + 1 /\ Len(handled) \in Nat
        /\ UpgradeIsLast' /\ UpgradeFailed'
    BY <1>1, <1>3, FirstCall
  <2>2. ClosesAt(out)'
    BY <1>1, <1>3, <2>1, FirstAnswer
  <2>3. ~closeAfter
    BY <1>1, <1>3 DEF Control
  <2>4. /\ \A i \in 1..Len(got) : ~Closes(got[i])
        /\ \A i \in 1..Len(out) : ~Closes(out[i])
    BY <2>3, NoCloseYet
  <2>5. \A i \in 1..Len(got') : ~Closes(got'[i])
    <3>1. CASE UNCHANGED got
      BY <2>4, <3>1
    <3>2. CASE ~UNCHANGED got
      <4> DEFINE x == Response("switch", req, FALSE)
      <4>1. x \in Reply /\ ~Closes(x)
        BY ReplyType DEF Response, H1Types, Closes
      <4>2. PICK k \in 0 .. (Len(out) - 1) : got' = got \o <<x>> \o SubSeq(out, 1, k)
        BY <1>1, <3>2
      <4> HIDE DEF x
      <4>3. PICK v : v = SubSeq(out, 1, k)
        OBVIOUS
      <4>4. /\ v \in Seq(Reply) /\ Len(v) <= Len(out) /\ \A i \in 1..Len(v) : v[i] = out[i]
            /\ Len(v) \in Nat /\ Len(out) \in Nat
        BY <4>2, <4>3 DEF H1Types
      <4>5. \A i \in 1..Len(v) : ~Closes(v[i])
        BY <2>4, <4>4
      <4>6. ASSUME NEW i \in 1..Len(got')
            PROVE  \/ i \in 1..Len(got) /\ got'[i] = got[i]
                   \/ got'[i] = x
                   \/ i - Len(got) - 1 \in 1..Len(v) /\ got'[i] = v[i - Len(got) - 1]
        <5>1. got' = got \o <<x>> \o v /\ got \in Seq(Reply)
          BY <4>2, <4>3 DEF H1Types
        <5>2. QED BY <4>1, <4>4, <5>1
      <4>7. QED BY <2>4, <4>1, <4>5, <4>6
    <3>3. QED BY <3>1, <3>2
  <2>6. ClosesAt(got)'
    BY <2>5 DEF ClosesAt
  <2>7. QED BY <2>1, <2>2, <2>6 DEF Replies
<1>4. QED BY <1>2, <1>3

LEMMA UpgradeReplies ==
  ASSUME H1Types, H1Types', Control, Unconsumed, Parsing, Handling, Replies, DispatchUpgrade
  PROVE  Replies'
<1> DEFINE x == Response("switch", req, FALSE)
<1>1. /\ pc = "dispatch" /\ UNCHANGED <<shapes, closeAfter>> /\ CallHandler("upgrade")
      /\ got' = got \o <<x>> \o out /\ out' = <<>> /\ dead'
  BY DEF DispatchUpgrade, inputVars
<1>2. x \in Reply /\ ~Closes(x) /\ x.kind # "answer"
  BY ReplyType DEF Response, H1Types, Closes
<1> HIDE DEF x
<1>3. got \in Seq(Reply) /\ out \in Seq(Reply) /\ Len(got) \in Nat /\ Len(out) \in Nat
  BY DEF H1Types
<1>4. ~dead
  BY <1>1 DEF Control
<1>5. (\A i \in 1..Len(handled) : handled[i].how # "upgrade") /\ NumAnswered = Len(handled)
  BY <1>4, NotUpgraded
<1>6. ASSUME NEW i \in 1..Len(got')
      PROVE  \/ i \in 1..Len(got) /\ got'[i] = got[i]
             \/ got'[i] = x
             \/ i - Len(got) - 1 \in 1..Len(out) /\ got'[i] = out[i - Len(got) - 1]
  BY <1>1, <1>2, <1>3
<1>7. /\ handled' \in Seq(Call) /\ handled \in Seq(Call)
      /\ Len(handled) \in Nat /\ Len(handled') \in Nat
      /\ DOMAIN handled = 1..Len(handled) /\ DOMAIN handled' = 1..Len(handled')
  BY DEF H1Types
<1>8. /\ ~responded => /\ Len(handled') = Len(handled) + 1
                       /\ handled'[Len(handled')].how = "upgrade"
                       /\ \A i \in 1..Len(handled) : handled'[i] = handled[i]
      /\ responded => handled' = handled
  BY <1>1, CallIsNext DEF Hows
<1>9. ClosesAt(got)' /\ ClosesAt(out)'
  <2>1. ClosesAt(out)'
    BY <1>1 DEF ClosesAt
  <2>2. ClosesAt(got)'
    <3>1. CASE responded
      <4>1. /\ \A i \in 1..Len(got) : Closes(got[i]) => closeAfter /\ Len(handled) <= got[i].req
            /\ \A i \in 1..Len(out) : Closes(out[i]) => closeAfter /\ Len(handled) <= out[i].req
        BY DEF Replies, ClosesAt
      <4>2. QED BY <1>1, <1>2, <1>6, <1>8, <3>1, <4>1 DEF ClosesAt
    <3>2. CASE ~responded
      <4>1. ~closeAfter
        BY <1>1, <3>2 DEF Control
      <4>2. /\ \A i \in 1..Len(got) : ~Closes(got[i])
            /\ \A i \in 1..Len(out) : ~Closes(out[i])
        BY <4>1, NoCloseYet
      <4>3. QED BY <1>2, <1>6, <4>2 DEF ClosesAt
    <3>3. QED BY <3>1, <3>2
  <2>3. QED BY <2>1, <2>2
<1>10. /\ \A i \in 1..Len(handled') : \/ i \in 1..Len(handled) /\ handled'[i] = handled[i]
                                      \/ ~responded /\ i = Len(handled')
       /\ 1..Len(handled) \subseteq 1..Len(handled')
  <2>1. CASE responded
    BY <1>8, <2>1
  <2>2. CASE ~responded
    <3>1. PICK m, n : m = Len(handled) /\ n = Len(handled')
      OBVIOUS
    <3>2. n = m + 1 /\ m \in Nat
      BY <1>7, <1>8, <2>2, <3>1
    <3>3. 1..m \subseteq 1..n /\ \A i \in 1..n : i \in 1..m \/ i = n
      BY <3>2
    <3>4. QED BY <1>8, <2>2, <3>1, <3>3
  <2>3. QED BY <2>1, <2>2
<1>11. UpgradeIsLast'
  BY <1>1, <1>5, <1>10 DEF UpgradeIsLast
<1>12. NumAnswered' = NumAnswered
  <2>1. CASE responded
    BY <1>8, <2>1 DEF NumAnswered
  <2>2. CASE ~responded
    <3>1. Len(handled') = Len(handled) + 1 /\ Len(handled) \in Nat
      BY <1>7, <1>8, <2>2
    <3>2. Len(handled') \in 1..Len(handled') /\ Len(handled') - 1 = Len(handled)
      BY <3>1
    <3>3. NumAnswered' = Len(handled') - 1
      BY <1>8, <2>2, <3>2 DEF NumAnswered
    <3>4. QED BY <1>5, <3>2, <3>3
  <2>3. QED BY <2>1, <2>2
<1>13. (UpgradeFailed => UpgradeFailed') /\ (OutOfMemory => OutOfMemory')
  BY <1>7, <1>8, <1>10 DEF UpgradeFailed, OutOfMemory
<1>14. (got \o out)' = got \o <<x>> \o out
  <2>1. got' \o <<>> = got'
    BY DEF H1Types
  <2>2. QED BY <1>1, <2>1
<1>15. AnswersUpTo(got \o out, NumAnswered) => AnswersUpTo((got \o out)', NumAnswered)
  BY <1>2, <1>3, <1>14, InsertOther
<1>16. QED BY <1>9, <1>11, <1>12, <1>13, <1>15 DEF Replies

LEMMA RepliesStep ==
  H1Types /\ H1Types' /\ Control /\ Unconsumed /\ Parsing /\ Handling /\ Replies /\ [Next]_vars
    => Replies'
<1> SUFFICES ASSUME H1Types, H1Types', Control, Unconsumed, Parsing, Handling, Replies, [Next]_vars
             PROVE  Replies'
  OBVIOUS
<1> USE DEF inputVars, connVars, assembly, history
<1>1. CASE Dispatch
  BY <1>1, DispatchReplies
<1>2. CASE DispatchUpgrade
  BY <1>2, UpgradeReplies
<1>3. CASE DispatchUpgradeFails \/ DispatchNoMemory
  BY <1>3, UpgradeFailsReplies, NoMemoryReplies
<1>4. CASE FlushSome
  BY <1>4, FlushReplies
<1>5. CASE FeedReqLine
  <2>1. UNCHANGED <<got, handled, dead>> /\ req' \in Nat
    BY <1>5 DEF FeedReqLine, feedRest, H1Types
  <2>2. CASE inb # <<>> /\ EmitSimple("error")
    BY <1>5, <2>1, <2>2, LineIsLate, EmitReplies
  <2>3. CASE NoOutput
    BY <2>1, <2>3, QuietReplies DEF NoOutput
  <2>4. QED BY <1>5, <2>2, <2>3, ReqLineCases
<1>6. CASE \/ FeedHeaders \/ FeedChunkSize \/ FeedChunkCrlf \/ FeedTrailer \/ FeedStaleTrailer
  <2>1. /\ UNCHANGED <<got, handled, dead, req>> /\ pc = "feed" /\ st \notin {"reqline", "dead"}
        /\ NoOutput \/ \E k \in {"error", "redirect"} : EmitSimple(k)
    <3>1. CASE FeedHeaders
      BY <3>1 DEF FeedHeaders, Feeding, feedRest
    <3>2. CASE FeedChunkSize
      BY <3>2 DEF FeedChunkSize, Feeding, chunkRest, feedRest
    <3>3. CASE FeedChunkCrlf
      BY <3>3 DEF FeedChunkCrlf, Feeding, chunkRest, feedRest
    <3>4. CASE FeedTrailer
      BY <3>4 DEF FeedTrailer, Feeding, chunkRest, feedRest
    <3>5. CASE FeedStaleTrailer
      BY <3>5 DEF FeedStaleTrailer, Feeding, chunkRest, feedRest
    <3>6. QED BY <1>6, <3>1, <3>2, <3>3, <3>4, <3>5
  <2>2. CASE NoOutput
    BY <2>1, <2>2, QuietReplies DEF NoOutput
  <2>3. CASE \E k \in {"error", "redirect"} : EmitSimple(k)
    <3>1. req' \in Nat /\ Len(handled) <= req'
      BY <2>1, RequestIsLate DEF H1Types
    <3>2. QED BY <2>1, <2>3, <3>1, EmitReplies
  <2>4. QED BY <2>1, <2>2, <2>3
<1>7. CASE \/ BeginStop \/ PollRead \/ PollEof \/ PollHandshake \/ Sniff
           \/ FeedBodyCl \/ FeedChunkWait \/ FeedChunkData \/ FeedDead \/ FeedHardError
           \/ FlushError \/ Sweep \/ UNCHANGED vars
  <2>1. UNCHANGED <<got, out, handled, closeAfter>>
    BY <1>7 DEF BeginStop, PollRead, PollEof, PollHandshake, Sniff, FeedBodyCl,
                FeedChunkWait, FeedChunkData, FeedDead, FeedHardError, FlushError, Sweep,
                NoOutput, vars, chunkRest, feedRest, flushRest
  <2>2. dead => dead'
    BY <1>7 DEF BeginStop, PollRead, PollEof, PollHandshake, Sniff, FeedBodyCl,
                FeedChunkWait, FeedChunkData, FeedDead, FeedHardError, FlushError, Sweep,
                vars, chunkRest, feedRest
  <2>3. QED BY <2>1, <2>2, QuietReplies
<1>8. QED BY <1>1, <1>2, <1>3, <1>4, <1>5, <1>6, <1>7 DEF Next, Loop, Feed

-----------------------------------------------------------------------------
(* The invariant holds. *)

LEMMA InitHolds == Init => H1Inv
<1> SUFFICES ASSUME Init PROVE H1Inv
  OBVIOUS
<1>1. FittingShapes(shapes)
  BY DEF Init, FittingShapes
<1>2. Stream(shapes) \in Seq(Token) /\ Start(shapes, 1) = 0
  BY <1>1, StreamLaid
<1>3. /\ unread = Stream(shapes) /\ inb = <<>> /\ out = <<>> /\ got = <<>> /\ handled = <<>>
      /\ body = <<>> /\ st = "reqline" /\ ~responded /\ ~closeAfter /\ Len(inb) = 0
  BY DEF Init
<1>4. NumRequests \in Nat \ {0}
  BY ShapesAssumption
<1>5. H1Types
  <2>1. /\ inb \in Seq(Token) /\ body \in Seq(Token) /\ got \in Seq(Reply) /\ out \in Seq(Reply)
        /\ unread \in Seq(Token)
    BY <1>2, <1>3, EmptyTypes
  <2>2. handled \in Seq(Call)
    BY <1>3
  <2>3. QED BY <1>1, <2>1, <2>2 DEF Init, H1Types, ParserStates
<1>6. Control /\ Left /\ OrderlyEnd
  BY DEF Init, Control, Left, OrderlyEnd
<1>7. Len(Stream(shapes)) \in Nat /\ Len(unread) = Len(Stream(shapes))
  BY <1>2, <1>3
<1>8. Consumed = 0
  BY <1>3, <1>7 DEF Consumed
<1>9. Unconsumed
  <2>1. PICK f, l : f = Stream(shapes) /\ l = Len(f)
    OBVIOUS
  <2>2. \A i \in 1..l : unread[i] = f[l - l + i]
    BY <1>3, <1>7, <2>1
  <2>3. QED BY <1>3, <1>7, <2>1, <2>2 DEF Unconsumed
<1>10. Parsing
  <2>1. 1 \in 1..(NumRequests + 1) /\ 0 \in 0..Len(Stream(shapes)) /\ 1 = Len(handled) + 1
        /\ Consumed = Start(shapes, 1) + 0
    BY <1>2, <1>3, <1>4, <1>7, <1>8
  <2>2. QED BY <1>3, <2>1 DEF Parsing
<1>11. Handling
  BY <1>3, <1>4 DEF Handling, RequestsAsSent
<1>12. Replies
  <2>1. ClosesAt(got) /\ ClosesAt(out) /\ UpgradeIsLast /\ NumAnswered = 0
    BY <1>3 DEF ClosesAt, UpgradeIsLast, NumAnswered
  <2>2. got \o out = <<>>
    BY <1>3
  <2>3. AnswersUpTo(<<>>, 0)
    BY DEF AnswersUpTo
  <2>4. QED BY <2>1, <2>2, <2>3 DEF Replies
<1>13. QED BY <1>5, <1>6, <1>9, <1>10, <1>11, <1>12 DEF H1Inv

LEMMA StepHolds == H1Inv /\ [Next]_vars => H1Inv'
<1> SUFFICES ASSUME H1Inv, [Next]_vars PROVE H1Inv'
  OBVIOUS
<1>1. H1Types /\ Control /\ Left /\ OrderlyEnd /\ Unconsumed /\ Parsing /\ Handling /\ Replies
  BY DEF H1Inv
<1>2. H1Types' /\ Control'
  BY <1>1, TypesStep, ControlStep
<1>3. Left' /\ OrderlyEnd'
  BY <1>1, LeftStep, EndStep
<1>4. Unconsumed'
  BY <1>1, UnconsumedStep
<1>5. Parsing'
  BY <1>1, <1>2, <1>4, ParsingStep
<1>6. Handling'
  BY <1>1, HandlingStep
<1>7. Replies'
  BY <1>1, <1>2, RepliesStep
<1>8. QED BY <1>2, <1>3, <1>4, <1>5, <1>6, <1>7 DEF H1Inv

(* The parser's place in the client's stream, the calls of the handler and the replies fit
   together in every reachable state (zh1_feed_, h1_finish, zhs_dispatch_, conn_process). *)
THEOREM H1Invariant == Spec => []H1Inv
<1>1. Init => H1Inv
  BY InitHolds
<1>2. H1Inv /\ [Next]_vars => H1Inv'
  BY StepHolds
<1>3. QED BY <1>1, <1>2, PTL DEF Spec

(* Message framing: whatever the requests and however the reads cut the stream, the i-th call of
   the handler is for the i-th request with exactly the body framed for it. *)
THEOREM FramingHolds == Spec => []RequestsAsSent
<1>1. H1Inv => RequestsAsSent
  BY DEF H1Inv, Handling
<1>2. QED BY <1>1, H1Invariant, PTL

(* At most one call of the handler detached the stream, and it was the last one. *)
LEMMA UpgradesAre ==
  ASSUME H1Types, UpgradeIsLast
  PROVE  Cardinality(Upgraded) \in {0, 1} /\ NumAnswered = Len(handled) - Cardinality(Upgraded)
<1> DEFINE U == {j \in 1..Len(handled) : handled[j].how = "upgrade"}
<1>1. DOMAIN handled = 1..Len(handled) /\ Len(handled) \in Nat
  BY DEF H1Types
<1>2. Upgraded = {handled[i].req : i \in U}
  BY <1>1 DEF Upgraded
<1>3. CASE U = {}
  <2>1. Upgraded = {} /\ NumAnswered = Len(handled)
    BY <1>2, <1>3 DEF NumAnswered
  <2>2. Cardinality(Upgraded) = 0
    BY <2>1, FS_EmptySet
  <2>3. QED BY <1>1, <2>1, <2>2
<1>4. CASE U # {}
  <2>1. U = {Len(handled)}
    BY <1>4 DEF UpgradeIsLast
  <2>2. NumAnswered = Len(handled) - 1
    BY <1>4 DEF NumAnswered
  <2> HIDE DEF U
  <2>3. Upgraded = {handled[Len(handled)].req}
    BY <1>2, <2>1
  <2>4. Cardinality(Upgraded) = 1
    BY <2>3, FS_Singleton
  <2>5. QED BY <2>2, <2>4
<1>5. QED BY <1>3, <1>4

(* Pipelined responses: unless an upgrade attempt failed or memory ran out, the answers delivered
   and queued are one for each handled request, in request order (zhs_dispatch_, h1_respond, conn_flush). *)
THEOREM AnswersInOrder == Spec => []OneAnswerEach
<1>1. H1Inv => OneAnswerEach
  <2> SUFFICES ASSUME H1Inv, ~UpgradeFailed, ~OutOfMemory PROVE EachAnswered
    BY DEF OneAnswerEach
  <2>1. H1Types /\ UpgradeIsLast /\ AnswersUpTo(got \o out, NumAnswered)
    BY DEF H1Inv, Replies
  <2>2. PICK w, n : w = got \o out /\ n = NumAnswered
    OBVIOUS
  <2>3. n = Len(handled) - Cardinality(Upgraded)
    BY <2>1, <2>2, UpgradesAre
  <2>4. DOMAIN w = 1..Len(w)
    BY <2>1, <2>2 DEF H1Types
  <2>5. AnswersUpTo(w, n)
    BY <2>1, <2>2
  <2>6. QED BY <2>2, <2>3, <2>4, <2>5 DEF EachAnswered, AnswersUpTo
<1>2. QED BY <1>1, H1Invariant, PTL

(* A response that announces `connection: close' is honoured unless memory ran out while it was
   queued: no later request reaches the handler (zh1_feed_ returns ZH1_CLOSE and the parser is not fed again). *)
THEOREM ClosesAreFinal == Spec => []CloseIsFinal
<1>1. H1Inv => CloseIsFinal
  <2> SUFFICES ASSUME H1Inv, NEW i \in DOMAIN (got \o out), Closes((got \o out)[i]),
                      NEW j \in DOMAIN handled
               PROVE  handled[j].req <= (got \o out)[i].req
    BY DEF CloseIsFinal, Closes
  <2>1. /\ got \in Seq(Reply) /\ out \in Seq(Reply) /\ Len(got) \in Nat /\ Len(out) \in Nat
        /\ Len(handled) \in Nat /\ DOMAIN handled = 1..Len(handled)
    BY DEF H1Inv, H1Types
  <2>2. handled[j].req = j /\ j \in 1..Len(handled)
    BY <2>1 DEF H1Inv, Handling, RequestsAsSent
  <2>3. PICK x : x = (got \o out)[i]
    OBVIOUS
  <2>4. \/ i \in 1..Len(got) /\ x = got[i]
        \/ i - Len(got) \in 1..Len(out) /\ x = out[i - Len(got)]
    BY <2>1, <2>3
  <2>5. Len(handled) <= x.req /\ x \in Reply
    BY <2>1, <2>3, <2>4 DEF H1Inv, Replies, ClosesAt
  <2>6. x.req \in Nat
    BY <2>5 DEF Reply
  <2>7. QED BY <2>1, <2>2, <2>3, <2>5, <2>6
<1>2. QED BY <1>1, H1Invariant, PTL

(* When the loop goes back to poll() no complete piece of input is left in the buffer, and a
   connection with the start of a request in it counts as receiving (conn_feed). *)
THEOREM BufferIsWorkedOff == Spec => []NothingLeftBehind
<1>1. H1Inv => NothingLeftBehind
  BY DEF H1Inv, Left, NothingLeftBehind
<1>2. QED BY <1>1, H1Invariant, PTL

(* A connection closed in order, or drained at a stop, has delivered every reply it queued and
   was not in the middle of a request (conn_process, conn_drained). *)
THEOREM EndsInOrder == Spec => []OrderlyEnd
<1>1. H1Inv => OrderlyEnd
  BY DEF H1Inv
<1>2. QED BY <1>1, H1Invariant, PTL

=============================================================================
