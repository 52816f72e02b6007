---------------------------- MODULE H3Conn_proofs ----------------------------
(***************************************************************************)
(* Proofs about the HTTP/3 endpoint, for every limit and every number of   *)
(* connections, streams and pieces: the walk of zh3_process_ over tables   *)
(* that it compacts as it goes, and the requests its frame parser puts     *)
(* together.                                                               *)
(***************************************************************************)
EXTENDS H3Conn, FiniteSetTheorems, WellFoundedInduction, TLAPS

USE DEF place, history

Piece == {"headers", "data", "other", "half", "payload"}
Stream ==
  [id : 1 .. MaxOpened, is_uni : BOOLEAN, sent : Seq(Piece),
   pstate : {"hdr", "headers", "data", "skip"}, section : Sections,
   headers_seen : BOOLEAN, body : Seq(Nat), dispatched : BOOLEAN, done : BOOLEAN,
   pending : BOOLEAN]
Conn == [streams : Seq(Stream), requests : Nat]

(* The state of the parser says which piece came last. *)
OpenFrame(st) ==
  LET n == Len(st.sent)
  IN  /\ n = 0 => st.pstate = "hdr" /\ ~st.headers_seen
      /\ n > 0 => CASE st.pstate = "hdr"     -> st.sent[n] \in {"payload", "half"}
                    [] st.pstate = "headers" -> st.sent[n] = "headers"
                    [] st.pstate = "data"    -> st.sent[n] = "data"
                    [] OTHER                 -> st.sent[n] \in {"headers", "other"}

(* A stream that was dispatched is done, and only its response can be pending; one that
   was not is a request in assembly. *)
Good(st) ==
  /\ st \in Stream
  /\ st.pending => st.done
  /\ st.done => st.dispatched /\ ~st.is_uni
  /\ ~st.done => /\ Len(st.body) <= MaxBody /\ BodyIsData(st.body, st.sent) /\ OpenFrame(st)
                 /\ st.headers_seen => h3_decode_headers(st.section)

(* The table of a connection: its streams are good and have different ids. *)
Ids(cn) == {cn.streams[s].id : s \in DOMAIN cn.streams}
ConnGood(cn) ==
  /\ cn \in Conn
  /\ \A s \in DOMAIN cn.streams : Good(cn.streams[s])
  /\ \A s, t \in DOMAIN cn.streams : cn.streams[s].id = cn.streams[t].id => s = t
Table ==
  /\ conns \in Seq(Conn) /\ opened \in 0 .. MaxOpened
  /\ \A c \in DOMAIN conns : ConnGood(conns[c]) /\ \A id \in Ids(conns[c]) : id <= opened
  /\ \A c, d \in DOMAIN conns : c # d => Ids(conns[c]) \cap Ids(conns[d]) = {}

(* A stream whose request was handed over is done, and its id is never used again. *)
Once ==
  /\ handled \in [1 .. MaxOpened -> 0 .. 1]
  /\ \A id \in 1 .. MaxOpened : id > opened => handled[id] = 0
  /\ \A c \in DOMAIN conns : \A s \in DOMAIN conns[c].streams :
       ~conns[c].streams[s].done => handled[conns[c].streams[s].id] = 0

(* Where the pass is: what lies before the index has been served. *)
Stage ==
  /\ pc \in {"poll", "conn", "streams", "pump", "freed"} /\ i \in Nat \ {0} /\ j \in Nat \ {0}
  /\ pc \in {"streams", "pump"} => i \in DOMAIN conns
  /\ pc = "streams" => j = 1
Served ==
  pc = "pump" => \A k \in DOMAIN Streams : k < j => Streams[k].id \in seen

(* What was handed over last. *)
Handed ==
  \A k \in DOMAIN request :
    LET r == request[k]
    IN  /\ WellFormed(r.section) /\ Len(r.body) <= MaxBody
        /\ BodyIsData(r.body, r.sent)
        /\ Len(r.sent) > 0 /\ r.sent[Len(r.sent)] \in {"payload", "half"}

H3Inv == Table /\ Once /\ Stage /\ Served /\ Handed
-----------------------------------------------------------------------------
(* The field section: what h3_emit has seen after k fields. *)

(* Every set of naturals that is not empty has a least element. *)
LEMMA Least ==
  ASSUME NEW T \in SUBSET Nat, T # {}
  PROVE  \E m \in T : \A k \in T : m <= k
<1> DEFINE R == {p \in Nat \X Nat : p[1] < p[2]}
<1>1. IsWellFoundedOn(R, Nat)
  BY NatLessThanWellFounded DEF OpToRel
<1> HIDE DEF R
<1>2. \E m \in T : \A k \in T : ~(<<k, m>> \in R)
  BY <1>1, WFMin
<1>3. PICK m \in T : \A k \in T : ~(<<k, m>> \in R)
  BY <1>2
<1>4. ASSUME NEW k \in T PROVE m <= k
  <2>1. m \in Nat /\ k \in Nat
    OBVIOUS
  <2>2. k < m => <<k, m>> \in R
    BY <2>1 DEF R
  <2>3. QED BY <1>3, <2>1, <2>2
<1>5. QED
  BY <1>3, <1>4

(* Induction, for a set of naturals. *)
LEMMA SetInduction ==
  ASSUME NEW D \in SUBSET Nat, 0 \in D, \A n \in D : n + 1 \in D
  PROVE  D = Nat
<1>1. SUFFICES ASSUME D # Nat PROVE FALSE
  OBVIOUS
<1>2. PICK m \in Nat \ D : \A k \in Nat \ D : m <= k
  <2>1. Nat \ D # {} /\ Nat \ D \in SUBSET Nat
    BY <1>1
  <2>2. QED BY <2>1, Least
<1>3. m # 0 /\ m - 1 \in Nat /\ m - 1 \in D
  BY <1>2
<1>4. QED
  BY <1>2, <1>3

(* g is the recursive function that Emitted defines, on 0..l. *)
Emits(g, section, l) ==
  g = [k \in 0..l |-> IF k = 0 THEN NoFields ELSE h3_emit(g[k - 1], section[k])]

LEMMA EmitsExists ==
  ASSUME NEW section
  PROVE  \A l \in Nat : \E g : Emits(g, section, l)
<1> DEFINE T == {l \in Nat : \E g : Emits(g, section, l)}
<1>1. 0 \in T
  <2>1. Emits([n \in 0..0 |-> NoFields], section, 0)
    BY DEF Emits
  <2>2. QED BY <2>1
<1>2. ASSUME NEW l \in T PROVE l + 1 \in T
  <2>1. l \in Nat /\ \E g : Emits(g, section, l)
    OBVIOUS
  <2>2. PICK g : Emits(g, section, l)
    BY <2>1
  <2> DEFINE Step(f) == [n \in 0..(l + 1) |-> IF n = 0 THEN NoFields ELSE h3_emit(f[n - 1], section[n])]
             h == Step(g)
  <2>3. \A n \in 0..l : h[n] = g[n]
    <3>1. \A n \in 0..l : g[n] = IF n = 0 THEN NoFields ELSE h3_emit(g[n - 1], section[n])
      BY <2>2 DEF Emits
    <3>2. \A n \in 0..l : n \in 0..(l + 1)
      BY <2>1
    <3>3. QED BY <3>1, <3>2
  <2>4. \A n \in 0..(l + 1) : n # 0 => h[n - 1] = g[n - 1]
    <3>1. \A n \in 0..(l + 1) : n # 0 => n - 1 \in 0..l
      BY <2>1
    <3> HIDE DEF h
    <3>2. QED BY <2>3, <3>1
  <2>5. h = Step(h)
    <3> DEFINE k == h
    <3>1. \A n \in 0..(l + 1) : n # 0 => k[n - 1] = g[n - 1]
      BY <2>4
    <3> HIDE DEF k
    <3>2. Step(k) = Step(g)
      BY <3>1
    <3>3. QED BY <3>2 DEF k
  <2> HIDE DEF h
  <2>6. Emits(h, section, l + 1)
    BY <2>5 DEF Emits
  <2>7. QED BY <2>1, <2>6
<1> HIDE DEF T
<1>3. T = Nat
  <2>1. T \in SUBSET Nat
    BY DEF T
  <2>2. QED BY <1>1, <1>2, <2>1, SetInduction
<1>4. QED BY <1>3 DEF T

LEMMA EmittedIs ==
  ASSUME NEW section, Len(section) \in Nat
  PROVE  /\ Emitted(section)[0] = NoFields
         /\ \A k \in 1..Len(section) :
              Emitted(section)[k] = h3_emit(Emitted(section)[k - 1], section[k])
<1> DEFINE Step(f) ==
             [k \in 0..Len(section) |-> IF k = 0 THEN NoFields ELSE h3_emit(f[k - 1], section[k])]
           g == CHOOSE f : f = Step(f)
<1>1. \E f : f = Step(f)
  BY EmitsExists DEF Emits
<1>2. Emitted(section) = g
  BY DEF Emitted
<1>3. g = Step(g)
  <2> HIDE DEF Step
  <2>1. QED BY <1>1
<1> HIDE DEF g
<1>4. \A k \in 0..Len(section) : g[k] = IF k = 0 THEN NoFields ELSE h3_emit(g[k - 1], section[k])
  BY <1>3
<1>5. 0 \in 0..Len(section) /\ \A k \in 1..Len(section) : k \in 0..Len(section) /\ k # 0
  OBVIOUS
<1>6. QED BY <1>2, <1>4, <1>5

(* What a context that is not bad says of the first k fields. *)
Name(section, k) == section[k].f
Seen(section, c, k) ==
  /\ \A m \in 1..k : Name(section, m) \in c.slots \/ (Name(section, m) = "regular" /\ c.regular_seen)
  /\ c.slots \subseteq Pseudo /\ \A f \in c.slots : \E m \in 1..k : Name(section, m) = f
  /\ \A m, n \in 1..k : Name(section, m) \in Pseudo /\ Name(section, n) = Name(section, m) => m = n
  /\ \A m, n \in 1..k : Name(section, n) \in Pseudo /\ m <= n => Name(section, m) # "regular"

LEMMA SeenNext ==
  ASSUME NEW section, NEW c, NEW k \in Nat, ~c.bad => Seen(section, c, k),
         NEW d, d = h3_emit(c, section[k + 1]), ~d.bad
  PROVE  Seen(section, d, k + 1)
<1> DEFINE x == Name(section, k + 1)
<1>1. ~c.bad /\ Seen(section, c, k)
  BY DEF h3_emit
<1>2. \A m \in 1..(k + 1) : m = k + 1 \/ m \in 1..k
  OBVIOUS
<1>3. CASE x = "regular" /\ d = [slots |-> c.slots, regular_seen |-> TRUE, bad |-> FALSE]
  <2>1. d.slots = c.slots /\ d.regular_seen /\ x \notin Pseudo
    BY <1>3 DEF Pseudo
  <2>2. \A m \in 1..k : m <= k /\ m \in 1..(k + 1)
    OBVIOUS
  <2>3. \A m \in 1..(k + 1) : Name(section, m) \in d.slots \/ (Name(section, m) = "regular" /\ d.regular_seen)
    BY <1>1, <1>2, <1>3, <2>1 DEF Seen
  <2>4. d.slots \subseteq Pseudo /\ \A f \in d.slots : \E m \in 1..(k + 1) : Name(section, m) = f
    BY <1>1, <2>1, <2>2 DEF Seen
  <2>5. \A m, n \in 1..(k + 1) :
          Name(section, m) \in Pseudo /\ Name(section, n) = Name(section, m) => m = n
    BY <1>1, <1>2, <2>1 DEF Seen
  <2>6. \A m, n \in 1..(k + 1) : Name(section, n) \in Pseudo /\ m <= n => m \in 1..k /\ n \in 1..k
    BY <1>2, <2>1
  <2>7. \A m, n \in 1..(k + 1) :
          Name(section, n) \in Pseudo /\ m <= n => Name(section, m) # "regular"
    BY <1>1, <2>6 DEF Seen
  <2>8. QED BY <2>3, <2>4, <2>5, <2>7 DEF Seen
<1>4. CASE /\ ~c.regular_seen /\ x \in Pseudo \ c.slots
           /\ d = [slots |-> c.slots \union {x}, regular_seen |-> FALSE, bad |-> FALSE]
  <2>1. d.slots = c.slots \union {x} /\ x \in Pseudo /\ x \notin c.slots /\ "regular" \notin Pseudo
    BY <1>4 DEF Pseudo
  <2>2. \A m \in 1..k : m \in 1..(k + 1) /\ m <= k
    OBVIOUS
  <2>3. \A m \in 1..k : Name(section, m) \in c.slots
    BY <1>1, <1>4 DEF Seen
  <2>4. \A m \in 1..(k + 1) : Name(section, m) \in d.slots
    BY <1>2, <2>1, <2>3
  <2>5. d.slots \subseteq Pseudo
    BY <1>1, <2>1 DEF Seen
  <2>6. \A f \in d.slots : \E m \in 1..(k + 1) : Name(section, m) = f
    <3>1. \A f \in c.slots : \E m \in 1..(k + 1) : Name(section, m) = f
      BY <1>1, <2>2 DEF Seen
    <3>2. k + 1 \in 1..(k + 1)
      OBVIOUS
    <3>3. QED BY <2>1, <3>1, <3>2
  <2>7. \A m, n \in 1..(k + 1) :
          Name(section, m) \in Pseudo /\ Name(section, n) = Name(section, m) => m = n
    <3>1. \A m \in 1..k : Name(section, m) # x
      BY <2>1, <2>3
    <3>2. \A m, n \in 1..k :
            Name(section, m) \in Pseudo /\ Name(section, n) = Name(section, m) => m = n
      BY <1>1 DEF Seen
    <3>3. QED BY <1>2, <3>1, <3>2
  <2>8. \A m \in 1..(k + 1) : Name(section, m) # "regular"
    BY <2>1, <2>4, <2>5
  <2> HIDE DEF x
  <2>9. \A m \in 1..(k + 1) : Name(section, m) \in d.slots \/ (Name(section, m) = "regular" /\ d.regular_seen)
    BY <2>4
  <2>10. \A m, n \in 1..(k + 1) :
          Name(section, n) \in Pseudo /\ m <= n => Name(section, m) # "regular"
    BY <2>8
  <2>11. QED BY <2>5, <2>6, <2>7, <2>9, <2>10 DEF Seen
<1>5. QED BY <1>1, <1>3, <1>4 DEF h3_emit, Name

(* A field section that h3_decode_headers accepts is well-formed: the three pseudo-headers
   once each, all pseudo-headers before the other fields, and nothing unknown. *)
LEMMA AcceptedIsWellFormed ==
  ASSUME NEW Line, NEW section \in Seq(Line), h3_decode_headers(section)
  PROVE  WellFormed(section)
<1> DEFINE l == Len(section)
           c == Emitted(section)[l]
           T == {k \in Nat : k <= l => (~Emitted(section)[k].bad => Seen(section, Emitted(section)[k], k))}
<1>1. l \in Nat /\ DOMAIN section = 1..l
  OBVIOUS
<1>2. ~c.bad /\ {":method", ":path", ":scheme"} \subseteq c.slots /\ zqp_decode_(section)
  BY DEF h3_decode_headers
<1>3. 0 \in T
  <2>1. Seen(section, NoFields, 0)
    BY DEF Seen, NoFields
  <2>2. QED BY <1>1, <2>1, EmittedIs
<1>4. ASSUME NEW k \in T PROVE k + 1 \in T
  <2>1. SUFFICES ASSUME k + 1 <= l, ~Emitted(section)[k + 1].bad
                 PROVE  Seen(section, Emitted(section)[k + 1], k + 1)
    OBVIOUS
  <2>2. k \in Nat /\ k + 1 \in 1..l /\ k + 1 - 1 = k
        /\ (~Emitted(section)[k].bad => Seen(section, Emitted(section)[k], k))
    BY <1>1, <2>1
  <2>3. Emitted(section)[k + 1] = h3_emit(Emitted(section)[k], section[k + 1])
    BY <1>1, <2>2, EmittedIs
  <2>4. QED BY <2>1, <2>2, <2>3, SeenNext
<1> HIDE DEF T
<1>5. T = Nat
  <2>1. T \in SUBSET Nat
    BY DEF T
  <2>2. QED BY <1>3, <1>4, <2>1, SetInduction
<1>6. Seen(section, c, l)
  <2>1. l \in T
    BY <1>1, <1>5
  <2>2. QED BY <1>1, <1>2, <2>1 DEF T
<1> HIDE DEF c, l
<1>7. ASSUME NEW f \in {":method", ":path", ":scheme"}
      PROVE  Cardinality({k \in DOMAIN section : section[k].f = f}) = 1
  <2>1. PICK m \in 1..l : Name(section, m) = f
    BY <1>2, <1>6 DEF Seen
  <2>2. f \in Pseudo
    BY DEF Pseudo
  <2>3. \A n \in 1..l : Name(section, n) = f => n = m
    BY <1>6, <2>1, <2>2 DEF Seen
  <2>4. {k \in DOMAIN section : section[k].f = f} = {m}
    BY <1>1, <2>1, <2>3 DEF Name
  <2>5. QED BY <2>4, FS_Singleton
<1>8. ASSUME NEW k \in DOMAIN section
      PROVE  /\ section[k].f \in Pseudo \union {"regular"} /\ section[k].ref # "dynamic"
             /\ \A m \in 1..k : section[k].f \in Pseudo => section[m].f # "regular"
  <2>1. section[k].f \in Pseudo \union {"regular"}
    BY <1>1, <1>6 DEF Seen, Name
  <2>2. section[k].ref # "dynamic"
    BY <1>2 DEF zqp_decode_
  <2>3. \A m \in 1..k : m \in 1..l /\ m <= k /\ k \in 1..l
    BY <1>1
  <2>4. \A m \in 1..k : section[k].f \in Pseudo => section[m].f # "regular"
    BY <1>6, <2>3 DEF Seen, Name
  <2>5. QED BY <2>1, <2>2, <2>4
<1>9. QED BY <1>7, <1>8 DEF WellFormed

LEMMA SectionsType == \E Line : Sections \subseteq Seq(Line)
<1> DEFINE Line == {M, P, S, X, L("dynamic", ":scheme"), L("literal", "connection"),
                    L("literal", ":protocol")}
<1> HIDE DEF M, P, S, X, L
<1>1. Sections \subseteq Seq(Line)
  BY DEF Sections
<1>2. QED BY <1>1

-----------------------------------------------------------------------------
(* Facts about the operators. *)

(* c->streams[k] = c->streams[--c->nstreams]: every element of the shorter table was in
   the old one, at its own place or at the end. *)
LEMMA SwapRemoved ==
  ASSUME NEW T, NEW q \in Seq(T), NEW k \in 1 .. Len(q)
  PROVE  /\ SwapRemove(q, k) \in Seq(T) /\ Len(SwapRemove(q, k)) = Len(q) - 1
         /\ DOMAIN SwapRemove(q, k) = 1 .. Len(q) - 1
         /\ \A m \in 1 .. Len(q) - 1 :
              SwapRemove(q, k)[m] = q[IF m = k THEN Len(q) ELSE m]
<1>1. PICK n \in Nat : n = Len(q) - 1
  OBVIOUS
<1> DEFINE r == [q EXCEPT ![k] = Last(q)]
<1>2. Last(q) = q[Len(q)] /\ q[Len(q)] \in T
  BY DEF Last
<1>3. r \in Seq(T) /\ Len(r) = Len(q) /\ \A m \in 1 .. Len(q) : r[m] = q[IF m = k THEN Len(q) ELSE m]
  BY <1>2
<1> HIDE DEF r
<1>4. SwapRemove(q, k) = SubSeq(r, 1, n)
  BY <1>1, <1>3 DEF SwapRemove, Front, r
<1>5. SubSeq(r, 1, n) = [m \in 1 .. n |-> r[m]]
  BY <1>1, <1>3
<1>6. /\ [m \in 1 .. n |-> r[m]] \in Seq(T) /\ Len([m \in 1 .. n |-> r[m]]) = n
      /\ DOMAIN [m \in 1 .. n |-> r[m]] = 1 .. n
  BY <1>1, <1>3
<1> QED BY <1>1, <1>3, <1>4, <1>5, <1>6


(* Another piece is sent. *)
LEMMA DataSentNext ==
  ASSUME NEW sent \in Seq(Piece), NEW piece \in Piece
  PROVE  LET n == Len(sent)
             d == DataSent(sent)
             e == DataSent(Append(sent, piece))
         IN  /\ \A k \in d : k \in Nat /\ k <= n
             /\ piece = "payload" /\ n > 0 /\ sent[n] = "data" => e = d \cup {n + 1}
             /\ ~(piece = "payload" /\ n > 0 /\ sent[n] = "data") => e = d
<1> DEFINE n == Len(sent)
           t == Append(sent, piece)
<1>1. n \in Nat /\ Len(t) = n + 1 /\ t[n + 1] = piece /\ \A k \in 1 .. n : t[k] = sent[k]
  OBVIOUS
<1> HIDE DEF t, n
<1>2. ASSUME NEW k PROVE k \in DataSent(sent) <=> /\ k \in 2 .. n /\ sent[k] = "payload"
                                                  /\ sent[k - 1] = "data"
  BY DEF DataSent, n
<1>3. ASSUME NEW k PROVE k \in DataSent(t) <=> /\ k \in 2 .. n + 1 /\ t[k] = "payload"
                                               /\ t[k - 1] = "data"
  BY <1>1 DEF DataSent
<1>4. ASSUME NEW k \in 2 .. n PROVE t[k] = sent[k] /\ t[k - 1] = sent[k - 1]
  <2>1. k \in 1 .. n /\ k - 1 \in 1 .. n
    BY <1>1
  <2> QED BY <1>1, <2>1
<1>5. n > 0 => t[(n + 1) - 1] = sent[n]
  BY <1>1
<1>6. \A k : k \in 2 .. n + 1 <=> k \in 2 .. n \/ (k = n + 1 /\ n > 0)
  BY <1>1
<1>7. ASSUME NEW k
      PROVE  k \in DataSent(t) <=> k \in DataSent(sent)
                \/ (k = n + 1 /\ n > 0 /\ piece = "payload" /\ sent[n] = "data")
  <2>1. CASE k \in 2 .. n
    <3>1. k # n + 1 /\ k \in 2 .. n + 1
      BY <1>1, <2>1
    <3> QED BY <1>2, <1>3, <1>4, <2>1, <3>1
  <2>2. CASE k = n + 1
    <3>1. k \notin 2 .. n /\ t[k] = piece /\ (k \in 2 .. n + 1 <=> n > 0)
      BY <1>1, <2>2
    <3> QED BY <1>2, <1>3, <1>5, <2>2, <3>1
  <2>3. CASE k \notin 2 .. n + 1
    BY <1>2, <1>3, <1>6, <2>3
  <2> QED BY <1>6, <2>1, <2>2, <2>3
<1>8. \A k \in DataSent(sent) : k \in Nat /\ k <= n
  BY <1>1, <1>2
<1> QED BY <1>7, <1>8 DEF n, t

(* A body that grows by the payload of a DATA frame, or does not grow. *)
LEMMA BodyGrows ==
  ASSUME NEW sent \in Seq(Piece), NEW piece \in Piece, NEW body \in Seq(Nat),
         BodyIsData(body, sent)
  PROVE  LET n == Len(sent)
             t == Append(sent, piece)
         IN  /\ piece = "payload" /\ n > 0 /\ sent[n] = "data"
                  => BodyIsData(Append(body, n + 1), t)
             /\ ~(piece = "payload" /\ n > 0 /\ sent[n] = "data") => BodyIsData(body, t)
<1> DEFINE n == Len(sent)
           t == Append(sent, piece)
           m == Len(body)
           b == Append(body, n + 1)
<1>1. /\ \A k \in DataSent(sent) : k \in Nat /\ k <= n
      /\ piece = "payload" /\ n > 0 /\ sent[n] = "data" => DataSent(t) = DataSent(sent) \cup {n + 1}
      /\ ~(piece = "payload" /\ n > 0 /\ sent[n] = "data") => DataSent(t) = DataSent(sent)
  BY DataSentNext
<1>2. /\ n \in Nat /\ m \in Nat /\ DOMAIN body = 1 .. m /\ DOMAIN b = 1 .. m + 1
      /\ b[m + 1] = n + 1 /\ \A a \in 1 .. m : b[a] = body[a]
  OBVIOUS
<1>3. /\ \A a, c \in 1 .. m : a < c => body[a] < body[c]
      /\ \A a \in 1 .. m : body[a] \in DataSent(sent)
      /\ \A k \in DataSent(sent) : \E a \in 1 .. m : body[a] = k
  BY <1>2 DEF BodyIsData
<1> HIDE DEF n, t, m, b
<1>4. ASSUME piece = "payload", n > 0, sent[n] = "data"
      PROVE  BodyIsData(b, t)
  <2>1. DataSent(t) = DataSent(sent) \cup {n + 1}
    BY <1>1, <1>4
  <2>2. ASSUME NEW a \in 1 .. m + 1 PROVE a \in 1 .. m \/ a = m + 1
    BY <1>2
  <2>3. \A a \in 1 .. m : a \in 1 .. m + 1 /\ a < m + 1 /\ body[a] < n + 1
    <3> SUFFICES ASSUME NEW a \in 1 .. m
                 PROVE  a \in 1 .. m + 1 /\ a < m + 1 /\ body[a] < n + 1
      OBVIOUS
    <3>1. body[a] \in Nat /\ body[a] <= n
      BY <1>1, <1>3
    <3> QED BY <1>2, <3>1
  <2>4. m + 1 \in 1 .. m + 1
    BY <1>2
  <2>5. ASSUME NEW a \in 1 .. m + 1, NEW c \in 1 .. m + 1, a < c
        PROVE  b[a] < b[c]
    <3>1. a \in 1 .. m
      BY <1>2, <2>5
    <3>2. CASE c \in 1 .. m
      BY <1>2, <1>3, <2>5, <3>1, <3>2
    <3>3. CASE c = m + 1
      BY <1>2, <2>3, <3>1, <3>3
    <3> QED BY <2>2, <3>2, <3>3
  <2>6. \A a \in 1 .. m + 1 : b[a] \in DataSent(t)
    BY <1>2, <1>3, <2>1, <2>2
  <2>7. \A k \in DataSent(t) : \E a \in 1 .. m + 1 : b[a] = k
    BY <1>2, <1>3, <2>1, <2>3, <2>4
  <2> QED BY <1>2, <2>5, <2>6, <2>7 DEF BodyIsData
<1>5. ASSUME ~(piece = "payload" /\ n > 0 /\ sent[n] = "data")
      PROVE  BodyIsData(body, t)
  <2>1. DataSent(t) = DataSent(sent)
    BY <1>1, <1>5
  <2> QED BY <2>1 DEF BodyIsData
<1> QED BY <1>4, <1>5 DEF n, t, b
-----------------------------------------------------------------------------
(* What the steps make of a stream. *)
LEMMA StreamFacts ==
  ASSUME NEW st \in Stream
  PROVE  /\ st.id \in 1 .. MaxOpened /\ st.is_uni \in BOOLEAN /\ st.sent \in Seq(Piece)
         /\ st.pstate \in {"hdr", "headers", "data", "skip"} /\ st.section \in Sections
         /\ st.headers_seen \in BOOLEAN /\ st.body \in Seq(Nat)
         /\ st.dispatched \in BOOLEAN /\ st.done \in BOOLEAN /\ st.pending \in BOOLEAN
BY DEF Stream

LEMMA NewGood ==
  ASSUME NEW id \in 1 .. MaxOpened, NEW uni \in BOOLEAN
  PROVE  /\ Good(NewStream(id, uni)) /\ NewStream(id, uni).id = id
         /\ ~NewStream(id, uni).done
<1> DEFINE st == NewStream(id, uni)
<1>1. <<>> \in Seq(Piece) /\ <<>> \in Seq(Nat) /\ <<>> \in Sections /\ Len(<<>>) = 0
      /\ DOMAIN <<>> = {} /\ 2 .. 0 = {}
  BY DEF Sections
<1>2. st \in Stream
  BY <1>1 DEF NewStream, Stream
<1>3. /\ st.id = id /\ ~st.done /\ ~st.pending /\ ~st.headers_seen /\ st.pstate = "hdr"
      /\ st.body = <<>> /\ st.sent = <<>>
  BY DEF NewStream
<1>4. DataSent(<<>>) = {}
  BY <1>1 DEF DataSent
<1>5. BodyIsData(<<>>, <<>>)
  BY <1>1, <1>4 DEF BodyIsData
<1>6. OpenFrame(st)
  BY <1>1, <1>3 DEF OpenFrame
<1>7. Len(st.body) <= MaxBody
  BY <1>1, <1>3, H3Assumption
<1> QED BY <1>2, <1>3, <1>5, <1>6, <1>7 DEF Good

LEMMA DoneGood ==
  ASSUME NEW id \in 1 .. MaxOpened, NEW s0 \in h3_respond(NewStream(id, FALSE)),
         NEW st, st = [s0 EXCEPT !.dispatched = TRUE, !.done = TRUE]
  PROVE  Good(st) /\ st.id = id /\ st.done
<1>1. NewStream(id, FALSE) \in Stream
  BY NewGood DEF Good
<1>2. PICK w \in BOOLEAN : s0 = [NewStream(id, FALSE) EXCEPT !.pending = w]
  BY DEF h3_respond
<1>3. st \in Stream /\ st.id = id /\ st.done = TRUE /\ st.dispatched = TRUE /\ st.is_uni = FALSE
  BY <1>1, <1>2 DEF Stream, NewStream
<1> QED BY <1>3 DEF Good

(* Flush: the response has gone out. *)
LEMMA FlushedGood ==
  ASSUME NEW st, Good(st), st.pending
  PROVE  LET f == [st EXCEPT !.pending = FALSE]
         IN  Good(f) /\ f.id = st.id /\ f.done = st.done /\ f.done
<1> DEFINE f == [st EXCEPT !.pending = FALSE]
<1>1. st \in Stream /\ st.done /\ st.dispatched /\ ~st.is_uni
  BY DEF Good
<1>2. f \in Stream /\ f.id = st.id /\ f.done = st.done /\ f.dispatched = st.dispatched
      /\ f.is_uni = st.is_uni /\ f.pending = FALSE
  BY <1>1 DEF Stream
<1> QED BY <1>1, <1>2 DEF Good

(* h3_parse on a piece that it accepts. *)
LEMMA ParsedGood ==
  ASSUME NEW st, Good(st), ~st.done, NEW piece \in Coming(st),
         NEW section \in Sections, ~ParseRefuses(st, piece, section)
  PROVE  LET p == Parsed(st, piece, section) IN Good(p) /\ p.id = st.id /\ ~p.done
<1> DEFINE s == [st EXCEPT !.sent = Append(@, piece)]
           p == Parsed(st, piece, section)
           n == Len(st.sent)
           t == Append(st.sent, piece)
<1>1. /\ st \in Stream /\ ~st.pending /\ Len(st.body) <= MaxBody /\ BodyIsData(st.body, st.sent)
      /\ OpenFrame(st) /\ (st.headers_seen => h3_decode_headers(st.section))
  <2>1. st \in Stream /\ (st.pending => st.done)
    BY DEF Good
  <2> QED BY <2>1 DEF Good
<1>2. /\ st.sent \in Seq(Piece) /\ st.body \in Seq(Nat) /\ n \in Nat /\ Len(st.body) \in Nat
      /\ MaxBody \in Nat
  BY <1>1, StreamFacts, H3Assumption
<1>3. /\ piece \in Piece
      /\ (st.pstate = "hdr" /\ piece \in {"headers", "data", "other", "half"})
         \/ (st.pstate # "hdr" /\ piece = "payload")
  BY DEF Coming, Piece
<1>4. /\ t \in Seq(Piece) /\ Len(t) = n + 1 /\ n + 1 > 0 /\ t[n + 1] = piece
      /\ n + 1 # 0 /\ n + 1 \in Nat
  BY <1>2, <1>3
<1>5. /\ s \in Stream /\ s.sent = t /\ s.id = st.id /\ s.done = st.done /\ s.pending = st.pending
      /\ s.body = st.body /\ s.headers_seen = st.headers_seen /\ s.section = st.section
      /\ s.pstate = st.pstate
  BY <1>1, <1>4 DEF Stream
<1>6. st.pstate = "data" <=> n > 0 /\ st.sent[n] = "data"
  <2>1. st.pstate \in {"hdr", "headers", "data", "skip"}
    BY <1>1, StreamFacts
  <2>2. CASE n = 0
    BY <1>1, <2>2 DEF OpenFrame
  <2>3. CASE n > 0
    BY <1>1, <2>1, <2>3 DEF OpenFrame
  <2> QED BY <1>2, <2>2, <2>3
<1>7. /\ piece = "payload" /\ st.pstate = "data" => BodyIsData(Append(st.body, n + 1), t)
      /\ ~(piece = "payload" /\ st.pstate = "data") => BodyIsData(st.body, t)
  BY <1>1, <1>2, <1>3, <1>6, BodyGrows
<1> DEFINE Ready(x) == /\ x \in Stream /\ x.id = st.id /\ x.done = st.done /\ x.pending = st.pending
                       /\ x.sent = t
<1> SUFFICES /\ Ready(p) /\ Len(p.body) <= MaxBody /\ BodyIsData(p.body, t)
             /\ CASE p.pstate = "hdr"     -> piece \in {"payload", "half"}
                  [] p.pstate = "headers" -> piece = "headers"
                  [] p.pstate = "data"    -> piece = "data"
                  [] OTHER                -> piece \in {"headers", "other"}
             /\ p.headers_seen => h3_decode_headers(p.section)
  <2> HIDE DEF p
  <2>1. OpenFrame(p)
    BY <1>4 DEF OpenFrame
  <2>2. Good(p) /\ p.id = st.id /\ ~p.done
    BY <1>1, <2>1 DEF Good
  <2> QED BY <2>2 DEF p
<1>8. ASSUME NEW x \in {"hdr", "headers", "data", "skip"}
      PROVE  LET q == [s EXCEPT !.pstate = x]
             IN  /\ Ready(q) /\ q.pstate = x /\ q.body = st.body /\ q.section = st.section
                 /\ q.headers_seen = st.headers_seen
  <2> HIDE DEF s, t
  <2> QED BY <1>5 DEF Stream
<1>9. CASE piece = "half"
  <2>1. p = s /\ st.pstate = "hdr"
    BY <1>3, <1>9 DEF Parsed
  <2> HIDE DEF p, s, t
  <2> QED BY <1>1, <1>5, <1>7, <1>9, <2>1
<1>10. ASSUME NEW x \in {"hdr", "headers", "data", "skip"}, p = [s EXCEPT !.pstate = x],
              ~(piece = "payload" /\ st.pstate = "data"),
              CASE x = "hdr"     -> piece \in {"payload", "half"}
                [] x = "headers" -> piece = "headers"
                [] x = "data"    -> piece = "data"
                [] OTHER         -> piece \in {"headers", "other"}
       PROVE  /\ Ready(p) /\ Len(p.body) <= MaxBody /\ BodyIsData(p.body, t)
              /\ CASE p.pstate = "hdr"     -> piece \in {"payload", "half"}
                   [] p.pstate = "headers" -> piece = "headers"
                   [] p.pstate = "data"    -> piece = "data"
                   [] OTHER                -> piece \in {"headers", "other"}
              /\ p.headers_seen => h3_decode_headers(p.section)
  <2> HIDE DEF p, s, t
  <2>1. /\ Ready(p) /\ p.pstate = x /\ p.body = st.body /\ p.section = st.section
        /\ p.headers_seen = st.headers_seen
    <3> HIDE DEF Ready
    <3> QED BY <1>8, <1>10
  <2> QED BY <1>1, <1>7, <1>10, <2>1
<1>11. CASE piece = "headers"
  <2>1. p = [s EXCEPT !.pstate = IF st.headers_seen THEN "skip" ELSE "headers"]
    BY <1>11 DEF Parsed
  <2> QED BY <1>10, <1>11, <2>1
<1>12. CASE piece = "data"
  <2>1. p = [s EXCEPT !.pstate = "data"]
    BY <1>12 DEF Parsed
  <2> QED BY <1>10, <1>12, <2>1
<1>13. CASE piece = "other"
  <2>1. p = [s EXCEPT !.pstate = "skip"]
    BY <1>13 DEF Parsed
  <2> QED BY <1>10, <1>13, <2>1
<1>14. CASE piece = "payload" /\ st.pstate = "headers"
  <2>1. p = [s EXCEPT !.pstate = "hdr", !.headers_seen = TRUE, !.section = section]
    BY <1>14 DEF Parsed
  <2>2. h3_decode_headers(section)
    BY <1>14 DEF ParseRefuses
  <2> HIDE DEF p, s, t
  <2>3. Ready(p) /\ p.pstate = "hdr" /\ p.body = st.body /\ p.section = section
    BY <1>5, <2>1 DEF Stream
  <2> QED BY <1>1, <1>7, <1>14, <2>2, <2>3
<1>15. CASE piece = "payload" /\ st.pstate = "data"
  <2>1. p = [s EXCEPT !.pstate = "hdr", !.body = Append(@, Len(s.sent))]
    BY <1>15 DEF Parsed
  <2>2. Len(st.body) < MaxBody
    BY <1>2, <1>15 DEF ParseRefuses
  <2>3. Append(st.body, n + 1) \in Seq(Nat) /\ Len(Append(st.body, n + 1)) = Len(st.body) + 1
    BY <1>2
  <2> HIDE DEF p, s, t, n
  <2>4. p = [s EXCEPT !.pstate = "hdr", !.body = Append(st.body, n + 1)]
    BY <1>4, <1>5, <2>1
  <2>5. Ready(p) /\ p.pstate = "hdr" /\ p.body = Append(st.body, n + 1) /\ p.section = st.section
        /\ p.headers_seen = st.headers_seen
    BY <1>5, <2>3, <2>4 DEF Stream
  <2>6. Len(p.body) <= MaxBody
    BY <1>2, <2>2, <2>3, <2>5
  <2> QED BY <1>1, <1>7, <1>15, <2>5, <2>6
<1>16. CASE piece = "payload" /\ st.pstate = "skip"
  <2>1. p = [s EXCEPT !.pstate = "hdr"]
    BY <1>16 DEF Parsed
  <2> QED BY <1>10, <1>16, <2>1
<1>17. st.pstate \in {"hdr", "headers", "data", "skip"}
  BY <1>1, StreamFacts
<1> HIDE DEF p, s, t
<1> QED BY <1>3, <1>9, <1>11, <1>12, <1>13, <1>14, <1>15, <1>16, <1>17
-----------------------------------------------------------------------------
(* What the steps make of the table of a connection. *)
LEMMA ConnFacts ==
  ASSUME NEW cn, ConnGood(cn)
  PROVE  /\ cn \in Conn /\ cn.streams \in Seq(Stream) /\ cn.requests \in Nat
         /\ Len(cn.streams) \in Nat /\ DOMAIN cn.streams = 1 .. Len(cn.streams)
         /\ \A s \in DOMAIN cn.streams : Good(cn.streams[s])
         /\ \A s, t \in DOMAIN cn.streams : cn.streams[s].id = cn.streams[t].id => s = t
<1>1. cn \in Conn
  BY DEF ConnGood
<1>2. cn.streams \in Seq(Stream) /\ cn.requests \in Nat
  BY <1>1 DEF Conn
<1> QED BY <1>1, <1>2 DEF ConnGood

LEMMA IdIn ==
  ASSUME NEW cn, NEW s \in DOMAIN cn.streams
  PROVE  cn.streams[s].id \in Ids(cn)
BY DEF Ids

LEMMA StreamSet ==
  ASSUME NEW cn, ConnGood(cn), NEW k \in DOMAIN cn.streams, NEW st, Good(st),
         st.id = cn.streams[k].id, NEW r, r = [cn EXCEPT !.streams[k] = st]
  PROVE  /\ ConnGood(r) /\ DOMAIN r.streams = DOMAIN cn.streams /\ r.streams[k] = st
         /\ \A s \in DOMAIN cn.streams : r.streams[s].id = cn.streams[s].id
         /\ \A s \in DOMAIN cn.streams : s # k => r.streams[s] = cn.streams[s]
         /\ Ids(r) = Ids(cn)
<1>1. /\ cn \in Conn /\ cn.streams \in Seq(Stream) /\ cn.requests \in Nat
      /\ \A s \in DOMAIN cn.streams : Good(cn.streams[s])
      /\ \A s, t \in DOMAIN cn.streams : cn.streams[s].id = cn.streams[t].id => s = t
  BY ConnFacts
<1> DEFINE q == [cn.streams EXCEPT ![k] = st]
<1>2. /\ q \in Seq(Stream) /\ DOMAIN q = DOMAIN cn.streams /\ q[k] = st
      /\ \A s \in DOMAIN cn.streams : s # k => q[s] = cn.streams[s]
  BY <1>1 DEF Good
<1>3. r = [cn EXCEPT !.streams = q]
  OBVIOUS
<1> HIDE DEF q
<1>4. r \in Conn /\ r.streams = q
  BY <1>1, <1>2, <1>3 DEF Conn
<1>5. \A s \in DOMAIN cn.streams : Good(q[s]) /\ q[s].id = cn.streams[s].id
  BY <1>1, <1>2
<1>6. ConnGood(r)
  BY <1>1, <1>2, <1>4, <1>5 DEF ConnGood
<1> QED BY <1>2, <1>4, <1>5, <1>6 DEF Ids

Without(cn, k) == [cn EXCEPT !.streams = SwapRemove(cn.streams, k)]
LEMMA StreamRemoved ==
  ASSUME NEW cn, ConnGood(cn), NEW k \in DOMAIN cn.streams
  PROVE  /\ ConnGood(Without(cn, k)) /\ Ids(Without(cn, k)) \subseteq Ids(cn)
         /\ \A s \in DOMAIN Without(cn, k).streams :
              /\ s \in DOMAIN cn.streams
              /\ s < k => Without(cn, k).streams[s] = cn.streams[s]
              /\ \E t \in DOMAIN cn.streams : t # k /\ Without(cn, k).streams[s] = cn.streams[t]
<1> DEFINE r == Without(cn, k)
<1>1. /\ cn \in Conn /\ cn.streams \in Seq(Stream) /\ Len(cn.streams) \in Nat
      /\ DOMAIN cn.streams = 1 .. Len(cn.streams)
      /\ \A s \in DOMAIN cn.streams : Good(cn.streams[s])
      /\ \A s, t \in DOMAIN cn.streams : cn.streams[s].id = cn.streams[t].id => s = t
  BY ConnFacts
<1> DEFINE q == SwapRemove(cn.streams, k)
           n == Len(cn.streams)
           From(m) == IF m = k THEN n ELSE m
<1>2. q \in Seq(Stream) /\ DOMAIN q = 1 .. n - 1 /\ \A m \in 1 .. n - 1 : q[m] = cn.streams[From(m)]
  BY <1>1, SwapRemoved
<1>3. r = [cn EXCEPT !.streams = q]
  BY DEF Without
<1> HIDE DEF q, r
<1>4. r \in Conn /\ r.streams = q
  BY <1>1, <1>2, <1>3 DEF Conn
<1>5. /\ \A m \in 1 .. n - 1 : /\ From(m) \in 1 .. n /\ From(m) # k /\ m \in 1 .. n
                               /\ (m < k => From(m) = m)
      /\ \A m, o \in 1 .. n - 1 : From(m) = From(o) => m = o
  BY <1>1
<1> HIDE DEF From, n
<1>6. \A m \in 1 .. n - 1 : Good(q[m]) /\ q[m].id = cn.streams[From(m)].id
  BY <1>1, <1>2, <1>5 DEF n
<1>7. \A m, o \in 1 .. n - 1 : q[m].id = q[o].id => m = o
  <2> SUFFICES ASSUME NEW m \in 1 .. n - 1, NEW o \in 1 .. n - 1, q[m].id = q[o].id
               PROVE  m = o
    OBVIOUS
  <2>1. From(m) \in DOMAIN cn.streams /\ From(o) \in DOMAIN cn.streams
    BY <1>1, <1>5 DEF n
  <2>2. cn.streams[From(m)].id = cn.streams[From(o)].id
    BY <1>6
  <2>3. From(m) = From(o)
    BY <1>1, <2>1, <2>2
  <2> QED BY <1>5, <2>3
<1>8. ConnGood(r)
  <2>1. /\ \A m \in DOMAIN q : Good(q[m])
        /\ \A m, o \in DOMAIN q : q[m].id = q[o].id => m = o
    BY <1>2, <1>6, <1>7
  <2> QED BY <1>4, <2>1 DEF ConnGood
<1>9. \A m \in 1 .. n - 1 : From(m) \in DOMAIN cn.streams /\ m \in DOMAIN cn.streams
  BY <1>1, <1>5 DEF n
<1>10. Ids(r) \subseteq Ids(cn)
  BY <1>2, <1>4, <1>6, <1>9 DEF Ids
<1> QED BY <1>2, <1>4, <1>5, <1>8, <1>9, <1>10 DEF r

LEMMA ConnMade ==
  ASSUME NEW q \in Seq(Stream), NEW n \in Nat
  PROVE  /\ [streams |-> q, requests |-> n] \in Conn
         /\ [streams |-> q, requests |-> n].streams = q
BY DEF Conn

LEMMA ConnReplaced ==
  ASSUME NEW cn \in Conn, NEW q \in Seq(Stream), NEW n \in Nat
  PROVE  [cn EXCEPT !.streams = q, !.requests = n] = [streams |-> q, requests |-> n]
<1>1. [cn EXCEPT !.streams = q, !.requests = n] \in Conn
  BY DEF Conn
<1>2. [streams |-> q, requests |-> n] \in Conn
  BY DEF Conn
<1>3. \A a, b \in Conn : a.streams = b.streams /\ a.requests = b.requests => a = b
  BY DEF Conn
<1> QED BY <1>1, <1>2, <1>3 DEF Conn

With(cn, st, n) == [streams |-> Append(cn.streams, st), requests |-> n]
LEMMA StreamAdded ==
  ASSUME NEW cn, ConnGood(cn), NEW st, Good(st), st.id \notin Ids(cn), NEW n \in Nat
  PROVE  /\ ConnGood(With(cn, st, n)) /\ Ids(With(cn, st, n)) = Ids(cn) \cup {st.id}
         /\ \A s \in DOMAIN With(cn, st, n).streams :
              \/ With(cn, st, n).streams[s] = st
              \/ \E t \in DOMAIN cn.streams : With(cn, st, n).streams[s] = cn.streams[t]
<1> DEFINE r == With(cn, st, n)
<1>1. /\ cn \in Conn /\ cn.streams \in Seq(Stream) /\ Len(cn.streams) \in Nat
      /\ DOMAIN cn.streams = 1 .. Len(cn.streams)
      /\ \A s \in DOMAIN cn.streams : Good(cn.streams[s])
      /\ \A s, t \in DOMAIN cn.streams : cn.streams[s].id = cn.streams[t].id => s = t
  BY ConnFacts
<1> DEFINE q == Append(cn.streams, st)
           m == Len(cn.streams)
<1> HIDE DEF r
<1>2. /\ q \in Seq(Stream) /\ DOMAIN q = 1 .. m + 1 /\ q[m + 1] = st
      /\ \A s \in 1 .. m : q[s] = cn.streams[s]
  BY <1>1 DEF Good
<1>3. 1 .. m + 1 = 1 .. m \cup {m + 1} /\ m + 1 \notin 1 .. m
  BY <1>1
<1> HIDE DEF q
<1>4. r \in Conn /\ r.streams = q
  <2>1. r = [streams |-> q, requests |-> n]
    BY DEF q, r, With
  <2>2. q \in Seq(Stream)
    BY <1>2
  <2> QED BY <2>1, <2>2, ConnMade
<1>5. \A s \in 1 .. m + 1 : Good(q[s])
  BY <1>1, <1>2, <1>3
<1>6. \A s \in 1 .. m : cn.streams[s].id # st.id
  BY <1>1 DEF Ids
<1>7. \A s, t \in 1 .. m + 1 : q[s].id = q[t].id => s = t
  BY <1>1, <1>2, <1>3, <1>6
<1>8. ConnGood(r)
  BY <1>2, <1>4, <1>5, <1>7 DEF ConnGood
<1> HIDE DEF m
<1>9. ASSUME NEW x
      PROVE  /\ x \in Ids(r) <=> \E s \in 1 .. m + 1 : x = q[s].id
             /\ x \in Ids(cn) <=> \E s \in 1 .. m : x = cn.streams[s].id
  BY <1>1, <1>2, <1>4 DEF Ids, m
<1>10. ASSUME NEW x PROVE x \in Ids(r) <=> x \in Ids(cn) \cup {st.id}
  BY <1>2, <1>3, <1>9
<1>11. Ids(r) = Ids(cn) \cup {st.id}
  BY <1>10
<1> QED BY <1>1, <1>2, <1>3, <1>4, <1>8, <1>11 DEF m, r

(* A connection's table changes: its streams are old ones or the newest. *)
LEMMA TableChanged ==
  ASSUME Table, NEW c \in DOMAIN conns, NEW cn, ConnGood(cn),
         conns' = [conns EXCEPT ![c] = cn],
         opened' \in 0 .. MaxOpened, opened' = opened \/ opened' = opened + 1,
         \A id \in Ids(cn) : id \in Ids(conns[c]) \/ (id = opened' /\ opened' = opened + 1)
  PROVE  Table' /\ DOMAIN conns' = DOMAIN conns
<1>1. /\ conns \in Seq(Conn) /\ opened \in Nat
      /\ \A d \in DOMAIN conns : ConnGood(conns[d]) /\ \A id \in Ids(conns[d]) : id <= opened
      /\ \A d, e \in DOMAIN conns : d # e => Ids(conns[d]) \cap Ids(conns[e]) = {}
  BY H3Assumption DEF Table
<1>2. conns' \in Seq(Conn) /\ DOMAIN conns' = DOMAIN conns /\ conns'[c] = cn
      /\ \A d \in DOMAIN conns : d # c => conns'[d] = conns[d]
  BY <1>1 DEF ConnGood
<1>3. \A d \in DOMAIN conns : \A id \in Ids(conns[d]) : id \in Nat
  <2> SUFFICES ASSUME NEW d \in DOMAIN conns, NEW id \in Ids(conns[d]) PROVE id \in Nat
    OBVIOUS
  <2>1. PICK s \in DOMAIN conns[d].streams : id = conns[d].streams[s].id
    BY DEF Ids
  <2>2. conns[d].streams[s] \in Stream
    BY <1>1, ConnFacts DEF Good
  <2> QED BY <2>1, <2>2, StreamFacts
<1>4. \A d \in DOMAIN conns : \A id \in Ids(conns[d]) : id <= opened' /\ id # opened + 1
  BY <1>1, <1>3
<1>5. \A d \in DOMAIN conns : ConnGood(conns'[d]) /\ \A id \in Ids(conns'[d]) : id <= opened'
  <2> SUFFICES ASSUME NEW d \in DOMAIN conns
               PROVE  ConnGood(conns'[d]) /\ \A id \in Ids(conns'[d]) : id <= opened'
    OBVIOUS
  <2>1. CASE d = c
    BY <1>2, <1>4, <2>1
  <2>2. CASE d # c
    BY <1>1, <1>2, <1>4, <2>2
  <2> QED BY <2>1, <2>2
<1>6. \A d \in DOMAIN conns : d # c => Ids(cn) \cap Ids(conns[d]) = {}
  BY <1>1, <1>4
<1>7. \A d, e \in DOMAIN conns : d # e => Ids(conns'[d]) \cap Ids(conns'[e]) = {}
  <2> SUFFICES ASSUME NEW d \in DOMAIN conns, NEW e \in DOMAIN conns, d # e
               PROVE  Ids(conns'[d]) \cap Ids(conns'[e]) = {}
    OBVIOUS
  <2>1. CASE d # c /\ e # c
    BY <1>1, <1>2, <2>1
  <2>2. CASE d = c
    BY <1>2, <1>6, <2>2
  <2>3. CASE e = c
    BY <1>2, <1>6, <2>3
  <2> QED BY <2>1, <2>2, <2>3
<1> QED BY <1>2, <1>5, <1>7 DEF Table

LEMMA OnceChanged ==
  ASSUME Table, Once, NEW c \in DOMAIN conns, NEW cn, ConnGood(cn),
         conns' = [conns EXCEPT ![c] = cn], opened' \in Nat, opened' >= opened,
         handled' \in [1 .. MaxOpened -> 0 .. 1],
         \A id \in 1 .. MaxOpened : id \in Ids(conns[c]) \/ handled'[id] = handled[id],
         \A s \in DOMAIN cn.streams : ~cn.streams[s].done => handled'[cn.streams[s].id] = 0
  PROVE  Once'
<1>1. /\ conns \in Seq(Conn) /\ opened \in Nat /\ MaxOpened \in Nat
      /\ \A d \in DOMAIN conns : ConnGood(conns[d]) /\ \A id \in Ids(conns[d]) : id <= opened
      /\ \A d, e \in DOMAIN conns : d # e => Ids(conns[d]) \cap Ids(conns[e]) = {}
  BY H3Assumption DEF Table
<1>2. DOMAIN conns' = DOMAIN conns /\ conns'[c] = cn
      /\ \A d \in DOMAIN conns : d # c => conns'[d] = conns[d]
  BY <1>1
<1>3. ASSUME NEW id \in 1 .. MaxOpened, id > opened' PROVE handled'[id] = 0
  <2>1. id \in Nat /\ id > opened /\ ~(id <= opened)
    BY <1>1, <1>3
  <2>2. id \notin Ids(conns[c])
    BY <1>1, <2>1
  <2> QED BY <2>1, <2>2 DEF Once
<1>4. ASSUME NEW d \in DOMAIN conns', NEW s \in DOMAIN conns'[d].streams,
             ~conns'[d].streams[s].done
      PROVE  handled'[conns'[d].streams[s].id] = 0
  <2>1. CASE d = c
    BY <1>2, <1>4, <2>1
  <2>2. CASE d # c
    <3>1. /\ d \in DOMAIN conns /\ conns'[d] = conns[d] /\ s \in DOMAIN conns[d].streams
          /\ ~conns[d].streams[s].done
      BY <1>2, <1>4, <2>2
    <3>2. conns[d].streams[s].id \in Ids(conns[d])
      BY <3>1, IdIn
    <3>3. conns[d].streams[s].id \notin Ids(conns[c])
      BY <1>1, <2>2, <3>1, <3>2
    <3>4. conns[d].streams[s].id \in 1 .. MaxOpened
      BY <1>1, <3>1, ConnFacts, StreamFacts DEF Good
    <3>5. handled[conns[d].streams[s].id] = 0
      BY <3>1 DEF Once
    <3> QED BY <3>1, <3>3, <3>4, <3>5
  <2> QED BY <2>1, <2>2
<1> QED BY <1>3, <1>4 DEF Once
-----------------------------------------------------------------------------
(* What the steps make of the tables. *)
LEMMA SetKeeps ==
  ASSUME Table, Once, NEW c \in DOMAIN conns, NEW s \in DOMAIN conns[c].streams,
         NEW st, Good(st), st.id = conns[c].streams[s].id,
         conns' = [conns EXCEPT ![c].streams[s] = st], opened' = opened,
         handled' \in [1 .. MaxOpened -> 0 .. 1],
         \A id \in 1 .. MaxOpened : id = st.id \/ handled'[id] = handled[id],
         ~st.done => handled'[st.id] = 0
  PROVE  /\ Table' /\ Once' /\ DOMAIN conns' = DOMAIN conns
         /\ \A d \in DOMAIN conns :
              /\ DOMAIN conns'[d].streams = DOMAIN conns[d].streams
              /\ \A t \in DOMAIN conns[d].streams :
                   conns'[d].streams[t].id = conns[d].streams[t].id
<1> DEFINE cn == conns[c]
           r == [cn EXCEPT !.streams[s] = st]
<1>1. /\ conns \in Seq(Conn) /\ ConnGood(cn) /\ opened \in Nat /\ opened \in 0 .. MaxOpened
  BY H3Assumption DEF Table
<1>2. conns' = [conns EXCEPT ![c] = r]
  OBVIOUS
<1>3. /\ ConnGood(r) /\ DOMAIN r.streams = DOMAIN cn.streams /\ r.streams[s] = st
      /\ \A t \in DOMAIN cn.streams : r.streams[t].id = cn.streams[t].id
      /\ \A t \in DOMAIN cn.streams : t # s => r.streams[t] = cn.streams[t]
      /\ Ids(r) = Ids(cn)
  BY <1>1, StreamSet
<1> HIDE DEF r
<1>4. Table' /\ DOMAIN conns' = DOMAIN conns
  BY <1>1, <1>2, <1>3, TableChanged
<1>5. st.id \in Ids(cn)
  BY IdIn
<1>6. ASSUME NEW t \in DOMAIN r.streams, ~r.streams[t].done
      PROVE  handled'[r.streams[t].id] = 0
  <2>1. CASE t = s
    BY <1>3, <1>6, <2>1
  <2>2. CASE t # s
    <3>1. t \in DOMAIN cn.streams /\ r.streams[t] = cn.streams[t]
      BY <1>3, <2>2
    <3>2. cn.streams[t].id # st.id /\ cn.streams[t].id \in 1 .. MaxOpened
      BY <1>1, <2>2, <3>1, ConnFacts, StreamFacts DEF Good
    <3>3. handled[cn.streams[t].id] = 0
      BY <1>6, <3>1 DEF Once
    <3> QED BY <3>1, <3>2, <3>3
  <2> QED BY <2>1, <2>2
<1>7. \A id \in 1 .. MaxOpened : id \in Ids(cn) \/ handled'[id] = handled[id]
  BY <1>5
<1>8. opened' \in Nat /\ opened' >= opened
  BY <1>1
<1>9. Once'
  BY <1>2, <1>3, <1>6, <1>7, <1>8, OnceChanged
<1>10. conns'[c] = r /\ \A d \in DOMAIN conns : d # c => conns'[d] = conns[d]
  BY <1>1, <1>2
<1> QED BY <1>3, <1>4, <1>9, <1>10

LEMMA RemoveKeeps ==
  ASSUME Table, Once, NEW c \in DOMAIN conns, NEW s \in DOMAIN conns[c].streams,
         conns' = [conns EXCEPT ![c].streams = SwapRemove(@, s)], opened' = opened,
         handled' \in [1 .. MaxOpened -> 0 .. 1],
         \A id \in 1 .. MaxOpened :
           id = conns[c].streams[s].id \/ handled'[id] = handled[id]
  PROVE  /\ Table' /\ Once' /\ DOMAIN conns' = DOMAIN conns
         /\ \A t \in DOMAIN conns'[c].streams :
              t < s => t \in DOMAIN conns[c].streams /\ conns'[c].streams[t] = conns[c].streams[t]
<1> DEFINE cn == conns[c]
           r == Without(cn, s)
<1>1. /\ conns \in Seq(Conn) /\ ConnGood(cn) /\ opened \in Nat /\ opened \in 0 .. MaxOpened
  BY H3Assumption DEF Table
<1>2. conns' = [conns EXCEPT ![c] = r]
  BY DEF Without
<1>3. /\ ConnGood(r) /\ Ids(r) \subseteq Ids(cn)
      /\ \A t \in DOMAIN r.streams :
           /\ t \in DOMAIN cn.streams /\ (t < s => r.streams[t] = cn.streams[t])
           /\ \E u \in DOMAIN cn.streams : u # s /\ r.streams[t] = cn.streams[u]
  BY <1>1, StreamRemoved
<1> HIDE DEF r
<1>4. Table' /\ DOMAIN conns' = DOMAIN conns
  BY <1>1, <1>2, <1>3, TableChanged
<1>5. cn.streams[s].id \in Ids(cn)
  BY IdIn
<1>6. ASSUME NEW t \in DOMAIN r.streams, ~r.streams[t].done
      PROVE  handled'[r.streams[t].id] = 0
  <2>1. PICK u \in DOMAIN cn.streams : u # s /\ r.streams[t] = cn.streams[u]
    BY <1>3
  <2>2. cn.streams[u].id # cn.streams[s].id /\ cn.streams[u].id \in 1 .. MaxOpened
    BY <1>1, <2>1, ConnFacts, StreamFacts DEF Good
  <2>3. handled[cn.streams[u].id] = 0
    BY <1>6, <2>1 DEF Once
  <2> QED BY <2>1, <2>2, <2>3
<1>7. \A id \in 1 .. MaxOpened : id \in Ids(cn) \/ handled'[id] = handled[id]
  BY <1>5
<1>8. opened' \in Nat /\ opened' >= opened
  BY <1>1
<1>9. Once'
  BY <1>2, <1>3, <1>6, <1>7, <1>8, OnceChanged
<1>10. conns'[c] = r
  BY <1>1, <1>2
<1> QED BY <1>3, <1>4, <1>9, <1>10

(* The connection table is compacted in the same way. *)
LEMMA CloseKeeps ==
  ASSUME Table, Once, NEW c \in DOMAIN conns, conns' = SwapRemove(conns, c),
         UNCHANGED <<opened, handled>>
  PROVE  Table' /\ Once'
<1>1. /\ conns \in Seq(Conn) /\ opened \in 0 .. MaxOpened
      /\ \A d \in DOMAIN conns : ConnGood(conns[d]) /\ \A id \in Ids(conns[d]) : id <= opened
      /\ \A d, e \in DOMAIN conns : d # e => Ids(conns[d]) \cap Ids(conns[e]) = {}
  BY DEF Table
<1> DEFINE n == Len(conns)
           From(d) == IF d = c THEN n ELSE d
<1>2. n \in Nat /\ DOMAIN conns = 1 .. n
  BY <1>1
<1>3. /\ conns' \in Seq(Conn) /\ DOMAIN conns' = 1 .. n - 1
      /\ \A d \in 1 .. n - 1 : conns'[d] = conns[From(d)]
  <2>1. c \in 1 .. Len(conns)
    BY <1>2
  <2>2. /\ SwapRemove(conns, c) \in Seq(Conn)
        /\ DOMAIN SwapRemove(conns, c) = 1 .. Len(conns) - 1
        /\ \A m \in 1 .. Len(conns) - 1 :
              SwapRemove(conns, c)[m] = conns[IF m = c THEN Len(conns) ELSE m]
    BY <1>1, <2>1, SwapRemoved
  <2> QED BY <2>2
<1>4. /\ \A d \in 1 .. n - 1 : From(d) \in 1 .. n
      /\ \A d, e \in 1 .. n - 1 : From(d) = From(e) => d = e
  BY <1>2
<1> HIDE DEF n, From
<1>5. \A d \in DOMAIN conns' : From(d) \in DOMAIN conns /\ conns'[d] = conns[From(d)]
  BY <1>2, <1>3, <1>4
<1>6. \A d, e \in DOMAIN conns' : d # e => From(d) # From(e)
  BY <1>3, <1>4
<1>7. Table'
  BY <1>1, <1>3, <1>5, <1>6 DEF Table
<1>8. Once'
  BY <1>5 DEF Once
<1> QED BY <1>7, <1>8

LEMMA DialKeeps ==
  ASSUME Table, Once, conns' = Append(conns, NewConn), UNCHANGED <<opened, handled>>
  PROVE  Table' /\ Once'
<1>1. /\ conns \in Seq(Conn) /\ opened \in 0 .. MaxOpened
      /\ \A d \in DOMAIN conns : ConnGood(conns[d]) /\ \A id \in Ids(conns[d]) : id <= opened
      /\ \A d, e \in DOMAIN conns : d # e => Ids(conns[d]) \cap Ids(conns[e]) = {}
  BY DEF Table
<1>2. NewConn \in Conn /\ NewConn.streams = <<>> /\ DOMAIN NewConn.streams = {}
  <2>1. <<>> \in Seq(Stream) /\ 0 \in Nat /\ DOMAIN <<>> = {}
    OBVIOUS
  <2> QED BY <2>1 DEF NewConn, Conn
<1>3. ConnGood(NewConn) /\ Ids(NewConn) = {}
  BY <1>2 DEF ConnGood, Ids
<1> DEFINE n == Len(conns)
<1>4. /\ n \in Nat /\ DOMAIN conns = 1 .. n /\ conns' \in Seq(Conn) /\ DOMAIN conns' = 1 .. n + 1
      /\ conns'[n + 1] = NewConn /\ \A d \in 1 .. n : conns'[d] = conns[d]
  BY <1>1, <1>2
<1> HIDE DEF n
<1>5. \A d \in DOMAIN conns' : \/ d \in DOMAIN conns /\ conns'[d] = conns[d]
                               \/ d = n + 1 /\ conns'[d] = NewConn
  BY <1>4
<1>6. Table'
  <2>1. \A d \in DOMAIN conns' : ConnGood(conns'[d]) /\ \A id \in Ids(conns'[d]) : id <= opened'
    BY <1>1, <1>3, <1>5
  <2>2. \A d, e \in DOMAIN conns' : d # e => Ids(conns'[d]) \cap Ids(conns'[e]) = {}
    BY <1>1, <1>3, <1>5
  <2> QED BY <1>1, <1>4, <2>1, <2>2 DEF Table
<1>7. Once'
  <2>1. ASSUME NEW d \in DOMAIN conns', NEW s \in DOMAIN conns'[d].streams
        PROVE  d \in DOMAIN conns /\ conns'[d] = conns[d]
    BY <1>2, <1>5
  <2> QED BY <2>1 DEF Once
<1> QED BY <1>6, <1>7
-----------------------------------------------------------------------------
(* The steps of the pass. *)
LEMMA ThisIs ==
  ASSUME Table, Stage, pc = "pump", j <= Len(Streams)
  PROVE  /\ i \in DOMAIN conns /\ j \in DOMAIN conns[i].streams /\ This = conns[i].streams[j]
         /\ Good(This) /\ This \in Stream /\ This.id \in 1 .. MaxOpened /\ This.done \in BOOLEAN
         /\ j \in Nat /\ ConnGood(conns[i])
<1>1. i \in DOMAIN conns /\ j \in Nat \ {0}
  BY DEF Stage
<1>2. ConnGood(conns[i])
  BY <1>1 DEF Table
<1>3. /\ DOMAIN conns[i].streams = 1 .. Len(conns[i].streams) /\ Len(conns[i].streams) \in Nat
      /\ \A s \in DOMAIN conns[i].streams : Good(conns[i].streams[s])
  BY <1>2, ConnFacts
<1>4. j \in DOMAIN conns[i].streams
  BY <1>1, <1>3 DEF Streams
<1>5. This = conns[i].streams[j]
  BY DEF This, Streams
<1>6. Good(This) /\ This \in Stream
  BY <1>3, <1>4, <1>5 DEF Good
<1> QED BY <1>1, <1>2, <1>4, <1>5, <1>6, StreamFacts

(* A turn that frees its stream: the one that takes its slot is served next. *)
LEMMA FreedKeeps ==
  ASSUME Table, Once, Stage, Served, pc = "pump", j <= Len(Streams),
         NEW st, Freed(st),
         handled' \in [1 .. MaxOpened -> 0 .. 1],
         \A id \in 1 .. MaxOpened : id = This.id \/ handled'[id] = handled[id]
  PROVE  Table' /\ Once' /\ Stage' /\ Served'
<1>1. /\ i \in DOMAIN conns /\ j \in DOMAIN conns[i].streams /\ This = conns[i].streams[j]
      /\ j \in Nat
  BY ThisIs
<1>2. /\ conns' = [conns EXCEPT ![i].streams = SwapRemove(@, j)]
      /\ seen' = seen \union {st.id} /\ UNCHANGED <<pc, i, j, opened>>
  BY DEF Freed
<1>3. /\ Table' /\ Once' /\ DOMAIN conns' = DOMAIN conns
      /\ \A t \in DOMAIN conns'[i].streams :
           t < j => t \in DOMAIN conns[i].streams /\ conns'[i].streams[t] = conns[i].streams[t]
  <2>1. /\ conns' = [conns EXCEPT ![i].streams = SwapRemove(@, j)] /\ opened' = opened
        /\ \A id \in 1 .. MaxOpened :
             id = conns[i].streams[j].id \/ handled'[id] = handled[id]
    BY <1>1, <1>2
  <2> QED BY <1>1, <2>1, RemoveKeeps
<1>4. Stage'
  BY <1>2, <1>3 DEF Stage
<1>5. Served'
  BY <1>2, <1>3 DEF Served, Streams
<1> QED BY <1>3, <1>4, <1>5

(* A turn that keeps it. *)
LEMMA KeptKeeps ==
  ASSUME Table, Once, Stage, Served, pc = "pump", j <= Len(Streams),
         NEW st, Good(st), st.id = This.id, Kept(st),
         handled' \in [1 .. MaxOpened -> 0 .. 1],
         \A id \in 1 .. MaxOpened : id = This.id \/ handled'[id] = handled[id],
         ~st.done => handled'[st.id] = 0
  PROVE  Table' /\ Once' /\ Stage' /\ Served'
<1>1. /\ i \in DOMAIN conns /\ j \in DOMAIN conns[i].streams /\ This = conns[i].streams[j]
      /\ j \in Nat /\ ConnGood(conns[i])
  BY ThisIs
<1>2. /\ conns' = [conns EXCEPT ![i].streams[j] = st] /\ j' = j + 1
      /\ seen' = seen \union {st.id} /\ UNCHANGED <<pc, i, opened>>
  BY DEF Kept
<1>3. /\ Table' /\ Once' /\ DOMAIN conns' = DOMAIN conns
      /\ \A d \in DOMAIN conns :
           /\ DOMAIN conns'[d].streams = DOMAIN conns[d].streams
           /\ \A t \in DOMAIN conns[d].streams :
                conns'[d].streams[t].id = conns[d].streams[t].id
  <2>1. /\ st.id = conns[i].streams[j].id
        /\ \A id \in 1 .. MaxOpened : id = st.id \/ handled'[id] = handled[id]
    BY <1>1
  <2> QED BY <1>1, <1>2, <2>1, SetKeeps
<1>4. Stage'
  <2>1. j' \in Nat \ {0} /\ pc' # "streams"
    BY <1>1, <1>2
  <2> QED BY <1>2, <1>3, <2>1 DEF Stage
<1>5. ASSUME NEW k \in DOMAIN conns'[i].streams, k < j + 1
      PROVE  conns'[i].streams[k].id \in seen'
  <2>1. k \in DOMAIN conns[i].streams /\ conns'[i].streams[k].id = conns[i].streams[k].id
    BY <1>1, <1>3
  <2>2. k \in Nat
    BY <1>1, <2>1, ConnFacts
  <2>3. CASE k = j
    BY <1>1, <1>2, <2>1, <2>3
  <2>4. CASE k < j
    BY <1>2, <2>1, <2>4 DEF Served, Streams
  <2> QED BY <1>1, <1>5, <2>2, <2>3, <2>4
<1>6. Served'
  BY <1>2, <1>5 DEF Served, Streams
<1> QED BY <1>3, <1>4, <1>6

(* A stream changes under the pass, which stays where it is. *)
LEMMA ChangeKeeps ==
  ASSUME Table, Once, Stage, Served, NEW c \in DOMAIN conns,
         NEW s \in DOMAIN conns[c].streams, NEW st, Good(st), st.id = conns[c].streams[s].id,
         st.done = conns[c].streams[s].done,
         conns' = [conns EXCEPT ![c].streams[s] = st],
         UNCHANGED <<pc, i, j, opened, handled, seen>>
  PROVE  Table' /\ Once' /\ Stage' /\ Served'
<1>1. ~st.done => handled'[st.id] = 0
  BY DEF Once
<1>2. handled' \in [1 .. MaxOpened -> 0 .. 1] /\ \A id \in 1 .. MaxOpened : handled'[id] = handled[id]
  BY DEF Once
<1>3. /\ Table' /\ Once' /\ DOMAIN conns' = DOMAIN conns
      /\ \A d \in DOMAIN conns :
           /\ DOMAIN conns'[d].streams = DOMAIN conns[d].streams
           /\ \A t \in DOMAIN conns[d].streams :
                conns'[d].streams[t].id = conns[d].streams[t].id
  BY <1>1, <1>2, SetKeeps
<1>4. Stage'
  BY <1>3 DEF Stage
<1>5. Served'
  BY <1>3 DEF Served, Streams, Stage
<1> QED BY <1>3, <1>4, <1>5

(* A stream that is still read has not been handed over. *)
LEMMA ReadingFacts ==
  ASSUME Table, Once, Stage, Reading
  PROVE  /\ pc = "pump" /\ j <= Len(Streams) /\ ~This.done
         /\ handled[This.id] = 0 /\ Good(This)
<1>1. pc = "pump" /\ j <= Len(Streams) /\ ~This.done
  BY DEF Reading
<1>2. /\ i \in DOMAIN conns /\ j \in DOMAIN conns[i].streams /\ This = conns[i].streams[j]
      /\ Good(This)
  BY <1>1, ThisIs
<1>3. handled[This.id] = 0
  BY <1>1, <1>2 DEF Once
<1> QED BY <1>1, <1>2, <1>3

LEMMA ReadSteps ==
  ASSUME H3Inv, ReadPiece \/ ReadStops \/ ReadFin
  PROVE  H3Inv'
<1>1. Table /\ Once /\ Stage /\ Served /\ Handed /\ Reading /\ UNCHANGED <<handled, request>>
  BY DEF H3Inv, ReadPiece, ReadStops, ReadFin
<1>2. /\ pc = "pump" /\ j <= Len(Streams) /\ ~This.done
      /\ handled[This.id] = 0 /\ Good(This)
  BY <1>1, ReadingFacts
<1>3. handled' \in [1 .. MaxOpened -> 0 .. 1] /\ \A id \in 1 .. MaxOpened : handled'[id] = handled[id]
  BY <1>1 DEF Once
<1>4. Handed'
  BY <1>1 DEF Handed
<1>5. CASE Freed(This)
  <2>1. Table' /\ Once' /\ Stage' /\ Served'
    BY <1>1, <1>2, <1>3, <1>5, FreedKeeps
  <2> QED BY <1>4, <2>1 DEF H3Inv
<1>6. CASE Kept(This)
  <2>1. Table' /\ Once' /\ Stage' /\ Served'
    BY <1>1, <1>2, <1>3, <1>6, KeptKeeps
  <2> QED BY <1>4, <2>1 DEF H3Inv
<1>7. ASSUME NEW piece \in Coming(This),
             NEW section \in IF This.pstate = "headers" THEN Sections ELSE {<<>>},
             ~ParseRefuses(This, piece, section),
             conns' = [conns EXCEPT ![i].streams[j] = Parsed(This, piece, section)],
             UNCHANGED <<place, draining, dials, opened, seen>>
      PROVE  H3Inv'
  <2> DEFINE p == Parsed(This, piece, section)
  <2>1. section \in Sections
    BY DEF Sections
  <2>2. Good(p) /\ p.id = This.id /\ ~p.done
    BY <1>2, <1>7, <2>1, ParsedGood
  <2>3. p \in Stream /\ This \in Stream
    BY <1>2, <2>2 DEF Good
  <2> HIDE DEF p
  <2>4. p.done = This.done
    BY <1>2, <2>2, <2>3, StreamFacts
  <2>5. i \in DOMAIN conns /\ j \in DOMAIN conns[i].streams /\ This = conns[i].streams[j]
    BY <1>1, <1>2, ThisIs
  <2>6. conns' = [conns EXCEPT ![i].streams[j] = p] /\ UNCHANGED <<pc, i, j, opened, handled, seen>>
    BY <1>1, <1>7 DEF p
  <2>7. Table' /\ Once' /\ Stage' /\ Served'
    BY <1>1, <2>2, <2>4, <2>5, <2>6, ChangeKeeps
  <2> QED BY <1>4, <2>7 DEF H3Inv
<1>8. CASE ReadPiece
  BY <1>5, <1>7, <1>8 DEF ReadPiece
<1>9. CASE ReadStops \/ ReadFin
  BY <1>5, <1>6, <1>9 DEF ReadStops, ReadFin
<1> QED BY <1>8, <1>9

(* The end of the turn of a stream that is done: it goes, or stays. *)
LEMMA EndKeeps ==
  ASSUME Table, Once, Stage, Served, pc = "pump", j <= Len(Streams),
         NEW st, Good(st), st.done, st.id = This.id, EndTurn(st),
         handled' \in [1 .. MaxOpened -> 0 .. 1],
         \A id \in 1 .. MaxOpened : id = This.id \/ handled'[id] = handled[id]
  PROVE  Table' /\ Once' /\ Stage' /\ Served'
<1>1. Freed(st) \/ Kept(st)
  BY DEF EndTurn
<1>2. CASE Freed(st)
  BY <1>2, FreedKeeps
<1>3. CASE Kept(st)
  BY <1>3, KeptKeeps
<1> QED BY <1>1, <1>2, <1>3

LEMMA DispatchStep ==
  ASSUME H3Inv, Dispatch
  PROVE  H3Inv'
<1>1. Table /\ Once /\ Stage /\ Served /\ Reading /\ Dispatchable(This)
  BY DEF H3Inv, Dispatch
<1>2. /\ pc = "pump" /\ j <= Len(Streams) /\ ~This.done
      /\ handled[This.id] = 0 /\ Good(This)
  BY <1>1, ReadingFacts
<1>3. /\ This \in Stream /\ This.id \in 1 .. MaxOpened /\ This.sent \in Seq(Piece)
      /\ Len(This.sent) \in Nat
  BY <1>2, StreamFacts DEF Good
<1>4. PICK s0 \in h3_respond(NewStream(This.id, FALSE)) :
        EndTurn([s0 EXCEPT !.dispatched = TRUE, !.done = TRUE])
  BY DEF Dispatch
<1> DEFINE st == [s0 EXCEPT !.dispatched = TRUE, !.done = TRUE]
<1>5. Good(st) /\ st.id = This.id /\ st.done
  BY <1>3, DoneGood
<1>6. EndTurn(st)
  BY <1>4
<1> HIDE DEF st
<1>7. /\ handled' \in [1 .. MaxOpened -> 0 .. 1]
      /\ \A id \in 1 .. MaxOpened : id = This.id \/ handled'[id] = handled[id]
  <2>1. handled' = [handled EXCEPT ![This.id] = @ + 1] /\ handled \in [1 .. MaxOpened -> 0 .. 1]
    BY DEF Dispatch, H3Inv, Once
  <2>2. handled' = [handled EXCEPT ![This.id] = 1]
    BY <1>2, <2>1
  <2> QED BY <1>3, <2>1, <2>2
<1>8. Table' /\ Once' /\ Stage' /\ Served'
  BY <1>1, <1>2, <1>5, <1>6, <1>7, EndKeeps
<1>9. /\ WellFormed(This.section) /\ Len(This.body) <= MaxBody
      /\ BodyIsData(This.body, This.sent) /\ Len(This.sent) > 0
      /\ This.sent[Len(This.sent)] \in {"payload", "half"}
  <2>1. /\ Len(This.body) <= MaxBody /\ BodyIsData(This.body, This.sent) /\ OpenFrame(This)
        /\ (This.headers_seen => h3_decode_headers(This.section))
    BY <1>2 DEF Good
  <2>2. This.headers_seen /\ This.pstate = "hdr"
    BY <1>1 DEF Dispatchable
  <2>3. Len(This.sent) > 0
    BY <1>3, <2>1, <2>2 DEF OpenFrame
  <2>4. This.sent[Len(This.sent)] \in {"payload", "half"}
    BY <2>1, <2>2, <2>3 DEF OpenFrame
  <2>5. This.section \in Sections
    BY <1>3 DEF Stream
  <2>6. WellFormed(This.section)
    BY <2>1, <2>2, <2>5, SectionsType, AcceptedIsWellFormed
  <2> QED BY <2>1, <2>3, <2>4, <2>6
<1>10. Handed'
  <2> DEFINE r == [sent |-> This.sent, section |-> This.section, body |-> This.body]
  <2>1. request' = <<r>>
    BY DEF Dispatch
  <2>2. r.sent = This.sent /\ r.section = This.section /\ r.body = This.body
    OBVIOUS
  <2> HIDE DEF r
  <2>3. \A k \in DOMAIN request' : request'[k] = r
    BY <2>1
  <2> QED BY <1>9, <2>2, <2>3 DEF Handed
<1> QED BY <1>8, <1>10 DEF H3Inv

LEMMA SkipStep ==
  ASSUME H3Inv, SkipDone
  PROVE  H3Inv'
<1>1. /\ Table /\ Once /\ Stage /\ Served /\ Handed /\ pc = "pump" /\ j <= Len(Streams)
      /\ This.done /\ EndTurn(This) /\ UNCHANGED <<handled, request>>
  BY DEF H3Inv, SkipDone
<1>2. Good(This)
  BY <1>1, ThisIs
<1>3. handled' \in [1 .. MaxOpened -> 0 .. 1] /\ \A id \in 1 .. MaxOpened : handled'[id] = handled[id]
  BY <1>1 DEF Once
<1>4. Table' /\ Once' /\ Stage' /\ Served'
  BY <1>1, <1>2, <1>3, EndKeeps
<1>5. Handed'
  BY <1>1 DEF Handed
<1> QED BY <1>4, <1>5 DEF H3Inv

LEMMA FlushStep ==
  ASSUME H3Inv, Flush
  PROVE  H3Inv'
<1>1. PICK c \in DOMAIN conns : \E s \in DOMAIN conns[c].streams :
        /\ conns[c].streams[s].pending
        /\ conns' = [conns EXCEPT ![c].streams[s].pending = FALSE]
  BY DEF Flush
<1>2. PICK s \in DOMAIN conns[c].streams :
        /\ conns[c].streams[s].pending
        /\ conns' = [conns EXCEPT ![c].streams[s].pending = FALSE]
  BY <1>1
<1> DEFINE st == conns[c].streams[s]
           f == [st EXCEPT !.pending = FALSE]
<1>3. Table /\ Once /\ Stage /\ Served /\ Handed
      /\ UNCHANGED <<pc, i, j, opened, handled, seen, request>>
  BY DEF H3Inv, Flush
<1>4. Good(st)
  BY <1>3, ConnFacts DEF Table
<1>5. Good(f) /\ f.id = st.id /\ f.done = st.done
  BY <1>2, <1>4, FlushedGood
<1>6. conns' = [conns EXCEPT ![c].streams[s] = f]
  BY <1>2
<1> HIDE DEF f
<1>7. Table' /\ Once' /\ Stage' /\ Served'
  BY <1>3, <1>5, <1>6, ChangeKeeps
<1>8. Handed'
  BY <1>3 DEF Handed
<1> QED BY <1>7, <1>8 DEF H3Inv

(* h3_accept_streams: the ids of new streams are new. *)
LEMMA AcceptFacts ==
  ASSUME Table, Once, Stage, pc = "streams", opened < MaxOpened, opened' = opened + 1
  PROVE  /\ i \in DOMAIN conns /\ ConnGood(conns[i]) /\ conns \in Seq(Conn)
         /\ opened \in Nat /\ opened' \in 0 .. MaxOpened /\ opened' \in 1 .. MaxOpened
         /\ opened' \in Nat /\ opened' >= opened
         /\ opened' \notin Ids(conns[i]) /\ handled[opened'] = 0 /\ j = 1
         /\ conns[i].requests \in Nat /\ conns[i] \in Conn
<1>1. i \in DOMAIN conns /\ j = 1
  BY DEF Stage
<1>2. ConnGood(conns[i]) /\ conns \in Seq(Conn) /\ opened \in 0 .. MaxOpened
      /\ \A id \in Ids(conns[i]) : id <= opened
  BY <1>1 DEF Table
<1>3. /\ opened \in Nat /\ opened' \in 0 .. MaxOpened /\ opened' \in 1 .. MaxOpened
      /\ opened' \in Nat /\ opened' >= opened /\ opened' > opened /\ ~(opened' <= opened)
  BY <1>2, H3Assumption
<1>4. opened' \notin Ids(conns[i]) /\ handled[opened'] = 0
  BY <1>2, <1>3 DEF Once
<1> QED BY <1>1, <1>2, <1>3, <1>4, ConnFacts

LEMMA AcceptStep ==
  ASSUME H3Inv, NEW uni \in BOOLEAN, AcceptStream(uni)
  PROVE  H3Inv'
<1>1. /\ Table /\ Once /\ Stage /\ Served /\ Handed
      /\ pc = "streams" /\ opened < MaxOpened /\ opened' = opened + 1
      /\ UNCHANGED <<pc, i, j, seen, handled, request>>
  BY DEF H3Inv, AcceptStream
<1>2. /\ i \in DOMAIN conns /\ ConnGood(conns[i]) /\ conns \in Seq(Conn)
      /\ opened \in Nat /\ opened' \in 0 .. MaxOpened /\ opened' \in 1 .. MaxOpened
      /\ opened' \in Nat /\ opened' >= opened
      /\ opened' \notin Ids(conns[i]) /\ handled[opened'] = 0
      /\ conns[i].requests \in Nat /\ conns[i] \in Conn
  BY <1>1, AcceptFacts
<1> DEFINE st == NewStream(opened + 1, uni)
           n == IF uni THEN conns[i].requests ELSE conns[i].requests + 1
<1>3. Good(st) /\ st.id = opened' /\ ~st.done
  BY <1>1, <1>2, NewGood
<1>4. n \in Nat
  BY <1>2
<1>5. \A s \in DOMAIN conns[i].streams :
        ~conns[i].streams[s].done => handled[conns[i].streams[s].id] = 0
  BY <1>1, <1>2 DEF Once
<1>6. PICK cn : /\ ConnGood(cn) /\ conns' = [conns EXCEPT ![i] = cn]
                /\ Ids(cn) \subseteq Ids(conns[i]) \cup {opened'}
                /\ \A s \in DOMAIN cn.streams :
                     ~cn.streams[s].done => handled[cn.streams[s].id] = 0
  <2>1. CASE Refused(uni)
    <3>1. conns' = conns
      BY <2>1 DEF AcceptStream
    <3>2. conns' = [conns EXCEPT ![i] = conns[i]]
      BY <1>2, <3>1
    <3> QED BY <1>2, <1>5, <3>2
  <2>2. CASE ~Refused(uni)
    <3> DEFINE r == With(conns[i], st, n)
    <3>1. conns' = [conns EXCEPT ![i].streams = Append(@, st),
                                 ![i].requests = IF uni THEN @ ELSE @ + 1]
      BY <2>2 DEF AcceptStream
    <3> HIDE DEF st
    <3>2. conns' = [conns EXCEPT ![i] = r]
      <4> DEFINE e == [conns[i] EXCEPT !.streams = Append(conns[i].streams, st), !.requests = n]
      <4>1. conns' = [conns EXCEPT ![i] = e]
        BY <1>2, <3>1
      <4>2. e = With(conns[i], st, n)
        <5>1. Append(conns[i].streams, st) \in Seq(Stream)
          BY <1>2, <1>3, ConnFacts DEF Good
        <5> HIDE DEF n
        <5> QED BY <1>2, <1>4, <5>1, ConnReplaced DEF With
      <4> QED BY <4>1, <4>2
    <3>3. /\ ConnGood(r) /\ Ids(r) = Ids(conns[i]) \cup {st.id}
          /\ \A s \in DOMAIN r.streams : r.streams[s] = st \/
               \E t \in DOMAIN conns[i].streams : r.streams[s] = conns[i].streams[t]
      <4> HIDE DEF n
      <4> QED BY <1>2, <1>3, <1>4, StreamAdded
    <3> HIDE DEF r
    <3>4. \A s \in DOMAIN r.streams : ~r.streams[s].done => handled[r.streams[s].id] = 0
      BY <1>2, <1>3, <1>5, <3>3
    <3> QED BY <1>3, <3>2, <3>3, <3>4
  <2> QED BY <2>1, <2>2
<1>7. Table' /\ DOMAIN conns' = DOMAIN conns
  BY <1>1, <1>2, <1>6, TableChanged
<1>8. Once'
  <2>1. handled' = handled /\ handled' \in [1 .. MaxOpened -> 0 .. 1]
    BY <1>1 DEF Once
  <2> QED BY <1>1, <1>2, <1>6, <2>1, OnceChanged
<1>9. Stage' /\ Served' /\ Handed'
  BY <1>1, <1>7 DEF Stage, Served, Handed
<1> QED BY <1>7, <1>8, <1>9 DEF H3Inv

LEMMA AcceptFailsStep ==
  ASSUME H3Inv, NEW uni \in BOOLEAN, AcceptStreamFails(uni)
  PROVE  H3Inv'
<1>1. /\ Table /\ Once /\ Stage /\ Served /\ Handed
      /\ pc = "streams" /\ pc' = "pump" /\ opened < MaxOpened /\ opened' = opened + 1
      /\ UNCHANGED <<i, j, seen, handled, request>>
      /\ conns' = [conns EXCEPT ![i].requests = IF uni THEN @ ELSE @ + 1]
  BY DEF H3Inv, AcceptStreamFails
<1>2. /\ i \in DOMAIN conns /\ ConnGood(conns[i]) /\ conns \in Seq(Conn)
      /\ opened \in Nat /\ opened' \in 0 .. MaxOpened
      /\ opened' \in Nat /\ opened' >= opened /\ j = 1
      /\ conns[i].requests \in Nat /\ conns[i] \in Conn
  BY <1>1, AcceptFacts
<1> DEFINE n == IF uni THEN conns[i].requests ELSE conns[i].requests + 1
           cn == [conns[i] EXCEPT !.requests = n]
<1>3. conns' = [conns EXCEPT ![i] = cn]
  BY <1>1
<1>4. n \in Nat
  BY <1>2
<1> HIDE DEF n
<1>5. cn \in Conn /\ cn.streams = conns[i].streams
  BY <1>2, <1>4 DEF Conn
<1> HIDE DEF cn
<1>6. ConnGood(cn) /\ Ids(cn) = Ids(conns[i])
  BY <1>2, <1>5 DEF ConnGood, Ids
<1>7. Table' /\ DOMAIN conns' = DOMAIN conns
  BY <1>1, <1>2, <1>3, <1>6, TableChanged
<1>8. Once'
  <2>1. handled' = handled /\ handled' \in [1 .. MaxOpened -> 0 .. 1]
    BY <1>1 DEF Once
  <2>2. \A s \in DOMAIN cn.streams : ~cn.streams[s].done => handled'[cn.streams[s].id] = 0
    BY <1>1, <1>2, <1>5 DEF Once
  <2> QED BY <1>1, <1>2, <1>3, <1>6, <2>1, <2>2, OnceChanged
<1>9. ASSUME NEW k \in DOMAIN conns'[i].streams PROVE ~(k < 1)
  <2>1. conns'[i] = cn
    BY <1>2, <1>3
  <2> QED BY <1>6, <2>1, ConnFacts
<1>10. Stage' /\ Served' /\ Handed'
  BY <1>1, <1>2, <1>7, <1>9 DEF Stage, Served, Handed, Streams
<1> QED BY <1>7, <1>8, <1>10 DEF H3Inv
(* The steps that move the pass and leave the streams alone. *)
LEMMA MoveSteps ==
  ASSUME H3Inv, AcceptDone \/ NextConn \/ StreamsDone \/ KeepConn \/ zh3_graceful_ \/ zh3_free_
                \/ UNCHANGED vars
  PROVE  H3Inv'
<1>1. Table /\ Once /\ Stage /\ Served /\ Handed /\ UNCHANGED <<conns, opened, handled>>
  BY DEF H3Inv, AcceptDone, NextConn, StreamsDone, KeepConn, zh3_graceful_, zh3_free_, vars
<1>2. Table' /\ Once'
  BY <1>1 DEF Table, Once
<1>3. Handed'
  <2>1. request' = request \/ request' = <<>>
    BY DEF AcceptDone, NextConn, StreamsDone, KeepConn, zh3_graceful_, zh3_free_, vars
  <2>2. DOMAIN <<>> = {}
    OBVIOUS
  <2> QED BY <1>1, <2>1, <2>2 DEF Handed
<1>4. \A c \in DOMAIN conns : \A k \in DOMAIN conns[c].streams : ~(k < 1)
  <2> SUFFICES ASSUME NEW c \in DOMAIN conns, NEW k \in DOMAIN conns[c].streams
               PROVE  ~(k < 1)
    OBVIOUS
  <2> QED BY <1>1, ConnFacts DEF Table
<1>5. Len(conns) \in Nat /\ DOMAIN conns = 1 .. Len(conns)
  BY <1>1 DEF Table
<1>6. Stage' /\ Served'
  <2>1. CASE NextConn
    <3>1. /\ j' = 1 /\ i \in Nat \ {0}
          /\ \/ pc' = "poll" /\ i' = 1
             \/ i <= Len(conns) /\ pc' \in {"pump", "streams"} /\ i' = i
      BY <1>1, <2>1 DEF NextConn, Stage
    <3>2. Stage'
      BY <1>1, <1>5, <3>1 DEF Stage
    <3>3. pc' = "pump" => i' \in DOMAIN conns
      BY <1>5, <3>1
    <3> QED BY <1>1, <1>4, <3>1, <3>2, <3>3 DEF Served, Streams
  <2>2. CASE AcceptDone \/ KeepConn
    <3>1. pc' = "conn" /\ i' \in Nat \ {0} /\ j' = j
      BY <1>1, <2>2 DEF AcceptDone, KeepConn, Stage
    <3> QED BY <1>1, <3>1 DEF Stage, Served
  <2>3. CASE StreamsDone
    <3>1. pc = "streams" /\ pc' = "pump" /\ i' = i /\ j' = j /\ j = 1 /\ i \in DOMAIN conns
      BY <1>1, <2>3 DEF StreamsDone, Stage
    <3> QED BY <1>1, <1>4, <3>1 DEF Stage, Served, Streams
  <2>4. CASE zh3_graceful_ \/ zh3_free_ \/ UNCHANGED vars
    <3>1. i' = i /\ j' = j /\ (pc' = "freed" \/ (pc' = pc /\ seen' = seen))
      BY <2>4 DEF zh3_graceful_, zh3_free_, vars
    <3> QED BY <1>1, <3>1 DEF Stage, Served, Streams
  <2> QED BY <2>1, <2>2, <2>3, <2>4
<1> QED BY <1>2, <1>3, <1>6 DEF H3Inv

LEMMA ConnSteps ==
  ASSUME H3Inv, AcceptConn \/ CloseConn
  PROVE  H3Inv'
<1>1. Table /\ Once /\ Stage /\ Served /\ Handed
      /\ UNCHANGED <<i, j, opened, handled, request>>
  BY DEF H3Inv, AcceptConn, CloseConn
<1>2. Table' /\ Once' /\ pc' \in {"poll", "conn"}
  <2>1. CASE AcceptConn
    <3>1. conns' = Append(conns, NewConn) /\ pc' = "poll"
      BY <2>1 DEF AcceptConn
    <3> QED BY <1>1, <3>1, DialKeeps
  <2>2. CASE CloseConn
    <3>1. conns' = SwapRemove(conns, i) /\ i \in DOMAIN conns /\ pc' = "conn"
      BY <1>1, <2>2 DEF CloseConn, Pumped, Stage
    <3> QED BY <1>1, <3>1, CloseKeeps
  <2> QED BY <2>1, <2>2
<1>3. Stage' /\ Served' /\ Handed'
  BY <1>1, <1>2 DEF Stage, Served, Handed
<1> QED BY <1>2, <1>3 DEF H3Inv

LEMMA H3Start == Init => H3Inv
<1> SUFFICES ASSUME Init PROVE H3Inv
  OBVIOUS
<1>1. /\ conns = <<>> /\ DOMAIN conns = {} /\ conns \in Seq(Conn) /\ opened = 0 /\ request = <<>>
      /\ DOMAIN request = {} /\ 0 \in 0 .. 1 /\ MaxOpened \in Nat /\ 0 \in 0 .. MaxOpened
  BY H3Assumption DEF Init
<1>2. handled = [s \in 1 .. MaxOpened |-> 0] /\ pc = "poll" /\ i = 1 /\ j = 1
  BY DEF Init
<1>3. Table /\ Once
  BY <1>1, <1>2 DEF Table, Once
<1>4. Stage /\ Served /\ Handed
  BY <1>1, <1>2 DEF Stage, Served, Handed
<1> QED BY <1>3, <1>4 DEF H3Inv

(* The inductive invariant holds in every reachable state. *)
THEOREM H3Invariant == Spec => []H3Inv
<1>1. H3Inv /\ [Next]_vars => H3Inv'
  <2> SUFFICES ASSUME H3Inv, [Next]_vars PROVE H3Inv'
    OBVIOUS
  <2>1. ASSUME NEW uni \in BOOLEAN, AcceptStream(uni) \/ AcceptStreamFails(uni) PROVE H3Inv'
    BY <2>1, AcceptStep, AcceptFailsStep
  <2> QED BY <2>1, ReadSteps, DispatchStep, SkipStep, FlushStep, MoveSteps, ConnSteps
          DEF Next, Loop
<1> QED BY <1>1, H3Start, PTL DEF Spec

(* Every pass of zh3_process_ serves every stream of the connections it keeps, for any
   number of them: h3_pump_streams moves the last stream into the slot of one it frees and
   then serves that slot. *)
THEOREM EveryStreamServed == Spec => []StreamsServed
<1>1. H3Inv => StreamsServed
  <2> SUFFICES ASSUME H3Inv, Pumped, NEW k \in DOMAIN Streams PROVE Streams[k].id \in seen
    BY DEF StreamsServed, H3Inv, Served
  <2>1. pc = "pump" /\ j > Len(Streams) /\ i \in DOMAIN conns /\ j \in Nat
    BY DEF Pumped, H3Inv, Stage
  <2>2. ConnGood(conns[i])
    BY <2>1 DEF H3Inv, Table
  <2>3. k \in 1 .. Len(Streams) /\ Len(Streams) \in Nat
    BY <2>2, ConnFacts DEF Streams
  <2>4. k < j
    BY <2>1, <2>3
  <2> QED BY <2>1, <2>4 DEF H3Inv, Served
<1> QED BY <1>1, H3Invariant, PTL

(* What h3_maybe_dispatch hands over: at most once for a stream; with a well-formed field
   section; with the payload of exactly the DATA frames of the stream, in their order and
   within max_body_bytes; and never of a stream that ended inside a payload.  It holds
   however the reads, the end of the stream and the other streams interleave. *)
THEOREM RequestsAreWhole == Spec => []H3RequestsWhole
<1>1. H3Inv => H3RequestsWhole
  <2> SUFFICES ASSUME H3Inv PROVE H3RequestsWhole
    OBVIOUS
  <2>1. handled \in [1 .. MaxOpened -> 0 .. 1] /\ Handed
    BY DEF H3Inv, Once
  <2>2. \A s \in DOMAIN handled : handled[s] <= 1
    BY <2>1
  <2>3. ASSUME NEW k \in DOMAIN request
        PROVE  /\ WellFormed(request[k].section) /\ Len(request[k].body) <= MaxBody
               /\ BodyIsData(request[k].body, request[k].sent)
               /\ Last(request[k].sent) \notin {"headers", "data", "other"}
    BY <2>1 DEF Handed, Last
  <2> QED BY <2>2, <2>3 DEF H3RequestsWhole
<1> QED BY <1>1, H3Invariant, PTL
=============================================================================
