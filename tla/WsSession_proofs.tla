-------------------------- MODULE WsSession_proofs --------------------------
(***************************************************************************)
(* Proofs about the WebSocket session, for every cap, every number of      *)
(* frames and every way the peer's bytes are cut.                          *)
(***************************************************************************)
EXTENDS WsSession, WellFoundedInduction, TLAPS

USE DEF opening, reassembly, flags, output

(* The closing handshake, with the types it needs. *)
CloseInv ==
  /\ close_sent \in BOOLEAN /\ close_recv \in BOOLEAN /\ closes \in Nat
  /\ CloseDiscipline

(* What the sequence of redirects of zcio_ws_connect keeps: every turn after the first
   was a redirect, at most MaxRedirects of them, and none went from a secure URL to one
   that is not. *)
RedirectsSound ==
  /\ Len(hops) <= MaxRedirects + 1
  /\ \A i \in 1 .. (Len(hops) - 1) : hops[i] => hops[i + 1]
DialInv ==
  /\ hops \in Seq(BOOLEAN) /\ RedirectsSound
  /\ pc = "dial" => Len(hops) <= MaxRedirects

-----------------------------------------------------------------------------
(* A frame that is sent while no Close has been: nothing comes after a Close. *)
LEMMA SendKeeps ==
  ASSUME CloseInv, ~close_sent, NEW op, ws_send_frame(op)
  PROVE  closes = 0 /\ after' = after /\ closes' = IF op = "close" THEN 1 ELSE 0
BY DEF CloseInv, CloseDiscipline, ws_send_frame

(* The three places that send a Close do it once. *)
LEMMA CloseOnce ==
  ASSUME CloseInv, close_sent' = TRUE, close_recv' \in BOOLEAN,
         IF close_sent THEN UNCHANGED <<closes, after>> ELSE ws_send_frame("close")
  PROVE  CloseInv'
<1>1. CASE close_sent
  BY <1>1 DEF CloseInv, CloseDiscipline
<1>2. CASE ~close_sent
  <2>1. closes' = 1 /\ after' = after
    BY <1>2, SendKeeps
  <2> QED BY <2>1 DEF CloseInv, CloseDiscipline
<1> QED BY <1>1, <1>2

LEMMA CloseStep == CloseInv /\ [Next]_vars => CloseInv'
<1> SUFFICES ASSUME CloseInv, [Next]_vars PROVE CloseInv'
  OBVIOUS
<1>1. CASE UNCHANGED <<close_sent, close_recv, closes, after>>
  BY <1>1 DEF CloseInv, CloseDiscipline
<1>2. CASE \/ UNCHANGED vars \/ DeadlinePasses \/ ws_accept \/ Dial \/ ws_send_handshake
           \/ ReadHeadFails \/ Reply \/ FreeNow \/ CloseTop
           \/ Recv("recv") \/ Recv("recv deadline") \/ \E cap \in Caps : SetMaxMsgBytes(cap)
  BY <1>1, <1>2 DEF vars, DeadlinePasses, ws_accept, Dial, ws_send_handshake, ReadHeadFails,
     Reply, FreeNow, CloseTop, Recv, SetMaxMsgBytes
<1>3. ASSUME NEW op \in {"data", "ping"}, Send(op) PROVE CloseInv'
  <2>1. ~close_sent /\ ws_send_frame(op) /\ UNCHANGED flags
    BY <1>3 DEF Send
  <2>2. closes' = closes /\ after' = after
    BY <2>1, SendKeeps
  <2> QED BY <1>1, <2>1, <2>2
<1>4. ASSUME NEW kind \in {"close", "free"}, CloseCall(kind) PROVE CloseInv'
  <2>1. \/ ~close_sent /\ ws_send_frame("close") /\ close_sent' = TRUE
        \/ UNCHANGED <<close_sent, closes, after>>
    BY <1>4 DEF CloseCall
  <2>2. close_recv' = close_recv
    BY <1>4 DEF CloseCall
  <2>3. close_recv' \in BOOLEAN
    BY <2>2 DEF CloseInv
  <2> QED BY <1>1, <2>1, <2>2, <2>3, CloseOnce
<1>5. CASE Fill
  BY <1>1, <1>5 DEF Fill, FillReads, FillTimesOut, FillFails
<1>f. ASSUME ws_protocol_fail, close_recv' = close_recv PROVE CloseInv'
  <2>1. close_recv' \in BOOLEAN
    BY <1>f DEF CloseInv
  <2> QED BY <1>f, <2>1, CloseOnce DEF ws_protocol_fail
<1>6. CASE PumpReject
  BY <1>6, <1>f DEF PumpReject
<1>7. CASE PumpMore
  BY <1>1, <1>7 DEF PumpMore
<1>8. CASE PumpPing
  <2>1. UNCHANGED <<close_sent, close_recv>>
    BY <1>8 DEF PumpPing
  <2>2. CASE UNCHANGED <<closes, after>>
    BY <1>1, <2>1, <2>2
  <2>3. CASE ws_send_frame("pong")
    BY <2>1, <2>3 DEF CloseInv, CloseDiscipline, ws_send_frame
  <2> QED BY <1>8, <2>2, <2>3 DEF PumpPing
<1>9. CASE PumpClose
  <2>1. close_recv' \in BOOLEAN
    BY <1>9 DEF PumpClose
  <2> QED BY <1>9, <2>1, CloseOnce DEF PumpClose
<1>10. CASE PumpData
  <2>1. UNCHANGED <<close_sent, close_recv, closes, after>>
    BY <1>10 DEF PumpData, Emit, EmitFails
  <2> QED BY <1>1, <2>1
<1>11. CASE PumpCont
  <2>1. close_recv' = close_recv
    BY <1>11 DEF PumpCont
  <2>2. ws_protocol_fail \/ UNCHANGED <<close_sent, closes, after>>
    BY <1>11 DEF PumpCont, Emit, EmitFails
  <2> QED BY <1>1, <1>f, <2>1, <2>2
<1> QED BY <1>2, <1>3, <1>4, <1>5, <1>6, <1>7, <1>8, <1>9, <1>10, <1>11 DEF Next, Pump

(* The closing handshake (zcio_ws_close, zcio_ws_free, the answer to the peer's Close and
   ws_protocol_fail): one Close, nothing after it but answers to pings, and no Close of
   the peer unanswered. *)
THEOREM ClosesOnce == Spec => []CloseDiscipline
<1>1. Init => CloseInv
  <2> SUFFICES ASSUME Init PROVE CloseInv
    OBVIOUS
  <2>1. ~close_sent /\ ~close_recv /\ closes = 0 /\ after = {}
    BY DEF Init
  <2>2. close_sent \in BOOLEAN /\ close_recv \in BOOLEAN
    BY DEF Init
  <2>3. CloseDiscipline
    BY <2>1 DEF CloseDiscipline
  <2> QED BY <2>1, <2>2, <2>3 DEF CloseInv
<1>2. CloseInv => CloseDiscipline
  BY DEF CloseInv
<1> QED BY <1>1, <1>2, CloseStep, PTL DEF Spec

-----------------------------------------------------------------------------
LEMMA DialStep == DialInv /\ [Next]_vars => DialInv'
<1> SUFFICES ASSUME DialInv, [Next]_vars PROVE DialInv'
  OBVIOUS
<1>0. hops \in Seq(BOOLEAN) /\ Len(hops) \in Nat /\ MaxRedirects \in Nat
  BY WsAssumption DEF DialInv
<1>1. CASE hops' = hops /\ (pc' = "dial" => pc = "dial")
  BY <1>1 DEF DialInv, RedirectsSound
<1>2. CASE \/ UNCHANGED vars \/ DeadlinePasses \/ ws_accept \/ ws_send_handshake
           \/ ReadHeadFails \/ FreeNow \/ CloseTop \/ Send("data") \/ Send("ping")
           \/ Recv("recv") \/ Recv("recv deadline") \/ \E cap \in Caps : SetMaxMsgBytes(cap)
  BY <1>1, <1>2 DEF vars, DeadlinePasses, ws_accept, Begin, ws_send_handshake, ReadHeadFails,
     FreeNow, CloseTop, PumpReturns, Return, Send, Recv, SetMaxMsgBytes
<1>3. CASE CloseCall("close") \/ CloseCall("free")
  BY <1>1, <1>3 DEF CloseCall
<1>4. CASE Fill
  BY <1>1, <1>4 DEF Fill, FillReads, FillTimesOut, FillFails, PumpReturns, Return
<1>5. CASE Pump
  <2>1. hops' = hops
    BY <1>5 DEF Pump, PumpReject, PumpMore, PumpPing, PumpClose, PumpData, PumpCont
  <2>2. CASE PumpReject \/ PumpMore \/ PumpPing \/ PumpClose
    BY <1>1, <2>1, <2>2 DEF PumpReject, ws_protocol_fail, PumpMore, PumpPing, PumpClose,
       PumpReturns, Return
  <2>3. CASE PumpData
    BY <1>1, <2>1, <2>3 DEF PumpData, Emit, EmitFails, PumpReturns, Return
  <2>4. CASE PumpCont
    BY <1>1, <2>1, <2>4 DEF PumpCont, ws_protocol_fail, Emit, EmitFails, PumpReturns, Return
  <2> QED BY <1>5, <2>2, <2>3, <2>4 DEF Pump
<1>6. CASE Reply
  <2>1. CASE Begin /\ hops' = <<>>
    BY <1>0, <2>1 DEF Begin, DialInv, RedirectsSound
  <2>2. CASE Redirects < MaxRedirects /\ hops' = hops
    BY <1>0, <2>2 DEF DialInv, RedirectsSound, Redirects
  <2>3. CASE pc' = "gone" /\ hops' = hops
    BY <1>1, <2>3
  <2> QED BY <1>6, <2>1, <2>2, <2>3 DEF Reply
<1>7. CASE Dial
  <2>1. CASE pc' = "gone" /\ hops' = hops
    BY <1>1, <2>1
  <2>2. CASE pc' = "request" /\ ~Downgrade /\ hops' = Append(hops, Secure(target))
    <3>1. /\ hops' \in Seq(BOOLEAN) /\ Len(hops') = Len(hops) + 1
          /\ hops'[Len(hops) + 1] = Secure(target)
          /\ \A i \in 1..Len(hops) : hops'[i] = hops[i]
      BY <1>0, <2>2 DEF Secure
    <3>2. Len(hops) <= MaxRedirects
      BY <1>7 DEF Dial, DialInv
    <3>3. Len(hops) > 0 /\ hops[Len(hops)] => Secure(target)
      BY <1>0, <2>2 DEF Downgrade, Last
    <3>4. ASSUME NEW i \in 1..Len(hops) PROVE hops'[i] => hops'[i + 1]
      <4>1. CASE i = Len(hops)
        BY <1>0, <3>1, <3>3, <4>1
      <4>2. CASE i # Len(hops)
        <5>1. i \in 1 .. (Len(hops) - 1) /\ i + 1 \in 1..Len(hops)
          BY <1>0, <4>2
        <5>2. hops[i] => hops[i + 1]
          BY <5>1 DEF DialInv, RedirectsSound
        <5> QED BY <3>1, <5>1, <5>2
      <4> QED BY <4>1, <4>2
    <3>5. RedirectsSound'
      BY <1>0, <3>1, <3>2, <3>4 DEF RedirectsSound
    <3> QED BY <2>2, <3>1, <3>5 DEF DialInv
  <2> QED BY <1>7, <2>1, <2>2 DEF Dial
<1> QED BY <1>2, <1>3, <1>4, <1>5, <1>6, <1>7 DEF Next

(* zcio_ws_connect dials at most MaxRedirects + 1 times and never follows a redirect
   from wss to ws. *)
THEOREM NoDowngrade == Spec => []RedirectsSound
<1>1. Init => DialInv
  <2>1. Init => hops = <<>>
    BY DEF Init
  <2> QED BY <2>1, WsAssumption DEF DialInv, RedirectsSound
<1>2. DialInv => RedirectsSound
  BY DEF DialInv
<1> QED BY <1>1, <1>2, DialStep, PTL DEF Spec

-----------------------------------------------------------------------------
(* The messages. *)

Ops == {"text", "bin", "cont", "ping", "pong", "close", "bad", "none"}
Message == [op : Ops, frames : Seq(Nat), fits : BOOLEAN]
Waiting == {"top", "pump", "fill"}

(* The frames that have arrived, of which `used' are consumed. *)
InputOK ==
  /\ sent \in Seq(Frames) /\ got \in Nat /\ used \in Nat
  /\ 2 * Len(sent) \in {got, got + 1} /\ used <= Len(sent)
(* The message under assembly is made of frames consumed. *)
FragOK ==
  /\ frag \in Seq(Nat) /\ \A i \in 1..Len(frag) : frag[i] \in 1..used
  /\ frag_active \in BOOLEAN /\ cur_opcode \in Ops
  /\ ~frag_active => frag = <<>>
(* A session that failed, or got the peer's Close, reads no more. *)
FlagsOK ==
  /\ failed \in BOOLEAN /\ close_recv \in BOOLEAN /\ max_msg_bytes \in Nat
  /\ pc \in Waiting => ~failed /\ ~close_recv
MessagesOK == messages \in Seq(Message) /\ \A i \in 1..Len(messages) : messages[i].fits
Buffers == InputOK /\ FragOK /\ FlagsOK /\ MessagesOK

Plain(ms) == [i \in DOMAIN ms |-> [op |-> ms[i].op, frames |-> ms[i].frames]]

(* What the session has made of the frames it consumed is what RFC 6455 makes of them. *)
Assembled ==
  ~oom =>
    /\ Plain(messages) = Assembly(sent)[used].done
    /\ ~failed /\ ~close_recv =>
         /\ ~Assembly(sent)[used].over /\ Assembly(sent)[used].open = frag
         /\ frag_active => frag # <<>> /\ cur_opcode = sent[frag[1]].op

MessagesInv == Buffers /\ Assembled
-----------------------------------------------------------------------------
(* Induction, for what the recursive definitions compute. *)

(* Every set of naturals that is not empty has a least element. *)
LEMMA Least ==
  ASSUME NEW T \in SUBSET Nat, T # {}
  PROVE  \E m \in T : \A k \in T : m <= k
<1> DEFINE R == {p \in Nat \X Nat : p[1] < p[2]}
<1>1. IsWellFoundedOn(R, Nat)
  BY NatLessThanWellFounded DEF OpToRel
<1> HIDE DEF R
<1>2. \E m \in T : \A k \in T : ~(<<k, m>> \in R)
  BY <1>1, WFMin
<1>3. PICK m \in T : \A k \in T : ~(<<k, m>> \in R)
  BY <1>2
<1>4. ASSUME NEW k \in T PROVE m <= k
  <2>1. m \in Nat /\ k \in Nat
    OBVIOUS
  <2>2. k < m => <<k, m>> \in R
    BY <2>1 DEF R
  <2>3. QED BY <1>3, <2>1, <2>2
<1>5. QED
  BY <1>3, <1>4

(* Induction, for a set of naturals. *)
LEMMA SetInduction ==
  ASSUME NEW S \in SUBSET Nat, 0 \in S, \A n \in S : n + 1 \in S
  PROVE  S = Nat
<1>1. SUFFICES ASSUME S # Nat PROVE FALSE
  OBVIOUS
<1>2. PICK m \in Nat \ S : \A k \in Nat \ S : m <= k
  <2>1. Nat \ S # {} /\ Nat \ S \in SUBSET Nat
    BY <1>1
  <2>2. QED BY <2>1, Least
<1>3. m # 0 /\ m - 1 \in Nat /\ m - 1 \in S
  BY <1>2
<1>4. QED
  BY <1>2, <1>3

(* g is the recursive function that Assembly defines, on 0..l. *)
Assembles(g, fr, l) ==
  g = [n \in 0..l |-> IF n = 0 THEN NoFrames ELSE AddFrame(fr, g[n - 1], n)]

LEMMA AssemblesExists ==
  ASSUME NEW fr
  PROVE  \A l \in Nat : \E g : Assembles(g, fr, l)
<1> DEFINE T == {l \in Nat : \E g : Assembles(g, fr, l)}
<1>1. 0 \in T
  <2>1. Assembles([n \in 0..0 |-> NoFrames], fr, 0)
    BY DEF Assembles
  <2>2. QED BY <2>1
<1>2. ASSUME NEW l \in T PROVE l + 1 \in T
  <2>1. l \in Nat /\ \E g : Assembles(g, fr, l)
    OBVIOUS
  <2>2. PICK g : Assembles(g, fr, l)
    BY <2>1
  <2> DEFINE Step(f) == [n \in 0..(l + 1) |-> IF n = 0 THEN NoFrames ELSE AddFrame(fr, f[n - 1], n)]
             h == Step(g)
  <2>3. \A n \in 0..l : h[n] = g[n]
    <3>1. \A n \in 0..l : g[n] = IF n = 0 THEN NoFrames ELSE AddFrame(fr, g[n - 1], n)
      BY <2>2 DEF Assembles
    <3>2. \A n \in 0..l : n \in 0..(l + 1)
      BY <2>1
    <3>3. QED BY <3>1, <3>2
  <2>4. \A n \in 0..(l + 1) : n # 0 => h[n - 1] = g[n - 1]
    <3>1. \A n \in 0..(l + 1) : n # 0 => n - 1 \in 0..l
      BY <2>1
    <3> HIDE DEF h
    <3>2. QED BY <2>3, <3>1
  <2>5. h = Step(h)
    <3> DEFINE k == h
    <3>1. \A n \in 0..(l + 1) : n # 0 => k[n - 1] = g[n - 1]
      BY <2>4
    <3> HIDE DEF k
    <3>2. Step(k) = Step(g)
      BY <3>1
    <3>3. QED BY <3>2 DEF k
  <2> HIDE DEF h
  <2>6. Assembles(h, fr, l + 1)
    BY <2>5 DEF Assembles
  <2>7. QED BY <2>1, <2>6
<1> HIDE DEF T
<1>3. T = Nat
  <2>1. T \in SUBSET Nat
    BY DEF T
  <2>2. QED BY <1>1, <1>2, <2>1, SetInduction
<1>4. QED BY <1>3 DEF T

LEMMA AssemblyIs ==
  ASSUME NEW fr, Len(fr) \in Nat
  PROVE  /\ Assembly(fr)[0] = NoFrames
         /\ \A n \in 1..Len(fr) : Assembly(fr)[n] = AddFrame(fr, Assembly(fr)[n - 1], n)
<1> DEFINE Step(f) == [n \in 0..Len(fr) |-> IF n = 0 THEN NoFrames ELSE AddFrame(fr, f[n - 1], n)]
           g == CHOOSE f : f = Step(f)
<1>1. \E f : f = Step(f)
  BY AssemblesExists DEF Assembles
<1>2. Assembly(fr) = g
  BY DEF Assembly
<1>3. g = Step(g)
  <2> HIDE DEF Step
  <2>1. QED BY <1>1
<1> HIDE DEF g
<1>4. \A n \in 0..Len(fr) : g[n] = IF n = 0 THEN NoFrames ELSE AddFrame(fr, g[n - 1], n)
  BY <1>3
<1>5. 0 \in 0..Len(fr) /\ \A n \in 1..Len(fr) : n \in 0..Len(fr) /\ n # 0
  OBVIOUS
<1>6. QED BY <1>2, <1>4, <1>5

(* g is the running total that SumLen defines, on 0..l. *)
Plus(a, ns, i) == a + sent[ns[i]].len
Totals(g, ns, l) == g = [i \in 0..l |-> IF i = 0 THEN 0 ELSE Plus(g[i - 1], ns, i)]

LEMMA TotalsExist ==
  ASSUME NEW ns
  PROVE  \A l \in Nat : \E g : Totals(g, ns, l)
<1> DEFINE T == {l \in Nat : \E g : Totals(g, ns, l)}
<1>1. 0 \in T
  <2>1. Totals([n \in 0..0 |-> 0], ns, 0)
    BY DEF Totals
  <2>2. QED BY <2>1
<1>2. ASSUME NEW l \in T PROVE l + 1 \in T
  <2>1. l \in Nat /\ \E g : Totals(g, ns, l)
    OBVIOUS
  <2>2. PICK g : Totals(g, ns, l)
    BY <2>1
  <2> DEFINE Step(f) == [n \in 0..(l + 1) |-> IF n = 0 THEN 0 ELSE Plus(f[n - 1], ns, n)]
             h == Step(g)
  <2>3. \A n \in 0..l : h[n] = g[n]
    <3>1. \A n \in 0..l : g[n] = IF n = 0 THEN 0 ELSE Plus(g[n - 1], ns, n)
      BY <2>2 DEF Totals
    <3>2. \A n \in 0..l : n \in 0..(l + 1)
      BY <2>1
    <3>3. QED BY <3>1, <3>2
  <2>4. \A n \in 0..(l + 1) : n # 0 => h[n - 1] = g[n - 1]
    <3>1. \A n \in 0..(l + 1) : n # 0 => n - 1 \in 0..l
      BY <2>1
    <3> HIDE DEF h
    <3>2. QED BY <2>3, <3>1
  <2>5. h = Step(h)
    <3> DEFINE k == h
    <3>1. \A n \in 0..(l + 1) : n # 0 => k[n - 1] = g[n - 1]
      BY <2>4
    <3> HIDE DEF k
    <3>2. Step(k) = Step(g)
      BY <3>1
    <3>3. QED BY <3>2 DEF k
  <2> HIDE DEF h
  <2>6. Totals(h, ns, l + 1)
    BY <2>5 DEF Totals
  <2>7. QED BY <2>1, <2>6
<1> HIDE DEF T
<1>3. T = Nat
  <2>1. T \in SUBSET Nat
    BY DEF T
  <2>2. QED BY <1>1, <1>2, <2>1, SetInduction
<1>4. QED BY <1>3 DEF T

LEMMA SumLenIs ==
  ASSUME NEW ns, Len(ns) \in Nat
  PROVE  \E g : /\ SumLen(ns) = g[Len(ns)] /\ g[0] = 0
                /\ \A i \in 1..Len(ns) : g[i] = Plus(g[i - 1], ns, i)
<1> DEFINE Step(f) == [i \in 0..Len(ns) |-> IF i = 0 THEN 0 ELSE Plus(f[i - 1], ns, i)]
           g == CHOOSE f : f = Step(f)
<1>1. \E f : f = Step(f)
  BY TotalsExist DEF Totals
<1>2. SumLen(ns) = g[Len(ns)]
  BY DEF SumLen, Plus
<1>3. g = Step(g)
  <2> HIDE DEF Step
  <2>1. QED BY <1>1
<1> HIDE DEF g
<1>4. \A i \in 0..Len(ns) : g[i] = IF i = 0 THEN 0 ELSE Plus(g[i - 1], ns, i)
  BY <1>3
<1>5. 0 \in 0..Len(ns) /\ \A i \in 1..Len(ns) : i \in 0..Len(ns) /\ i # 0
  OBVIOUS
<1>6. g[0] = 0 /\ \A i \in 1..Len(ns) : g[i] = Plus(g[i - 1], ns, i)
  BY <1>4, <1>5
<1>7. QED BY <1>2, <1>6

(* The length of a message is the sum of the lengths of its fragments. *)
LEMMA SumLenNat ==
  ASSUME NEW ns \in Seq(Nat), \A i \in 1..Len(ns) : sent[ns[i]].len \in Nat
  PROVE  SumLen(ns) \in Nat
<1>1. Len(ns) \in Nat
  OBVIOUS
<1>2. PICK g : /\ SumLen(ns) = g[Len(ns)] /\ g[0] = 0
               /\ \A i \in 1..Len(ns) : g[i] = Plus(g[i - 1], ns, i)
  BY <1>1, SumLenIs
<1> DEFINE T == {k \in Nat : k <= Len(ns) => g[k] \in Nat}
<1>3. 0 \in T
  BY <1>2
<1>4. ASSUME NEW k \in T PROVE k + 1 \in T
  <2>1. SUFFICES ASSUME k + 1 <= Len(ns) PROVE g[k + 1] \in Nat
    OBVIOUS
  <2>2. k + 1 \in 1..Len(ns) /\ k + 1 - 1 = k /\ g[k] \in Nat
    BY <1>1, <2>1
  <2>3. g[k + 1] = Plus(g[k], ns, k + 1) /\ sent[ns[k + 1]].len \in Nat
    BY <1>2, <2>2
  <2>4. QED BY <2>2, <2>3 DEF Plus
<1> HIDE DEF T
<1>5. T = Nat
  <2>1. T \in SUBSET Nat
    BY DEF T
  <2>2. QED BY <1>3, <1>4, <2>1, SetInduction
<1>6. Len(ns) \in T
  BY <1>1, <1>5
<1>7. QED BY <1>1, <1>2, <1>6 DEF T

LEMMA SumLenAppend ==
  ASSUME NEW ns \in Seq(Nat), NEW m \in Nat
  PROVE  SumLen(Append(ns, m)) = SumLen(ns) + sent[m].len
<1> DEFINE tt == Append(ns, m)
           l == Len(ns)
<1>1. l \in Nat /\ Len(tt) = l + 1 /\ tt[l + 1] = m /\ \A i \in 1..l : tt[i] = ns[i]
  OBVIOUS
<1> HIDE DEF tt
<1>2. PICK g : /\ SumLen(ns) = g[l] /\ g[0] = 0
               /\ \A i \in 1..l : g[i] = Plus(g[i - 1], ns, i)
  BY <1>1, SumLenIs
<1>3. PICK h : /\ SumLen(tt) = h[l + 1] /\ h[0] = 0
               /\ \A i \in 1..(l + 1) : h[i] = Plus(h[i - 1], tt, i)
  <2>1. Len(tt) \in Nat
    BY <1>1
  <2>2. QED BY <1>1, <2>1, SumLenIs
<1> DEFINE T == {k \in Nat : k <= l => h[k] = g[k]}
<1>4. 0 \in T
  BY <1>2, <1>3
<1>5. ASSUME NEW k \in T PROVE k + 1 \in T
  <2>1. SUFFICES ASSUME k + 1 <= l PROVE h[k + 1] = g[k + 1]
    OBVIOUS
  <2>2. k + 1 \in 1..l /\ k + 1 \in 1..(l + 1) /\ k + 1 - 1 = k /\ h[k] = g[k]
    BY <1>1, <2>1
  <2>3. h[k + 1] = Plus(h[k], tt, k + 1) /\ g[k + 1] = Plus(g[k], ns, k + 1)
    BY <1>2, <1>3, <2>2
  <2>4. tt[k + 1] = ns[k + 1]
    BY <1>1, <2>2
  <2>5. QED BY <2>2, <2>3, <2>4 DEF Plus
<1> HIDE DEF T
<1>6. T = Nat
  <2>1. T \in SUBSET Nat
    BY DEF T
  <2>2. QED BY <1>4, <1>5, <2>1, SetInduction
<1>7. h[l] = g[l]
  <2>1. l \in T
    BY <1>1, <1>6
  <2>2. QED BY <1>1, <2>1 DEF T
<1>8. h[l + 1] = Plus(h[l], tt, l + 1)
  <2>1. l + 1 \in 1..(l + 1) /\ l + 1 - 1 = l
    BY <1>1
  <2>2. QED BY <1>3, <2>1
<1>9. QED BY <1>1, <1>2, <1>3, <1>7, <1>8 DEF Plus, tt

-----------------------------------------------------------------------------
(* What the reference makes of the frames, one frame at a time. *)

LEMMA FrameType ==
  ASSUME NEW f \in Frames
  PROVE  f.op \in Ops /\ f.fin \in BOOLEAN /\ f.len \in Nat /\ f.ok \in BOOLEAN
<1>1. PICK op \in Ops, fin \in BOOLEAN, len \in {0, 1, 2}, ok \in BOOLEAN : f = F(op, fin, len, ok)
  BY Zenon DEF Frames, Ops
<1>2. f.op = op /\ f.fin = fin /\ f.len = len /\ f.ok = ok
  BY <1>1 DEF F
<1>3. QED BY <1>2

(* The messages done and the message open after n frames. *)
Acc(n) ==
  {acc \in [done : Seq([op : Ops, frames : Seq(Nat)]), open : Seq(Nat), over : BOOLEAN] :
     \A i \in 1..Len(acc.open) : acc.open[i] \in 1..n}

(* The message that frame n would complete, whether it is valid, and whether the frame
   is in place. *)
WholeOf(fr, acc, n) ==
  [op |-> IF acc.open = <<>> THEN fr[n].op ELSE fr[acc.open[1]].op,
   frames |-> Append(acc.open, n)]
ValidOf(fr, acc, n) ==
  WholeOf(fr, acc, n).op = "text" =>
    \A i \in DOMAIN WholeOf(fr, acc, n).frames : fr[WholeOf(fr, acc, n).frames[i]].ok
InPlace(fr, acc, n) == IF fr[n].op = "cont" THEN acc.open # <<>> ELSE acc.open = <<>>

LEMMA AddControl ==
  ASSUME NEW fr, NEW acc, NEW n, ~acc.over, fr[n].op \in {"ping", "pong"}
  PROVE  AddFrame(fr, acc, n) = acc
BY DEF AddFrame, IsData

LEMMA AddFragment ==
  ASSUME NEW fr, NEW acc, NEW n, ~acc.over,
         IsData(fr[n]), InPlace(fr, acc, n), ~fr[n].fin
  PROVE  AddFrame(fr, acc, n) = [done |-> acc.done, open |-> Append(acc.open, n), over |-> FALSE]
BY DEF AddFrame, IsData, InPlace

LEMMA AddLast ==
  ASSUME NEW fr, NEW acc, NEW n, ~acc.over,
         IsData(fr[n]), InPlace(fr, acc, n), fr[n].fin, ValidOf(fr, acc, n)
  PROVE  AddFrame(fr, acc, n) =
           [done |-> Append(acc.done, WholeOf(fr, acc, n)), open |-> <<>>, over |-> FALSE]
BY DEF AddFrame, IsData, WholeOf, ValidOf, InPlace

LEMMA AddBad ==
  ASSUME NEW fr, NEW acc, NEW n, ~acc.over, fr[n].op \notin {"ping", "pong"},
         \/ ~IsData(fr[n]) \/ ~InPlace(fr, acc, n)
         \/ fr[n].fin /\ ~ValidOf(fr, acc, n)
  PROVE  AddFrame(fr, acc, n) = [done |-> acc.done, open |-> acc.open, over |-> TRUE]
BY DEF AddFrame, IsData, WholeOf, ValidOf, InPlace

LEMMA AddFrameOver ==
  ASSUME NEW fr, NEW acc, NEW n, acc.over
  PROVE  AddFrame(fr, acc, n) = acc
BY DEF AddFrame
(* t begins with s. *)
Begins(s, t) == Len(s) <= Len(t) /\ \A i \in 1..Len(s) : s[i] = t[i]

LEMMA WholeType ==
  ASSUME NEW fr \in Seq(Frames), NEW n \in 1..Len(fr), NEW acc \in Acc(n - 1)
  PROVE  /\ WholeOf(fr, acc, n) \in [op : Ops, frames : Seq(Nat)]
         /\ Append(acc.open, n) \in Seq(Nat)
         /\ \A i \in 1..Len(Append(acc.open, n)) : Append(acc.open, n)[i] \in 1..n
<1>1. acc.open \in Seq(Nat) /\ n \in Nat /\ \A i \in 1..Len(acc.open) : acc.open[i] \in 1..(n - 1)
  BY DEF Acc
<1>2. Append(acc.open, n) \in Seq(Nat)
  BY <1>1
<1>3. ASSUME NEW i \in 1..Len(Append(acc.open, n)) PROVE Append(acc.open, n)[i] \in 1..n
  <2> DEFINE o == acc.open
  <2>1. o \in Seq(Nat) /\ Append(o, n)[i] = (IF i = Len(o) + 1 THEN n ELSE o[i]) /\ i \in 1..(Len(o) + 1)
    BY <1>1
  <2>2. i # Len(o) + 1 => o[i] \in 1..(n - 1)
    BY <1>1, <2>1
  <2>3. QED BY <1>1, <2>1, <2>2
<1>4. fr[n].op \in Ops
  BY FrameType
<1>5. ASSUME acc.open # <<>> PROVE fr[acc.open[1]].op \in Ops
  <2>1. 1 \in 1..Len(acc.open)
    BY <1>1, <1>5
  <2>2. acc.open[1] \in 1..Len(fr)
    BY <1>1, <2>1
  <2>3. QED BY <2>2, FrameType
<1>6. QED BY <1>2, <1>3, <1>4, <1>5 DEF WholeOf

(* A frame adds at most one message, behind those done. *)
LEMMA AddFrameType ==
  ASSUME NEW fr \in Seq(Frames), NEW n \in 1..Len(fr), NEW acc \in Acc(n - 1)
  PROVE  AddFrame(fr, acc, n) \in Acc(n) /\ Begins(acc.done, AddFrame(fr, acc, n).done)
<1> DEFINE R == [done : Seq([op : Ops, frames : Seq(Nat)]), open : Seq(Nat), over : BOOLEAN]
           w == WholeOf(fr, acc, n)
           o == Append(acc.open, n)
<1>1. acc \in R /\ \A i \in 1..Len(acc.open) : acc.open[i] \in 1..n
  BY DEF Acc
<1>2. w \in [op : Ops, frames : Seq(Nat)] /\ o \in Seq(Nat) /\ \A i \in 1..Len(o) : o[i] \in 1..n
  BY WholeType
<1> HIDE DEF w, o
<1>3. CASE AddFrame(fr, acc, n) = acc
  BY <1>1, <1>3 DEF Acc, Begins
<1>4. CASE AddFrame(fr, acc, n) = [done |-> acc.done, open |-> o, over |-> FALSE]
  BY <1>1, <1>2, <1>4 DEF Acc, Begins
<1>5. CASE AddFrame(fr, acc, n) = [done |-> Append(acc.done, w), open |-> <<>>, over |-> FALSE]
  <2> DEFINE b == [done |-> Append(acc.done, w), open |-> <<>>, over |-> FALSE]
  <2>0. AddFrame(fr, acc, n) = b
    BY <1>5
  <2>1. b.open = <<>> /\ b.done = Append(acc.done, w) /\ b \in R
    BY <1>1, <1>2
  <2>2. Begins(acc.done, Append(acc.done, w))
    BY <1>1, <1>2 DEF Begins
  <2> HIDE DEF b
  <2>3. \A i \in 1..Len(b.open) : b.open[i] \in 1..n
    BY <2>1
  <2>4. QED BY <2>0, <2>1, <2>2, <2>3 DEF Acc
<1>6. CASE AddFrame(fr, acc, n) = [done |-> acc.done, open |-> acc.open, over |-> TRUE]
  BY <1>1, <1>6 DEF Acc, Begins
<1>7. CASE acc.over
  BY <1>3, <1>7, AddFrameOver
<1>8. CASE ~acc.over
  <2>1. fr[n].fin \in BOOLEAN
    BY FrameType
  <2>2. \/ AddFrame(fr, acc, n) = acc
        \/ AddFrame(fr, acc, n) = [done |-> acc.done, open |-> o, over |-> FALSE]
        \/ AddFrame(fr, acc, n) = [done |-> Append(acc.done, w), open |-> <<>>, over |-> FALSE]
        \/ AddFrame(fr, acc, n) = [done |-> acc.done, open |-> acc.open, over |-> TRUE]
    <3>1. CASE fr[n].op \in {"ping", "pong"}
      BY <1>8, <3>1, AddControl
    <3>2. CASE IsData(fr[n]) /\ InPlace(fr, acc, n) /\ ~fr[n].fin
      BY <1>8, <3>2, AddFragment DEF o
    <3>3. CASE IsData(fr[n]) /\ InPlace(fr, acc, n) /\ fr[n].fin /\ ValidOf(fr, acc, n)
      BY <1>8, <3>3, AddLast DEF w
    <3>4. CASE /\ fr[n].op \notin {"ping", "pong"}
               /\ \/ ~IsData(fr[n]) \/ ~InPlace(fr, acc, n)
                  \/ fr[n].fin /\ ~ValidOf(fr, acc, n)
      BY <1>8, <3>4, AddBad
    <3>5. QED BY <2>1, <3>1, <3>2, <3>3, <3>4
  <2>3. QED BY <1>3, <1>4, <1>5, <1>6, <2>2
<1>9. QED BY <1>7, <1>8

(* What a frame adds depends on it and on the frames before it only. *)
LEMMA AddFrameLocal ==
  ASSUME NEW fr, NEW gr, NEW n \in Nat \ {0}, NEW acc \in Acc(n - 1),
         \A i \in 1..n : fr[i] = gr[i]
  PROVE  AddFrame(fr, acc, n) = AddFrame(gr, acc, n)
<1>1. acc.open \in Seq(Nat) /\ \A i \in 1..Len(acc.open) : acc.open[i] \in 1..n
  BY DEF Acc
<1>2. fr[n] = gr[n]
  OBVIOUS
<1>3. acc.open # <<>> => fr[acc.open[1]] = gr[acc.open[1]]
  BY <1>1
<1>4. WholeOf(fr, acc, n) = WholeOf(gr, acc, n)
  BY <1>2, <1>3 DEF WholeOf
<1> DEFINE o == Append(acc.open, n)
<1>5. \A i \in DOMAIN o : fr[o[i]] = gr[o[i]]
  <2>1. ASSUME NEW i \in DOMAIN o PROVE o[i] \in 1..n
    <3>1. i \in 1..(Len(acc.open) + 1) /\ o[i] = (IF i = Len(acc.open) + 1 THEN n ELSE acc.open[i])
      BY <1>1
    <3>2. QED BY <1>1, <3>1
  <2>2. QED BY <2>1
<1>6. WholeOf(fr, acc, n).frames = o
  BY DEF WholeOf
<1> HIDE DEF o
<1>7. ValidOf(fr, acc, n) = ValidOf(gr, acc, n)
  BY <1>4, <1>5, <1>6 DEF ValidOf
<1>8. InPlace(fr, acc, n) = InPlace(gr, acc, n)
  BY <1>2 DEF InPlace
<1>9. QED BY <1>2, <1>4, <1>7, <1>8 DEF AddFrame, WholeOf, ValidOf, InPlace
LEMMA AssemblyType ==
  ASSUME NEW fr \in Seq(Frames)
  PROVE  \A n \in 0..Len(fr) : Assembly(fr)[n] \in Acc(n)
<1> DEFINE T == {n \in Nat : n <= Len(fr) => Assembly(fr)[n] \in Acc(n)}
<1>0. Len(fr) \in Nat
  OBVIOUS
<1>1. 0 \in T
  <2>1. NoFrames \in Acc(0)
    BY DEF NoFrames, Acc
  <2>2. QED BY <1>0, <2>1, AssemblyIs
<1>2. ASSUME NEW n \in T PROVE n + 1 \in T
  <2>1. SUFFICES ASSUME n + 1 <= Len(fr) PROVE Assembly(fr)[n + 1] \in Acc(n + 1)
    OBVIOUS
  <2>2. n + 1 \in 1..Len(fr) /\ n + 1 - 1 = n /\ Assembly(fr)[n] \in Acc(n)
    BY <1>0, <2>1
  <2>3. Assembly(fr)[n + 1] = AddFrame(fr, Assembly(fr)[n], n + 1)
    BY <1>0, <2>2, AssemblyIs
  <2>4. Assembly(fr)[n] \in Acc((n + 1) - 1)
    BY <2>2
  <2>5. QED BY <2>2, <2>3, <2>4, AddFrameType
<1> HIDE DEF T
<1>3. T = Nat
  <2>1. T \in SUBSET Nat
    BY DEF T
  <2>2. QED BY <1>1, <1>2, <2>1, SetInduction
<1>4. QED BY <1>0, <1>3 DEF T

(* The frames that arrive later do not change what became of those before them. *)
LEMMA AssemblyExtends ==
  ASSUME NEW fr \in Seq(Frames), NEW gr \in Seq(Frames), Begins(fr, gr)
  PROVE  \A n \in 0..Len(fr) : Assembly(gr)[n] = Assembly(fr)[n]
<1> DEFINE T == {n \in Nat : n <= Len(fr) => Assembly(gr)[n] = Assembly(fr)[n]}
<1>0. Len(fr) \in Nat /\ Len(gr) \in Nat /\ Len(fr) <= Len(gr)
  BY DEF Begins
<1>1. 0 \in T
  BY <1>0, AssemblyIs
<1>2. ASSUME NEW n \in T PROVE n + 1 \in T
  <2>1. SUFFICES ASSUME n + 1 <= Len(fr) PROVE Assembly(gr)[n + 1] = Assembly(fr)[n + 1]
    OBVIOUS
  <2>2. /\ n + 1 \in 1..Len(fr) /\ n + 1 \in 1..Len(gr) /\ n + 1 - 1 = n /\ n \in 0..Len(fr)
        /\ Assembly(gr)[n] = Assembly(fr)[n] /\ n + 1 \in Nat \ {0}
    BY <1>0, <2>1
  <2>3. /\ Assembly(fr)[n + 1] = AddFrame(fr, Assembly(fr)[n], n + 1)
        /\ Assembly(gr)[n + 1] = AddFrame(gr, Assembly(gr)[n], n + 1)
    BY <1>0, <2>2, AssemblyIs
  <2>4. Assembly(fr)[n] \in Acc((n + 1) - 1)
    BY <2>2, AssemblyType
  <2>5. \A i \in 1..(n + 1) : fr[i] = gr[i]
    BY <1>0, <2>1 DEF Begins
  <2>6. AddFrame(fr, Assembly(fr)[n], n + 1) = AddFrame(gr, Assembly(fr)[n], n + 1)
    BY <2>2, <2>4, <2>5, AddFrameLocal
  <2>7. QED BY <2>2, <2>3, <2>6
<1> HIDE DEF T
<1>3. T = Nat
  <2>1. T \in SUBSET Nat
    BY DEF T
  <2>2. QED BY <1>1, <1>2, <2>1, SetInduction
<1>4. QED BY <1>0, <1>3 DEF T

(* The messages done stay, and later ones come behind them. *)
LEMMA DoneGrows ==
  ASSUME NEW fr \in Seq(Frames), NEW m \in 0..Len(fr)
  PROVE  Begins(Assembly(fr)[m].done, Assembly(fr)[Len(fr)].done)
<1> DEFINE D(n) == Assembly(fr)[n].done
           T == {k \in Nat : m + k <= Len(fr) => Begins(D(m), D(m + k))}
<1>0. Len(fr) \in Nat /\ m \in Nat
  OBVIOUS
<1>t. \A n \in 0..Len(fr) : Len(D(n)) \in Nat
  BY AssemblyType DEF Acc
<1>1. 0 \in T
  <2>1. m + 0 = m /\ Len(D(m)) \in Nat
    BY <1>t
  <2> HIDE DEF D
  <2>2. QED BY <2>1 DEF Begins
<1>2. ASSUME NEW k \in T PROVE k + 1 \in T
  <2>1. SUFFICES ASSUME m + (k + 1) <= Len(fr) PROVE Begins(D(m), D(m + (k + 1)))
    OBVIOUS
  <2>2. PICK n \in Nat : n = m + k
    BY <1>0
  <2>3. n + 1 = m + (k + 1) /\ n + 1 \in 1..Len(fr) /\ (n + 1) - 1 = n /\ n \in 0..Len(fr)
    BY <1>0, <2>1, <2>2
  <2>4. Begins(D(m), D(n))
    BY <2>2, <2>3
  <2>5. Assembly(fr)[n + 1] = AddFrame(fr, Assembly(fr)[n], n + 1)
    BY <1>0, <2>3, AssemblyIs
  <2>6. Assembly(fr)[n] \in Acc((n + 1) - 1)
    BY <2>3, AssemblyType
  <2>7. Begins(D(n), D(n + 1))
    BY <2>3, <2>5, <2>6, AddFrameType
  <2>8. Len(D(m)) \in Nat /\ Len(D(n)) \in Nat /\ Len(D(n + 1)) \in Nat
    BY <1>t, <2>3
  <2> HIDE DEF D
  <2>9. Begins(D(m), D(n + 1))
    BY <2>4, <2>7, <2>8 DEF Begins
  <2>10. QED BY <2>3, <2>9
<1> HIDE DEF T
<1>3. T = Nat
  <2>1. T \in SUBSET Nat
    BY DEF T
  <2>2. QED BY <1>1, <1>2, <2>1, SetInduction
<1>4. PICK k \in Nat : m + k = Len(fr)
  BY <1>0
<1>5. k \in T /\ m + k <= Len(fr)
  BY <1>0, <1>3, <1>4
<1>6. QED BY <1>4, <1>5 DEF T

LEMMA SeqIsFunction ==
  ASSUME NEW S, NEW s \in Seq(S)
  PROVE  s = [i \in 1..Len(s) |-> s[i]]
OBVIOUS

(* A message that the session adds. *)
LEMMA PlainAppend ==
  ASSUME NEW ms \in Seq(Message), NEW op \in Ops, NEW ns \in Seq(Nat), NEW b \in BOOLEAN
  PROVE  /\ Plain(Append(ms, [op |-> op, frames |-> ns, fits |-> b])) =
              Append(Plain(ms), [op |-> op, frames |-> ns])
         /\ Append(ms, [op |-> op, frames |-> ns, fits |-> b]) \in Seq(Message)
<1> DEFINE m == [op |-> op, frames |-> ns, fits |-> b]
           p == [op |-> op, frames |-> ns]
           t == Append(ms, m)
           l == Len(ms)
<1>1. m \in Message /\ m.op = op /\ m.frames = ns
  BY DEF Message
<1> HIDE DEF m
<1>2. /\ t \in Seq(Message) /\ DOMAIN t = 1..(l + 1) /\ DOMAIN ms = 1..l /\ l \in Nat
      /\ t[l + 1] = m /\ \A i \in 1..l : t[i] = ms[i]
  BY <1>1
<1> DEFINE S == {p} \cup {[op |-> ms[i].op, frames |-> ms[i].frames] : i \in 1..l}
<1>3. Plain(ms) \in Seq(S) /\ Len(Plain(ms)) = l /\ p \in S
  BY <1>2 DEF Plain
<1> HIDE DEF S, p
<1>4. Plain(t) = [i \in 1..(l + 1) |-> [op |-> t[i].op, frames |-> t[i].frames]]
  BY <1>2 DEF Plain
<1>5. /\ Len(Append(Plain(ms), p)) = l + 1 /\ Append(Plain(ms), p)[l + 1] = p
      /\ \A i \in 1..l : Append(Plain(ms), p)[i] = Plain(ms)[i]
  BY <1>3
<1>6. \A i \in 1..l : Plain(ms)[i] = [op |-> t[i].op, frames |-> t[i].frames]
  BY <1>2 DEF Plain
<1>7. [op |-> t[l + 1].op, frames |-> t[l + 1].frames] = p
  BY <1>1, <1>2 DEF p
<1> HIDE DEF t, l
<1>8. Append(Plain(ms), p) = [i \in 1..(l + 1) |-> Append(Plain(ms), p)[i]]
  <2>1. Append(Plain(ms), p) \in Seq(S)
    BY <1>3
  <2>2. QED BY <1>5, <2>1, SeqIsFunction
<1>9. \A i \in 1..(l + 1) : Append(Plain(ms), p)[i] = [op |-> t[i].op, frames |-> t[i].frames]
  <2>1. \A i \in 1..(l + 1) : i = l + 1 \/ i \in 1..l
    BY <1>2
  <2>2. QED BY <1>5, <1>6, <1>7, <2>1
<1>10. Plain(t) = Append(Plain(ms), p)
  BY <1>4, <1>8, <1>9
<1>11. QED BY <1>2, <1>10 DEF t, m, p
-----------------------------------------------------------------------------
LEMMA ArriveKeeps ==
  ASSUME Buffers, NEW n \in Nat, Arrive(n)
  PROVE  /\ sent' \in Seq(Frames) /\ got' \in Nat /\ 2 * Len(sent') \in {got', got' + 1}
         /\ Begins(sent, sent')
<1> DEFINE frames == (got + n + 1) \div 2
           l == Len(sent)
           k == frames - l
<1>1. sent \in Seq(Frames) /\ got \in Nat /\ l \in Nat /\ 2 * l \in {got, got + 1}
  BY DEF Buffers, InputOK, FragOK, FlagsOK
<1>2. got' = got + n /\ \E new \in [1..k -> Frames] : sent' = sent \o new
  BY DEF Arrive
<1>3. PICK new \in [1..k -> Frames] : sent' = sent \o new
  BY <1>2
<1>4. k \in Nat /\ 2 * (l + k) \in {got + n, got + n + 1}
  <2>1. frames \in Nat /\ 2 * frames \in {got + n, got + n + 1}
    BY <1>1
  <2> HIDE DEF frames, l
  <2>2. QED BY <1>1, <2>1
<1> HIDE DEF k
<1>5. new \in Seq(Frames) /\ Len(new) = k
  BY <1>4
<1>6. sent' \in Seq(Frames) /\ Len(sent') = l + k /\ \A i \in 1..l : sent'[i] = sent[i]
  BY <1>1, <1>3, <1>5
<1> HIDE DEF l
<1>7. QED BY <1>1, <1>2, <1>4, <1>6 DEF Begins, l

(* The frame at the head of the buffer. *)
LEMMA FrameIs ==
  ASSUME Buffers, HasHead
  PROVE  used + 1 \in 1..Len(sent) /\ Frame = sent[used + 1] /\ Frame \in Frames
<1>1. sent \in Seq(Frames) /\ got \in Nat /\ used \in Nat /\ 2 * Len(sent) \in {got, got + 1}
  BY DEF Buffers, InputOK, FragOK, FlagsOK
<1>2. used + 1 \in 1..Len(sent)
  <2>1. Len(sent) \in Nat /\ got > 2 * used
    BY <1>1 DEF HasHead
  <2> DEFINE l == Len(sent)
  <2>2. l \in Nat /\ 2 * l \in {got, got + 1}
    BY <1>1, <2>1
  <2> HIDE DEF l
  <2>3. l > used
    BY <1>1, <2>1, <2>2
  <2>4. QED BY <1>1, <2>2, <2>3 DEF l
<1>3. QED BY <1>1, <1>2 DEF Frame

LEMMA WholeIs ==
  ASSUME Buffers, NEW ops, Whole(ops)
  PROVE  /\ pc = "pump" /\ HasHead /\ Frame.op \in ops /\ used' = used + 1
         /\ used' \in 1..Len(sent) /\ ~failed /\ ~close_recv
<1>1. pc = "pump" /\ HasFrame /\ Frame.op \in ops /\ used' = used + 1
  BY DEF Whole
<1>2. HasHead
  BY <1>1 DEF HasFrame, HasHead, Buffers, InputOK
<1>3. QED BY <1>1, <1>2, FrameIs DEF Buffers, FlagsOK, Waiting

(* The cap holds for what the session takes: the fragments so far and the frame. *)
LEMMA TakenFits ==
  ASSUME Buffers, HasHead, IsData(Frame), ~TooBig(Frame)
  PROVE  /\ SumLen(Append(frag, used + 1)) <= max_msg_bytes
         /\ frag = <<>> => SumLen(<<used + 1>>) <= max_msg_bytes
<1>1. used + 1 \in 1..Len(sent) /\ Frame = sent[used + 1] /\ Frame.len \in Nat
  BY FrameIs, FrameType
<1>2. frag \in Seq(Nat) /\ used + 1 \in Nat /\ max_msg_bytes \in Nat
  BY <1>1 DEF Buffers, InputOK, FragOK, FlagsOK
<1>3. ASSUME NEW i \in 1..Len(frag) PROVE sent[frag[i]].len \in Nat
  <2>1. frag[i] \in 1..Len(sent)
    BY <1>2 DEF Buffers, InputOK, FragOK, FlagsOK
  <2>2. sent[frag[i]] \in Frames
    BY <2>1 DEF Buffers, InputOK, FragOK, FlagsOK
  <2>3. QED BY <2>2, FrameType
<1>4. SumLen(frag) \in Nat
  BY <1>2, <1>3, SumLenNat
<1>5. SumLen(Append(frag, used + 1)) = SumLen(frag) + Frame.len
  BY <1>1, <1>2, SumLenAppend
<1>6. ~(SumLen(frag) > max_msg_bytes) /\ ~(Frame.len > max_msg_bytes - SumLen(frag))
  BY DEF TooBig
<1>7. SumLen(Append(frag, used + 1)) <= max_msg_bytes
  BY <1>1, <1>2, <1>4, <1>5, <1>6
<1>8. frag = <<>> => Append(frag, used + 1) = <<used + 1>>
  BY <1>2
<1>9. QED BY <1>7, <1>8
LEMMA InputStep == Buffers /\ [Next]_vars => InputOK'
<1> SUFFICES ASSUME Buffers, [Next]_vars PROVE InputOK'
  OBVIOUS
<1>0. InputOK
  BY DEF Buffers
<1>1. CASE UNCHANGED <<sent, got, used>>
  BY <1>0, <1>1 DEF InputOK
<1>2. ASSUME NEW n \in Nat, Arrive(n), used' = used PROVE InputOK'
  <2>1. /\ sent' \in Seq(Frames) /\ got' \in Nat /\ 2 * Len(sent') \in {got', got' + 1}
        /\ Len(sent) <= Len(sent')
    BY <1>2, ArriveKeeps DEF Begins
  <2>2. used' \in Nat /\ used' <= Len(sent')
    BY <1>0, <1>2, <2>1 DEF InputOK
  <2>3. QED BY <2>1, <2>2 DEF InputOK
<1>3. ASSUME NEW ops, Whole(ops), UNCHANGED <<sent, got>> PROVE InputOK'
  <2>1. used' = used + 1 /\ used' \in 1..Len(sent)
    BY <1>3, WholeIs
  <2>2. QED BY <1>0, <1>3, <2>1 DEF InputOK
<1>4. \A n \in 0..MaxRead : n \in Nat
  BY WsAssumption
<1>5. CASE ws_accept
  <2>1. used' = used /\ (UNCHANGED <<sent, got>> \/ \E n \in 0..MaxRead : Arrive(n))
    BY <1>5 DEF ws_accept, Begin
  <2>2. QED BY <1>1, <1>2, <1>4, <2>1
<1>6. CASE Reply
  <2>1. used' = used /\ (UNCHANGED <<sent, got>> \/ \E n \in 0..MaxRead : Arrive(n))
    BY <1>6 DEF Reply, Begin
  <2>2. QED BY <1>1, <1>2, <1>4, <2>1
<1>7. CASE Fill
  <2>1. used' = used /\ (UNCHANGED <<sent, got>> \/ \E n \in 0..MaxRead : Arrive(n))
    BY <1>7 DEF Fill, FillReads, FillTimesOut, FillFails
  <2>2. QED BY <1>1, <1>2, <1>4, <2>1
<1>8. CASE \/ UNCHANGED vars \/ DeadlinePasses \/ Dial \/ ws_send_handshake
           \/ ReadHeadFails \/ FreeNow \/ CloseTop \/ Send("data") \/ Send("ping")
           \/ CloseCall("close") \/ CloseCall("free")
           \/ Recv("recv") \/ Recv("recv deadline") \/ \E cap \in Caps : SetMaxMsgBytes(cap)
  BY <1>1, <1>8 DEF vars, DeadlinePasses, Dial, ws_send_handshake, ReadHeadFails,
     FreeNow, CloseTop, CloseCall, Send, Recv, SetMaxMsgBytes
<1>9. CASE Pump
  <2>1. CASE PumpReject \/ PumpMore
    BY <1>1, <2>1 DEF PumpReject, PumpMore
  <2>2. CASE PumpPing
    BY <1>3, <2>2 DEF PumpPing
  <2>3. CASE PumpClose
    BY <1>3, <2>3 DEF PumpClose
  <2>4. CASE PumpData
    BY <1>3, <2>4 DEF PumpData
  <2>5. CASE PumpCont
    BY <1>3, <2>5 DEF PumpCont
  <2>6. QED BY <1>9, <2>1, <2>2, <2>3, <2>4, <2>5 DEF Pump
<1>10. QED BY <1>5, <1>6, <1>7, <1>8, <1>9 DEF Next

LEMMA FlagsStep == Buffers /\ [Next]_vars => FlagsOK'
<1> SUFFICES ASSUME Buffers, [Next]_vars PROVE FlagsOK'
  OBVIOUS
<1>0. FlagsOK
  BY DEF Buffers
<1>1. CASE UNCHANGED <<failed, close_recv, max_msg_bytes>> /\ (pc' \in Waiting => pc \in Waiting)
  BY <1>0, <1>1 DEF FlagsOK
<1>2. CASE /\ pc' \notin Waiting /\ max_msg_bytes' = max_msg_bytes
           /\ failed' \in BOOLEAN /\ close_recv' \in BOOLEAN
  BY <1>0, <1>2 DEF FlagsOK
<1>3. ASSUME PumpReturns PROVE pc' \notin Waiting
  BY <1>3 DEF PumpReturns, Return, Waiting
<1>4. CASE \/ UNCHANGED vars \/ DeadlinePasses \/ ws_accept \/ Dial \/ ws_send_handshake
           \/ ReadHeadFails \/ Reply \/ FreeNow \/ Send("data") \/ Send("ping")
  BY <1>1, <1>4 DEF vars, DeadlinePasses, ws_accept, Begin, Dial, ws_send_handshake,
     ReadHeadFails, Reply, FreeNow, Send, Waiting
<1>5. CASE CloseTop \/ FillReads \/ FillTimesOut \/ PumpMore
  <2>1. UNCHANGED <<failed, close_recv, max_msg_bytes>> /\ pc \in Waiting
    BY <1>5 DEF CloseTop, FillReads, FillTimesOut, PumpMore, Waiting
  <2>2. QED BY <1>1, <2>1
<1>6. CASE Recv("recv") \/ Recv("recv deadline")
  <2>1. UNCHANGED <<failed, close_recv, max_msg_bytes>> /\ ~failed /\ ~close_recv
    BY <1>6 DEF Recv
  <2>2. QED BY <1>0, <2>1 DEF FlagsOK
<1>7. ASSUME NEW cap \in Caps, SetMaxMsgBytes(cap) PROVE FlagsOK'
  <2>1. cap \in Nat
    BY WsAssumption
  <2>2. QED BY <1>0, <1>7, <2>1 DEF SetMaxMsgBytes, FlagsOK, Waiting
<1>8. ASSUME NEW kind \in {"close", "free"}, CloseCall(kind) PROVE FlagsOK'
  <2>1. UNCHANGED <<close_recv, max_msg_bytes>> /\ pc = "idle"
    BY <1>8 DEF CloseCall
  <2>2. CASE failed' = failed /\ pc' = (IF close_recv THEN pc ELSE "top") /\ ~failed
    BY <1>0, <2>1, <2>2 DEF FlagsOK, Waiting
  <2>3. CASE failed' = TRUE /\ pc' = (IF kind = "free" THEN "gone" ELSE "idle")
    <3>1. pc' \notin Waiting
      BY <2>3 DEF Waiting
    <3>2. failed' \in BOOLEAN /\ close_recv' \in BOOLEAN
      BY <1>0, <2>1, <2>3 DEF FlagsOK
    <3>3. QED BY <1>2, <2>1, <3>1, <3>2
  <2>4. CASE failed' = failed /\ pc' = "top" /\ ~close_recv /\ ~failed
    BY <1>0, <2>1, <2>4 DEF FlagsOK
  <2>5. QED BY <1>8, <2>2, <2>3, <2>4 DEF CloseCall
<1>9. CASE FillFails
  <2>1. pc' \notin Waiting
    BY <1>3, <1>9 DEF FillFails
  <2>2. failed' \in BOOLEAN
    <3>1. Closing \in BOOLEAN
      BY DEF Closing
    <3>2. failed' = TRUE \/ failed' = Closing
      BY <1>9 DEF FillFails
    <3>3. QED BY <3>1, <3>2
  <2>3. UNCHANGED <<close_recv, max_msg_bytes>>
    BY <1>9 DEF FillFails
  <2>4. close_recv' \in BOOLEAN
    BY <1>0, <2>3 DEF FlagsOK
  <2>5. QED BY <1>2, <2>1, <2>2, <2>3, <2>4
<1>10. CASE PumpReject \/ PumpPing \/ PumpClose \/ PumpData \/ PumpCont
  <2>0. failed \in BOOLEAN /\ close_recv \in BOOLEAN
    BY <1>0 DEF FlagsOK
  <2>1. max_msg_bytes' = max_msg_bytes /\ pc = "pump" /\ pc \in Waiting
    BY <1>10 DEF PumpReject, PumpPing, PumpClose, PumpData, PumpCont, Whole, Waiting
  <2>2. close_recv' \in BOOLEAN
    BY <1>10, <2>0 DEF PumpReject, PumpPing, PumpClose, PumpData, PumpCont
  <2>3. CASE UNCHANGED <<failed, close_recv>>
    BY <1>1, <2>1, <2>3
  <2>4. CASE PumpReturns /\ failed' \in {TRUE, failed, failed \/ Closing}
    <3>1. failed' \in BOOLEAN
      BY <2>0, <2>4 DEF Closing
    <3>2. QED BY <1>2, <1>3, <2>1, <2>2, <2>4, <3>1
  <2>5. CASE PumpReject
    BY <2>4, <2>5 DEF PumpReject, ws_protocol_fail
  <2>6. CASE PumpPing
    BY <2>3, <2>4, <2>6 DEF PumpPing
  <2>7. CASE PumpClose
    BY <2>4, <2>7 DEF PumpClose
  <2>8. CASE PumpData
    <3>1. close_recv' = close_recv
      BY <2>8 DEF PumpData
    <3>2. failed' = failed \/ EmitFails
      BY <2>8 DEF PumpData, Emit
    <3>3. QED BY <2>3, <2>4, <3>1, <3>2 DEF EmitFails
  <2>9. CASE PumpCont
    <3>1. close_recv' = close_recv
      BY <2>9 DEF PumpCont
    <3>2. failed' = failed \/ EmitFails \/ ws_protocol_fail
      BY <2>9 DEF PumpCont, Emit
    <3>3. QED BY <2>3, <2>4, <3>1, <3>2 DEF EmitFails, ws_protocol_fail
  <2>10. QED BY <1>10, <2>5, <2>6, <2>7, <2>8, <2>9
<1>11. QED
  BY <1>4, <1>5, <1>6, <1>7, <1>8, <1>9, <1>10 DEF Next, Pump, Fill
(* The fragments with one more frame, the next one. *)
LEMMA FragAppend ==
  ASSUME FragOK, InputOK
  PROVE  /\ Append(frag, used + 1) \in Seq(Nat)
         /\ \A i \in 1..Len(Append(frag, used + 1)) : Append(frag, used + 1)[i] \in 1..(used + 1)
<1>1. frag \in Seq(Nat) /\ used \in Nat /\ \A i \in 1..Len(frag) : frag[i] \in 1..used
  BY DEF FragOK, InputOK
<1>2. ASSUME NEW i \in 1..Len(Append(frag, used + 1)) PROVE Append(frag, used + 1)[i] \in 1..(used + 1)
  <2>1. /\ i \in 1..(Len(frag) + 1)
        /\ Append(frag, used + 1)[i] = (IF i = Len(frag) + 1 THEN used + 1 ELSE frag[i])
    BY <1>1
  <2>2. i # Len(frag) + 1 => frag[i] \in 1..used
    BY <1>1, <2>1
  <2>3. QED BY <1>1, <2>1, <2>2
<1>3. QED BY <1>1, <1>2

LEMMA FragStep == Buffers /\ [Next]_vars => FragOK'
<1> SUFFICES ASSUME Buffers, [Next]_vars PROVE FragOK'
  OBVIOUS
<1>0. FragOK /\ InputOK
  BY DEF Buffers
<1>1. ASSUME used' \in {used, used + 1}, frag' = frag, cur_opcode' \in Ops,
             frag_active' = TRUE \/ frag_active' = frag_active
      PROVE  FragOK'
  <2>1. used \in Nat /\ used' \in Nat /\ used <= used'
    BY <1>0, <1>1 DEF InputOK
  <2>2. \A i \in 1..Len(frag') : frag'[i] \in 1..used'
    BY <1>0, <1>1, <2>1 DEF FragOK
  <2>3. frag' \in Seq(Nat) /\ frag_active' \in BOOLEAN
    BY <1>0, <1>1 DEF FragOK
  <2>4. ~frag_active' => frag' = <<>>
    <3>1. ~frag_active => frag = <<>>
      BY <1>0 DEF FragOK
    <3>2. QED BY <1>1, <3>1
  <2>5. QED BY <1>1, <2>2, <2>3, <2>4 DEF FragOK
<1>2. CASE UNCHANGED <<frag, frag_active, cur_opcode, used>>
  BY <1>0, <1>1, <1>2 DEF FragOK
<1>3. ASSUME used' = used + 1, frag' = Append(frag, used + 1), frag_active' = TRUE, cur_opcode' \in Ops
      PROVE  FragOK'
  BY <1>0, <1>3, FragAppend DEF FragOK
<1>4. CASE \/ UNCHANGED vars \/ DeadlinePasses \/ Dial \/ ws_send_handshake
           \/ ReadHeadFails \/ FreeNow \/ CloseTop \/ Send("data") \/ Send("ping")
           \/ CloseCall("close") \/ CloseCall("free") \/ ws_accept \/ Reply
           \/ Recv("recv") \/ Recv("recv deadline") \/ \E cap \in Caps : SetMaxMsgBytes(cap)
  BY <1>2, <1>4 DEF vars, DeadlinePasses, Dial, ws_send_handshake, ReadHeadFails,
     FreeNow, CloseTop, CloseCall, Send, Recv, SetMaxMsgBytes, ws_accept, Reply
<1>5. CASE Fill \/ PumpReject \/ PumpMore
  BY <1>2, <1>5 DEF Fill, FillReads, FillTimesOut, FillFails, PumpReject, PumpMore
<1>6. CASE PumpPing \/ PumpClose
  <2>1. UNCHANGED <<frag, frag_active, cur_opcode>> /\ used' = used + 1
    BY <1>6 DEF PumpPing, PumpClose, Whole
  <2>2. QED BY <1>0, <1>1, <2>1 DEF FragOK
<1>7. CASE PumpData
  <2>1. used' = used + 1 /\ HasHead
    BY <1>7, WholeIs DEF PumpData
  <2>2. Frame.op \in Ops
    BY <2>1, FrameIs, FrameType
  <2>3. CASE UNCHANGED <<frag, frag_active, cur_opcode>>
    BY <1>0, <1>1, <2>1, <2>3 DEF FragOK
  <2>4. CASE frag_active' = TRUE /\ cur_opcode' = Frame.op /\ frag' = Append(frag, used + 1)
    BY <1>3, <2>1, <2>2, <2>4
  <2>5. CASE frag_active' = TRUE /\ cur_opcode' = Frame.op /\ frag' = frag
    BY <1>1, <2>1, <2>2, <2>5
  <2>6. QED BY <1>7, <2>3, <2>4, <2>5 DEF PumpData
<1>8. CASE PumpCont
  <2>1. used' = used + 1 /\ frag_active
    BY <1>8, WholeIs DEF PumpCont
  <2>2. CASE frag' = <<>> /\ frag_active' = FALSE /\ cur_opcode' = cur_opcode
    <3>1. cur_opcode' \in Ops
      BY <1>0, <2>2 DEF FragOK
    <3>2. frag' \in Seq(Nat) /\ Len(frag') = 0
      BY <2>2
    <3>3. frag_active' \in BOOLEAN /\ frag' = <<>>
      BY <2>2
    <3>4. QED BY <3>1, <3>2, <3>3 DEF FragOK
  <2>3. CASE frag' = Append(frag, used + 1) /\ UNCHANGED <<frag_active, cur_opcode>>
    <3>1. frag_active' = TRUE /\ cur_opcode' \in Ops
      BY <1>0, <2>1, <2>3 DEF FragOK
    <3>2. QED BY <1>3, <2>1, <2>3, <3>1
  <2>4. CASE UNCHANGED <<frag, frag_active, cur_opcode>>
    BY <1>0, <1>1, <2>1, <2>4 DEF FragOK
  <2>5. QED BY <1>8, <2>2, <2>3, <2>4 DEF PumpCont
<1>9. QED
  BY <1>4, <1>5, <1>6, <1>7, <1>8 DEF Next, Pump

(* A message the session hands over: it fits, and it is the message of the frames. *)
LEMMA EmitKeeps ==
  ASSUME MessagesOK, NEW op \in Ops, NEW ns \in Seq(Nat), Emit(op, ns), SumLen(ns) <= max_msg_bytes
  PROVE  /\ MessagesOK' /\ Plain(messages') = Append(Plain(messages), [op |-> op, frames |-> ns])
         /\ oom' = oom /\ failed' = failed
<1>1. /\ messages' = Append(messages, [op |-> op, frames |-> ns, fits |-> SumLen(ns) <= max_msg_bytes])
      /\ oom' = oom /\ failed' = failed
  BY DEF Emit
<1>2. (SumLen(ns) <= max_msg_bytes) = TRUE
  OBVIOUS
<1> DEFINE m == [op |-> op, frames |-> ns, fits |-> TRUE]
<1>3. messages' = Append(messages, m)
  BY <1>1, <1>2
<1>4. messages \in Seq(Message)
  BY DEF MessagesOK
<1>5. messages' \in Seq(Message) /\ Plain(messages') = Append(Plain(messages), [op |-> op, frames |-> ns])
  BY <1>3, <1>4, PlainAppend
<1>6. m \in Message /\ m.fits
  BY DEF Message
<1> HIDE DEF m
<1>7. \A i \in 1..Len(messages') : messages'[i].fits
  <2>1. /\ Len(messages') = Len(messages) + 1 /\ messages'[Len(messages) + 1] = m
        /\ \A i \in 1..Len(messages) : messages'[i] = messages[i]
    BY <1>3, <1>4, <1>6
  <2>2. \A i \in 1..(Len(messages) + 1) : i = Len(messages) + 1 \/ i \in 1..Len(messages)
    BY <1>4
  <2>3. QED BY <1>6, <2>1, <2>2 DEF MessagesOK
<1>8. QED BY <1>1, <1>5, <1>7 DEF MessagesOK

(* What a data frame that ends its message does. *)
LEMMA DataEmits ==
  ASSUME Buffers, PumpData, Emit(Frame.op, <<used + 1>>)
  PROVE  /\ MessagesOK' /\ oom' = oom /\ failed' = failed
         /\ Plain(messages') = Append(Plain(messages), [op |-> Frame.op, frames |-> <<used + 1>>])
<1>1. Frame.op \in {"text", "bin"} /\ HasHead /\ ~TooBig(Frame) /\ frag = <<>>
  <2>1. Whole({"text", "bin"}) /\ ~TooBig(Frame) /\ ~frag_active
    BY DEF PumpData
  <2>2. QED BY <2>1, WholeIs DEF Buffers, FragOK
<1>2. SumLen(<<used + 1>>) <= max_msg_bytes
  BY <1>1, TakenFits DEF IsData
<1>3. Frame.op \in Ops /\ <<used + 1>> \in Seq(Nat) /\ MessagesOK
  BY <1>1 DEF Ops, Buffers, InputOK
<1>4. QED BY <1>2, <1>3, EmitKeeps

LEMMA ContEmits ==
  ASSUME Buffers, PumpCont, Emit(cur_opcode, Append(frag, used + 1))
  PROVE  /\ MessagesOK' /\ oom' = oom /\ failed' = failed
         /\ Plain(messages') =
              Append(Plain(messages), [op |-> cur_opcode, frames |-> Append(frag, used + 1)])
<1>1. Frame.op = "cont" /\ HasHead /\ ~TooBig(Frame)
  <2>1. Whole({"cont"}) /\ ~TooBig(Frame)
    BY DEF PumpCont
  <2>2. QED BY <2>1, WholeIs
<1>2. SumLen(Append(frag, used + 1)) <= max_msg_bytes
  BY <1>1, TakenFits DEF IsData
<1>3. cur_opcode \in Ops /\ Append(frag, used + 1) \in Seq(Nat) /\ MessagesOK
  BY FragAppend DEF Buffers, FragOK
<1>4. QED BY <1>2, <1>3, EmitKeeps

LEMMA MessagesOKStep == Buffers /\ [Next]_vars => MessagesOK'
<1> SUFFICES ASSUME Buffers, [Next]_vars PROVE MessagesOK'
  OBVIOUS
<1>1. CASE messages' = messages
  BY <1>1 DEF MessagesOK, Buffers
<1>2. CASE \/ UNCHANGED vars \/ DeadlinePasses \/ Dial \/ ws_send_handshake
           \/ ReadHeadFails \/ FreeNow \/ CloseTop \/ Send("data") \/ Send("ping")
           \/ CloseCall("close") \/ CloseCall("free") \/ ws_accept \/ Reply
           \/ Recv("recv") \/ Recv("recv deadline") \/ \E cap \in Caps : SetMaxMsgBytes(cap)
  BY <1>1, <1>2 DEF vars, DeadlinePasses, Dial, ws_send_handshake, ReadHeadFails,
     FreeNow, CloseTop, CloseCall, Send, Recv, SetMaxMsgBytes, ws_accept, Reply
<1>3. CASE Fill \/ PumpReject \/ PumpMore \/ PumpPing \/ PumpClose
  BY <1>1, <1>3 DEF Fill, FillReads, FillTimesOut, FillFails, PumpReject, PumpMore,
     PumpPing, PumpClose
<1>4. CASE PumpData
  <2>1. Emit(Frame.op, <<used + 1>>) \/ EmitFails \/ messages' = messages
    BY <1>4 DEF PumpData
  <2>2. QED BY <1>1, <1>4, <2>1, DataEmits DEF EmitFails
<1>5. CASE PumpCont
  <2>1. Emit(cur_opcode, Append(frag, used + 1)) \/ EmitFails \/ messages' = messages
    BY <1>5 DEF PumpCont
  <2>2. QED BY <1>1, <1>5, <2>1, ContEmits DEF EmitFails
<1>6. QED
  BY <1>2, <1>3, <1>4, <1>5 DEF Next, Pump
-----------------------------------------------------------------------------
(* A step that consumes no frame keeps the comparison with the reference, also when
   frames arrive. *)
LEMMA AssembledArrives ==
  ASSUME Buffers, Assembled, Begins(sent, sent'), sent' \in Seq(Frames),
         UNCHANGED <<used, frag, frag_active, cur_opcode, messages, oom>>,
         ~failed' /\ ~close_recv' => ~failed /\ ~close_recv
  PROVE  Assembled'
<1>1. sent \in Seq(Frames) /\ used \in 0..Len(sent)
  BY DEF Buffers, InputOK
<1>2. Assembly(sent')[used'] = Assembly(sent)[used]
  BY <1>1, AssemblyExtends
<1>3. frag # <<>> => sent'[frag[1]] = sent[frag[1]]
  <2>1. frag # <<>> => frag[1] \in 1..Len(sent)
    <3>1. frag \in Seq(Nat) /\ \A i \in 1..Len(frag) : frag[i] \in 1..used
      BY DEF Buffers, FragOK
    <3>2. frag # <<>> => 1 \in 1..Len(frag)
      BY <3>1
    <3>3. QED BY <1>1, <3>1, <3>2
  <2>2. QED BY <2>1 DEF Begins
<1>4. QED BY <1>2, <1>3 DEF Assembled

(* The reference and the frame that the session consumes. *)
LEMMA NextAcc ==
  ASSUME Buffers, Assembled, NEW ops, Whole(ops), sent' = sent, ~oom
  PROVE  /\ Assembly(sent')[used'] = AddFrame(sent, Assembly(sent)[used], used + 1)
         /\ Assembly(sent)[used] \in Acc(used) /\ ~Assembly(sent)[used].over
         /\ Assembly(sent)[used].open = frag /\ Plain(messages) = Assembly(sent)[used].done
         /\ Frame = sent[used + 1] /\ Frame.op \in ops
         /\ frag_active => frag # <<>> /\ cur_opcode = sent[frag[1]].op
<1>1. /\ used' = used + 1 /\ used + 1 \in 1..Len(sent) /\ Frame.op \in ops
      /\ ~failed /\ ~close_recv /\ HasHead
  BY WholeIs
<1>2. sent \in Seq(Frames) /\ Len(sent) \in Nat /\ used \in 0..Len(sent) /\ used + 1 - 1 = used
  BY DEF Buffers, InputOK
<1>3. Assembly(sent)[used + 1] = AddFrame(sent, Assembly(sent)[used], used + 1)
  BY <1>1, <1>2, AssemblyIs
<1>4. Assembly(sent)[used] \in Acc(used)
  BY <1>2, AssemblyType
<1>5. QED BY <1>1, <1>3, <1>4 DEF Assembled, Frame

LEMMA AssembledPing == Buffers /\ Assembled /\ (PumpPing \/ PumpClose) => Assembled'
<1> SUFFICES ASSUME Buffers, Assembled, PumpPing \/ PumpClose, ~oom' PROVE Assembled'
  BY DEF Assembled
<1>1. UNCHANGED <<sent, frag, frag_active, cur_opcode, messages, oom>>
  BY DEF PumpPing, PumpClose
<1> DEFINE acc == Assembly(sent)[used]
<1>2. CASE PumpPing
  <2>1. Whole({"ping", "pong"})
    BY <1>2 DEF PumpPing
  <2>2. Assembly(sent')[used'] = acc
    BY <1>1, <2>1, NextAcc, AddControl
  <2> HIDE DEF acc
  <2>3. QED BY <1>1, <2>1, <2>2, WholeIs DEF Assembled, acc
<1>3. CASE PumpClose
  <2>1. Whole({"close"}) /\ close_recv'
    BY <1>3 DEF PumpClose
  <2>2. Assembly(sent')[used'] = AddFrame(sent, acc, used + 1) /\ ~acc.over /\ sent[used + 1].op = "close"
    BY <1>1, <2>1, NextAcc
  <2>3. Assembly(sent')[used'] = [done |-> acc.done, open |-> acc.open, over |-> TRUE]
    <3>1. ~IsData(sent[used + 1]) /\ sent[used + 1].op \notin {"ping", "pong"}
      BY <2>2 DEF IsData
    <3> HIDE DEF acc
    <3>2. QED BY <2>2, <3>1, AddBad
  <2>4. Assembly(sent')[used'].done = acc.done
    BY <2>3
  <2> HIDE DEF acc
  <2>5. QED BY <1>1, <2>1, <2>4 DEF Assembled, acc
<1>4. QED BY <1>2, <1>3

LEMMA AssembledData == Buffers /\ Assembled /\ PumpData => Assembled'
<1> SUFFICES ASSUME Buffers, Assembled, PumpData, ~oom' PROVE Assembled'
  BY DEF Assembled
<1> DEFINE acc == Assembly(sent)[used]
           n == used + 1
<1>1. Whole({"text", "bin"}) /\ ~frag_active /\ sent' = sent /\ used' = n /\ ~oom
  BY DEF PumpData, Whole, Emit, EmitFails
<1>2. frag = <<>> /\ used \in Nat /\ close_recv' = close_recv
  BY <1>1 DEF Buffers, FragOK, InputOK, PumpData
<1>3. /\ Assembly(sent')[used'] = AddFrame(sent, acc, n) /\ ~acc.over /\ acc.open = <<>>
      /\ Plain(messages) = acc.done /\ sent[n] = Frame /\ Frame.op \in {"text", "bin"}
  BY <1>1, <1>2, NextAcc
<1> HIDE DEF acc
<1>4. IsData(sent[n]) /\ InPlace(sent, acc, n) /\ Append(acc.open, n) = <<n>>
  BY <1>2, <1>3 DEF IsData, InPlace
<1>5. WholeOf(sent, acc, n) = [op |-> Frame.op, frames |-> <<n>>]
  BY <1>3, <1>4 DEF WholeOf
<1>6. CASE /\ Frame.fin /\ (Frame.op = "text" => Frame.ok) /\ Emit(Frame.op, <<n>>)
           /\ UNCHANGED <<frag, frag_active, cur_opcode>>
  <2>1. ValidOf(sent, acc, n)
    <3>1. \A i \in DOMAIN <<n>> : sent[<<n>>[i]] = Frame
      BY <1>3
    <3>2. QED BY <1>5, <1>6, <3>1 DEF ValidOf
  <2>2. Assembly(sent')[used'] =
          [done |-> Append(acc.done, WholeOf(sent, acc, n)), open |-> <<>>, over |-> FALSE]
    <3>1. sent[n].fin
      BY <1>3, <1>6
    <3> HIDE DEF n
    <3>2. QED BY <1>3, <1>4, <2>1, <3>1, AddLast
  <2>3. Plain(messages') = Append(Plain(messages), [op |-> Frame.op, frames |-> <<n>>])
    BY <1>6, DataEmits
  <2>4. /\ Assembly(sent')[used'].done = Append(acc.done, WholeOf(sent, acc, n))
        /\ Assembly(sent')[used'].open = <<>> /\ ~Assembly(sent')[used'].over
    BY <2>2
  <2>5. QED BY <1>1, <1>2, <1>3, <1>5, <1>6, <2>3, <2>4 DEF Assembled
<1>7. CASE /\ ~Frame.fin /\ frag_active' = TRUE /\ cur_opcode' = Frame.op
           /\ frag' = Append(frag, n) /\ UNCHANGED <<messages, oom, failed>>
  <2>1. Assembly(sent')[used'] = [done |-> acc.done, open |-> Append(acc.open, n), over |-> FALSE]
    <3>1. ~sent[n].fin
      BY <1>3, <1>7
    <3> HIDE DEF n
    <3>2. QED BY <1>3, <1>4, <3>1, AddFragment
  <2>2. /\ Assembly(sent')[used'].done = acc.done
        /\ Assembly(sent')[used'].open = <<n>> /\ ~Assembly(sent')[used'].over
    BY <1>4, <2>1
  <2>3. frag' = <<n>> /\ frag' # <<>> /\ frag'[1] = n
    BY <1>2, <1>3, <1>4, <1>7
  <2>4. Plain(messages') = Plain(messages) /\ cur_opcode' = sent'[frag'[1]].op
    BY <1>1, <1>3, <1>7, <2>3
  <2>5. QED BY <1>3, <2>2, <2>3, <2>4 DEF Assembled
<1>8. ~EmitFails
  BY DEF EmitFails
<1>9. QED BY <1>6, <1>7, <1>8 DEF PumpData

LEMMA AssembledCont == Buffers /\ Assembled /\ PumpCont => Assembled'
<1> SUFFICES ASSUME Buffers, Assembled, PumpCont, ~oom' PROVE Assembled'
  BY DEF Assembled
<1> DEFINE acc == Assembly(sent)[used]
           n == used + 1
           ns == Append(frag, n)
           valid == cur_opcode = "text" => \A i \in DOMAIN ns : sent[ns[i]].ok
<1>1. Whole({"cont"}) /\ frag_active /\ sent' = sent /\ used' = n /\ ~oom
  <2>1. Whole({"cont"}) /\ frag_active /\ sent' = sent
    BY DEF PumpCont
  <2>2. oom' = oom \/ oom' = TRUE
    BY DEF PumpCont, Emit, EmitFails
  <2>3. QED BY <2>1, <2>2 DEF Whole
<1>2. close_recv' = close_recv
  BY DEF PumpCont
<1>3. /\ Assembly(sent')[used'] = AddFrame(sent, acc, n) /\ ~acc.over /\ acc.open = frag
      /\ Plain(messages) = acc.done /\ sent[n] = Frame /\ Frame.op = "cont"
      /\ frag # <<>> /\ cur_opcode = sent[frag[1]].op
  BY <1>1, NextAcc
<1> HIDE DEF acc
<1>4. IsData(sent[n]) /\ InPlace(sent, acc, n)
  BY <1>3 DEF IsData, InPlace
<1>5. WholeOf(sent, acc, n) = [op |-> cur_opcode, frames |-> ns]
  BY <1>3 DEF WholeOf
<1>6. ValidOf(sent, acc, n) <=> valid
  <2>1. WholeOf(sent, acc, n).op = cur_opcode /\ WholeOf(sent, acc, n).frames = ns
    BY <1>5
  <2> HIDE DEF ns
  <2>2. QED BY <2>1 DEF ValidOf
<1>7. CASE Frame.fin /\ valid /\ Emit(cur_opcode, ns) /\ frag' = <<>> /\ frag_active' = FALSE
  <2>1. Assembly(sent')[used'] =
          [done |-> Append(acc.done, WholeOf(sent, acc, n)), open |-> <<>>, over |-> FALSE]
    <3>1. sent[n].fin /\ ValidOf(sent, acc, n)
      BY <1>3, <1>6, <1>7
    <3> HIDE DEF n, ns, valid
    <3>2. QED BY <1>3, <1>4, <3>1, AddLast
  <2>2. Plain(messages') = Append(Plain(messages), [op |-> cur_opcode, frames |-> ns])
    BY <1>7, ContEmits
  <2>3. /\ Assembly(sent')[used'].done = Append(acc.done, WholeOf(sent, acc, n))
        /\ Assembly(sent')[used'].open = <<>> /\ ~Assembly(sent')[used'].over
    BY <2>1
  <2> HIDE DEF ns, valid, n
  <2>4. QED BY <1>3, <1>5, <1>7, <2>2, <2>3 DEF Assembled
<1>8. CASE Frame.fin /\ ~valid /\ ws_protocol_fail /\ messages' = messages
  <2>1. sent[n].fin /\ ~ValidOf(sent, acc, n) /\ sent[n].op \notin {"ping", "pong"}
    BY <1>3, <1>6, <1>8
  <2>2. Assembly(sent')[used'] = [done |-> acc.done, open |-> acc.open, over |-> TRUE]
    <3> HIDE DEF n, ns, valid
    <3>1. QED BY <1>3, <2>1, AddBad
  <2>3. Assembly(sent')[used'].done = acc.done
    BY <2>2
  <2>4. failed' /\ Plain(messages') = Plain(messages)
    BY <1>8 DEF ws_protocol_fail
  <2> HIDE DEF ns, valid, n
  <2>5. QED BY <1>3, <2>3, <2>4 DEF Assembled
<1>9. CASE /\ ~Frame.fin /\ frag' = ns
           /\ UNCHANGED <<frag_active, cur_opcode, messages>>
  <2>1. Assembly(sent')[used'] = [done |-> acc.done, open |-> ns, over |-> FALSE]
    <3>1. ~sent[n].fin /\ Append(acc.open, n) = ns
      BY <1>3, <1>9
    <3> HIDE DEF n, ns, valid
    <3>2. QED BY <1>3, <1>4, <3>1, AddFragment
  <2>2. /\ Assembly(sent')[used'].done = acc.done
        /\ Assembly(sent')[used'].open = ns /\ ~Assembly(sent')[used'].over
    BY <2>1
  <2>3. frag \in Seq(Nat) /\ n \in Nat
    BY DEF Buffers, FragOK, InputOK
  <2>4. ns # <<>> /\ ns[1] = frag[1]
    BY <1>3, <2>3
  <2>5. Plain(messages') = Plain(messages) /\ cur_opcode' = sent'[frag'[1]].op
    BY <1>1, <1>3, <1>9, <2>4
  <2> HIDE DEF ns, valid, n
  <2>6. QED BY <1>3, <1>9, <2>2, <2>4, <2>5 DEF Assembled
<1>10. ~EmitFails
  BY DEF EmitFails
<1>11. QED BY <1>7, <1>8, <1>9, <1>10 DEF PumpCont

LEMMA AssembledStep == MessagesInv /\ [Next]_vars => Assembled'
<1> SUFFICES ASSUME Buffers, Assembled, [Next]_vars PROVE Assembled'
  BY DEF MessagesInv
<1>0. sent \in Seq(Frames) /\ failed \in BOOLEAN /\ close_recv \in BOOLEAN
  BY DEF Buffers, InputOK, FlagsOK
<1>1. ASSUME UNCHANGED <<sent, used, frag, frag_active, cur_opcode, messages, oom>>,
             ~failed' /\ ~close_recv' => ~failed /\ ~close_recv
      PROVE  Assembled'
  <2>1. Begins(sent, sent') /\ sent' \in Seq(Frames)
    BY <1>0, <1>1 DEF Begins
  <2>2. QED BY <1>1, <2>1, AssembledArrives
<1>2. ASSUME UNCHANGED <<used, frag, frag_active, cur_opcode, messages, oom, failed, close_recv>>,
             sent' = sent \/ \E k \in 0..MaxRead : Arrive(k)
      PROVE  Assembled'
  <2>1. ASSUME NEW k \in 0..MaxRead, Arrive(k) PROVE Assembled'
    <3>1. k \in Nat
      BY WsAssumption
    <3>2. Begins(sent, sent') /\ sent' \in Seq(Frames)
      BY <2>1, <3>1, ArriveKeeps
    <3>3. QED BY <1>2, <3>2, AssembledArrives
  <2>2. QED BY <1>1, <1>2, <2>1
<1>3. CASE ws_accept \/ Reply \/ FillReads
  BY <1>2, <1>3 DEF ws_accept, Reply, FillReads, Begin
<1>4. CASE \/ UNCHANGED vars \/ DeadlinePasses \/ Dial \/ ws_send_handshake
           \/ ReadHeadFails \/ FreeNow \/ CloseTop \/ Send("data") \/ Send("ping")
           \/ Recv("recv") \/ Recv("recv deadline") \/ \E cap \in Caps : SetMaxMsgBytes(cap)
           \/ FillTimesOut \/ PumpMore
  BY <1>2, <1>4 DEF vars, DeadlinePasses, Dial, ws_send_handshake, ReadHeadFails,
     FreeNow, CloseTop, Send, Recv, SetMaxMsgBytes, FillTimesOut, PumpMore
<1>5. CASE CloseCall("close") \/ CloseCall("free")
  <2>1. /\ UNCHANGED <<sent, used, frag, frag_active, cur_opcode, messages, oom, close_recv>>
        /\ ~failed
    BY <1>5 DEF CloseCall
  <2>2. QED BY <1>1, <2>1
<1>6. CASE PumpReject
  <2>1. UNCHANGED <<sent, used, frag, frag_active, cur_opcode, messages, oom>> /\ failed'
    BY <1>6 DEF PumpReject, ws_protocol_fail
  <2>2. QED BY <1>1, <2>1
<1>7. CASE FillFails
  <2>1. /\ UNCHANGED <<sent, used, frag, frag_active, cur_opcode, messages>>
        /\ oom' = oom \/ oom' = TRUE
        /\ pc \in Waiting
    BY <1>7 DEF FillFails, Waiting
  <2>2. CASE oom' = oom
    BY <1>1, <2>1, <2>2 DEF Buffers, FlagsOK
  <2>3. CASE oom' = TRUE
    BY <2>3 DEF Assembled
  <2>4. QED BY <2>1, <2>2, <2>3
<1>8. QED
  BY <1>3, <1>4, <1>5, <1>6, <1>7, AssembledPing, AssembledData, AssembledCont DEF Next, Pump, Fill

-----------------------------------------------------------------------------
LEMMA MessagesInit == Init => MessagesInv
<1> SUFFICES ASSUME Init PROVE MessagesInv
  OBVIOUS
<1>1. Max(Caps) \in Nat
  <2>1. \E max \in Caps : \A cap \in Caps : cap <= max
    BY WsAssumption
  <2>2. PICK max \in Caps : \A cap \in Caps : max >= cap
    BY <2>1, WsAssumption
  <2>3. Max(Caps) \in Caps
    BY <2>2 DEF Max
  <2>4. QED BY <2>3, WsAssumption
<1>2. /\ sent = <<>> /\ got = 0 /\ used = 0 /\ frag = <<>> /\ ~frag_active /\ cur_opcode = "none"
      /\ messages = <<>> /\ max_msg_bytes = Max(Caps)
  BY DEF Init
<1>3. InputOK
  BY <1>2 DEF InputOK
<1>4. FragOK
  <2>1. frag_active \in BOOLEAN
    BY DEF Init
  <2>2. QED BY <1>2, <2>1 DEF FragOK, Ops
<1>5. FlagsOK
  <2>1. failed \in BOOLEAN /\ close_recv \in BOOLEAN /\ ~failed /\ ~close_recv
    BY DEF Init
  <2>2. QED BY <1>1, <1>2, <2>1 DEF FlagsOK
<1>6. MessagesOK
  BY <1>2 DEF MessagesOK
<1>7. Assembled
  <2>1. Assembly(sent)[used] = NoFrames
    BY <1>2, AssemblyIs
  <2>2. Plain(messages) = <<>>
    BY <1>2 DEF Plain
  <2>3. QED BY <1>2, <2>1, <2>2 DEF Assembled, NoFrames
<1>8. QED BY <1>3, <1>4, <1>5, <1>6, <1>7 DEF MessagesInv, Buffers

(* What the invariant says of the messages handed over. *)
LEMMA MessagesFollow == MessagesInv => MessagesAsSent
<1> SUFFICES ASSUME MessagesInv PROVE MessagesAsSent
  OBVIOUS
<1>1. messages \in Seq(Message) /\ \A i \in 1..Len(messages) : messages[i].fits
  BY DEF MessagesInv, Buffers, MessagesOK
<1>2. \A i \in DOMAIN messages : messages[i].fits
  BY <1>1
<1>3. ASSUME ~oom PROVE IsPrefix(Plain(messages), Assemble(sent))
  <2>1. sent \in Seq(Frames) /\ used \in 0..Len(sent) /\ Len(sent) \in 0..Len(sent)
    BY DEF MessagesInv, Buffers, InputOK
  <2> DEFINE s == Plain(messages)
             t == Assembly(sent)[Len(sent)].done
             S == [op : Ops, frames : Seq(Nat)]
  <2>2. s = Assembly(sent)[used].done
    BY <1>3 DEF MessagesInv, Assembled
  <2>3. s \in Seq(S) /\ t \in Seq(S)
    BY <2>1, <2>2, AssemblyType DEF Acc
  <2>4. Begins(s, t)
    BY <2>1, <2>2, DoneGrows
  <2> HIDE DEF s, t, S
  <2>5. Len(s) <= Len(t) /\ SubSeq(s, 1, Len(s)) = SubSeq(t, 1, Len(s))
    <3>1. Len(s) \in Nat /\ Len(t) \in Nat /\ Len(s) <= Len(t) /\ \A i \in 1..Len(s) : s[i] = t[i]
      BY <2>3, <2>4 DEF Begins
    <3>2. SubSeq(s, 1, Len(s)) = s
      BY <2>3
    <3>3. SubSeq(t, 1, Len(s)) \in Seq(S) /\ Len(SubSeq(t, 1, Len(s))) = Len(s)
      BY <2>3, <3>1
    <3>4. \A i \in 1..Len(s) : SubSeq(t, 1, Len(s))[i] = t[i]
      BY <2>3, <3>1
    <3>5. SubSeq(t, 1, Len(s)) = [i \in 1..Len(s) |-> SubSeq(t, 1, Len(s))[i]]
      BY <3>3, SeqIsFunction
    <3>6. s = [i \in 1..Len(s) |-> s[i]]
      BY <2>3, SeqIsFunction
    <3>7. [i \in 1..Len(s) |-> SubSeq(t, 1, Len(s))[i]] = [i \in 1..Len(s) |-> s[i]]
      BY <3>1, <3>4
    <3>8. QED BY <3>1, <3>2, <3>5, <3>6, <3>7
  <2>6. QED BY <2>5 DEF IsPrefix, Assemble, s, t
<1>4. QED BY <1>2, <1>3 DEF MessagesAsSent, Plain

(* The application is given the peer's messages (ws_pump): for every sequence of frames,
   every way the reads cut them and every cap, what zcio_ws_recv returns is what RFC 6455
   makes of the frames, in order, whole, and within the cap. *)
THEOREM MessagesAreAsSent == Spec => []MessagesAsSent
<1>1. MessagesInv /\ [Next]_vars => MessagesInv'
  <2>1. MessagesInv /\ [Next]_vars => Buffers'
    BY InputStep, FragStep, FlagsStep, MessagesOKStep DEF MessagesInv, Buffers
  <2>2. QED BY <2>1, AssembledStep DEF MessagesInv
<1>2. QED BY <1>1, MessagesInit, MessagesFollow, PTL DEF Spec
=============================================================================
