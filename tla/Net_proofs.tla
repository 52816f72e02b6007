----------------------------- MODULE Net_proofs -----------------------------
(***************************************************************************)
(* Proofs about the socket objects, for every set of descriptors, every    *)
(* number of client ids and every set of peers, sizes and timeouts: the id *)
(* table of the TCP server, who owns which descriptor, and the buffers of  *)
(* the UDP server.                                                         *)
(***************************************************************************)
EXTENDS Net, FiniteSetTheorems, TLAPS

USE DEF tcpVars, callerVars, tcpAll, table, datagramVars, ownerVars, timeoutVars, udpVars

(* The streams that own a socket. *)
Owners == {NoOwner, ClosedOwner} \cup {Owner(fd) : fd \in Fds}

-----------------------------------------------------------------------------
(* The id table: IdsSound entry by entry, the types it needs, and that no more
   connections are open than ever were at once. *)
IdInv ==
  /\ next_id \in Nat /\ slots_len \in Nat /\ peak \in Nat /\ lost \in Nat
  /\ free_ids \in Seq(Nat) /\ free_cap \in Nat
  /\ Cap \in Nat /\ DOMAIN slots = 0 .. Cap - 1 /\ slots \in [DOMAIN slots -> Owners]
  /\ \A i \in 1 .. Len(free_ids) : free_ids[i] \notin Live /\ free_ids[i] < next_id
  /\ \A i, j \in 1 .. Len(free_ids) : free_ids[i] = free_ids[j] => i = j
  /\ \A id \in Live : id < slots_len /\ id < next_id
  /\ slots_len <= Cap
  /\ next_id = Cardinality(Live) + Len(free_ids) + lost
  /\ next_id <= peak + lost
  /\ Cardinality(Live) <= peak

(* The descriptors.  What an object holds is a descriptor that was opened for it, and a
   descriptor that was opened for it is what it holds.  The label of a descriptor says
   which kind of object opened it, so that two kinds cannot hold the same one. *)
Holds(f, owner, what) ==
  /\ owner \in Owners
  /\ \A fd \in Fds : f[fd] = what <=> fd \in ToClose(owner)
HoldsFd(f, fd, what) == Holds(f, IF fd = NoFd THEN NoOwner ELSE Owner(fd), what)
Listeners(f, a, b) ==
  /\ a \in Fds \cup {NoFd} /\ b \in Fds \cup {NoFd}
  /\ \A fd \in Fds : f[fd] = "tcp server" <=> fd \in {a, b}
  /\ a = b => a = NoFd
Conns(f, s) ==
  /\ \A fd \in Fds : f[fd] = "tcp conn" <=> \E id \in DOMAIN s : fd \in ToClose(s[id])
  /\ \A i, j \in DOMAIN s : i # j => ToClose(s[i]) \cap ToClose(s[j]) = {}
Labels == {"tcp server", "tcp conn", "tcp client", "udp server", "udp client",
           "mcast sender", "mcast receiver"}
OwnInv ==
  /\ files \in [Fds -> Labels \cup {Closed}]
  /\ server \in Fds \cup {NoFd}
  /\ HoldsFd(files, server, "udp server")
  /\ Holds(files, tcpClient, "tcp client")
  /\ Holds(files, client, "udp client")
  /\ Holds(files, sender, "mcast sender")
  /\ Holds(files, receiver, "mcast receiver")
  /\ Listeners(files, listener, callerFd)
  /\ Conns(files, slots)

-----------------------------------------------------------------------------
(* The buffers: one per peer; its first buf_len bytes are the last datagram of the peer,
   and what the application has read is what lies before buf_pos. *)
Byte == Peers \X Sizes \X Nat
Entry == [addr : Peers, buf : Seq(Byte), buf_len : Nat, buf_pos : Nat]
Holding(e, d, read) ==
  /\ e.buf_len = d.size /\ e.buf_len <= Len(e.buf) /\ e.buf_pos <= e.buf_len
  /\ Len(read) = e.buf_pos
  /\ \A i \in 1 .. e.buf_len : e.buf[i] = <<d.from, d.size, i>>
  /\ \A i \in 1 .. e.buf_pos : read[i] = <<d.from, d.size, i>>
BufInv ==
  /\ peers \in Seq(Entry)
  /\ last \in [Peers -> [from : Peers, size : Nat]] /\ got \in [Peers -> Seq(Byte)]
  /\ \A p \in Peers : last[p].from = p
  /\ \A i, j \in DOMAIN peers : peers[i].addr = peers[j].addr => i = j
  /\ \A i \in DOMAIN peers : Holding(peers[i], last[peers[i].addr], got[peers[i].addr])
  /\ \A p \in Peers : (\A i \in DOMAIN peers : peers[i].addr # p)
                        => last[p] = NoDatagram(p) /\ got[p] = <<>>

(* An adopt without memory closes a descriptor that the application keeps using. *)
NetInv == IdInv /\ (~adoptLost => OwnInv) /\ BufInv

-----------------------------------------------------------------------------
(* Facts about the operators. *)
LEMMA OwnerFacts ==
  /\ NoOwner \in Owners /\ ClosedOwner \in Owners /\ ClosedOwner # NoOwner
  /\ ToClose(NoOwner) = {} /\ ToClose(ClosedOwner) = {} /\ ClosedOwner.closed /\ ~NoOwner.closed
  /\ \A fd \in Fds : /\ Owner(fd) \in Owners /\ Owner(fd) # NoOwner
                     /\ ToClose(Owner(fd)) = {fd} /\ Owner(fd).fd = fd /\ ~Owner(fd).closed
<1>1. NoOwner \in Owners /\ ClosedOwner \in Owners /\ \A fd \in Fds : Owner(fd) \in Owners
  BY DEF Owners
<1>2. ClosedOwner.closed /\ ~NoOwner.closed
  BY DEF ClosedOwner, NoOwner
<1>3. \A fd \in Fds : Owner(fd).fd = fd /\ ~Owner(fd).closed /\ fd \in Nat
  BY SocketsAssumption DEF Owner
<1>4. NoOwner.fd = NoFd /\ NoFd \notin Nat
  BY DEF NoOwner, NoFd
<1>5. ClosedOwner # NoOwner
  BY <1>2
<1>6. \A fd \in Fds : Owner(fd) # NoOwner
  BY <1>3, <1>4
<1>7. ToClose(NoOwner) = {} /\ ToClose(ClosedOwner) = {}
  BY <1>2, <1>4 DEF ToClose
<1>8. \A fd \in Fds : ToClose(Owner(fd)) = {fd}
  BY <1>3, <1>4 DEF ToClose
<1> QED BY <1>1, <1>2, <1>3, <1>5, <1>6, <1>7, <1>8

LEMMA MaxIs ==
  ASSUME NEW a \in Nat, NEW b \in Nat
  PROVE  Max({a, b}) \in {a, b} /\ Max({a, b}) >= a /\ Max({a, b}) >= b
<1>1. \E x \in {a, b} : \A y \in {a, b} : x >= y
  OBVIOUS
<1> QED BY <1>1 DEF Max

LEMMA MinIs ==
  ASSUME NEW a \in Nat, NEW b \in Nat
  PROVE  Min({a, b}) \in {a, b} /\ Min({a, b}) <= a /\ Min({a, b}) <= b
<1>1. \E x \in {a, b} : \A y \in {a, b} : x <= y
  OBVIOUS
<1> QED BY <1>1 DEF Min

(* The connections of a slot array. *)
LiveOf(s) == {id \in DOMAIN s : s[id] # NoOwner}

LEMMA LiveIs == Live = LiveOf(slots)
BY DEF Live, LiveOf

Stored(s, c, n, id, o) ==
  [i \in 0 .. n - 1 |-> IF i = id THEN o ELSE IF i < c THEN s[i] ELSE NoOwner]
LEMMA LiveStored ==
  ASSUME NEW c \in Nat, NEW n \in Nat, NEW id \in Nat, id < n, c <= n,
         NEW s \in [0 .. c - 1 -> Owners], NEW o \in Owners, o # NoOwner
  PROVE  /\ LiveOf(Stored(s, c, n, id, o)) = LiveOf(s) \cup {id}
         /\ Stored(s, c, n, id, o) \in [0 .. n - 1 -> Owners]
         /\ DOMAIN Stored(s, c, n, id, o) = 0 .. n - 1
         /\ Cardinality(0 .. n - 1) = n
<1> DEFINE t == Stored(s, c, n, id, o)
<1>1. DOMAIN t = 0 .. n - 1 /\ DOMAIN s = 0 .. c - 1
  BY DEF Stored
<1>2. \A i \in 0 .. n - 1 : t[i] = IF i = id THEN o ELSE IF i < c THEN s[i] ELSE NoOwner
  BY DEF Stored
<1>3. t \in [0 .. n - 1 -> Owners]
  BY OwnerFacts DEF Stored
<1>4. Cardinality(0 .. n - 1) = n
  BY FS_Interval
<1>5. ASSUME NEW i PROVE i \in LiveOf(t) <=> i \in LiveOf(s) \cup {id}
  BY <1>1, <1>2 DEF LiveOf
<1> QED BY <1>1, <1>3, <1>4, <1>5

LEMMA LiveCleared ==
  ASSUME NEW D, NEW s \in [D -> Owners], NEW id \in D, NEW o \in Owners
  PROVE  /\ [s EXCEPT ![id] = o] \in [D -> Owners] /\ DOMAIN [s EXCEPT ![id] = o] = D
         /\ o = NoOwner => LiveOf([s EXCEPT ![id] = o]) = LiveOf(s) \ {id}
         /\ o # NoOwner /\ id \in LiveOf(s) => LiveOf([s EXCEPT ![id] = o]) = LiveOf(s)
BY DEF LiveOf

LEMMA LiveFinite ==
  ASSUME IdInv
  PROVE  IsFiniteSet(Live) /\ Cardinality(Live) \in Nat /\ Live \subseteq Nat
<1>1. Live \in SUBSET (0 .. Cap - 1) /\ Cap \in Nat /\ Cap - 1 \in Int
  BY DEF IdInv, Live
<1>2. IsFiniteSet(0 .. Cap - 1)
  BY <1>1, FS_Interval
<1>3. IsFiniteSet(Live)
  BY <1>1, <1>2, FS_Subset
<1> QED BY <1>1, <1>3, FS_CardinalityType

-----------------------------------------------------------------------------
(* The id table. *)
LEMMA IdsClear == EmptyTable => IdInv
<1> SUFFICES ASSUME EmptyTable PROVE IdInv
  OBVIOUS
<1> USE DEF EmptyTable
<1>1. DOMAIN slots = {} /\ slots \in [DOMAIN slots -> Owners]
  OBVIOUS
<1>2. Live = {} /\ Cap = 0 /\ Cardinality(Live) = 0
  BY <1>1, FS_EmptySet DEF Live, Cap
<1>3. 0 .. Cap - 1 = {}
  BY <1>2
<1>4. free_ids \in Seq(Nat) /\ Len(free_ids) = 0
  OBVIOUS
<1> QED BY <1>1, <1>2, <1>3, <1>4 DEF IdInv

LEMMA FrontIs ==
  ASSUME NEW s \in Seq(Nat), Len(s) >= 1
  PROVE  /\ Front(s) \in Seq(Nat) /\ Len(Front(s)) = Len(s) - 1
         /\ \A i \in 1 .. Len(s) - 1 : Front(s)[i] = s[i]
         /\ s[Len(s)] \in Nat
<1>1. PICK n \in Nat : n = Len(s) - 1
  OBVIOUS
<1>2. Front(s) = SubSeq(s, 1, n)
  BY <1>1 DEF Front
<1>3. SubSeq(s, 1, n) = [i \in 1 .. n |-> s[i]]
  BY <1>1
<1>4. /\ [i \in 1 .. n |-> s[i]] \in Seq(Nat) /\ Len([i \in 1 .. n |-> s[i]]) = n
      /\ s[Len(s)] \in Nat
  BY <1>1
<1> QED BY <1>1, <1>2, <1>3, <1>4

(* server_pop_free_id or the next new id: the id is not in use. *)
LEMMA IdTaken ==
  ASSUME IdInv, NEW id \in 0 .. next_id, TakeId(id)
  PROVE  /\ id \in Nat /\ id \notin Live /\ id < next_id'
         /\ next_id' \in Nat /\ next_id' >= next_id /\ free_ids' \in Seq(Nat)
         /\ \A i \in 1 .. Len(free_ids') : free_ids'[i] \notin Live \cup {id}
                                           /\ free_ids'[i] < next_id'
         /\ \A i, j \in 1 .. Len(free_ids') : free_ids'[i] = free_ids'[j] => i = j
         /\ next_id' = Cardinality(Live) + Len(free_ids') + lost + 1
         /\ \/ next_id' = next_id
            \/ Len(free_ids') = 0
<1>0. /\ next_id \in Nat /\ free_ids \in Seq(Nat) /\ lost \in Nat /\ Len(free_ids) \in Nat
      /\ Cardinality(Live) \in Nat
  BY LiveFinite DEF IdInv
<1>1. CASE free_ids # <<>>
  <2>1. id = free_ids[Len(free_ids)] /\ next_id' = next_id /\ Len(free_ids) >= 1
    BY <1>0, <1>1 DEF TakeId, Last
  <2>2. free_ids' = Front(free_ids)
    BY <1>1 DEF TakeId
  <2>3. /\ free_ids' \in Seq(Nat) /\ Len(free_ids') = Len(free_ids) - 1
        /\ \A i \in 1 .. Len(free_ids') : free_ids'[i] = free_ids[i]
    BY <1>0, <2>1, <2>2, FrontIs
  <2>4. Len(free_ids) \in 1 .. Len(free_ids) /\ 1 .. Len(free_ids') \subseteq 1 .. Len(free_ids)
        /\ Len(free_ids) \notin 1 .. Len(free_ids')
    BY <1>0, <2>1, <2>3
  <2>5. id \in Nat /\ id \notin Live /\ id < next_id
    <3>1. id \in Nat
      BY <1>0, <2>1, FrontIs
    <3>2. free_ids[Len(free_ids)] \notin Live /\ free_ids[Len(free_ids)] < next_id
      BY <2>4 DEF IdInv
    <3> QED BY <2>1, <3>1, <3>2
  <2>6. \A i \in 1 .. Len(free_ids') : free_ids'[i] \notin Live \cup {id}
                                       /\ free_ids'[i] < next_id'
    BY <2>1, <2>3, <2>4 DEF IdInv
  <2>7. \A i, j \in 1 .. Len(free_ids') : free_ids'[i] = free_ids'[j] => i = j
    BY <2>3, <2>4 DEF IdInv
  <2>8. next_id' = Cardinality(Live) + Len(free_ids') + lost + 1
    BY <1>0, <2>1, <2>3 DEF IdInv
  <2> QED BY <1>0, <2>1, <2>3, <2>5, <2>6, <2>7, <2>8
<1>2. CASE free_ids = <<>>
  <2>1. id = next_id /\ next_id' = next_id + 1 /\ free_ids' = <<>>
    BY <1>2 DEF TakeId
  <2>2. Len(free_ids) = 0 /\ Len(free_ids') = 0 /\ free_ids' \in Seq(Nat)
    BY <1>2, <2>1
  <2>3. id \notin Live
    BY <1>0, <2>1, LiveFinite DEF IdInv
  <2>4. next_id' = Cardinality(Live) + Len(free_ids') + lost + 1
    BY <1>0, <2>1, <2>2 DEF IdInv
  <2> QED BY <1>0, <2>1, <2>2, <2>3, <2>4
<1> QED BY <1>1, <1>2

(* An accept that finds room: the slot array grows beyond the id it is for. *)
LEMMA IdsStored ==
  ASSUME IdInv, NEW id \in 0 .. next_id, NEW fd \in Fds, TakeId(id),
         server_store(id, Owner(fd)), peak' = Max({peak, Cardinality(Live) + 1}),
         lost' = lost, free_cap' = free_cap
  PROVE  IdInv'
<1>0. /\ peak \in Nat /\ lost \in Nat /\ slots_len \in Nat /\ Cap \in Nat /\ free_cap \in Nat
      /\ DOMAIN slots = 0 .. Cap - 1 /\ slots \in [DOMAIN slots -> Owners]
      /\ slots_len <= Cap /\ next_id <= peak + lost /\ Cardinality(Live) <= peak
      /\ next_id \in Nat
      /\ \A i \in Live : i < slots_len /\ i < next_id
  BY DEF IdInv
<1>1. /\ id \in Nat /\ id \notin Live /\ id < next_id'
      /\ next_id' \in Nat /\ next_id' >= next_id /\ free_ids' \in Seq(Nat)
      /\ \A i \in 1 .. Len(free_ids') : free_ids'[i] \notin Live \cup {id}
                                        /\ free_ids'[i] < next_id'
      /\ \A i, j \in 1 .. Len(free_ids') : free_ids'[i] = free_ids'[j] => i = j
      /\ next_id' = Cardinality(Live) + Len(free_ids') + lost + 1
      /\ next_id' = next_id \/ Len(free_ids') = 0
  BY IdTaken
<1>2. PICK n \in Cap .. 2 * (Cap + FirstCap + id) :
        /\ GrowTo(id, n)
        /\ slots' = [i \in 0 .. n - 1 |->
                       IF i = id THEN Owner(fd) ELSE IF i < Cap THEN slots[i] ELSE NoOwner]
  BY DEF server_store
<1>3. FirstCap \in Nat
  BY TcpAssumption
<1>4. n \in Nat /\ Cap <= n
  BY <1>0, <1>1, <1>2, <1>3
<1>5. id < n
  BY <1>2 DEF GrowTo
<1>6. /\ LiveOf(slots') = LiveOf(slots) \cup {id}
      /\ slots' \in [DOMAIN slots' -> Owners] /\ DOMAIN slots' = 0 .. n - 1
      /\ Cardinality(DOMAIN slots') = n
  <2>1. slots \in [0 .. Cap - 1 -> Owners]
    BY <1>0
  <2>2. Owner(fd) \in Owners /\ Owner(fd) # NoOwner
    BY OwnerFacts
  <2>3. slots' = Stored(slots, Cap, n, id, Owner(fd))
    BY <1>2 DEF Stored
  <2> DEFINE t == Stored(slots, Cap, n, id, Owner(fd))
  <2>4. /\ LiveOf(t) = LiveOf(slots) \cup {id}
        /\ t \in [0 .. n - 1 -> Owners] /\ DOMAIN t = 0 .. n - 1 /\ Cardinality(0 .. n - 1) = n
    <3>1. /\ Cap \in Nat /\ n \in Nat /\ id \in Nat /\ id < n /\ Cap <= n
          /\ slots \in [0 .. Cap - 1 -> Owners] /\ Owner(fd) \in Owners /\ Owner(fd) # NoOwner
      BY <1>0, <1>1, <1>4, <1>5, <2>1, <2>2
    <3> QED BY <3>1, LiveStored
  <2> QED BY <2>3, <2>4
<1>7. Live' = Live \cup {id} /\ Cap' = n
  BY <1>6 DEF Live, LiveOf, Cap
<1>8. Cardinality(Live') = Cardinality(Live) + 1 /\ Cardinality(Live) \in Nat
  BY <1>1, <1>7, LiveFinite, FS_AddElement
<1>9. peak' \in {peak, Cardinality(Live) + 1} /\ peak' >= peak /\ peak' >= Cardinality(Live) + 1
  <2>1. peak \in Nat /\ Cardinality(Live) + 1 \in Nat
    BY <1>0, <1>8
  <2> QED BY <2>1, MaxIs
<1>10. slots_len' \in {slots_len, id + 1} /\ slots_len' >= slots_len /\ slots_len' >= id + 1
  <2>1. slots_len' = Max({slots_len, id + 1}) /\ slots_len \in Nat /\ id + 1 \in Nat
    BY <1>0, <1>1 DEF server_store
  <2> QED BY <2>1, MaxIs
<1>11. slots_len' \in Nat /\ slots_len' <= n /\ peak' \in Nat
  <2>1. slots_len \in Nat /\ slots_len <= n /\ id + 1 \in Nat /\ id + 1 <= n
    BY <1>0, <1>1, <1>4, <1>5
  <2>2. peak \in Nat /\ Cardinality(Live) + 1 \in Nat
    BY <1>0, <1>8
  <2> QED BY <1>9, <1>10, <2>1, <2>2
<1>12. \A i \in Live' : i < slots_len' /\ i < next_id'
  <2> SUFFICES ASSUME NEW i \in Live' PROVE i < slots_len' /\ i < next_id'
    OBVIOUS
  <2>1. CASE i = id
    BY <1>1, <1>10, <1>11, <2>1
  <2>2. CASE i \in Live
    <3>1. i \in Nat /\ i < slots_len /\ i < next_id
      BY <1>0, <2>2, LiveFinite
    <3>2. /\ slots_len \in Nat /\ slots_len' \in Nat /\ slots_len' >= slots_len
          /\ next_id \in Nat /\ next_id' \in Nat /\ next_id' >= next_id
      BY <1>0, <1>1, <1>10, <1>11
    <3> QED BY <3>1, <3>2
  <2> QED BY <1>7, <2>1, <2>2
<1>13. next_id' <= peak' + lost'
  <2>1. CASE next_id' = next_id
    BY <1>0, <1>9, <1>11, <2>1
  <2>2. CASE Len(free_ids') = 0
    <3>1. next_id' = Cardinality(Live) + lost + 1 /\ Cardinality(Live) \in Nat /\ lost \in Nat
      BY <1>0, <1>1, <1>8, <2>2
    <3>2. peak' \in Nat /\ peak' >= Cardinality(Live) + 1
      BY <1>9, <1>11
    <3>3. lost' = lost
      OBVIOUS
    <3> QED BY <3>1, <3>2, <3>3
  <2> QED BY <1>1, <2>1, <2>2
<1>14. next_id' = Cardinality(Live') + Len(free_ids') + lost'
  <2>1. Len(free_ids') \in Nat
    BY <1>1
  <2> QED BY <1>0, <1>1, <1>8, <2>1
<1> QED BY <1>0, <1>1, <1>4, <1>6, <1>7, <1>8, <1>9, <1>11, <1>12, <1>13, <1>14 DEF IdInv

(* An accept that finds none: the id is lost. *)
LEMMA IdsStoreFails ==
  ASSUME IdInv, NEW id \in 0 .. next_id, TakeId(id), StoreFails(id), free_cap' = free_cap
  PROVE  IdInv'
<1>0. /\ peak \in Nat /\ lost \in Nat /\ next_id \in Nat /\ next_id <= peak + lost
      /\ Cardinality(Live) \in Nat /\ Cardinality(Live) <= peak /\ Live \subseteq Nat
      /\ \A i \in Live : i < slots_len /\ i < next_id
  BY LiveFinite DEF IdInv
<1>1. /\ next_id' \in Nat /\ next_id' >= next_id /\ free_ids' \in Seq(Nat)
      /\ \A i \in 1 .. Len(free_ids') : free_ids'[i] \notin Live
                                        /\ free_ids'[i] < next_id'
      /\ \A i, j \in 1 .. Len(free_ids') : free_ids'[i] = free_ids'[j] => i = j
      /\ next_id' = Cardinality(Live) + Len(free_ids') + lost + 1
      /\ next_id' = next_id \/ Len(free_ids') = 0
  BY IdTaken
<1>2. UNCHANGED <<slots, slots_len, peak>> /\ lost' = lost + 1
  BY DEF StoreFails
<1>3. Live' = Live /\ Cap' = Cap
  BY <1>2 DEF Live, Cap
<1>4. next_id' = Cardinality(Live') + Len(free_ids') + lost'
  <2>1. Len(free_ids') \in Nat
    BY <1>1
  <2> QED BY <1>0, <1>1, <1>2, <1>3, <2>1
<1>5. next_id' <= peak' + lost' /\ lost' \in Nat
  BY <1>0, <1>1, <1>2
<1>6. \A i \in Live' : i < slots_len' /\ i < next_id'
  BY <1>0, <1>1, <1>2, <1>3
<1> QED BY <1>1, <1>2, <1>3, <1>4, <1>5, <1>6 DEF IdInv

(* zcio_tcp_server_close_client: the id is free again, or lost. *)
LEMMA IdsClosed ==
  ASSUME IdInv, NEW id \in DOMAIN slots, CloseClient(id)
  PROVE  IdInv'
<1>0. /\ peak \in Nat /\ lost \in Nat /\ next_id \in Nat /\ next_id <= peak + lost
      /\ free_ids \in Seq(Nat) /\ free_cap \in Nat /\ Len(free_ids) \in Nat
      /\ Cardinality(Live) \in Nat /\ Cardinality(Live) <= peak
      /\ slots \in [DOMAIN slots -> Owners]
  BY LiveFinite DEF IdInv
<1>1. /\ id \in Live /\ slots' = [slots EXCEPT ![id] = NoOwner] /\ Recycle(id)
      /\ UNCHANGED <<next_id, slots_len, peak>>
  BY DEF CloseClient, Live
<1>2. LiveOf(slots') = LiveOf(slots) \ {id} /\ slots' \in [DOMAIN slots -> Owners]
      /\ DOMAIN slots' = DOMAIN slots
  <2>1. slots \in [DOMAIN slots -> Owners] /\ NoOwner \in Owners
    BY <1>0, OwnerFacts
  <2> DEFINE t == [slots EXCEPT ![id] = NoOwner]
  <2>2. LiveOf(t) = LiveOf(slots) \ {id} /\ t \in [DOMAIN slots -> Owners]
        /\ DOMAIN t = DOMAIN slots
    BY <2>1, LiveCleared
  <2> QED BY <1>1, <2>2
<1>3. Live' = Live \ {id} /\ Cap' = Cap
  BY <1>2 DEF Live, LiveOf, Cap
<1>4. Cardinality(Live') = Cardinality(Live) - 1 /\ id \in Nat
  BY <1>1, <1>3, LiveFinite, FS_RemoveElement
<1>5. Cardinality(Live) >= 1
  BY <1>0, <1>1, LiveFinite, FS_EmptySet
<1>6. id < next_id /\ \A i \in 1 .. Len(free_ids) : free_ids[i] # id
  BY <1>1 DEF IdInv
<1>7. /\ next_id' \in Nat /\ slots_len' \in Nat /\ peak' \in Nat
      /\ Cap' \in Nat /\ DOMAIN slots' = 0 .. Cap' - 1 /\ slots' \in [DOMAIN slots' -> Owners]
      /\ \A i \in Live' : i < slots_len' /\ i < next_id'
      /\ slots_len' <= Cap' /\ lost \in Nat
  BY <1>1, <1>2, <1>3 DEF IdInv
<1>8. CASE free_ids' = Append(free_ids, id) /\ lost' = lost
  <2>1. /\ free_ids' \in Seq(Nat) /\ Len(free_ids') = Len(free_ids) + 1
        /\ free_ids'[Len(free_ids) + 1] = id
        /\ \A i \in 1 .. Len(free_ids) : free_ids'[i] = free_ids[i]
    BY <1>0, <1>4, <1>8
  <2>2. \A i \in 1 .. Len(free_ids') : i \in 1 .. Len(free_ids) \/ i = Len(free_ids) + 1
    BY <1>0, <2>1
  <2>3. \A i \in 1 .. Len(free_ids') : free_ids'[i] \notin Live' /\ free_ids'[i] < next_id'
    BY <1>1, <1>3, <1>6, <2>1, <2>2 DEF IdInv
  <2>4. \A i, j \in 1 .. Len(free_ids') : free_ids'[i] = free_ids'[j] => i = j
    BY <1>6, <2>1, <2>2 DEF IdInv
  <2>5. next_id' = Cardinality(Live') + Len(free_ids') + lost'
    BY <1>0, <1>1, <1>4, <1>8, <2>1 DEF IdInv
  <2>6. free_cap' \in Nat
    BY <1>0, <1>1, TcpAssumption DEF Recycle
  <2>7. next_id' <= peak' + lost' /\ Cardinality(Live') <= peak'
    BY <1>0, <1>1, <1>4, <1>8
  <2> QED BY <1>8, <1>7, <2>1, <2>3, <2>4, <2>5, <2>6, <2>7 DEF IdInv
<1>9. CASE lost' = lost + 1 /\ UNCHANGED <<free_ids, free_cap>>
  <2>1. next_id' = Cardinality(Live') + Len(free_ids') + lost' /\ lost' \in Nat
    <3>1. next_id = Cardinality(Live) + Len(free_ids) + lost
      BY DEF IdInv
    <3>2. next_id' = next_id /\ lost' = lost + 1 /\ free_ids' = free_ids
      BY <1>1, <1>9
    <3> QED BY <1>0, <1>4, <3>1, <3>2
  <2>2. next_id' <= peak' + lost' /\ Cardinality(Live') <= peak'
    BY <1>0, <1>1, <1>4, <1>9
  <2>3. /\ free_ids' \in Seq(Nat) /\ free_cap' \in Nat
        /\ \A i \in 1 .. Len(free_ids') : free_ids'[i] \notin Live' /\ free_ids'[i] < next_id'
        /\ \A i, j \in 1 .. Len(free_ids') : free_ids'[i] = free_ids'[j] => i = j
    BY <1>1, <1>3, <1>9 DEF IdInv
  <2> QED BY <1>7, <2>1, <2>2, <2>3 DEF IdInv
<1> QED BY <1>1, <1>8, <1>9 DEF Recycle

LEMMA IdsStreamClosed ==
  ASSUME IdInv, NEW id \in DOMAIN slots, StreamClose(id)
  PROVE  IdInv'
<1>1. /\ id \in Live /\ slots' = [slots EXCEPT ![id] = ClosedOwner]
      /\ UNCHANGED <<next_id, slots_len, free_ids, free_cap, peak, lost>>
  BY DEF StreamClose
<1>2. slots \in [DOMAIN slots -> Owners] /\ id \in LiveOf(slots)
  BY <1>1, LiveIs DEF IdInv
<1>3. LiveOf(slots') = LiveOf(slots) /\ slots' \in [DOMAIN slots -> Owners]
      /\ DOMAIN slots' = DOMAIN slots
  <2>1. slots \in [DOMAIN slots -> Owners] /\ ClosedOwner \in Owners /\ ClosedOwner # NoOwner
    BY <1>2, OwnerFacts
  <2> DEFINE t == [slots EXCEPT ![id] = ClosedOwner]
  <2>2. LiveOf(t) = LiveOf(slots) /\ t \in [DOMAIN slots -> Owners]
        /\ DOMAIN t = DOMAIN slots
    BY <1>2, <2>1, LiveCleared
  <2> QED BY <1>1, <2>2
<1>4. Live' = Live /\ Cap' = Cap
  BY <1>3 DEF Live, LiveOf, Cap
<1> QED BY <1>1, <1>3, <1>4 DEF IdInv

LEMMA IdStep ==
  ASSUME IdInv, [Next]_vars
  PROVE  IdInv'
<1>a. CASE UNCHANGED table
  <2>1. Live' = Live /\ Cap' = Cap
    BY <1>a DEF Live, Cap
  <2> QED BY <1>a, <2>1 DEF IdInv
<1>1. CASE UNCHANGED vars \/ UNCHANGED tcpVars
  BY <1>1, <1>a DEF vars
<1>2. CASE Listen \/ CallerSocket \/ CallerClose \/ Adopt
  BY <1>2, <1>a DEF Listen, CallerSocket, CallerClose, Adopt
<1>3. CASE Free
  <2>1. EmptyTable'
    BY <1>3 DEF Free, EmptyTable
  <2> QED BY <2>1, IdsClear, PTL
<1>4. CASE Accept
  <2>1. CASE UNCHANGED table
    BY <1>a, <2>1
  <2>2. ASSUME NEW id \in 0 .. next_id, NEW fd \in Fds, TakeId(id), free_cap' = free_cap,
               \/ /\ OpenSocket(fd, "tcp conn")
                  /\ server_store(id, Owner(fd))
                  /\ peak' = Max({peak, Cardinality(Live) + 1})
                  /\ lost' = lost
               \/ OpenAndClose /\ StoreFails(id)
        PROVE  IdInv'
    BY <2>2, IdsStored, IdsStoreFails
  <2> QED BY <1>4, <2>1, <2>2 DEF Accept
<1>5. ASSUME NEW id \in DOMAIN slots, CloseClient(id) PROVE IdInv'
  BY <1>5, IdsClosed
<1>6. ASSUME NEW id \in DOMAIN slots, StreamClose(id) PROVE IdInv'
  BY <1>6, IdsStreamClosed
<1> QED BY <1>1, <1>2, <1>3, <1>4, <1>5, <1>6 DEF Next, TcpServerNext

-----------------------------------------------------------------------------
(* The descriptors: what opening and closing does to the table, and that an object whose
   label is left alone holds what it held. *)
Kept(f, g, w) == \A fd \in Fds : f[fd] = w <=> g[fd] = w

LEMMA Opened ==
  ASSUME OwnInv, NEW fd \in Fds, NEW what \in Labels, OpenSocket(fd, what)
  PROVE  /\ files' \in [Fds -> Labels \cup {Closed}] /\ files[fd] = Closed
         /\ \A v \in Labels : v # what => Kept(files, files', v)
         /\ \A x \in Fds : files'[x] = what <=> files[x] = what \/ x = fd
<1>1. files \in [Fds -> Labels \cup {Closed}] /\ Closed \notin Labels
  BY DEF OwnInv, Labels, Closed
<1>2. files[fd] = Closed /\ files' = [files EXCEPT ![fd] = what]
  BY DEF OpenSocket, LowestFree
<1> QED BY <1>1, <1>2 DEF Kept

LEMMA ClosedAre ==
  ASSUME OwnInv, NEW S, CloseSockets(S)
  PROVE  /\ files' \in [Fds -> Labels \cup {Closed}]
         /\ \A x \in Fds, v \in Labels : files'[x] = v <=> files[x] = v /\ x \notin S
<1>1. files \in [Fds -> Labels \cup {Closed}] /\ Closed \notin Labels
  BY DEF OwnInv, Labels, Closed
<1> QED BY <1>1 DEF CloseSockets

LEMMA Rest ==
  ASSUME OwnInv
  PROVE  /\ Kept(files, files', "udp server") => HoldsFd(files', server, "udp server")
         /\ Kept(files, files', "tcp client") => Holds(files', tcpClient, "tcp client")
         /\ Kept(files, files', "udp client") => Holds(files', client, "udp client")
         /\ Kept(files, files', "mcast sender") => Holds(files', sender, "mcast sender")
         /\ Kept(files, files', "mcast receiver") => Holds(files', receiver, "mcast receiver")
         /\ Kept(files, files', "tcp server") => Listeners(files', listener, callerFd)
         /\ Kept(files, files', "tcp conn") => Conns(files', slots)
<1>1. ASSUME NEW o, NEW v, Kept(files, files', v), Holds(files, o, v) PROVE Holds(files', o, v)
  BY <1>1 DEF Holds, Kept
<1>2. Kept(files, files', "tcp server") => Listeners(files', listener, callerFd)
  BY DEF OwnInv, Listeners, Kept
<1>3. Kept(files, files', "tcp conn") => Conns(files', slots)
  BY DEF OwnInv, Conns, Kept
<1>4. Kept(files, files', "udp server") => HoldsFd(files', server, "udp server")
  BY <1>1 DEF OwnInv, HoldsFd
<1>5. /\ Kept(files, files', "tcp client") => Holds(files', tcpClient, "tcp client")
      /\ Kept(files, files', "udp client") => Holds(files', client, "udp client")
      /\ Kept(files, files', "mcast sender") => Holds(files', sender, "mcast sender")
      /\ Kept(files, files', "mcast receiver") => Holds(files', receiver, "mcast receiver")
  BY <1>1 DEF OwnInv
<1> QED BY <1>2, <1>3, <1>4, <1>5

(* Only the label `what' is touched by opening for it, and by closing what an object with
   that label holds. *)
LEMMA HoldOpened ==
  ASSUME OwnInv, NEW fd \in Fds, NEW what \in Labels, OpenSocket(fd, what),
         Holds(files, NoOwner, what)
  PROVE  Holds(files', Owner(fd), what)
<1>1. \A x \in Fds : files'[x] = what <=> files[x] = what \/ x = fd
  BY Opened
<1> QED BY <1>1, OwnerFacts DEF Holds

LEMMA HoldClosed ==
  ASSUME OwnInv, NEW o, NEW what \in Labels, Holds(files, o, what), CloseSockets(ToClose(o)),
         NEW o2 \in {NoOwner, ClosedOwner}
  PROVE  /\ Holds(files', o2, what)
         /\ files' \in [Fds -> Labels \cup {Closed}]
         /\ \A v \in Labels : v # what => Kept(files, files', v)
<1>1. /\ files' \in [Fds -> Labels \cup {Closed}]
      /\ \A x \in Fds, v \in Labels : files'[x] = v <=> files[x] = v /\ x \notin ToClose(o)
  BY ClosedAre
<1>2. Holds(files', o2, what)
  BY <1>1, OwnerFacts DEF Holds
<1>3. \A v \in Labels : v # what => Kept(files, files', v)
  BY <1>1 DEF Kept, Holds
<1> QED BY <1>1, <1>2, <1>3

LEMMA OpenOwner ==
  ASSUME NEW o \in Owners, o # NoOwner, ~o.closed
  PROVE  o.fd \in Fds /\ ToClose(o) = {o.fd}
<1>1. o # ClosedOwner
  BY OwnerFacts
<1>2. PICK fd \in Fds : o = Owner(fd)
  BY <1>1 DEF Owners
<1> QED BY <1>2, OwnerFacts

(* One object's life: it is opened, or the socket is closed on the error path of the open;
   its stream is closed; it is freed. *)
Life(o, p, what) ==
  \/ o = NoOwner /\ \E fd \in Fds : OpenSocket(fd, what) /\ p = Owner(fd)
  \/ OpenAndClose /\ p = o
  \/ o # NoOwner /\ ~o.closed /\ CloseSockets({o.fd}) /\ p = ClosedOwner
  \/ CloseSockets(ToClose(o)) /\ p = NoOwner
LEMMA Lived ==
  ASSUME OwnInv, NEW o, NEW p, NEW what \in Labels, Holds(files, o, what), Life(o, p, what)
  PROVE  /\ Holds(files', p, what)
         /\ files' \in [Fds -> Labels \cup {Closed}]
         /\ \A v \in Labels : v # what => Kept(files, files', v)
<1>1. ASSUME NEW fd \in Fds, o = NoOwner, OpenSocket(fd, what), p = Owner(fd)
      PROVE  /\ Holds(files', p, what)
             /\ files' \in [Fds -> Labels \cup {Closed}]
             /\ \A v \in Labels : v # what => Kept(files, files', v)
  BY <1>1, HoldOpened, Opened
<1>2. CASE OpenAndClose /\ p = o
  <2>1. files' = files /\ files \in [Fds -> Labels \cup {Closed}]
    BY <1>2 DEF OpenAndClose, OwnInv
  <2> QED BY <1>2, <2>1 DEF Kept
<1>3. CASE CloseSockets(ToClose(o)) /\ p = NoOwner
  BY <1>3, HoldClosed
<1>4. CASE o # NoOwner /\ ~o.closed /\ CloseSockets({o.fd}) /\ p = ClosedOwner
  <2>1. ToClose(o) = {o.fd}
    BY <1>4, OpenOwner DEF Holds
  <2>2. CloseSockets(ToClose(o))
    BY <1>4, <2>1
  <2> QED BY <1>4, <2>2, HoldClosed
<1> QED BY <1>1, <1>2, <1>3, <1>4 DEF Life

LEMMA OwnedByTcpClient ==
  ASSUME OwnInv, TcpClientNext, UNCHANGED <<tcpVars, datagramVars>>
  PROVE  OwnInv'
<1>1. Life(tcpClient, tcpClient', "tcp client")
  BY DEF TcpClientNext, tcp_client_make, tcp_client_close, tcp_client_free, Life
<1>2. Holds(files, tcpClient, "tcp client") /\ "tcp client" \in Labels
  BY DEF OwnInv, Labels
<1>3. /\ Holds(files', tcpClient', "tcp client")
      /\ files' \in [Fds -> Labels \cup {Closed}]
      /\ \A v \in Labels : v # "tcp client" => Kept(files, files', v)
  BY <1>1, <1>2, Lived
<1>4. /\ Holds(files', client, "udp client")
      /\ Holds(files', sender, "mcast sender")
      /\ Holds(files', receiver, "mcast receiver")
      /\ HoldsFd(files', server, "udp server")
      /\ Listeners(files', listener, callerFd)
      /\ Conns(files', slots)
  BY <1>3, Rest DEF Labels
<1>5. server \in Fds \cup {NoFd}
  BY DEF OwnInv
<1> QED BY <1>3, <1>4, <1>5 DEF OwnInv

LEMMA OwnedByStreams ==
  ASSUME OwnInv, UdpClientNext \/ McastNext, UNCHANGED tcpAll
  PROVE  OwnInv'
<1>u. UNCHANGED <<listener, callerFd, slots, tcpClient>>
  OBVIOUS
<1>1. CASE udp_client_open \/ udp_cli_close \/ udp_client_free
  <2>1. Life(client, client', "udp client") /\ UNCHANGED <<sender, receiver, server>>
    BY <1>1 DEF udp_client_open, udp_cli_close, udp_client_free, Life
  <2>2. Holds(files, client, "udp client") /\ "udp client" \in Labels
    BY DEF OwnInv, Labels
  <2>3. /\ Holds(files', client', "udp client")
        /\ files' \in [Fds -> Labels \cup {Closed}]
        /\ \A v \in Labels : v # "udp client" => Kept(files, files', v)
    BY <2>1, <2>2, Lived
  <2>4. /\ Holds(files', tcpClient, "tcp client")
        /\ Holds(files', sender, "mcast sender")
        /\ Holds(files', receiver, "mcast receiver")
        /\ HoldsFd(files', server, "udp server")
        /\ Listeners(files', listener, callerFd)
        /\ Conns(files', slots)
    BY <2>3, Rest DEF Labels
  <2>5. server \in Fds \cup {NoFd}
    BY DEF OwnInv
  <2> QED BY <1>u, <2>1, <2>3, <2>4, <2>5 DEF OwnInv
<1>2. CASE mcast_sender_open \/ mcast_send_close \/ mcast_sender_free
  <2>1. Life(sender, sender', "mcast sender") /\ UNCHANGED <<client, receiver, server>>
    BY <1>2 DEF mcast_sender_open, mcast_send_close, mcast_sender_free, Life
  <2>2. Holds(files, sender, "mcast sender") /\ "mcast sender" \in Labels
    BY DEF OwnInv, Labels
  <2>3. /\ Holds(files', sender', "mcast sender")
        /\ files' \in [Fds -> Labels \cup {Closed}]
        /\ \A v \in Labels : v # "mcast sender" => Kept(files, files', v)
    BY <2>1, <2>2, Lived
  <2>4. /\ Holds(files', tcpClient, "tcp client")
        /\ Holds(files', client, "udp client")
        /\ Holds(files', receiver, "mcast receiver")
        /\ HoldsFd(files', server, "udp server")
        /\ Listeners(files', listener, callerFd)
        /\ Conns(files', slots)
    BY <2>3, Rest DEF Labels
  <2>5. server \in Fds \cup {NoFd}
    BY DEF OwnInv
  <2> QED BY <1>u, <2>1, <2>3, <2>4, <2>5 DEF OwnInv
<1>3. CASE mcast_receiver_open \/ mcast_recv_close \/ mcast_receiver_free
  <2>1. Life(receiver, receiver', "mcast receiver") /\ UNCHANGED <<client, sender, server>>
    BY <1>3 DEF mcast_receiver_open, mcast_recv_close, mcast_receiver_free, Life
  <2>2. Holds(files, receiver, "mcast receiver") /\ "mcast receiver" \in Labels
    BY DEF OwnInv, Labels
  <2>3. /\ Holds(files', receiver', "mcast receiver")
        /\ files' \in [Fds -> Labels \cup {Closed}]
        /\ \A v \in Labels : v # "mcast receiver" => Kept(files, files', v)
    BY <2>1, <2>2, Lived
  <2>4. /\ Holds(files', tcpClient, "tcp client")
        /\ Holds(files', client, "udp client")
        /\ Holds(files', sender, "mcast sender")
        /\ HoldsFd(files', server, "udp server")
        /\ Listeners(files', listener, callerFd)
        /\ Conns(files', slots)
    BY <2>3, Rest DEF Labels
  <2>5. server \in Fds \cup {NoFd}
    BY DEF OwnInv
  <2> QED BY <1>u, <2>1, <2>3, <2>4, <2>5 DEF OwnInv
<1> QED BY <1>1, <1>2, <1>3 DEF UdpClientNext, McastNext

LEMMA OwnedByUdpServer ==
  ASSUME OwnInv, UdpServerNext, UNCHANGED tcpAll
  PROVE  OwnInv'
<1> DEFINE Held(fd) == IF fd = NoFd THEN NoOwner ELSE Owner(fd)
<1>1. UNCHANGED <<listener, callerFd, slots, tcpClient, client, sender, receiver>>
  BY DEF UdpServerNext, udp_server_bind, udp_server_free
<1>2. /\ Holds(files, Held(server), "udp server") /\ "udp server" \in Labels
      /\ server \in Fds \cup {NoFd} /\ NoFd \notin Fds
  <2>1. NoFd \notin Fds
    BY SocketsAssumption DEF NoFd
  <2>2. Holds(files, Held(server), "udp server") /\ server \in Fds \cup {NoFd}
    BY DEF OwnInv, HoldsFd
  <2> QED BY <2>1, <2>2 DEF Labels
<1>3. Life(Held(server), Held(server'), "udp server") /\ server' \in Fds \cup {NoFd}
  <2>1. CASE udp_server_bind
    BY <1>2, <2>1 DEF udp_server_bind, Life
  <2>2. CASE udp_server_free
    <3>1. server \in Fds /\ CloseSockets({server}) /\ server' = NoFd
      BY <1>2, <2>2 DEF udp_server_free
    <3>2. Held(server) = Owner(server) /\ Held(server') = NoOwner
      BY <1>2, <3>1
    <3>3. CloseSockets(ToClose(Held(server)))
      BY <3>1, <3>2, OwnerFacts
    <3> QED BY <3>1, <3>2, <3>3 DEF Life
  <2> QED BY <2>1, <2>2 DEF UdpServerNext
<1>4. /\ Holds(files', Held(server'), "udp server")
      /\ files' \in [Fds -> Labels \cup {Closed}]
      /\ \A v \in Labels : v # "udp server" => Kept(files, files', v)
  BY <1>2, <1>3, Lived
<1>5. HoldsFd(files', server', "udp server")
  BY <1>4 DEF HoldsFd
<1>6. /\ Holds(files', tcpClient, "tcp client")
      /\ Holds(files', client, "udp client")
      /\ Holds(files', sender, "mcast sender")
      /\ Holds(files', receiver, "mcast receiver")
      /\ Listeners(files', listener, callerFd)
      /\ Conns(files', slots)
  BY <1>4, Rest DEF Labels
<1> QED BY <1>1, <1>3, <1>4, <1>5, <1>6 DEF OwnInv

-----------------------------------------------------------------------------
(* The TCP server: its listener, and its connections. *)
LEMMA TcpRest ==
  ASSUME OwnInv, UNCHANGED <<tcpClient, datagramVars>>, files' \in [Fds -> Labels \cup {Closed}],
         \A v \in Labels : v # "tcp server" /\ v # "tcp conn" => Kept(files, files', v),
         Listeners(files', listener', callerFd'), Conns(files', slots')
  PROVE  OwnInv'
<1>1. /\ HoldsFd(files', server, "udp server") /\ Holds(files', client, "udp client")
      /\ Holds(files', tcpClient, "tcp client")
      /\ Holds(files', sender, "mcast sender") /\ Holds(files', receiver, "mcast receiver")
  BY Rest DEF Labels
<1>2. server' \in Fds \cup {NoFd}
  BY DEF OwnInv
<1> QED BY <1>1, <1>2 DEF OwnInv

LEMMA NoFdIsNone == NoFd \notin Fds
BY SocketsAssumption DEF NoFd

LEMMA OwnedListener ==
  ASSUME OwnInv, Listen \/ CallerSocket \/ CallerClose \/ Adopt, ~adoptLost',
         UNCHANGED <<tcpClient, datagramVars>>
  PROVE  OwnInv'
<1>0. /\ Listeners(files, listener, callerFd) /\ "tcp server" \in Labels /\ "tcp conn" \in Labels
      /\ files \in [Fds -> Labels \cup {Closed}] /\ slots' = slots
  BY DEF OwnInv, Labels, Listen, CallerSocket, CallerClose, Adopt
<1>a. CASE files' = files /\ Listeners(files, listener', callerFd')
  <2>1. \A v \in Labels : Kept(files, files', v)
    BY <1>a DEF Kept
  <2> QED BY <1>0, <1>a, <2>1, Rest, TcpRest
<1>b. ASSUME NEW fd \in Fds, OpenSocket(fd, "tcp server"),
             \/ listener = NoFd /\ listener' = fd /\ callerFd' = callerFd
             \/ callerFd = NoFd /\ callerFd' = fd /\ listener' = listener
      PROVE  OwnInv'
  <2>1. /\ files' \in [Fds -> Labels \cup {Closed}] /\ files[fd] = Closed
        /\ \A v \in Labels : v # "tcp server" => Kept(files, files', v)
        /\ \A x \in Fds : files'[x] = "tcp server" <=> files[x] = "tcp server" \/ x = fd
    BY <1>0, <1>b, Opened
  <2>2. fd # listener /\ fd # callerFd
    BY <1>0, <2>1, NoFdIsNone DEF Listeners, Closed
  <2>3. Listeners(files', listener', callerFd')
    BY <1>0, <1>b, <2>1, <2>2, NoFdIsNone DEF Listeners
  <2>4. Conns(files', slots')
    BY <1>0, <2>1, Rest
  <2> QED BY <2>1, <2>3, <2>4, TcpRest
<1>1. CASE Listen
  <2>1. CASE OpenAndClose /\ listener' = listener
    BY <1>0, <1>1, <1>a, <2>1 DEF Listen, OpenAndClose
  <2>2. CASE \E fd \in Fds : OpenSocket(fd, "tcp server") /\ listener' = fd
    BY <1>1, <1>b, <2>2 DEF Listen
  <2> QED BY <1>1, <2>1, <2>2 DEF Listen
<1>2. CASE CallerSocket
  BY <1>2, <1>b DEF CallerSocket
<1>3. CASE Adopt
  <2>1. CASE listener' = callerFd /\ callerFd' = NoFd /\ files' = files
    <3>1. Listeners(files, listener', callerFd')
      BY <1>0, <1>3, <2>1, NoFdIsNone DEF Adopt, Listeners
    <3> QED BY <1>a, <2>1, <3>1
  <2>2. CASE UNCHANGED <<listener, callerFd, files>>
    BY <1>0, <1>a, <2>2
  <2> QED BY <1>3, <2>1, <2>2 DEF Adopt
<1>4. CASE CallerClose
  <2>1. /\ callerFd \in Fds /\ callerFd' = NoFd /\ listener' = listener
        /\ CloseSockets({callerFd})
    BY <1>0, <1>4 DEF CallerClose, Listeners
  <2>2. /\ files' \in [Fds -> Labels \cup {Closed}]
        /\ \A x \in Fds, v \in Labels : files'[x] = v <=> files[x] = v /\ x # callerFd
    BY <2>1, ClosedAre
  <2>3. files[callerFd] = "tcp server"
    BY <1>0, <2>1 DEF Listeners
  <2>4. \A v \in Labels : v # "tcp server" => Kept(files, files', v)
    BY <2>2, <2>3 DEF Kept
  <2>5. Listeners(files', listener', callerFd')
    BY <1>0, <2>1, <2>2, NoFdIsNone DEF Listeners
  <2>6. Conns(files', slots')
    BY <1>0, <2>4, Rest
  <2> QED BY <2>2, <2>4, <2>5, <2>6, TcpRest
<1> QED BY <1>1, <1>2, <1>3, <1>4

LEMMA StoredIs ==
  ASSUME IdInv, NEW id \in 0 .. next_id, NEW fd \in Fds, TakeId(id),
         server_store(id, Owner(fd))
  PROVE  /\ id \in DOMAIN slots' /\ slots'[id] = Owner(fd)
         /\ DOMAIN slots \subseteq DOMAIN slots'
         /\ \A i \in DOMAIN slots : i # id => slots'[i] = slots[i]
         /\ \A i \in DOMAIN slots' : i # id /\ i \notin DOMAIN slots => slots'[i] = NoOwner
<1>1. Cap \in Nat /\ DOMAIN slots = 0 .. Cap - 1 /\ id \in Nat /\ FirstCap \in Nat
  BY IdTaken, TcpAssumption DEF IdInv
<1>2. PICK n \in Cap .. 2 * (Cap + FirstCap + id) :
        /\ GrowTo(id, n)
        /\ slots' = [i \in 0 .. n - 1 |->
                       IF i = id THEN Owner(fd) ELSE IF i < Cap THEN slots[i] ELSE NoOwner]
  BY DEF server_store
<1>3. n \in Nat /\ Cap <= n
  BY <1>1
<1>4. id < n
  BY <1>2 DEF GrowTo
<1>5. /\ DOMAIN slots' = 0 .. n - 1
      /\ \A i \in 0 .. n - 1 :
           slots'[i] = IF i = id THEN Owner(fd) ELSE IF i < Cap THEN slots[i] ELSE NoOwner
  BY <1>2
<1>6. id \in 0 .. n - 1 /\ 0 .. Cap - 1 \subseteq 0 .. n - 1
      /\ \A i \in 0 .. n - 1 : i \in 0 .. Cap - 1 <=> i < Cap
  BY <1>1, <1>3, <1>4
<1> QED BY <1>1, <1>5, <1>6

(* An accepted connection: its descriptor was free, and so was its slot. *)
LEMMA OwnedStored ==
  ASSUME IdInv, OwnInv, UNCHANGED <<tcpClient, datagramVars, listener, callerFd>>,
         NEW id \in 0 .. next_id, NEW fd \in Fds, TakeId(id),
         OpenSocket(fd, "tcp conn"), server_store(id, Owner(fd))
  PROVE  OwnInv'
<1>0. /\ Cap \in Nat /\ DOMAIN slots = 0 .. Cap - 1 /\ slots \in [DOMAIN slots -> Owners]
      /\ Conns(files, slots)
      /\ "tcp server" \in Labels /\ "tcp conn" \in Labels
  BY DEF IdInv, OwnInv, Labels
<1>1. id \in Nat /\ id \notin Live
  BY IdTaken
<1>2. /\ files' \in [Fds -> Labels \cup {Closed}] /\ files[fd] = Closed
      /\ \A v \in Labels : v # "tcp conn" => Kept(files, files', v)
      /\ \A x \in Fds : files'[x] = "tcp conn" <=> files[x] = "tcp conn" \/ x = fd
  BY <1>0, Opened
<1>6. /\ id \in DOMAIN slots' /\ slots'[id] = Owner(fd)
      /\ DOMAIN slots \subseteq DOMAIN slots'
      /\ \A i \in DOMAIN slots' : i # id /\ i \notin DOMAIN slots => slots'[i] = NoOwner
  BY StoredIs
<1>8. ToClose(slots'[id]) = {fd}
  BY <1>6, OwnerFacts
<1>9. \A i \in DOMAIN slots : i # id => slots'[i] = slots[i]
  BY StoredIs
<1>10. id \in DOMAIN slots => ToClose(slots[id]) = {}
  BY <1>1, OwnerFacts DEF Live
<1>11. \A i \in DOMAIN slots' : i # id /\ i \notin DOMAIN slots => ToClose(slots'[i]) = {}
  BY <1>6, OwnerFacts
<1>12. \A i \in DOMAIN slots : fd \notin ToClose(slots[i])
  BY <1>0, <1>2 DEF Conns, Closed
<1>13. \A x \in Fds : (\E i \in DOMAIN slots' : x \in ToClose(slots'[i]))
                        <=> x = fd \/ \E i \in DOMAIN slots : x \in ToClose(slots[i])
  <2> SUFFICES ASSUME NEW x \in Fds
               PROVE (\E i \in DOMAIN slots' : x \in ToClose(slots'[i]))
                        <=> x = fd \/ \E i \in DOMAIN slots : x \in ToClose(slots[i])
    OBVIOUS
  <2>1. ASSUME NEW i \in DOMAIN slots', x \in ToClose(slots'[i])
        PROVE x = fd \/ \E j \in DOMAIN slots : x \in ToClose(slots[j])
    <3>1. CASE i = id
      BY <1>8, <2>1, <3>1
    <3>2. CASE i # id
      <4>1. i \in DOMAIN slots
        BY <1>11, <2>1, <3>2
      <4> QED BY <1>9, <2>1, <3>2, <4>1
    <3> QED BY <3>1, <3>2
  <2>2. ASSUME x = fd PROVE \E i \in DOMAIN slots' : x \in ToClose(slots'[i])
    BY <1>6, <1>8, <2>2
  <2>3. ASSUME NEW i \in DOMAIN slots, x \in ToClose(slots[i])
        PROVE \E j \in DOMAIN slots' : x \in ToClose(slots'[j])
    <3>1. i # id
      BY <1>10, <2>3
    <3> QED BY <1>6, <1>9, <2>3, <3>1
  <2> QED BY <2>1, <2>2, <2>3
<1>14. \A i, j \in DOMAIN slots' : i # j => ToClose(slots'[i]) \cap ToClose(slots'[j]) = {}
  <2> SUFFICES ASSUME NEW i \in DOMAIN slots', NEW j \in DOMAIN slots', i # j
               PROVE ToClose(slots'[i]) \cap ToClose(slots'[j]) = {}
    OBVIOUS
  <2>1. ASSUME NEW k \in DOMAIN slots', k # id PROVE fd \notin ToClose(slots'[k])
    BY <1>9, <1>11, <1>12, <2>1
  <2>2. CASE i = id \/ j = id
    BY <1>8, <2>1, <2>2
  <2>3. CASE i # id /\ j # id
    <3>1. CASE i \in DOMAIN slots /\ j \in DOMAIN slots
      BY <1>0, <1>9, <2>3, <3>1 DEF Conns
    <3>2. CASE i \notin DOMAIN slots \/ j \notin DOMAIN slots
      BY <1>11, <2>3, <3>2
    <3> QED BY <3>1, <3>2
  <2> QED BY <2>2, <2>3
<1>15. Conns(files', slots')
  BY <1>0, <1>2, <1>13, <1>14 DEF Conns
<1>16. Listeners(files', listener', callerFd')
  BY <1>0, <1>2, Rest
<1> QED BY <1>2, <1>15, <1>16, TcpRest

(* zcio_tcp_server_close_client and tcp_s_close close one connection's descriptor. *)
LEMMA OwnedClosed ==
  ASSUME IdInv, OwnInv, UNCHANGED <<tcpClient, datagramVars, listener, callerFd>>,
         NEW id \in DOMAIN slots, CloseSockets(ToClose(slots[id])),
         NEW o \in {NoOwner, ClosedOwner}, slots' = [slots EXCEPT ![id] = o]
  PROVE  OwnInv'
<1>0. /\ slots \in [DOMAIN slots -> Owners] /\ Conns(files, slots)
      /\ "tcp server" \in Labels /\ "tcp conn" \in Labels
  BY DEF IdInv, OwnInv, Labels
<1>1. /\ files' \in [Fds -> Labels \cup {Closed}]
      /\ \A x \in Fds, v \in Labels : files'[x] = v <=> files[x] = v /\ x \notin ToClose(slots[id])
  BY ClosedAre
<1>2. \A x \in Fds : x \in ToClose(slots[id]) => files[x] = "tcp conn"
  BY <1>0 DEF Conns
<1>3. \A v \in Labels : v # "tcp conn" => Kept(files, files', v)
  BY <1>1, <1>2 DEF Kept
<1>4. DOMAIN slots' = DOMAIN slots /\ \A i \in DOMAIN slots : i # id => slots'[i] = slots[i]
  BY <1>0
<1>5. ToClose(slots'[id]) = {}
  BY <1>0, OwnerFacts
<1>6. \A x \in Fds : files'[x] = "tcp conn" <=> \E i \in DOMAIN slots' : x \in ToClose(slots'[i])
  <2> SUFFICES ASSUME NEW x \in Fds
               PROVE  files'[x] = "tcp conn" <=> \E i \in DOMAIN slots' : x \in ToClose(slots'[i])
    OBVIOUS
  <2>1. files'[x] = "tcp conn" <=> files[x] = "tcp conn" /\ x \notin ToClose(slots[id])
    BY <1>0, <1>1
  <2>2. files[x] = "tcp conn" <=> \E i \in DOMAIN slots : x \in ToClose(slots[i])
    BY <1>0 DEF Conns
  <2>3. ASSUME NEW i \in DOMAIN slots, x \in ToClose(slots[i]), x \notin ToClose(slots[id])
        PROVE  \E j \in DOMAIN slots' : x \in ToClose(slots'[j])
    <3>1. i # id
      BY <2>3
    <3> QED BY <1>4, <2>3, <3>1
  <2>4. ASSUME NEW i \in DOMAIN slots', x \in ToClose(slots'[i])
        PROVE  /\ \E j \in DOMAIN slots : x \in ToClose(slots[j])
               /\ x \notin ToClose(slots[id])
    <3>1. i # id
      BY <1>5, <2>4
    <3>2. i \in DOMAIN slots /\ x \in ToClose(slots[i])
      BY <1>4, <2>4, <3>1
    <3>3. ToClose(slots[i]) \cap ToClose(slots[id]) = {}
      BY <1>0, <3>1, <3>2 DEF Conns
    <3> QED BY <3>2, <3>3
  <2> QED BY <2>1, <2>2, <2>3, <2>4
<1>7. \A i, j \in DOMAIN slots' : i # j => ToClose(slots'[i]) \cap ToClose(slots'[j]) = {}
  BY <1>0, <1>4, <1>5 DEF Conns
<1>8. Conns(files', slots')
  BY <1>6, <1>7 DEF Conns
<1>9. Listeners(files', listener', callerFd')
  BY <1>0, <1>3, Rest
<1> QED BY <1>1, <1>3, <1>8, <1>9, TcpRest

(* zcio_tcp_server_free closes the listener and every connection, and nothing else. *)
LEMMA OwnedFreed ==
  ASSUME IdInv, OwnInv, UNCHANGED <<tcpClient, datagramVars>>, Free
  PROVE  OwnInv'
<1> DEFINE S == {listener} \cup UNION {ToClose(slots[id]) : id \in Live}
<1>0. /\ slots \in [DOMAIN slots -> Owners] /\ Conns(files, slots)
      /\ Listeners(files, listener, callerFd) /\ listener # NoFd
      /\ "tcp server" \in Labels /\ "tcp conn" \in Labels
  BY DEF IdInv, OwnInv, Labels, Free
<1>1. CloseSockets(S) /\ listener' = NoFd /\ callerFd' = callerFd /\ DOMAIN slots' = {}
  BY DEF Free
<1>2. /\ files' \in [Fds -> Labels \cup {Closed}]
      /\ \A x \in Fds, v \in Labels : files'[x] = v <=> files[x] = v /\ x \notin S
  BY <1>1, ClosedAre
<1>3. \A x \in Fds : x \in S <=> x = listener \/ \E i \in DOMAIN slots : x \in ToClose(slots[i])
  BY OwnerFacts DEF Live
<1>4. \A x \in Fds : x \in S <=> x = listener \/ files[x] = "tcp conn"
  BY <1>0, <1>3 DEF Conns
<1>5. listener \in Fds /\ files[listener] = "tcp server"
  BY <1>0 DEF Listeners
<1> HIDE DEF S
<1>6. \A v \in Labels : v # "tcp server" /\ v # "tcp conn" => Kept(files, files', v)
  BY <1>2, <1>4, <1>5 DEF Kept
<1>7. Listeners(files', listener', callerFd')
  BY <1>0, <1>1, <1>2, <1>4, <1>5, NoFdIsNone DEF Listeners
<1>8. Conns(files', slots')
  BY <1>0, <1>1, <1>2, <1>4 DEF Conns
<1> QED BY <1>2, <1>6, <1>7, <1>8, TcpRest

LEMMA OwnStep ==
  ASSUME IdInv, OwnInv, [Next]_vars, ~adoptLost'
  PROVE  OwnInv'
<1>a. CASE /\ UNCHANGED <<files, server, client, sender, receiver, listener, callerFd>>
           /\ UNCHANGED <<tcpClient, slots>>
  BY <1>a DEF OwnInv
<1>1. CASE UNCHANGED vars
  BY <1>1, <1>a DEF vars
<1>2. CASE TcpServerNext /\ UNCHANGED <<tcpClient, datagramVars>>
  <2>1. CASE Listen \/ CallerSocket \/ CallerClose \/ Adopt
    BY <1>2, <2>1, OwnedListener
  <2>2. CASE Free
    BY <1>2, <2>2, OwnedFreed
  <2>3. CASE Accept
    <3>0. UNCHANGED <<tcpClient, datagramVars, listener, callerFd>>
      BY <1>2, <2>3 DEF Accept
    <3>1. CASE OpenAndClose /\ slots' = slots
      BY <1>a, <3>0, <3>1 DEF OpenAndClose
    <3>2. ASSUME NEW id \in 0 .. next_id, NEW fd \in Fds, TakeId(id),
                 OpenSocket(fd, "tcp conn"), server_store(id, Owner(fd))
          PROVE  OwnInv'
      BY <3>0, <3>2, OwnedStored
    <3> QED BY <2>3, <3>1, <3>2 DEF Accept, StoreFails
  <2>4. ASSUME NEW id \in DOMAIN slots, CloseClient(id) PROVE OwnInv'
    BY <1>2, <2>4, OwnedClosed DEF CloseClient
  <2>5. ASSUME NEW id \in DOMAIN slots, StreamClose(id) PROVE OwnInv'
    <3>1. slots[id] \in Owners /\ slots[id] # NoOwner /\ ~slots[id].closed
      BY <2>5 DEF StreamClose, Live, IdInv
    <3>2. ToClose(slots[id]) = {slots[id].fd}
      BY <3>1, OpenOwner
    <3> QED BY <1>2, <2>5, <3>2, OwnedClosed DEF StreamClose
  <2> QED BY <1>2, <2>1, <2>2, <2>3, <2>4, <2>5 DEF TcpServerNext
<1>3. CASE (UdpClientNext \/ McastNext) /\ UNCHANGED tcpAll
  BY <1>3, OwnedByStreams
<1>4. CASE UdpServerNext /\ UNCHANGED tcpAll
  BY <1>4, OwnedByUdpServer
<1>5. CASE ReceiveNext /\ UNCHANGED tcpAll
  <2>1. UNCHANGED <<files, server, client, sender, receiver>>
    BY <1>5 DEF ReceiveNext, Receive, RecvFails, Route, udp_pkt_read
  <2> QED BY <1>5, <1>a, <2>1
<1>6. CASE TcpClientNext /\ UNCHANGED <<tcpVars, datagramVars>>
  BY <1>6, OwnedByTcpClient
<1> QED BY <1>1, <1>2, <1>3, <1>4, <1>5, <1>6 DEF Next

(* An adopt that ran out of memory is not undone. *)
LEMMA LostStays ==
  ASSUME [Next]_vars, adoptLost
  PROVE  adoptLost'
<1>1. CASE UNCHANGED vars \/ UNCHANGED tcpVars
  BY <1>1 DEF vars
<1>2. CASE TcpServerNext
  BY <1>2 DEF TcpServerNext, Listen, CallerSocket, CallerClose, Adopt, Free, Accept, CloseClient,
              StreamClose
<1> QED BY <1>1, <1>2 DEF Next

(* SocketsOwned follows: the open descriptors are those of the labels, and those of each
   label are what its objects hold. *)
At(w) == {fd \in Fds : files[fd] = w}

LEMMA Disjoint ==
  ASSUME NEW S, NEW T, IsFiniteSet(S), IsFiniteSet(T), S \cap T = {}
  PROVE  /\ IsFiniteSet(S \cup T)
         /\ Cardinality(S) \in Nat /\ Cardinality(T) \in Nat
         /\ Cardinality(S \cup T) = Cardinality(S) + Cardinality(T)
<1>1. Cardinality(S \cap T) = 0
  BY FS_EmptySet
<1>2. Cardinality(S \cup T) = Cardinality(S) + Cardinality(T) - Cardinality(S \cap T)
      /\ IsFiniteSet(S \cup T)
  BY FS_Union
<1>3. Cardinality(S) \in Nat /\ Cardinality(T) \in Nat
  BY FS_CardinalityType
<1> QED BY <1>1, <1>2, <1>3

LEMMA OpenConns ==
  ASSUME IdInv, OwnInv
  PROVE  LET conns == {id \in Live : ~slots[id].closed}
         IN  /\ Cardinality(conns) = Cardinality(At("tcp conn"))
             /\ \A fd \in Fds : files[fd] = "tcp conn" => \E id \in conns : slots[id].fd = fd
<1> DEFINE conns == {id \in Live : ~slots[id].closed}
           f == [id \in conns |-> slots[id].fd]
<1>0. slots \in [DOMAIN slots -> Owners] /\ Conns(files, slots) /\ NoFd \notin Fds
  BY NoFdIsNone DEF IdInv, OwnInv
<1>1. \A id \in conns : /\ id \in DOMAIN slots /\ slots[id].fd \in Fds
                        /\ ToClose(slots[id]) = {slots[id].fd}
  BY <1>0, OpenOwner DEF Live
<1>2. \A id \in DOMAIN slots : ToClose(slots[id]) # {} => id \in conns
  BY <1>0, OwnerFacts DEF Live, ToClose
<1>3. \A fd \in Fds : files[fd] = "tcp conn" => \E id \in conns : slots[id].fd = fd
  <2> SUFFICES ASSUME NEW fd \in Fds, files[fd] = "tcp conn"
               PROVE  \E id \in conns : slots[id].fd = fd
    OBVIOUS
  <2>1. PICK id \in DOMAIN slots : fd \in ToClose(slots[id])
    BY <1>0 DEF Conns
  <2>2. id \in conns
    BY <1>2, <2>1
  <2> QED BY <1>1, <2>1, <2>2
<1>4. ASSUME NEW id \in conns PROVE slots[id].fd \in At("tcp conn")
  <2>1. \A fd \in Fds : files[fd] = "tcp conn" <=> \E k \in DOMAIN slots : fd \in ToClose(slots[k])
    BY <1>0 DEF Conns
  <2>2. slots[id].fd \in Fds /\ id \in DOMAIN slots /\ slots[id].fd \in ToClose(slots[id])
    BY <1>1
  <2> QED BY <2>1, <2>2 DEF At
<1>5. \A i, j \in conns : slots[i].fd = slots[j].fd => i = j
  <2> SUFFICES ASSUME NEW i \in conns, NEW j \in conns, slots[i].fd = slots[j].fd, i # j
               PROVE  FALSE
    OBVIOUS
  <2>1. ToClose(slots[i]) \cap ToClose(slots[j]) = {}
    BY <1>0, <1>1 DEF Conns
  <2>2. slots[i].fd \in ToClose(slots[i]) /\ slots[i].fd \in ToClose(slots[j])
    BY <1>1
  <2> QED BY <2>1, <2>2
<1>6. IsFiniteSet(conns)
  BY LiveFinite, FS_Subset
<1> HIDE DEF conns
<1>7. f \in [conns -> At("tcp conn")]
  BY <1>4
<1>8. f \in Injection(conns, At("tcp conn"))
  BY <1>5, <1>7 DEF Injection, IsInjective
<1>9. f \in Surjection(conns, At("tcp conn"))
  BY <1>3, <1>7 DEF Surjection, At
<1>10. ExistsBijection(conns, At("tcp conn"))
  BY <1>8, <1>9 DEF ExistsBijection, Bijection
<1>11. Cardinality(At("tcp conn")) = Cardinality(conns)
  BY <1>6, <1>10, FS_Bijection
<1> QED BY <1>3, <1>11 DEF conns

LEMMA OwnedOnce ==
  ASSUME IdInv, OwnInv
  PROVE  SocketsOwned
<1> DEFINE conns == {id \in Live : ~slots[id].closed}
           L == {listener, callerFd} \ {NoFd}
           U == {server} \ {NoFd}
           O == UNION {ToClose(o) : o \in {tcpClient, client, sender, receiver}}
<1>0. /\ files \in [Fds -> Labels \cup {Closed}] /\ NoFd \notin Fds /\ Closed \notin Labels
      /\ IsFiniteSet(Fds)
  BY NoFdIsNone, SocketsAssumption DEF OwnInv, Labels, Closed
<1>1. At("tcp server") = L
  BY <1>0 DEF OwnInv, Listeners, At
<1>2. At("udp server") = U
  <2>1. server \in Fds \cup {NoFd}
    BY DEF OwnInv
  <2>2. \A fd \in Fds : files[fd] = "udp server"
                          <=> fd \in ToClose(IF server = NoFd THEN NoOwner ELSE Owner(server))
    BY DEF OwnInv, HoldsFd, Holds
  <2> QED BY <1>0, <2>1, <2>2, OwnerFacts DEF At
<1>3. \A o \in Owners : ToClose(o) \subseteq Fds
  BY OwnerFacts DEF Owners
<1>4. /\ At("udp client") = ToClose(client) /\ At("mcast sender") = ToClose(sender)
      /\ At("mcast receiver") = ToClose(receiver) /\ At("tcp client") = ToClose(tcpClient)
  BY <1>3 DEF OwnInv, Holds, At
<1>5. O = At("tcp client") \cup At("udp client") \cup At("mcast sender") \cup At("mcast receiver")
  BY <1>4
<1>6. /\ Cardinality(conns) = Cardinality(At("tcp conn"))
      /\ \A fd \in Fds : files[fd] = "tcp conn" => \E id \in conns : slots[id].fd = fd
  BY OpenConns
<1> HIDE DEF conns, L, U, O
<1>7. \A w : IsFiniteSet(At(w)) /\ At(w) \subseteq Fds
  <2> SUFFICES ASSUME NEW w PROVE IsFiniteSet(At(w)) /\ At(w) \subseteq Fds
    OBVIOUS
  <2>1. At(w) \subseteq Fds
    BY DEF At
  <2> QED BY <1>0, <2>1, FS_Subset
<1>8. O \subseteq Fds /\ IsFiniteSet(O)
  <2>1. O \subseteq Fds
    BY <1>5, <1>7
  <2> QED BY <1>0, <2>1, FS_Subset
<1>9. {fd \in Fds : files[fd] # Closed} = ((At("tcp conn") \cup L) \cup U) \cup O
  BY <1>0, <1>1, <1>2, <1>5 DEF At, Labels
<1>10. At("tcp conn") \cap L = {} /\ (At("tcp conn") \cup L) \cap U = {}
  BY <1>1, <1>2 DEF At
<1>11. ((At("tcp conn") \cup L) \cup U) \cap O = {}
  BY <1>1, <1>2, <1>5 DEF At
<1>12. IsFiniteSet(L) /\ IsFiniteSet(U) /\ IsFiniteSet(At("tcp conn"))
  BY <1>1, <1>2, <1>7
<1>13. /\ IsFiniteSet(At("tcp conn") \cup L)
       /\ Cardinality(At("tcp conn") \cup L) = Cardinality(At("tcp conn")) + Cardinality(L)
       /\ Cardinality(At("tcp conn")) \in Nat /\ Cardinality(L) \in Nat
  BY <1>10, <1>12, Disjoint
<1>14. /\ IsFiniteSet((At("tcp conn") \cup L) \cup U)
       /\ Cardinality((At("tcp conn") \cup L) \cup U)
            = Cardinality(At("tcp conn") \cup L) + Cardinality(U)
       /\ Cardinality(U) \in Nat
  BY <1>10, <1>12, <1>13, Disjoint
<1>15. /\ Cardinality(((At("tcp conn") \cup L) \cup U) \cup O)
            = Cardinality((At("tcp conn") \cup L) \cup U) + Cardinality(O)
       /\ Cardinality(O) \in Nat
  BY <1>8, <1>11, <1>14, Disjoint
<1>16. Cardinality({fd \in Fds : files[fd] # Closed})
         = Cardinality(conns) + Cardinality(L) + Cardinality(U) + Cardinality(O)
  BY <1>6, <1>9, <1>13, <1>14, <1>15
<1>17. ASSUME NEW fd \in Fds
       PROVE  CASE files[fd] = "tcp server"     -> fd \in {listener, callerFd}
                [] files[fd] = "tcp conn"       -> \E id \in conns : slots[id].fd = fd
                [] files[fd] = "tcp client"     -> fd \in ToClose(tcpClient)
                [] files[fd] = "udp server"     -> fd = server
                [] files[fd] = "udp client"     -> fd \in ToClose(client)
                [] files[fd] = "mcast sender"   -> fd \in ToClose(sender)
                [] files[fd] = "mcast receiver" -> fd \in ToClose(receiver)
                [] OTHER                        -> TRUE
  <2>1. files[fd] = "tcp server" => fd \in {listener, callerFd}
    BY <1>1 DEF At, L
  <2>2. files[fd] = "udp server" => fd = server
    BY <1>2 DEF At, U
  <2>3. /\ files[fd] = "tcp client" => fd \in ToClose(tcpClient)
        /\ files[fd] = "udp client" => fd \in ToClose(client)
        /\ files[fd] = "mcast sender" => fd \in ToClose(sender)
        /\ files[fd] = "mcast receiver" => fd \in ToClose(receiver)
    BY <1>4 DEF At
  <2> QED BY <1>6, <2>1, <2>2, <2>3
<1> QED BY <1>16, <1>17 DEF SocketsOwned, conns, L, U, O
-----------------------------------------------------------------------------
(* The buffers of the UDP server. *)
LEMMA IndexIs ==
  ASSUME peers \in Seq(Entry), NEW p
  PROVE  /\ IndexOf(p) \in 1 .. Len(peers) + 1
         /\ IndexOf(p) <= Len(peers) => peers[IndexOf(p)].addr = p
         /\ IndexOf(p) = Len(peers) + 1 => \A i \in DOMAIN peers : peers[i].addr # p
<1> DEFINE known == {i \in DOMAIN peers : peers[i].addr = p}
<1>1. Len(peers) \in Nat /\ DOMAIN peers = 1 .. Len(peers)
  OBVIOUS
<1>2. CASE known = {}
  BY <1>1, <1>2 DEF IndexOf
<1>3. CASE known # {}
  <2>1. IndexOf(p) \in known
    BY <1>3 DEF IndexOf
  <2> QED BY <1>1, <2>1
<1> QED BY <1>2, <1>3

LEMMA BytesAre ==
  ASSUME NEW d \in Datagram
  PROVE  /\ d.size \in Nat /\ d.size \in Sizes /\ d.from \in Peers
         /\ \A i \in 1 .. d.size : /\ Bytes(d)[i] = <<d.from, d.size, i>>
                                   /\ Bytes(d)[i] \in Byte
<1>1. d.size \in Nat /\ d.size \in Sizes /\ d.from \in Peers
  BY DatagramsAssumption DEF Datagram
<1>2. ASSUME NEW i \in 1 .. d.size
      PROVE  Bytes(d)[i] = <<d.from, d.size, i>> /\ <<d.from, d.size, i>> \in Byte
  <2>1. i \in Nat
    BY <1>1
  <2> QED BY <1>1, <2>1 DEF Bytes, Byte
<1> QED BY <1>1, <1>2

(* The tail of receive: the buffer holds the datagram, none of it read. *)
LEMMA Filled ==
  ASSUME NEW e \in Entry, NEW d \in Datagram
  PROVE  /\ Fill(e, d) \in Entry /\ Fill(e, d).addr = e.addr
         /\ Holding(Fill(e, d), d, <<>>)
<1> DEFINE m == Max({Len(e.buf), d.size})
           b == [i \in 1 .. m |-> IF i <= d.size THEN Bytes(d)[i] ELSE e.buf[i]]
<1>1. e.buf \in Seq(Byte) /\ Len(e.buf) \in Nat /\ e.addr \in Peers
  BY DEF Entry
<1>2. m \in Nat /\ d.size <= m /\ m \in {Len(e.buf), d.size}
  BY <1>1, BytesAre, MaxIs
<1>3. Fill(e, d) = [e EXCEPT !.buf = b, !.buf_len = d.size, !.buf_pos = 0]
  BY DEF Fill
<1>4. ASSUME NEW i \in 1 .. m
      PROVE  (IF i <= d.size THEN Bytes(d)[i] ELSE e.buf[i]) \in Byte
  <2>1. CASE i <= d.size
    BY <1>2, <2>1, BytesAre
  <2>2. CASE ~(i <= d.size)
    <3>1. i \in 1 .. Len(e.buf)
      BY <1>1, <1>2, <2>2, BytesAre
    <3> QED BY <1>1, <2>2, <3>1
  <2> QED BY <2>1, <2>2
<1>5. ASSUME NEW i \in 1 .. d.size PROVE b[i] = <<d.from, d.size, i>>
  <2>1. d.size \in Nat /\ Bytes(d)[i] = <<d.from, d.size, i>>
    BY BytesAre
  <2>2. i \in 1 .. m /\ i <= d.size
    BY <1>2, <2>1
  <2> QED BY <2>1, <2>2
<1> HIDE DEF m
<1>6. b \in Seq(Byte) /\ Len(b) = m
  <2>1. b \in [1 .. m -> Byte]
    BY <1>4
  <2> QED BY <1>2, <2>1
<1> HIDE DEF b
<1>7. d.size \in Nat /\ 0 \in Nat
  BY BytesAre
<1>8. /\ Fill(e, d) \in Entry
      /\ Fill(e, d).addr = e.addr /\ Fill(e, d).buf = b
      /\ Fill(e, d).buf_len = d.size /\ Fill(e, d).buf_pos = 0
  BY <1>1, <1>3, <1>6, <1>7 DEF Entry
<1>9. Len(<<>>) = 0 /\ 1 .. 0 = {}
  OBVIOUS
<1> QED BY <1>2, <1>5, <1>6, <1>8, <1>9, BytesAre DEF Holding

(* server_peer and the copy: entry `at' is replaced or appended. *)
LEMMA Extended ==
  ASSUME NEW n \in Nat, NEW at \in Nat, at \in 1 .. n + 1,
         NEW m \in Nat, m = n \/ m = at, m >= n, m >= at
  PROVE  1 .. m = 1 .. n \cup {at}
OBVIOUS

Put(at, e) == [i \in 1 .. Max({Len(peers), at}) |-> IF i = at THEN e ELSE peers[i]]
LEMMA PutIs ==
  ASSUME peers \in Seq(Entry), NEW at \in 1 .. Len(peers) + 1, NEW e \in Entry
  PROVE  /\ Put(at, e) \in Seq(Entry) /\ DOMAIN Put(at, e) = 1 .. Len(Put(at, e))
         /\ DOMAIN Put(at, e) = DOMAIN peers \cup {at} /\ Put(at, e)[at] = e
         /\ \A i \in DOMAIN peers : i # at => Put(at, e)[i] = peers[i]
<1> DEFINE m == Max({Len(peers), at})
<1>1. Len(peers) \in Nat /\ DOMAIN peers = 1 .. Len(peers) /\ at \in Nat
  OBVIOUS
<1>2. m \in Nat /\ m >= at /\ m >= Len(peers) /\ m \in {Len(peers), at}
  BY <1>1, MaxIs
<1>3. Put(at, e) = [i \in 1 .. m |-> IF i = at THEN e ELSE peers[i]]
  BY DEF Put
<1> HIDE DEF m
<1>4. 1 .. m = 1 .. Len(peers) \cup {at}
  <2>1. m \in {Len(peers), at}
    BY <1>2
  <2> QED BY <1>1, <1>2, <2>1, Extended
<1>5. \A i \in 1 .. m : (IF i = at THEN e ELSE peers[i]) \in Entry
  BY <1>1, <1>4
<1>6. Put(at, e) \in Seq(Entry) /\ DOMAIN Put(at, e) = 1 .. m
  BY <1>2, <1>3, <1>5
<1>7. DOMAIN Put(at, e) = 1 .. Len(Put(at, e))
  BY <1>6
<1> QED BY <1>1, <1>3, <1>4, <1>6, <1>7

(* Entry `at' of peer p is written, together with what the history says of p. *)
LEMMA PutKeeps ==
  ASSUME BufInv, NEW p \in Peers, NEW e \in Entry, e.addr = p,
         peers' = Put(IndexOf(p), e),
         NEW d \in [from : Peers, size : Nat], d.from = p, NEW g \in Seq(Byte),
         Holding(e, d, g),
         last' = [last EXCEPT ![p] = d], got' = [got EXCEPT ![p] = g]
  PROVE  BufInv'
<1> DEFINE at == IndexOf(p)
<1>1. /\ at \in 1 .. Len(peers) + 1 /\ (at <= Len(peers) => peers[at].addr = p)
      /\ (at = Len(peers) + 1 => \A i \in DOMAIN peers : peers[i].addr # p)
      /\ Len(peers) \in Nat /\ DOMAIN peers = 1 .. Len(peers)
  BY IndexIs DEF BufInv
<1>2. /\ peers' \in Seq(Entry) /\ DOMAIN peers' = DOMAIN peers \cup {at} /\ peers'[at] = e
      /\ \A i \in DOMAIN peers : i # at => peers'[i] = peers[i]
  <2>1. at \in 1 .. Len(peers) + 1 /\ peers \in Seq(Entry)
    BY <1>1 DEF BufInv
  <2>2. peers' = Put(at, e)
    OBVIOUS
  <2> HIDE DEF at
  <2>3. /\ Put(at, e) \in Seq(Entry)
        /\ DOMAIN Put(at, e) = DOMAIN peers \cup {at} /\ Put(at, e)[at] = e
        /\ \A i \in DOMAIN peers : i # at => Put(at, e)[i] = peers[i]
    BY <2>1, PutIs
  <2> QED BY <2>2, <2>3
<1>3. \A i \in DOMAIN peers : peers[i].addr = p => i = at
  <2> SUFFICES ASSUME NEW i \in DOMAIN peers, peers[i].addr = p PROVE i = at
    OBVIOUS
  <2>1. at \in DOMAIN peers
    BY <1>1
  <2> QED BY <1>1, <2>1 DEF BufInv
<1> HIDE DEF at
<1>4. /\ last' \in [Peers -> [from : Peers, size : Nat]] /\ got' \in [Peers -> Seq(Byte)]
      /\ last'[p] = d /\ got'[p] = g
      /\ \A q \in Peers : q # p => last'[q] = last[q] /\ got'[q] = got[q]
  BY DEF BufInv
<1>5. \A q \in Peers : last'[q].from = q
  BY <1>4 DEF BufInv
<1>6. \A i \in DOMAIN peers : peers[i].addr \in Peers
  <2>1. \A i \in DOMAIN peers : peers[i] \in Entry
    BY DEF BufInv
  <2> QED BY <2>1 DEF Entry
<1>7. \A i, j \in DOMAIN peers' : peers'[i].addr = peers'[j].addr => i = j
  BY <1>2, <1>3 DEF BufInv
<1>8. ASSUME NEW i \in DOMAIN peers'
      PROVE  Holding(peers'[i], last'[peers'[i].addr], got'[peers'[i].addr])
  <2>1. CASE i = at
    BY <1>2, <1>4, <2>1
  <2>2. CASE i # at
    <3>1. i \in DOMAIN peers /\ peers'[i] = peers[i] /\ peers[i].addr \in Peers \ {p}
      BY <1>2, <1>3, <1>6, <2>2
    <3> QED BY <1>4, <3>1 DEF BufInv
  <2> QED BY <2>1, <2>2
<1>9. ASSUME NEW q \in Peers, \A i \in DOMAIN peers' : peers'[i].addr # q
      PROVE  last'[q] = NoDatagram(q) /\ got'[q] = <<>>
  <2>1. q # p
    BY <1>2, <1>9
  <2>2. ASSUME NEW i \in DOMAIN peers PROVE peers[i].addr # q
    <3>1. i \in DOMAIN peers' /\ (i # at => peers'[i] = peers[i])
      BY <1>2
    <3>2. CASE i = at
      BY <1>1, <2>1, <3>2 DEF at
    <3> QED BY <1>9, <3>1, <3>2
  <2> QED BY <1>4, <2>1, <2>2 DEF BufInv
<1> QED BY <1>2, <1>4, <1>5, <1>7, <1>8, <1>9 DEF BufInv

(* What server_peer returns, found or made, holds what the history says. *)
LEMMA EntryHolds ==
  ASSUME BufInv, NEW p \in Peers
  PROVE  /\ EntryOf(p) \in Entry /\ EntryOf(p).addr = p
         /\ Holding(EntryOf(p), last[p], got[p])
<1>1. /\ IndexOf(p) \in 1 .. Len(peers) + 1
      /\ (IndexOf(p) <= Len(peers) => peers[IndexOf(p)].addr = p)
      /\ (IndexOf(p) = Len(peers) + 1 => \A i \in DOMAIN peers : peers[i].addr # p)
      /\ Len(peers) \in Nat /\ DOMAIN peers = 1 .. Len(peers)
  BY IndexIs DEF BufInv
<1>2. CASE IndexOf(p) <= Len(peers)
  <2>1. IndexOf(p) \in DOMAIN peers /\ EntryOf(p) = peers[IndexOf(p)]
    BY <1>1, <1>2 DEF EntryOf
  <2> QED BY <1>1, <1>2, <2>1 DEF BufInv
<1>3. CASE ~(IndexOf(p) <= Len(peers))
  <2> DEFINE e == [addr |-> p, buf |-> <<>>, buf_len |-> 0, buf_pos |-> 0]
  <2>1. EntryOf(p) = e
    BY <1>3 DEF EntryOf
  <2>2. IndexOf(p) = Len(peers) + 1
    BY <1>1, <1>3
  <2>3. last[p].size = 0 /\ got[p] = <<>>
    BY <1>1, <2>2 DEF BufInv, NoDatagram
  <2>4. <<>> \in Seq(Byte) /\ 0 \in Nat /\ Len(<<>>) = 0 /\ 1 .. 0 = {}
    OBVIOUS
  <2>5. e \in Entry /\ e.addr = p
    BY <2>4 DEF Entry
  <2>6. Holding(e, last[p], got[p])
    BY <2>3, <2>4 DEF Holding
  <2> QED BY <2>1, <2>5, <2>6
<1> QED BY <1>2, <1>3

LEMMA BufRoute ==
  ASSUME BufInv, NEW d \in Datagram, Route(d)
  PROVE  BufInv'
<1> DEFINE p == d.from
           e == EntryOf(p)
<1>1. p \in Peers /\ d \in [from : Peers, size : Nat] /\ d.from = p /\ <<>> \in Seq(Byte)
  <2>1. \E q \in Peers, n \in Sizes : d = [from |-> q, size |-> n]
    BY DEF Datagram
  <2> QED BY <2>1, DatagramsAssumption
<1>2. e \in Entry /\ e.addr = p /\ Holding(e, last[p], got[p])
  BY <1>1, EntryHolds
<1>3. CASE UNCHANGED <<peers, last, got>>
  BY <1>3 DEF BufInv
<1>4. CASE /\ peers' = Put(IndexOf(p), Fill(e, d))
           /\ last' = [last EXCEPT ![p] = d] /\ got' = [got EXCEPT ![p] = <<>>]
  <2>1. Fill(e, d) \in Entry /\ Fill(e, d).addr = p /\ Holding(Fill(e, d), d, <<>>)
    BY <1>2, Filled
  <2> HIDE DEF p, e
  <2> QED BY <1>1, <1>4, <2>1, PutKeeps
<1>5. CASE peers' = Put(IndexOf(p), e) /\ UNCHANGED <<last, got>>
  <2>1. /\ last \in [Peers -> [from : Peers, size : Nat]] /\ got \in [Peers -> Seq(Byte)]
        /\ last[p].from = p
    BY <1>1 DEF BufInv
  <2> HIDE DEF p, e
  <2>2. last[p] \in [from : Peers, size : Nat] /\ got[p] \in Seq(Byte)
    BY <1>1, <2>1
  <2>3. last' = [last EXCEPT ![p] = last[p]] /\ got' = [got EXCEPT ![p] = got[p]]
    BY <1>5, <2>1
  <2> QED BY <1>1, <1>2, <1>5, <2>1, <2>2, <2>3, PutKeeps
<1> QED BY <1>3, <1>4, <1>5 DEF Route, Put

(* udp_pkt_read: the bytes that are read are the next ones of the datagram. *)
LEMMA ReadOn ==
  ASSUME NEW e \in Entry, NEW d, NEW read \in Seq(Byte), Holding(e, d, read),
         NEW take \in Nat, take <= e.buf_len - e.buf_pos
  PROVE  LET to == e.buf_pos + take
             more == read \o SubSeq(e.buf, e.buf_pos + 1, to)
         IN  more \in Seq(Byte) /\ Holding([e EXCEPT !.buf_pos = to], d, more)
<1>1. PICK pos \in Nat, len \in Nat, b \in Seq(Byte) :
        pos = e.buf_pos /\ len = e.buf_len /\ b = e.buf
  BY DEF Entry
<1>2. /\ len = d.size /\ len <= Len(b) /\ pos <= len /\ Len(read) = pos /\ Len(b) \in Nat
      /\ \A i \in 1 .. len : b[i] = <<d.from, d.size, i>>
      /\ \A i \in 1 .. pos : read[i] = <<d.from, d.size, i>>
  <2>1. Len(b) \in Nat
    BY <1>1
  <2>2. /\ e.buf_len = d.size /\ e.buf_len <= Len(e.buf) /\ e.buf_pos <= e.buf_len
        /\ Len(read) = e.buf_pos
        /\ \A i \in 1 .. e.buf_len : e.buf[i] = <<d.from, d.size, i>>
        /\ \A i \in 1 .. e.buf_pos : read[i] = <<d.from, d.size, i>>
    BY DEF Holding
  <2> QED BY <1>1, <2>1, <2>2
<1>3. PICK to \in Nat : to = pos + take /\ to <= len
  BY <1>1, <1>2
<1> DEFINE next == SubSeq(b, pos + 1, to)
           more == read \o next
<1>4. next \in Seq(Byte) /\ Len(next) = take /\ \A i \in 1 .. take : next[i] = b[pos + i]
  BY <1>2, <1>3
<1> HIDE DEF next
<1>5. /\ more \in Seq(Byte) /\ Len(more) = to
      /\ \A i \in 1 .. to : more[i] = IF i <= pos THEN read[i] ELSE next[i - pos]
  BY <1>2, <1>3, <1>4
<1> HIDE DEF more
<1>6. ASSUME NEW i \in 1 .. to PROVE more[i] = <<d.from, d.size, i>>
  <2>1. CASE i <= pos
    BY <1>2, <1>5, <2>1
  <2>2. CASE ~(i <= pos)
    <3>1. i - pos \in 1 .. take /\ i \in 1 .. len /\ pos + (i - pos) = i
      BY <1>3, <2>2
    <3>2. more[i] = b[i]
      BY <1>4, <1>5, <2>2, <3>1
    <3> QED BY <1>2, <3>1, <3>2
  <2> QED BY <2>1, <2>2
<1>7. /\ [e EXCEPT !.buf_pos = to].buf = b /\ [e EXCEPT !.buf_pos = to].buf_len = len
      /\ [e EXCEPT !.buf_pos = to].buf_pos = to
  BY <1>1 DEF Entry
<1>8. Holding([e EXCEPT !.buf_pos = to], d, more)
  BY <1>2, <1>3, <1>5, <1>6, <1>7 DEF Holding
<1> QED BY <1>1, <1>3, <1>5, <1>8 DEF more, next

LEMMA BufRead ==
  ASSUME BufInv, NEW i \in DOMAIN peers, NEW n \in Sizes \ {0}, udp_pkt_read(i, n)
  PROVE  BufInv'
<1> DEFINE e == peers[i]
           p == e.addr
           take == Min({e.buf_len - e.buf_pos, n})
           to == e.buf_pos + take
           f == [e EXCEPT !.buf_pos = to]
           g == got[p] \o SubSeq(e.buf, e.buf_pos + 1, to)
<1>1. /\ e \in Entry /\ p \in Peers /\ e.buf_len \in Nat /\ e.buf_pos \in Nat
      /\ e.buf_pos <= e.buf_len /\ n \in Nat
  <2>1. e \in Entry
    BY DEF BufInv
  <2>2. Holding(e, last[p], got[p])
    BY DEF BufInv
  <2> QED BY <2>1, <2>2, DatagramsAssumption DEF Entry, Holding
<1>2. /\ Holding(e, last[p], got[p]) /\ got[p] \in Seq(Byte)
      /\ last[p] \in [from : Peers, size : Nat] /\ last[p].from = p
      /\ last \in [Peers -> [from : Peers, size : Nat]]
  BY <1>1 DEF BufInv
<1>3. /\ peers' = [peers EXCEPT ![i] = f] /\ got' = [got EXCEPT ![p] = g] /\ last' = last
  BY DEF udp_pkt_read
<1>4. take \in Nat /\ take <= e.buf_len - e.buf_pos
  <2>1. e.buf_len - e.buf_pos \in Nat
    BY <1>1
  <2> QED BY <1>1, <2>1, MinIs
<1>5. IndexOf(p) = i
  <2>1. /\ IndexOf(p) \in 1 .. Len(peers) + 1
        /\ (IndexOf(p) <= Len(peers) => peers[IndexOf(p)].addr = p)
        /\ (IndexOf(p) = Len(peers) + 1 => \A k \in DOMAIN peers : peers[k].addr # p)
        /\ Len(peers) \in Nat /\ DOMAIN peers = 1 .. Len(peers)
    BY IndexIs DEF BufInv
  <2>2. IndexOf(p) \in DOMAIN peers
    BY <2>1
  <2> QED BY <2>1, <2>2 DEF BufInv
<1> HIDE DEF take
<1>6. g \in Seq(Byte) /\ Holding(f, last[p], g)
  BY <1>1, <1>2, <1>4, ReadOn
<1>7. f \in Entry /\ f.addr = p
  BY <1>1, <1>4 DEF Entry
<1> HIDE DEF e, p, to, f, g
<1>8. peers' = Put(IndexOf(p), f)
  <2>1. Len(peers) \in Nat /\ DOMAIN peers = 1 .. Len(peers) /\ i \in Nat /\ i <= Len(peers)
    BY DEF BufInv
  <2>2. Max({Len(peers), i}) = Len(peers)
    BY <2>1, MaxIs
  <2> QED BY <1>3, <1>5, <2>1, <2>2 DEF Put
<1>9. last' = [last EXCEPT ![p] = last[p]]
  BY <1>2, <1>3
<1> QED BY <1>1, <1>2, <1>3, <1>6, <1>7, <1>8, <1>9, PutKeeps

LEMMA BufClear ==
  peers = <<>> /\ last = [p \in Peers |-> NoDatagram(p)] /\ got = [p \in Peers |-> <<>>]
    => BufInv
<1> SUFFICES ASSUME peers = <<>>, last = [p \in Peers |-> NoDatagram(p)],
                    got = [p \in Peers |-> <<>>]
             PROVE  BufInv
  OBVIOUS
<1>1. <<>> \in Seq(Entry) /\ <<>> \in Seq(Byte) /\ DOMAIN peers = {} /\ 0 \in Nat
  OBVIOUS
<1>2. \A p \in Peers : /\ NoDatagram(p) \in [from : Peers, size : Nat]
                        /\ NoDatagram(p).from = p
  BY <1>1 DEF NoDatagram
<1> QED BY <1>1, <1>2 DEF BufInv

LEMMA BufStep ==
  ASSUME BufInv, [Next]_vars
  PROVE  BufInv'
<1>1. CASE UNCHANGED <<peers, last, got>>
  BY <1>1 DEF BufInv
<1>2. CASE UNCHANGED vars \/ UNCHANGED datagramVars
  BY <1>1, <1>2 DEF vars
<1>3. CASE UdpClientNext \/ McastNext
  <2>1. UNCHANGED <<peers, last, got>>
    BY <1>3 DEF UdpClientNext, McastNext, udp_client_open, udp_cli_close, udp_client_free, mcast_sender_open,
                mcast_send_close, mcast_sender_free, mcast_receiver_open, mcast_recv_close,
                mcast_receiver_free
  <2> QED BY <1>1, <2>1
<1>4. CASE udp_server_bind
  BY <1>1, <1>4 DEF udp_server_bind
<1>5. CASE udp_server_free
  <2>1. (peers = <<>> /\ last = [p \in Peers |-> NoDatagram(p)]
          /\ got = [p \in Peers |-> <<>>])'
    BY <1>5 DEF udp_server_free, NoDatagram
  <2> QED BY <2>1, BufClear, PTL
<1>6. ASSUME NEW non_block \in BOOLEAN, NEW timeout \in Timeouts, Receive(non_block, timeout)
      PROVE  BufInv'
  BY <1>1, <1>6 DEF Receive
<1>7. CASE RecvFails
  BY <1>1, <1>7 DEF RecvFails
<1>8. ASSUME NEW d \in Datagram, Route(d) PROVE BufInv'
  BY <1>8, BufRoute
<1>9. ASSUME NEW i \in DOMAIN peers, NEW n \in Sizes \ {0}, udp_pkt_read(i, n)
      PROVE  BufInv'
  BY <1>9, BufRead
<1> QED BY <1>2, <1>3, <1>4, <1>5, <1>6, <1>7, <1>8, <1>9 DEF Next, UdpServerNext, ReceiveNext

(* DatagramsWhole follows, with or without a buffer for the peer. *)
LEMMA BufWhole ==
  ASSUME BufInv
  PROVE  DatagramsWhole
<1> SUFFICES ASSUME NEW p \in Peers PROVE IsPrefix(got[p], Bytes(last[p]))
  BY DEF BufInv, DatagramsWhole
<1> DEFINE g == got[p]
           d == last[p]
<1>1. g \in Seq(Byte) /\ d.size \in Nat /\ Len(g) \in Nat
  BY DEF BufInv
<1>2. Len(g) <= d.size /\ \A i \in 1 .. Len(g) : g[i] = <<d.from, d.size, i>>
  <2>1. CASE \A i \in DOMAIN peers : peers[i].addr # p
    <3>1. g = <<>>
      BY <2>1 DEF BufInv
    <3>2. Len(g) = 0 /\ 1 .. 0 = {}
      BY <3>1
    <3> QED BY <1>1, <3>2
  <2>2. CASE \E i \in DOMAIN peers : peers[i].addr = p
    <3>1. PICK i \in DOMAIN peers : peers[i].addr = p
      BY <2>2
    <3>2. Holding(peers[i], d, g)
      BY <3>1 DEF BufInv
    <3> QED BY <1>1, <3>2 DEF Holding
  <2> QED BY <2>1, <2>2
<1>3. Bytes(d) = [i \in 1 .. d.size |-> <<d.from, d.size, i>>]
  BY DEF Bytes
<1> DEFINE S == {<<d.from, d.size, i>> : i \in Nat}
<1> HIDE DEF g, d
<1>4. ASSUME NEW i \in 1 .. d.size PROVE <<d.from, d.size, i>> \in S
  BY <1>1
<1> HIDE DEF S
<1>5. Bytes(d) \in [1 .. d.size -> S]
  BY <1>3, <1>4
<1>6. Bytes(d) \in Seq(S) /\ Len(Bytes(d)) = d.size
  BY <1>1, <1>5
<1>7. ASSUME NEW i \in 1 .. Len(g) PROVE Bytes(d)[i] = g[i]
  <2>1. i \in 1 .. d.size
    BY <1>1, <1>2
  <2> QED BY <1>2, <1>3, <2>1
<1>8. /\ Bytes(d) \in Seq(S) /\ Len(Bytes(d)) = d.size
      /\ \A i \in 1 .. Len(g) : Bytes(d)[i] = g[i]
  BY <1>6, <1>7
<1>9. SubSeq(g, 1, Len(g)) = [i \in 1 .. Len(g) |-> g[i]]
      /\ SubSeq(Bytes(d), 1, Len(g)) = [i \in 1 .. Len(g) |-> Bytes(d)[i]]
  BY <1>1, <1>2, <1>8
<1>10. SubSeq(g, 1, Len(g)) = SubSeq(Bytes(d), 1, Len(g))
  BY <1>8, <1>9
<1>11. IsPrefix(g, Bytes(d))
  BY <1>1, <1>2, <1>8, <1>10 DEF IsPrefix
<1> QED BY <1>11 DEF g, d

(* IdsSound, from its entry-by-entry form. *)
LEMMA IdsAre ==
  ASSUME IdInv
  PROVE  IdsSound
<1>1. DOMAIN free_ids = 1 .. Len(free_ids)
  BY DEF IdInv
<1>2. \A id \in Range(free_ids) : \E i \in 1 .. Len(free_ids) : id = free_ids[i]
  BY <1>1 DEF Range
<1>3. \A i \in 1 .. Len(free_ids) : free_ids[i] \notin Live /\ free_ids[i] < next_id
  BY DEF IdInv
<1>4. Live \cap Range(free_ids) = {} /\ \A id \in Range(free_ids) : id < next_id
  BY <1>2, <1>3
<1>5. IsInjective(free_ids)
  BY <1>1 DEF IdInv, IsInjective
<1> QED BY <1>4, <1>5 DEF IdInv, IdsSound

-----------------------------------------------------------------------------
LEMMA OwnStart ==
  ASSUME Init
  PROVE  OwnInv
<1>1. /\ files = [fd \in Fds |-> Closed] /\ Closed \notin Labels
      /\ server = NoFd /\ listener = NoFd /\ callerFd = NoFd
      /\ tcpClient = NoOwner /\ client = NoOwner /\ sender = NoOwner /\ receiver = NoOwner
      /\ DOMAIN slots = {} /\ NoFd \notin Fds
  BY NoFdIsNone DEF Init, SocketsInit, TcpInit, DatagramsInit, EmptyTable, Labels, Closed
<1>2. \A w \in Labels : \A fd \in Fds : files[fd] # w
  BY <1>1
<1>3. \A w \in Labels : Holds(files, NoOwner, w)
  BY <1>2, OwnerFacts DEF Holds
<1>4. Listeners(files, listener, callerFd)
  BY <1>1, <1>2 DEF Listeners, Labels
<1>5. Conns(files, slots)
  BY <1>1, <1>2 DEF Conns, Labels
<1>6. HoldsFd(files, server, "udp server")
  BY <1>1, <1>3 DEF HoldsFd, Labels
<1> QED BY <1>1, <1>3, <1>4, <1>5, <1>6 DEF OwnInv, Labels

\* The inductive invariant of the socket objects.  Each of its three parts is kept by every
\* operation of the TCP server and client, the UDP server and client and the multicast
\* streams, in any order and with any of their failures; the one about descriptors until
\* zcio_tcp_server_adopt runs out of memory.
THEOREM NetInvariant == Spec => []NetInv
<1>1. Init => NetInv
  <2> SUFFICES ASSUME Init PROVE NetInv
    OBVIOUS
  <2>1. IdInv
    BY IdsClear DEF Init, TcpInit
  <2>2. BufInv
    BY BufClear DEF Init, DatagramsInit
  <2> QED BY <2>1, <2>2, OwnStart DEF NetInv
<1>2. NetInv /\ [Next]_vars => NetInv'
  BY IdStep, OwnStep, LostStays, BufStep DEF NetInv
<1> QED BY <1>1, <1>2, PTL DEF Spec

\* The ids of TCP clients (server_pop_free_id, server_store, zcio_tcp_server_close_client):
\* none is in use and free at once or free twice, none is lost but for lack of memory, and
\* the table never outgrows the most connections ever open at once, however often accept,
\* close and their failures alternate.
THEOREM IdsAreSound == Spec => []IdsSound
<1>1. NetInv => IdsSound
  BY IdsAre DEF NetInv
<1> QED BY <1>1, NetInvariant, PTL

\* Until zcio_tcp_server_adopt runs out of memory (tcp.c:445-449), every open descriptor of
\* the process has exactly one owner that will close it, whatever the TCP, UDP and multicast
\* objects and the owner of a listener to be adopted do, and whichever other error path
\* they take: no descriptor leaks and none is closed twice, which would close the socket
\* of another object.
THEOREM SocketsAreOwned == Spec => []SocketsOwned
<1>1. NetInv => SocketsOwned
  BY OwnedOnce DEF NetInv, SocketsOwned
<1> QED BY <1>1, NetInvariant, PTL

\* What the application reads from a peer's packet stream (udp_pkt_read) is a prefix of the
\* last datagram zcio_udp_server_receive routed from that peer, for every number of peers,
\* every datagram size and every split into reads; and a peer has one buffer.
THEOREM DatagramsAreWhole == Spec => []DatagramsWhole
<1>1. NetInv => DatagramsWhole
  BY BufWhole DEF NetInv
<1> QED BY <1>1, NetInvariant, PTL
=============================================================================
