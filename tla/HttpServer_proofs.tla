-------------------------- MODULE HttpServer_proofs --------------------------
(***************************************************************************)
(* Proofs of the safety properties of HttpServer, for any finite set of    *)
(* peers, any set of stoppers and any timeouts.                            *)
(***************************************************************************)
EXTENDS HttpServer, FiniteSetTheorems, TLAPS

USE DEF vars, connVars, stopVars

(* Once the server is stopping, the door is shut and the backlog is gone. *)
DoorShut == stopping => ~listening /\ Queued = {}

(* The inductive invariant.  PolledIsTable is what keeps Process from bringing a
   freed connection back into the table, which ConnectionCap would not survive. *)
ServerInv == TypeOK /\ NoLostWakeup /\ PolledIsTable /\ DoorShut /\ ConnectionCap

(* An operation that only removes connections keeps the table within its cap. *)
LEMMA FewerConnections ==
  ASSUME TypeOK, ConnectionCap, max_connections' = max_connections,
         Open' \subseteq Open
  PROVE  ConnectionCap'
<1>1. IsFiniteSet(Open)
  BY ServerAssumption, FS_Subset DEF ServerAssumption, Open
<1>2. Cardinality(Open') <= Cardinality(Open) /\ IsFiniteSet(Open')
  BY <1>1, FS_Subset
<1>3. Cardinality(Open) \in Nat /\ Cardinality(Open') \in Nat
  BY <1>1, <1>2, FS_CardinalityType
<1>4. max_connections \in Nat BY ServerAssumption DEF ServerAssumption, TypeOK
<1> QED BY <1>2, <1>3, <1>4 DEF ConnectionCap

(* One more connection, below the cap, is within the cap. *)
LEMMA OneMoreConnection ==
  ASSUME TypeOK, ConnectionCap, max_connections' = max_connections, ~CapReached,
         NEW p \in Peers, p \notin Open, Open' = Open \cup {p}
  PROVE  ConnectionCap'
<1>1. IsFiniteSet(Open)
  BY ServerAssumption, FS_Subset DEF ServerAssumption, Open
<1>2. Cardinality(Open') = Cardinality(Open) + 1
  BY <1>1, FS_AddElement
<1>3. Cardinality(Open) \in Nat
  BY <1>1, FS_CardinalityType
<1>4. max_connections \in Nat BY ServerAssumption DEF ServerAssumption, TypeOK
<1> QED BY <1>2, <1>3, <1>4 DEF ConnectionCap, CapReached

LEMMA InitInv == Init => ServerInv
<1> SUFFICES ASSUME Init PROVE ServerInv OBVIOUS
<1>1. TypeOK BY ServerAssumption DEF Init, TypeOK, Phases, ServerAssumption
<1>2. NoLostWakeup /\ PolledIsTable BY DEF Init, NoLostWakeup, PolledIsTable
<1>3. DoorShut BY DEF Init, DoorShut
<1>4. Open = {} BY DEF Init, Open, Connected, Known
<1>5. ConnectionCap
  BY <1>1, <1>4, FS_EmptySet, ServerAssumption
     DEF ConnectionCap, ServerAssumption, TypeOK
<1> QED BY <1>1, <1>2, <1>3, <1>5 DEF ServerInv

(* What each action does to the parts of the invariant. *)
LEMMA TypeStep == TypeOK /\ PolledIsTable /\ [Next]_vars => TypeOK'
<1> SUFFICES ASSUME TypeOK, PolledIsTable, [Next]_vars PROVE TypeOK' OBVIOUS
<1>0. max_connections' = max_connections BY DEF Next
<1> USE <1>0, ServerAssumption DEF ServerAssumption, TypeOK, Phases, Known, Connected
<1>1. CASE UNCHANGED vars BY <1>1
<1>2. ASSUME NEW p \in Peers, Connect(p) PROVE TypeOK' BY <1>2 DEF Connect
<1>3. ASSUME NEW p \in Peers, NEW what \in {"in", "out"}, Act(p, what) PROVE TypeOK'
  BY <1>3 DEF Act
<1>4. CASE Tick BY <1>4 DEF Tick
<1>5. ASSUME NEW s \in Stoppers, Stop(s) PROVE TypeOK'
  <2>1. stopFlag' \in BOOLEAN /\ wake' \in BOOLEAN BY <1>5 DEF Stop
  <2>2. spc' \in [Stoppers -> {"idle", "poke", "done"}] BY <1>5 DEF Stop
  <2> QED BY <1>5, <2>1, <2>2 DEF Stop
<1>6. CASE Top
  <2>0. DrainTimeout \in Nat OBVIOUS
  <2>1. /\ phase' \in [Peers -> Phases]
        /\ listening' \in BOOLEAN /\ stopping' \in BOOLEAN /\ drainLeft' \in Nat
    <3>1. CASE BeginStop BY <2>0, <3>1 DEF BeginStop
    <3>2. CASE UNCHANGED <<phase, graceful, stopVars>> BY <3>2
    <3> QED BY <1>6, <3>1, <3>2 DEF Top
  <2>2. polled' \in SUBSET Peers BY <1>6 DEF Top, BuildPollSet
  <2>3. graceful' \in [Peers -> BOOLEAN]
    <3>1. CASE UNCHANGED graceful BY <3>1
    <3>2. CASE BeginStop
      <4>1. graceful' = [p \in Peers |-> graceful[p] \/ phase[p] \in Known]
        BY <3>2 DEF BeginStop
      <4>2. \A p \in Peers : (graceful[p] \/ phase[p] \in Known) \in BOOLEAN
        OBVIOUS
      <4> QED BY <4>1, <4>2, Zenon
    <3> QED BY <1>6, <3>1, <3>2 DEF Top
  <2> QED BY <1>6, <2>1, <2>3, <2>2 DEF Top
<1>7. CASE PollReturns \/ QuicWakes
  <2>1. Reported \subseteq Peers \cup {"wake", "listen"} BY DEF Reported
  <2> QED BY <1>7, <2>1 DEF PollReturns, QuicWakes, ToService
<1>8. CASE PollFails BY <1>8 DEF PollFails
<1>9. CASE WakeDrain BY <1>9 DEF WakeDrain
<1>10. ASSUME NEW p \in Peers, Accept(p) PROVE TypeOK' BY <1>10 DEF Accept
<1>11. CASE AcceptDone BY <1>11 DEF AcceptDone
<1>12. CASE Process
  <2>1. PICK f \in [Ready -> Phases] :
          /\ phase' = [p \in Peers |-> IF p \in Ready THEN f[p]
                                       ELSE phase[p]]
          /\ \A p \in Ready : f[p] \in Moves(p)
          /\ \E l \in [Ready -> UNION {NewLeft(p, f[p]) : p \in Ready}] :
               /\ \A p \in Ready : l[p] \in NewLeft(p, f[p])
               /\ left' = [p \in Peers |-> IF p \in Ready THEN l[p] ELSE left[p]]
    BY <1>12 DEF Process
  <2>2. ASSUME NEW p \in Ready PROVE NewLeft(p, f[p]) \subseteq Nat
    <3>1. p \in Open BY <1>12 DEF Process, PolledIsTable, Ready
    <3>2. f[p] \in Known \cup {"new", "none"}
      BY <2>1, <3>1 DEF Moves, Open, Known, Connected
    <3> QED BY <3>1, <3>2 DEF NewLeft, Open, Known
  <2>3. left' \in [Peers -> Nat] BY <2>1, <2>2
  <2>4. phase' \in [Peers -> Phases] BY <2>1
  <2>5. acted' \in [Peers -> SUBSET {"in", "out"}] BY <1>12 DEF Process
  <2>6. h3Busy' \in BOOLEAN BY <1>12 DEF Process, ProcessQuic
  <2>7. graceful' \in [Peers -> BOOLEAN]
    <3>1. graceful' = [p \in Peers |-> graceful[p] /\ phase'[p] # "none"]
      BY <1>12 DEF Process
    <3>2. \A p \in Peers : (graceful[p] /\ phase'[p] # "none") \in BOOLEAN OBVIOUS
    <3> QED BY <3>1, <3>2, Zenon
  <2> QED BY <1>12, <2>3, <2>4, <2>5, <2>6, <2>7 DEF Process
<1>13. CASE Sweep BY <1>13 DEF Sweep
<1> QED BY <1>1, <1>2, <1>3, <1>4, <1>5, <1>6, <1>7, <1>8, <1>9, <1>10, <1>11,
           <1>12, <1>13 DEF Next, LoopStep

LEMMA WakeupStep == TypeOK /\ NoLostWakeup /\ [Next]_vars => NoLostWakeup'
<1> SUFFICES ASSUME TypeOK, NoLostWakeup, [Next]_vars PROVE NoLostWakeup' OBVIOUS
<1> USE DEF NoLostWakeup, TypeOK
<1>1. CASE UNCHANGED vars BY <1>1
<1>2. ASSUME NEW p \in Peers, NEW what \in {"in", "out"}, Connect(p) \/ Act(p, what)
      PROVE  NoLostWakeup'
  BY <1>2 DEF Connect, Act
<1>3. CASE Tick BY <1>3 DEF Tick
(* The stopper raises the flag and is then on its way, or it has poked. *)
<1>4. ASSUME NEW s \in Stoppers, Stop(s) PROVE NoLostWakeup'
  <2>1. CASE spc[s] = "idle"
    <3>1. spc'[s] = "poke" BY <1>4, <2>1 DEF Stop
    <3> QED BY <3>1
  <2>2. CASE spc[s] = "poke" BY <1>4, <2>2 DEF Stop
  <2> QED BY <1>4, <2>1, <2>2 DEF Stop
(* The loop goes to sleep only with the flag down or the stop begun. *)
<1>5. CASE Top BY <1>5 DEF Top, BeginStop
<1>6. CASE PollReturns \/ QuicWakes BY <1>6 DEF PollReturns, QuicWakes, ToService
<1>7. CASE PollFails BY <1>7 DEF PollFails
<1>8. CASE WakeDrain BY <1>8 DEF WakeDrain
<1>9. ASSUME NEW p \in Peers, Accept(p) PROVE NoLostWakeup' BY <1>9 DEF Accept
<1>10. CASE AcceptDone BY <1>10 DEF AcceptDone
<1>11. CASE Process BY <1>11 DEF Process
<1>12. CASE Sweep BY <1>12 DEF Sweep
<1> QED BY <1>1, <1>2, <1>3, <1>4, <1>5, <1>6, <1>7, <1>8, <1>9, <1>10, <1>11,
           <1>12 DEF Next, LoopStep

LEMMA TableStep ==
  TypeOK /\ PolledIsTable /\ DoorShut /\ [Next]_vars => PolledIsTable' /\ DoorShut'
<1> SUFFICES ASSUME TypeOK, PolledIsTable, DoorShut, [Next]_vars
             PROVE  PolledIsTable' /\ DoorShut'
  OBVIOUS
<1> USE DEF TypeOK, PolledIsTable, DoorShut, Open, Queued, Known, Connected
<1>1. CASE UNCHANGED vars BY <1>1
<1>2. ASSUME NEW p \in Peers, Connect(p) PROVE PolledIsTable' /\ DoorShut'
  BY <1>2 DEF Connect
<1>3. ASSUME NEW p \in Peers, NEW what \in {"in", "out"}, Act(p, what)
      PROVE  PolledIsTable' /\ DoorShut'
  BY <1>3 DEF Act
<1>4. CASE Tick BY <1>4 DEF Tick
<1>5. ASSUME NEW s \in Stoppers, Stop(s) PROVE PolledIsTable' /\ DoorShut'
  BY <1>5 DEF Stop
<1>6. CASE Top
  <2>1. PolledIsTable' BY <1>6 DEF Top, BuildPollSet
  <2>2. DoorShut'
    <3>1. CASE BeginStop BY <3>1 DEF BeginStop, Phases
    <3>2. CASE UNCHANGED <<phase, graceful, stopVars>> BY <3>2
    <3> QED BY <1>6, <3>1, <3>2 DEF Top
  <2> QED BY <2>1, <2>2
<1>7. CASE PollReturns \/ QuicWakes BY <1>7 DEF PollReturns, QuicWakes, ToService
<1>8. CASE PollFails BY <1>8 DEF PollFails
<1>9. CASE WakeDrain BY <1>9 DEF WakeDrain
<1>10. ASSUME NEW p \in Peers, Accept(p) PROVE PolledIsTable' /\ DoorShut'
  BY <1>10 DEF Accept
<1>11. CASE AcceptDone BY <1>11 DEF AcceptDone
<1>12. CASE Process
  <2>1. pc' = "sweep" /\ UNCHANGED stopVars BY <1>12 DEF Process
  <2>2. Queued' \subseteq Queued
    <3> SUFFICES ASSUME NEW p \in Queued' PROVE p \in Queued OBVIOUS
    <3>1. CASE p \notin Ready BY <1>12, <3>1 DEF Process
    <3>2. CASE p \in Ready
      <4>1. phase'[p] \in Moves(p) BY <1>12, <3>2 DEF Process
      <4>2. p \in Open BY <1>12, <3>2 DEF Process, Ready
      <4> QED BY <4>1, <4>2 DEF Moves
    <3> QED BY <3>1, <3>2
  <2> QED BY <2>1, <2>2
<1>13. CASE Sweep
  <2>1. pc' \in {"top", "stopped"} /\ UNCHANGED stopVars /\ Queued' \subseteq Queued
    BY <1>13 DEF Sweep
  <2> QED BY <2>1
<1> QED BY <1>1, <1>2, <1>3, <1>4, <1>5, <1>6, <1>7, <1>8, <1>9, <1>10, <1>11,
           <1>12, <1>13 DEF Next, LoopStep

LEMMA CapStep ==
  TypeOK /\ PolledIsTable /\ ConnectionCap /\ [Next]_vars => ConnectionCap'
<1> SUFFICES ASSUME TypeOK, PolledIsTable, ConnectionCap, [Next]_vars
             PROVE  ConnectionCap'
  OBVIOUS
<1>0. max_connections' = max_connections BY DEF Next
<1>1. ASSUME NEW p \in Peers, Accept(p) PROVE ConnectionCap'
  <2>1. ASSUME ~CapReached, NEW q \in {"new", "idle"}, phase' = [phase EXCEPT ![p] = q]
        PROVE  ConnectionCap'
    <3>1. Open' = Open \cup {p} /\ p \notin Open
      BY <1>1, <2>1 DEF Accept, Open, Queued, Connected, Known, TypeOK
    <3> QED BY <1>0, <2>1, <3>1, OneMoreConnection
  <2>2. CASE phase' = [phase EXCEPT ![p] = "none"]
    <3>1. Open' \subseteq Open BY <2>2 DEF Open, Connected, Known, TypeOK
    <3> QED BY <1>0, <3>1, FewerConnections
  <2> QED BY <1>1, <2>1, <2>2 DEF Accept
<1>2. CASE ~\E p \in Peers : Accept(p)
  <2> SUFFICES Open' \subseteq Open BY <1>0, FewerConnections
  <2> USE DEF Open, Connected, Known, TypeOK
  <2>1. CASE UNCHANGED phase BY <2>1
  <2>2. ASSUME NEW p \in Peers, Connect(p) PROVE Open' \subseteq Open
    BY <2>2 DEF Connect
  <2>3. CASE Top BY <2>3 DEF Top, BeginStop
  <2>4. CASE Process
    <3> SUFFICES ASSUME NEW p \in Open' PROVE p \in Open OBVIOUS
    <3>1. CASE p \in Ready BY <2>4, <3>1 DEF Process, PolledIsTable, Ready
    <3>2. CASE p \notin Ready BY <2>4, <3>2 DEF Process
    <3> QED BY <3>1, <3>2
  <2>5. CASE Sweep BY <2>5 DEF Sweep
  <2> QED BY <1>2, <2>1, <2>2, <2>3, <2>4, <2>5
          DEF Next, LoopStep, Act, Tick, Stop, PollReturns, QuicWakes, ToService, PollFails,
              WakeDrain, AcceptDone
<1> QED BY <1>1, <1>2

(* The inductive invariant holds in every reachable state, for every finite set
   of peers, every set of threads in stop() and all timeouts. *)
THEOREM ServerInvariant == Spec => []ServerInv
<1>1. ServerInv /\ [Next]_vars => ServerInv'
  BY TypeStep, WakeupStep, TableStep, CapStep DEF ServerInv
<1> QED BY InitInv, <1>1, PTL DEF Spec

(* The variables of the loop keep their types (zcio_http_server_poll). *)
THEOREM ServerTypes == Spec => []TypeOK
BY ServerInvariant, PTL DEF ServerInv

(* zcio_http_server_stop is never missed: whenever the loop may sleep in poll()
   with the flag up, the wake pipe holds a byte or is about to. *)
THEOREM NoStopIsMissed == Spec => []NoLostWakeup
BY ServerInvariant, PTL DEF ServerInv

(* accept_loop keeps the connection table within max_connections. *)
THEOREM TableIsCapped == Spec => []ConnectionCap
BY ServerInvariant, PTL DEF ServerInv

(* The poll entries of an iteration are the connections of the table. *)
THEOREM PollSetMatches == Spec => []PolledIsTable
BY ServerInvariant, PTL DEF ServerInv

(* After begin_stop no peer without a connection gets one. *)
THEOREM StopShutsTheDoor == Spec => NoNewConnections
<1>1. ServerInv /\ [Next]_vars
        => [stopping => \A p \in Peers : phase[p] = "none" => phase'[p] = "none"]_vars
  <2> SUFFICES ASSUME ServerInv, Next, stopping, NEW p \in Peers, phase[p] = "none"
               PROVE  phase'[p] = "none"
    BY DEF ServerInv
  <2> USE DEF ServerInv, TypeOK, PolledIsTable, DoorShut, Queued, Open, Connected, Known
  <2>1. ASSUME NEW q \in Peers, Connect(q) PROVE phase'[p] = "none" BY <2>1 DEF Connect
  <2>2. ASSUME NEW q \in Peers, Accept(q) PROVE phase'[p] = "none" BY <2>2 DEF Accept
  <2>3. CASE Top BY <2>3 DEF Top, BeginStop
  <2>4. CASE Process
    <3>1. p \notin Ready BY <2>4 DEF Process, Ready
    <3> QED BY <2>4, <3>1 DEF Process
  <2>5. CASE Sweep BY <2>5 DEF Sweep
  <2>6. CASE UNCHANGED phase BY <2>6
  <2> QED BY <2>1, <2>2, <2>3, <2>4, <2>5, <2>6
          DEF Next, LoopStep, Act, Tick, Stop, PollReturns, QuicWakes, ToService, PollFails,
              WakeDrain, AcceptDone
<1> QED BY ServerInvariant, <1>1, PTL DEF Spec, NoNewConnections

=============================================================================
