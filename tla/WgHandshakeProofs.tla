------------------------- MODULE WgHandshakeProofs -------------------------
(* The handshake for every choice of the periods: the plan of rx_task's     *)
(* wait is exact (PlanExact), no INIT in flight is left alone for longer    *)
(* than REKEY_TIMEOUT (RetryBounded), and keys are installed only while the *)
(* responder that made them holds the same keypair, unless it has started   *)
(* anew since (InstallsLive).                                               *)
EXTENDS WgHandshake, FiniteSetTheorems, TLAPS

Indices == Index \cup {NoIndex}

\* An age never exceeds its cap; Never is none of them.
UpTo(cap) == {n \in Int : n <= cap}

AgeOf(cap) == UpTo(cap) \cup {Never}

GFields ==
  [state : States, attempt : 0 .. MaxRetries, rekey_in_flight : BOOLEAN,
   rekey_attempt : 0 .. MaxRetries, init_valid : BOOLEAN, local_index : Indices,
   replaced_index : Indices, armed : Indices, session : Indices, epoch : Nat,
   peer_key : {0, 1},
   hs : UpTo(RekeyTimeout + 2), completed : AgeOf(RekeyAfter + 1),
   recv : AgeOf(StaleAfter + 1), probe : UpTo(Cooldown + 1),
   tx : AgeOf(KeepaliveEvery + 1), link_up_pending : BOOLEAN]

Wires == {q \in Seq(Index) : Len(q) <= 2}

\* The INITs that responses of the responder's present life answer.
Answered == {i \in Index : [init |-> i, epoch |-> peer.epoch] \in resps}

\* What the INITs on their way and the responses have to do with the one in
\* flight: it is the newest of all, and once the responder answered it in its
\* present life it keeps its keypair and takes no older INIT.
LiveOk(w) ==
  /\ w \in [g : GFields, wire : Wires]
  /\ w.g.init_valid => w.g.local_index # NoIndex
  /\ w.g.armed # NoIndex => w.g.armed = w.g.local_index /\ w.g.armed # w.g.session
  /\ w.g.armed \in Answered =>
        w.wire = <<>> /\ peer.next = w.g.armed /\ peer.consumed = w.g.armed
  /\ \A k \in DOMAIN w.wire : w.wire[k] = w.g.local_index => k = Len(w.wire)

RxType == [pc : {"none", "wait", "timers", "rest"}, wait : 0 .. MaxWait]

EnvType == [link : BOOLEAN, relay : BOOLEAN, direct : BOOLEAN, valid : BOOLEAN,
            kick : BOOLEAN, uptime : Nat, faults : Int]

PeerType == [key : {0, 1}, epoch : Nat, consumed : Indices, current : Indices, next : Indices]

\* Responses answer at most three INITs, and none is of a life to come.
RespsOk ==
  /\ resps \subseteq [init : Index, epoch : Nat]
  /\ \A r \in resps : r.epoch <= peer.epoch
  /\ \E a, b, c \in Indices : \A r \in resps : r.init \in {a, b, c}

HsTypes ==
  /\ rx \in RxType /\ env \in EnvType /\ peer \in PeerType
  /\ RespsOk

\* What is left of REKEY_TIMEOUT covers what is left of wg_rx's wait.
Timely ==
  /\ rx.pc = "none" => g.state = "idle"
  /\ handshake_pending(g) =>
        /\ rx.pc = "wait" => g.hs + rx.wait <= RekeyTimeout + 1
        /\ rx.pc = "timers" => g.hs <= RekeyTimeout + 1
        /\ rx.pc = "rest" => g.hs <= RekeyTimeout

HsInv == HsTypes /\ LiveOk(World) /\ Timely

-----------------------------------------------------------------------------
(* Least and greatest of two integers.                                     *)
LEMMA MinTwo == ASSUME NEW a \in Int, NEW b \in Int
                PROVE  Min({a, b}) = IF a <= b THEN a ELSE b
<1>1. \E x \in {a, b} : \A y \in {a, b} : x <= y
  <2>1. CASE a <= b BY <2>1
  <2>2. CASE b <= a BY <2>2
  <2>3. QED BY <2>1, <2>2
<1>2. Min({a, b}) \in {a, b} /\ \A y \in {a, b} : Min({a, b}) <= y
  BY <1>1 DEF Min
<1>3. QED BY <1>2

(* The greater of two integers.                                            *)
LEMMA MaxTwo == ASSUME NEW a \in Int, NEW b \in Int
                PROVE  Max({a, b}) = IF a >= b THEN a ELSE b
<1>1. \E x \in {a, b} : \A y \in {a, b} : x >= y
  <2>1. CASE a >= b BY <2>1
  <2>2. CASE b >= a BY <2>2
  <2>3. QED BY <2>1, <2>2
<1>2. Max({a, b}) \in {a, b} /\ \A y \in {a, b} : Max({a, b}) >= y
  BY <1>1 DEF Max
<1>3. QED BY <1>2

\* A set of integers with a least element.
HasLeast(S) == S \subseteq Int /\ \E m \in S : \A y \in S : m <= y

(* One more deadline, or none, leaves a least one.                         *)
LEMMA LeastOfMore == ASSUME NEW S, HasLeast(S), NEW d \in Int, NEW T, T = {} \/ T = {d}
                     PROVE  HasLeast(T \cup S)
<1>1. PICK m \in S : m \in Int /\ \A y \in S : m <= y
  BY DEF HasLeast
<1>2. CASE T = {}
  BY <1>1, <1>2, ZenonT(40) DEF HasLeast
<1>3. CASE T = {d} /\ m <= d
  BY <1>1, <1>3 DEF HasLeast
<1>4. CASE T = {d} /\ d <= m
  BY <1>1, <1>4 DEF HasLeast
<1>5. QED BY <1>1, <1>2, <1>3, <1>4

(* Min of such a set.                                                      *)
LEMMA LeastIs == ASSUME NEW S, HasLeast(S)
                 PROVE  Min(S) \in S /\ Min(S) \in Int /\ \A y \in S : Min(S) <= y
BY ZenonT(40) DEF HasLeast, Min

(* Adding an element adds at most one.                                     *)
LEMMA OneMoreElement ==
  ASSUME NEW S, IsFiniteSet(S), NEW x, NEW n \in Nat, Cardinality(S) <= n,
         NEW T, T = S \cup {x}
  PROVE  IsFiniteSet(T) /\ Cardinality(T) <= n + 1
<1>1. Cardinality(S) \in Nat
  BY FS_CardinalityType
<1>2. IsFiniteSet(T) /\ Cardinality(T) = IF x \in S THEN Cardinality(S) ELSE Cardinality(S)+1
  BY FS_AddElement, Zenon
<1>3. QED BY <1>1, <1>2

(* Four names name at most four elements.                                  *)
LEMMA FourElements ==
  ASSUME NEW S, IsFiniteSet(S), NEW n \in Nat, Cardinality(S) <= n,
         NEW a, NEW b, NEW c, NEW d, NEW T, T = S \cup {a, b, c, d}
  PROVE  IsFiniteSet(T) /\ Cardinality(T) <= n + 4
<1> DEFINE A == S \cup {a}
           B == A \cup {b}
           C == B \cup {c}
<1>0. B = A \cup {b} /\ C = B \cup {c} /\ T = C \cup {d}
  OBVIOUS
<1>1. IsFiniteSet(A) /\ Cardinality(A) <= n + 1
  BY OneMoreElement, Zenon
<1> HIDE DEF A, B, C
<1>2. n + 1 \in Nat /\ n + 2 \in Nat /\ n + 3 \in Nat
      /\ (n + 1) + 1 = n + 2 /\ (n + 2) + 1 = n + 3 /\ (n + 3) + 1 = n + 4
  OBVIOUS
<1>3. IsFiniteSet(B) /\ Cardinality(B) <= (n + 1) + 1
  BY <1>0, <1>1, <1>2, OneMoreElement, Zenon
<1>4. IsFiniteSet(C) /\ Cardinality(C) <= (n + 2) + 1
  BY <1>0, <1>2, <1>3, OneMoreElement, Zenon
<1>5. IsFiniteSet(T) /\ Cardinality(T) <= (n + 3) + 1
  BY <1>0, <1>2, <1>4, OneMoreElement, Zenon
<1>6. QED BY <1>2, <1>5, Zenon

(* Sixteen names leave an index of the pool.                               *)
LEMMA PoolLasts ==
  ASSUME NEW S, IsFiniteSet(S), Cardinality(S) <= 16
  PROVE  \E i \in Index : i \notin S
<1>1. SUFFICES ASSUME Index \subseteq S PROVE FALSE
  OBVIOUS
<1>2. Cardinality(1 .. 17) = IF 1 > 17 THEN 0 ELSE 17 - 1 + 1
  <2>1. 1 \in Int /\ 17 \in Int
    OBVIOUS
  <2>2. QED BY <2>1, FS_Interval, Zenon
<1>3. Cardinality(Index) <= Cardinality(S)
  BY <1>1, FS_Subset
<1>4. Cardinality(S) \in Nat
  BY FS_CardinalityType
<1>5. QED BY <1>2, <1>3, <1>4 DEF Index

-----------------------------------------------------------------------------
(* INITs.                                                                  *)

\* v is w with, at most, other copies on their way and other clocks of the
\* path-stale probe.
SameInit(w, v) ==
  /\ LiveOk(v)
  /\ v.g.state = w.g.state /\ v.g.rekey_in_flight = w.g.rekey_in_flight
  /\ v.g.hs = w.g.hs /\ v.g.session = w.g.session

(* The caps of the ages lie below Never.                                   *)
LEMMA Caps ==
  /\ Never \in Nat /\ Never > RekeyTimeout + 2 /\ Never > RekeyAfter + 1
  /\ Never > StaleAfter + 1 /\ Never > Cooldown + 1 /\ Never > KeepaliveEvery + 1
  /\ FirstRetry \in Nat /\ RekeyTimeout \in Nat /\ MaxRetries \in Nat /\ HandBackoff \in Nat
  /\ FreshAfter \in Nat /\ RekeyAfter \in Nat /\ StaleAfter \in Nat /\ Cooldown \in Nat
  /\ KeepaliveEvery \in Nat /\ MaxFaults \in Nat
  /\ FirstRetry <= RekeyTimeout /\ RekeyTimeout >= 1 /\ MaxRetries >= 1
BY HandshakeConstants DEF Never

(* A copy appended to at most two INITs, the oldest of three dropped.      *)
LEMMA QueueCopy ==
  ASSUME NEW q \in Wires, NEW i \in Index, \A k \in DOMAIN q : q[k] # i,
         NEW a, a = Append(q, i), NEW t, t = IF Len(a) > 2 THEN Tail(a) ELSE a
  PROVE  t \in Wires /\ \A k \in DOMAIN t : t[k] = i => k = Len(t)
<1>1. q \in Seq(Index) /\ Len(q) \in Nat /\ Len(q) <= 2 /\ DOMAIN q = 1 .. Len(q)
  BY DEF Wires
<1>2. /\ a \in Seq(Index) /\ Len(a) = Len(q) + 1 /\ a[Len(q) + 1] = i
      /\ \A k \in 1 .. Len(q) : a[k] = q[k]
  BY <1>1
<1> HIDE DEF Wires
<1>3. \A k \in 1 .. Len(a) : a[k] = i => k = Len(a)
  BY <1>1, <1>2
<1>4. CASE Len(a) > 2
  <2>1. a # << >>
    BY <1>2, <1>4
  <2>2. /\ t \in Seq(Index) /\ Len(t) = Len(a) - 1
        /\ \A k \in 1 .. Len(t) : t[k] = a[k + 1]
    BY <1>2, <1>4, <2>1
  <2>3. QED BY <1>1, <1>2, <1>3, <1>4, <2>2 DEF Wires
<1>5. CASE ~(Len(a) > 2)
  BY <1>1, <1>2, <1>3, <1>5 DEF Wires
<1>6. QED BY <1>4, <1>5

(* NoIndex names no INIT.                                                  *)
LEMMA NoneAnswered == NoIndex \notin Answered
BY DEF Answered, Index, NoIndex

(* A copy of the INIT in flight leaves.                                    *)
LEMMA CopySent ==
  ASSUME HsTypes, NEW w, LiveOk(w), w.g.local_index # NoIndex,
         NEW direct \in BOOLEAN, NEW relay \in BOOLEAN
  PROVE  SameInit(w, copy_sent(w, direct, relay)) /\ copy_sent(w, direct, relay).g = w.g
<1> DEFINE goes == /\ env.link /\ ((direct /\ env.direct) \/ (relay /\ env.relay))
                   /\ w.g.peer_key = peer.key
                   /\ w.g.local_index # peer.consumed
                   /\ w.g.local_index \notin Range(w.wire)
           a == Append(w.wire, w.g.local_index)
           t == IF Len(a) > 2 THEN Tail(a) ELSE a
           u == IF ~goes THEN w.wire ELSE t
           v == copy_sent(w, direct, relay)
<1>1. w.g \in GFields /\ w.wire \in Wires /\ w.g.local_index \in Index
  BY DEF LiveOk, GFields, Indices
<1>2. v = [w EXCEPT !.wire = u]
  BY DEF copy_sent
<1>3. v.g = w.g /\ v.wire = u
  BY <1>2 DEF LiveOk
<1>4. v \in [g : GFields, wire : {v.wire}]
  BY <1>2, <1>3 DEF LiveOk
<1> HIDE DEF v, u
<1>5. CASE ~goes
  <2>1. u = w.wire
    BY <1>5 DEF u
  <2>2. QED BY <1>1, <1>3, <1>4, <2>1 DEF LiveOk, SameInit, v
<1>6. CASE goes
  <2>1. u = t
    BY <1>6 DEF u
  <2>2. \A k \in DOMAIN w.wire : w.wire[k] # w.g.local_index
    BY <1>6 DEF Range
  <2>3. u \in Wires /\ \A k \in DOMAIN u : u[k] = w.g.local_index => k = Len(u)
    <3>1. a = Append(w.wire, w.g.local_index) /\ t = IF Len(a) > 2 THEN Tail(a) ELSE a
      OBVIOUS
    <3> HIDE DEF a, t
    <3>2. QED BY <1>1, <2>1, <2>2, <3>1, QueueCopy, ZenonT(40)
  <2>4. w.g.armed \notin Answered
    BY <1>6, NoneAnswered DEF LiveOk
  <2>5. QED BY <1>1, <1>3, <1>4, <2>3, <2>4 DEF LiveOk, SameInit, v
<1>7. QED BY <1>5, <1>6

(* The INIT leaves for the endpoint, or the send fails for want of a route. *)
LEMMA SendDirect ==
  ASSUME HsTypes, NEW w, LiveOk(w), w.g.local_index # NoIndex
  PROVE  SameInit(w, send_direct(w)) /\ send_direct(w).g.local_index = w.g.local_index
<1>1. CASE env.link
  BY <1>1, CopySent, ZenonT(40) DEF send_direct
<1>2. CASE ~env.link
  <2> DEFINE recv == IF env.uptime > StaleAfter + 1 THEN StaleAfter + 1 ELSE Never
             probe == Min({env.uptime, Cooldown + 1})
             v == send_direct(w)
  <2>1. v = [w EXCEPT !.g.recv = recv, !.g.probe = probe]
    BY <1>2 DEF send_direct
  <2>2. recv \in AgeOf(StaleAfter + 1)
    BY Caps DEF UpTo, AgeOf
  <2>3. probe \in UpTo(Cooldown + 1)
    BY Caps, MinTwo DEF UpTo, AgeOf, HsTypes, EnvType
  <2> HIDE DEF recv, probe, v
  <2>4. v = [w EXCEPT !.g = [w.g EXCEPT !.recv = recv, !.probe = probe]]
    BY <2>1, ZenonT(40) DEF LiveOk
  <2> DEFINE h == [w.g EXCEPT !.recv = recv, !.probe = probe]
  <2>5. /\ h \in GFields /\ h.state = w.g.state /\ h.rekey_in_flight = w.g.rekey_in_flight
        /\ h.hs = w.g.hs /\ h.session = w.g.session /\ h.init_valid = w.g.init_valid
        /\ h.armed = w.g.armed /\ h.local_index = w.g.local_index
    BY <2>2, <2>3, ZenonT(40) DEF LiveOk, GFields
  <2> HIDE DEF h
  <2>6. v.g = h /\ v.wire = w.wire /\ v \in [g : GFields, wire : Wires]
    BY <2>4, <2>5 DEF LiveOk, h
  <2>7. QED BY <2>5, <2>6 DEF LiveOk, SameInit, v
<1>3. QED BY <1>1, <1>2

(* The relay's copy.                                                       *)
LEMMA QueueRelay ==
  ASSUME HsTypes, NEW w, LiveOk(w), w.g.local_index # NoIndex
  PROVE  SameInit(w, queue_relay(w))
BY CopySent, ZenonT(40) DEF queue_relay

\* The state an operation starts from.
StateOk == HsTypes /\ LiveOk(World)

(* At most two INITs are on their way.                                     *)
LEMMA TwoOnTheWay == ASSUME NEW q \in Wires PROVE Range(q) \subseteq {q[1], q[2]}
<1>1. Len(q) \in Nat /\ Len(q) <= 2 /\ DOMAIN q = 1 .. Len(q)
  BY DEF Wires
<1>2. QED BY <1>1 DEF Range

(* An INIT that was answered is in use.                                    *)
LEMMA UsedAnswered == Answered \subseteq used
<1> SUFFICES ASSUME NEW i \in Answered PROVE i \in {r.init : r \in resps}
  BY DEF used
<1>1. [init |-> i, epoch |-> peer.epoch] \in resps
  BY DEF Answered
<1>2. QED BY <1>1

(* The pool always has an index that nobody holds.                         *)
LEMMA FreshIndex ==
  ASSUME StateOk, NEW w, LiveOk(w), NEW i, i = fresh_local_index(w)
  PROVE  i \in Index /\ i \notin used /\ i \notin Range(w.wire)
<1>1. PICK a, b, c \in Indices : \A r \in resps : r.init \in {a, b, c}
  BY DEF StateOk, HsTypes, RespsOk
<1>2. wire \in Wires /\ w.wire \in Wires
  BY DEF StateOk, LiveOk, World
<1>3. Range(wire) \subseteq {wire[1], wire[2]} /\ Range(w.wire) \subseteq {w.wire[1], w.wire[2]}
  BY <1>2, TwoOnTheWay
<1> DEFINE A == {g.local_index, g.replaced_index, g.armed, g.session}
           B == A \cup {peer.consumed, peer.current, peer.next, a}
           C == B \cup {b, c, wire[1], wire[2]}
           E == C \cup {w.wire[1], w.wire[2], w.g.local_index, w.g.replaced_index}
<1>4. used \cup Range(w.wire) \cup {w.g.local_index, w.g.replaced_index} \subseteq E
  BY <1>1, <1>3 DEF used
<1>5. \E n \in Index : n \notin E
  <2>1. /\ IsFiniteSet({}) /\ Cardinality({}) <= 0
        /\ A = {} \cup {g.local_index, g.replaced_index, g.armed, g.session}
    BY FS_EmptySet
  <2>2. B = A \cup {peer.consumed, peer.current, peer.next, a}
    OBVIOUS
  <2>3. C = B \cup {b, c, wire[1], wire[2]}
    OBVIOUS
  <2>4. E = C \cup {w.wire[1], w.wire[2], w.g.local_index, w.g.replaced_index}
    OBVIOUS
  <2> HIDE DEF A, B, C, E
  <2>5. /\ 0 \in Nat /\ 4 \in Nat /\ 8 \in Nat /\ 12 \in Nat
        /\ 0 + 4 = 4 /\ 4 + 4 = 8 /\ 8 + 4 = 12 /\ 12 + 4 = 16
    OBVIOUS
  <2>6. IsFiniteSet(A) /\ Cardinality(A) <= 4
    <3>1. IsFiniteSet(A) /\ Cardinality(A) <= 0 + 4
      BY <2>1, <2>5, FourElements, ZenonT(40)
    <3>2. QED BY <2>5, <3>1, Zenon
  <2>7. IsFiniteSet(B) /\ Cardinality(B) <= 8
    <3>1. IsFiniteSet(B) /\ Cardinality(B) <= 4 + 4
      BY <2>2, <2>5, <2>6, FourElements, ZenonT(40)
    <3>2. QED BY <2>5, <3>1, Zenon
  <2>8. IsFiniteSet(C) /\ Cardinality(C) <= 12
    <3>1. IsFiniteSet(C) /\ Cardinality(C) <= 8 + 4
      BY <2>3, <2>5, <2>7, FourElements, ZenonT(40)
    <3>2. QED BY <2>5, <3>1, Zenon
  <2>9. IsFiniteSet(E) /\ Cardinality(E) <= 16
    <3>1. IsFiniteSet(E) /\ Cardinality(E) <= 12 + 4
      BY <2>4, <2>5, <2>8, FourElements, ZenonT(40)
    <3>2. QED BY <2>5, <3>1, Zenon
  <2>10. QED BY <2>9, PoolLasts, Zenon
<1> HIDE DEF E
<1>6. \E n \in Index : n \notin used \cup Range(w.wire) \cup {w.g.local_index, w.g.replaced_index}
  BY <1>4, <1>5
<1> HIDE DEF used
<1>7. QED BY <1>6, Zenon DEF fresh_local_index

\* v follows w: what is in flight is no older, and nothing starts of itself.
Follows(w, v) ==
  /\ LiveOk(v) /\ v.g.session = w.g.session
  /\ \/ v.g.hs = 0
     \/ v.g.hs = w.g.hs /\ (handshake_pending(v.g) => handshake_pending(w.g))

(* A new INIT is built and sent.                                           *)
LEMMA BuildAndSend ==
  ASSUME StateOk, NEW w, LiveOk(w), w.g.session = g.session, NEW how,
         NEW b, b = build_and_send_init(w, how)
  PROVE  /\ LiveOk(b) /\ b.g.hs = 0 /\ b.g.session = w.g.session
         /\ b.g.state = w.g.state /\ b.g.rekey_in_flight = w.g.rekey_in_flight
<1> DEFINE rep == IF w.g.init_valid THEN w.g.local_index ELSE w.g.replaced_index
           st == [w EXCEPT !.g.hs = 0,
                           !.g.replaced_index = IF w.g.init_valid THEN w.g.local_index ELSE @,
                           !.g.init_valid = FALSE]
           h == [w.g EXCEPT !.hs = 0, !.replaced_index = rep, !.init_valid = FALSE]
<1>1. rep \in Indices
  BY DEF LiveOk, GFields
<1>2. st = [w EXCEPT !.g = h]
  BY ZenonT(40) DEF LiveOk
<1> HIDE DEF rep
<1>3. /\ h \in GFields /\ h.state = w.g.state /\ h.rekey_in_flight = w.g.rekey_in_flight
      /\ h.hs = 0 /\ h.session = w.g.session /\ h.init_valid = FALSE
      /\ h.armed = w.g.armed /\ h.local_index = w.g.local_index
  <2>1. 0 \in UpTo(RekeyTimeout + 2)
    BY Caps DEF UpTo, AgeOf
  <2>2. h \in GFields
    BY <1>1, <2>1, ZenonT(40) DEF LiveOk, GFields
  <2>3. QED BY <2>2 DEF LiveOk, GFields
<1>4. st.g = h /\ st.wire = w.wire /\ st \in [g : GFields, wire : Wires]
  BY <1>2, <1>3, ZenonT(40) DEF LiveOk
<1> HIDE DEF h
<1>5. LiveOk(st)
  BY <1>3, <1>4 DEF LiveOk
<1> DEFINE i == fresh_local_index(st)
           arm == IF how = "fail" THEN NoIndex ELSE i
           bt == create_initiation(st, how)
           k == [st.g EXCEPT !.local_index = i, !.armed = arm, !.init_valid = how # "fail"]
<1>6. b = CASE how = "fail" -> bt
            [] how = "hold" /\ w.g.state = "up" /\ env.relay -> queue_relay(bt)
            [] OTHER -> IF env.valid THEN send_direct(bt) ELSE queue_relay(send_direct(bt))
  BY DEF build_and_send_init
<1> HIDE DEF st
<1>7. i \in Index /\ i \notin Answered /\ i # g.session /\ i \notin Range(w.wire)
  BY <1>4, <1>5, FreshIndex, UsedAnswered DEF used
<1>8. bt = [st EXCEPT !.g = k]
  BY <1>4, ZenonT(40) DEF create_initiation
<1> HIDE DEF i, bt
<1>9. arm \in Indices /\ i \in Indices /\ (how # "fail") \in BOOLEAN
  BY <1>7 DEF Indices
<1>10. /\ k \in GFields /\ k.state = w.g.state /\ k.rekey_in_flight = w.g.rekey_in_flight
       /\ k.hs = 0 /\ k.session = w.g.session /\ k.armed = arm /\ k.local_index = i
  <2>1. k \in GFields
    BY <1>4, <1>9, ZenonT(40) DEF GFields
  <2>2. QED BY <1>3, <1>4, <2>1 DEF GFields
<1>11. bt.g = k /\ bt.wire = w.wire /\ bt \in [g : GFields, wire : Wires]
  BY <1>4, <1>8, <1>10
<1> HIDE DEF k
<1>12. i # NoIndex /\ arm \notin Answered /\ (arm # NoIndex => arm = i)
  BY <1>7, NoneAnswered DEF Index, NoIndex
<1>13. LiveOk(bt)
  <2>1. \A n \in DOMAIN w.wire : w.wire[n] # i
    BY <1>7 DEF Range
  <2> HIDE DEF arm
  <2>2. QED BY <1>7, <1>10, <1>11, <1>12, <2>1 DEF LiveOk
<1>14. /\ bt.g.local_index # NoIndex /\ bt.g.hs = 0 /\ bt.g.session = w.g.session
       /\ bt.g.state = w.g.state /\ bt.g.rekey_in_flight = w.g.rekey_in_flight
  BY <1>10, <1>11, <1>12
<1>15. SameInit(bt, queue_relay(bt))
  BY <1>13, <1>14, QueueRelay DEF StateOk
<1>16. /\ SameInit(bt, send_direct(bt))
       /\ SameInit(send_direct(bt), queue_relay(send_direct(bt)))
  BY <1>13, <1>14, SendDirect, QueueRelay DEF StateOk, SameInit
<1>17. QED BY <1>6, <1>13, <1>14, <1>15, <1>16 DEF SameInit

(* The INIT in flight is sent again.                                       *)
LEMMA Resend ==
  ASSUME StateOk, NEW w, LiveOk(w), NEW direct \in BOOLEAN, NEW relay \in BOOLEAN,
         NEW force \in BOOLEAN, NEW how
  PROVE  SameInit(w, init_resend(w, direct, relay, force, how))
<1>1. SameInit(w, w)
  BY DEF SameInit
<1>2. CASE ~w.g.init_valid \/ ~handshake_pending(w.g)
  BY <1>1, <1>2 DEF init_resend
<1>3. CASE w.g.init_valid /\ handshake_pending(w.g)
  <2>1. w.g.local_index # NoIndex
    BY <1>3 DEF LiveOk
  <2>2. PICK d : /\ d \in {w, send_direct(w)}
                 /\ init_resend(w, direct, relay, force, how) \in {d, queue_relay(d)}
    BY <1>3 DEF init_resend
  <2>3. SameInit(w, d) /\ d.g.local_index # NoIndex
    BY <1>1, <2>1, <2>2, SendDirect DEF StateOk
  <2>4. SameInit(d, queue_relay(d))
    BY <2>3, QueueRelay DEF StateOk, SameInit
  <2>5. QED BY <2>2, <2>3, <2>4 DEF SameInit
<1>4. QED BY <1>2, <1>3

(* Fields that have nothing to do with the INIT in flight.                 *)
LEMMA OtherFields ==
  ASSUME NEW w, LiveOk(w), NEW h \in GFields, h.init_valid = w.g.init_valid,
         h.armed = w.g.armed, h.local_index = w.g.local_index, h.session = w.g.session,
         NEW v, v = [w EXCEPT !.g = h]
  PROVE  LiveOk(v) /\ v.g = h /\ v.wire = w.wire
<1>1. v \in [g : GFields, wire : Wires] /\ v.g = h /\ v.wire = w.wire
  BY DEF LiveOk
<1>2. QED BY <1>1 DEF LiveOk

(* An attempt more, saturated.                                             *)
LEMMA OneMore == ASSUME NEW n \in 0 .. MaxRetries PROVE one_more(n) \in 0 .. MaxRetries
BY MinTwo, Caps DEF one_more

(* A new cold attempt.                                                     *)
LEMMA KickOff ==
  ASSUME StateOk, NEW w, LiveOk(w), w.g.session = g.session, NEW how,
         NEW v, v = kick_off_handshake(w, how)
  PROVE  LiveOk(v) /\ v.g.hs = 0 /\ v.g.session = g.session /\ v.g.state = "pending"
<1> DEFINE p == [w EXCEPT !.g.state = "pending"]
           h == [w.g EXCEPT !.state = "pending"]
           b == build_and_send_init(p, how)
           k == [b.g EXCEPT !.attempt = one_more(b.g.attempt)]
<1>1. p = [w EXCEPT !.g = h]
  BY DEF LiveOk
<1>2. /\ h \in GFields /\ h.init_valid = w.g.init_valid /\ h.state = "pending"
      /\ h.armed = w.g.armed /\ h.local_index = w.g.local_index /\ h.session = w.g.session
  BY DEF LiveOk, GFields, States
<1> HIDE DEF h, p
<1>3. LiveOk(p) /\ p.g.state = "pending" /\ p.g.session = g.session
  BY <1>1, <1>2, OtherFields
<1>4. LiveOk(b) /\ b.g.hs = 0 /\ b.g.session = g.session /\ b.g.state = "pending"
  BY <1>3, BuildAndSend
<1>5. v = [b EXCEPT !.g.attempt = one_more(@)]
  BY DEF kick_off_handshake, p
<1> HIDE DEF b
<1>6. v = [b EXCEPT !.g = k]
  BY <1>4, <1>5 DEF LiveOk
<1>7. one_more(b.g.attempt) \in 0 .. MaxRetries
  BY <1>4, OneMore, SMTT(30) DEF LiveOk, GFields
<1>8. /\ k \in GFields /\ k.init_valid = b.g.init_valid /\ k.state = b.g.state
      /\ k.armed = b.g.armed /\ k.local_index = b.g.local_index /\ k.session = b.g.session
      /\ k.hs = b.g.hs
  BY <1>4, <1>7 DEF LiveOk, GFields
<1> HIDE DEF k
<1>9. QED BY <1>4, <1>6, <1>8, OtherFields

(* A rekey starts, or goes on with its next attempt.                       *)
LEMMA StartRekey ==
  ASSUME StateOk, NEW w, LiveOk(w), w.g.session = g.session, NEW how,
         NEW v, v = start_rekey(w, how)
  PROVE  LiveOk(v) /\ v.g.hs = 0 /\ v.g.session = g.session /\ v.g.state = w.g.state
<1> DEFINE b == build_and_send_init(w, how)
           k == [b.g EXCEPT !.rekey_attempt = one_more(b.g.rekey_attempt),
                            !.rekey_in_flight = TRUE]
<1>1. LiveOk(b) /\ b.g.hs = 0 /\ b.g.session = g.session /\ b.g.state = w.g.state
  BY BuildAndSend
<1>2. v = [b EXCEPT !.g.rekey_attempt = one_more(@), !.g.rekey_in_flight = TRUE]
  BY DEF start_rekey
<1> HIDE DEF b
<1>3. v = [b EXCEPT !.g = k]
  BY <1>1, <1>2, ZenonT(40) DEF LiveOk
<1>4. one_more(b.g.rekey_attempt) \in 0 .. MaxRetries
  BY <1>1, OneMore, SMTT(30) DEF LiveOk, GFields
<1>5. /\ k \in GFields /\ k.init_valid = b.g.init_valid /\ k.state = b.g.state
      /\ k.armed = b.g.armed /\ k.local_index = b.g.local_index /\ k.session = b.g.session
      /\ k.hs = b.g.hs
  <2>1. b.g \in GFields
    BY <1>1 DEF LiveOk
  <2>2. k \in GFields
    BY <1>4, <2>1, ZenonT(40) DEF GFields
  <2>3. QED BY <2>1, <2>2 DEF GFields
<1> HIDE DEF k
<1>6. QED BY <1>1, <1>3, <1>5, OtherFields

(* A pong or a login of the relay sends the INIT again, or a fresh one.    *)
LEMMA Refresh ==
  ASSUME StateOk, NEW w, LiveOk(w), w.g.session = g.session, NEW direct \in BOOLEAN,
         NEW relay \in BOOLEAN, NEW force \in BOOLEAN, NEW how
  PROVE  /\ Follows(w, init_refresh_or_resend(w, direct, relay, force, how))
         /\ init_refresh_or_resend(w, direct, relay, force, how).g.state = w.g.state
<1> DEFINE v == init_refresh_or_resend(w, direct, relay, force, how)
<1>0. v = init_refresh_or_resend(w, direct, relay, force, how)
  OBVIOUS
<1> HIDE DEF v
<1> SUFFICES Follows(w, v) /\ v.g.state = w.g.state
  BY <1>0
<1>1. CASE ~w.g.init_valid \/ ~handshake_pending(w.g)
  BY <1>0, <1>1 DEF init_refresh_or_resend, Follows
<1>2. CASE w.g.init_valid /\ handshake_pending(w.g) /\ ~due(w.g.hs, FreshAfter)
  <2>1. v = init_resend(w, direct, relay, force, how)
    BY <1>0, <1>2 DEF init_refresh_or_resend
  <2>2. SameInit(w, v)
    BY <2>1, Resend
  <2>3. QED BY <2>2 DEF SameInit, Follows, handshake_pending
<1>3. CASE w.g.init_valid /\ handshake_pending(w.g) /\ due(w.g.hs, FreshAfter)
  <2> DEFINE b == build_and_send_init(w, how)
             k == [b.g EXCEPT !.rekey_attempt = one_more(b.g.rekey_attempt)]
             h == [b.g EXCEPT !.attempt = one_more(b.g.attempt)]
  <2>1. LiveOk(b) /\ b.g.hs = 0 /\ b.g.session = g.session /\ b.g.state = w.g.state
    BY BuildAndSend
  <2>2. \/ v = [b EXCEPT !.g.rekey_attempt = one_more(@)]
        \/ v = [b EXCEPT !.g.attempt = one_more(@)]
    BY <1>0, <1>3 DEF init_refresh_or_resend
  <2> HIDE DEF b
  <2>3. v = [b EXCEPT !.g = k] \/ v = [b EXCEPT !.g = h]
    BY <2>1, <2>2 DEF LiveOk
  <2>4. one_more(b.g.rekey_attempt) \in 0 .. MaxRetries /\ one_more(b.g.attempt) \in 0 .. MaxRetries
    BY <2>1, OneMore, ZenonT(40) DEF LiveOk, GFields
  <2>5. /\ k \in GFields /\ k.init_valid = b.g.init_valid /\ k.state = b.g.state
        /\ k.armed = b.g.armed /\ k.local_index = b.g.local_index /\ k.session = b.g.session
        /\ k.hs = b.g.hs
    BY <2>1, <2>4 DEF LiveOk, GFields
  <2>6. /\ h \in GFields /\ h.init_valid = b.g.init_valid /\ h.state = b.g.state
        /\ h.armed = b.g.armed /\ h.local_index = b.g.local_index /\ h.session = b.g.session
        /\ h.hs = b.g.hs
    BY <2>1, <2>4 DEF LiveOk, GFields
  <2> HIDE DEF k, h
  <2>7. LiveOk(v) /\ v.g \in {k, h}
    BY <2>1, <2>3, <2>5, <2>6, OtherFields
  <2>8. QED BY <2>1, <2>5, <2>6, <2>7 DEF Follows
<1>4. QED BY <1>1, <1>2, <1>3

(* Any wake of wg_rx: the pending INIT again when Wi-Fi is back.           *)
LEMMA Woken ==
  ASSUME StateOk, NEW how PROVE SameInit(World, woken(how))
<1>1. CASE ~g.link_up_pending
  BY <1>1 DEF woken, StateOk, SameInit
<1>2. CASE g.link_up_pending
  <2> DEFINE h == [g EXCEPT !.link_up_pending = FALSE]
             w == [World EXCEPT !.g.link_up_pending = FALSE]
  <2>1. w = [World EXCEPT !.g = h]
    BY DEF World
  <2>2. /\ h \in GFields /\ h.init_valid = g.init_valid /\ h.state = g.state
        /\ h.armed = g.armed /\ h.local_index = g.local_index /\ h.session = g.session
        /\ h.hs = g.hs /\ h.rekey_in_flight = g.rekey_in_flight
    BY ZenonT(40) DEF StateOk, LiveOk, GFields, World
  <2>3. LiveOk(World) /\ World.g = g
    BY DEF StateOk, World
  <2> HIDE DEF h, w, World
  <2>4. LiveOk(w) /\ w.g = h
    BY <2>1, <2>2, <2>3, OtherFields
  <2>5. woken(how) = init_resend(w, TRUE, TRUE, TRUE, how)
    BY <1>2 DEF woken, w
  <2>6. SameInit(w, init_resend(w, TRUE, TRUE, TRUE, how))
    BY <2>4, Resend, ZenonT(40)
  <2>7. QED BY <2>2, <2>3, <2>4, <2>5, <2>6, ZenonT(40) DEF SameInit
<1>3. QED BY <1>1, <1>2

-----------------------------------------------------------------------------
(* The timer blocks of rx_task.                                            *)

\* A pair on its way through the blocks: a cold attempt is not overdue.
ColdServed(w) == /\ LiveOk(w) /\ w.g.session = g.session
                 /\ w.g.state = "pending" => w.g.hs <= RekeyTimeout

(* The longest a timer of the handshake runs.                              *)
LEMMA RetryPeriod ==
  ASSUME NEW s PROVE handshake_retry(s) \in Nat /\ handshake_retry(s) <= RekeyTimeout
BY Caps DEF handshake_retry

(* The cold block: a retry, or the pause between two bursts.               *)
LEMMA ColdBlock ==
  ASSUME StateOk, NEW w, LiveOk(w), w.g.session = g.session, NEW how
  PROVE  ColdServed(cold_block(w, how))
<1>1. w.g \in GFields /\ w.g.hs \in Int /\ w.g.hs <= RekeyTimeout + 2
  BY DEF LiveOk, GFields, UpTo, AgeOf
<1>2. CASE ~cold_due(w.g)
  <2>1. cold_block(w, how) = w
    BY <1>2 DEF cold_block
  <2>2. w.g.state = "pending" => w.g.hs <= handshake_retry(w.g)
    BY <1>1, <1>2, Caps, RetryPeriod DEF cold_due, due
  <2>3. QED BY <1>1, <2>1, <2>2, Caps, RetryPeriod DEF ColdServed
<1>3. CASE cold_due(w.g) /\ w.g.attempt >= MaxRetries
  <2> DEFINE e == RekeyTimeout - HandBackoff - 1
             h == [w.g EXCEPT !.attempt = 0, !.hs = e]
             v == cold_block(w, how)
  <2>1. v = [w EXCEPT !.g.attempt = 0, !.g.hs = e]
    BY <1>3 DEF cold_block
  <2>2. e \in UpTo(RekeyTimeout + 2) /\ e <= RekeyTimeout /\ 0 \in 0 .. MaxRetries
    BY Caps DEF UpTo, AgeOf
  <2> HIDE DEF e, v
  <2>3. v = [w EXCEPT !.g = h]
    BY <2>1, ZenonT(40) DEF LiveOk
  <2>4. h \in GFields
    BY <1>1, <2>2, ZenonT(40) DEF GFields
  <2>5. /\ h.init_valid = w.g.init_valid /\ h.hs = e
        /\ h.armed = w.g.armed /\ h.local_index = w.g.local_index /\ h.session = w.g.session
    BY <1>1, <2>4 DEF GFields
  <2> HIDE DEF h
  <2>6. LiveOk(v) /\ v.g = h
    BY <2>3, <2>4, <2>5, OtherFields
  <2>7. QED BY <2>2, <2>5, <2>6 DEF ColdServed, v
<1>4. CASE cold_due(w.g) /\ ~(w.g.attempt >= MaxRetries)
  <2>1. cold_block(w, how) = kick_off_handshake(w, how)
    BY <1>4 DEF cold_block
  <2>2. QED BY <2>1, KickOff, Caps DEF ColdServed
<1>5. QED BY <1>2, <1>3, <1>4

(* A rekey serves the cold retry.                                          *)
LEMMA RekeyServed ==
  ASSUME StateOk, NEW u, LiveOk(u), u.g.session = g.session, NEW how
  PROVE  ColdServed(start_rekey(u, how))
<1> DEFINE v == start_rekey(u, how)
<1>1. v = start_rekey(u, how)
  OBVIOUS
<1> HIDE DEF v
<1>2. LiveOk(v) /\ v.g.hs = 0 /\ v.g.session = g.session
  BY <1>1, StartRekey, ZenonT(40)
<1>3. ColdServed(v)
  BY <1>2, Caps DEF ColdServed
<1>4. QED BY <1>3 DEF v

(* A rekey with its budget renewed and, for a stale session, its clock.    *)
LEMMA RekeyAnew ==
  ASSUME StateOk, NEW w, ColdServed(w), NEW how, NEW h \in GFields,
         h.init_valid = w.g.init_valid, h.armed = w.g.armed,
         h.local_index = w.g.local_index, h.session = w.g.session,
         NEW u, u = [w EXCEPT !.g = h]
  PROVE  ColdServed(start_rekey(u, how))
<1>1. LiveOk(w) /\ w.g.session = g.session
  BY DEF ColdServed
<1>2. LiveOk(u) /\ u.g = h
  BY <1>1, OtherFields
<1>3. u.g.session = g.session
  BY <1>1, <1>2
<1>4. QED BY <1>2, <1>3, RekeyServed, ZenonT(40)

(* The age of the session.                                                 *)
LEMMA AgeBlock ==
  ASSUME StateOk, NEW w, ColdServed(w), NEW how PROVE ColdServed(age_block(w, how))
<1>1. CASE ~age_due(w.g)
  BY <1>1 DEF age_block
<1>2. CASE age_due(w.g)
  <2> DEFINE u == [w EXCEPT !.g.rekey_attempt = 0]
             h == [w.g EXCEPT !.rekey_attempt = 0]
  <2>1. u = [w EXCEPT !.g = h] /\ age_block(w, how) = start_rekey(u, how)
    BY <1>2 DEF ColdServed, LiveOk, age_block
  <2>2. w.g \in GFields /\ 0 \in 0 .. MaxRetries
    BY Caps DEF ColdServed, LiveOk
  <2>3. h \in GFields
    BY <2>2 DEF GFields
  <2>4. /\ h.init_valid = w.g.init_valid
        /\ h.armed = w.g.armed /\ h.local_index = w.g.local_index /\ h.session = w.g.session
    BY <2>2, <2>3 DEF GFields
  <2> HIDE DEF u, h
  <2>5. QED BY <2>1, <2>3, <2>4, RekeyAnew
<1>3. QED BY <1>1, <1>2

(* The probe of a stale path.                                              *)
LEMMA ProbeBlock ==
  ASSUME NEW w, ColdServed(w) PROVE ColdServed(probe_block(w))
<1>1. CASE ~probe_due(w.g)
  BY <1>1 DEF probe_block
<1>2. CASE probe_due(w.g)
  <2> DEFINE h == [w.g EXCEPT !.probe = 0]
             v == probe_block(w)
  <2>1. v = [w EXCEPT !.g = h]
    BY <1>2 DEF probe_block, ColdServed, LiveOk
  <2>2. w.g \in GFields /\ 0 \in UpTo(Cooldown + 1)
    BY Caps DEF ColdServed, LiveOk, UpTo, AgeOf
  <2>3. h \in GFields
    BY <2>2 DEF GFields
  <2>4. /\ h.init_valid = w.g.init_valid /\ h.state = w.g.state /\ h.hs = w.g.hs
        /\ h.armed = w.g.armed /\ h.local_index = w.g.local_index /\ h.session = w.g.session
    BY <2>2, <2>3 DEF GFields
  <2> HIDE DEF h, v
  <2>5. LiveOk(v) /\ v.g = h
    BY <2>1, <2>3, <2>4, OtherFields DEF ColdServed
  <2>6. QED BY <2>4, <2>5 DEF ColdServed, v
<1>3. QED BY <1>1, <1>2

(* A session that hears nothing.                                           *)
LEMMA StaleBlock ==
  ASSUME StateOk, NEW w, ColdServed(w), NEW how PROVE ColdServed(stale_block(w, how))
<1>1. CASE ~stale_due(w.g)
  BY <1>1 DEF stale_block
<1>2. CASE stale_due(w.g)
  <2> DEFINE u == [w EXCEPT !.g.rekey_attempt = 0, !.g.recv = 0]
             h == [w.g EXCEPT !.rekey_attempt = 0, !.recv = 0]
  <2>1. u = [w EXCEPT !.g = h] /\ stale_block(w, how) = start_rekey(u, how)
    BY <1>2, ZenonT(40) DEF ColdServed, LiveOk, stale_block
  <2>2. w.g \in GFields /\ 0 \in 0 .. MaxRetries /\ 0 \in AgeOf(StaleAfter + 1)
    BY Caps DEF ColdServed, LiveOk, UpTo, AgeOf
  <2>3. h \in GFields
    BY <2>2, ZenonT(40) DEF GFields
  <2>4. /\ h.init_valid = w.g.init_valid
        /\ h.armed = w.g.armed /\ h.local_index = w.g.local_index /\ h.session = w.g.session
    BY <2>2, <2>3 DEF GFields
  <2> HIDE DEF u, h
  <2>5. QED BY <2>1, <2>3, <2>4, RekeyAnew
<1>3. QED BY <1>1, <1>2

(* The retry of a rekey, or the cold handshake after its last one.         *)
LEMMA RetryBlock ==
  ASSUME StateOk, NEW w, ColdServed(w), NEW how, NEW v, v = retry_block(w, how)
  PROVE  /\ LiveOk(v) /\ v.g.session = g.session
         /\ handshake_pending(v.g) => v.g.hs <= RekeyTimeout
<1>1. CASE ~retry_due(w.g)
  <2>1. v = w /\ w.g.hs \in Int /\ w.g.hs <= RekeyTimeout + 2
    BY <1>1 DEF retry_block, ColdServed, LiveOk, GFields, UpTo, AgeOf
  <2>2. QED BY <1>1, <2>1, Caps DEF ColdServed, handshake_pending, retry_due, due
<1>2. CASE retry_due(w.g) /\ w.g.rekey_attempt < MaxRetries
  <2>1. v = start_rekey(w, how)
    BY <1>2 DEF retry_block
  <2>2. QED BY <2>1, StartRekey, Caps DEF ColdServed
<1>3. CASE retry_due(w.g) /\ ~(w.g.rekey_attempt < MaxRetries)
  <2> DEFINE u == [w EXCEPT !.g.rekey_in_flight = FALSE, !.g.rekey_attempt = 0,
                            !.g.attempt = 0]
             h == [w.g EXCEPT !.rekey_in_flight = FALSE, !.rekey_attempt = 0, !.attempt = 0]
  <2>1. u = [w EXCEPT !.g = h]
    BY ZenonT(40) DEF ColdServed, LiveOk
  <2>2. v = kick_off_handshake(u, how)
    BY <1>3 DEF retry_block
  <2>3. w.g \in GFields /\ 0 \in 0 .. MaxRetries
    BY Caps DEF ColdServed, LiveOk
  <2>4. h \in GFields
    BY <2>3, ZenonT(40) DEF GFields
  <2>5. /\ h.init_valid = w.g.init_valid
        /\ h.armed = w.g.armed /\ h.local_index = w.g.local_index /\ h.session = w.g.session
    BY <2>3, <2>4 DEF GFields
  <2> HIDE DEF h, u
  <2>6. LiveOk(u) /\ u.g.session = g.session
    BY <2>1, <2>4, <2>5, OtherFields DEF ColdServed
  <2>7. QED BY <2>2, <2>6, KickOff, Caps
<1>4. QED BY <1>1, <1>2, <1>3

(* All blocks: nothing in flight is overdue when they are through.         *)
LEMMA TimerBlocks ==
  ASSUME StateOk, NEW how, NEW v, v = timer_blocks(World, how)
  PROVE  /\ LiveOk(v) /\ v.g.session = g.session
         /\ handshake_pending(v.g) => v.g.hs <= RekeyTimeout
<1>1. LiveOk(World) /\ World.g.session = g.session
  BY DEF StateOk, World
<1>2. ColdServed(stale_block(probe_block(age_block(cold_block(World, how), how)), how))
  BY <1>1, ColdBlock, AgeBlock, ProbeBlock, StaleBlock
<1>3. QED BY <1>2, RetryBlock DEF timer_blocks

-----------------------------------------------------------------------------
(* The plan of the next wait.                                              *)

(* The wait is 1 .. WG_RX_MAX_WAIT_MS, and reaches past no deadline.       *)
LEMMA PlanWait ==
  ASSUME NEW s \in GFields
  PROVE  /\ plan_wait(s) \in 1 .. MaxWait
         /\ handshake_pending(s) /\ s.hs <= RekeyTimeout
              => s.hs + plan_wait(s) <= RekeyTimeout + 1
<1> DEFINE up == s.state = "up"
           e1 == at(s.hs, handshake_retry(s))
           e2 == at(s.completed, RekeyAfter)
           e3 == at(s.recv, StaleAfter)
           e4 == Max({at(s.recv, StaleAfter), at(s.probe, Cooldown)})
           e5 == at(s.tx, KeepaliveEvery)
           T1 == IF s.state = "pending" \/ s.rekey_in_flight THEN {e1} ELSE {}
           T2 == IF up /\ ~s.rekey_in_flight /\ s.completed # Never THEN {e2} ELSE {}
           T3 == IF up /\ ~s.rekey_in_flight /\ s.recv # Never THEN {e3} ELSE {}
           T4 == IF s.state \in {"up", "pending"} /\ s.recv # Never THEN {e4} ELSE {}
           T5 == IF up /\ s.tx # Never THEN {e5} ELSE {}
           all == T1 \cup (T2 \cup (T3 \cup (T4 \cup (T5 \cup {MaxWait}))))
<1>1. /\ s.hs \in Int /\ s.completed \in Int /\ s.recv \in Int /\ s.probe \in Int
      /\ s.tx \in Int /\ handshake_retry(s) \in Nat /\ handshake_retry(s) <= RekeyTimeout
  BY Caps, RetryPeriod DEF GFields, UpTo, AgeOf
<1>2. e1 \in Int /\ e2 \in Int /\ e3 \in Int /\ e5 \in Int
  BY <1>1, Caps DEF at
<1>3. e4 \in Int
  <2>1. at(s.recv, StaleAfter) \in Int /\ at(s.probe, Cooldown) \in Int
    BY <1>1, Caps DEF at
  <2>2. QED BY <2>1, MaxTwo
<1>4. deadlines(s) \cup {MaxWait} = all
  BY DEF deadlines
<1>5. handshake_pending(s) => T1 = {e1}
  BY DEF handshake_pending
<1>6. e1 = handshake_retry(s) + 1 - s.hs
  BY DEF at
<1>7. /\ T1 \in {{}, {e1}} /\ T2 \in {{}, {e2}} /\ T3 \in {{}, {e3}}
      /\ T4 \in {{}, {e4}} /\ T5 \in {{}, {e5}}
  OBVIOUS
<1> HIDE DEF e1, e2, e3, e4, e5, T1, T2, T3, T4, T5
<1>8. HasLeast({MaxWait})
  BY Caps DEF HasLeast, MaxWait
<1>9. HasLeast(T5 \cup {MaxWait})
  BY <1>2, <1>7, <1>8, LeastOfMore, Zenon
<1>10. HasLeast(T4 \cup (T5 \cup {MaxWait}))
  BY <1>3, <1>7, <1>9, LeastOfMore, Zenon
<1>11. HasLeast(T3 \cup (T4 \cup (T5 \cup {MaxWait})))
  BY <1>2, <1>7, <1>10, LeastOfMore, Zenon
<1>12. HasLeast(T2 \cup (T3 \cup (T4 \cup (T5 \cup {MaxWait}))))
  BY <1>2, <1>7, <1>11, LeastOfMore, Zenon
<1>13. HasLeast(all)
  BY <1>2, <1>7, <1>12, LeastOfMore, Zenon
<1> DEFINE m == Min(all)
<1>14. /\ m \in Int /\ m <= MaxWait
       /\ handshake_pending(s) => m <= e1
  <2>1. m \in Int /\ \A y \in all : m <= y
    BY <1>13, LeastIs
  <2>2. MaxWait \in all /\ (T1 = {e1} => e1 \in all)
    OBVIOUS
  <2> HIDE DEF m, all
  <2>3. QED BY <1>5, <2>1, <2>2
<1>15. plan_wait(s) = Max({1, m})
  BY <1>4 DEF plan_wait
<1> HIDE DEF m, all
<1>16. plan_wait(s) = IF 1 >= m THEN 1 ELSE m
  BY <1>14, <1>15, MaxTwo
<1>17. QED BY <1>1, <1>6, <1>14, <1>16, Caps DEF MaxWait

\* An age n ticks on.
Older(age, n, cap) == IF age = Never THEN Never ELSE Min({age + n, cap})

(* Saturation hides no deadline below the cap.                             *)
LEMMA AgedDue ==
  ASSUME NEW cap \in Int, Never > cap, NEW age \in AgeOf(cap), NEW n \in Nat
  PROVE  /\ Older(age, n, cap) \in AgeOf(cap)
         /\ age # Never => /\ Older(age, n, cap) \in UpTo(cap)
                           /\ Older(age, n, cap) \in Int /\ Older(age, n, cap) <= age + n
         /\ \A period \in Int : period < cap =>
              (due(Older(age, n, cap), period) <=> age # Never /\ at(age, period) <= n)
<1>1. CASE age = Never
  BY <1>1 DEF due, Older, AgeOf
<1>2. CASE age # Never
  <2>1. age \in Int /\ age <= cap /\ Never \in Int
    BY <1>2, Caps DEF UpTo, AgeOf
  <2>2. Older(age, n, cap) = IF age + n <= cap THEN age + n ELSE cap
    BY <1>2, <2>1, MinTwo DEF Older
  <2>3. QED BY <1>2, <2>1, <2>2 DEF due, at, UpTo, AgeOf
<1>3. QED BY <1>1, <1>2

(* The same for a timer whose age is kept to one tick past its period.     *)
LEMMA TimerDue ==
  ASSUME NEW p \in Nat, Never > p + 1, NEW age \in AgeOf(p + 1), NEW n \in Nat
  PROVE  /\ Older(age, n, p + 1) \in AgeOf(p + 1)
         /\ age # Never => Older(age, n, p + 1) \in UpTo(p + 1)
         /\ due(Older(age, n, p + 1), p) <=> age # Never /\ at(age, p) <= n
<1>1. p + 1 \in Int /\ p \in Int /\ p < p + 1
  OBVIOUS
<1>2. QED BY <1>1, AgedDue

(* The fields n ticks on.                                                  *)
LEMMA Aged ==
  ASSUME NEW s \in GFields, NEW n \in Nat, NEW h, h = aged(s, n)
  PROVE  /\ h \in GFields /\ h.state = s.state /\ h.rekey_in_flight = s.rekey_in_flight
         /\ h.attempt = s.attempt /\ h.init_valid = s.init_valid /\ h.armed = s.armed
         /\ h.local_index = s.local_index /\ h.session = s.session
         /\ h.hs \in Int /\ h.hs <= s.hs + n
         /\ \A d \in Int : d <= RekeyTimeout => (due(h.hs, d) <=> at(s.hs, d) <= n)
         /\ due(h.completed, RekeyAfter) <=> s.completed # Never /\ at(s.completed, RekeyAfter) <= n
         /\ due(h.recv, StaleAfter) <=> s.recv # Never /\ at(s.recv, StaleAfter) <= n
         /\ due(h.probe, Cooldown) <=> at(s.probe, Cooldown) <= n
         /\ due(h.tx, KeepaliveEvery) <=> s.tx # Never /\ at(s.tx, KeepaliveEvery) <= n
<1> DEFINE a1 == Older(s.hs, n, RekeyTimeout + 2)
           a2 == Older(s.completed, n, RekeyAfter + 1)
           a3 == Older(s.recv, n, StaleAfter + 1)
           a4 == Older(s.probe, n, Cooldown + 1)
           a5 == Older(s.tx, n, KeepaliveEvery + 1)
<1>1. h = [s EXCEPT !.hs = a1, !.completed = a2, !.recv = a3, !.probe = a4, !.tx = a5]
  BY DEF aged, Older
<1>2. /\ s.hs \in AgeOf(RekeyTimeout + 2) /\ s.hs # Never
      /\ s.completed \in AgeOf(RekeyAfter + 1)
      /\ s.recv \in AgeOf(StaleAfter + 1)
      /\ s.probe \in AgeOf(Cooldown + 1) /\ s.probe # Never
      /\ s.tx \in AgeOf(KeepaliveEvery + 1)
  BY Caps DEF GFields, UpTo, AgeOf
<1>3. /\ a1 \in UpTo(RekeyTimeout + 2) /\ a1 \in Int /\ a1 <= s.hs + n
      /\ \A d \in Int : d <= RekeyTimeout => (due(a1, d) <=> at(s.hs, d) <= n)
  <2>1. RekeyTimeout + 2 \in Int /\ Never > RekeyTimeout + 2
        /\ \A d \in Int : d <= RekeyTimeout => d < RekeyTimeout + 2
    BY Caps
  <2>2. /\ a1 \in UpTo(RekeyTimeout + 2) /\ a1 \in Int /\ a1 <= s.hs + n
        /\ \A d \in Int : d < RekeyTimeout + 2 => (due(a1, d) <=> at(s.hs, d) <= n)
    BY <1>2, <2>1, AgedDue
  <2>3. QED BY <2>1, <2>2
<1>4. /\ a2 \in AgeOf(RekeyAfter + 1)
      /\ due(a2, RekeyAfter) <=> s.completed # Never /\ at(s.completed, RekeyAfter) <= n
  BY <1>2, Caps, TimerDue, ZenonT(40)
<1>5. /\ a3 \in AgeOf(StaleAfter + 1)
      /\ due(a3, StaleAfter) <=> s.recv # Never /\ at(s.recv, StaleAfter) <= n
  BY <1>2, Caps, TimerDue, ZenonT(40)
<1>6. /\ a4 \in UpTo(Cooldown + 1)
      /\ due(a4, Cooldown) <=> at(s.probe, Cooldown) <= n
  BY <1>2, Caps, TimerDue, ZenonT(40)
<1>7. /\ a5 \in AgeOf(KeepaliveEvery + 1)
      /\ due(a5, KeepaliveEvery) <=> s.tx # Never /\ at(s.tx, KeepaliveEvery) <= n
  BY <1>2, Caps, TimerDue, ZenonT(40)
<1> HIDE DEF a1, a2, a3, a4, a5
<1>8. h \in GFields
  BY <1>1, <1>3, <1>4, <1>5, <1>6, <1>7, ZenonT(40) DEF GFields
<1>9. /\ h.hs = a1 /\ h.completed = a2 /\ h.recv = a3 /\ h.probe = a4 /\ h.tx = a5
      /\ h.state = s.state /\ h.rekey_in_flight = s.rekey_in_flight
      /\ h.attempt = s.attempt /\ h.init_valid = s.init_valid /\ h.armed = s.armed
      /\ h.local_index = s.local_index /\ h.session = s.session
  BY <1>1, <1>8 DEF GFields
<1>10. QED BY <1>3, <1>4, <1>5, <1>6, <1>7, <1>8, <1>9, SMTT(30)

(* rx_next_deadline_us and the blocks agree.                               *)
LEMMA PlanIsExact == ASSUME g \in GFields PROVE PlanExact
<1>1. Horizon \in Int
  BY MaxTwo, Caps DEF Horizon
<1> SUFFICES ASSUME NEW n \in 0 .. Horizon
             PROVE  some_block_due(aged(g, n)) <=> \E d \in deadlines(g) : d <= n
  BY DEF PlanExact
<1> DEFINE h == aged(g, n)
           up == g.state = "up"
           e1 == at(g.hs, handshake_retry(g))
           e2 == at(g.completed, RekeyAfter)
           e3 == at(g.recv, StaleAfter)
           e4 == at(g.probe, Cooldown)
           e5 == at(g.tx, KeepaliveEvery)
<1>2. n \in Nat /\ h = aged(g, n)
  BY <1>1
<1> HIDE DEF h, e2, e3, e4, e5
<1>3. /\ h.state = g.state /\ h.rekey_in_flight = g.rekey_in_flight /\ h.attempt = g.attempt
      /\ \A d \in Int : d <= RekeyTimeout => (due(h.hs, d) <=> at(g.hs, d) <= n)
      /\ due(h.completed, RekeyAfter) <=> g.completed # Never /\ e2 <= n
      /\ due(h.recv, StaleAfter) <=> g.recv # Never /\ e3 <= n
      /\ due(h.probe, Cooldown) <=> e4 <= n
      /\ due(h.tx, KeepaliveEvery) <=> g.tx # Never /\ e5 <= n
  BY <1>2, Aged DEF e2, e3, e4, e5
<1>4. /\ handshake_retry(h) = handshake_retry(g) /\ handshake_retry(g) \in Int
      /\ handshake_retry(g) <= RekeyTimeout /\ RekeyTimeout \in Int
  BY <1>3, RetryPeriod, Caps DEF handshake_retry
<1>5. /\ due(h.hs, handshake_retry(g)) <=> e1 <= n
      /\ due(h.hs, RekeyTimeout) <=> at(g.hs, RekeyTimeout) <= n
  BY <1>3, <1>4, Caps
<1>6. ~(g.state = "pending") => e1 = at(g.hs, RekeyTimeout)
  BY DEF handshake_retry
<1>7. at(g.hs, RekeyTimeout) <= n => e1 <= n
  BY <1>2, <1>4 DEF at, GFields, UpTo, AgeOf
<1>8. Max({e3, e4}) <= n <=> e3 <= n /\ e4 <= n
  <2>1. e3 \in Int /\ e4 \in Int
    BY Caps DEF at, GFields, UpTo, AgeOf, e3, e4
  <2>2. QED BY <1>2, <2>1, MaxTwo
<1>9. (\E d \in deadlines(g) : d <= n) <=>
         \/ (g.state = "pending" \/ g.rekey_in_flight) /\ e1 <= n
         \/ up /\ ~g.rekey_in_flight /\ g.completed # Never /\ e2 <= n
         \/ up /\ ~g.rekey_in_flight /\ g.recv # Never /\ e3 <= n
         \/ g.state \in {"up", "pending"} /\ g.recv # Never /\ Max({e3, e4}) <= n
         \/ up /\ g.tx # Never /\ e5 <= n
  BY DEF deadlines, e2, e3, e4, e5
<1>10. some_block_due(h) <=>
         \/ g.state = "pending" /\ e1 <= n
         \/ up /\ ~g.rekey_in_flight /\ g.completed # Never /\ e2 <= n
         \/ g.state \in {"up", "pending"} /\ (g.recv # Never /\ e3 <= n) /\ e4 <= n
         \/ up /\ ~g.rekey_in_flight /\ g.recv # Never /\ e3 <= n
         \/ g.rekey_in_flight /\ at(g.hs, RekeyTimeout) <= n
         \/ up /\ g.tx # Never /\ e5 <= n
  BY <1>3, <1>4, <1>5 DEF some_block_due, cold_due, age_due, probe_due, stale_due,
     retry_due, keepalive_due
<1> HIDE DEF e1
<1>11. QED BY <1>2, <1>6, <1>7, <1>8, <1>9, <1>10

-----------------------------------------------------------------------------
(* The steps.                                                              *)

\* What a step owes: the invariant, and keys the responder holds.
Installs == g'.session # g.session /\ g'.session # NoIndex =>
                g'.session \in {peer.next, peer.current} \/ g'.epoch < peer.epoch

(* A response left out, or taken, leaves no more of them.                  *)
LEMMA FewerResponses ==
  ASSUME HsTypes, resps' \subseteq resps, peer'.epoch = peer.epoch
  PROVE  RespsOk' /\ Answered' \subseteq Answered
<1>1. PICK a, b, c \in Indices : \A r \in resps : r.init \in {a, b, c}
  BY DEF HsTypes, RespsOk
<1>2. \A r \in resps' : r.init \in {a, b, c}
  BY <1>1
<1>3. /\ resps' \subseteq [init : Index, epoch : Nat]
      /\ \A r \in resps' : r.epoch <= peer'.epoch
  BY DEF HsTypes, RespsOk
<1>4. Answered' \subseteq Answered
  BY DEF Answered
<1>5. QED BY <1>2, <1>3, <1>4, Zenon DEF RespsOk

(* The pair w becomes the state.                                           *)
LEMMA LiveNext ==
  ASSUME HsTypes, NEW w, LiveOk(w), g' = w.g, wire' = w.wire, resps' \subseteq resps,
         peer'.epoch = peer.epoch,
         w.g.armed \in Answered => peer'.next = peer.next /\ peer'.consumed = peer.consumed
  PROVE  LiveOk(World)'
<1>1. World' = [g |-> w.g, wire |-> w.wire]
  BY DEF World
<1>2. World' \in [g : GFields, wire : Wires] /\ World'.g = w.g /\ World'.wire = w.wire
  BY <1>1 DEF LiveOk
<1>4. Answered' \subseteq Answered
  BY FewerResponses
<1>3. QED BY <1>2, <1>4 DEF LiveOk

\* wg_rx stays where it is, or a wake sends it to its timers.
RxKept == rx' = rx \/ (rx.pc = "wait" /\ rx' = [rx EXCEPT !.pc = "timers"])

(* Nothing in flight is older than before: wg_rx is in time as before.     *)
LEMMA TimelyNext ==
  ASSUME HsInv, RxKept, g'.hs \in Int, g.state = "idle" => g'.state = "idle",
         handshake_pending(g)' => g'.hs = 0 \/ (g'.hs = g.hs /\ handshake_pending(g))
  PROVE  rx' \in RxType /\ Timely'
<1>1. rx \in RxType /\ rx.wait \in Nat /\ rx.wait <= RekeyTimeout /\ RekeyTimeout \in Nat
      /\ g.hs \in Int
  BY Caps DEF HsInv, HsTypes, RxType, MaxWait, LiveOk, GFields, UpTo, World
<1>2. rx' \in RxType
  BY <1>1 DEF RxKept, RxType
<1>3. \/ rx' = rx
      \/ rx.pc = "wait" /\ rx'.pc = "timers"
  BY <1>1 DEF RxKept, RxType
<1>4. Timely'
  <2>1. CASE rx' = rx
    BY <1>1, <2>1 DEF HsInv, Timely
  <2>2. CASE rx.pc = "wait" /\ rx'.pc = "timers"
    BY <1>1, <2>2 DEF HsInv, Timely
  <2>3. QED BY <1>3, <2>1, <2>2
<1>5. QED BY <1>2, <1>4

(* A step that follows the pair w, all else as it was.                     *)
LEMMA Lands ==
  ASSUME HsInv, NEW w, Follows(World, w), g.state = "idle" => w.g.state = "idle",
         g' = w.g, wire' = w.wire, RxKept, resps' \subseteq resps, peer' = peer,
         env' \in EnvType
  PROVE  HsInv' /\ Installs
<1>1. LiveOk(w) /\ w.g.session = g.session /\ w.g.hs \in Int
  BY DEF Follows, World, LiveOk, GFields, UpTo
<1>2. LiveOk(World)'
  BY <1>1, LiveNext DEF HsInv
<1>3. handshake_pending(g)' => g'.hs = 0 \/ (g'.hs = g.hs /\ handshake_pending(g))
  BY DEF Follows, World, handshake_pending
<1>4. rx' \in RxType /\ Timely'
  BY <1>1, <1>3, TimelyNext
<1>5. HsTypes'
  BY <1>4, FewerResponses DEF HsInv, HsTypes
<1>6. QED BY <1>1, <1>2, <1>4, <1>5 DEF HsInv, Installs

(* A step that leaves the handshake alone.                                 *)
LEMMA OthersMove ==
  ASSUME HsInv, UNCHANGED <<g, rx, wire, peer>>, resps' \subseteq resps, env' \in EnvType
  PROVE  HsInv' /\ Installs
<1>1. Follows(World, World) /\ World.g = g /\ World.wire = wire
  BY DEF HsInv, Follows, World
<1>2. QED BY <1>1, Lands DEF RxKept

(* SameInit is one way to follow.                                          *)
LEMMA SameFollows ==
  ASSUME NEW w, NEW v, SameInit(w, v) PROVE Follows(w, v) /\ v.g.state = w.g.state
BY DEF SameInit, Follows, handshake_pending

(* The clock of the peer's last packet restarts.                           *)
LEMMA Heard ==
  ASSUME NEW w, NEW v, Follows(w, v)
  PROVE  \E u : /\ Follows(w, u) /\ u.g.state = v.g.state
                /\ u.g = [v.g EXCEPT !.recv = 0] /\ u.wire = v.wire
<1> DEFINE h == [v.g EXCEPT !.recv = 0]
           u == [v EXCEPT !.g = h]
<1>1. LiveOk(v) /\ v.g \in GFields /\ 0 \in AgeOf(StaleAfter + 1)
  BY Caps DEF Follows, LiveOk, AgeOf, UpTo
<1>2. h \in GFields
  BY <1>1 DEF GFields
<1>3. /\ h.init_valid = v.g.init_valid /\ h.state = v.g.state /\ h.hs = v.g.hs
      /\ h.armed = v.g.armed /\ h.local_index = v.g.local_index /\ h.session = v.g.session
      /\ h.rekey_in_flight = v.g.rekey_in_flight
  BY <1>1, <1>2 DEF GFields
<1> HIDE DEF h
<1>4. LiveOk(u) /\ u.g = h /\ u.wire = v.wire
  BY <1>1, <1>2, <1>3, OtherFields
<1> HIDE DEF u
<1>5. Follows(w, u) /\ u.g.state = v.g.state
  BY <1>3, <1>4 DEF Follows, handshake_pending
<1>6. QED BY <1>4, <1>5, Zenon DEF h

(* RxTimeout: a wake with nothing received.                                *)
LEMMA RxTimeoutKeeps == ASSUME HsInv, NEW how, RxTimeout(how) PROVE HsInv' /\ Installs
<1> DEFINE w == woken(how)
<1>1. StateOk
  BY DEF HsInv, StateOk
<1>2. Follows(World, w) /\ w.g.state = World.g.state
  BY <1>1, Woken, SameFollows
<1>3. World.g = g
  BY DEF World
<1>4. RxKept /\ g' = w.g /\ wire' = w.wire /\ resps' = resps /\ peer' = peer /\ env' \in EnvType
  BY DEF RxTimeout, GoesOn, Becomes, RxKept, HsInv, HsTypes
<1> HIDE DEF w
<1>5. QED BY <1>2, <1>3, <1>4, Lands

(* RxTransport: a packet of the session.                                   *)
LEMMA RxTransportKeeps == ASSUME HsInv, NEW how, RxTransport(how) PROVE HsInv' /\ Installs
<1> DEFINE w == woken(how)
<1>1. StateOk
  BY DEF HsInv, StateOk
<1>2. Follows(World, w) /\ w.g.state = World.g.state
  BY <1>1, Woken, SameFollows
<1>3. World.g = g
  BY DEF World
<1>4. /\ RxKept /\ g' = [w.g EXCEPT !.recv = 0] /\ wire' = w.wire
      /\ resps' = resps /\ peer' = peer /\ env' \in EnvType
  BY DEF RxTransport, GoesOn, RxKept, HsInv, HsTypes
<1> HIDE DEF w
<1>5. PICK u : /\ Follows(World, u) /\ u.g.state = w.g.state
               /\ u.g = [w.g EXCEPT !.recv = 0] /\ u.wire = w.wire
  BY <1>2, Heard
<1>6. g' = u.g /\ wire' = u.wire /\ u.g.state = g.state
  BY <1>2, <1>3, <1>4, <1>5
<1>7. QED BY <1>4, <1>5, <1>6, Lands, ZenonT(40)

(* InjectTransport: the same by the relay.                                 *)
LEMMA InjectTransportKeeps == ASSUME HsInv, InjectTransport PROVE HsInv' /\ Installs
<1>1. Follows(World, World) /\ World.g = g /\ World.wire = wire
  BY DEF HsInv, Follows, World
<1>2. PICK u : /\ Follows(World, u) /\ u.g.state = World.g.state
               /\ u.g = [World.g EXCEPT !.recv = 0] /\ u.wire = World.wire
  BY <1>1, Heard
<1>3. /\ RxKept /\ g' = u.g /\ wire' = u.wire /\ u.g.state = g.state
      /\ resps' = resps /\ peer' = peer /\ env' \in EnvType
  BY <1>1, <1>2 DEF InjectTransport, RxKept, HsInv, HsTypes
<1>4. QED BY <1>2, <1>3, Lands, ZenonT(40)

(* RxPong: the path is proven, the INIT goes down it.                      *)
LEMMA RxPongKeeps == ASSUME HsInv, NEW how, RxPong(how) PROVE HsInv' /\ Installs
<1> DEFINE w == woken(how)
           v == init_refresh_or_resend(w, TRUE, FALSE, FALSE, how)
<1>1. StateOk /\ World.g = g
  BY DEF HsInv, StateOk, World
<1>2. SameInit(World, w)
  BY <1>1, Woken
<1>3. env' \in EnvType
  BY ZenonT(40) DEF RxPong, HsInv, HsTypes, EnvType
<1>4. RxKept /\ g' = v.g /\ wire' = v.wire /\ resps' = resps /\ peer' = peer
  BY DEF RxPong, GoesOn, Becomes, RxKept
<1> HIDE DEF w
<1>5. Follows(w, v) /\ v.g.state = w.g.state
  <2>1. LiveOk(w) /\ w.g.session = g.session
    BY <1>1, <1>2 DEF SameInit
  <2>2. v = init_refresh_or_resend(w, TRUE, FALSE, FALSE, how) 
        /\ FALSE \in BOOLEAN /\ TRUE \in BOOLEAN
    OBVIOUS
  <2> HIDE DEF v
  <2>3. QED BY <1>1, <2>1, <2>2, Refresh, ZenonT(40)
<1> HIDE DEF v
<1>6. Follows(World, v) /\ v.g.state = g.state
  BY <1>1, <1>2, <1>5 DEF Follows, SameInit, handshake_pending
<1>7. QED BY <1>3, <1>4, <1>6, Lands

(* RelayKick: the relay is up, the INIT goes down it.                      *)
LEMMA RelayKickKeeps == ASSUME HsInv, NEW how, RelayKick(how) PROVE HsInv' /\ Installs
<1> DEFINE v == init_refresh_or_resend(World, FALSE, TRUE, TRUE, how)
<1>1. StateOk /\ World.g = g /\ LiveOk(World)
  BY DEF HsInv, StateOk, World
<1>2. env' \in EnvType
  BY ZenonT(40) DEF RelayKick, HsInv, HsTypes, EnvType
<1>3. RxKept /\ g' = v.g /\ wire' = v.wire /\ resps' = resps /\ peer' = peer
  BY DEF RelayKick, Becomes, RxKept
<1>4. Follows(World, v) /\ v.g.state = World.g.state
  <2>1. World.g.session = g.session
    BY <1>1
  <2>2. v = init_refresh_or_resend(World, FALSE, TRUE, TRUE, how)
        /\ FALSE \in BOOLEAN /\ TRUE \in BOOLEAN
    OBVIOUS
  <2> HIDE DEF v
  <2>3. QED BY <1>1, <2>1, <2>2, Refresh, ZenonT(40)
<1> HIDE DEF v
<1>5. QED BY <1>1, <1>2, <1>3, <1>4, Lands

(* CallMeMaybe: a re-send.                                                 *)
LEMMA CallMeMaybeKeeps == ASSUME HsInv, NEW how, CallMeMaybe(how) PROVE HsInv' /\ Installs
<1> DEFINE v == init_resend(World, TRUE, ~env.valid, FALSE, how)
<1>1. StateOk /\ World.g = g /\ LiveOk(World)
  BY DEF HsInv, StateOk, World
<1>2. env' \in EnvType /\ (~env.valid) \in BOOLEAN
  BY DEF CallMeMaybe, HsInv, HsTypes, EnvType
<1>3. RxKept /\ g' = v.g /\ wire' = v.wire /\ resps' = resps /\ peer' = peer
  BY DEF CallMeMaybe, Becomes, RxKept
<1>4. Follows(World, v) /\ v.g.state = World.g.state
  <2>1. SameInit(World, v)
    BY <1>1, <1>2, Resend, ZenonT(40)
  <2>2. QED BY <2>1, SameFollows, ZenonT(40)
<1> HIDE DEF v
<1>5. QED BY <1>1, <1>2, <1>3, <1>4, Lands

(* A fault spent.                                                          *)
LEMMA SpentType == ASSUME HsTypes PROVE Spent \in EnvType /\ env \in EnvType
BY DEF HsTypes, EnvType, Spent

(* RxTimers: the blocks under hs_lock.                                     *)
LEMMA RxTimersKeeps == ASSUME HsInv, NEW how, RxTimers(how) PROVE HsInv' /\ Installs
<1> DEFINE v == timer_blocks(World, how)
<1>1. StateOk /\ HsTypes
  BY DEF HsInv, StateOk
<1>2. /\ rx.pc = "timers" /\ rx' = [rx EXCEPT !.pc = "rest"] /\ resps' = resps /\ peer' = peer
      /\ g' = v.g /\ wire' = v.wire /\ v = timer_blocks(World, how)
      /\ env' \in {env, Spent}
  BY DEF RxTimers, Becomes, Builds
<1> HIDE DEF v
<1>3. /\ LiveOk(v) /\ v.g.session = g.session
      /\ handshake_pending(v.g) => v.g.hs <= RekeyTimeout
  BY <1>1, <1>2, TimerBlocks
<1>4. LiveOk(World)'
  BY <1>1, <1>2, <1>3, LiveNext
<1>5. rx' \in RxType /\ rx'.pc = "rest"
  BY <1>1, <1>2 DEF HsTypes, RxType
<1>6. HsTypes'
  BY <1>1, <1>2, <1>5, SpentType, FewerResponses DEF HsTypes
<1>7. Timely'
  BY <1>2, <1>3, <1>5 DEF Timely, handshake_pending
<1>8. QED BY <1>2, <1>3, <1>4, <1>6, <1>7 DEF HsInv, Installs

(* The clock of the keepalive is set.                                      *)
LEMMA TxStamp ==
  ASSUME NEW v, LiveOk(v), NEW n \in AgeOf(KeepaliveEvery + 1)
  PROVE  \E u : /\ LiveOk(u) /\ u.g = [v.g EXCEPT !.tx = n] /\ u.wire = v.wire
                /\ u.g.state = v.g.state /\ u.g.hs = v.g.hs /\ u.g.session = v.g.session
                /\ u.g.rekey_in_flight = v.g.rekey_in_flight /\ u.g.armed = v.g.armed
<1> DEFINE h == [v.g EXCEPT !.tx = n]
           u == [v EXCEPT !.g = h]
<1>1. v.g \in GFields
  BY DEF LiveOk
<1>2. h \in GFields
  BY <1>1 DEF GFields
<1>3. /\ h.init_valid = v.g.init_valid /\ h.state = v.g.state /\ h.hs = v.g.hs
      /\ h.armed = v.g.armed /\ h.local_index = v.g.local_index /\ h.session = v.g.session
      /\ h.rekey_in_flight = v.g.rekey_in_flight
  BY <1>1, <1>2 DEF GFields
<1> HIDE DEF h
<1>4. LiveOk(u) /\ u.g = h /\ u.wire = v.wire
  BY <1>1, <1>2, <1>3, OtherFields
<1> HIDE DEF u
<1>5. /\ u.g.state = v.g.state /\ u.g.hs = v.g.hs /\ u.g.session = v.g.session
      /\ u.g.rekey_in_flight = v.g.rekey_in_flight /\ u.g.armed = v.g.armed
  BY <1>3, <1>4
<1>6. QED BY <1>4, <1>5, Zenon DEF h

(* The responder hears a frame: its unconfirmed keypair is confirmed.      *)
LEMMA PeerHears ==
  ASSUME HsTypes, NEW s, NEW q, q = heard(peer, s)
  PROVE  /\ q \in PeerType /\ q.consumed = peer.consumed /\ q.epoch = peer.epoch
         /\ q.next = peer.next \/ (s.session = peer.next /\ s.session # NoIndex)
<1>1. peer \in PeerType /\ NoIndex \in Indices
  BY DEF HsTypes, Indices
<1>2. CASE s.session # NoIndex /\ s.session = peer.next /\ s.epoch = peer.epoch
  <2>1. q = [peer EXCEPT !.current = s.session, !.next = NoIndex] /\ s.session \in Indices
    BY <1>1, <1>2 DEF heard, PeerType
  <2>2. q \in PeerType /\ q.consumed = peer.consumed /\ q.epoch = peer.epoch
    BY <1>1, <2>1, ZenonT(40) DEF PeerType
  <2>3. QED BY <1>2, <2>2
<1>3. CASE ~(s.session # NoIndex /\ s.session = peer.next /\ s.epoch = peer.epoch)
  BY <1>1, <1>3 DEF heard
<1>4. QED BY <1>2, <1>3

(* A rekey the path asks for.                                              *)
LEMMA PathRekey ==
  ASSUME StateOk, NEW asked \in BOOLEAN, NEW how, NEW v, v = path_rekey(World, asked, how)
  PROVE  Follows(World, v) /\ v.g.state = g.state
<1>1. LiveOk(World) /\ World.g = g
  BY DEF StateOk, World
<1>2. CASE ~(asked /\ g.state = "up" /\ ~g.rekey_in_flight /\ due(g.hs, RekeyTimeout))
  BY <1>1, <1>2 DEF path_rekey, Follows
<1>3. CASE asked /\ g.state = "up" /\ ~g.rekey_in_flight /\ due(g.hs, RekeyTimeout)
  <2> DEFINE u == [World EXCEPT !.g.rekey_attempt = 0]
             h == [g EXCEPT !.rekey_attempt = 0]
  <2>1. u = [World EXCEPT !.g = h]
    BY DEF World
  <2>2. v = start_rekey(u, how)
    BY <1>1, <1>3 DEF path_rekey
  <2>3. g \in GFields /\ 0 \in 0 .. MaxRetries
    BY <1>1, Caps DEF LiveOk
  <2>4. h \in GFields
    BY <2>3 DEF GFields
  <2>5. /\ h.init_valid = g.init_valid /\ h.state = g.state
        /\ h.armed = g.armed /\ h.local_index = g.local_index /\ h.session = g.session
    BY <2>3, <2>4 DEF GFields
  <2> HIDE DEF u, h, World
  <2>6. LiveOk(u) /\ u.g = h
    BY <1>1, <2>1, <2>4, <2>5, OtherFields, SMTT(30)
  <2>7. LiveOk(v) /\ v.g.hs = 0 /\ v.g.session = g.session /\ v.g.state = g.state
    BY <2>2, <2>5, <2>6, StartRekey
  <2>8. QED BY <1>1, <2>7 DEF Follows
<1>4. QED BY <1>2, <1>3

(* RxRest: the path's rekey, the keepalive, the plan.                      *)
LEMMA RxRestKeeps ==
  ASSUME HsInv, NEW asked \in BOOLEAN, NEW how, RxRest(asked, how) PROVE HsInv' /\ Installs
<1> DEFINE w == path_rekey(World, asked, how)
<1>1. StateOk /\ HsTypes /\ World.g = g /\ w = path_rekey(World, asked, how)
  BY DEF HsInv, StateOk, World
<1>2. /\ rx.pc = "rest" /\ rx' = [pc |-> "wait", wait |-> plan_wait(g')]
      /\ resps' = resps /\ wire' = w.wire
      /\ g' = w.g \/ g' = [w.g EXCEPT !.tx = 0] \/ g' = [w.g EXCEPT !.tx = KeepaliveEvery - 1]
      /\ peer' \in {peer, heard(peer, w.g)}
      /\ env' \in {env, Spent}
  BY DEF RxRest
<1> HIDE DEF w
<1>3. Follows(World, w) /\ LiveOk(w) /\ w.g.session = g.session
  BY <1>1, PathRekey DEF Follows
<1>4. PICK u : /\ LiveOk(u) /\ g' = u.g /\ wire' = u.wire
               /\ u.g.state = w.g.state /\ u.g.hs = w.g.hs /\ u.g.session = w.g.session
               /\ u.g.rekey_in_flight = w.g.rekey_in_flight /\ u.g.armed = w.g.armed
  <2>1. 0 \in AgeOf(KeepaliveEvery + 1) /\ KeepaliveEvery - 1 \in AgeOf(KeepaliveEvery + 1)
    BY Caps DEF AgeOf, UpTo
  <2>2. CASE g' = w.g
    BY <1>2, <1>3, <2>2
  <2>3. CASE g' = [w.g EXCEPT !.tx = 0]
    BY <1>2, <1>3, <2>1, <2>3, TxStamp
  <2>4. CASE g' = [w.g EXCEPT !.tx = KeepaliveEvery - 1]
    BY <1>2, <1>3, <2>1, <2>4, TxStamp
  <2>5. QED BY <1>2, <2>2, <2>3, <2>4
<1>5. /\ peer' \in PeerType /\ peer'.epoch = peer.epoch
      /\ u.g.armed \in Answered => peer'.next = peer.next /\ peer'.consumed = peer.consumed
  <2>1. u.g.armed \in Answered => u.g.armed = peer.next /\ u.g.armed # u.g.session
    BY <1>1, <1>4, NoneAnswered DEF LiveOk
  <2>2. CASE peer' = peer
    BY <1>1, <2>2 DEF HsTypes
  <2>3. CASE peer' = heard(peer, w.g)
    BY <1>1, <1>4, <2>1, <2>3, PeerHears
  <2>4. QED BY <1>2, <2>2, <2>3
<1>6. LiveOk(World)'
  BY <1>1, <1>2, <1>4, <1>5, LiveNext
<1>7. handshake_pending(u.g) => u.g.hs <= RekeyTimeout
  BY <1>1, <1>2, <1>3, <1>4, Caps, SMTT(30) DEF Follows, HsInv, Timely, handshake_pending
<1>8. /\ plan_wait(u.g) \in 0 .. MaxWait
      /\ handshake_pending(u.g) => u.g.hs + plan_wait(u.g) <= RekeyTimeout + 1
  BY <1>4, <1>7, PlanWait, Caps DEF LiveOk, MaxWait
<1>9. rx' \in RxType /\ rx'.pc = "wait" /\ rx'.wait = plan_wait(u.g)
  BY <1>2, <1>4, <1>8 DEF RxType
<1>10. Timely'
  BY <1>4, <1>8, <1>9 DEF Timely, handshake_pending
<1>11. HsTypes'
  BY <1>1, <1>2, <1>5, <1>9, SpentType, FewerResponses DEF HsTypes
<1>12. QED BY <1>3, <1>4, <1>6, <1>10, <1>11 DEF HsInv, Installs

(* What a response does to the fields: nothing, the replaced index         *)
(* forgotten, or the keys of the INIT in flight installed.                 *)
LEMMA ResponseHandled ==
  ASSUME NEW s \in GFields, NEW r \in [init : Index, epoch : Nat], NEW t, t = handle_response(s, r)
  PROVE  \/ t = s
         \/ t = [s EXCEPT !.replaced_index = NoIndex]
         \/ /\ handshake_pending(s) /\ r.init = s.armed /\ t \in GFields
            /\ t.session = r.init /\ t.epoch = r.epoch /\ t.armed = NoIndex /\ ~t.init_valid /\ t.hs = s.hs
            /\ t.local_index = s.local_index /\ t.state # "idle"
<1>1. CASE ~handshake_pending(s) \/ (r.init = s.replaced_index /\ r.init # s.local_index) \/ r.init # s.armed
  BY <1>1 DEF handle_response
<1>2. CASE handshake_pending(s) /\ ~(r.init = s.replaced_index /\ r.init # s.local_index) /\ r.init = s.armed
  <2> DEFINE up == [s EXCEPT !.session = r.init, !.epoch = r.epoch, !.armed = NoIndex,
                             !.completed = 0, !.init_valid = FALSE, !.replaced_index = NoIndex, !.recv = 0]
  <2>1. t = IF s.state = "pending" THEN [up EXCEPT !.state = "up", !.attempt = 0]
            ELSE [up EXCEPT !.rekey_in_flight = FALSE, !.rekey_attempt = 0]
    BY <1>2 DEF handle_response
  <2>2. /\ r.init \in Indices /\ r.epoch \in Nat /\ NoIndex \in Indices /\ 0 \in AgeOf(RekeyAfter + 1)
        /\ 0 \in AgeOf(StaleAfter + 1) /\ 0 \in 0 .. MaxRetries
    BY Caps DEF Indices, AgeOf, UpTo
  <2>3. up \in GFields
    BY <2>2, ZenonT(40) DEF GFields
  <2>4. /\ up.session = r.init /\ up.epoch = r.epoch /\ up.armed = NoIndex /\ ~up.init_valid /\ up.hs = s.hs
        /\ up.local_index = s.local_index /\ up.state = s.state
    BY <2>3 DEF GFields
  <2> HIDE DEF up
  <2>5. CASE s.state = "pending"
    <3>1. t = [up EXCEPT !.state = "up", !.attempt = 0] /\ "up" \in States
      BY <2>1, <2>5 DEF States
    <3>2. t \in GFields
      BY <2>2, <2>3, <3>1, ZenonT(40) DEF GFields
    <3>3. /\ t.session = up.session /\ t.epoch = up.epoch /\ t.armed = up.armed /\ t.init_valid = up.init_valid
          /\ t.hs = up.hs /\ t.local_index = up.local_index /\ t.state = "up"
      BY <2>3, <3>1, <3>2 DEF GFields
    <3>4. QED BY <1>2, <2>4, <3>2, <3>3
  <2>6. CASE s.state # "pending"
    <3>1. t = [up EXCEPT !.rekey_in_flight = FALSE, !.rekey_attempt = 0]
      BY <2>1, <2>6
    <3>2. t \in GFields
      BY <2>2, <2>3, <3>1, ZenonT(40) DEF GFields
    <3>3. /\ t.session = up.session /\ t.epoch = up.epoch /\ t.armed = up.armed /\ t.init_valid = up.init_valid
          /\ t.hs = up.hs /\ t.local_index = up.local_index /\ t.state = up.state
      BY <2>3, <3>1, <3>2 DEF GFields
    <3>4. QED BY <1>2, <2>4, <3>2, <3>3 DEF handshake_pending
  <2>7. QED BY <2>5, <2>6
<1>3. QED BY <1>1, <1>2

(* The replaced index is forgotten.                                        *)
LEMMA ReplacedForgotten ==
  ASSUME NEW w, NEW v, Follows(w, v)
  PROVE  \E u : /\ Follows(w, u) /\ u.g.state = v.g.state
                /\ u.g = [v.g EXCEPT !.replaced_index = NoIndex] /\ u.wire = v.wire
<1> DEFINE h == [v.g EXCEPT !.replaced_index = NoIndex]
           u == [v EXCEPT !.g = h]
<1>1. LiveOk(v) /\ v.g \in GFields /\ NoIndex \in Indices
  BY DEF Follows, LiveOk, Indices
<1>2. h \in GFields
  BY <1>1 DEF GFields
<1>3. /\ h.init_valid = v.g.init_valid /\ h.state = v.g.state /\ h.hs = v.g.hs
      /\ h.armed = v.g.armed /\ h.local_index = v.g.local_index /\ h.session = v.g.session
      /\ h.rekey_in_flight = v.g.rekey_in_flight
  BY <1>1, <1>2 DEF GFields
<1> HIDE DEF h
<1>4. LiveOk(u) /\ u.g = h /\ u.wire = v.wire
  BY <1>1, <1>2, <1>3, OtherFields
<1> HIDE DEF u
<1>5. Follows(w, u) /\ u.g.state = v.g.state
  BY <1>3, <1>4 DEF Follows, handshake_pending
<1>6. QED BY <1>4, <1>5, Zenon DEF h

(* A response, by the socket or by the relay.                              *)
LEMMA RespondedKeeps ==
  ASSUME HsInv, NEW w, SameInit(World, w), NEW r \in resps, Responded(w.g, r),
         wire' = w.wire, resps' = resps \ {r}, RxKept
  PROVE  HsInv' /\ Installs
<1> DEFINE t == handle_response(w.g, r)
<1>1. HsTypes /\ World.g = g /\ LiveOk(w) /\ w.g \in GFields /\ r \in [init : Index, epoch : Nat]
      /\ t = handle_response(w.g, r)
  BY DEF HsInv, HsTypes, RespsOk, World, SameInit, LiveOk
<1>2. /\ Follows(World, w) /\ w.g.state = g.state /\ w.g.hs = g.hs /\ w.g.session = g.session
      /\ (handshake_pending(w.g) <=> handshake_pending(g))
  BY <1>1, SameFollows DEF SameInit, handshake_pending
<1>3. \/ t.session = w.g.session /\ g' = t /\ peer' = peer /\ env' = env
      \/ /\ t.session # w.g.session /\ env' \in {env, Spent}
         /\ g' = [t EXCEPT !.tx = 0] \/ g' = t
         /\ peer' \in {peer, heard(peer, t)}
  BY DEF Responded
<1> HIDE DEF t
<1>4. \/ t = w.g
      \/ t = [w.g EXCEPT !.replaced_index = NoIndex]
      \/ /\ handshake_pending(w.g) /\ r.init = w.g.armed /\ t \in GFields
         /\ t.session = r.init /\ t.epoch = r.epoch /\ t.armed = NoIndex /\ ~t.init_valid /\ t.hs = w.g.hs
         /\ t.local_index = w.g.local_index /\ t.state # "idle"
  BY <1>1, ResponseHandled
<1>5. resps' \subseteq resps /\ env \in EnvType /\ Spent \in EnvType
  BY <1>1, SpentType
<1>6. CASE t = w.g
  BY <1>2, <1>3, <1>5, <1>6, Lands
<1>7. CASE t = [w.g EXCEPT !.replaced_index = NoIndex]
  <2>1. PICK u : /\ Follows(World, u) /\ u.g.state = w.g.state
                 /\ u.g = [w.g EXCEPT !.replaced_index = NoIndex] /\ u.wire = w.wire
    BY <1>2, ReplacedForgotten
  <2>2. t.session = w.g.session
    BY <1>1, <1>7 DEF GFields
  <2>3. g' = u.g /\ wire' = u.wire /\ peer' = peer /\ env' \in EnvType
    BY <1>3, <1>5, <1>7, <2>1, <2>2
  <2>4. QED BY <1>2, <1>5, <2>1, <2>3, Lands, ZenonT(40)
<1>8. CASE /\ handshake_pending(w.g) /\ r.init = w.g.armed /\ t \in GFields
           /\ t.session = r.init /\ t.epoch = r.epoch /\ t.armed = NoIndex /\ ~t.init_valid /\ t.hs = w.g.hs
           /\ t.local_index = w.g.local_index /\ t.state # "idle"
  <2>1. r.init # NoIndex /\ r.init # w.g.session
    BY <1>1, <1>8 DEF LiveOk, Index, NoIndex
  <2>11. r.init = peer.next \/ r.epoch < peer.epoch
    <3>1. r.epoch <= peer.epoch /\ r.epoch \in Nat /\ peer.epoch \in Nat
      BY <1>1 DEF HsTypes, RespsOk, PeerType
    <3>2. CASE r.epoch = peer.epoch
      <4>1. r = [init |-> r.init, epoch |-> peer.epoch] /\ r.init \in Index
        BY <1>1, <3>2
      <4>2. r.init \in Answered
        BY <4>1 DEF Answered
      <4>3. QED BY <1>1, <1>8, <4>2 DEF LiveOk
    <3>3. QED BY <3>1, <3>2
  <2>2. /\ env' \in EnvType
        /\ g' = [t EXCEPT !.tx = 0] \/ g' = t
        /\ peer' \in {peer, heard(peer, t)}
    BY <1>3, <1>5, <1>8, <2>1
  <2>3. 0 \in AgeOf(KeepaliveEvery + 1)
    BY Caps DEF AgeOf, UpTo
  <2>4. g' \in GFields
    BY <1>8, <2>2, <2>3 DEF GFields
  <2>5. /\ g'.session = r.init /\ g'.epoch = r.epoch /\ g'.armed = NoIndex /\ ~g'.init_valid /\ g'.hs = g.hs
        /\ g'.local_index = w.g.local_index
    BY <1>2, <1>8, <2>2, <2>4 DEF GFields
  <2>6. peer' \in PeerType /\ peer'.epoch = peer.epoch
    BY <1>1, <2>2, PeerHears, SMTT(30) DEF HsTypes
  <2>7. LiveOk(World)'
    <3>1. World' = [g |-> g', wire |-> w.wire]
      BY SMTT(30) DEF World
    <3>4. w.wire \in Wires
      BY <1>1 DEF LiveOk
    <3>2. World' \in [g : GFields, wire : Wires] /\ World'.g = g' /\ World'.wire = w.wire
      BY <2>4, <3>1, <3>4
    <3>5. NoIndex \notin Answered'
      BY <1>1, <1>5, <2>6, FewerResponses, NoneAnswered
    <3>3. QED BY <1>1, <2>1, <2>5, <3>2, <3>5 DEF LiveOk
  <2>8. rx' \in RxType /\ Timely'
    <3>1. g'.hs \in Int
      BY <2>4 DEF GFields, UpTo
    <3>2. g.state # "idle"
      BY <1>2, <1>8 DEF handshake_pending
    <3>3. QED BY <1>2, <1>8, <2>5, <3>1, <3>2, TimelyNext
  <2>9. HsTypes'
    BY <1>1, <1>5, <2>2, <2>6, <2>8, FewerResponses DEF HsTypes
  <2>10. QED BY <2>11, <2>5, <2>7, <2>8, <2>9, SMTT(30) DEF HsInv, Installs
<1>9. QED BY <1>4, <1>6, <1>7, <1>8, SMTT(30)

(* RxResponse.                                                             *)
LEMMA RxResponseKeeps ==
  ASSUME HsInv, NEW how, NEW r \in resps, RxResponse(r, how) PROVE HsInv' /\ Installs
<1> DEFINE w == woken(how)
<1>1. StateOk
  BY DEF HsInv, StateOk
<1>2. SameInit(World, w)
  BY <1>1, Woken
<1>3. Responded(w.g, r) /\ wire' = w.wire /\ resps' = resps \ {r} /\ RxKept
  BY DEF RxResponse, GoesOn, RxKept
<1> HIDE DEF w
<1>4. QED BY <1>2, <1>3, RespondedKeeps

(* InjectResponse.                                                         *)
LEMMA InjectResponseKeeps ==
  ASSUME HsInv, NEW r \in resps, InjectResponse(r) PROVE HsInv' /\ Installs
<1>1. SameInit(World, World) /\ World.g = g /\ World.wire = wire
  BY DEF HsInv, SameInit, World
<1>2. Responded(World.g, r) /\ wire' = World.wire /\ resps' = resps \ {r} /\ RxKept
  BY <1>1 DEF InjectResponse, RxKept
<1>3. QED BY <1>1, <1>2, RespondedKeeps

-----------------------------------------------------------------------------
(* The long-poll task.                                                     *)

(* A burst forgotten, its peer key set.                                    *)
LEMMA UnstartedFields ==
  ASSUME NEW s \in GFields, NEW t, t = Unstarted(s)
  PROVE  /\ t \in GFields /\ t.state = s.state /\ t.init_valid = s.init_valid
         /\ t.armed = s.armed /\ t.local_index = s.local_index
         /\ t.session = s.session /\ t.hs = s.hs
<1>1. t = [s EXCEPT !.attempt = 0, !.rekey_attempt = 0, !.rekey_in_flight = FALSE]
      /\ 0 \in 0 .. MaxRetries
  BY Caps DEF Unstarted
<1>2. t \in GFields
  BY <1>1, ZenonT(40) DEF GFields
<1>3. QED BY <1>1, <1>2 DEF GFields

(* A build that failed has sent nothing.                                   *)
LEMMA FailedBuild ==
  ASSUME NEW w, LiveOk(w), NEW b, b = build_and_send_init(w, "fail")
  PROVE  /\ b.wire = w.wire /\ b.g.armed = NoIndex /\ ~b.g.init_valid
         /\ DOMAIN b = {"g", "wire"} /\ {"armed", "init_valid"} \subseteq DOMAIN b.g
<1> DEFINE st == [w EXCEPT !.g.hs = 0,
                           !.g.replaced_index = IF w.g.init_valid THEN w.g.local_index ELSE @,
                           !.g.init_valid = FALSE]
           i == fresh_local_index(st)
<1>1. b = create_initiation(st, "fail")
  BY DEF build_and_send_init
<1>2. b = [st EXCEPT !.g.local_index = i, !.g.armed = NoIndex, !.g.init_valid = FALSE]
  BY <1>1, ZenonT(40) DEF create_initiation
<1>3. /\ DOMAIN w = {"g", "wire"}
      /\ {"armed", "init_valid", "local_index", "hs", "replaced_index"} \subseteq DOMAIN w.g
  BY DEF LiveOk, GFields
<1>4. /\ DOMAIN st = {"g", "wire"} /\ st.wire = w.wire
      /\ {"armed", "init_valid", "local_index"} \subseteq DOMAIN st.g
  BY <1>3
<1> HIDE DEF st, i
<1>5. QED BY <1>2, <1>4, ZenonT(40)

(* An attempt that could not be built.                                     *)
LEMMA FailedKick ==
  ASSUME NEW w, LiveOk(w), NEW v, v = kick_off_handshake(w, "fail")
  PROVE  v.wire = w.wire /\ v.g.armed = NoIndex /\ ~v.g.init_valid
<1> DEFINE p == [w EXCEPT !.g.state = "pending"]
           h == [w.g EXCEPT !.state = "pending"]
           b == build_and_send_init(p, "fail")
<1>1. p = [w EXCEPT !.g = h]
  BY DEF LiveOk
<1>2. /\ h \in GFields /\ h.init_valid = w.g.init_valid
      /\ h.armed = w.g.armed /\ h.local_index = w.g.local_index /\ h.session = w.g.session
  BY DEF LiveOk, GFields, States
<1> HIDE DEF h, p
<1>3. LiveOk(p) /\ p.wire = w.wire
  BY <1>1, <1>2, OtherFields
<1>4. /\ b.wire = w.wire /\ b.g.armed = NoIndex /\ ~b.g.init_valid
      /\ DOMAIN b = {"g", "wire"} /\ {"armed", "init_valid"} \subseteq DOMAIN b.g
  BY <1>3, FailedBuild
<1>5. v = [b EXCEPT !.g.attempt = one_more(@)]
  BY DEF kick_off_handshake, p
<1>6. b = build_and_send_init(p, "fail")
  OBVIOUS
<1> HIDE DEF b
<1>7. QED BY <1>4, <1>5

(* No INIT is in flight any more and wg_rx stays where it is.              *)
LEMMA Stopped ==
  ASSUME HsInv, g' \in GFields, g'.state = "idle", ~g'.init_valid, g'.armed = NoIndex,
         g'.session \in {g.session, NoIndex}, wire' = wire, rx' = rx, resps' = resps,
         peer' = peer, env' \in EnvType,
         \A k \in DOMAIN wire : wire[k] = g'.local_index => k = Len(wire)
  PROVE  HsInv' /\ Installs
<1>1. HsTypes'
  BY FewerResponses DEF HsInv, HsTypes
<1>2. NoIndex \notin Answered' /\ wire \in Wires
  BY FewerResponses, NoneAnswered DEF HsInv, LiveOk, World
<1>3. LiveOk(World)'
  <2>1. World' = [g |-> g', wire |-> wire]
    BY DEF World
  <2>2. World' \in [g : GFields, wire : Wires] /\ World'.g = g' /\ World'.wire = wire
    BY <1>2, <2>1
  <2>3. QED BY <1>2, <2>2 DEF LiveOk
<1>4. Timely'
  BY DEF Timely, handshake_pending
<1>5. QED BY <1>1, <1>3, <1>4 DEF HsInv, Installs

(* Start: the first INIT, and wg_rx unless it runs already.                *)
LEMMA StartKeeps == ASSUME HsInv, NEW how, Start(how) PROVE HsInv' /\ Installs
<1> DEFINE a == Unstarted(g)
           s == [a EXCEPT !.completed = Never, !.recv = Never, !.peer_key = peer.key]
           z == [World EXCEPT !.g = s]
           w == kick_off_handshake(z, how)
<1>1. StateOk /\ HsTypes /\ LiveOk(World) /\ World.g = g /\ g \in GFields
      /\ peer.key \in {0, 1} /\ World.wire = wire
  BY DEF HsInv, StateOk, LiveOk, World, HsTypes, PeerType
<1>2. /\ a \in GFields /\ a.init_valid = g.init_valid
      /\ a.armed = g.armed /\ a.local_index = g.local_index /\ a.session = g.session
  BY <1>1, UnstartedFields
<1>3. /\ g.state = "idle" /\ env' \in {env, Spent} /\ resps' = resps /\ peer' = peer
      /\ IF how = "fail"
         THEN g' = [Unstarted(w.g) EXCEPT !.state = "idle"] /\ wire' = wire /\ rx' = rx
         ELSE /\ g' = w.g /\ wire' = w.wire
              /\ rx' = IF rx.pc = "none" THEN [pc |-> "wait", wait |-> MaxWait] ELSE rx
  BY DEF Start, Builds, Becomes
<1> HIDE DEF a
<1>4. s \in GFields
  BY <1>1, <1>2, ZenonT(40) DEF GFields, AgeOf
<1>5. /\ s.init_valid = g.init_valid /\ s.armed = g.armed
      /\ s.local_index = g.local_index /\ s.session = g.session
  BY <1>2, <1>4 DEF GFields
<1> HIDE DEF s
<1>6. LiveOk(z) /\ z.g = s /\ z.wire = wire
  BY <1>1, <1>4, <1>5, OtherFields
<1> HIDE DEF z
<1>7. LiveOk(w) /\ w.g.hs = 0 /\ w.g.session = g.session /\ w.g.state = "pending"
  BY <1>1, <1>5, <1>6, KickOff
<1>8. how = "fail" => w.wire = wire /\ w.g.armed = NoIndex /\ ~w.g.init_valid
  BY <1>6, FailedKick
<1> HIDE DEF w
<1>9. env' \in EnvType
  BY <1>1, <1>3, SpentType
<1>10. CASE how = "fail"
  <2> DEFINE u == Unstarted(w.g)
  <2>1. w.g \in GFields /\ w.wire = wire
    BY <1>7, <1>8, <1>10 DEF LiveOk
  <2>2. /\ u \in GFields /\ u.init_valid = w.g.init_valid
        /\ u.armed = w.g.armed /\ u.local_index = w.g.local_index /\ u.session = w.g.session
    BY <2>1, UnstartedFields
  <2>3. g' = [u EXCEPT !.state = "idle"] /\ "idle" \in States
    BY <1>3, <1>10 DEF States
  <2> HIDE DEF u
  <2>4. g' \in GFields
    BY <2>2, <2>3 DEF GFields
  <2>5. /\ g'.state = "idle" /\ g'.init_valid = u.init_valid /\ g'.armed = u.armed
        /\ g'.local_index = u.local_index /\ g'.session = u.session
    BY <2>2, <2>3, <2>4 DEF GFields
  <2>6. \A k \in DOMAIN wire : wire[k] = g'.local_index => k = Len(wire)
    BY <1>7, <2>1, <2>2, <2>5, SMTT(30) DEF LiveOk
  <2>7. QED BY <1>3, <1>7, <1>8, <1>9, <1>10, <2>2, <2>4, <2>5, <2>6, Stopped, SMTT(30)
<1>11. CASE how # "fail"
  <2>1. /\ g' = w.g /\ wire' = w.wire
        /\ rx' = IF rx.pc = "none" THEN [pc |-> "wait", wait |-> MaxWait] ELSE rx
    BY <1>3, <1>11
  <2>2. LiveOk(World)'
    BY <1>1, <1>3, <1>7, <2>1, LiveNext
  <2>3. rx \in RxType /\ MaxWait \in Nat /\ MaxWait = RekeyTimeout
    BY <1>1, Caps DEF HsTypes, MaxWait
  <2>4. /\ rx' \in RxType /\ rx'.wait <= RekeyTimeout /\ rx'.wait \in Nat /\ rx'.pc # "none"
    BY <2>1, <2>3 DEF RxType
  <2>5. HsTypes'
    BY <1>1, <1>3, <1>9, <2>4, FewerResponses DEF HsTypes
  <2>6. Timely'
    BY <1>7, <2>1, <2>3, <2>4 DEF Timely
  <2>7. QED BY <1>7, <2>1, <2>2, <2>5, <2>6 DEF HsInv, Installs
<1>12. QED BY <1>10, <1>11, SMTT(30)

(* AbortStart.                                                             *)
LEMMA AbortStartKeeps == ASSUME HsInv, AbortStart PROVE HsInv' /\ Installs
<1> DEFINE u == Unstarted(g)
<1>1. HsTypes /\ LiveOk(World) /\ World.g = g /\ g \in GFields /\ World.wire = wire
  BY DEF HsInv, LiveOk, World
<1>2. u \in GFields /\ u.local_index = g.local_index
  BY <1>1, UnstartedFields
<1>3. /\ g' = [u EXCEPT !.state = "idle", !.init_valid = FALSE,
                        !.armed = NoIndex, !.session = NoIndex]
      /\ env' = [Spent EXCEPT !.valid = FALSE]
      /\ wire' = wire /\ rx' = rx /\ resps' = resps /\ peer' = peer
      /\ "idle" \in States /\ NoIndex \in Indices
  BY DEF AbortStart, States, Indices
<1> HIDE DEF u
<1>4. g' \in GFields
  BY <1>2, <1>3, ZenonT(40) DEF GFields
<1>5. /\ g'.state = "idle" /\ ~g'.init_valid /\ g'.armed = NoIndex
      /\ g'.local_index = g.local_index /\ g'.session = NoIndex
  BY <1>2, <1>3, <1>4 DEF GFields
<1>6. env' \in EnvType
  BY <1>1, <1>3, SpentType, ZenonT(40) DEF EnvType
<1>7. \A k \in DOMAIN wire : wire[k] = g'.local_index => k = Len(wire)
  BY <1>1, <1>5 DEF LiveOk
<1>8. QED BY <1>3, <1>4, <1>5, <1>6, <1>7, Stopped, SMTT(30)

(* UpdatePeerKeys: a cold handshake with the new key.                      *)
LEMMA UpdatePeerKeysKeeps == ASSUME HsInv, NEW how, UpdatePeerKeys(how) PROVE HsInv' /\ Installs
<1> DEFINE a == Unstarted(g)
           s == [a EXCEPT !.peer_key = peer.key]
           z == [World EXCEPT !.g = s]
           w == kick_off_handshake(z, how)
<1>1. StateOk /\ HsTypes /\ LiveOk(World) /\ World.g = g /\ g \in GFields
      /\ peer.key \in {0, 1} /\ World.wire = wire /\ DOMAIN World = {"g", "wire"}
  BY DEF HsInv, StateOk, LiveOk, World, HsTypes, PeerType
<1>2. /\ a \in GFields /\ a.init_valid = g.init_valid
      /\ a.armed = g.armed /\ a.local_index = g.local_index /\ a.session = g.session
  BY <1>1, UnstartedFields
<1>3. z = [World EXCEPT !.g = [Unstarted(@) EXCEPT !.peer_key = peer.key]]
  BY <1>1
<1>4. /\ g.state # "idle" /\ env' \in {env, Spent} /\ resps' = resps /\ peer' = peer
      /\ rx' = rx /\ g' = w.g /\ wire' = w.wire
  BY <1>3 DEF UpdatePeerKeys, update_peer_keys, Builds, Becomes
<1> HIDE DEF a
<1>5. s \in GFields
  BY <1>1, <1>2 DEF GFields
<1>6. /\ s.init_valid = g.init_valid /\ s.armed = g.armed
      /\ s.local_index = g.local_index /\ s.session = g.session
  BY <1>2, <1>5 DEF GFields
<1> HIDE DEF s
<1>7. LiveOk(z) /\ z.g = s
  BY <1>1, <1>5, <1>6, OtherFields
<1> HIDE DEF z
<1>8. LiveOk(w) /\ w.g.hs = 0 /\ w.g.session = g.session
  BY <1>1, <1>6, <1>7, KickOff
<1> HIDE DEF w
<1>9. env' \in EnvType /\ Follows(World, w)
  BY <1>1, <1>4, <1>8, SpentType DEF Follows
<1>10. QED BY <1>4, <1>9, Lands, SMTT(30) DEF RxKept

(* UpdateEndpoint, RelayUp and PathLapses leave the handshake alone.       *)
LEMMA PathsMove ==
  ASSUME HsInv, UpdateEndpoint \/ RelayUp \/ PathLapses PROVE HsInv' /\ Installs
<1>1. HsTypes /\ env \in EnvType /\ Spent \in EnvType
  BY SpentType DEF HsInv
<1>2. env' \in EnvType /\ UNCHANGED <<g, rx, wire, resps, peer>>
  BY <1>1, ZenonT(40) DEF UpdateEndpoint, RelayUp, PathLapses, EnvType
<1>3. QED BY <1>2, OthersMove

(* AppSends: a frame of the application.                                   *)
LEMMA AppSendsKeeps == ASSUME HsInv, AppSends PROVE HsInv' /\ Installs
<1>1. HsTypes /\ LiveOk(World) /\ World.g = g /\ World.wire = wire
  BY DEF HsInv, World
<1>2. 0 \in AgeOf(KeepaliveEvery + 1)
  BY Caps DEF AgeOf, UpTo
<1>3. PICK u : /\ LiveOk(u) /\ u.g = [g EXCEPT !.tx = 0] /\ u.wire = wire
               /\ u.g.state = g.state /\ u.g.hs = g.hs /\ u.g.session = g.session
               /\ u.g.rekey_in_flight = g.rekey_in_flight /\ u.g.armed = g.armed
  BY <1>1, <1>2, TxStamp
<1>4. /\ g' = u.g /\ wire' = u.wire /\ resps' = resps /\ rx' = rx /\ env' = env
      /\ peer' \in {peer, heard(peer, g)}
  BY <1>3 DEF AppSends
<1>5. /\ peer' \in PeerType /\ peer'.consumed = peer.consumed /\ peer'.epoch = peer.epoch
      /\ peer'.next = peer.next \/ (g.session = peer.next /\ g.session # NoIndex)
  BY <1>1, <1>4, PeerHears DEF HsTypes
<1>6. u.g.armed \in Answered => peer'.next = peer.next /\ peer'.consumed = peer.consumed
  BY <1>1, <1>3, <1>5, NoneAnswered DEF LiveOk
<1>7. LiveOk(World)'
  BY <1>1, <1>3, <1>4, <1>5, <1>6, LiveNext, ZenonT(40)
<1>8. HsTypes'
  BY <1>1, <1>4, <1>5, FewerResponses DEF HsTypes
<1>9. Timely'
  BY <1>3, <1>4 DEF HsInv, Timely, handshake_pending
<1>10. QED BY <1>3, <1>4, <1>7, <1>8, <1>9 DEF HsInv, Installs

-----------------------------------------------------------------------------
(* The peer and the network.                                               *)

\* x can only be the newest of the queue.
Newest(q, x) == \A j \in DOMAIN q : q[j] = x => j = Len(q)

(* What is left of the queue once its first k are gone.                    *)
LEMMA WireLeft ==
  ASSUME NEW q \in Wires, NEW x, Newest(q, x),
         NEW k \in DOMAIN q, NEW t, t = SubSeq(q, k + 1, Len(q))
  PROVE  t \in Wires /\ (k = Len(q) => t = <<>>) /\ Newest(t, x)
<1>1. q \in Seq(Index) /\ Len(q) \in Nat /\ Len(q) <= 2 /\ k \in 1 .. Len(q)
      /\ DOMAIN q = 1 .. Len(q)
  BY DEF Wires
<1>2. PICK m \in Int : m = k + 1
  BY <1>1
<1>3. t \in Seq(Index) /\ Len(t) = Len(q) - k
      /\ \A j \in 1 .. Len(q) - k : t[j] = q[k + j]
  <2>1. \A i \in m .. Len(q) : q[i] \in Index
    BY <1>1, <1>2
  <2>2. Len(q) \in Int /\ t = SubSeq(q, m, Len(q))
    BY <1>1, <1>2
  <2>7. /\ SubSeq(q, m, Len(q)) \in Seq(Index)
        /\ Len(SubSeq(q, m, Len(q))) = IF m <= Len(q) THEN Len(q) - m + 1 ELSE 0
        /\ \A i \in 1 .. Len(q) - m + 1 : SubSeq(q, m, Len(q))[i] = q[m + i - 1]
    BY <2>1, <2>2
  <2>3. /\ t \in Seq(Index)
        /\ Len(t) = IF m <= Len(q) THEN Len(q) - m + 1 ELSE 0
        /\ \A i \in 1 .. Len(q) - m + 1 : t[i] = q[m + i - 1]
    BY <2>2, <2>7, Zenon
  <2>4. Len(q) - m + 1 = Len(q) - k
    BY <1>1, <1>2
  <2>5. ASSUME NEW j \in 1 .. Len(q) - k PROVE t[j] = q[k + j]
    <3>1. t[j] = q[m + j - 1] /\ m + j - 1 = k + j
      BY <1>1, <1>2, <2>3, <2>4
    <3>2. QED BY <3>1
  <2>6. QED BY <1>1, <1>2, <2>3, <2>4, <2>5
<1>4. DOMAIN t = 1 .. Len(t)
  BY <1>3
<1>5. t \in Wires
  BY <1>1, <1>3 DEF Wires
<1>6. k = Len(q) => t = <<>>
  BY <1>1, <1>3
<1>7. ASSUME NEW j \in DOMAIN t, t[j] = x PROVE j = Len(t)
  <2>1. j \in 1 .. Len(q) - k /\ k + j \in 1 .. Len(q) /\ j \in Int
    BY <1>1, <1>3, <1>4, <1>7, SMTT(30)
  <2>3. k + j \in DOMAIN q /\ q[k + j] = x
    BY <1>1, <1>3, <1>7, <2>1, ZenonT(40)
  <2>2. QED BY <1>1, <1>3, <2>1, <2>3 DEF Newest
<1>8. QED BY <1>5, <1>6, <1>7, ZenonT(40) DEF Newest

(* PeerTakes: the responder takes an INIT and answers it.                  *)
LEMMA PeerTakesKeeps == ASSUME HsInv, NEW k, PeerTakes(k) PROVE HsInv' /\ Installs
<1>1. HsTypes /\ LiveOk(World) /\ World.g = g /\ World.wire = wire /\ g \in GFields
      /\ wire \in Wires /\ peer \in PeerType
  BY DEF HsInv, World, LiveOk, HsTypes
<1>2. /\ k \in DOMAIN wire /\ g' = g /\ rx' = rx /\ env' = env
      /\ peer' = [peer EXCEPT !.consumed = wire[k], !.next = wire[k]]
      /\ resps' = {[init |-> wire[k], epoch |-> peer.epoch]}
                    \cup {r \in resps : r.init = g.local_index \/ r.init = g.replaced_index}
      /\ wire' = SubSeq(wire, k + 1, Len(wire))
  BY DEF PeerTakes
<1>3. wire[k] \in Index /\ wire[k] \in Indices /\ wire # <<>>
      /\ g.local_index \in Indices /\ g.replaced_index \in Indices
  BY <1>1, <1>2 DEF Wires, Indices, GFields
<1>4. /\ peer' \in PeerType /\ peer'.consumed = wire[k] /\ peer'.next = wire[k]
      /\ peer'.epoch = peer.epoch /\ peer.epoch \in Nat
  BY <1>1, <1>2, <1>3, ZenonT(40) DEF PeerType
<1>5. /\ resps' \subseteq [init : Index, epoch : Nat]
      /\ \A r \in resps' : r.epoch <= peer'.epoch
      /\ \A r \in resps' : r.init \in {wire[k], g.local_index, g.replaced_index}
  BY <1>1, <1>2, <1>3, <1>4 DEF HsTypes, RespsOk
<1>6. RespsOk'
  BY <1>3, <1>5, Zenon DEF RespsOk
<1>7. HsTypes'
  BY <1>1, <1>2, <1>4, <1>6, ZenonT(40) DEF HsTypes
<1>8. Newest(wire, g.local_index)
  BY <1>1 DEF LiveOk, Newest
<1>9. wire' \in Wires /\ (k = Len(wire) => wire' = <<>>) /\ Newest(wire', g.local_index)
  BY <1>1, <1>2, <1>8, WireLeft, ZenonT(40)
<1>10. g.armed \in Answered' => wire' = <<>> /\ peer'.next = g.armed /\ peer'.consumed = g.armed
  <2> SUFFICES ASSUME g.armed \in Answered'
               PROVE  wire' = <<>> /\ peer'.next = g.armed /\ peer'.consumed = g.armed
    OBVIOUS
  <2>1. g.armed \notin Answered
    BY <1>1, <1>3 DEF LiveOk
  <2>2. g.armed = wire[k]
    <3>1. g.armed \in Index /\ [init |-> g.armed, epoch |-> peer.epoch] \in resps'
      BY <1>4 DEF Answered
    <3>2. [init |-> g.armed, epoch |-> peer.epoch] \notin resps
      BY <2>1, <3>1 DEF Answered
    <3>3. [init |-> g.armed, epoch |-> peer.epoch] = [init |-> wire[k], epoch |-> peer.epoch]
      BY <1>2, <3>1, <3>2, Zenon
    <3>4. QED BY <3>3
  <2>5. g.armed # NoIndex
    BY <1>3, <2>2 DEF Index, NoIndex
  <2>3. g.armed = g.local_index
    BY <1>1, <2>5, SMTT(30) DEF LiveOk
  <2>4. QED BY <1>2, <1>4, <1>8, <1>9, <2>2, <2>3, ZenonT(40) DEF Newest
<1>11. LiveOk(World)'
  <2>1. World' = [g |-> g, wire |-> wire']
    BY <1>2 DEF World
  <2>2. World' \in [g : GFields, wire : Wires] /\ World'.g = g /\ World'.wire = wire'
    BY <1>1, <1>9, <2>1
  <2>3. QED BY <1>1, <1>9, <1>10, <2>2 DEF LiveOk, Newest
<1>12. Timely'
  BY <1>2 DEF HsInv, Timely, handshake_pending
<1>13. QED BY <1>2, <1>7, <1>11, <1>12, SMTT(30) DEF HsInv, Installs

(* The responder answers nothing yet: either it has just started anew or   *)
(* what it sent is lost.                                                   *)
LEMMA Unheard ==
  ASSUME HsInv, UNCHANGED <<g, rx>>, wire' \in Wires, Newest(wire', g.local_index), RespsOk',
         Answered' = {}, peer' \in PeerType, env' \in EnvType
  PROVE  HsInv' /\ Installs
<1>1. HsTypes /\ LiveOk(World) /\ World.g = g /\ g \in GFields
  BY DEF HsInv, World, LiveOk
<1>2. HsTypes'
  BY <1>1 DEF HsTypes
<1>3. LiveOk(World)'
  <2>1. World' = [g |-> g, wire |-> wire']
    BY DEF World
  <2>2. World' \in [g : GFields, wire : Wires] /\ World'.g = g /\ World'.wire = wire'
    BY <1>1, <2>1
  <2>3. QED BY <1>1, <2>2 DEF LiveOk, Newest
<1>4. Timely'
  BY DEF HsInv, Timely, handshake_pending
<1>5. QED BY <1>2, <1>3, <1>4, SMTT(30) DEF HsInv, Installs

(* PathDown loses what was on its way.                                     *)
LEMMA PathDownKeeps == ASSUME HsInv, PathDown PROVE HsInv' /\ Installs
<1>1. HsTypes /\ Spent \in EnvType /\ peer \in PeerType
  BY SpentType DEF HsInv, HsTypes
<1>2. UNCHANGED <<g, rx>> /\ wire' = <<>> /\ resps' = {} /\ peer' = peer
  BY DEF PathDown
<1>3. env' \in EnvType
  BY <1>1, ZenonT(40) DEF PathDown, EnvType
<1>4. RespsOk' /\ Answered' = {}
  BY <1>1, <1>2, FewerResponses DEF Answered
<1>5. wire' \in Wires /\ Newest(wire', g.local_index)
  BY <1>2 DEF Wires, Newest
<1>6. QED BY <1>1, <1>2, <1>3, <1>4, <1>5, Unheard

(* In its new life the responder has answered nothing, and what it sent    *)
(* before is of an earlier one.                                            *)
LEMMA NewLife ==
  ASSUME HsTypes, resps' = resps, peer'.epoch = peer.epoch + 1
  PROVE  RespsOk' /\ Answered' = {}
<1>1. peer.epoch \in Nat
  BY DEF HsTypes, PeerType
<1>2. PICK a, b, c \in Indices : \A r \in resps : r.init \in {a, b, c}
  BY DEF HsTypes, RespsOk
<1>3. \A r \in resps' : r.init \in {a, b, c}
  BY <1>2
<1>4. /\ resps' \subseteq [init : Index, epoch : Nat]
      /\ \A r \in resps' : r.epoch <= peer'.epoch
  BY <1>1 DEF HsTypes, RespsOk
<1>5. ASSUME NEW i \in Answered' PROVE FALSE
  <2>1. [init |-> i, epoch |-> peer.epoch + 1] \in resps
    BY <1>5 DEF Answered
  <2>2. peer.epoch + 1 <= peer.epoch
    BY <2>1 DEF HsTypes, RespsOk
  <2>3. QED BY <1>1, <2>2
<1>6. QED BY <1>3, <1>4, <1>5, Zenon DEF RespsOk

(* PeerRestarts and PeerRelogin: what the responder sent is still on its   *)
(* way, and after a restart a copy of the last INIT may be too.            *)
LEMMA NewLivesKeep == ASSUME HsInv, PeerRestarts \/ PeerRelogin PROVE HsInv' /\ Installs
<1>1. /\ HsTypes /\ Spent \in EnvType /\ peer \in PeerType /\ peer.consumed \in Indices
      /\ wire \in Wires /\ LiveOk(World) /\ World.g = g /\ World.wire = wire
  BY SpentType DEF HsInv, HsTypes, PeerType, LiveOk, World
<1>2. /\ UNCHANGED <<g, rx>> /\ resps' = resps /\ env' = Spent
      /\ wire' = wire \/ wire' = <<>> \/ (peer.consumed # NoIndex /\ wire' = <<peer.consumed>>)
  BY DEF PeerRestarts, PeerRelogin
<1>3. forgetful \in PeerType /\ forgetful.epoch = peer.epoch + 1
  <2>1. peer.epoch + 1 \in Nat /\ NoIndex \in Indices
    BY <1>1 DEF PeerType, Indices
  <2>2. forgetful \in PeerType
    BY <1>1, <2>1, ZenonT(40) DEF PeerType, forgetful
  <2>3. QED BY <1>1, <2>2 DEF PeerType, forgetful
<1>4. peer' \in PeerType /\ peer'.epoch = peer.epoch + 1
  <2>1. CASE PeerRestarts BY <1>3, <2>1 DEF PeerRestarts
  <2>2. CASE PeerRelogin
    <3>1. peer' = [forgetful EXCEPT !.key = 1 - forgetful.key]
      BY <1>3, <2>2 DEF PeerRelogin, PeerType
    <3>2. QED BY <1>3, <3>1 DEF PeerType
  <2>3. QED BY <2>1, <2>2
<1>5. RespsOk' /\ Answered' = {}
  BY <1>1, <1>2, <1>4, NewLife
<1>6. wire' \in Wires /\ Newest(wire', g.local_index)
  <2>1. CASE wire' = wire
    BY <1>1, <2>1 DEF LiveOk, Newest
  <2>2. CASE wire' = <<>>
    BY <2>2 DEF Wires, Newest
  <2>3. CASE peer.consumed # NoIndex /\ wire' = <<peer.consumed>>
    BY <1>1, <2>3 DEF Wires, Newest, Indices
  <2>4. QED BY <1>2, <2>1, <2>2, <2>3
<1>7. QED BY <1>1, <1>2, <1>4, <1>5, <1>6, Unheard, SMTT(30)

(* Lost: an INIT or a response does not arrive.                            *)
LEMMA LostKeeps == ASSUME HsInv, Lost PROVE HsInv' /\ Installs
<1>1. HsTypes /\ LiveOk(World) /\ World.g = g /\ World.wire = wire /\ g \in GFields
      /\ wire \in Wires /\ Spent \in EnvType
  BY SpentType DEF HsInv, World, LiveOk
<1>2. /\ g' = g /\ rx' = rx /\ peer' = peer /\ env' = Spent
      /\ \/ wire # <<>> /\ wire' = Tail(wire) /\ resps' = resps
         \/ resps' \subseteq resps /\ wire' = wire
  BY DEF Lost
<1>3. CASE resps' \subseteq resps /\ wire' = wire
  BY <1>1, <1>2, <1>3, OthersMove
<1>4. CASE wire # <<>> /\ wire' = Tail(wire) /\ resps' = resps
  <2>1. wire \in Seq(Index) /\ Len(wire) >= 1 /\ Len(wire) \in Nat
    BY <1>1, <1>4 DEF Wires
  <2>2. wire' = SubSeq(wire, 1 + 1, Len(wire)) /\ 1 \in DOMAIN wire
    BY <1>4, <2>1, SMTT(30)
  <2>3. Newest(wire, g.local_index)
    BY <1>1 DEF LiveOk, Newest
  <2>4. wire' \in Wires /\ Newest(wire', g.local_index)
    BY <1>1, <2>2, <2>3, WireLeft, ZenonT(40)
  <2>5. LiveOk(World)'
    <3>1. World' = [g |-> g, wire |-> wire']
      BY <1>2 DEF World
    <3>2. World' \in [g : GFields, wire : Wires] /\ World'.g = g /\ World'.wire = wire'
      BY <1>1, <2>4, <3>1, SMTT(30)
    <3>4. Answered' \subseteq Answered
      BY <1>1, <1>2, <1>4, FewerResponses
    <3>3. QED BY <1>1, <1>2, <1>4, <2>4, <3>2, <3>4 DEF LiveOk, Newest
  <2>6. HsTypes'
    BY <1>1, <1>2, <1>4, FewerResponses, SMTT(30) DEF HsTypes
  <2>7. Timely'
    BY <1>2 DEF HsInv, Timely, handshake_pending
  <2>8. QED BY <1>2, <2>5, <2>6, <2>7, SMTT(30) DEF HsInv, Installs
<1>5. QED BY <1>2, <1>3, <1>4, SMTT(30)

(* LinkUp: Wi-Fi has an address again.                                     *)
LEMMA LinkUpKeeps == ASSUME HsInv, LinkUp PROVE HsInv' /\ Installs
<1> DEFINE h == [g EXCEPT !.link_up_pending = TRUE]
           u == [World EXCEPT !.g = h]
<1>1. HsTypes /\ LiveOk(World) /\ World.g = g /\ g \in GFields /\ World.wire = wire
  BY DEF HsInv, World, LiveOk
<1>2. /\ env' = [env EXCEPT !.link = TRUE] /\ g' = h /\ wire' = wire /\ rx' = rx
      /\ resps' = resps /\ peer' = peer
  BY DEF LinkUp
<1>3. h \in GFields
  BY <1>1, ZenonT(40) DEF GFields
<1>4. /\ h.init_valid = g.init_valid /\ h.state = g.state /\ h.hs = g.hs
      /\ h.armed = g.armed /\ h.local_index = g.local_index /\ h.session = g.session
      /\ h.rekey_in_flight = g.rekey_in_flight
  BY <1>1, <1>3 DEF GFields
<1> HIDE DEF h
<1>5. LiveOk(u) /\ u.g = h /\ u.wire = wire
  BY <1>1, <1>3, <1>4, OtherFields, SMTT(30)
<1> HIDE DEF u
<1>6. Follows(World, u) /\ u.g.state = g.state
  BY <1>1, <1>4, <1>5 DEF Follows, handshake_pending
<1>7. env' \in EnvType
  BY <1>1, <1>2, ZenonT(40) DEF HsTypes, EnvType
<1>8. QED BY <1>2, <1>5, <1>6, <1>7, Lands, ZenonT(40) DEF RxKept

(* Tick: a tick passes while wg_rx waits.                                  *)
LEMMA TickKeeps == ASSUME HsInv, Tick PROVE HsInv' /\ Installs
<1> DEFINE h == aged(g, 1)
           u == [World EXCEPT !.g = h]
<1>1. HsTypes /\ LiveOk(World) /\ World.g = g /\ g \in GFields /\ World.wire = wire
      /\ rx \in RxType /\ env \in EnvType /\ Spent \in EnvType /\ Timely
  BY SpentType DEF HsInv, World, LiveOk, HsTypes
<1>2. /\ rx.pc = "none" \/ (rx.pc = "wait" /\ rx.wait > 0)
      /\ \/ env' = [env EXCEPT !.uptime = Min({@ + 1, UptimeCap})]
         \/ env' = [Spent EXCEPT !.uptime = Min({@ + 1, UptimeCap})]
      /\ g' = h /\ rx' = IF rx.pc = "none" THEN rx ELSE [rx EXCEPT !.wait = @ - 1]
      /\ wire' = wire /\ resps' = resps /\ peer' = peer /\ h = aged(g, 1)
  BY DEF Tick
<1> HIDE DEF h
<1>3. /\ h \in GFields /\ h.state = g.state /\ h.rekey_in_flight = g.rekey_in_flight
      /\ h.init_valid = g.init_valid /\ h.armed = g.armed
      /\ h.local_index = g.local_index /\ h.session = g.session
      /\ h.hs \in Int /\ h.hs <= g.hs + 1
  BY <1>1, <1>2, Aged
<1>4. LiveOk(u) /\ u.g = h /\ u.wire = wire
  BY <1>1, <1>3, OtherFields
<1> HIDE DEF u
<1>5. LiveOk(World)'
  BY <1>1, <1>2, <1>4, LiveNext
<1>6. env' \in EnvType
  <2>1. ASSUME NEW e \in EnvType PROVE Min({e.uptime + 1, UptimeCap}) \in Nat
    BY <2>1, MinTwo, Caps, HandshakeConstants DEF EnvType, UptimeCap
  <2>2. ASSUME NEW e \in EnvType, NEW n \in Nat PROVE [e EXCEPT !.uptime = n] \in EnvType
    BY <2>2 DEF EnvType
  <2>3. QED BY <1>1, <1>2, <2>1, <2>2, SMTT(30)
<1>7. \/ rx.pc = "none" /\ rx' = rx
      \/ /\ rx.pc = "wait" /\ rx' \in RxType /\ rx'.pc = "wait" /\ rx'.wait = rx.wait - 1
         /\ rx.wait \in Int
  BY <1>1, <1>2, Caps DEF RxType, MaxWait
<1>8. HsTypes'
  BY <1>1, <1>2, <1>6, <1>7, FewerResponses, SMTT(30) DEF HsTypes
<1>9. Timely'
  BY <1>1, <1>2, <1>3, <1>7, Caps, SMTT(30) DEF Timely, handshake_pending, GFields, UpTo
<1>10. QED BY <1>2, <1>3, <1>5, <1>8, <1>9, SMTT(30) DEF HsInv, Installs

-----------------------------------------------------------------------------
(* The three theorems.                                                     *)

(* Before the first start nothing is in flight.                            *)
LEMMA InitKeeps == ASSUME Init PROVE HsInv
<1>1. /\ "idle" \in States /\ 0 \in 0 .. MaxRetries /\ NoIndex \in Indices
      /\ 0 \in UpTo(RekeyTimeout + 2) /\ 0 \in UpTo(Cooldown + 1)
      /\ Never \in AgeOf(RekeyAfter + 1) /\ Never \in AgeOf(StaleAfter + 1)
      /\ Never \in AgeOf(KeepaliveEvery + 1) /\ MaxFaults \in Int /\ 0 \in 0 .. MaxWait
  BY Caps, HandshakeConstants, SMTT(30) DEF States, Indices, UpTo, AgeOf, MaxWait
<1>0. /\ g = [state |-> "idle", attempt |-> 0, rekey_in_flight |-> FALSE,
               rekey_attempt |-> 0, init_valid |-> FALSE, local_index |-> NoIndex,
               replaced_index |-> NoIndex, armed |-> NoIndex, session |-> NoIndex,
               epoch |-> 0, peer_key |-> 0, hs |-> 0, completed |-> Never, recv |-> Never,
               probe |-> 0, tx |-> Never, link_up_pending |-> FALSE]
      /\ wire = <<>> /\ resps = {}
  BY ZenonT(40) DEF Init
<1>2. g \in GFields
  <2>1. 0 \in {0, 1} /\ FALSE \in BOOLEAN /\ 0 \in Nat
    OBVIOUS
  <2>2. QED BY <1>0, <1>1, <2>1, ZenonT(40) DEF GFields
<1>3. /\ g.state = "idle" /\ ~g.init_valid /\ g.armed = NoIndex
  BY <1>0, SMTT(30)
<1>4. rx \in RxType /\ peer \in PeerType
  BY <1>1 DEF Init, RxType, PeerType
<1>5. env \in EnvType
  <2>1. /\ {TRUE} \subseteq BOOLEAN /\ {FALSE} \subseteq BOOLEAN /\ {0} \subseteq Nat
        /\ {MaxFaults} \subseteq Int
    BY <1>1
  <2>2. env \in [link : {TRUE}, relay : BOOLEAN, direct : BOOLEAN, valid : {FALSE},
                 kick : {FALSE}, uptime : {0}, faults : {MaxFaults}]
    BY ZenonT(40) DEF Init
  <2>3. QED BY <2>1, <2>2, ZenonT(40) DEF EnvType
<1>6. wire = <<>> /\ wire \in Wires /\ resps = {}
  BY <1>0 DEF Wires
<1>7. HsTypes
  <2>1. RespsOk
    BY <1>1, <1>6, Zenon DEF RespsOk
  <2>2. QED BY <1>4, <1>5, <2>1 DEF HsTypes
<1>8. LiveOk(World)
  <2>1. World \in [g : GFields, wire : Wires] /\ World.g = g /\ World.wire = <<>>
    BY <1>2, <1>6 DEF World
  <2>2. QED BY <1>3, <1>6, <2>1, NoneAnswered DEF LiveOk
<1>9. Timely
  BY <1>3 DEF Timely, handshake_pending
<1>10. QED BY <1>7, <1>8, <1>9 DEF HsInv

(* Every step keeps the invariant and installs only keys the responder     *)
(* holds.                                                                  *)
LEMMA HsStep == ASSUME HsInv, [Next]_vars PROVE HsInv' /\ Installs
<1>1. ASSUME NEW how, RxTimeout(how) \/ RxTransport(how) \/ RxPong(how)
                      \/ RelayKick(how) \/ CallMeMaybe(how)
      PROVE  HsInv' /\ Installs
  BY <1>1, RxTimeoutKeeps, RxTransportKeeps, RxPongKeeps, RelayKickKeeps, CallMeMaybeKeeps, SMTT(30)
<1>2. ASSUME NEW how, NEW asked \in {FALSE, "doubt" \in Faults}, RxRest(asked, how)
      PROVE  HsInv' /\ Installs
  <2>1. asked \in BOOLEAN
    <3>1. ("doubt" \in Faults) \in BOOLEAN
      OBVIOUS
    <3>2. asked = FALSE \/ asked = ("doubt" \in Faults)
      BY <1>2, Zenon
    <3>3. QED BY <3>1, <3>2, Zenon
  <2>2. QED BY <1>2, <2>1, RxRestKeeps
<1>3. ASSUME NEW how, NEW r \in resps, RxResponse(r, how) PROVE HsInv' /\ Installs
  BY <1>3, RxResponseKeeps
<1>4. ASSUME NEW how, RxTimers(how) \/ Start(how) \/ UpdatePeerKeys(how)
      PROVE  HsInv' /\ Installs
  BY <1>4, RxTimersKeeps, StartKeeps, UpdatePeerKeysKeeps
<1>5. CASE AbortStart BY <1>5, AbortStartKeeps
<1>6. CASE InjectTransport BY <1>6, InjectTransportKeeps
<1>7. CASE AppSends BY <1>7, AppSendsKeeps
<1>8. CASE UpdateEndpoint \/ RelayUp \/ PathLapses BY <1>8, PathsMove
<1>9. ASSUME NEW r \in resps, InjectResponse(r) PROVE HsInv' /\ Installs
  BY <1>9, InjectResponseKeeps
<1>10. ASSUME NEW k, PeerTakes(k) PROVE HsInv' /\ Installs
  BY <1>10, PeerTakesKeeps, SMTT(30)
<1>11. CASE PeerRestarts \/ PeerRelogin BY <1>11, NewLivesKeep, SMTT(30)
<1>17. CASE PathDown BY <1>17, PathDownKeeps
<1>12. CASE Lost BY <1>12, LostKeeps
<1>13. CASE LinkUp BY <1>13, LinkUpKeeps
<1>14. CASE Tick BY <1>14, TickKeeps
<1>15. CASE UNCHANGED vars
  <2>1. UNCHANGED <<g, rx, wire, peer>> /\ resps' \subseteq resps /\ env' \in EnvType
    BY <1>15 DEF vars, HsInv, HsTypes
  <2>2. QED BY <2>1, OthersMove
<1>16. QED
  BY <1>1, <1>2, <1>3, <1>4, <1>5, <1>6, <1>7, <1>8, <1>9, <1>10, <1>11, <1>12, <1>13,
     <1>14, <1>15, <1>17, Zenon DEF Next

(* The invariant holds throughout: INITs, responses and wg_rx's wait stay  *)
(* together as HsInv says.                                                 *)
LEMMA HsAlways == Spec => []HsInv
<1>1. Init => HsInv
  BY InitKeeps
<1>2. HsInv /\ [Next]_vars => HsInv'
  BY HsStep
<1>3. QED BY <1>1, <1>2, PTL DEF Spec

(* rx_next_deadline_us and the timer blocks of rx_task agree, whatever the *)
(* periods: n ticks from now a block is due exactly if one of the          *)
(* deadlines has passed.                                                   *)
THEOREM PlanAlwaysExact == Spec => []PlanExact
<1>1. HsInv => PlanExact
  <2> SUFFICES ASSUME HsInv PROVE PlanExact
    OBVIOUS
  <2>1. g \in GFields
    BY SMTT(30) DEF HsInv, LiveOk, World
  <2>2. QED BY <2>1, PlanIsExact
<1>2. QED BY <1>1, HsAlways, PTL

(* Whichever task sent it and however long wg_rx had planned to sleep, no  *)
(* INIT in flight is left alone for longer than WG_REKEY_TIMEOUT_MS.       *)
THEOREM RetryAlwaysBounded == Spec => []RetryBounded
<1>1. HsInv => RetryBounded
  <2> SUFFICES ASSUME HsInv, handshake_pending(g) PROVE g.hs <= RekeyTimeout + 1
    BY SMTT(30) DEF RetryBounded
  <2>4. rx.pc \in {"none", "wait", "timers", "rest"} /\ rx.wait \in Int /\ rx.wait >= 0
    BY Caps DEF HsInv, HsTypes, RxType, MaxWait
  <2>5. g \in GFields
    BY DEF HsInv, LiveOk, World
  <2>1. g.hs \in Int /\ RekeyTimeout \in Nat
    BY <2>5, Caps DEF GFields, UpTo
  <2>2. rx.pc # "none"
    BY DEF HsInv, Timely, handshake_pending
  <2>3. QED BY <2>1, <2>2, <2>4 DEF HsInv, Timely
<1>2. QED BY <1>1, HsAlways, PTL

(* Whatever is lost, delayed, retried or restarted, the keys that          *)
(* handle_handshake_response_locked installs are ones the responder holds, *)
(* as next or as current, unless it has started anew since it made them.   *)
THEOREM InstallsOnlyLive == Spec => InstallsLive
<1>1. HsInv /\ [Next]_vars =>
        [g'.session # g.session /\ g'.session # NoIndex =>
             g'.session \in {peer.next, peer.current} \/ g'.epoch < peer.epoch]_vars
  BY HsStep DEF Installs
<1>2. QED BY <1>1, HsAlways, PTL DEF Spec, InstallsLive
=============================================================================
