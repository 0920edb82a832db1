---------------------------- MODULE WgPathProofs ----------------------------
(* Proofs about path selection (WgPath), for every period, clock and event  *)
(* order.                                                                   *)
EXTENDS WgPath, TLAPS

\* What the proofs need of the path record's shape.
Shape(q) ==
  /\ {"mode", "why", "silent_streak", "cand"} \subseteq DOMAIN q
  /\ q.silent_streak \in Nat

\* A rekey was asked for only if the silence was counted.
SilenceCounted == rekeys = 0 \/ (rekeys = 1 /\ p.silent_streak # 0)

PathInv == Shape(p) /\ SilenceCounted /\ LapseSettled

\* An operation that is not a packet of the peer keeps the count of silences
\* and adds to it where it asks for a rekey.
Counts(q, r) ==
  /\ Shape(r.p)
  /\ IF "REKEY" \in r.act THEN q.silent_streak = 0 /\ r.p.silent_streak # 0
     ELSE q.silent_streak # 0 => r.p.silent_streak # 0

\* A lapse that was pending still is, or its frames are re-sent.
Holds(q, r) == LapsePending(q) => LapsePending(r.p) \/ "RESCUE" \in r.act

\* wg_path_check_answer: neither counts a silence nor drops a lapse.
LEMMA CheckAnswerOk ==
  ASSUME NEW q, NEW t, Shape(q)
  PROVE  /\ Counts(q, CheckAnswer(q, t)) /\ Holds(q, CheckAnswer(q, t))
         /\ "REKEY" \notin CheckAnswer(q, t).act
  BY DEF Shape, CheckAnswer, Lapse, EnterDual, Ret, Counts, Holds, LapsePending

\* wg_path_on_send: the same.
LEMMA SendOk ==
  ASSUME NEW q, NEW t, NEW data, Shape(q)
  PROVE  Counts(q, wg_path_on_send(q, t, data)) /\ Holds(q, wg_path_on_send(q, t, data))
<1> DEFINE a == CheckAnswer(q, t)
           seen == IF a.p.ka > a.p.proof THEN a.p.ka ELSE a.p.proof
           idle == /\ a.p.mode = "DIRECT" /\ Due(t, seen, Answer)
                   /\ a.p.last_data = 0 \/ Due(t, a.p.last_data, Answer)
           b == IF idle THEN Lapse(a.p, t, "IDLE", seen) ELSE a
           r == b.p
           aw == IF (r.mode = "DIRECT" \/ InDoubt(r)) /\ r.await = 0 THEN t ELSE r.await
           lr == IF r.mode # "DIRECT" THEN t ELSE r.last_relay
           u == [r EXCEPT !.await = aw, !.last_relay = lr, !.last_data = t]
<1>1. Counts(q, a) /\ Holds(q, a) /\ "REKEY" \notin a.act
  BY CheckAnswerOk
<1>2. Shape(a.p) /\ (q.silent_streak # 0 => a.p.silent_streak # 0)
  BY <1>1, SMTT(30) DEF Counts
<1>3. /\ Shape(r) /\ (q.silent_streak # 0 => r.silent_streak # 0) /\ "REKEY" \notin b.act
      /\ LapsePending(a.p) => LapsePending(r)
  <2>1. CASE idle
    <3> HIDE DEF a, seen, idle
    <3> QED BY <1>2, <2>1, ZenonT(40) DEF Lapse, EnterDual, Ret, Shape, LapsePending
  <2>2. CASE ~idle
    BY <1>1, <1>2, <2>2
  <2> QED BY <2>1, <2>2, ZenonT(40)
<1>4. Shape(u) /\ u.silent_streak = r.silent_streak /\ u.mode = r.mode /\ u.why = r.why
  <2> HIDE DEF r, aw, lr
  <2> QED BY <1>3 DEF Shape
<1>5. wg_path_on_send(q, t, data)
        = IF ~q.managed THEN Ret(q, {}) ELSE IF ~data THEN a ELSE Ret(u, a.act \cup b.act)
  BY DEF wg_path_on_send
<1> HIDE DEF a, b, r, u
<1>6. Counts(q, Ret(q, {})) /\ Holds(q, Ret(q, {}))
  BY DEF Counts, Holds, Ret, Shape
<1>7. Counts(q, Ret(u, a.act \cup b.act)) /\ Holds(q, Ret(u, a.act \cup b.act))
  BY <1>1, <1>3, <1>4 DEF Counts, Holds, Ret, LapsePending
<1> QED BY <1>1, <1>5, <1>6, <1>7

\* enter_relay leaves the count of silences.
LEMMA EnterRelayOk ==
  ASSUME NEW q, NEW t, NEW why, Shape(q)
  PROVE  /\ Shape(EnterRelay(q, t, why))
         /\ EnterRelay(q, t, why).silent_streak = q.silent_streak
<1>1. Shape(NoCand(q)) /\ NoCand(q).silent_streak = q.silent_streak
  BY DEF Shape, NoCand
<1> QED
  BY <1>1 DEF Shape, EnterRelay

\* The end of a doubt by silence: counted, and its frames re-sent.
LEMMA SilentOk ==
  ASSUME NEW q, NEW t, Shape(q)
  PROVE  Counts(q, Silent(q, t)) /\ "RESCUE" \in Silent(q, t).act
<1> DEFINE e == EnterRelay(q, t, "SILENT")
           r == [e EXCEPT !.silent_streak = @ + 1]
           more == IF q.silent_streak = 0 THEN {"REKEY"} ELSE {}
<1>1. Shape(e) /\ e.silent_streak = q.silent_streak
  BY EnterRelayOk
<1>2. Shape(r) /\ r.silent_streak = q.silent_streak + 1 /\ q.silent_streak \in Nat
  <2> HIDE DEF e
  <2> QED BY <1>1 DEF Shape
<1> DEFINE u == [r EXCEPT !.last_relay = t]
<1>3. Silent(q, t) = Ret(u, more \cup {"RESCUE"})
  BY DEF Silent, Rescue
<1>4. Shape(u) /\ u.silent_streak # 0
  <2> HIDE DEF r
  <2> QED BY <1>2 DEF Shape
<1> HIDE DEF u
<1>5. Silent(q, t).p = u /\ Silent(q, t).act = more \cup {"RESCUE"}
  BY <1>3 DEF Ret
<1> QED
  BY <1>4, <1>5 DEF Counts

\* wg_path_tick, mode by mode.
LEMMA TickOk ==
  ASSUME NEW q, NEW t, Shape(q)
  PROVE  Counts(q, wg_path_tick(q, t)) /\ Holds(q, wg_path_tick(q, t))
<1>1. Counts(q, Ret(q, {})) /\ Holds(q, Ret(q, {}))
  BY DEF Shape, Counts, Holds, Ret
<1>2. Counts(q, TickDoubt(q, t)) /\ Holds(q, TickDoubt(q, t))
  <2> DEFINE test == q.test_at # 0 /\ t >= q.test_at
             r == IF test THEN [q EXCEPT !.test_at = 0] ELSE q
             a == IF test THEN {"TEST"} ELSE {}
  <2>1. /\ Shape(r) /\ r.silent_streak = q.silent_streak
        /\ r.mode = q.mode /\ r.why = q.why /\ "REKEY" \notin a
    BY DEF Shape
  <2>2. CASE q.await # 0 /\ Due(t, q.await, Answer)
    <3>1. TickDoubt(q, t) = Ret(Silent(r, t).p, a \cup Silent(r, t).act)
      BY <2>2 DEF TickDoubt
    <3>2. Counts(r, Silent(r, t)) /\ "RESCUE" \in Silent(r, t).act
      BY <2>1, SilentOk
    <3> QED BY <2>1, <3>1, <3>2 DEF Counts, Holds, Ret
  <2>3. CASE ~(q.await # 0 /\ Due(t, q.await, Answer))
    <3>1. TickDoubt(q, t) = Ret(r, a)
      BY <2>3 DEF TickDoubt
    <3> QED BY <2>1, <3>1 DEF Counts, Holds, Ret, LapsePending
  <2> QED BY <2>2, <2>3
<1>3. Counts(q, TickDual(q, t)) /\ Holds(q, TickDual(q, t))
  BY DEF Shape, TickDual, Rescue, Ret, Counts, Holds, LapsePending
<1>4. Counts(q, TickRelay(q, t)) /\ Holds(q, TickRelay(q, t))
  BY DEF Shape, TickRelay, Ret, Counts, Holds, LapsePending
<1>5. Counts(q, CheckAnswer(q, t)) /\ Holds(q, CheckAnswer(q, t))
  BY CheckAnswerOk
<1> QED
  BY <1>1, <1>2, <1>3, <1>4, <1>5 DEF wg_path_tick

\* Confirming the direct path keeps the count of silences.
LEMMA ConfirmOk ==
  ASSUME NEW q, NEW t, Shape(q)
  PROVE  /\ Shape(Confirm(q, t)) /\ Confirm(q, t).mode = "DIRECT"
         /\ Confirm(q, t).silent_streak = q.silent_streak
  BY DEF Shape, Confirm

\* A WireGuard packet ends a doubt: DIRECT again, or the frames are re-sent.
Resolves(q, r) == r.p.mode = "DIRECT" \/ "RESCUE" \in r.act

\* The end of a doubt by a packet keeps the count of silences.
LEMMA ResolveOk ==
  ASSUME NEW q, NEW t, Shape(q)
  PROVE  Counts(q, Resolve(q, t)) /\ Resolves(q, Resolve(q, t))
<1>1. CASE q.doubts < 2
  <2>1. Resolve(q, t) = Ret(Confirm(q, t), {})
    BY <1>1 DEF Resolve
  <2> QED BY <2>1, ConfirmOk DEF Ret, Counts, Resolves
<1>2. CASE ~(q.doubts < 2)
  <2> DEFINE e == EnterRelay(q, t, "UNDELIVERED")
  <2>1. Shape(e) /\ e.silent_streak = q.silent_streak
    BY EnterRelayOk
  <2>2. Resolve(q, t) = Rescue(e, t, {})
    BY <1>2 DEF Resolve
  <2> HIDE DEF e
  <2> QED BY <2>1, <2>2 DEF Rescue, Ret, Counts, Resolves, Shape
<1> QED BY <1>1, <1>2

\* What a packet of the peer does to a pending lapse.
Answers(q, r) == LapsePending(q) => LapsePending(r.p) \/ (InDoubt(q) /\ Resolves(q, r))

\* wg_path_on_keepalive drops a lapse only where it ends a doubt.
LEMMA KeepaliveOk ==
  ASSUME NEW q, NEW t, Shape(q)
  PROVE  /\ Shape(wg_path_on_keepalive(q, t).p)
         /\ Answers(q, wg_path_on_keepalive(q, t))
<1>1. /\ Shape(Heard(q, t)) /\ Heard(q, t).mode = q.mode /\ Heard(q, t).why = q.why
  BY DEF Shape, Heard
<1>2. Shape(Resolve(Heard(q, t), t).p) /\ Resolves(q, Resolve(Heard(q, t), t))
  BY <1>1, ResolveOk DEF Counts, Resolves
<1>3. CASE InDoubt(q)
  BY <1>2, <1>3 DEF wg_path_on_keepalive, Answers
<1>4. CASE ~InDoubt(q)
  BY <1>1, <1>4 DEF wg_path_on_keepalive, Answers, LapsePending, Ret, Shape
<1> QED BY <1>3, <1>4

\* wg_path_on_peer_data: the same.
LEMMA PeerDataOk ==
  ASSUME NEW q, NEW t, Shape(q)
  PROVE  /\ Shape(wg_path_on_peer_data(q, t).p)
         /\ Answers(q, wg_path_on_peer_data(q, t))
<1>1. /\ Shape(Heard(q, t)) /\ Heard(q, t).mode = q.mode /\ Heard(q, t).why = q.why
  BY DEF Shape, Heard
<1>2. Shape(Resolve(Heard(q, t), t).p) /\ Resolves(q, Resolve(Heard(q, t), t))
  BY <1>1, ResolveOk DEF Counts, Resolves
<1>3. CASE InDoubt(q)
  BY <1>2, <1>3 DEF wg_path_on_peer_data, Answers
<1>4. CASE ~InDoubt(q)
  BY <1>1, <1>4 DEF wg_path_on_peer_data, Answers, LapsePending, Ret, Shape
<1> QED BY <1>3, <1>4

\* wg_path_on_handshake: the same, and it is no end of a silence.
LEMMA HandshakeOk ==
  ASSUME NEW q, NEW t, Shape(q)
  PROVE  /\ Counts(q, wg_path_on_handshake(q, t))
         /\ Answers(q, wg_path_on_handshake(q, t))
<1> DEFINE r == [q EXCEPT !.hs = t, !.peer_wg = t, !.grace_used = FALSE]
<1>1. Shape(r) /\ r.mode = q.mode /\ r.why = q.why /\ r.silent_streak = q.silent_streak
  BY DEF Shape
<1>2. Counts(r, Resolve(r, t)) /\ Resolves(r, Resolve(r, t))
  <2> HIDE DEF r
  <2> QED BY <1>1, ResolveOk
<1>3. CASE InDoubt(q)
  <2>1. wg_path_on_handshake(q, t) = Resolve(r, t)
    BY <1>3 DEF wg_path_on_handshake
  <2> HIDE DEF r
  <2> QED BY <1>1, <1>2, <1>3, <2>1 DEF Counts, Answers, Resolves
<1>4. CASE ~InDoubt(q)
  <2>1. wg_path_on_handshake(q, t)
          = Ret(IF q.mode = "DIRECT" THEN [r EXCEPT !.await = 0] ELSE r, {})
    BY <1>4 DEF wg_path_on_handshake
  <2> HIDE DEF r
  <2> QED BY <1>1, <1>4, <2>1 DEF Ret, Counts, Answers, LapsePending, InDoubt, Shape
<1> QED BY <1>3, <1>4

\* wg_path_on_endpoint_change re-sends the frames of a pending lapse.
LEMMA EndpointChangeOk ==
  ASSUME NEW q, NEW t, Shape(q)
  PROVE  /\ Counts(q, wg_path_on_endpoint_change(q, t))
         /\ Holds(q, wg_path_on_endpoint_change(q, t))
<1> DEFINE a == IF LapsePending(q) THEN Rescue(q, t, {}) ELSE Ret(q, {})
           d == EnterDual(a.p, t, "ENDPOINT")
           n == NoCand(d)
           u == [n EXCEPT !.ping = 0, !.proof = 0, !.rtt = 0, !.rtt_at = 0]
<1>1. /\ Shape(a.p) /\ a.p.silent_streak = q.silent_streak /\ "REKEY" \notin a.act
      /\ LapsePending(q) => "RESCUE" \in a.act
  BY DEF Rescue, Ret, Shape
<1>2. Shape(d) /\ d.silent_streak = q.silent_streak
  <2> HIDE DEF a
  <2> QED BY <1>1 DEF EnterDual, Shape
<1>3. Shape(n) /\ n.silent_streak = q.silent_streak
  <2> HIDE DEF d
  <2> QED BY <1>2 DEF NoCand, Shape
<1>4. Shape(u) /\ u.silent_streak = q.silent_streak
  <2> HIDE DEF n
  <2> QED BY <1>3 DEF Shape
<1>5. wg_path_on_endpoint_change(q, t) = Ret(u, a.act)
  BY DEF wg_path_on_endpoint_change
<1> HIDE DEF u, a
<1> QED BY <1>1, <1>4, <1>5 DEF Ret, Counts, Holds

\* A pong of the current endpoint keeps the lapse, or confirms the path.
LEMMA PongCurrentOk ==
  ASSUME NEW q, NEW t, NEW rtt, Shape(q)
  PROVE  /\ Counts(q, PongCurrent(q, t, rtt))
         /\ LapsePending(q) => \/ LapsePending(PongCurrent(q, t, rtt).p)
                               \/ PongCurrent(q, t, rtt).p.mode = "DIRECT"
<1> DEFINE r == [q EXCEPT !.rtt = rtt, !.rtt_at = t]
           c == Confirm(r, t)
           m == [c EXCEPT !.rtt = q.cand.rtt, !.rtt_at = q.cand.at]
           d == [NoCand(r) EXCEPT !.doubts = @ + 1, !.why = "DOUBT", !.await = 0,
                                  !.test_at = IF q.silent_streak = 0 THEN t ELSE 0]
           Same(u) == Shape(u) /\ u.silent_streak = q.silent_streak
<1>1. Same(r) /\ r.mode = q.mode /\ r.why = q.why
  BY DEF Shape
<1>2. Same(c) /\ c.mode = "DIRECT"
  <2> HIDE DEF r
  <2> QED BY <1>1, ConfirmOk
<1>3. Same(m) /\ m.mode = "DIRECT"
  <2> HIDE DEF c
  <2> QED BY <1>2 DEF Shape
<1>4. \A u : Same(u) => Same(NoCand(u)) /\ NoCand(u).mode = u.mode /\ NoCand(u).why = u.why
  BY DEF Shape, NoCand
<1>5. Same(d) /\ d.mode = q.mode /\ d.why = "DOUBT"
  <2>1. Same(NoCand(r)) /\ NoCand(r).mode = q.mode
    <3> HIDE DEF r
    <3> QED BY <1>1, <1>4
  <2> HIDE DEF r
  <2> QED BY <2>1 DEF Shape
<1>6. PongCurrent(q, t, rtt) \in
        {Ret(r, {}), Ret(NoCand(r), {}), Ret(d, {}), Ret(NoCand(m), {}), Ret(NoCand(c), {})}
  BY DEF PongCurrent
<1> HIDE DEF r, c, m, d, Same
<1>7. /\ Same(NoCand(r)) /\ NoCand(r).mode = q.mode /\ NoCand(r).why = q.why
      /\ Same(NoCand(m)) /\ NoCand(m).mode = "DIRECT"
      /\ Same(NoCand(c)) /\ NoCand(c).mode = "DIRECT"
  BY <1>1, <1>2, <1>3, <1>4
<1>8. \A u : Same(u) => Counts(q, Ret(u, {}))
  BY DEF Same, Counts, Ret
<1>9. \A u : Ret(u, {}).p = u
  BY DEF Ret
<1> QED
  BY <1>1, <1>5, <1>6, <1>7, <1>8, <1>9 DEF LapsePending

\* A pong of another endpoint re-sends a lapse's frames when it is taken.
LEMMA PongOtherOk ==
  ASSUME NEW q, NEW t, NEW rtt, Shape(q)
  PROVE  Counts(q, PongOther(q, t, rtt)) /\ Holds(q, PongOther(q, t, rtt))
<1> DEFINE a == IF LapsePending(q) THEN Rescue(q, t, {}) ELSE Ret(q, {})
           k == [q EXCEPT !.cand = [valid |-> TRUE, rtt |-> rtt, at |-> t]]
           b == [a.p EXCEPT !.rtt = rtt, !.rtt_at = t]
           c == Confirm(NoCand(b), t)
           Same(u) == Shape(u) /\ u.silent_streak = q.silent_streak
<1>1. /\ Same(a.p) /\ "REKEY" \notin a.act
      /\ LapsePending(q) => "RESCUE" \in a.act
  BY DEF Rescue, Ret, Shape
<1>2. Same(b)
  <2> HIDE DEF a
  <2> QED BY <1>1 DEF Shape
<1>3. Same(NoCand(b))
  <2> HIDE DEF b
  <2> QED BY <1>2 DEF Shape, NoCand
<1>4. Same(c)
  <2> HIDE DEF b
  <2> QED BY <1>3, ConfirmOk
<1>5. Same(q) /\ Same(k) /\ k.mode = q.mode /\ k.why = q.why
  BY DEF Shape
<1>6. PongOther(q, t, rtt) \in {Ret(q, {}), Ret(k, {}), Ret(c, a.act)}
  BY DEF PongOther
<1> HIDE DEF a, k, c
<1>7. Counts(q, Ret(q, {})) /\ Counts(q, Ret(k, {})) /\ Counts(q, Ret(c, a.act))
  BY <1>1, <1>4, <1>5 DEF Counts, Ret
<1>8. Holds(q, Ret(q, {})) /\ Holds(q, Ret(k, {})) /\ Holds(q, Ret(c, a.act))
  BY <1>1, <1>5 DEF Holds, Ret, LapsePending
<1> QED BY <1>6, <1>7, <1>8

\* wg_path_set_managed starts the path afresh or leaves its record.
LEMMA SetManagedOk ==
  ASSUME NEW q, NEW t, NEW m, Shape(q)
  PROVE  Shape(wg_path_set_managed(q, t, m))
  BY DEF Shape, wg_path_set_managed, Start

\* A path that starts has no lapse and no silence.
LEMMA InitOk == Init => PathInv
  BY DEF Init, Start, PathInv, Shape, SilenceCounted, LapseSettled

\* Every operation keeps the inductive invariant.
LEMMA NextOk == PathInv /\ [Next]_vars => PathInv'
<1> SUFFICES ASSUME PathInv, [Next]_vars PROVE PathInv'
  OBVIOUS
<1>0. Shape(p) /\ SilenceCounted /\ LapseSettled
  BY DEF PathInv
<1>1. ASSUME NEW e, NEW r, Do(e, r), Counts(p, r), e \notin {"keepalive", "data", "managed"},
             LapsePending(p) => LapsePending(r.p) \/ Settles(e, r)
      PROVE  PathInv'
  <2>1. Shape(p')
    BY <1>1 DEF Do, Counts
  <2>2. SilenceCounted'
    BY <1>0, <1>1 DEF Do, Counts, SilenceCounted, Shape
  <2>3. LapseSettled'
    BY <1>0, <1>1, ZenonT(40) DEF Do, LapseSettled
  <2> QED BY <2>1, <2>2, <2>3 DEF PathInv
<1>2. ASSUME NEW e, NEW r, Do(e, r), Shape(r.p), e \in {"keepalive", "data", "managed"},
             LapsePending(p) => LapsePending(r.p) \/ Settles(e, r)
      PROVE  PathInv'
  <2>1. Shape(p')
    BY <1>2 DEF Do
  <2>2. SilenceCounted'
    BY <1>2 DEF Do, SilenceCounted
  <2>3. LapseSettled'
    BY <1>0, <1>2, ZenonT(40) DEF Do, LapseSettled
  <2> QED BY <2>1, <2>2, <2>3 DEF PathInv
<1>3. CASE Time \/ UNCHANGED vars
  BY <1>0, <1>3 DEF Time, vars, PathInv, Shape, SilenceCounted, LapseSettled, LapsePending
<1>4. ASSUME NEW data \in BOOLEAN, Send(data) PROVE PathInv'
  BY <1>0, <1>1, <1>4, SendOk DEF Send, Holds, Settles
<1>5. ASSUME NEW t \in now - Lag .. now, Tick(t) PROVE PathInv'
  BY <1>0, <1>1, <1>5, TickOk DEF Tick, Holds, Settles
<1>6. CASE OnKeepalive
  BY <1>0, <1>2, <1>6, KeepaliveOk DEF OnKeepalive, Answers, Resolves, Settles, WgEvents
<1>7. CASE OnPeerData
  BY <1>0, <1>2, <1>7, PeerDataOk DEF OnPeerData, Answers, Resolves, Settles, WgEvents
<1>8. CASE OnHandshake
  BY <1>0, <1>1, <1>8, HandshakeOk DEF OnHandshake, Answers, Resolves, Settles, WgEvents
<1>9. CASE OnEndpointChange
  BY <1>0, <1>1, <1>9, EndpointChangeOk DEF OnEndpointChange, Holds, Settles
<1>10. ASSUME NEW rtt \in Rtts, OnPong(rtt) PROVE PathInv'
  BY <1>0, <1>1, <1>10, PongCurrentOk DEF OnPong, Settles
<1>11. ASSUME NEW rtt \in Rtts, OnOtherPong(rtt) PROVE PathInv'
  BY <1>0, <1>1, <1>11, PongOtherOk DEF OnOtherPong, Holds, Settles
<1>12. ASSUME NEW m \in BOOLEAN, SetManaged(m) PROVE PathInv'
  <2> DEFINE r == Ret(wg_path_set_managed(p, now, m), {})
  <2>1. Do("managed", r)
    BY <1>12 DEF SetManaged
  <2>2. Shape(r.p) /\ Settles("managed", r)
    BY <1>0, SetManagedOk DEF Ret, Settles
  <2> HIDE DEF r
  <2> QED BY <1>2, <2>1, <2>2
<1> QED
  BY <1>3, <1>4, <1>5, <1>6, <1>7, <1>8, <1>9, <1>10, <1>11, <1>12 DEF Next

-----------------------------------------------------------------------------
(* The deadline.                                                            *)

\* What makes a deadline of the record exact at an instant n: its instants
\* are numbers, it was not entered after n, and a relay's re-test has a period.
Timed(q, n) ==
  /\ {"mode", "why", "since", "await", "test_at", "ping", "reprobe", "reprobe_ms",
      "last_data", "doubts"} \subseteq DOMAIN q
  /\ q.since \in Int /\ q.since <= n
  /\ q.await \in Int /\ q.test_at \in Int /\ q.ping \in Int
  /\ q.reprobe \in Int /\ q.last_data \in Int
  /\ q.reprobe_ms \in Nat /\ q.doubts \in Nat
  /\ q.mode = "RELAY" => q.reprobe_ms > 0

\* The inductive invariant of the deadline.
ClockInv == now \in Int /\ Timed(p, now)

\* The periods are natural numbers, those of the re-test positive.
LEMMA Periods ==
  /\ Answer \in Nat /\ PingTimeout \in Nat /\ Active \in Nat /\ Lag \in Nat
  /\ ReprobeMin \in Nat /\ ReprobeMax \in Nat /\ 0 < ReprobeMin /\ 0 < ReprobeMax
  /\ MaxTime \in Nat /\ Never \in Nat /\ MaxTime + 1 < Never
  BY PathAssumption DEF Answer, Never

\* The back-off of the re-test is never 0.
LEMMA BackoffPositive ==
  ASSUME NEW d \in Nat
  PROVE  Backoff(d) \in Nat /\ Backoff(d) > 0
<1> DEFINE f == CASE d <= 1 -> 1 [] d = 2 -> 2 [] d = 3 -> 4 [] OTHER -> 8
           ms == ReprobeMin * f
<1>1. f \in {1, 2, 4, 8}
  OBVIOUS
<1>2. ms \in Nat /\ ms > 0
  <2> HIDE DEF f
  <2> QED BY <1>1, Periods
<1>3. Backoff(d) = IF ms > ReprobeMax THEN ReprobeMax ELSE ms
  BY DEF Backoff
<1> HIDE DEF ms
<1> QED BY <1>2, <1>3, Periods

\* enter_dual.
LEMMA EnterDualTimed ==
  ASSUME NEW q, NEW n \in Int, NEW t \in Int, t <= n, NEW why, Timed(q, n)
  PROVE  Timed(EnterDual(q, t, why), n) /\ EnterDual(q, t, why).ping = q.ping
  BY DEF Timed, EnterDual

\* lapse: the ping goes out with it.
LEMMA LapseTimed ==
  ASSUME NEW q, NEW n \in Int, NEW t \in Int, t <= n, NEW why, NEW since, Timed(q, n)
  PROVE  Timed(Lapse(q, t, why, since).p, n)
<1> DEFINE d == EnterDual(q, t, why)
<1>1. Timed(d, n)
  BY EnterDualTimed
<1>2. Lapse(q, t, why, since).p = [d EXCEPT !.lapse_from = since, !.ping = t]
  BY DEF Lapse, Ret
<1> HIDE DEF d
<1> QED BY <1>1, <1>2 DEF Timed

\* check_answer: no change, or a lapse.
LEMMA CheckAnswerTimed ==
  ASSUME NEW q, NEW n \in Int, NEW t \in Int, t <= n, Timed(q, n)
  PROVE  Timed(CheckAnswer(q, t).p, n)
  BY LapseTimed DEF CheckAnswer, Ret

\* wg_path_on_send.
LEMMA SendTimed ==
  ASSUME NEW q, NEW n \in Int, NEW t \in Int, t <= n, NEW data, Timed(q, n)
  PROVE  Timed(wg_path_on_send(q, t, data).p, n)
<1> DEFINE a == CheckAnswer(q, t)
           seen == IF a.p.ka > a.p.proof THEN a.p.ka ELSE a.p.proof
           idle == /\ a.p.mode = "DIRECT" /\ Due(t, seen, Answer)
                   /\ a.p.last_data = 0 \/ Due(t, a.p.last_data, Answer)
           b == IF idle THEN Lapse(a.p, t, "IDLE", seen) ELSE a
           r == b.p
           aw == IF (r.mode = "DIRECT" \/ InDoubt(r)) /\ r.await = 0 THEN t ELSE r.await
           lr == IF r.mode # "DIRECT" THEN t ELSE r.last_relay
           u == [r EXCEPT !.await = aw, !.last_relay = lr, !.last_data = t]
<1>1. Timed(a.p, n)
  BY CheckAnswerTimed
<1>2. Timed(r, n)
  <2> HIDE DEF a, seen, idle
  <2> QED BY <1>1, LapseTimed
<1>3. Timed(u, n)
  <2> HIDE DEF r, lr
  <2> QED BY <1>2 DEF Timed
<1>4. wg_path_on_send(q, t, data)
        = IF ~q.managed THEN Ret(q, {}) ELSE IF ~data THEN a ELSE Ret(u, a.act \cup b.act)
  BY DEF wg_path_on_send
<1> HIDE DEF a, b, r, u
<1> QED BY <1>1, <1>3, <1>4 DEF Ret

\* enter_relay: its first re-test lies ahead.
LEMMA EnterRelayTimed ==
  ASSUME NEW q, NEW n \in Int, NEW t \in Int, t <= n, NEW why, Timed(q, n)
  PROVE  /\ Timed(EnterRelay(q, t, why), n)
         /\ EnterRelay(q, t, why).mode = "RELAY" /\ EnterRelay(q, t, why).reprobe > t
<1> DEFINE m == NoCand(q)
           b == Backoff(q.doubts)
<1>1. Timed(m, n) /\ m.doubts = q.doubts
  BY DEF Timed, NoCand
<1>2. b \in Nat /\ b > 0
  BY BackoffPositive DEF Timed
<1>3. EnterRelay(q, t, why) = [m EXCEPT !.mode = "RELAY", !.why = why, !.since = t,
                                        !.reprobe_ms = b, !.reprobe = t + b]
  BY DEF EnterRelay
<1> HIDE DEF m, b
<1> QED BY <1>1, <1>2, <1>3 DEF Timed

\* The end of a doubt by silence.
LEMMA SilentTimed ==
  ASSUME NEW q, NEW n \in Int, NEW t \in Int, t <= n, Timed(q, n)
  PROVE  /\ Timed(Silent(q, t).p, n)
         /\ Silent(q, t).p.mode = "RELAY" /\ Silent(q, t).p.reprobe > t
<1> DEFINE e == EnterRelay(q, t, "SILENT")
           r == [e EXCEPT !.silent_streak = @ + 1]
<1>1. Timed(e, n) /\ e.mode = "RELAY" /\ e.reprobe > t
  BY EnterRelayTimed
<1>2. Timed(r, n) /\ r.mode = "RELAY" /\ r.reprobe > t
  <2> HIDE DEF e
  <2> QED BY <1>1 DEF Timed
<1>3. Silent(q, t).p = [r EXCEPT !.last_relay = t]
  BY DEF Silent, Rescue, Ret
<1> HIDE DEF r
<1> QED BY <1>2, <1>3 DEF Timed

\* A tick keeps the record timed, whenever its clock was read.
LEMMA TickTimed ==
  ASSUME NEW q, NEW n \in Int, NEW t \in Int, t <= n, Timed(q, n)
  PROVE  Timed(wg_path_tick(q, t).p, n)
<1>1. Timed(TickDoubt(q, t).p, n)
  <2> DEFINE test == q.test_at # 0 /\ t >= q.test_at
             r == IF test THEN [q EXCEPT !.test_at = 0] ELSE q
             a == IF test THEN {"TEST"} ELSE {}
  <2>1. Timed(r, n)
    BY DEF Timed
  <2>2. Timed(Silent(r, t).p, n)
    <3> HIDE DEF r
    <3> QED BY <2>1, SilentTimed
  <2>3. TickDoubt(q, t) \in {Ret(Silent(r, t).p, a \cup Silent(r, t).act), Ret(r, a)}
    BY DEF TickDoubt
  <2> HIDE DEF r, a
  <2> QED BY <2>1, <2>2, <2>3 DEF Ret
<1>2. Timed(TickDual(q, t).p, n)
  BY Periods DEF Timed, TickDual, Rescue, Ret
<1>3. Timed(TickRelay(q, t).p, n)
  BY Periods DEF Timed, TickRelay, Ret
<1>4. Timed(CheckAnswer(q, t).p, n) /\ Timed(Ret(q, {}).p, n)
  BY CheckAnswerTimed DEF Ret
<1> QED
  BY <1>1, <1>2, <1>3, <1>4 DEF wg_path_tick

\* Confirming the direct path.
LEMMA ConfirmTimed ==
  ASSUME NEW q, NEW n \in Int, NEW t \in Int, t <= n, Timed(q, n)
  PROVE  Timed(Confirm(q, t), n)
  BY DEF Timed, Confirm

\* The end of a doubt by a packet: DIRECT or a relay with a re-test ahead.
LEMMA ResolveTimed ==
  ASSUME NEW q, NEW n \in Int, NEW t \in Int, t <= n, Timed(q, n)
  PROVE  Timed(Resolve(q, t).p, n)
<1> DEFINE e == EnterRelay(q, t, "UNDELIVERED")
<1>1. Timed(Confirm(q, t), n) /\ Timed(e, n)
  BY ConfirmTimed, EnterRelayTimed
<1>2. Resolve(q, t).p \in {Confirm(q, t), [e EXCEPT !.last_relay = t]}
  BY DEF Resolve, Rescue, Ret
<1> HIDE DEF e
<1> QED BY <1>1, <1>2 DEF Timed

\* wg_path_on_keepalive.
LEMMA KeepaliveTimed ==
  ASSUME NEW q, NEW n \in Int, Timed(q, n)
  PROVE  Timed(wg_path_on_keepalive(q, n).p, n)
<1> DEFINE r == Heard(q, n)
           proves == q.last_relay = 0 \/ Due(n, q.last_relay, Answer)
           pf == IF proves THEN n ELSE r.proof
           db == IF proves THEN 0 ELSE r.doubts
           dl == IF proves /\ n - Answer > r.delivered THEN n - Answer ELSE r.delivered
           u == [r EXCEPT !.await = 0, !.ka = n, !.proof = pf, !.doubts = db, !.delivered = dl]
<1>1. Timed(r, n)
  BY DEF Timed, Heard
<1>2. Timed(Resolve(r, n).p, n)
  <2> HIDE DEF r
  <2> QED BY <1>1, ResolveTimed
<1>3. Timed(u, n)
  <2> HIDE DEF r, proves, pf, dl
  <2> QED BY <1>1 DEF Timed
<1>4. wg_path_on_keepalive(q, n) \in {Resolve(r, n), Ret(r, {}), Ret(u, {})}
  BY DEF wg_path_on_keepalive
<1> HIDE DEF r, u
<1> QED BY <1>1, <1>2, <1>3, <1>4 DEF Ret

\* wg_path_on_peer_data.
LEMMA PeerDataTimed ==
  ASSUME NEW q, NEW n \in Int, Timed(q, n)
  PROVE  Timed(wg_path_on_peer_data(q, n).p, n)
<1> DEFINE r == Heard(q, n)
           u == [r EXCEPT !.grace_used = TRUE, !.await = 0]
<1>1. Timed(r, n)
  BY DEF Timed, Heard
<1>2. Timed(Resolve(r, n).p, n) /\ Timed(u, n)
  <2> HIDE DEF r
  <2>1. Timed(Resolve(r, n).p, n)
    BY <1>1, ResolveTimed
  <2>2. Timed(u, n)
    BY <1>1 DEF Timed
  <2> QED BY <2>1, <2>2
<1>3. wg_path_on_peer_data(q, n) \in {Resolve(r, n), Ret(r, {}), Ret(u, {})}
  BY DEF wg_path_on_peer_data
<1> HIDE DEF r, u
<1> QED BY <1>1, <1>2, <1>3 DEF Ret

\* wg_path_on_handshake.
LEMMA HandshakeTimed ==
  ASSUME NEW q, NEW n \in Int, Timed(q, n)
  PROVE  Timed(wg_path_on_handshake(q, n).p, n)
<1> DEFINE r == [q EXCEPT !.hs = n, !.peer_wg = n, !.grace_used = FALSE]
           u == [r EXCEPT !.await = 0]
<1>1. Timed(r, n)
  BY DEF Timed
<1>2. Timed(Resolve(r, n).p, n) /\ Timed(u, n)
  <2> HIDE DEF r
  <2>1. Timed(Resolve(r, n).p, n)
    BY <1>1, ResolveTimed
  <2>2. Timed(u, n)
    BY <1>1 DEF Timed
  <2> QED BY <2>1, <2>2
<1>3. wg_path_on_handshake(q, n) \in {Resolve(r, n), Ret(r, {}), Ret(u, {})}
  BY DEF wg_path_on_handshake
<1> HIDE DEF r, u
<1> QED BY <1>1, <1>2, <1>3 DEF Ret

\* Changing fields the deadline does not read, one by one.
LEMMA OtherFieldsTimed ==
  ASSUME NEW q, NEW n \in Int, Timed(q, n), NEW x, NEW y
  PROVE  /\ Timed(NoCand(q), n) /\ Timed([q EXCEPT !.last_relay = x], n)
         /\ Timed([q EXCEPT !.rtt = x, !.rtt_at = y], n)
         /\ Timed([q EXCEPT !.cand = x], n)
<1>1. Timed(NoCand(q), n)
  BY DEF Timed, NoCand
<1>2. Timed([q EXCEPT !.last_relay = x], n)
  BY DEF Timed
<1>3. Timed([q EXCEPT !.rtt = x, !.rtt_at = y], n)
  BY DEF Timed
<1>4. Timed([q EXCEPT !.cand = x], n)
  BY DEF Timed
<1> QED BY <1>1, <1>2, <1>3, <1>4

\* wg_path_on_endpoint_change.
LEMMA EndpointChangeTimed ==
  ASSUME NEW q, NEW n \in Int, Timed(q, n)
  PROVE  Timed(wg_path_on_endpoint_change(q, n).p, n)
<1> DEFINE a == IF LapsePending(q) THEN Rescue(q, n, {}) ELSE Ret(q, {})
           d == EnterDual(a.p, n, "ENDPOINT")
           m == NoCand(d)
           u == [m EXCEPT !.ping = 0, !.proof = 0, !.rtt = 0, !.rtt_at = 0]
<1>1. Timed(a.p, n)
  BY OtherFieldsTimed, ZenonT(40) DEF Rescue, Ret
<1>2. Timed(d, n)
  <2> HIDE DEF a
  <2> QED BY <1>1, EnterDualTimed, SMTT(30)
<1>3. Timed(m, n)
  <2> HIDE DEF d
  <2> QED BY <1>2, OtherFieldsTimed, ZenonT(40)
<1>4. Timed(u, n)
  <2> HIDE DEF m
  <2> QED BY <1>3 DEF Timed
<1>5. wg_path_on_endpoint_change(q, n).p = u
  BY DEF wg_path_on_endpoint_change, Ret
<1> HIDE DEF u
<1> QED BY <1>4, <1>5, SMTT(30)

\* wg_path_on_pong, from the current endpoint.
LEMMA PongCurrentTimed ==
  ASSUME NEW q, NEW n \in Int, NEW rtt, Timed(q, n)
  PROVE  Timed(PongCurrent(q, n, rtt).p, n)
<1> DEFINE r == [q EXCEPT !.rtt = rtt, !.rtt_at = n]
           c == Confirm(r, n)
           m == [c EXCEPT !.rtt = q.cand.rtt, !.rtt_at = q.cand.at]
           nr == NoCand(r)
           at == IF q.silent_streak = 0 THEN n ELSE 0
           d == [nr EXCEPT !.doubts = @ + 1, !.why = "DOUBT", !.await = 0, !.test_at = at]
<1>1. Timed(r, n)
  BY OtherFieldsTimed, ZenonT(40)
<1>2. Timed(c, n) /\ Timed(nr, n)
  <2> HIDE DEF r
  <2>1. Timed(c, n)
    BY <1>1, ConfirmTimed, SMTT(30)
  <2>2. Timed(nr, n)
    BY <1>1, OtherFieldsTimed, ZenonT(40)
  <2> QED BY <2>1, <2>2
<1>3. Timed(m, n) /\ Timed(NoCand(c), n)
  <2> HIDE DEF c
  <2> QED BY <1>2, OtherFieldsTimed, ZenonT(40)
<1>4. Timed(NoCand(m), n)
  <2> HIDE DEF m
  <2> QED BY <1>3, OtherFieldsTimed, ZenonT(40)
<1>5. Timed(d, n)
  <2> HIDE DEF nr
  <2> QED BY <1>2 DEF Timed
<1>6. PongCurrent(q, n, rtt) \in
        {Ret(r, {}), Ret(nr, {}), Ret(d, {}), Ret(NoCand(m), {}), Ret(NoCand(c), {})}
  BY DEF PongCurrent
<1> HIDE DEF r, c, m, nr, d
<1> QED BY <1>1, <1>2, <1>3, <1>4, <1>5, <1>6, SMTT(30) DEF Ret

\* A pong of another endpoint.
LEMMA PongOtherTimed ==
  ASSUME NEW q, NEW n \in Int, NEW rtt, Timed(q, n)
  PROVE  Timed(PongOther(q, n, rtt).p, n)
<1> DEFINE a == IF LapsePending(q) THEN Rescue(q, n, {}) ELSE Ret(q, {})
           k == [q EXCEPT !.cand = [valid |-> TRUE, rtt |-> rtt, at |-> n]]
           b == [a.p EXCEPT !.rtt = rtt, !.rtt_at = n]
           c == Confirm(NoCand(b), n)
<1>1. Timed(a.p, n) /\ Timed(k, n)
  BY OtherFieldsTimed, ZenonT(40) DEF Rescue, Ret
<1>2. Timed(b, n)
  <2> HIDE DEF a
  <2> QED BY <1>1, OtherFieldsTimed, ZenonT(40)
<1>3. Timed(c, n)
  <2> HIDE DEF b
  <2>1. Timed(NoCand(b), n)
    BY <1>2, OtherFieldsTimed, ZenonT(40)
  <2> QED BY <2>1, ConfirmTimed, SMTT(30)
<1>4. PongOther(q, n, rtt) \in {Ret(q, {}), Ret(k, {}), Ret(c, a.act)}
  BY DEF PongOther
<1> HIDE DEF a, k, c
<1> QED BY <1>1, <1>3, <1>4, SMTT(30) DEF Ret

\* wg_path_set_managed.
LEMMA SetManagedTimed ==
  ASSUME NEW q, NEW n \in Int, NEW m, Timed(q, n)
  PROVE  Timed(wg_path_set_managed(q, n, m), n)
  BY DEF Timed, wg_path_set_managed, Start

\* The path starts timed.
LEMMA ClockStart == Init => ClockInv
  BY DEF Init, Start, ClockInv, Timed

\* Every operation, at the present or, for a tick, up to Lag before it, keeps
\* the record timed.
LEMMA ClockStep == ClockInv /\ [Next]_vars => ClockInv'
<1> SUFFICES ASSUME ClockInv, [Next]_vars PROVE ClockInv'
  OBVIOUS
<1>0. now \in Int /\ now <= now /\ Timed(p, now)
  BY DEF ClockInv
<1>1. ASSUME NEW e, NEW r, Do(e, r), Timed(r.p, now) PROVE ClockInv'
  BY <1>0, <1>1 DEF Do, ClockInv
<1>2. CASE Time
  BY <1>0, <1>2 DEF Time, ClockInv, Timed
<1>3. CASE UNCHANGED vars
  BY <1>0, <1>3 DEF vars, ClockInv
<1>4. ASSUME NEW data \in BOOLEAN, Send(data) PROVE ClockInv'
  BY <1>0, <1>1, <1>4, SendTimed DEF Send
<1>5. ASSUME NEW t \in now - Lag .. now, Tick(t) PROVE ClockInv'
  <2>1. t \in Int /\ t <= now
    BY <1>0, Periods
  <2> QED BY <1>0, <1>1, <1>5, <2>1, TickTimed DEF Tick
<1>6. CASE OnKeepalive
  BY <1>0, <1>1, <1>6, KeepaliveTimed DEF OnKeepalive
<1>7. CASE OnPeerData
  BY <1>0, <1>1, <1>7, PeerDataTimed DEF OnPeerData
<1>8. CASE OnHandshake
  BY <1>0, <1>1, <1>8, HandshakeTimed DEF OnHandshake
<1>9. CASE OnEndpointChange
  BY <1>0, <1>1, <1>9, EndpointChangeTimed DEF OnEndpointChange
<1>10. ASSUME NEW rtt \in Rtts, OnPong(rtt) PROVE ClockInv'
  BY <1>0, <1>1, <1>10, PongCurrentTimed DEF OnPong
<1>11. ASSUME NEW rtt \in Rtts, OnOtherPong(rtt) PROVE ClockInv'
  BY <1>0, <1>1, <1>11, PongOtherTimed DEF OnOtherPong
<1>12. ASSUME NEW m \in BOOLEAN, SetManaged(m) PROVE ClockInv'
  <2> DEFINE r == Ret(wg_path_set_managed(p, now, m), {})
  <2>1. Do("managed", r)
    BY <1>12 DEF SetManaged
  <2>2. Timed(r.p, now)
    BY <1>0, SetManagedTimed DEF Ret
  <2> HIDE DEF r
  <2> QED BY <1>1, <2>1, <2>2
<1> QED
  BY <1>2, <1>3, <1>4, <1>5, <1>6, <1>7, <1>8, <1>9, <1>10, <1>11, <1>12 DEF Next

\* wg_path_tick acts at an instant from n on exactly if the deadline has come.
LEMMA TickAtDeadline ==
  ASSUME NEW q, NEW n \in Int, Timed(q, n), NEW t \in n .. MaxTime + 1
  PROVE  (wg_path_tick(q, t) # Ret(q, {})) <=> t >= wg_path_next_deadline(q)
<1>0. t \in Int /\ n <= t /\ t < Never /\ Never \in Int
  BY Periods
<1>1. CASE ~q.managed
  BY <1>0, <1>1 DEF wg_path_tick, wg_path_next_deadline
<1>2. CASE q.managed /\ q.mode = "DIRECT"
  <2>1. wg_path_tick(q, t) = CheckAnswer(q, t) /\ wg_path_next_deadline(q) = AnswerAt(q)
    BY <1>2 DEF wg_path_tick, wg_path_next_deadline, InDoubt
  <2> QED BY <1>0, <1>2, <2>1, Periods
          DEF CheckAnswer, Lapse, Ret, AnswerAt, Due, DueAt, Timed
<1>3. CASE q.managed /\ InDoubt(q)
  <2> DEFINE test == q.test_at # 0 /\ t >= q.test_at
             late == q.await # 0 /\ Due(t, q.await, Answer)
             r == IF test THEN [q EXCEPT !.test_at = 0] ELSE q
             a == IF test THEN {"TEST"} ELSE {}
  <2>1. /\ wg_path_tick(q, t) = TickDoubt(q, t)
        /\ wg_path_next_deadline(q) = IF q.test_at # 0 THEN Least(q.test_at, AnswerAt(q))
                                      ELSE AnswerAt(q)
    BY <1>3 DEF wg_path_tick, wg_path_next_deadline, InDoubt
  <2>2. (t >= wg_path_next_deadline(q)) <=> test \/ late
    BY <1>0, <2>1, Periods DEF Least, AnswerAt, Due, DueAt, Timed
  <2>3. CASE late
    <3>1. "RESCUE" \in TickDoubt(q, t).act
      BY <2>3 DEF TickDoubt, Silent, Rescue, Ret
    <3> QED BY <2>1, <2>2, <2>3, <3>1 DEF Ret
  <2>4. CASE ~late
    <3>1. TickDoubt(q, t) = Ret(r, a)
      BY <2>4 DEF TickDoubt
    <3>2. (Ret(r, a) # Ret(q, {})) <=> test
      BY DEF Ret
    <3> QED BY <2>1, <2>2, <2>4, <3>1, <3>2
  <2> QED BY <2>3, <2>4
<1>4. CASE q.managed /\ q.mode = "RELAY"
  <2>1. /\ wg_path_tick(q, t) = TickRelay(q, t)
        /\ wg_path_next_deadline(q) = IF ReprobeLive(q) THEN q.reprobe ELSE Never
    BY <1>4 DEF wg_path_tick, wg_path_next_deadline, InDoubt
  <2> QED BY <1>0, <2>1 DEF TickRelay, Ret, Timed
<1>5. CASE q.managed /\ q.mode # "DIRECT" /\ ~InDoubt(q) /\ q.mode # "RELAY"
  <2>1. /\ wg_path_tick(q, t) = TickDual(q, t)
        /\ wg_path_next_deadline(q) = IF q.ping < q.since THEN q.since
                                      ELSE DueAt(q.ping, PingTimeout)
    BY <1>5 DEF wg_path_tick, wg_path_next_deadline
  <2> QED BY <1>0, <2>1, Periods DEF TickDual, Rescue, Ret, Due, DueAt, Timed
<1> QED BY <1>1, <1>2, <1>3, <1>4, <1>5

\* After a tick at t the deadline lies after t.
LEMMA DeadlineAfterTick ==
  ASSUME NEW q, NEW n \in Int, Timed(q, n), NEW t \in n .. MaxTime + 1
  PROVE  wg_path_next_deadline(wg_path_tick(q, t).p) > t
<1>0. t \in Int /\ n <= t /\ t < Never /\ Never \in Int
  BY Periods
<1>1. Timed(q, t)
  BY <1>0 DEF Timed
<1>2. CASE wg_path_tick(q, t) = Ret(q, {})
  <2>1. ~(t >= wg_path_next_deadline(q))
    BY <1>2, TickAtDeadline
  <2>2. wg_path_next_deadline(q) \in Int
    BY <1>0, Periods DEF wg_path_next_deadline, AnswerAt, DueAt, Least, Timed
  <2> QED BY <1>0, <1>2, <2>1, <2>2 DEF Ret
<1>3. ASSUME NEW u, u.mode = "RELAY", u.reprobe \in Int, u.reprobe > t
      PROVE  wg_path_next_deadline(u) > t
  BY <1>0, <1>3 DEF wg_path_next_deadline, InDoubt
<1>4. ASSUME NEW u, u.mode = "DUAL", u.why # "DOUBT", u.since \in Int, u.ping \in Int,
             u.since <= u.ping, u.ping >= t
      PROVE  wg_path_next_deadline(u) > t
  BY <1>0, <1>4, Periods DEF wg_path_next_deadline, InDoubt, DueAt
<1>5. CASE wg_path_tick(q, t) # Ret(q, {}) /\ q.mode = "DIRECT"
  <2> DEFINE d == EnterDual(q, t, "ANSWER")
  <2>1. wg_path_tick(q, t) = CheckAnswer(q, t)
    BY <1>5 DEF wg_path_tick, InDoubt
  <2>2. wg_path_tick(q, t) = Lapse(q, t, "ANSWER", q.await)
    BY <1>5, <2>1 DEF CheckAnswer
  <2>3. wg_path_tick(q, t).p = [d EXCEPT !.lapse_from = q.await, !.ping = t]
    BY <2>2 DEF Lapse, Ret
  <2>4. {"mode", "why", "since", "ping"} \subseteq DOMAIN d
        /\ d.mode = "DUAL" /\ d.why = "ANSWER" /\ d.since = t
    BY <1>1 DEF EnterDual, Timed
  <2>5. LET u == wg_path_tick(q, t).p
        IN  u.mode = "DUAL" /\ u.why = "ANSWER" /\ u.since = t /\ u.ping = t
    <3> HIDE DEF d
    <3> QED BY <2>3, <2>4
  <2> QED BY <1>0, <1>4, <2>5
<1>6. CASE wg_path_tick(q, t) # Ret(q, {}) /\ InDoubt(q)
  <2> DEFINE test == q.test_at # 0 /\ t >= q.test_at
             late == q.await # 0 /\ Due(t, q.await, Answer)
             r == IF test THEN [q EXCEPT !.test_at = 0] ELSE q
             a == IF test THEN {"TEST"} ELSE {}
  <2>0. Timed(r, t)
    BY <1>1 DEF Timed
  <2>1. wg_path_tick(q, t) = TickDoubt(q, t)
    BY <1>6 DEF wg_path_tick, InDoubt
  <2>2. CASE late
    <3>1. wg_path_tick(q, t).p = Silent(r, t).p
      BY <2>1, <2>2 DEF TickDoubt, Ret
    <3> HIDE DEF r
    <3>2. Timed(Silent(r, t).p, t) /\ Silent(r, t).p.mode = "RELAY" /\ Silent(r, t).p.reprobe > t
      BY <1>0, <2>0, SilentTimed
    <3> QED BY <1>3, <3>1, <3>2 DEF Timed
  <2>3. CASE ~late
    <3>1. wg_path_tick(q, t).p = r
      BY <2>1, <2>3 DEF TickDoubt, Ret
    <3>2. /\ r.mode = q.mode /\ r.why = q.why /\ r.await = q.await
          /\ r.test_at = 0 \/ (r.test_at \in Int /\ r.test_at > t)
      BY <1>0, <1>1 DEF Timed
    <3>3. AnswerAt(r) \in Int /\ AnswerAt(r) > t
      <4> HIDE DEF r
      <4> QED BY <1>0, <1>1, <2>3, <3>2, Periods DEF AnswerAt, Due, DueAt, Timed
    <3> HIDE DEF r
    <3>4. InDoubt(r)
      BY <1>6, <3>2 DEF InDoubt
    <3> QED BY <1>0, <3>1, <3>2, <3>3, <3>4 DEF wg_path_next_deadline, Least, InDoubt
  <2> QED BY <2>2, <2>3
<1>7. CASE wg_path_tick(q, t) # Ret(q, {}) /\ q.mode = "RELAY"
  <2> DEFINE ms == IF q.reprobe_ms * 2 > ReprobeMax THEN ReprobeMax ELSE q.reprobe_ms * 2
  <2>1. wg_path_tick(q, t).p = [q EXCEPT !.ping = t, !.reprobe_ms = ms, !.reprobe = t + ms]
    BY <1>7 DEF wg_path_tick, TickRelay, Ret, InDoubt
  <2>2. ms \in Nat /\ ms > 0
    BY <1>1, <1>7, Periods DEF Timed
  <2> HIDE DEF ms
  <2>3. LET u == wg_path_tick(q, t).p IN u.mode = "RELAY" /\ u.reprobe = t + ms
    BY <1>1, <1>7, <2>1 DEF Timed
  <2> QED BY <1>0, <1>3, <2>2, <2>3
<1>8. CASE /\ wg_path_tick(q, t) # Ret(q, {})
           /\ q.mode # "DIRECT" /\ ~InDoubt(q) /\ q.mode # "RELAY"
  <2>1. wg_path_tick(q, t) = TickDual(q, t)
    BY <1>8 DEF wg_path_tick
  <2>2. CASE q.ping < q.since
    <3>1. wg_path_tick(q, t).p = [q EXCEPT !.ping = IF t > q.since THEN t ELSE q.since]
      BY <2>1, <2>2 DEF TickDual, Ret
    <3>2. LET u == wg_path_tick(q, t).p
          IN  /\ u.mode = q.mode /\ u.why = q.why /\ u.since = q.since /\ u.ping = t
      BY <1>0, <1>1, <3>1 DEF Timed
    <3> QED BY <1>0, <1>1, <1>8, <3>2, Periods DEF wg_path_next_deadline, InDoubt, DueAt, Timed
  <2>3. CASE ~(q.ping < q.since)
    <3> DEFINE r == [q EXCEPT !.mode = "RELAY", !.since = t, !.reprobe_ms = ReprobeMin,
                              !.reprobe = t + ReprobeMin]
    <3>1. wg_path_tick(q, t).p \in {r, [r EXCEPT !.last_relay = t]}
      BY <1>8, <2>1, <2>3 DEF TickDual, Rescue, Ret
    <3>2. LET u == wg_path_tick(q, t).p IN u.mode = "RELAY" /\ u.reprobe = t + ReprobeMin
      BY <1>1, <3>1, ZenonT(40) DEF Timed
    <3> QED BY <1>0, <1>3, <3>2, Periods
  <2> QED BY <2>2, <2>3
<1> QED BY <1>2, <1>5, <1>6, <1>7, <1>8

-----------------------------------------------------------------------------
(* No lapse of the direct path is forgotten (LapseSettled): whatever the    *)
(* order of sends, ticks, pongs and packets, wg_path.h leaves a lapse only  *)
(* by an answer that counts or with WG_PATH_ACT_RESCUE.                     *)
THEOREM LapseNeverForgotten == Spec => []LapseSettled
<1>1. PathInv => LapseSettled
  BY DEF PathInv
<1> QED
  BY <1>1, InitOk, NextOk, PTL DEF Spec

(* WG_PATH_ACT_REKEY is asked for at most once while the peer is silent     *)
(* (OneRekeyPerSilence), however often the direct path comes and goes.      *)
THEOREM RekeyOncePerSilence == Spec => []OneRekeyPerSilence
<1>1. PathInv => OneRekeyPerSilence
  BY DEF PathInv, SilenceCounted, OneRekeyPerSilence
<1> QED
  BY <1>1, InitOk, NextOk, PTL DEF Spec

(* The RX task's sleep is exact (DeadlineExact): wg_path_next_deadline is    *)
(* the first instant at which wg_path_tick acts, and after any tick, however *)
(* late, it lies ahead; for every period, lag and order of events.           *)
THEOREM DeadlineAlwaysExact == Spec => []DeadlineExact
<1>1. ClockInv => DeadlineExact
  BY TickAtDeadline, DeadlineAfterTick DEF ClockInv, DeadlineExact, DeadlineAgrees, DeadlineAhead
<1> QED
  BY <1>1, ClockStart, ClockStep, PTL DEF Spec
=============================================================================
