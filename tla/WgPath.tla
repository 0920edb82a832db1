------------------------------- MODULE WgPath -------------------------------
(***************************************************************************)
(* Path selection for the peer's data (wg_path.h): which way the next      *)
(* frame goes - direct, direct and relay (DUAL), or relay only - when to   *)
(* ping, when a lapse of the direct path is confirmed and its frames are   *)
(* re-sent.  Every function is an operator on the path record that returns *)
(* the new record and the set of actions it asks for (WG_PATH_ACT_...).    *)
(* The events come in any order at any time.  A round-trip time stands for *)
(* an endpoint's quality (a private address counts as a shorter one);      *)
(* counters kept for the log and the INIT's hold are left out.             *)
(***************************************************************************)
EXTENDS Integers

CONSTANTS
  Keepalive,   \* WG_PATH_KEEPALIVE_TIMEOUT_MS
  Slack,       \* WG_PATH_ANSWER_SLACK_MS
  PingTimeout, \* WG_PATH_PING_TIMEOUT_MS
  Active,      \* WG_PATH_ACTIVE_MS
  ReprobeMin, ReprobeMax,
  Trust,       \* WG_PATH_TRUST_MS
  Round,       \* WG_PATH_ROUND_MS
  Rtts,        \* round-trip times
  BetterMin,   \* the gain wg_path_better asks for
  Lag,         \* how far the clock a tick was given may be behind
  MaxTime      \* bound: the clock

ASSUME PathAssumption ==
  /\ {Keepalive, Slack, PingTimeout, Active, ReprobeMin, ReprobeMax, Trust, Round,
      BetterMin, Lag, MaxTime} \subseteq Nat
  /\ ReprobeMin > 0 /\ ReprobeMin <= ReprobeMax /\ Rtts \subseteq Nat /\ Rtts # {}

VARIABLES
  now,
  p,         \* g.path
  unsettled, \* history: a lapse neither answered nor followed by a re-send
  rekeys     \* history: rekeys asked for since the peer was last heard (or its
             \* DiscoKey came or went)

vars == <<now, p, unsettled, rekeys>>

Answer == Keepalive + Slack
Never == MaxTime + Answer + PingTimeout + Active + ReprobeMax + 2  \* INT64_MAX

(* wg_timers.h                                                             *)
Due(t, since, period) == t - since > period
DueAt(since, period) == since + period + 1

Ret(q, a) == [p |-> q, act |-> a]
LapsePending(q) == q.mode = "DUAL" /\ q.why \in {"ANSWER", "IDLE", "DOUBT"}
InDoubt(q) == q.mode = "DUAL" /\ q.why = "DOUBT"

(* wg_path_init; 0 is "none" for an instant.                               *)
Start(t, managed) ==
  [managed |-> managed, mode |-> "DUAL", why |-> "START", since |-> t, proof |-> 0,
   ka |-> 0, await |-> 0, last_data |-> 0, last_relay |-> 0, hs |-> 0, peer_wg |-> 0,
   lapse_from |-> 0, test_at |-> 0, delivered |-> 0, doubts |-> 0,
   silent_streak |-> 0, grace_used |-> FALSE, ping |-> 0, reprobe |-> 0, reprobe_ms |-> 0,
   rtt |-> 0, rtt_at |-> 0, cand |-> [valid |-> FALSE, rtt |-> 0, at |-> 0]]

NoCand(q) == [q EXCEPT !.cand.valid = FALSE]

wg_path_set_managed(q, t, managed) ==
  IF q.managed = managed THEN q
  ELSE IF managed THEN Start(t, TRUE) ELSE [q EXCEPT !.managed = FALSE]

wg_path_valid(q, t) == q.mode = "DIRECT" /\ q.proof # 0 /\ ~Due(t, q.proof, Trust)

EnterDual(q, t, why) ==
  [q EXCEPT !.mode = "DUAL", !.why = why, !.since = t, !.await = 0, !.reprobe_ms = 0]

Lapse(q, t, why, since) ==
  Ret([EnterDual(q, t, why) EXCEPT !.lapse_from = since, !.ping = t], {"PING"})

CheckAnswer(q, t) ==
  IF q.mode = "DIRECT" /\ q.await # 0 /\ Due(t, q.await, Answer)
  THEN Lapse(q, t, "ANSWER", q.await) ELSE Ret(q, {})

(* A transport frame is about to go out.                                   *)
wg_path_on_send(q, t, data) ==
  IF ~q.managed THEN Ret(q, {})
  ELSE LET a == CheckAnswer(q, t)
           seen == IF a.p.ka > a.p.proof THEN a.p.ka ELSE a.p.proof
           idle == /\ a.p.mode = "DIRECT" /\ Due(t, seen, Answer)
                   /\ a.p.last_data = 0 \/ Due(t, a.p.last_data, Answer)
           b == IF idle THEN Lapse(a.p, t, "IDLE", seen) ELSE a
           r == b.p
       IN IF ~data THEN a
          ELSE Ret([r EXCEPT
                 !.await = IF (r.mode = "DIRECT" \/ InDoubt(r)) /\ @ = 0 THEN t ELSE @,
                 !.last_relay = IF r.mode # "DIRECT" THEN t ELSE @,
                 !.last_data = t], a.act \cup b.act)

ReprobeLive(q) == q.last_data # 0 /\ q.reprobe <= q.last_data + Active
Rescue(q, t, more) == Ret([q EXCEPT !.last_relay = t], more \cup {"RESCUE"})

\* Back-off of the re-test: doubled with the doubts, from the second on.
Backoff(doubts) ==
  LET ms == ReprobeMin * (CASE doubts <= 1 -> 1 [] doubts = 2 -> 2
                            [] doubts = 3 -> 4 [] OTHER -> 8)
  IN IF ms > ReprobeMax THEN ReprobeMax ELSE ms

EnterRelay(q, t, why) ==
  [NoCand(q) EXCEPT !.mode = "RELAY", !.why = why, !.since = t,
                    !.reprobe_ms = Backoff(q.doubts), !.reprobe = t + Backoff(q.doubts)]

(* The silent streak saturates at 255 in the code.                         *)
Silent(q, t) ==
  Rescue([EnterRelay(q, t, "SILENT") EXCEPT !.silent_streak = @ + 1], t,
         IF q.silent_streak = 0 THEN {"REKEY"} ELSE {})

Confirm(q, t) ==
  IF q.mode = "DIRECT" THEN [q EXCEPT !.proof = t]
  ELSE [q EXCEPT !.mode = "DIRECT", !.since = t, !.reprobe_ms = 0, !.await = 0, !.proof = t]

\* Mutant: a doubt that ends for the second time re-sends nothing.
ResolveQuietly(q, t) ==
  IF q.doubts < 2 THEN Ret(Confirm(q, t), {}) ELSE Ret(EnterRelay(q, t, "UNDELIVERED"), {})

(* A WireGuard packet ends a doubt.                                        *)
Resolve(q, t) ==
  IF q.doubts < 2 THEN Ret(Confirm(q, t), {})
  ELSE Rescue(EnterRelay(q, t, "UNDELIVERED"), t, {})

-----------------------------------------------------------------------------
(* wg_path_tick, by mode.                                                  *)
TickDoubt(q, t) ==
  LET test == q.test_at # 0 /\ t >= q.test_at
      r == IF test THEN [q EXCEPT !.test_at = 0] ELSE q
      a == IF test THEN {"TEST"} ELSE {}
  IN IF q.await # 0 /\ Due(t, q.await, Answer)
     THEN Ret(Silent(r, t).p, a \cup Silent(r, t).act) ELSE Ret(r, a)

TickDual(q, t) ==
  IF q.ping < q.since
  THEN Ret([q EXCEPT !.ping = IF t > q.since THEN t ELSE q.since], {"PING"})
  ELSE IF Due(t, q.ping, PingTimeout)
  THEN LET r == [q EXCEPT !.mode = "RELAY", !.since = t, !.reprobe_ms = ReprobeMin,
                          !.reprobe = t + ReprobeMin]
       IN IF LapsePending(q) THEN Rescue(r, t, {"PROBE"}) ELSE Ret(r, {"PROBE"})
  ELSE Ret(q, {})

\* Mutant: the activity is judged at the wake, not at the deadline.
TickRelayAtWake(q, t) ==
  LET ms == IF q.reprobe_ms * 2 > ReprobeMax THEN ReprobeMax ELSE q.reprobe_ms * 2
  IN IF q.last_data # 0 /\ t <= q.last_data + Active /\ t >= q.reprobe
     THEN Ret([q EXCEPT !.ping = t, !.reprobe_ms = ms, !.reprobe = t + ms], {"PING", "PROBE"})
     ELSE Ret(q, {})

TickRelay(q, t) ==
  LET ms == IF q.reprobe_ms * 2 > ReprobeMax THEN ReprobeMax ELSE q.reprobe_ms * 2
  IN IF ReprobeLive(q) /\ t >= q.reprobe
     THEN Ret([q EXCEPT !.ping = t, !.reprobe_ms = ms, !.reprobe = t + ms], {"PING", "PROBE"})
     ELSE Ret(q, {})

wg_path_tick(q, t) ==
  IF ~q.managed THEN Ret(q, {})
  ELSE CASE q.mode = "DIRECT" -> CheckAnswer(q, t)
         [] InDoubt(q)        -> TickDoubt(q, t)
         [] q.mode = "RELAY"  -> TickRelay(q, t)
         [] OTHER             -> TickDual(q, t)

Least(a, b) == IF a < b THEN a ELSE b
AnswerAt(q) == IF q.await # 0 THEN DueAt(q.await, Answer) ELSE Never

wg_path_next_deadline(q) ==
  IF ~q.managed THEN Never
  ELSE CASE q.mode = "DIRECT" -> AnswerAt(q)
         [] InDoubt(q)        -> IF q.test_at # 0 THEN Least(q.test_at, AnswerAt(q))
                                 ELSE AnswerAt(q)
         [] q.mode = "RELAY"  -> IF ReprobeLive(q) THEN q.reprobe ELSE Never
         [] OTHER -> IF q.ping < q.since THEN q.since ELSE DueAt(q.ping, PingTimeout)

-----------------------------------------------------------------------------
(* Packets of the peer.                                                    *)
Heard(q, t) == [q EXCEPT !.peer_wg = t, !.silent_streak = 0]

wg_path_on_keepalive(q, t) ==
  LET r == Heard(q, t)
      proves == q.last_relay = 0 \/ Due(t, q.last_relay, Answer)
  IN IF InDoubt(q) THEN Resolve(r, t)
     ELSE IF q.mode # "DIRECT" THEN Ret(r, {})
     ELSE Ret([r EXCEPT !.await = 0, !.ka = t,
                        !.proof = IF proves THEN t ELSE @,
                        !.doubts = IF proves THEN 0 ELSE @,
                        !.delivered = IF proves /\ t - Answer > @ THEN t - Answer ELSE @], {})

wg_path_on_peer_data(q, t) ==
  LET r == Heard(q, t)
      grace == q.mode = "DIRECT" /\ q.hs # 0 /\ ~q.grace_used /\ ~Due(t, q.hs, Answer)
  IN IF InDoubt(q) THEN Resolve(r, t)
     ELSE Ret(IF grace THEN [r EXCEPT !.grace_used = TRUE, !.await = 0] ELSE r, {})

wg_path_on_handshake(q, t) ==
  LET r == [q EXCEPT !.hs = t, !.peer_wg = t, !.grace_used = FALSE]
  IN IF InDoubt(q) THEN Resolve(r, t)
     ELSE Ret(IF q.mode = "DIRECT" THEN [r EXCEPT !.await = 0] ELSE r, {})

wg_path_on_endpoint_change(q, t) ==
  LET a == IF LapsePending(q) THEN Rescue(q, t, {}) ELSE Ret(q, {})
  IN Ret([NoCand(EnterDual(a.p, t, "ENDPOINT")) EXCEPT
            !.ping = 0, !.proof = 0, !.rtt = 0, !.rtt_at = 0], a.act)

RetestHold(q, t) ==
  /\ q.mode = "RELAY" /\ q.why \in {"SILENT", "UNDELIVERED"}
  /\ ~(q.ping >= q.since /\ ~Due(t, q.ping, PingTimeout))

wg_path_better(a, b) == a + BetterMin < b

(* wg_path_on_pong, from the current endpoint (the lapse's answer with     *)
(* WireGuard silent since the frame: DOUBT) ...                            *)
PongCurrent(q, t, rtt) ==
  LET r == [q EXCEPT !.rtt = rtt, !.rtt_at = t]
      c == Confirm(r, t)
      moves == q.cand.valid /\ ~Due(t, q.cand.at, Round) /\ wg_path_better(q.cand.rtt, rtt)
  IN IF RetestHold(q, t) THEN Ret(r, {})
     ELSE IF InDoubt(q) THEN Ret(NoCand(r), {})
     ELSE IF q.mode = "DUAL" /\ q.why = "ANSWER" /\ q.peer_wg < q.lapse_from
     THEN Ret([NoCand(r) EXCEPT !.doubts = @ + 1, !.why = "DOUBT", !.await = 0,
                                !.test_at = IF q.silent_streak = 0 THEN t ELSE 0], {})
     ELSE Ret(NoCand(IF moves THEN [c EXCEPT !.rtt = q.cand.rtt, !.rtt_at = q.cand.at]
                     ELSE c), {})

(* ... and from another one: taken, or kept as the round's candidate.      *)
PongOther(q, t, rtt) ==
  LET take == \/ ~wg_path_valid(q, t) /\ ~InDoubt(q)
              \/ q.rtt_at # 0 /\ ~Due(t, q.rtt_at, Round) /\ wg_path_better(rtt, q.rtt)
      a == IF LapsePending(q) THEN Rescue(q, t, {}) ELSE Ret(q, {})
      best == ~q.cand.valid \/ Due(t, q.cand.at, Round) \/ rtt < q.cand.rtt
  IN IF RetestHold(q, t) THEN Ret(q, {})
     ELSE IF take
     THEN Ret(Confirm(NoCand([a.p EXCEPT !.rtt = rtt, !.rtt_at = t]), t), a.act)
     ELSE Ret(IF best THEN [q EXCEPT !.cand = [valid |-> TRUE, rtt |-> rtt, at |-> t]]
              ELSE q, {})

-----------------------------------------------------------------------------
Init ==
  /\ now = 1 /\ \E m \in BOOLEAN : p = Start(1, m)
  /\ unsettled = FALSE /\ rekeys = 0

WgEvents == {"keepalive", "data", "handshake"}

\* What settles a lapse: a re-send; DIRECT again on an answer of the current
\* endpoint or, once in doubt, of WireGuard; or a change of the DiscoKey.
Settles(e, r) ==
  \/ "RESCUE" \in r.act \/ e = "managed"
  \/ r.p.mode = "DIRECT" /\ (e = "pong" \/ (InDoubt(p) /\ e \in WgEvents))

(* An operation of the netif on the path, under g.lock.                    *)
Do(e, r) ==
  /\ p' = r.p
  /\ unsettled' = (LapsePending(r.p) \/ (unsettled /\ ~Settles(e, r)))
  /\ rekeys' = IF e \in {"keepalive", "data", "managed"} THEN 0
               ELSE IF "REKEY" \in r.act THEN rekeys + 1 ELSE rekeys
  /\ UNCHANGED now

Time ==
  /\ now < MaxTime
  /\ now' = now + 1
  /\ UNCHANGED <<p, unsettled, rekeys>>

Send(data) == Do("send", wg_path_on_send(p, now, data))
\* The clock may have been read before another task took the lock.
Tick(t) == Do("tick", wg_path_tick(p, t))
OnKeepalive == Do("keepalive", wg_path_on_keepalive(p, now))
OnPeerData == Do("data", wg_path_on_peer_data(p, now))
OnHandshake == Do("handshake", wg_path_on_handshake(p, now))
OnEndpointChange == Do("endpoint", wg_path_on_endpoint_change(p, now))
\* A pong answers a ping of a peer with a DiscoKey.
OnPong(rtt) == p.managed /\ Do("pong", PongCurrent(p, now, rtt))
OnOtherPong(rtt) == p.managed /\ Do("other", PongOther(p, now, rtt))
SetManaged(m) ==
  p.managed # m /\ Do("managed", Ret(wg_path_set_managed(p, now, m), {}))

Next ==
  \/ Time
  \/ \E data \in BOOLEAN : Send(data)
  \/ \E t \in now - Lag .. now : Tick(t)
  \/ OnKeepalive \/ OnPeerData \/ OnHandshake \/ OnEndpointChange
  \/ \E rtt \in Rtts : OnPong(rtt) \/ OnOtherPong(rtt)
  \/ \E m \in BOOLEAN : SetManaged(m)

Spec == Init /\ [][Next]_vars

-----------------------------------------------------------------------------
Instants == {p.since, p.proof, p.ka, p.await, p.last_data, p.last_relay, p.hs, p.peer_wg,
             p.lapse_from, p.test_at, p.ping, p.rtt_at, p.cand.at}

TypeOK ==
  /\ p.mode \in {"DUAL", "DIRECT", "RELAY"} /\ p.managed \in BOOLEAN
  /\ p.why \in {"START", "ANSWER", "IDLE", "ENDPOINT", "DOUBT", "SILENT", "UNDELIVERED"}
  /\ \A i \in Instants : i \in 0 .. now
  /\ p.reprobe \in 0 .. now + ReprobeMax /\ p.reprobe_ms \in 0 .. ReprobeMax
  /\ p.delivered \in 0 .. now

\* wg_path_next_deadline is the earliest instant wg_path_tick acts: a task
\* that sleeps until it misses nothing and is never woken for nothing.
DeadlineAgrees ==
  \A t \in now .. MaxTime + 1 :
    (wg_path_tick(p, t) # Ret(p, {})) <=> t >= wg_path_next_deadline(p)

\* After any tick, however late, the deadline lies ahead: the task that
\* waits for it does not spin.
DeadlineAhead ==
  \A t \in now .. MaxTime + 1 : wg_path_next_deadline(wg_path_tick(p, t).p) > t

\* The sleep of rx_task mirrors wg_path_tick exactly: no timer is missed,
\* and none is in the past.
DeadlineExact == DeadlineAgrees /\ DeadlineAhead

\* SILENT asks for a rekey once per silence of the peer, however often the
\* direct path is found again and lost again in between.
OneRekeyPerSilence == rekeys <= 1

\* No lapse is forgotten: it is settled by an answer of the current endpoint
\* or, once in doubt, by a WireGuard packet - or what the direct path may
\* have eaten is re-sent (WG_PATH_ACT_RESCUE).
LapseSettled == unsettled => LapsePending(p)
=============================================================================
