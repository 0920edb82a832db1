---------------------------- MODULE WgHandshake ----------------------------
(***************************************************************************)
(* The WireGuard handshake of wg_netif.c: the INIT of the attempt in       *)
(* flight, its retries, re-sends and replacements, the response that       *)
(* installs the keys, the timer blocks of rx_task and the deadline its     *)
(* next receive waits for.  Tasks: wg_rx (rx_task), the DERP task          *)
(* (relayed responses, login and call-me-maybe kicks), the long-poll task  *)
(* (start, abort, peer key and endpoint updates) and the application.      *)
(*                                                                         *)
(* A stamp of the code is kept as its age, in ticks, saturated one tick    *)
(* past the longest period it is compared with; Never is the stamp 0 (or   *)
(* one that back-dating made non-positive).  A negative age is a stamp in  *)
(* the future.  An INIT is known by its sender index; the TAI64N stamps    *)
(* increase from one INIT to the next (module TaiFloor), so the responder  *)
(* takes an INIT unless it took that one or a later one before.  A         *)
(* response, and the keypair it makes, is known by the INIT it answers and *)
(* the incarnation of the responder that answered.                         *)
(***************************************************************************)
EXTENDS Integers, Sequences, FiniteSets, FiniteSetsExt

CONSTANTS FirstRetry,    \* WG_FIRST_RETRY_MS
          RekeyTimeout,  \* WG_REKEY_TIMEOUT_MS, also the cap of one RX wait
          MaxRetries,    \* WG_HANDSHAKE_MAX_RETRIES
          HandBackoff,   \* WG_HANDSHAKE_BACKOFF_MS
          FreshAfter,    \* WG_INIT_FRESH_AFTER_MS
          RekeyAfter,    \* WG_REKEY_AFTER_MS
          StaleAfter,    \* WG_RX_STALE_THRESHOLD_MS
          Cooldown,      \* WG_PATH_PROBE_COOLDOWN_MS
          KeepaliveEvery,\* WG_PERSISTENT_KEEPALIVE_MS
          Faults,        \* kinds of fault the run injects
          MaxFaults      \* how many of them

\* The periods of wg_netif.c: a wait of the RX task lasts, a burst has a try,
\* and its first retry comes no later than the others.
ASSUME HandshakeConstants ==
    /\ {FirstRetry, RekeyTimeout, MaxRetries, HandBackoff, FreshAfter, RekeyAfter,
        StaleAfter, Cooldown, KeepaliveEvery, MaxFaults} \subseteq Nat
    /\ FirstRetry <= RekeyTimeout /\ RekeyTimeout >= 1 /\ MaxRetries >= 1

VARIABLES g,     \* the handshake fields of wg_netif's state
          rx,    \* the RX task: where it is, the ticks left of its wait
          wire,  \* INITs on their way that the peer would still take, oldest first
          resps, \* responses on their way
          peer,  \* the responder
          env    \* link, relay login, direct path, budgets

vars == <<g, rx, wire, resps, peer, env>>

\* Past every age that is kept.
Never == RekeyTimeout + RekeyAfter + StaleAfter + Cooldown + KeepaliveEvery + 3
Index == 1..17           \* fresh_local_index: never one still known to anyone
NoIndex == 0
MaxWait == RekeyTimeout  \* WG_RX_MAX_WAIT_MS
UptimeCap == StaleAfter + 2

States == {"idle", "pending", "up"}

Init ==
    /\ g = [state |-> "idle", attempt |-> 0, rekey_in_flight |-> FALSE,
            rekey_attempt |-> 0, init_valid |-> FALSE, local_index |-> NoIndex,
            replaced_index |-> NoIndex, armed |-> NoIndex, session |-> NoIndex,
            epoch |-> 0, peer_key |-> 0, hs |-> 0, completed |-> Never, recv |-> Never,
            probe |-> 0, tx |-> Never, link_up_pending |-> FALSE]
    /\ rx = [pc |-> "none", wait |-> 0]
    /\ wire = <<>>
    /\ resps = {}
    /\ peer = [key |-> 0, epoch |-> 0, consumed |-> NoIndex, current |-> NoIndex, next |-> NoIndex]
    /\ env \in [link : {TRUE}, relay : BOOLEAN, direct : BOOLEAN, valid : {FALSE},
                kick : {FALSE}, uptime : {0}, faults : {MaxFaults}]
    /\ ~(env.relay /\ env.direct)

Fault(kind) == kind \in Faults /\ env.faults > 0

Spent == [env EXCEPT !.faults = @ - 1]

-----------------------------------------------------------------------------
(* Timers: wg_timer_due and wg_timer_at on ages.                           *)

due(age, period) == age # Never /\ age > period

at(age, period) == period + 1 - age

handshake_pending(s) == s.state = "pending" \/ (s.state = "up" /\ s.rekey_in_flight)

handshake_retry(s) ==
    IF s.state = "pending" /\ s.attempt = 1 THEN FirstRetry ELSE RekeyTimeout

\* The guards of rx_task's timer blocks, in their order.
cold_due(s) == s.state = "pending" /\ due(s.hs, handshake_retry(s))

age_due(s) == s.state = "up" /\ ~s.rekey_in_flight /\ due(s.completed, RekeyAfter)

probe_due(s) == s.state \in {"up", "pending"} /\ due(s.recv, StaleAfter)
                                              /\ due(s.probe, Cooldown)

stale_due(s) == s.state = "up" /\ ~s.rekey_in_flight /\ due(s.recv, StaleAfter)

retry_due(s) == s.rekey_in_flight /\ due(s.hs, RekeyTimeout)

keepalive_due(s) == s.state = "up" /\ due(s.tx, KeepaliveEvery)

some_block_due(s) == \/ cold_due(s) \/ age_due(s) \/ probe_due(s) \/ stale_due(s)
                     \/ retry_due(s) \/ keepalive_due(s)

\* The deadlines rx_next_deadline_us takes the least of, in ticks from now.
deadlines_SkipsCooldown(s) ==
    LET armed(on, d) == IF on THEN {d} ELSE {}
        up  == s.state = "up"
    IN  armed(s.state = "pending" \/ s.rekey_in_flight, at(s.hs, handshake_retry(s)))
        \cup armed(up /\ ~s.rekey_in_flight /\ s.completed # Never,
                   at(s.completed, RekeyAfter))
        \cup armed(s.state \in {"up", "pending"} /\ s.recv # Never,
                   at(s.recv, StaleAfter))
        \cup armed(up /\ s.tx # Never, at(s.tx, KeepaliveEvery))

deadlines(s) ==
    LET armed(on, d) == IF on THEN {d} ELSE {}
        up  == s.state = "up"
    IN  armed(s.state = "pending" \/ s.rekey_in_flight, at(s.hs, handshake_retry(s)))
        \cup armed(up /\ ~s.rekey_in_flight /\ s.completed # Never,
                   at(s.completed, RekeyAfter))
        \cup armed(up /\ ~s.rekey_in_flight /\ s.recv # Never, at(s.recv, StaleAfter))
        \cup armed(s.state \in {"up", "pending"} /\ s.recv # Never,
                   Max({at(s.recv, StaleAfter), at(s.probe, Cooldown)}))
        \cup armed(up /\ s.tx # Never, at(s.tx, KeepaliveEvery))

plan_wait_Longer(s) == Max({1, Min(deadlines(s) \cup {MaxWait + 2})})

\* rx_plan_wait_ms: never 0, never more than the cap.
plan_wait(s) == Max({1, Min(deadlines(s) \cup {MaxWait})})

-----------------------------------------------------------------------------
(* INITs.  The operators take and return the pair of g and wire.           *)

used == {g.local_index, g.replaced_index, g.armed, g.session, peer.consumed,
         peer.current, peer.next} \cup {r.init : r \in resps} \cup Range(wire)

\* An index of the pool that nobody holds (w: the pair so far).
fresh_local_index(w) ==
    CHOOSE i \in Index :
        i \notin used \cup Range(w.wire) \cup {w.g.local_index, w.g.replaced_index}

\* A copy of the INIT leaves: it can still be taken by the peer if a path
\* carries it, it is sealed to the peer's key and the peer has not taken it.
\* At most the two newest INITs are on their way.
copy_sent(w, direct, relay) ==
    LET goes == /\ env.link /\ ((direct /\ env.direct) \/ (relay /\ env.relay))
                /\ w.g.peer_key = peer.key
                /\ w.g.local_index # peer.consumed
                /\ w.g.local_index \notin Range(w.wire)
        q == Append(w.wire, w.g.local_index)
    IN  [w EXCEPT !.wire = IF ~goes THEN @ ELSE IF Len(q) > 2 THEN Tail(q) ELSE q]

\* send_to_peer: with no route the send fails and back-dates the clocks the
\* path-stale probe looks at.
send_direct(w) ==
    IF env.link THEN copy_sent(w, TRUE, FALSE)
    ELSE [w EXCEPT !.g.recv = IF env.uptime > StaleAfter + 1 THEN StaleAfter + 1 ELSE Never,
                   !.g.probe = Min({env.uptime, Cooldown + 1})]

\* init_queue_relay: the copy is queued for wg_tx; the relay refuses it when
\* it is not logged in.
queue_relay(w) == copy_sent(w, FALSE, TRUE)

\* wg_handshake_init and wg_handshake_create_initiation: the Noise state of
\* the last INIT goes; `how` "fail" is a build that failed (no key pair).
create_initiation(w, how) ==
    LET i == fresh_local_index(w)
    IN  [w EXCEPT !.g.local_index = i, !.g.armed = IF how = "fail" THEN NoIndex ELSE i,
                  !.g.init_valid = how # "fail"]

\* build_and_send_init.  `how`: "hold" is init_derp_only's answer (modules
\* WgRescue and WgTxRing), possible only for a rekey with the relay up.
build_and_send_init(w, how) ==
    LET stamped  == [w EXCEPT !.g.hs = 0,
                              !.g.replaced_index =
                                  IF w.g.init_valid THEN w.g.local_index ELSE @,
                              !.g.init_valid = FALSE]
        built    == create_initiation(stamped, how)
        direct   == send_direct(built)
    IN  CASE how = "fail" -> built
          [] how = "hold" /\ w.g.state = "up" /\ env.relay -> queue_relay(built)
          [] OTHER -> IF env.valid THEN direct ELSE queue_relay(direct)

\* init_resend: the same INIT again, unless a path carried it a moment ago
\* (WG_INIT_RESEND_MIN_MS: here, the tick it was built in) and the relay did
\* not just come up.
init_resend(w, direct, relay, force, how) ==
    LET hold  == how = "hold" /\ w.g.state = "up" /\ env.relay
        again == w.g.hs # 0
        d == IF direct /\ ~hold /\ again THEN send_direct(w) ELSE w
    IN  IF ~w.g.init_valid \/ ~handshake_pending(w.g) THEN w
        ELSE IF (relay \/ hold) /\ (force \/ again) THEN queue_relay(d) ELSE d

\* The attempts are compared with 1 and with MaxRetries only.
one_more(n) == Min({n + 1, MaxRetries})

kick_off_handshake(w, how) ==
    LET b == build_and_send_init([w EXCEPT !.g.state = "pending"], how)
    IN  [b EXCEPT !.g.attempt = one_more(@)]

start_rekey(w, how) ==
    LET b == build_and_send_init(w, how)
    IN  [b EXCEPT !.g.rekey_attempt = one_more(@), !.g.rekey_in_flight = TRUE]

init_refresh_or_resend(w, direct, relay, force, how) ==
    IF ~w.g.init_valid \/ ~handshake_pending(w.g) THEN w
    ELSE IF ~due(w.g.hs, FreshAfter) THEN init_resend(w, direct, relay, force, how)
    ELSE LET b == build_and_send_init(w, how)
         IN  IF w.g.state = "up" THEN [b EXCEPT !.g.rekey_attempt = one_more(@)]
             ELSE [b EXCEPT !.g.attempt = one_more(@)]

World == [g |-> g, wire |-> wire]

Becomes(w) == g' = w.g /\ wire' = w.wire

\* Ways an INIT built now can go.
Ways == {"any"} \cup (IF "hold" \in Faults THEN {"hold"} ELSE {})

\* A build that fails costs one of the faults.
Builds(how) ==
    \/ how \in Ways /\ env' = env
    \/ how = "fail" /\ Fault("build") /\ env' = Spent

-----------------------------------------------------------------------------
(* The response, and what crosses the tunnel.                              *)

\* A path carries transport frames: direct alone while it is taken for
\* valid, direct and DERP otherwise.
carried == env.link /\ (env.direct \/ (env.relay /\ ~env.valid))

\* The responder hears a frame of the session of s: the first one under its
\* unconfirmed keypair makes that one current (external: wireguard-go).
heard(p, s) ==
    IF s.session # NoIndex /\ s.session = p.next /\ s.epoch = p.epoch
    THEN [p EXCEPT !.current = s.session, !.next = NoIndex] ELSE p

handle_response_TakesReplaced(s, r) ==
    IF ~handshake_pending(s) \/ r.init \notin {s.armed, s.replaced_index} THEN s
    ELSE LET up == [s EXCEPT !.session = r.init, !.epoch = r.epoch, !.armed = NoIndex, !.completed = 0,
                             !.init_valid = FALSE, !.replaced_index = NoIndex, !.recv = 0]
         IN  IF s.state = "pending" THEN [up EXCEPT !.state = "up", !.attempt = 0]
             ELSE [up EXCEPT !.rekey_in_flight = FALSE, !.rekey_attempt = 0]

\* handle_handshake_response_locked with wg_handshake_process_response: only
\* the answer to the INIT in flight authenticates; anything else leaves the
\* Noise state alone.
handle_response(s, r) ==
    IF ~handshake_pending(s) THEN s
    ELSE IF r.init = s.replaced_index /\ r.init # s.local_index
    THEN [s EXCEPT !.replaced_index = NoIndex]
    ELSE IF r.init # s.armed THEN s
    ELSE LET up == [s EXCEPT !.session = r.init, !.epoch = r.epoch, !.armed = NoIndex,
                             !.completed = 0, !.init_valid = FALSE,
                             !.replaced_index = NoIndex, !.recv = 0]
         IN  IF s.state = "pending" THEN [up EXCEPT !.state = "up", !.attempt = 0]
             ELSE [up EXCEPT !.rekey_in_flight = FALSE, !.rekey_attempt = 0]

\* The response handled and, once accepted, the DISCO advert: the first
\* frame of the new session.  A full TX ring drops it (a fault).
Responded(s, r) ==
    LET t == handle_response(s, r)
    IN  \/ t.session = s.session /\ g' = t /\ UNCHANGED <<peer, env>>
        \/ /\ t.session # s.session
           /\ g' = [t EXCEPT !.tx = 0]
           /\ peer' = IF carried THEN heard(peer, t) ELSE peer
           /\ env' = env
        \/ /\ t.session # s.session /\ Fault("advert")
           /\ g' = t /\ peer' = peer /\ env' = Spent

-----------------------------------------------------------------------------
(* wg_rx.                                                                  *)

\* Any wake first re-sends the pending INIT if Wi-Fi is back.
woken(how) ==
    IF g.link_up_pending
    THEN init_resend([World EXCEPT !.g.link_up_pending = FALSE], TRUE, TRUE, TRUE, how)
    ELSE World

GoesOn == rx' = [rx EXCEPT !.pc = "timers"]

RxTimeout(how) ==
    /\ rx.pc = "wait" /\ rx.wait = 0
    /\ Becomes(woken(how))
    /\ GoesOn
    /\ UNCHANGED <<resps, peer, env>>

RxResponse(r, how) ==
    /\ rx.pc = "wait" /\ r \in resps /\ env.link /\ env.direct
    /\ resps' = resps \ {r}
    /\ LET w == woken(how) IN Responded(w.g, r) /\ wire' = w.wire
    /\ GoesOn

\* A bound: a packet that restarts the clock early changes nothing that one
\* a tick or two later would not.
LateRecv == g.recv # Never /\ g.recv + 1 >= StaleAfter

\* The responder sends under the keypair that this node has.
PeerSends == /\ g.state = "up" /\ peer.current # NoIndex
             /\ peer.current = g.session /\ peer.epoch = g.epoch

\* handle_transport: with the tunnel up, a packet of the current session
\* restarts the clock of the RX-stale watchdog (module WgTransport has the
\* rest).
RxTransport(how) ==
    /\ rx.pc = "wait" /\ env.link /\ env.direct /\ PeerSends /\ LateRecv
    /\ LET w == woken(how) IN g' = [w.g EXCEPT !.recv = 0] /\ wire' = w.wire
    /\ GoesOn
    /\ UNCHANGED <<resps, peer, env>>

\* rx_pong: a solicited pong that makes the path valid sends the pending
\* INIT down it, a fresh one if it is old.
RxPong(how) ==
    /\ rx.pc = "wait" /\ g.state # "idle" /\ env.link /\ env.direct /\ ~env.valid
    /\ env' = [env EXCEPT !.valid = TRUE]
    /\ Becomes(init_refresh_or_resend(woken(how), TRUE, FALSE, FALSE, how))
    /\ GoesOn
    /\ UNCHANGED <<resps, peer>>

\* The blocks under hs_lock, in their order.
cold_block_GivesUp(w, how) ==
    IF cold_due(w.g) /\ w.g.attempt < MaxRetries THEN kick_off_handshake(w, how) ELSE w

cold_block(w, how) ==
    IF ~cold_due(w.g) THEN w
    ELSE IF w.g.attempt >= MaxRetries
    THEN [w EXCEPT !.g.attempt = 0, !.g.hs = RekeyTimeout - HandBackoff - 1]
    ELSE kick_off_handshake(w, how)

age_block(w, how) ==
    IF age_due(w.g) THEN start_rekey([w EXCEPT !.g.rekey_attempt = 0], how) ELSE w

probe_block(w) == IF probe_due(w.g) THEN [w EXCEPT !.g.probe = 0] ELSE w

stale_block(w, how) ==
    IF stale_due(w.g)
    THEN start_rekey([w EXCEPT !.g.rekey_attempt = 0, !.g.recv = 0], how) ELSE w

retry_block(w, how) ==
    IF ~retry_due(w.g) THEN w
    ELSE IF w.g.rekey_attempt < MaxRetries THEN start_rekey(w, how)
    ELSE kick_off_handshake([w EXCEPT !.g.rekey_in_flight = FALSE, !.g.rekey_attempt = 0,
                                      !.g.attempt = 0], how)

timer_blocks(w, how) ==
    retry_block(stale_block(probe_block(age_block(cold_block(w, how), how)), how), how)

RxTimers(how) ==
    /\ rx.pc = "timers"
    /\ Builds(how)
    /\ Becomes(timer_blocks(World, how))
    /\ rx' = [rx EXCEPT !.pc = "rest"]
    /\ UNCHANGED <<resps, peer>>

\* wg_path_rekey_gate and the rekey a doubt or a silence asks for.
path_rekey(w, asked, how) ==
    IF asked /\ w.g.state = "up" /\ ~w.g.rekey_in_flight /\ due(w.g.hs, RekeyTimeout)
    THEN start_rekey([w EXCEPT !.g.rekey_attempt = 0], how) ELSE w

\* rx_path_tick's rekey, the persistent keepalive, the plan of the next wait.
RxRest(asked, how) ==
    /\ rx.pc = "rest"
    /\ LET w == path_rekey(World, asked, how)
           sends == keepalive_due(w.g)
       IN  /\ wire' = w.wire
           /\ \/ ~sends /\ g' = w.g /\ UNCHANGED <<peer, env>>
              \/ /\ sends
                 /\ g' = [w.g EXCEPT !.tx = 0]
                 /\ peer' = IF carried THEN heard(peer, w.g) ELSE peer
                 /\ env' = env
              \/ /\ sends /\ Fault("ring")
                 /\ g' = [w.g EXCEPT !.tx = KeepaliveEvery - 1]
                 /\ peer' = peer /\ env' = Spent
    /\ rx' = [pc |-> "wait", wait |-> plan_wait(g')]
    /\ UNCHANGED resps

-----------------------------------------------------------------------------
(* The other tasks.                                                        *)

Unstarted(s) == [s EXCEPT !.attempt = 0, !.rekey_attempt = 0, !.rekey_in_flight = FALSE]

\* wg_netif_start, from the netmap (or a warm start): the first INIT, and
\* wg_rx unless it runs already.  A build that fails is an aborted start.
Start(how) ==
    /\ g.state = "idle"
    /\ Builds(how)
    /\ LET s == [Unstarted(g) EXCEPT !.completed = Never, !.recv = Never,
                                     !.peer_key = peer.key]
           w == kick_off_handshake([World EXCEPT !.g = s], how)
       IN  IF how = "fail"
           THEN g' = [Unstarted(w.g) EXCEPT !.state = "idle"] /\ wire' = wire /\ rx' = rx
           ELSE Becomes(w) /\ rx' = IF rx.pc = "none" THEN [pc |-> "wait", wait |-> MaxWait]
                                     ELSE rx
    /\ UNCHANGED <<resps, peer>>

\* wg_netif_abort_start: the start's caller failed after the INIT was sent.
AbortStart ==
    /\ g.state = "pending" /\ g.completed = Never /\ Fault("abort")
    /\ g' = [Unstarted(g) EXCEPT !.state = "idle", !.init_valid = FALSE,
                                 !.armed = NoIndex, !.session = NoIndex]
    /\ env' = [Spent EXCEPT !.valid = FALSE]
    /\ UNCHANGED <<rx, wire, resps, peer>>

\* wg_netif_update_peer_keys with a new static key: a cold handshake.
update_peer_keys(w, how) ==
    kick_off_handshake([w EXCEPT !.g = [Unstarted(@) EXCEPT !.peer_key = peer.key]], how)

UpdatePeerKeys(how) ==
    /\ g.state # "idle" /\ g.peer_key # peer.key
    /\ Builds(how)
    /\ Becomes(update_peer_keys(World, how))
    /\ UNCHANGED <<rx, resps, peer>>

\* wg_netif_update_peer_endpoint: an address no pong has proven.
UpdateEndpoint ==
    /\ g.state # "idle" /\ env.valid /\ Fault("endpoint")
    /\ env' = [Spent EXCEPT !.valid = FALSE]
    /\ UNCHANGED <<g, rx, wire, resps, peer>>

\* The DERP task.  A login makes the relay usable, then kicks the handshake.
RelayUp ==
    /\ env.link /\ ~env.relay /\ ~env.kick
    /\ env' = [env EXCEPT !.relay = TRUE, !.kick = TRUE]
    /\ UNCHANGED <<g, rx, wire, resps, peer>>

\* wg_netif_handshake_kick(WG_NETIF_KICK_RELAY_UP).
RelayKick(how) ==
    /\ env.kick
    /\ env' = [env EXCEPT !.kick = FALSE]
    /\ Becomes(init_refresh_or_resend(World, FALSE, TRUE, TRUE, how))
    /\ UNCHANGED <<rx, resps, peer>>

\* wg_netif_handshake_kick(WG_NETIF_KICK_CALL_ME_MAYBE): re-sends only.
CallMeMaybe(how) ==
    /\ env.relay /\ env.link /\ handshake_pending(g)
    /\ Becomes(init_resend(World, TRUE, ~env.valid, FALSE, how))
    /\ wire' # wire
    /\ UNCHANGED <<rx, resps, peer, env>>

\* wg_netif_inject_packet: a relayed response, a relayed transport packet.
InjectResponse(r) ==
    /\ r \in resps /\ env.link /\ env.relay
    /\ resps' = resps \ {r}
    /\ Responded(g, r)
    /\ UNCHANGED <<rx, wire>>

InjectTransport ==
    /\ env.link /\ env.relay /\ PeerSends /\ LateRecv
    /\ g' = [g EXCEPT !.recv = 0]
    /\ UNCHANGED <<rx, wire, resps, peer, env>>

\* The application sends a frame (a bound: only in place of a keepalive
\* that is about to be due, or of the first frame).
AppSends ==
    /\ g.state = "up" /\ g.tx >= KeepaliveEvery
    /\ g' = [g EXCEPT !.tx = 0]
    /\ peer' = IF carried THEN heard(peer, g) ELSE peer
    /\ UNCHANGED <<rx, wire, resps, env>>

-----------------------------------------------------------------------------
(* The peer (external: a wireguard-go responder, as the comments of        *)
(* wg_netif.c and wg_rescue.h describe it) and the network.                *)

\* It takes an INIT newer than the last it took; its unconfirmed keypair
\* goes.  (Its previous keypair, which only still receives, is not kept.)
PeerTakes(k) ==
    /\ k \in DOMAIN wire
    /\ peer' = [peer EXCEPT !.consumed = wire[k], !.next = wire[k]]
    /\ resps' = {[init |-> wire[k], epoch |-> peer.epoch]}
                 \cup {r \in resps : r.init = g.local_index \/ r.init = g.replaced_index}
    /\ wire' = SubSeq(wire, k + 1, Len(wire))
    /\ UNCHANGED <<g, rx, env>>

forgetful == [peer EXCEPT !.epoch = @ + 1, !.consumed = NoIndex, !.current = NoIndex,
                          !.next = NoIndex]

\* A restart forgets every keypair, and which INITs it took: a second copy of
\* the last one may still arrive, as do the responses sent before.
PeerRestarts ==
    /\ Fault("restart")
    /\ peer' = forgetful
    /\ wire' \in {wire} \cup (IF peer.consumed = NoIndex THEN {} ELSE {<<peer.consumed>>})
    /\ env' = Spent
    /\ UNCHANGED <<g, rx, resps>>

\* A new login has a new static key, which no INIT on its way is sealed to:
\* control tells the long-poll task.
PeerRelogin ==
    /\ Fault("relogin") /\ g.state # "idle" /\ peer.key = g.peer_key
    /\ peer' = [forgetful EXCEPT !.key = 1 - @]
    /\ wire' = <<>>
    /\ env' = Spent
    /\ UNCHANGED <<g, rx, resps>>

Lost ==
    /\ Fault("loss") /\ (wire # <<>> \/ resps # {})
    /\ \/ wire # <<>> /\ wire' = Tail(wire) /\ resps' = resps
       \/ \E r \in resps : resps' = resps \ {r} /\ wire' = wire
    /\ env' = Spent
    /\ UNCHANGED <<g, rx, peer>>

\* What is left to carry the tunnel; what was on its way is lost.
PathDown ==
    /\ Fault("path") /\ env.link
    /\ env' \in {[Spent EXCEPT !.link = FALSE, !.relay = FALSE],
                 [Spent EXCEPT !.relay = FALSE], [Spent EXCEPT !.direct = FALSE]}
    /\ wire' = <<>> /\ resps' = {}
    /\ UNCHANGED <<g, rx, peer>>

\* Wi-Fi has an address again (on_sta_got_ip).
LinkUp ==
    /\ ~env.link
    /\ env' = [env EXCEPT !.link = TRUE]
    /\ g' = [g EXCEPT !.link_up_pending = TRUE]
    /\ UNCHANGED <<rx, wire, resps, peer>>

\* The path selection notices that direct frames go unanswered (WgPath).
PathLapses ==
    /\ env.valid /\ ~env.direct
    /\ env' = [env EXCEPT !.valid = FALSE]
    /\ UNCHANGED <<g, rx, wire, resps, peer>>

-----------------------------------------------------------------------------
(* Time.                                                                   *)

aged(s, n) ==
    LET older(age, cap) == IF age = Never THEN Never ELSE Min({age + n, cap})
    IN  [s EXCEPT !.hs = older(@, RekeyTimeout + 2), !.completed = older(@, RekeyAfter + 1),
                  !.recv = older(@, StaleAfter + 1), !.probe = older(@, Cooldown + 1),
                  !.tx = older(@, KeepaliveEvery + 1)]

\* A tick passes while wg_rx waits.  A message on its way across a tick is a
\* late one, a fault; a due wake is not slept through.
Tick ==
    /\ rx.pc = "none" \/ (rx.pc = "wait" /\ rx.wait > 0)
    /\ \/ wire = <<>> /\ resps = {} /\ env' = [env EXCEPT !.uptime = Min({@ + 1, UptimeCap})]
       \/ /\ (wire # <<>> \/ resps # {}) /\ Fault("late")
          /\ env' = [Spent EXCEPT !.uptime = Min({@ + 1, UptimeCap})]
    /\ g' = aged(g, 1)
    /\ rx' = IF rx.pc = "none" THEN rx ELSE [rx EXCEPT !.wait = @ - 1]
    /\ UNCHANGED <<wire, resps, peer>>

\* wg_rx runs, or its wait goes on.
RxRuns ==
    \/ rx.pc = "wait" /\ rx.wait = 0 /\ rx' = [rx EXCEPT !.pc = "timers"]
    \/ rx.pc = "timers" /\ rx' = [rx EXCEPT !.pc = "rest"]
    \/ rx.pc = "rest" /\ rx' \in [pc : {"wait"}, wait : 1..MaxWait]
    \/ /\ rx.pc = "wait" /\ rx.wait > 0 /\ wire = <<>> /\ resps = {}
       /\ rx' = [rx EXCEPT !.wait = @ - 1]

\* What is on its way gets there (or is lost).
Arrives ==
    \/ \E k \in 1..2 : PeerTakes(k)
    \/ \E r \in resps : resps' = resps \ {r} /\ env.link
                          /\ (env.relay \/ (env.direct /\ rx.pc = "wait"))
                          /\ UNCHANGED wire

\* The other tasks run: Wi-Fi and the DERP supervisor reconnect, the path
\* selection sees a lapse.
OthersRun ==
    \/ LinkUp \/ RelayUp \/ PathLapses
    \/ env.kick /\ env' = [env EXCEPT !.kick = FALSE] /\ UNCHANGED <<rx, resps, peer>>

\* A netmap starts an idle tunnel and tells of a new key: the long-poll task
\* keeps coming back to a state where neither is owed.
NetmapComes == g.state # "idle" /\ g.peer_key = peer.key

Next ==
    \/ \E how \in Ways :
          \/ RxTimeout(how) \/ RxTransport(how) \/ RxPong(how)
          \/ RelayKick(how) \/ CallMeMaybe(how)
          \/ \E asked \in {FALSE, "doubt" \in Faults} : RxRest(asked, how)
          \/ \E r \in resps : RxResponse(r, how)
    \/ \E how \in Ways \cup {"fail"} : RxTimers(how) \/ Start(how) \/ UpdatePeerKeys(how)
    \/ AbortStart \/ UpdateEndpoint \/ RelayUp \/ InjectTransport \/ AppSends
    \/ \E r \in resps : InjectResponse(r)
    \/ \E k \in 1..2 : PeerTakes(k)
    \/ PeerRestarts \/ PeerRelogin \/ Lost \/ PathDown \/ LinkUp \/ PathLapses
    \/ Tick

Fairness == WF_rx(RxRuns) /\ WF_<<wire, resps>>(Arrives) /\ WF_env(OthersRun)
            /\ []<>NetmapComes

Spec == Init /\ [][Next]_vars /\ Fairness

-----------------------------------------------------------------------------
(* Properties.                                                             *)

Age(cap) == 0..cap \cup {Never}

TypeOK ==
    /\ g.state \in States
    /\ {g.attempt, g.rekey_attempt} \subseteq 0..MaxRetries
    /\ {g.local_index, g.replaced_index, g.armed, g.session} \subseteq Index \cup {NoIndex}
    /\ g.hs \in (RekeyTimeout - HandBackoff - 1)..(RekeyTimeout + 2)
    /\ g.completed \in Age(RekeyAfter + 1) /\ g.recv \in Age(StaleAfter + 1)
    /\ g.probe \in Age(Cooldown + 1) /\ g.tx \in Age(KeepaliveEvery + 1)
    /\ rx.wait \in 0..MaxWait

\* rx_next_deadline_us and the timer blocks agree: n ticks from now a block
\* is due exactly if one of the deadlines has passed.  A deadline no block
\* acts on would make the RX wait spin, a block without one would run late.
Horizon == Max({RekeyAfter, HandBackoff}) + 2

PlanExact ==
    \A n \in 0..Horizon : some_block_due(aged(g, n)) <=> \E d \in deadlines(g) : d <= n

\* No INIT in flight is left alone for longer than REKEY_TIMEOUT, whichever
\* task sent it and however long wg_rx had planned to sleep.
RetryBounded == handshake_pending(g) => g.hs <= RekeyTimeout + 1

\* The first retry of the cold burst to the new key of a peer that logged in
\* again comes WG_FIRST_RETRY_MS after its INIT: no wait of wg_rx that started
\* before wg_netif_update_peer_keys sent it outlasts that.
FirstRetryOnTime ==
    rx.pc = "wait" /\ g.state = "pending" /\ g.peer_key # 0
        => g.hs <= handshake_retry(g) + 1

\* Keys are installed only while the responder that made them holds the same
\* keypair: never those of an INIT that a later one it took has replaced.  A
\* responder that restarted or logged in anew since holds none of them (its
\* late response is taken, and the watchdog of the silent session rekeys).
InstallsLive ==
    [][g'.session # g.session /\ g'.session # NoIndex =>
           g'.session \in {peer.next, peer.current} \/ g'.epoch < peer.epoch]_vars

\* Over lost and late messages, a restarted or re-logged-in peer, paths and
\* Wi-Fi going away, exhausted budgets and failed builds, the tunnel comes
\* back: from some time on both ends hold a session in common.
Usable == /\ g.state = "up" /\ g.session # NoIndex /\ g.peer_key = peer.key
          /\ g.session \in {peer.current, peer.next} /\ g.epoch = peer.epoch

Recovers == <>[]Usable
=============================================================================
