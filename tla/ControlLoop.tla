---------------------------- MODULE ControlLoop ----------------------------
(***************************************************************************)
(* The control connection: the task that registers the node and then runs  *)
(* map streams (tinylink.c, register_node and long_poll_task), the dial    *)
(* and its fallbacks (ts2021_client.c), the request deadlines (h2_client.c)*)
(* and the endpoint push that rides with a stream or goes ahead of it      *)
(* (mapreq.c), against tasks that ask for a push at any time.              *)
(*                                                                         *)
(* Times are whole seconds, as the code's constants.  A server answers     *)
(* after a fixed delay, so a deadline decides the outcome of a request.    *)
(***************************************************************************)
EXTENDS Integers, FiniteSets

CONSTANTS
  Endpoints,   \* public endpoints
  Addrs,       \* addresses of control servers
  Name,        \* the address the host name resolves to
  Scenarios,   \* what answers where (net) and how fast (delay), the cached
               \* address, what node and server know of each other (known,
               \* knows), one stream at a time for the server (one) or by
               \* CONFIG_TINYLINK_CONTROL_PUSH_PIPELINE off (alone)
  LadderCap,   \* 1024 in long_poll_task's re-register schedule
  MaxMoves,    \* bound: changes of the public endpoint
  MaxFaults,   \* bound: transport failures, GOAWAYs, resets, removals
  MaxThrottles \* bound: pushes answered 429, or past their deadline

ReqBase == 10    \* TS2021_REQ_TIMEOUT_MS
RespBase == 15   \* TS2021_RESP_TIMEOUT_MS
Top == 120       \* TS2021_REQ_/RESP_TIMEOUT_MAX_MS
EarlyDrop == 120 \* TS2021_PLAIN_EARLY_DROP_S
NoAddr == "none"

VARIABLES
  scn,    \* the scenario of this behaviour
  srv,    \* the server: endpoint told, node known, one stream at a time
  faults, \* [any, throttles, moves]: what happened so far
  ep,     \* s_stun_result
  dial,   \* s_plain_off, s_tls_next, s_addr, s_addr_skip, within the TTL
  att,    \* ts2021_connect's locals
  conn,   \* s_conn
  abort,  \* s_abort_reads
  lad,    \* s_req_ms, s_resp_ms, s_resp_streak, s_after_clean, s_one_stream
  rq,     \* the requests in flight: h2_side_t and the stream's
  push,   \* s_ep_push_pending, _waiting, _retried, _resolved
  pusher, \* where each caller of tinylink_endpoint_push_async is
  lp      \* the task: pc, what the connect is for, its locals

vars == <<scn, srv, faults, ep, dial, att, conn, abort, lad, rq, push, pusher, lp>>
env == <<scn, srv, faults, ep>>

Ports == {"80", "443"}
NoConn == [open |-> FALSE, plain |-> FALSE, at_addr |-> FALSE, peer |-> NoAddr,
           age |-> 0, io_failed |-> FALSE, aborted |-> FALSE, goaway |-> FALSE]
NoAtt == [plain |-> FALSE, port |-> "443", try_addr |-> FALSE, named |-> {}]
NoRq == [side |-> "none", ep |-> CHOOSE e \in Endpoints : TRUE, ms |-> 0,
         resp_ms |-> 0, patient |-> FALSE, live |-> FALSE, late |-> FALSE]

At(pc) == lp.pc = pc
Older(c, by) == [c EXCEPT !.age = IF @ + by < EarlyDrop THEN @ + by ELSE EarlyDrop]
Answers(limit) == scn.net[IF conn.plain THEN "80" ELSE "443", conn.peer] = "ok"
                  /\ scn.delay <= limit
Fault(k) == faults[k] < (CASE k = "any" -> MaxFaults
                           [] k = "throttles" -> MaxThrottles
                           [] k = "moves" -> MaxMoves)
            /\ faults' = [faults EXCEPT ![k] = @ + 1]

Init ==
  /\ scn \in Scenarios
  /\ ep = CHOOSE e \in Endpoints : TRUE
  /\ \E e \in Endpoints \ {ep} : srv = [told |-> e, knows |-> scn.knows, one |-> scn.one]
  /\ faults = [any |-> 0, throttles |-> 0, moves |-> 0]
  /\ dial = [off |-> FALSE, tls_next |-> FALSE, addr |-> scn.addr, skip |-> FALSE,
             fresh |-> TRUE]
  /\ att = NoAtt /\ conn = NoConn /\ abort = FALSE
  /\ lad = [req |-> ReqBase, resp |-> RespBase, streak |-> 0, clean |-> FALSE,
            one |-> scn.alone]
  /\ rq = NoRq
  /\ push = [pending |-> TRUE, waiting |-> FALSE, retried |-> FALSE, resolved |-> FALSE]
  /\ pusher = [stun |-> "idle", timer |-> "idle"]
  /\ lp = [pc |-> "connect", next |-> "register", boot |-> TRUE, known |-> scn.known,
           auth |-> ~scn.known, push |-> FALSE, rejected |-> 0]

-----------------------------------------------------------------------------
(* ts2021_client.c: the dial.                                              *)

(* ensure_control_conn and the start of ts2021_connect: an abort pending   *)
(* from the old connection ends here, as do the two one-dial hints.        *)
Connect ==
  /\ At("connect")
  /\ IF conn.open
     THEN lp' = [lp EXCEPT !.pc = lp.next] /\ UNCHANGED <<abort, dial, att>>
     ELSE LET plain == ~dial.off /\ ~dial.tls_next
          IN /\ abort' = FALSE
             /\ dial' = [dial EXCEPT !.tls_next = FALSE, !.skip = FALSE]
             /\ att' = [plain |-> plain, port |-> IF plain THEN "80" ELSE "443",
                        try_addr |-> dial.addr # NoAddr /\ ~dial.skip /\ dial.fresh,
                        named |-> {}]
             /\ lp' = [lp EXCEPT !.pc = "dial"]
  /\ UNCHANGED <<env, conn, lad, rq, push, pusher>>

Target == IF att.try_addr THEN dial.addr ELSE Name

connect_up ==
  /\ conn' = [NoConn EXCEPT !.open = TRUE, !.plain = att.port = "80",
                            !.at_addr = att.try_addr, !.peer = Target]
  /\ dial' = [dial EXCEPT !.off = @ \/ (att.plain /\ att.port = "443"),
                          !.addr = Target, !.fresh = @ \/ ~att.try_addr]
  /\ lp' = [lp EXCEPT !.pc = lp.next]
  /\ att' = NoAtt

(* The map cycle is over (long_poll_task from the stream's return, or from *)
(* a failed connect, to the next pass): an unanswered push is owed again,  *)
(* ts2021_close keeps its accounts of a connection that failed young, and  *)
(* a node that control rejects goes through the re-register ladder.        *)
drop(c) ==
  LET young == c.age < EarlyDrop
  IN /\ dial' = [dial EXCEPT
          !.tls_next = @ \/ (c.open /\ c.plain /\ c.io_failed /\ young),
          !.skip = @ \/ (c.open /\ c.at_addr /\ ~c.aborted
                         /\ (c.io_failed \/ c.goaway) /\ young)]
     /\ conn' = NoConn

(* Rejections in a row: due at the powers of two, past LadderCap at its    *)
(* multiples.  Past 2 * LadderCap the count is kept modulo LadderCap.      *)
due(n) == IF n <= LadderCap THEN \E i \in 0 .. 10 : n = 2^i ELSE n % LadderCap = 0
one_more(n) == IF n = 2 * LadderCap THEN LadderCap + 1 ELSE n + 1

cycle_end(c, ok, status, expired) ==
  LET rejected == expired \/ (~ok /\ status = 404)
      n == CASE rejected -> one_more(lp.rejected)
             [] ~rejected /\ (ok \/ status = 200) -> 0
             [] OTHER -> lp.rejected
      again == rejected /\ due(n) /\ (expired \/ n >= 2)
  IN /\ drop(c)
     /\ push' = [push EXCEPT !.pending = @ \/ (lp.push /\ ~push.resolved)]
     /\ rq' = NoRq
     /\ lp' = [lp EXCEPT !.pc = "connect", !.rejected = n, !.push = FALSE, !.auth = TRUE,
                         !.next = IF again THEN "register" ELSE "take"]

(* register_node has its result.  At boot the caller repeats it until it   *)
(* succeeds; in the long-poll task a success asks for a push and the map   *)
(* is tried again either way.  Only a failure drops the connection.        *)
register_end(c, ok, known) ==
  /\ IF ok THEN conn' = c /\ UNCHANGED dial ELSE drop(c)
  /\ push' = [push EXCEPT !.pending = @ \/ (ok /\ ~lp.boot)]
  /\ LET retry == lp.boot /\ ~ok
     IN lp' = [lp EXCEPT !.pc = "connect", !.known = known, !.boot = retry,
                         !.next = IF retry THEN "register" ELSE "take",
                         !.auth = IF retry THEN ~known ELSE TRUE]

connect_failed ==
  IF lp.next = "register" THEN register_end(NoConn, FALSE, lp.known) /\ UNCHANGED rq
                          ELSE cycle_end(NoConn, FALSE, 0, FALSE)

(* One attempt on one port, at the cached address or by name.  A failure   *)
(* at the address is retried by name, :80's by name on :443; an abort ends *)
(* the dial.                                                               *)
attempt_failed_SkipsName ==
  IF abort \/ att.port = "443" THEN connect_failed /\ att' = NoAtt
  ELSE /\ att' = [att EXCEPT !.try_addr = FALSE, !.port = "443"]
       /\ UNCHANGED <<dial, conn, push, rq, lp>>

attempt_failed ==
  IF abort THEN connect_failed /\ att' = NoAtt
  ELSE IF att.try_addr
  THEN att' = [att EXCEPT !.try_addr = FALSE] /\ UNCHANGED <<dial, conn, push, rq, lp>>
  ELSE IF att.port = "80"
  THEN /\ att' = [att EXCEPT !.port = "443", !.named = @ \cup {"80"}]
       /\ UNCHANGED <<dial, conn, push, rq, lp>>
  ELSE connect_failed /\ att' = NoAtt

Attempt ==
  /\ At("dial")
  /\ IF ~abort /\ scn.net[att.port, Target] # "dead"
     THEN connect_up /\ UNCHANGED <<push, rq>>
     ELSE attempt_failed
  /\ UNCHANGED <<env, abort, lad, pusher>>

AttemptLost ==
  /\ At("dial") /\ Fault("any") /\ attempt_failed
  /\ UNCHANGED <<scn, srv, ep, abort, lad, pusher>>

(* The cached address outlives TS2021_ADDR_TTL_S; only a dial reads it. *)
AddrAges ==
  /\ At("connect") /\ ~conn.open /\ dial.fresh /\ dial.addr # NoAddr
  /\ dial' = [dial EXCEPT !.fresh = FALSE]
  /\ UNCHANGED <<env, att, conn, abort, lad, rq, push, pusher, lp>>

-----------------------------------------------------------------------------
(* h2_client.c: one-shot requests and their deadline.                      *)

twice(ms) == IF ms < Top \div 2 THEN 2 * ms ELSE Top

(* h2_post_json after an expiry: the next deadline doubles; ahead of the   *)
(* first poll after a clean server end the connection is not blamed.       *)
expired_conn == [Older(conn, lad.req) EXCEPT !.io_failed = ~lad.clean]
expired_lad_Fixed == [lad EXCEPT !.clean = FALSE]
expired_lad == [lad EXCEPT !.req = twice(@), !.clean = FALSE]
answered_lad == [lad EXCEPT !.req = ReqBase]

(* Answered before its deadline: refused only without the auth key by a    *)
(* server that does not know the node, and then repeated with it on the    *)
(* same connection.                                                        *)
RegisterAnswered ==
  /\ At("register") /\ ~abort /\ Answers(lad.req)
  /\ lad' = answered_lad
  /\ IF lp.auth \/ srv.knows
     THEN /\ srv' = [srv EXCEPT !.knows = TRUE]
          /\ register_end(Older(conn, scn.delay), TRUE, TRUE)
     ELSE /\ conn' = Older(conn, scn.delay)
          /\ lp' = [lp EXCEPT !.auth = TRUE, !.known = FALSE]
          /\ UNCHANGED <<srv, dial, push>>
  /\ UNCHANGED <<scn, faults, ep, att, abort, rq, pusher>>

RegisterExpires ==
  /\ At("register") /\ ~abort /\ ~Answers(lad.req)
  /\ lad' = expired_lad
  /\ register_end(expired_conn, FALSE, lp.known)
  /\ UNCHANGED <<env, att, abort, rq, pusher>>

RegisterAborted ==
  /\ At("register") /\ abort
  /\ register_end([conn EXCEPT !.aborted = TRUE], FALSE, lp.known)
  /\ UNCHANGED <<env, att, abort, lad, rq, pusher>>

(* A transport failure, a GOAWAY, or a throttled answer. *)
RegisterLost ==
  /\ At("register") /\ ~abort /\ Fault("any")
  /\ \E how \in {"io", "goaway", "throttled"} :
       /\ register_end([conn EXCEPT !.io_failed = how = "io", !.goaway = how = "goaway"],
                       FALSE, lp.known)
       /\ lad' = IF how = "throttled" THEN answered_lad ELSE lad
       /\ \E k \in BOOLEAN : srv' = [srv EXCEPT !.knows = @ \/ (k /\ lp.auth /\ how = "io")]
  /\ UNCHANGED <<scn, ep, att, abort, rq, pusher>>

-----------------------------------------------------------------------------
(* long_poll_task: one map cycle.                                          *)

(* The flag is read, then cleared, then the bodies are built.              *)
Take ==
  /\ At("take")
  /\ lp' = [lp EXCEPT !.pc = "clear", !.push = push.pending /\ ~push.waiting]
  /\ UNCHANGED <<env, dial, att, conn, abort, lad, rq, push, pusher>>

Clear ==
  /\ At("clear")
  /\ push' = [push EXCEPT !.pending = @ /\ ~lp.push, !.resolved = FALSE]
  /\ lp' = [lp EXCEPT !.pc = "post"]
  /\ UNCHANGED <<env, dial, att, conn, abort, lad, rq, pusher>>

(* run_stream_in.  A push still to go rides with the stream; where only    *)
(* one stream is allowed it goes first and alone.  A server limit met now  *)
(* has already cost the patience resp_ms_now takes.                        *)
resp_ms_now == IF lad.clean THEN Top ELSE lad.resp
Riding == lp.push /\ ~push.resolved

PostPush ==
  /\ At("post") /\ Riding /\ lad.one
  /\ rq' = [NoRq EXCEPT !.ep = ep]
  /\ lp' = [lp EXCEPT !.pc = "push"]
  /\ UNCHANGED <<env, dial, att, conn, abort, lad, push, pusher>>

PostLimited ==
  /\ At("post") /\ Riding /\ ~lad.one /\ srv.one
  /\ lad' = [lad EXCEPT !.one = TRUE, !.clean = FALSE]
  /\ UNCHANGED <<env, dial, att, conn, abort, rq, push, pusher, lp>>

PostStream ==
  /\ At("post") /\ (Riding => ~lad.one /\ ~srv.one)
  /\ rq' = [NoRq EXCEPT !.side = IF Riding THEN "armed" ELSE "none",
                        !.ep = IF Riding THEN ep ELSE @, !.ms = lad.req,
                        !.resp_ms = resp_ms_now, !.patient = lad.clean]
  /\ lad' = [lad EXCEPT !.clean = FALSE]
  /\ lp' = [lp EXCEPT !.pc = "stream"]
  /\ UNCHANGED <<env, dial, att, conn, abort, push, pusher>>

(* ep_push_done: a push refused for a while (429, a reset, a cancelled     *)
(* one: status 0) gets one recycle of the stream from the timer.           *)
ep_push_done_Forgets(status) == [push EXCEPT !.resolved = TRUE, !.retried = status # 200]

ep_push_done(status) ==
  LET retry == status \in {0, 429} /\ ~push.retried
  IN IF status = 200
     THEN [push EXCEPT !.resolved = TRUE, !.retried = FALSE]
     ELSE [push EXCEPT !.resolved = TRUE, !.pending = TRUE,
                       !.waiting = @ \/ retry, !.retried = @ \/ retry]

PushStatus == IF srv.knows THEN 200 ELSE 404
applied == srv' = [srv EXCEPT !.told = rq.ep]
maybe_applied(sent) == \/ UNCHANGED srv
                       \/ sent /\ srv.knows /\ applied

(* The push alone (push_endpoints_in). *)
PushAnswered ==
  /\ At("push") /\ ~abort /\ Answers(lad.req)
  /\ \/ push' = ep_push_done(PushStatus) /\ (IF srv.knows THEN applied ELSE UNCHANGED srv)
        /\ UNCHANGED faults
     \/ push' = ep_push_done(429) /\ Fault("throttles") /\ UNCHANGED srv
  /\ conn' = Older(conn, scn.delay) /\ lad' = answered_lad
  /\ lp' = [lp EXCEPT !.pc = "post"] /\ rq' = NoRq
  /\ UNCHANGED <<scn, ep, dial, att, abort, pusher>>

PushExpires ==
  /\ At("push") /\ ~abort /\ ~Answers(lad.req)
  /\ lad' = expired_lad /\ cycle_end(expired_conn, FALSE, 0, FALSE)
  /\ UNCHANGED <<env, att, abort, pusher>>

PushAborted ==
  /\ At("push") /\ abort
  /\ cycle_end([conn EXCEPT !.aborted = TRUE], FALSE, 0, FALSE) /\ maybe_applied(TRUE)
  /\ UNCHANGED <<scn, faults, ep, att, abort, lad, pusher>>

PushLost ==
  /\ At("push") /\ ~abort /\ Fault("any") /\ maybe_applied(TRUE)
  /\ \E io \in BOOLEAN :
       cycle_end([conn EXCEPT !.io_failed = io, !.goaway = ~io], FALSE, 0, FALSE)
  /\ UNCHANGED <<scn, ep, att, abort, lad, pusher>>

-----------------------------------------------------------------------------
(* The map stream.  Until its answer the connection is under the side      *)
(* request's deadline while that is unanswered, under the first-response   *)
(* deadline otherwise; both count from the burst.                          *)

Limit == IF rq.side = "armed" THEN rq.ms ELSE rq.resp_ms
Waiting == At("stream") /\ ~rq.live /\ ~abort
Sent == rq.side # "none"

resp_ms_after(took) ==
  IF 2 * took <= RespBase THEN RespBase ELSE IF 2 * took >= Top THEN Top ELSE 2 * took

(* h2_io_on_status: the final status of the stream ends the deadline; an   *)
(* unanswered side request keeps its own.  After a side request's answer   *)
(* bytes that wait are read before a deadline already past is applied.     *)
on_status_lad == [lad EXCEPT !.resp = resp_ms_after(scn.delay), !.streak = 0, !.clean = FALSE]
Heard == Waiting /\ (Answers(Limit) \/ (rq.late /\ Answers(scn.delay)))

StreamAnswered ==
  /\ Heard /\ srv.knows
  /\ lad' = on_status_lad
  /\ rq' = [rq EXCEPT !.live = TRUE, !.side = IF @ = "armed" THEN "detached" ELSE @]
  /\ conn' = Older(conn, scn.delay)
  /\ UNCHANGED <<env, dial, att, abort, push, pusher, lp>>

(* An unknown node: a 4xx, or a self node marked expired that the handler  *)
(* answers with a recycle.                                                 *)
StreamRejected ==
  /\ Heard /\ ~srv.knows
  /\ lad' = on_status_lad
  /\ \E expired \in BOOLEAN :
       cycle_end(Older(conn, scn.delay), expired, IF expired THEN 200 ELSE 404, expired)
  /\ UNCHANGED <<env, att, abort, pusher>>

(* resp_deadline_done: an unanswered stream doubles its deadline and from  *)
(* the second in a row on counts as a failed connection; a poll after a    *)
(* clean end does neither.  Past the side request's deadline it is that    *)
(* request that expired.                                                   *)
StreamExpires ==
  /\ Waiting /\ ~Answers(Limit)
  /\ IF rq.side = "armed"
     THEN /\ lad' = [lad EXCEPT !.req = twice(rq.ms)]
          /\ cycle_end([Older(conn, rq.ms) EXCEPT !.io_failed = ~rq.patient], FALSE, 0, FALSE)
     ELSE LET streak == IF lad.streak < 2 THEN lad.streak + 1 ELSE 2
              counted == [lad EXCEPT !.resp = twice(rq.resp_ms), !.streak = streak]
          IN /\ lad' = IF rq.patient THEN lad ELSE counted
             /\ cycle_end([Older(conn, rq.resp_ms) EXCEPT
                             !.io_failed = ~rq.patient /\ streak >= 2], FALSE, 0, FALSE)
  /\ UNCHANGED <<env, att, abort, pusher>>

(* side_closed: answered, the next one-shot gets the base deadline; late   *)
(* behind an answered stream, it is cancelled and the next gets twice.     *)
SideAnswered ==
  /\ At("stream") /\ ~abort
  /\ \/ rq.side = "armed" /\ Answers(rq.ms)
     \/ rq.side = "detached"
  /\ \/ push' = ep_push_done(PushStatus) /\ (IF srv.knows THEN applied ELSE UNCHANGED srv)
        /\ UNCHANGED faults
     \/ push' = ep_push_done(429) /\ Fault("throttles") /\ UNCHANGED srv
  /\ lad' = answered_lad
  /\ rq' = [rq EXCEPT !.side = "none", !.late = ~rq.live]
  /\ UNCHANGED <<scn, ep, dial, att, conn, abort, pusher, lp>>

SideCancelled ==
  /\ At("stream") /\ ~abort /\ rq.side = "detached" /\ Fault("throttles")
  /\ push' = ep_push_done(0) /\ maybe_applied(TRUE)
  /\ lad' = [lad EXCEPT !.req = twice(rq.ms)]
  /\ rq' = [rq EXCEPT !.side = "none"]
  /\ UNCHANGED <<scn, ep, dial, att, conn, abort, pusher, lp>>

(* The reads fail on the abort another task raised. *)
StreamAborted ==
  /\ At("stream") /\ abort
  /\ cycle_end([conn EXCEPT !.aborted = TRUE], FALSE, IF rq.live THEN 200 ELSE 0, FALSE)
  /\ maybe_applied(Sent)
  /\ UNCHANGED <<scn, faults, ep, att, abort, lad, pusher>>

(* A live stream is lost at any age. *)
StreamLost ==
  /\ At("stream") /\ ~abort /\ Fault("any") /\ maybe_applied(Sent)
  /\ \E how \in {"io", "goaway", "reset"},
        c \in {conn} \cup (IF rq.live THEN {Older(conn, EarlyDrop)} ELSE {}) :
       cycle_end([c EXCEPT !.io_failed = how = "io", !.goaway = how = "goaway"],
                 rq.live /\ how = "reset", IF rq.live THEN 200 ELSE 0, FALSE)
  /\ UNCHANGED <<scn, ep, att, abort, lad, pusher>>

(* END_STREAM from the server after its 200; ahead of the push's answer it *)
(* is a fault.                                                             *)
StreamEnds ==
  /\ At("stream") /\ ~abort /\ rq.live
  /\ IF Sent THEN Fault("any") ELSE UNCHANGED faults
  /\ lad' = [lad EXCEPT !.clean = TRUE]
  /\ cycle_end(conn, TRUE, 200, FALSE) /\ maybe_applied(Sent)
  /\ UNCHANGED <<scn, ep, att, abort, pusher>>

(* Control removes the node (in a scenario that has it); its live stream is told so. *)
NodeRemoved ==
  /\ scn.removal /\ srv.knows /\ Fault("any") /\ srv' = [srv EXCEPT !.knows = FALSE]
  /\ UNCHANGED <<scn, ep, dial, att, conn, abort, lad, rq, push, pusher, lp>>

NodeExpired ==
  /\ At("stream") /\ ~abort /\ rq.live /\ ~srv.knows
  /\ cycle_end(conn, TRUE, 200, TRUE)
  /\ UNCHANGED <<env, att, abort, lad, pusher>>

-----------------------------------------------------------------------------
(* tinylink_endpoint_push_async, from the STUN re-probe and from the retry *)
(* timer: the flag, then the test of the connection, then the abort.       *)

Moved ==
  /\ pusher.stun = "idle" /\ Fault("moves")
  /\ ep' \in Endpoints \ {ep}
  /\ pusher' = [pusher EXCEPT !.stun = "set"]
  /\ UNCHANGED <<scn, srv, dial, att, conn, abort, lad, rq, push, lp>>

TimerFires ==
  /\ push.waiting /\ pusher.timer = "idle"
  /\ push' = [push EXCEPT !.waiting = FALSE]
  /\ pusher' = [pusher EXCEPT !.timer = "set"]
  /\ UNCHANGED <<env, dial, att, conn, abort, lad, rq, lp>>

PushSet(t) ==
  /\ pusher[t] = "set"
  /\ push' = [push EXCEPT !.pending = TRUE]
  /\ pusher' = [pusher EXCEPT ![t] = "test"]
  /\ UNCHANGED <<env, dial, att, conn, abort, lad, rq, lp>>

PushTest(t) ==
  /\ pusher[t] = "test"
  /\ pusher' = [pusher EXCEPT ![t] = IF conn.open /\ ~push.waiting THEN "raise" ELSE "idle"]
  /\ UNCHANGED <<env, dial, att, conn, abort, lad, rq, push, lp>>

PushRaise(t) ==
  /\ pusher[t] = "raise"
  /\ abort' = TRUE /\ pusher' = [pusher EXCEPT ![t] = "idle"]
  /\ UNCHANGED <<env, dial, att, conn, lad, rq, push, lp>>

-----------------------------------------------------------------------------
Faulty == AttemptLost \/ RegisterLost \/ PushLost \/ StreamLost \/ NodeRemoved
Server == StreamEnds \/ SideCancelled \/ AddrAges
LongPoll ==
  \/ Connect \/ Attempt
  \/ RegisterAnswered \/ RegisterExpires \/ RegisterAborted
  \/ Take \/ Clear \/ PostPush \/ PostLimited \/ PostStream
  \/ PushAnswered \/ PushExpires \/ PushAborted
  \/ StreamAnswered \/ StreamRejected \/ StreamExpires \/ StreamAborted
  \/ SideAnswered \/ NodeExpired
Pusher(t) == PushSet(t) \/ PushTest(t) \/ PushRaise(t)
Next == \/ LongPoll \/ Faulty \/ Server \/ Moved \/ TimerFires
        \/ \E t \in DOMAIN pusher : Pusher(t)

(* The tasks run whenever they can, the timer expires, a server that can   *)
(* answer does, a removed node's stream is told, and time passes: an       *)
(* address dialled again and again outlives its TTL.                       *)
Fairness == /\ WF_vars(LongPoll) /\ WF_vars(TimerFires) /\ SF_vars(AddrAges)
            /\ \A t \in {"stun", "timer"} : WF_vars(Pusher(t))
Spec == Init /\ [][Next]_vars /\ Fairness

-----------------------------------------------------------------------------
(* Properties                                                              *)

(* The abstract push: owed while the endpoint moved and the flag is not    *)
(* set yet, while the flag is set, and while a push taken from it has no   *)
(* outcome.                                                                *)
Owed == pusher.stun = "set" \/ push.pending \/ (lp.push /\ ~push.resolved)
EP == INSTANCE EndpointPush WITH told <- srv.told, owed <- Owed

(* The control server has the node's public endpoint whenever no push is   *)
(* owed, and an owed push is eventually applied: the flag, the retry timer *)
(* and the recycle of the stream lose none, over expiries, refusals,       *)
(* aborts and failures (tinylink_endpoint_push_async, ep_push_done, the    *)
(* end of a long_poll_task cycle).                                         *)
PushRefines == EP!Spec

(* :80 is turned off for the boot only by a dial whose :80 attempt failed  *)
(* under the host's name: never by a stale cached address, nor by an abort *)
(* (connect_port, ts2021_connect).                                         *)
PlainOffByName == [][dial.off' # dial.off => att.plain /\ "80" \in att.named /\ ~abort]_vars

(* A server that answers within the longest deadline is heard again and    *)
(* again, however slow, at whichever port and address it answers: the      *)
(* deadline ladders, the fallbacks of the dial and the re-register ladder  *)
(* get the node to a live stream (h2_client.c, ts2021_client.c).           *)
NodeServed == []<>(At("stream") /\ rq.live /\ srv.knows)
=============================================================================
