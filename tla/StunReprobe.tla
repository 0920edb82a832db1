---------------------------- MODULE StunReprobe ----------------------------
(***************************************************************************)
(* The STUN re-probe over the live WireGuard socket (tinylink.c): the      *)
(* telemetry task sends the request and waits; wg_rx, the socket's only    *)
(* reader, hands the answer over in s_stun_pending.  The two share the     *)
(* slot without a lock: txid, in_flight, the result and a semaphore.       *)
(***************************************************************************)
EXTENDS Integers

CONSTANTS
  Endpoints,  \* public endpoints the NAT may give us
  MaxProbes,  \* bound: probes
  MaxMoves    \* bound: got-ip events, each a new endpoint

VARIABLES
  now_ep,        \* our public endpoint
  moves,         \* got-ip events so far
  underway,      \* answers under way: [txid, ep]
  pending,       \* s_stun_pending: txid, in_flight, result
  done_sem,      \* s_stun_pending.done_sem
  probe,         \* the telemetry task's re-probe
  handler,       \* wg_rx in stun_response_handler
  reprobe_now,   \* s_stun_reprobe_now
  s_stun_result, \* valid, ep
  push,          \* s_ep_push_pending
  building,      \* the long-poll took a push and has not read the endpoint
  told           \* the endpoint control was last given, or None

reprobeVars == <<now_ep, moves, underway, pending, done_sem, probe, handler,
                 reprobe_now, s_stun_result, push, building, told>>

NoResult == [valid |-> FALSE, of |-> 0, ep |-> 0]
Answers == [txid : 1 .. MaxProbes, ep : Endpoints]
NoFrame == [pc |-> "recv", txid |-> 0, ep |-> 0]

outside == <<now_ep, moves>>
app == <<reprobe_now, s_stun_result, push, building, told>>

ReprobeInit ==
  /\ now_ep \in Endpoints /\ moves = 0 /\ underway = {}
  /\ pending = [txid |-> 0, in_flight |-> FALSE, result |-> NoResult]
  /\ done_sem = FALSE
  /\ probe = [pc |-> "idle", n |-> 0, out |-> NoResult, since |-> 0]
  /\ handler = NoFrame
  /\ reprobe_now \in BOOLEAN
  /\ s_stun_result \in {NoResult, [valid |-> TRUE, of |-> 0, ep |-> now_ep]}
  /\ push = FALSE /\ building = FALSE /\ told = s_stun_result.ep

-----------------------------------------------------------------------------
(* The telemetry task: tinylink_stun_reprobe_poll, tinylink_stun_probe and *)
(* stun_reprobe_via_wg_socket.                                             *)

ProbeTo(pc) == probe' = [probe EXCEPT !.pc = pc]

(* Due by the period, or asked for; wg_rx runs and the netmap was seen.    *)
(* The request is taken before the probe starts.                           *)
ReprobePoll ==
  /\ probe.pc = "idle" /\ probe.n < MaxProbes
  /\ reprobe_now' = FALSE
  /\ probe' = [probe EXCEPT !.pc = "txid", !.n = @ + 1, !.since = moves, !.out = NoResult]
  /\ UNCHANGED <<outside, underway, pending, done_sem, handler, s_stun_result, push,
                 building, told>>

(* The server's name does not resolve.                                     *)
PickFails ==
  /\ probe.pc = "txid"
  /\ ProbeTo("idle")
  /\ UNCHANGED <<outside, underway, pending, done_sem, handler, app>>

(* A new transaction, the result cleared ...                               *)
NewTxid ==
  /\ probe.pc = "txid"
  /\ pending' = [pending EXCEPT !.txid = probe.n]
  /\ ProbeTo("clear")
  /\ UNCHANGED <<outside, underway, done_sem, handler, app>>

ClearResult ==
  /\ probe.pc = "clear"
  /\ pending' = [pending EXCEPT !.result = NoResult]
  /\ ProbeTo("drain")
  /\ UNCHANGED <<outside, underway, done_sem, handler, app>>

(* ... a stale signal drained, the slot armed ...                          *)
Drain ==
  /\ probe.pc = "drain"
  /\ done_sem' = FALSE
  /\ ProbeTo("arm")
  /\ UNCHANGED <<outside, underway, pending, handler, app>>

Arm ==
  /\ probe.pc = "arm"
  /\ pending' = [pending EXCEPT !.in_flight = TRUE]
  /\ ProbeTo("send")
  /\ UNCHANGED <<outside, underway, done_sem, handler, app>>

(* ... and the request sent: answered with our endpoint of that moment,    *)
(* or lost on the way.                                                     *)
SendRequest ==
  /\ probe.pc = "send"
  /\ underway' \in {underway, underway \cup {[txid |-> probe.n, ep |-> now_ep]}}
  /\ ProbeTo("wait")
  /\ UNCHANGED <<outside, pending, done_sem, handler, app>>

SendFails ==
  /\ probe.pc = "send"
  /\ ProbeTo("disarm")
  /\ UNCHANGED <<outside, underway, pending, done_sem, handler, app>>

Signalled ==
  /\ probe.pc = "wait" /\ done_sem
  /\ done_sem' = FALSE
  /\ ProbeTo("copy")
  /\ UNCHANGED <<outside, underway, pending, handler, app>>

TimesOut ==
  /\ probe.pc = "wait" /\ ~done_sem
  /\ ProbeTo("disarm")
  /\ UNCHANGED <<outside, underway, pending, done_sem, handler, app>>

CopyResult ==
  /\ probe.pc = "copy"
  /\ probe' = [probe EXCEPT !.out = pending.result, !.pc = "disarm"]
  /\ UNCHANGED <<outside, underway, pending, done_sem, handler, app>>

Disarm ==
  /\ probe.pc = "disarm"
  /\ pending' = [pending EXCEPT !.in_flight = FALSE]
  /\ ProbeTo("commit")
  /\ UNCHANGED <<outside, underway, done_sem, handler, app>>

NewEndpoint ==
  probe.out.valid /\ (~s_stun_result.valid \/ s_stun_result.ep # probe.out.ep)

\* Mutant: only a first endpoint is pushed.
CommitOnce ==
  /\ probe.pc = "commit"
  /\ s_stun_result' = IF NewEndpoint THEN probe.out ELSE s_stun_result
  /\ ProbeTo(IF NewEndpoint /\ ~s_stun_result.valid THEN "push" ELSE "idle")
  /\ UNCHANGED <<outside, underway, pending, done_sem, handler, reprobe_now, push,
                 building, told>>

\* Mutant: the request is marked served when the probe ends.
CommitClearsRequest ==
  /\ probe.pc = "commit"
  /\ s_stun_result' = IF NewEndpoint THEN probe.out ELSE s_stun_result
  /\ reprobe_now' = FALSE
  /\ ProbeTo(IF NewEndpoint THEN "push" ELSE "idle")
  /\ UNCHANGED <<outside, underway, pending, done_sem, handler, push, building, told>>

(* A new endpoint is kept, then pushed; a failed probe leaves the last one.*)
Commit ==
  /\ probe.pc = "commit"
  /\ s_stun_result' = IF NewEndpoint THEN probe.out ELSE s_stun_result
  /\ ProbeTo(IF NewEndpoint THEN "push" ELSE "idle")
  /\ UNCHANGED <<outside, underway, pending, done_sem, handler, reprobe_now, push,
                 building, told>>

PushAsync ==
  /\ probe.pc = "push"
  /\ push' = TRUE
  /\ ProbeTo("idle")
  /\ UNCHANGED <<outside, underway, pending, done_sem, handler, reprobe_now, s_stun_result,
                 building, told>>

-----------------------------------------------------------------------------
(* wg_rx: stun_response_handler.                                           *)

(* An answer comes in - late, or twice.                                    *)
Receive(a, again) ==
  /\ handler.pc = "recv" /\ a \in underway
  /\ underway' = IF again THEN underway ELSE underway \ {a}
  /\ handler' = [pc |-> "check", txid |-> a.txid, ep |-> a.ep]
  /\ UNCHANGED <<outside, pending, done_sem, probe, app>>

CheckInFlight ==
  /\ handler.pc = "check"
  /\ handler' = IF pending.in_flight THEN [handler EXCEPT !.pc = "match"] ELSE NoFrame
  /\ UNCHANGED <<outside, underway, pending, done_sem, probe, app>>

(* stun_match_v4: the transaction compared ...                             *)
MatchTxid ==
  /\ handler.pc = "match"
  /\ handler' = IF pending.txid = handler.txid THEN [handler EXCEPT !.pc = "write"] ELSE NoFrame
  /\ UNCHANGED <<outside, underway, pending, done_sem, probe, app>>

(* ... then the address written, then `valid` ...                          *)
WriteResult ==
  /\ handler.pc = "write"
  /\ pending' = [pending EXCEPT !.result.of = handler.txid, !.result.ep = handler.ep]
  /\ handler' = [handler EXCEPT !.pc = "valid"]
  /\ UNCHANGED <<outside, underway, done_sem, probe, app>>

SetValid ==
  /\ handler.pc = "valid"
  /\ pending' = [pending EXCEPT !.result.valid = TRUE]
  /\ handler' = [handler EXCEPT !.pc = "give"]
  /\ UNCHANGED <<outside, underway, done_sem, probe, app>>

(* ... and the probe woken.                                                *)
Give ==
  /\ handler.pc = "give"
  /\ done_sem' = TRUE
  /\ handler' = NoFrame
  /\ UNCHANGED <<outside, underway, pending, probe, app>>

-----------------------------------------------------------------------------
(* A got-ip event, with a new public endpoint behind it.                   *)
GotIp(e) ==
  /\ moves < MaxMoves
  /\ moves' = moves + 1
  /\ now_ep' = e
  /\ reprobe_now' = TRUE
  /\ UNCHANGED <<underway, pending, done_sem, probe, handler, s_stun_result, push, building, told>>

(* The long-poll's push: the request is taken, then the endpoint is read   *)
(* into the body.                                                          *)
PushTake ==
  /\ push /\ ~building
  /\ push' = FALSE
  /\ building' = TRUE
  /\ UNCHANGED <<outside, underway, pending, done_sem, probe, handler, reprobe_now,
                 s_stun_result, told>>

PushRead ==
  /\ building
  /\ building' = FALSE
  /\ told' = s_stun_result.ep
  /\ UNCHANGED <<outside, underway, pending, done_sem, probe, handler, reprobe_now,
                 s_stun_result, push>>

ProbeStep ==
  \/ PickFails \/ NewTxid \/ ClearResult \/ Drain \/ Arm \/ SendRequest \/ SendFails
  \/ Signalled \/ TimesOut \/ CopyResult \/ Disarm \/ Commit \/ PushAsync

HandlerStep == CheckInFlight \/ MatchTxid \/ WriteResult \/ SetValid \/ Give

ReprobeNext ==
  \/ ReprobePoll \/ ProbeStep \/ HandlerStep
  \/ \E a \in Answers, again \in BOOLEAN : Receive(a, again)
  \/ \E e \in Endpoints : GotIp(e)
  \/ PushTake \/ PushRead

ReprobeSpec == ReprobeInit /\ [][ReprobeNext]_reprobeVars

\* The telemetry task polls and goes on, wg_rx finishes a frame, the
\* long-poll serves a push.
ReprobeFairSpec ==
  /\ ReprobeSpec
  /\ WF_reprobeVars(ReprobePoll) /\ WF_reprobeVars(ProbeStep)
  /\ WF_reprobeVars(HandlerStep) /\ WF_reprobeVars(PushTake \/ PushRead)

-----------------------------------------------------------------------------
\* A got-ip event is not lost on a probe under way: unless a probe set out
\* after the last event, one is still asked for.
MoveIsProbed == moves > 0 => probe.since = moves \/ reprobe_now

\* Control catches up with the endpoint the device goes by, again and again
\* (tinylink_endpoint_push_async and the long-poll that serves it).
ControlCatchesUp == []<>(told = s_stun_result.ep)

=============================================================================
