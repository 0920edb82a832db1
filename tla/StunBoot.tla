------------------------------ MODULE StunBoot ------------------------------
(***************************************************************************)
(* The boot STUN probe (stun_boot.h, tinylink.c).  It reads the WireGuard  *)
(* socket before wg_rx exists, on a task of its own while main registers,  *)
(* or inline on main when the task cannot be spawned.  Main then joins it  *)
(* within STUN_BOOT_WAIT_MS or abandons it, and starts the long-poll whose *)
(* first netmap starts wg_rx, from then on the only reader.                *)
(***************************************************************************)
EXTENDS Integers

CONSTANTS
  MaxSends,   \* requests of one probe: the first and k_stun_boot_resend_ms
  MaxStray    \* bound: datagrams that are no answer of ours

VARIABLES
  s_stun_boot,   \* stun_boot_state_t
  s_stun_boot_mx,\* holder of the mutex
  done,          \* the completion semaphore: none, empty, full or freed
  boot_probe,    \* where stun_boot_run stands
  err_ok,        \* its err == ESP_OK
  sends,         \* requests sent
  main,          \* where the main task stands
  finished,      \* stun_boot_join's local
  inbox,         \* datagrams queued on the socket: answers and strays
  came,          \* how many came so far
  valid,         \* s_stun_result.valid
  boot_reprobe,  \* s_stun_reprobe_now
  wg_rx          \* wg_rx reads the socket

bootVars == <<s_stun_boot, s_stun_boot_mx, done, boot_probe, err_ok, sends, main,
              finished, inbox, came, valid, boot_reprobe, wg_rx>>

prober == <<boot_probe, err_ok, sends>>
joiner == <<main, finished, boot_reprobe, wg_rx>>
socket == <<inbox, came>>

Free == "free"
NoDatagram == [answer |-> 0, stray |-> 0]

BootInit ==
  /\ s_stun_boot = "IDLE" /\ s_stun_boot_mx = Free /\ done = "none"
  /\ boot_probe = "none" /\ err_ok = FALSE /\ sends = 0
  /\ main = "start" /\ finished = FALSE
  /\ inbox = NoDatagram /\ came = NoDatagram
  /\ valid = FALSE /\ boot_reprobe = FALSE /\ wg_rx = FALSE

-----------------------------------------------------------------------------
(* stun_boot.h: each is [ok, s], what it returns and the state it leaves.  *)

stun_boot_claim(s) ==
  IF s = "RESOLVING" THEN [ok |-> TRUE, s |-> "ON_SOCKET"] ELSE [ok |-> FALSE, s |-> s]

\* Mutant: a probe that was given up on goes on reading.
stun_boot_may_read_always(s) == s # "IDLE"

stun_boot_may_read(s) == s = "ON_SOCKET"

stun_boot_publish(s) ==
  IF s = "ON_SOCKET" THEN [ok |-> TRUE, s |-> "DONE"] ELSE [ok |-> FALSE, s |-> s]

stun_boot_finish(s) ==
  IF s = "ABANDONED" THEN [ok |-> FALSE, s |-> s] ELSE [ok |-> TRUE, s |-> "DONE"]

stun_boot_give_up(s) ==
  IF s = "DONE" THEN [ok |-> TRUE, s |-> s] ELSE [ok |-> FALSE, s |-> "ABANDONED"]

-----------------------------------------------------------------------------
(* Main: tinylink_stun_probe_start.                                        *)

ProbeStart(spawned) ==
  /\ main = "start"
  /\ s_stun_boot' = "RESOLVING"
  /\ done' = "empty"
  /\ boot_probe' = "pick"
  /\ main' = IF spawned THEN "register" ELSE "inline"
  /\ UNCHANGED <<s_stun_boot_mx, err_ok, sends, finished, socket, valid, boot_reprobe, wg_rx>>

(* No memory for the semaphores: no probe.                                 *)
ProbeNoMem ==
  /\ main = "start"
  /\ main' = "register"
  /\ UNCHANGED <<s_stun_boot, s_stun_boot_mx, done, prober, finished, socket, valid,
                 boot_reprobe, wg_rx>>

(* The inline probe returned.                                              *)
InlineDone ==
  /\ main = "inline" /\ boot_probe = "ended"
  /\ main' = "register"
  /\ UNCHANGED <<s_stun_boot, s_stun_boot_mx, done, prober, finished, socket, valid,
                 boot_reprobe, wg_rx>>

-----------------------------------------------------------------------------
(* The probe: stun_boot_run and stun_boot_exchange.                        *)

BootProbeTo(pc) == boot_probe' = pc /\ UNCHANGED <<err_ok, sends>>
ProbeFails == boot_probe' = "finish" /\ err_ok' = FALSE /\ UNCHANGED sends

(* stun_server_pick: the server's address is known, or the lookup failed.  *)
ServerPick ==
  /\ boot_probe = "pick"
  /\ BootProbeTo("claim") \/ ProbeFails
  /\ UNCHANGED <<s_stun_boot, s_stun_boot_mx, done, joiner, socket, valid>>

ClaimSocket ==
  /\ boot_probe = "claim" /\ s_stun_boot_mx = Free
  /\ LET c == stun_boot_claim(s_stun_boot) IN
     /\ s_stun_boot' = c.s
     /\ IF c.ok THEN BootProbeTo("send") ELSE ProbeFails
  /\ UNCHANGED <<s_stun_boot_mx, done, joiner, socket, valid>>

(* A pass of the loop: the request or a resend whose time came ...         *)
BootSend ==
  /\ boot_probe = "send"
  /\ sends < MaxSends
  /\ sends' = sends + 1
  /\ boot_probe' = "select"
  /\ UNCHANGED <<s_stun_boot, s_stun_boot_mx, done, err_ok, joiner, socket, valid>>

(* ... or none is due ...                                                  *)
NoResend ==
  /\ boot_probe = "send"
  /\ sends > 0
  /\ BootProbeTo("select")
  /\ UNCHANGED <<s_stun_boot, s_stun_boot_mx, done, joiner, socket, valid>>

(* ... or the probe's time is over.                                        *)
Deadline ==
  /\ boot_probe = "send"
  /\ ProbeFails
  /\ UNCHANGED <<s_stun_boot, s_stun_boot_mx, done, joiner, socket, valid>>

Queued == inbox.answer + inbox.stray > 0

(* select returned: a slice passed, an error, or a datagram to read.       *)
SelectSlice ==
  /\ boot_probe = "select" /\ ~Queued
  /\ BootProbeTo("send")
  /\ UNCHANGED <<s_stun_boot, s_stun_boot_mx, done, joiner, socket, valid>>

SelectFails ==
  /\ boot_probe = "select"
  /\ ProbeFails
  /\ UNCHANGED <<s_stun_boot, s_stun_boot_mx, done, joiner, socket, valid>>

SelectReadable ==
  /\ boot_probe = "select" /\ Queued
  /\ BootProbeTo("lock")
  /\ UNCHANGED <<s_stun_boot, s_stun_boot_mx, done, joiner, socket, valid>>

(* Under the mutex: still the reader?                                      *)
LockToRead ==
  /\ boot_probe = "lock" /\ s_stun_boot_mx = Free
  /\ s_stun_boot_mx' = "probe"
  /\ IF stun_boot_may_read(s_stun_boot)
     THEN BootProbeTo("read")
     ELSE boot_probe' = "unlock" /\ err_ok' = FALSE /\ UNCHANGED sends
  /\ UNCHANGED <<s_stun_boot, done, joiner, socket, valid>>

Recv(kind) ==
  /\ inbox[kind] > 0
  /\ inbox' = [inbox EXCEPT ![kind] = @ - 1]

(* recvfrom without waiting: nothing, a datagram that is dropped, or the   *)
(* answer, published.                                                      *)
ReadOther ==
  /\ boot_probe = "read"
  /\ \/ ~Queued /\ UNCHANGED inbox
     \/ Recv("stray")
  /\ s_stun_boot_mx' = Free
  /\ BootProbeTo("send")
  /\ UNCHANGED <<s_stun_boot, done, joiner, came, valid>>

ReadAnswer ==
  /\ boot_probe = "read"
  /\ Recv("answer")
  /\ LET p == stun_boot_publish(s_stun_boot) IN
     /\ s_stun_boot' = p.s
     /\ valid' = (valid \/ p.ok)
     /\ err_ok' = p.ok
     /\ boot_probe' = IF p.ok THEN "unlock" ELSE "send"
     /\ s_stun_boot_mx' = IF p.ok THEN s_stun_boot_mx ELSE Free
  /\ UNCHANGED <<done, sends, joiner, came>>

UnlockAndLeave ==
  /\ boot_probe = "unlock"
  /\ s_stun_boot_mx' = Free
  /\ BootProbeTo("finish")
  /\ UNCHANGED <<s_stun_boot, done, joiner, socket, valid>>

(* The probe's last step, and what it does with the semaphore.             *)
Finish ==
  /\ boot_probe = "finish" /\ s_stun_boot_mx = Free
  /\ LET f == stun_boot_finish(s_stun_boot) IN
     /\ s_stun_boot' = f.s
     /\ BootProbeTo(IF f.ok THEN "give" ELSE "delete")
  /\ UNCHANGED <<s_stun_boot_mx, done, joiner, socket, valid>>

ProbeDelete ==
  /\ boot_probe = "delete"
  /\ done' = "freed"
  /\ BootProbeTo("ended")
  /\ UNCHANGED <<s_stun_boot, s_stun_boot_mx, joiner, socket, valid>>

\* Mutant: a failed probe returns before its signal.
ProbeGiveSkipped ==
  /\ boot_probe = "give"
  /\ done' = IF err_ok THEN "full" ELSE done
  /\ BootProbeTo("ended")
  /\ UNCHANGED <<s_stun_boot, s_stun_boot_mx, joiner, socket, valid>>

ProbeGive ==
  /\ boot_probe = "give"
  /\ done' = "full"
  /\ BootProbeTo("ended")
  /\ UNCHANGED <<s_stun_boot, s_stun_boot_mx, joiner, socket, valid>>

-----------------------------------------------------------------------------
(* Main: stun_boot_join, first thing of tinylink_dataplane_start.          *)

MainTo(pc) == main' = pc /\ UNCHANGED <<finished, boot_reprobe, wg_rx>>

(* The register succeeded.                                                 *)
Join ==
  /\ main = "register"
  /\ MainTo(IF done = "none" THEN "check" ELSE "wait")
  /\ UNCHANGED <<s_stun_boot, s_stun_boot_mx, done, prober, socket, valid>>

(* The bounded wait for the signal: it comes ...                           *)
WaitTakes ==
  /\ main = "wait" /\ done = "full"
  /\ done' = "empty"
  /\ finished' = TRUE
  /\ main' = "delete"
  /\ UNCHANGED <<s_stun_boot, s_stun_boot_mx, prober, socket, valid, boot_reprobe, wg_rx>>

(* ... or STUN_BOOT_WAIT_MS pass without it.                               *)
WaitRunsOut ==
  /\ main = "wait" /\ done # "full"
  /\ MainTo("give_up")
  /\ UNCHANGED <<s_stun_boot, s_stun_boot_mx, done, prober, socket, valid>>

GiveUp ==
  /\ main = "give_up" /\ s_stun_boot_mx = Free
  /\ LET g == stun_boot_give_up(s_stun_boot) IN
     /\ s_stun_boot' = g.s
     /\ finished' = g.ok
     /\ main' = IF g.ok THEN "take" ELSE "check"
  /\ UNCHANGED <<s_stun_boot_mx, done, prober, socket, valid, boot_reprobe, wg_rx>>

(* Finished just now: wait for the signal without a bound.                 *)
TakeForever ==
  /\ main = "take" /\ done = "full"
  /\ done' = "empty"
  /\ MainTo("delete")
  /\ UNCHANGED <<s_stun_boot, s_stun_boot_mx, prober, socket, valid>>

MainDelete ==
  /\ main = "delete"
  /\ done' = "freed"
  /\ MainTo("check")
  /\ UNCHANGED <<s_stun_boot, s_stun_boot_mx, prober, socket, valid>>

(* No result: the re-probe is to run once the data plane is up.            *)
CheckResult ==
  /\ main = "check"
  /\ boot_reprobe' = ~valid
  /\ main' = "joined"
  /\ UNCHANGED <<s_stun_boot, s_stun_boot_mx, done, prober, finished, socket, valid, wg_rx>>

(* tinylink_long_poll_start's join is a no-op then; its first netmap, or   *)
(* the warm start, starts wg_rx.                                           *)
StartWgRx ==
  /\ main = "joined" /\ ~wg_rx
  /\ wg_rx' = TRUE
  /\ UNCHANGED <<s_stun_boot, s_stun_boot_mx, done, prober, main, finished, socket,
                 valid, boot_reprobe>>

WgRxReads ==
  /\ wg_rx
  /\ \E kind \in DOMAIN inbox : Recv(kind)
  /\ UNCHANGED <<s_stun_boot, s_stun_boot_mx, done, prober, joiner, came, valid>>

-----------------------------------------------------------------------------
(* The network: an answer for a request, once or never, and strays.        *)

Arrive(kind) ==
  /\ came[kind] < (IF kind = "answer" THEN sends ELSE MaxStray)
  /\ came' = [came EXCEPT ![kind] = @ + 1]
  /\ inbox' = [inbox EXCEPT ![kind] = @ + 1]
  /\ UNCHANGED <<s_stun_boot, s_stun_boot_mx, done, prober, joiner, valid>>

BootProbeStep ==
  \/ ServerPick \/ ClaimSocket \/ BootSend \/ NoResend \/ Deadline
  \/ SelectSlice \/ SelectFails \/ SelectReadable
  \/ LockToRead \/ ReadOther \/ ReadAnswer \/ UnlockAndLeave
  \/ Finish \/ ProbeDelete \/ ProbeGive

MainStep ==
  \/ (\E spawned \in BOOLEAN : ProbeStart(spawned)) \/ ProbeNoMem \/ InlineDone
  \/ Join \/ WaitTakes \/ WaitRunsOut \/ GiveUp \/ TakeForever \/ MainDelete
  \/ CheckResult

BootNext ==
  \/ BootProbeStep \/ MainStep \/ StartWgRx \/ WgRxReads
  \/ \E kind \in DOMAIN came : Arrive(kind)

BootSpec == BootInit /\ [][BootNext]_bootVars

\* Both tasks run, and a probe's deadline comes.
BootFairSpec ==
  /\ BootSpec
  /\ WF_bootVars(MainStep) /\ WF_bootVars(BootProbeStep) /\ SF_bootVars(Deadline)

-----------------------------------------------------------------------------
\* Once stun_boot_join returned the boot probe takes no datagram off the
\* WireGuard socket: wg_rx is its only reader (stun_boot.h: "never two
\* readers of one socket").
OneReader ==
  [][main = "joined" /\ inbox' # inbox =>
       \/ came' # came
       \/ wg_rx /\ UNCHANGED prober]_bootVars

\* What the join decided stands: with a result there is no re-probe owed,
\* without one there is, and an answer that comes to an abandoned probe
\* later publishes nothing.
JoinDecides == main = "joined" => boot_reprobe = ~valid

\* Whichever task is about to give, take or delete the completion semaphore
\* finds it alive ...
SemaphoreAlive ==
  (boot_probe \in {"give", "delete"} \/ main \in {"wait", "take", "delete"}) =>
    done \in {"empty", "full"}

\* ... and once the probe ended and main joined, it is freed.
SemaphoreFreed == boot_probe = "ended" /\ main \in {"check", "joined"} => done = "freed"

\* stun_boot_finish and stun_boot_give_up agree who frees the semaphore: no
\* use after it is freed, no leak.
SemaphoreOwned == SemaphoreAlive /\ SemaphoreFreed

\* All that the join promises the tasks after it.
JoinSound == [](JoinDecides /\ SemaphoreOwned) /\ OneReader

\* The join returned, and so main reaches the long-poll: an unbounded wait
\* for the signal of a finished probe is always met.
JoinEnded == main = "joined"

\* The probe's task has ended, joined or abandoned, with its stack.
ProbeEnded == boot_probe \in {"none", "ended"}
=============================================================================
