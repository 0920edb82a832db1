------------------------------ MODULE WgTxRing ------------------------------
(***************************************************************************)
(* The TX ring of the WireGuard netif (wg_netif.c): frame slots that       *)
(* travel by index between a free and a ready queue, the sentinels that    *)
(* ask the wg_tx worker for a re-send or to stop, and the ring's teardown. *)
(* Queue operations are atomic and never wait, except the worker's         *)
(* receive; the flags between them (rescue_queued, rescue_owed) are plain  *)
(* volatile words any task tests and sets without a lock.  What a sender   *)
(* that a stop does not wait for meets in the freed ring is not followed.  *)
(***************************************************************************)
EXTENDS Integers, Sequences, FiniteSets, Functions

CONSTANTS
  Slots,    \* frame slots (WG_TX_SLOTS of them)
  Senders,  \* tasks that run send_plaintext
  Rescuers, \* tasks whose path events ask for a re-send
  Initers,  \* tasks that send an INIT via DERP behind a re-send
  Derp      \* the relay's task, which logs in and kicks the netif

Tasks == Senders \cup Rescuers \cup Initers \cup {Derp}
Sentinels == {"RESCUE", "STOP"}

ASSUME TxRingAssumption ==
  /\ IsFiniteSet(Slots) /\ Cardinality(Slots) \in Nat \ {0}
  /\ Slots \cap (Sentinels \cup {"none"}) = {}
  /\ "none" \notin Tasks

VARIABLES
  free_q, ready_q,  \* tx_free_q, tx_ready_q
  item,             \* what each slot carries: "data", "init" or "behind"
  rescue_queued, rescue_owed,
  hs_lock,          \* holder of g.hs_lock, or "none"
  task,             \* each task: pc, then, slot, owes
  wg_tx,            \* the worker: pc, slot, kept
  relay_up,         \* the relay takes frames
  stop,             \* wg_netif_stop: "no", "wait", "joined", "late", "done"
  ring,             \* "live" or "freed"
  asked             \* history: a re-send was asked for, none has begun since

queues == <<free_q, ready_q, item>>
flags == <<rescue_queued, rescue_owed>>
ends == <<stop, ring>>
vars == <<queues, flags, hs_lock, task, wg_tx, relay_up, ends, asked>>

None == "none"
Idle == [pc |-> "idle", then |-> "idle", slot |-> None, owes |-> FALSE]
ReadyDepth == Cardinality(Slots) + 2

(* tx_ring_create: every slot in the free queue, once.                     *)
Init ==
  /\ free_q \in Bijection(1 .. Cardinality(Slots), Slots) /\ ready_q = <<>>
  /\ item = [s \in Slots |-> "data"]
  /\ rescue_queued = FALSE /\ rescue_owed = FALSE /\ hs_lock = None
  /\ task = [t \in Tasks |-> Idle]
  /\ wg_tx = [pc |-> "top", slot |-> None, kept |-> FALSE]
  /\ relay_up \in BOOLEAN /\ stop = "no" /\ ring = "live"
  /\ asked = FALSE

-----------------------------------------------------------------------------
(* xQueueSend(tx_ready_q, ..., 0): refused when full.                      *)
ReadyFull == Len(ready_q) = ReadyDepth
SendReady(x) == ready_q' = IF ReadyFull THEN ready_q ELSE Append(ready_q, x)

At(t, pc) == task[t].pc = pc
Go(t, pc) == task' = [task EXCEPT ![t].pc = pc]
Live == ring = "live"

(* send_plaintext: a free slot is claimed (none: the frame is dropped) ... *)
SendClaim(t) ==
  /\ t \in Senders /\ At(t, "idle") /\ Live /\ stop # "done" /\ free_q # <<>>
  /\ free_q' = Tail(free_q)
  /\ task' = [task EXCEPT ![t].pc = "seal", ![t].slot = Head(free_q)]
  /\ UNCHANGED <<ready_q, item, flags, hs_lock, wg_tx, relay_up, ends, asked>>

(* ... the frame sealed into it with no lock held, and its index queued.   *)
SealOk(t) ==
  /\ At(t, "seal") /\ Live
  /\ SendReady(task[t].slot)
  /\ item' = [item EXCEPT ![task[t].slot] = "data"]
  /\ task' = [task EXCEPT ![t] = Idle]
  /\ UNCHANGED <<free_q, flags, hs_lock, wg_tx, relay_up, ends, asked>>

(* The reservation or the seal fails: the slot goes back.                  *)
SealFails(t) ==
  /\ At(t, "seal") /\ Live
  /\ free_q' = Append(free_q, task[t].slot)
  /\ task' = [task EXCEPT ![t] = Idle]
  /\ UNCHANGED <<ready_q, item, flags, hs_lock, wg_tx, relay_up, ends, asked>>

-----------------------------------------------------------------------------
(* queue_rescue, called with WG_PATH_ACT_RESCUE and going on at `then`:    *)
(* the flag tested, then set, then the sentinel queued.                    *)
TestQueued(t, then, owes) ==
  /\ asked' = TRUE
  /\ task' = [task EXCEPT ![t] = [@ EXCEPT
                !.pc = IF rescue_queued \/ ~Live THEN then ELSE "set",
                !.then = then, !.owes = owes]]

(* A path event whose action is a re-send (tick, pong, roam, peer data,    *)
(* handshake, endpoint change).                                            *)
PathActs(t) ==
  /\ t \in Rescuers /\ At(t, "idle") /\ stop # "done"
  /\ TestQueued(t, "idle", FALSE)
  /\ UNCHANGED <<queues, flags, hs_lock, wg_tx, relay_up, ends>>

SetQueued(t) ==
  /\ At(t, "set")
  /\ rescue_queued' = TRUE
  /\ Go(t, "queue")
  /\ UNCHANGED <<queues, rescue_owed, hs_lock, wg_tx, relay_up, ends, asked>>

QueueSentinel(t) ==
  /\ At(t, "queue") /\ Live
  /\ SendReady("RESCUE")
  /\ rescue_queued' = (rescue_queued /\ ~ReadyFull)
  /\ Go(t, task[t].then)
  /\ UNCHANGED <<free_q, item, rescue_owed, hs_lock, wg_tx, relay_up, ends, asked>>

(* An INIT that init_derp_only sends behind a re-send, under hs_lock:      *)
(* init_queue_relay_behind_resend.                                         *)
InitBehind(t) ==
  /\ t \in Initers /\ At(t, "idle") /\ relay_up /\ hs_lock = None /\ stop # "done"
  /\ hs_lock' = t
  /\ TestQueued(t, "init", TRUE)
  /\ UNCHANGED <<queues, flags, wg_tx, relay_up, ends>>

(* init_queue_relay: a slot claimed ...                                    *)
InitClaim(t) ==
  /\ At(t, "init") /\ Live /\ free_q # <<>>
  /\ free_q' = Tail(free_q)
  /\ task' = [task EXCEPT ![t].pc = "copy", ![t].slot = Head(free_q)]
  /\ UNCHANGED <<ready_q, item, flags, hs_lock, wg_tx, relay_up, ends, asked>>

(* ... or no copy goes ...                                                 *)
InitSkip(t) ==
  /\ At(t, "init") /\ (~Live \/ free_q = <<>>)
  /\ task' = [task EXCEPT ![t] = Idle]
  /\ hs_lock' = None
  /\ UNCHANGED <<queues, flags, wg_tx, relay_up, ends, asked>>

(* ... and the INIT copied into the slot and queued.                       *)
InitQueue(t) ==
  /\ At(t, "copy")
  /\ SendReady(task[t].slot)
  /\ item' = [item EXCEPT ![task[t].slot] = IF task[t].owes THEN "behind" ELSE "init"]
  /\ task' = [task EXCEPT ![t] = Idle]
  /\ hs_lock' = None
  /\ UNCHANGED <<free_q, flags, wg_tx, relay_up, ends, asked>>

-----------------------------------------------------------------------------
(* The DERP task: a login, then wg_netif_handshake_kick(RELAY_UP): a       *)
(* re-send the relay refused while it was down goes first, then the INIT's *)
(* copy, if one is in flight.                                              *)
Login ==
  /\ ~relay_up /\ At(Derp, "idle")
  /\ relay_up' = TRUE
  /\ Go(Derp, "login")
  /\ UNCHANGED <<queues, flags, hs_lock, wg_tx, ends, asked>>

Kick ==
  /\ At(Derp, "login") /\ hs_lock = None /\ stop # "done"
  /\ hs_lock' = Derp
  /\ IF rescue_owed THEN TestQueued(Derp, "kick", FALSE)
     ELSE Go(Derp, "kick") /\ UNCHANGED asked
  /\ UNCHANGED <<queues, flags, wg_tx, relay_up, ends>>

\* A netif that is gone takes no kick.
KickNone ==
  /\ At(Derp, "login") /\ stop = "done"
  /\ Go(Derp, "idle")
  /\ UNCHANGED <<queues, flags, hs_lock, wg_tx, relay_up, ends, asked>>

KickInit ==
  /\ At(Derp, "kick")
  /\ \/ Go(Derp, "init") /\ UNCHANGED <<hs_lock, asked>>
     \/ TestQueued(Derp, "init", TRUE) /\ UNCHANGED hs_lock
     \/ task' = [task EXCEPT ![Derp] = Idle] /\ hs_lock' = None /\ UNCHANGED asked
  /\ UNCHANGED <<queues, flags, wg_tx, relay_up, ends>>

RelayDown ==
  /\ relay_up
  /\ relay_up' = FALSE
  /\ UNCHANGED <<queues, flags, hs_lock, task, wg_tx, ends, asked>>

-----------------------------------------------------------------------------
(* wg_tx: tx_task_fn, tx_rescue.                                           *)
TxGo(pc) == wg_tx' = [wg_tx EXCEPT !.pc = pc]

TxTop ==
  /\ wg_tx.pc = "top"
  /\ TxGo(IF stop = "no" THEN "recv" ELSE "exit")
  /\ UNCHANGED <<queues, flags, hs_lock, task, relay_up, ends, asked>>

TxReceive ==
  /\ wg_tx.pc = "recv" /\ ready_q # <<>>
  /\ ready_q' = Tail(ready_q)
  /\ wg_tx' = LET x == Head(ready_q)
              IN CASE x = "RESCUE" -> [wg_tx EXCEPT !.pc = "clear"]
                   [] x = "STOP"   -> [wg_tx EXCEPT !.pc = "top"]
                   [] OTHER        -> [wg_tx EXCEPT !.pc = "send", !.slot = x]
  /\ UNCHANGED <<free_q, item, flags, hs_lock, task, relay_up, ends, asked>>

(* WG_TX_IDLE_WAIT_MS passes.                                              *)
TxIdle ==
  /\ wg_tx.pc = "recv" /\ ready_q = <<>>
  /\ TxGo("top")
  /\ UNCHANGED <<queues, flags, hs_lock, task, relay_up, ends, asked>>

(* tx_send_item has sent the frame, or not; the slot is free again.        *)
TxSent ==
  /\ wg_tx.pc = "send"
  /\ free_q' = Append(free_q, wg_tx.slot)
  /\ wg_tx' = [wg_tx EXCEPT !.pc = "top", !.slot = None]
  /\ UNCHANGED <<ready_q, item, flags, hs_lock, task, relay_up, ends, asked>>

\* Mutant: the flag stays up until the re-send is over.
TxClearLate ==
  /\ wg_tx.pc = "clear"
  /\ TxGo("flush")
  /\ UNCHANGED <<queues, flags, hs_lock, task, relay_up, ends, asked>>

(* tx_rescue: the flag down first ...                                      *)
TxClear ==
  /\ wg_tx.pc = "clear"
  /\ rescue_queued' = FALSE
  /\ TxGo("flush")
  /\ UNCHANGED <<queues, rescue_owed, hs_lock, task, relay_up, ends, asked>>

(* ... the pending frames handed to the relay; one that is down refuses    *)
(* and keeps those there are ...                                           *)
TxFlush(kept) ==
  /\ wg_tx.pc = "flush" /\ (kept => ~relay_up)
  /\ asked' = FALSE
  /\ item' = [s \in Slots |-> IF item[s] = "behind" THEN "init" ELSE item[s]]
  /\ task' = [t \in Tasks |-> [task[t] EXCEPT !.owes = FALSE]]
  /\ wg_tx' = [wg_tx EXCEPT !.pc = "owed", !.kept = kept]
  /\ UNCHANGED <<free_q, ready_q, flags, hs_lock, relay_up, ends>>

(* ... and last the flag the next login looks at.                          *)
TxOwed ==
  /\ wg_tx.pc = "owed"
  /\ rescue_owed' = wg_tx.kept
  /\ TxGo("top")
  /\ UNCHANGED <<queues, rescue_queued, hs_lock, task, relay_up, ends, asked>>

(* tx_done_sem given, the task deleted.                                    *)
TxExit ==
  /\ wg_tx.pc = "exit"
  /\ TxGo("gone")
  /\ UNCHANGED <<queues, flags, hs_lock, task, relay_up, ends, asked>>

-----------------------------------------------------------------------------
(* wg_netif_stop: the request and the sentinel, the wait for the worker    *)
(* (2 s), and the ring freed under hs_lock - or leaked.                    *)
Stop ==
  /\ stop = "no"
  /\ stop' = "wait"
  /\ SendReady("STOP")
  /\ UNCHANGED <<free_q, item, flags, hs_lock, task, wg_tx, relay_up, ring, asked>>

StopJoin ==
  /\ stop = "wait" /\ wg_tx.pc = "gone"
  /\ stop' = "joined"
  /\ UNCHANGED <<queues, flags, hs_lock, task, wg_tx, relay_up, ring, asked>>

StopTimeout ==
  /\ stop = "wait" /\ wg_tx.pc # "gone"
  /\ stop' = "late"
  /\ UNCHANGED <<queues, flags, hs_lock, task, wg_tx, relay_up, ring, asked>>

\* Mutant: the ring is freed whether or not the worker has exited.
StopFreeAnyway ==
  /\ stop \in {"joined", "late"} /\ hs_lock = None
  /\ ring' = "freed" /\ free_q' = <<>> /\ ready_q' = <<>>
  /\ stop' = "done"
  /\ UNCHANGED <<item, flags, hs_lock, task, wg_tx, relay_up, asked>>

StopFree ==
  /\ stop \in {"joined", "late"} /\ hs_lock = None
  /\ IF stop = "joined" THEN ring' = "freed" /\ free_q' = <<>> /\ ready_q' = <<>>
     ELSE UNCHANGED <<ring, free_q, ready_q>>
  /\ stop' = "done"
  /\ UNCHANGED <<item, flags, hs_lock, task, wg_tx, relay_up, asked>>

-----------------------------------------------------------------------------
TaskStep(t) ==
  \/ SealOk(t) \/ SealFails(t) \/ SetQueued(t) \/ QueueSentinel(t)
  \/ InitClaim(t) \/ InitSkip(t) \/ InitQueue(t)

TxStep ==
  TxTop \/ TxReceive \/ TxIdle \/ TxSent \/ TxClear \/ TxOwed \/ TxExit
  \/ \E kept \in BOOLEAN : TxFlush(kept)

Next ==
  \/ \E t \in Tasks : SendClaim(t) \/ PathActs(t) \/ InitBehind(t) \/ TaskStep(t)
  \/ Login \/ Kick \/ KickNone \/ KickInit \/ RelayDown
  \/ TxStep
  \/ Stop \/ StopJoin \/ StopTimeout \/ StopFree

Spec == Init /\ [][Next]_vars

\* A task inside an operation goes on, and the worker runs: none of them
\* waits for anything but hs_lock, which is held for a few steps.
FairSpec ==
  /\ Spec
  /\ \A t \in Tasks : WF_vars(TaskStep(t))
  /\ SF_vars(Kick) /\ WF_vars(KickInit) /\ WF_vars(TxStep)

-----------------------------------------------------------------------------
TypeOK ==
  /\ free_q \in Seq(Slots) /\ ready_q \in Seq(Slots \cup Sentinels)
  /\ Len(free_q) <= Cardinality(Slots) /\ Len(ready_q) <= ReadyDepth
  /\ item \in [Slots -> {"data", "init", "behind"}]
  /\ rescue_queued \in BOOLEAN /\ rescue_owed \in BOOLEAN /\ hs_lock \in Tasks \cup {None}
  /\ wg_tx.slot \in Slots \cup {None} /\ relay_up \in BOOLEAN
  /\ asked \in BOOLEAN

In(q, x) == \E i \in DOMAIN q : q[i] = x
Once(q, x) == \A i, j \in DOMAIN q : q[i] = x /\ q[j] = x => i = j

\* A slot is owned by whoever dequeued its index: it is never queued twice,
\* queued while a task or the worker has it, or in two hands, whatever the
\* senders, the INITs and the worker do.
SlotOwnedOnce == \A s \in Slots :
  /\ Once(free_q, s) /\ Once(ready_q, s) /\ ~(In(free_q, s) /\ In(ready_q, s))
  /\ In(free_q, s) \/ In(ready_q, s) => wg_tx.slot # s /\ \A t \in Tasks : task[t].slot # s
  /\ wg_tx.slot = s => \A t \in Tasks : task[t].slot # s
  /\ \A t, u \in Tasks : task[t].slot = s /\ task[u].slot = s => t = u

\* tx_ring_destroy never pulls the ring from under the worker, however long
\* it was in a write, nor from under an INIT's copy (hs_lock).
FreedRingUnused ==
  ring = "freed" => wg_tx.pc = "gone" /\ \A t \in Tasks : ~At(t, "copy")

\* Each slot in one hand, and the ring alive while any hand may hold one.
RingSound == SlotOwnedOnce /\ FreedRingUnused

\* queue_rescue and tx_rescue: a request dropped because one is queued is
\* served by that one; no order of the flag's test, set and clear loses it.
RescueServed == []<>(~asked \/ stop # "no")

\* init_queue_relay_behind_resend: the re-send's sentinel is in the queue
\* before the INIT, so the worker relays the kept frames first.
InitBehindResend == wg_tx.pc = "send" => item[wg_tx.slot] # "behind"
=============================================================================
