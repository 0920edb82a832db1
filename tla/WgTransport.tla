--------------------------- MODULE WgTransport ---------------------------
(***************************************************************************)
(* The WireGuard transport session of wg_transport.c, shared by several    *)
(* tasks of wg_netif.c under g.lock.                                       *)
(*                                                                         *)
(*   TX   lock { tx_reserve }   seal (unlocked, on a copy of the key)      *)
(*   RX   lock { rx_begin }     open (unlocked)     lock { rx_commit }     *)
(*                                                                         *)
(* A handshake response installs a new keypair in place, under the same    *)
(* lock; wg_netif_stop scrubs it.  A keypair is a number (0 is the zeroed  *)
(* key): its send key, receive key and indices change together.            *)
(***************************************************************************)
EXTENDS Integers

CONSTANTS
  Senders,        \* tasks that call send_plaintext (tiT, wg_rx, tinylink_derp)
  Receivers,      \* tasks that call handle_transport (wg_rx, tinylink_derp)
  Indices,        \* 32-bit receiver indices, as drawn by fresh_local_index
  WindowBits,     \* WG_REPLAY_WINDOW_BITS (8192)
  CounterMod,     \* 2^64: counters are 0 .. CounterMod - 1
  MaxGen          \* bound: keypair generations handed out

ASSUME TransportAssumption ==
  /\ WindowBits \in Nat \ {0}
  /\ CounterMod \in Nat
  /\ WindowBits < CounterMod
  /\ MaxGen \in Nat
  /\ Indices \subseteq Nat \ {0}
  /\ Senders \cap {"free", "swap"} = {}

Counters == 0 .. CounterMod - 1
Keypairs == 0 .. MaxGen          \* 0: no key material
Generations == 0 .. MaxGen
Slots == 0 .. WindowBits - 1
CounterRejectAt == CounterMod - 1

\* Holder of g.lock: a sender between the two halves of its reservation,
\* the handshake between the two halves of the key swap, or nobody.
Free == "free"
Swap == "swap"

VARIABLES
  lock,       \* holder of g.lock across more than one step
  session,    \* g.transport
  s_next_gen, \* the process-wide generation counter
  keypairs,   \* keypairs derived so far
  tx,         \* per sender: its wg_tx_ticket
  rx,         \* per receiver: its wg_rx_ticket and the packet being opened
  sealed,     \* history: times (keypair, counter) was sealed
  delivered   \* history: times the peer's (keypair, counter) was accepted

vars == <<lock, session, s_next_gen, keypairs, tx, rx, sealed, delivered>>

NoSession == [valid |-> FALSE, key |-> 0, local_index |-> 0,
              send_counter |-> 0, gen |-> 0, highest |-> 0, bitmap |-> {}]
NoTxTicket == [pc |-> "idle", key |-> 0, counter |-> 0]
NoRxTicket == [pc |-> "idle", key |-> 0, counter |-> 0, gen |-> 0, sealedBy |-> 0]

-----------------------------------------------------------------------------
(* The RFC 6479 window: `highest` and a ring of WindowBits bits, here the  *)
(* set of the slots whose bit is set.                                      *)

Slot(c) == c % WindowBits

\* The 64-bit sum wraps, as in the code.
wg_replay_check(s, c) ==
  /\ c # CounterRejectAt
  /\ \/ c > s.highest
     \/ /\ (c + WindowBits) % CounterMod > s.highest
        /\ Slot(c) \notin s.bitmap

\* Mutant: a jump past the whole window keeps the old bits.
wg_replay_update_far_jump_keeps_bits(s, c) ==
  IF c > s.highest
  THEN [s EXCEPT !.highest = c,
                 !.bitmap = (IF c - s.highest >= WindowBits THEN @
                             ELSE @ \ {Slot(d) : d \in s.highest + 1 .. c})
                            \cup {Slot(c)}]
  ELSE [s EXCEPT !.bitmap = @ \cup {Slot(c)}]

wg_replay_update(s, c) ==
  IF c > s.highest
  THEN [s EXCEPT !.highest = c,
                 !.bitmap = (IF c - s.highest >= WindowBits THEN {}
                             ELSE @ \ {Slot(d) : d \in s.highest + 1 .. c})
                            \cup {Slot(c)}]
  ELSE [s EXCEPT !.bitmap = @ \cup {Slot(c)}]

-----------------------------------------------------------------------------
Init ==
  /\ lock = Free
  /\ session = NoSession
  /\ s_next_gen = 0
  /\ keypairs = 0
  /\ tx = [s \in Senders |-> NoTxTicket]
  /\ rx = [r \in Receivers |-> NoRxTicket]
  /\ sealed = [kc \in Keypairs \X Counters |-> 0]
  /\ delivered = [kc \in Keypairs \X Counters |-> 0]

\* Mutant: the key swap does not take g.lock.
SessionInitKeysUnlocked(idx) ==
  /\ lock # Swap
  /\ s_next_gen < MaxGen
  /\ lock' = Swap
  /\ keypairs' = keypairs + 1
  /\ session' = [session EXCEPT !.key = keypairs + 1, !.local_index = idx]
  /\ UNCHANGED <<s_next_gen, tx, rx, sealed, delivered>>

(* handle_handshake_response_locked, an accepted response: g.lock is taken *)
(* and wg_transport_session_init copies the keys and indices in ...        *)
SessionInitKeys(idx) ==
  /\ lock = Free
  /\ s_next_gen < MaxGen
  /\ lock' = Swap
  /\ keypairs' = keypairs + 1
  /\ session' = [session EXCEPT !.key = keypairs + 1, !.local_index = idx]
  /\ UNCHANGED <<s_next_gen, tx, rx, sealed, delivered>>

(* ... and then resets the counter, takes a generation and wipes the       *)
(* window; g.lock is given back.                                           *)
SessionInitReset ==
  /\ lock = Swap
  /\ lock' = Free
  /\ s_next_gen' = s_next_gen + 1
  /\ session' = [session EXCEPT !.send_counter = 0, !.gen = s_next_gen + 1,
                                !.valid = TRUE, !.highest = 0, !.bitmap = {}]
  /\ UNCHANGED <<keypairs, tx, rx, sealed, delivered>>

(* wg_netif_stop: everything zeroed, and a new generation.                 *)
SessionScrub ==
  /\ lock = Free
  /\ s_next_gen < MaxGen
  /\ s_next_gen' = s_next_gen + 1
  /\ session' = [NoSession EXCEPT !.gen = s_next_gen + 1]
  /\ UNCHANGED <<lock, keypairs, tx, rx, sealed, delivered>>

(* wg_transport_tx_reserve, first half: t->counter = s->send_counter++.    *)
TxReserveCounter(s) ==
  /\ tx[s].pc = "idle"
  /\ lock = Free
  /\ session.valid
  /\ session.send_counter # CounterRejectAt
  /\ lock' = s
  /\ tx' = [tx EXCEPT ![s] = [pc |-> "key", key |-> 0,
                              counter |-> session.send_counter]]
  /\ session' = [session EXCEPT !.send_counter = @ + 1]
  /\ UNCHANGED <<s_next_gen, keypairs, rx, sealed, delivered>>

(* Second half: the send key of the same keypair; g.lock is given back.    *)
TxReserveKey(s) ==
  /\ tx[s].pc = "key"
  /\ lock' = Free
  /\ tx' = [tx EXCEPT ![s].pc = "seal", ![s].key = session.key]
  /\ UNCHANGED <<session, s_next_gen, keypairs, rx, sealed, delivered>>

(* wg_transport_tx_seal, unlocked: the frame goes to the slot, or the      *)
(* output was too short and the counter is spent for nothing.              *)
TxSeal(s) ==
  /\ tx[s].pc = "seal"
  /\ tx' = [tx EXCEPT ![s] = NoTxTicket]
  /\ \/ sealed' = [sealed EXCEPT ![<<tx[s].key, tx[s].counter>>] = @ + 1]
     \/ UNCHANGED sealed
  /\ UNCHANGED <<lock, session, s_next_gen, keypairs, rx, delivered>>

(* wg_transport_rx_begin on a packet whose header says (idx, c): sealed by *)
(* the peer under keypair k, or by nobody (k = 0: damaged or not a packet  *)
(* of the peer).  Any other packet is dropped without a trace.             *)
RxBegin(r, idx, c, k) ==
  /\ rx[r].pc = "idle"
  /\ lock = Free
  /\ session.valid
  /\ idx = session.local_index
  /\ wg_replay_check(session, c)
  /\ rx' = [rx EXCEPT ![r] = [pc |-> "open", key |-> session.key, counter |-> c,
                              gen |-> session.gen, sealedBy |-> k]]
  /\ UNCHANGED <<lock, session, s_next_gen, keypairs, tx, sealed, delivered>>

\* Mutant: the tag is not verified before the commit.
RxOpenUnverified(r) ==
  /\ rx[r].pc = "open"
  /\ rx' = [rx EXCEPT ![r].pc = "commit"]
  /\ UNCHANGED <<lock, session, s_next_gen, keypairs, tx, sealed, delivered>>

(* Between begin and commit: no pbuf, or the tag does not verify under the *)
(* ticket's key - dropped; else the packet is authentic.                   *)
RxOpen(r) ==
  /\ rx[r].pc = "open"
  /\ \/ rx' = [rx EXCEPT ![r] = NoRxTicket]
     \/ /\ rx[r].sealedBy = rx[r].key
        /\ rx' = [rx EXCEPT ![r].pc = "commit"]
  /\ UNCHANGED <<lock, session, s_next_gen, keypairs, tx, sealed, delivered>>

Stale(r) == ~session.valid \/ session.gen # rx[r].gen

\* Mutant: the window is not checked again.
RxCommitNoRecheck(r) ==
  /\ rx[r].pc = "commit"
  /\ lock = Free
  /\ rx' = [rx EXCEPT ![r] = NoRxTicket]
  /\ IF Stale(r) THEN UNCHANGED <<session, delivered>>
     ELSE /\ session' = wg_replay_update(session, rx[r].counter)
          /\ delivered' = [delivered EXCEPT ![<<rx[r].sealedBy, rx[r].counter>>] = @ + 1]
  /\ UNCHANGED <<lock, s_next_gen, keypairs, tx, sealed>>

(* wg_transport_rx_commit: stale keypair, or accepted meanwhile - dropped; *)
(* else the counter is recorded and the payload delivered.                 *)
RxCommit(r) ==
  /\ rx[r].pc = "commit"
  /\ lock = Free
  /\ rx' = [rx EXCEPT ![r] = NoRxTicket]
  /\ IF Stale(r) \/ ~wg_replay_check(session, rx[r].counter)
     THEN UNCHANGED <<session, delivered>>
     ELSE /\ session' = wg_replay_update(session, rx[r].counter)
          /\ delivered' = [delivered EXCEPT ![<<rx[r].sealedBy, rx[r].counter>>] = @ + 1]
  /\ UNCHANGED <<lock, s_next_gen, keypairs, tx, sealed>>

Next ==
  \/ \E idx \in Indices : SessionInitKeys(idx)
  \/ SessionInitReset
  \/ SessionScrub
  \/ \E s \in Senders : TxReserveCounter(s) \/ TxReserveKey(s) \/ TxSeal(s)
  \/ \E r \in Receivers :
       \/ \E idx \in Indices, c \in Counters, k \in 0 .. keypairs : RxBegin(r, idx, c, k)
       \/ RxOpen(r)
       \/ RxCommit(r)

Spec == Init /\ [][Next]_vars

-----------------------------------------------------------------------------
TxTickets == [pc : {"idle", "key", "seal"}, key : Keypairs, counter : Counters]
RxTickets == [pc : {"idle", "open", "commit"}, key : Keypairs, counter : Counters,
              gen : Generations, sealedBy : Keypairs]
Sessions == [valid : BOOLEAN, key : Keypairs, local_index : Indices \cup {0},
             send_counter : Counters, gen : Generations, highest : Counters,
             bitmap : SUBSET Slots]

TypeOK ==
  /\ lock \in Senders \cup {Free, Swap}
  /\ session \in Sessions
  /\ s_next_gen \in Generations
  /\ keypairs \in Keypairs
  /\ tx \in [Senders -> TxTickets]
  /\ rx \in [Receivers -> RxTickets]
  /\ sealed \in [Keypairs \X Counters -> Nat]
  /\ delivered \in [Keypairs \X Counters -> Nat]

(* tx_reserve hands a counter out once per keypair, whatever key swap or   *)
(* other sender runs between the reservation and the seal: no AEAD nonce   *)
(* is ever used twice under one key (wg_netif.c, the comment above         *)
(* handle_handshake_response_locked).                                      *)
NonceOnce == \A kc \in DOMAIN sealed : sealed[kc] <= 1

(* rx_begin / rx_open / rx_commit: two tasks opening the direct and the    *)
(* relayed copy of one packet, or a copy opened across a rekey, deliver it *)
(* at most once.                                                           *)
DeliveredOnce == \A kc \in DOMAIN delivered : delivered[kc] <= 1

(* The ring is exact: wg_replay_check accepts an in-window counter if and  *)
(* only if it was not delivered under the session's keypair - no replay    *)
(* gets in and no first copy is refused, however the ring wrapped.  (In    *)
(* the last WindowBits counters before the wrap the check only accepts     *)
(* increasing ones: the sum overflows.)                                    *)
ReplayCheckExact ==
  session.valid /\ lock # Swap =>
    \A c \in 0 .. CounterMod - 1 - WindowBits :
      wg_replay_check(session, c) <=>
        c + WindowBits > session.highest /\ delivered[<<session.key, c>>] = 0

(* The window moves only for an authentic packet of the session's own      *)
(* keypair: `highest` is 0 or a counter delivered under it.                *)
WindowAuthentic ==
  session.valid /\ lock # Swap /\ session.highest # 0 =>
    delivered[<<session.key, session.highest>>] = 1

-----------------------------------------------------------------------------
(* What makes NonceOnce and DeliveredOnce inductive.                       *)

Active(s) == tx[s].pc # "idle"
\* The keypair a reservation belongs to, from its counter on.
TicketKey(s) == IF tx[s].pc = "key" THEN session.key ELSE tx[s].key

(* g.lock and the generation and keypair counters.                         *)
LockInv ==
  /\ \A s \in Senders : tx[s].pc = "key" <=> lock = s
  /\ lock = Swap => s_next_gen < MaxGen
  /\ keypairs <= s_next_gen + (IF lock = Swap THEN 1 ELSE 0)
  /\ session.gen <= s_next_gen
  /\ session.key <= keypairs
  /\ session.valid \/ lock = Swap => session.key = keypairs
  /\ \A s \in Senders : tx[s].pc = "key" => session.valid

(* Every reservation in flight holds a nonce nobody else holds and nobody  *)
(* has sealed, below the session's counter; a keypair being installed has  *)
(* none yet.                                                               *)
TxInv ==
  /\ \A s \in Senders : Active(s) =>
        /\ TicketKey(s) <= keypairs
        /\ sealed[<<TicketKey(s), tx[s].counter>>] = 0
        /\ session.valid /\ lock # Swap /\ TicketKey(s) = session.key
             => tx[s].counter < session.send_counter
        /\ lock = Swap => TicketKey(s) # session.key
  /\ \A s, t \in Senders : Active(s) /\ Active(t) /\ s # t =>
        <<TicketKey(s), tx[s].counter>> # <<TicketKey(t), tx[t].counter>>
  /\ \A k \in Keypairs, c \in Counters : sealed[<<k, c>>] # 0 =>
        /\ k <= keypairs
        /\ session.valid /\ lock # Swap /\ k = session.key => c < session.send_counter
        /\ lock = Swap => k # session.key

(* A ticket of the current generation holds the current key; the window    *)
(* is exact for it; a keypair being installed has no history.              *)
RxInv ==
  /\ \A r \in Receivers : rx[r].pc # "idle" =>
        /\ rx[r].gen <= s_next_gen
        /\ session.valid /\ lock # Swap /\ session.gen = rx[r].gen
             => rx[r].key = session.key
        /\ rx[r].pc = "commit" => rx[r].sealedBy = rx[r].key
  /\ \A k \in Keypairs, c \in Counters : delivered[<<k, c>>] # 0 =>
        /\ k <= keypairs
        /\ lock = Swap => k # session.key
        /\ session.valid /\ lock # Swap /\ k = session.key => c <= session.highest
  /\ session.valid /\ lock # Swap =>
        \A c \in Counters : c <= session.highest /\ session.highest < c + WindowBits =>
          (Slot(c) \in session.bitmap <=> delivered[<<session.key, c>>] # 0)
=============================================================================
