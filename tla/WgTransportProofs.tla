------------------------ MODULE WgTransportProofs ------------------------
(* Proofs about WgTransport, for every number of senders and receivers,   *)
(* every window size, counter width and number of keypairs.               *)
EXTENDS WgTransport, TLAPS

-----------------------------------------------------------------------------
(* The ring *)

(* Lemma: a counter's slot is a bit of the bitmap (wg_replay_check's pos). *)
LEMMA SlotType == ASSUME NEW a \in Nat PROVE Slot(a) \in Slots
  BY TransportAssumption DEF Slot, Slots

(* Lemma: no multiple of w lies strictly between 0 and w.                  *)
LEMMA NoMultipleBetween ==
  ASSUME NEW w \in Nat \ {0}, NEW q \in Int, 0 < w * q, w * q < w PROVE FALSE
<1>1. CASE q <= 0
  <2>1. w * q <= 0  BY <1>1
  <2> QED  BY <2>1
<1>2. CASE q >= 1
  <2>1. w * (q - 1) >= 0  BY <1>2
  <2>2. w * (q - 1) = w * q - w  OBVIOUS
  <2> QED  BY <2>1, <2>2
<1> QED  BY <1>1, <1>2

(* Lemma: counters less than a window apart never share a bit.             *)
LEMMA SlotsApart ==
  ASSUME NEW a \in Nat, NEW b \in Nat, a < b, b - a < WindowBits
  PROVE  Slot(a) # Slot(b)
<1> DEFINE qa == a \div WindowBits
           qb == b \div WindowBits
<1>1. a = WindowBits * qa + Slot(a) /\ qa \in Int  BY TransportAssumption DEF Slot
<1>2. b = WindowBits * qb + Slot(b) /\ qb \in Int  BY TransportAssumption DEF Slot
<1>3. SUFFICES ASSUME Slot(a) = Slot(b) PROVE FALSE  OBVIOUS
<1>4. Slot(a) \in Int  BY SlotType DEF Slots
<1> HIDE DEF qa, qb
<1>5. b - a = WindowBits * qb - WindowBits * qa
  BY <1>1, <1>2, <1>3, <1>4, TransportAssumption
<1>6. WindowBits * qb - WindowBits * qa = WindowBits * (qb - qa)
  BY <1>1, <1>2, TransportAssumption
<1> QED  BY <1>1, <1>2, <1>5, <1>6, TransportAssumption, NoMultipleBetween

(* Lemma: below `highest` the check accepts only inside the window - when  *)
(* the 64-bit sum wraps it falls below `highest` and the counter is        *)
(* refused.                                                                *)
LEMMA CheckInWindow ==
  ASSUME NEW s \in Sessions, NEW c \in Counters,
         wg_replay_check(s, c), c <= s.highest
  PROVE  s.highest < c + WindowBits /\ Slot(c) \notin s.bitmap
<1>1. (c + WindowBits) % CounterMod > s.highest /\ Slot(c) \notin s.bitmap
  BY DEF wg_replay_check, Sessions, Counters
<1>2. CASE c + WindowBits < CounterMod
  BY <1>1, <1>2, TransportAssumption DEF Sessions, Counters
<1>3. CASE c + WindowBits >= CounterMod
  <2>1. (c + WindowBits) % CounterMod = c + WindowBits - CounterMod
    BY <1>3, TransportAssumption DEF Counters
  <2> QED  BY <1>1, <2>1, TransportAssumption DEF Sessions, Counters
<1> QED  BY <1>1, <1>2, <1>3, TransportAssumption DEF Counters

(* Lemma: wg_replay_update keeps the bits of the counters that stay in the *)
(* window, sets the new one, and clears those it jumped over.              *)
LEMMA UpdateExact ==
  ASSUME NEW s \in Sessions, NEW c \in Counters, NEW d \in Counters,
         s.highest < c + WindowBits,
         d <= wg_replay_update(s, c).highest,
         wg_replay_update(s, c).highest < d + WindowBits
  PROVE  Slot(d) \in wg_replay_update(s, c).bitmap <=>
           \/ d = c
           \/ d <= s.highest /\ s.highest < d + WindowBits /\ Slot(d) \in s.bitmap
<1> USE TransportAssumption DEF Sessions, Counters
<1>1. CASE c > s.highest
  <2>1. wg_replay_update(s, c).highest = c  BY <1>1 DEF wg_replay_update
  <2>2. d <= c /\ c - d < WindowBits  BY <2>1
  <2>3. Slot(d) = Slot(c) <=> d = c  BY <2>2, SlotsApart
  <2>4. CASE c - s.highest >= WindowBits
    <3>1. wg_replay_update(s, c).bitmap = {Slot(c)}  BY <1>1, <2>4 DEF wg_replay_update
    <3> QED  BY <2>2, <2>3, <2>4, <3>1
  <2>5. CASE c - s.highest < WindowBits
    <3>1. wg_replay_update(s, c).bitmap =
            (s.bitmap \ {Slot(e) : e \in s.highest + 1 .. c}) \cup {Slot(c)}
      BY <1>1, <2>5 DEF wg_replay_update
    <3>2. CASE d <= s.highest
      <4>1. \A e \in s.highest + 1 .. c : Slot(e) # Slot(d)
        BY <2>2, <3>2, SlotsApart
      <4> QED  BY <1>1, <2>2, <2>3, <3>1, <3>2, <4>1
    <3>3. CASE d > s.highest
      <4>1. d \in s.highest + 1 .. c  BY <2>2, <3>3
      <4> QED  BY <2>3, <3>1, <3>3, <4>1
    <3> QED  BY <3>2, <3>3
  <2> QED  BY <2>4, <2>5
<1>2. CASE c <= s.highest
  <2>1. wg_replay_update(s, c).highest = s.highest
        /\ wg_replay_update(s, c).bitmap = s.bitmap \cup {Slot(c)}
    BY <1>2 DEF wg_replay_update
  <2>2. Slot(d) = Slot(c) <=> d = c
    <3>1. CASE d < c  BY <1>2, <2>1, <3>1, SlotsApart
    <3>2. CASE c < d  BY <1>2, <2>1, <3>2, SlotsApart
    <3> QED  BY <3>1, <3>2
  <2> QED  BY <2>1, <2>2
<1> QED  BY <1>1, <1>2

(* Lemma: wg_replay_update returns a session, and its `highest` is the     *)
(* larger of the two counters; keys, index and generation stay.            *)
LEMMA UpdateType ==
  ASSUME NEW s \in Sessions, NEW c \in Counters
  PROVE  /\ wg_replay_update(s, c) \in Sessions
         /\ wg_replay_update(s, c).highest = IF c > s.highest THEN c ELSE s.highest
         /\ wg_replay_update(s, c).key = s.key
         /\ wg_replay_update(s, c).gen = s.gen
         /\ wg_replay_update(s, c).valid = s.valid
         /\ wg_replay_update(s, c).send_counter = s.send_counter
<1>1. Slot(c) \in Slots  BY SlotType, TransportAssumption DEF Counters
<1> QED  BY <1>1 DEF wg_replay_update, Sessions

-----------------------------------------------------------------------------
(* Types, the lock, and the counters of generations and keypairs *)

TypeInv == TypeOK /\ LockInv

(* Lemma: tx_reserve's s->send_counter++ never wraps, behind its guard.    *)
LEMMA NextCounter ==
  ASSUME NEW c \in Counters, c # CounterRejectAt PROVE c + 1 \in Counters
  BY TransportAssumption DEF Counters, CounterRejectAt

(* Lemma: TypeInv holds initially.                                         *)
LEMMA TypeInit == Init => TypeInv
  BY TransportAssumption DEF Init, TypeInv, TypeOK, LockInv, NoSession, NoTxTicket,
     NoRxTicket, Sessions, TxTickets, RxTickets, Keypairs, Generations, Counters,
     Slots, Free, Swap

(* Lemma: every step keeps types, the lock discipline and the counters.    *)
LEMMA TypeStep == TypeInv /\ [Next]_vars => TypeInv'
<1> SUFFICES ASSUME TypeInv, [Next]_vars PROVE TypeInv'  OBVIOUS
<1> USE TransportAssumption DEF TypeInv, TypeOK, LockInv, Free, Swap
<1>1. ASSUME NEW idx \in Indices, SessionInitKeys(idx) PROVE TypeInv'
  <2>1. keypairs + 1 \in Keypairs
    BY <1>1 DEF SessionInitKeys, Keypairs, Generations
  <2>2. /\ session' \in Sessions
        /\ session'.key = keypairs + 1
        /\ session'.gen = session.gen /\ session'.valid = session.valid
    BY <1>1, <2>1 DEF SessionInitKeys, Sessions
  <2>3. TypeOK'
    BY <1>1, <2>1, <2>2 DEF SessionInitKeys
  <2>4. LockInv'
    BY <1>1, <2>1, <2>2 DEF SessionInitKeys, Sessions, Keypairs, Generations
  <2> QED  BY <2>3, <2>4
<1>2. CASE SessionInitReset
  <2>1. s_next_gen + 1 \in Generations /\ 0 \in Counters
    BY <1>2 DEF SessionInitReset, Generations, Counters
  <2>2. /\ session' \in Sessions
        /\ session'.key = session.key
        /\ session'.gen = s_next_gen + 1 /\ session'.valid = TRUE
    BY <1>2, <2>1 DEF SessionInitReset, Sessions
  <2>3. TypeOK'
    BY <1>2, <2>1, <2>2 DEF SessionInitReset
  <2>4. LockInv'
    BY <1>2, <2>1, <2>2 DEF SessionInitReset, Sessions, Keypairs, Generations
  <2> QED  BY <2>3, <2>4
<1>3. CASE SessionScrub
  <2>1. s_next_gen + 1 \in Generations /\ 0 \in Counters /\ 0 \in Keypairs
    BY <1>3 DEF SessionScrub, Generations, Counters, Keypairs
  <2>2. /\ session' \in Sessions
        /\ session'.key = 0
        /\ session'.gen = s_next_gen + 1 /\ session'.valid = FALSE
    BY <1>3, <2>1 DEF SessionScrub, NoSession, Sessions
  <2>3. TypeOK'
    BY <1>3, <2>1, <2>2 DEF SessionScrub
  <2>4. LockInv'
    BY <1>3, <2>1, <2>2 DEF SessionScrub, Sessions, Keypairs, Generations
  <2> QED  BY <2>3, <2>4
<1>4. ASSUME NEW s \in Senders, TxReserveCounter(s) PROVE TypeInv'
  <2>0. session.send_counter + 1 \in Counters
    <3>1. session.send_counter \in Counters  BY DEF Sessions
    <3>2. session.send_counter # CounterRejectAt  BY <1>4 DEF TxReserveCounter
    <3> QED  BY <3>1, <3>2, NextCounter
  <2>1. /\ session' \in Sessions
        /\ session' = [session EXCEPT !.send_counter = session.send_counter + 1]
    BY <1>4, <2>0 DEF TxReserveCounter, Sessions
  <2>2. /\ tx' \in [Senders -> TxTickets]
        /\ \A t \in Senders : tx'[t].pc = IF t = s THEN "key" ELSE tx[t].pc
    BY <1>4 DEF TxReserveCounter, TxTickets, Sessions, Keypairs
  <2>3. /\ session'.key = session.key /\ session'.gen = session.gen
        /\ session'.valid = session.valid
    BY <2>1 DEF Sessions
  <2>4. lock = Free /\ lock' = s /\ session.valid
        /\ s_next_gen' = s_next_gen /\ keypairs' = keypairs
    BY <1>4 DEF TxReserveCounter
  <2>5. TypeOK'  BY <1>4, <2>1, <2>2 DEF TxReserveCounter
  <2>6. LockInv'
    <3>1. \A t \in Senders : tx[t].pc # "key" /\ t # Free /\ t # Swap  BY <2>4
    <3>2. \A t \in Senders : tx'[t].pc = "key" <=> lock' = t  BY <2>2, <2>4, <3>1
    <3> QED  BY <2>3, <2>4, <3>1, <3>2
  <2> QED  BY <2>5, <2>6
<1>5. ASSUME NEW s \in Senders, TxReserveKey(s) PROVE TypeInv'
  <2>1. /\ tx' \in [Senders -> TxTickets]
        /\ \A t \in Senders : tx'[t].pc = IF t = s THEN "seal" ELSE tx[t].pc
    <3> DEFINE new == [tx[s] EXCEPT !.pc = "seal", !.key = session.key]
    <3>1. tx[s] \in TxTickets /\ session.key \in Keypairs
      BY DEF Sessions
    <3>2. new \in TxTickets /\ new.pc = "seal"
      <4> HIDE DEF TypeInv, TypeOK, LockInv
      <4> QED  BY ONLY <3>1 DEF TxTickets
    <3>3. tx' = [tx EXCEPT ![s] = new]
      BY <1>5 DEF TxReserveKey
    <3>4. tx \in [Senders -> TxTickets]
      OBVIOUS
    <3> HIDE DEF new
    <3> QED  BY ONLY <3>2, <3>3, <3>4, s \in Senders
  <2> QED  BY <1>5, <2>1 DEF TxReserveKey
<1>6. ASSUME NEW s \in Senders, TxSeal(s) PROVE TypeInv'
  <2>1. /\ tx' \in [Senders -> TxTickets]
        /\ \A t \in Senders : tx'[t].pc = IF t = s THEN "idle" ELSE tx[t].pc
    BY <1>6 DEF TxSeal, NoTxTicket, TxTickets, Keypairs, Counters
  <2>2. sealed' \in [Keypairs \X Counters -> Nat]
    BY <1>6 DEF TxSeal, TxTickets
  <2> QED  BY <1>6, <2>1, <2>2 DEF TxSeal
<1>7. ASSUME NEW r \in Receivers, NEW idx \in Indices, NEW c \in Counters,
             NEW k \in 0 .. keypairs, RxBegin(r, idx, c, k)
      PROVE  TypeInv'
  <2>1. rx' \in [Receivers -> RxTickets]
    BY <1>7 DEF RxBegin, RxTickets, Sessions, Keypairs
  <2> QED  BY <1>7, <2>1 DEF RxBegin
<1>8. ASSUME NEW r \in Receivers, RxOpen(r) PROVE TypeInv'
  <2>1. rx' \in [Receivers -> RxTickets]
    <3>1. NoRxTicket \in RxTickets
      BY DEF NoRxTicket, RxTickets, Keypairs, Counters, Generations
    <3>2. [rx[r] EXCEPT !.pc = "commit"] \in RxTickets
      BY DEF RxTickets
    <3> QED  BY <1>8, <3>1, <3>2 DEF RxOpen
  <2> QED  BY <1>8, <2>1 DEF RxOpen
<1>9. ASSUME NEW r \in Receivers, RxCommit(r) PROVE TypeInv'
  <2>1. rx' \in [Receivers -> RxTickets]
    <3>1. NoRxTicket \in RxTickets
      BY DEF NoRxTicket, RxTickets, Keypairs, Counters, Generations
    <3> QED  BY <1>9, <3>1 DEF RxCommit
  <2>2. /\ session' \in Sessions
        /\ session'.key = session.key /\ session'.gen = session.gen
        /\ session'.valid = session.valid
    <3>1. rx[r].counter \in Counters
      BY DEF RxTickets
    <3> QED  BY <1>9, <3>1, UpdateType DEF RxCommit
  <2>3. delivered' \in [Keypairs \X Counters -> Nat]
    <3>1. <<rx[r].sealedBy, rx[r].counter>> \in Keypairs \X Counters
      BY DEF RxTickets
    <3>2. \/ delivered' = delivered
          \/ delivered' = [delivered EXCEPT ![<<rx[r].sealedBy, rx[r].counter>>] = @ + 1]
      BY <1>9 DEF RxCommit
    <3> QED  BY <3>1, <3>2
  <2>4. UNCHANGED <<lock, s_next_gen, keypairs, tx, sealed>>
    BY <1>9 DEF RxCommit
  <2>5. TypeOK'  BY <2>1, <2>2, <2>3, <2>4
  <2>6. LockInv'  BY <2>2, <2>4
  <2> QED  BY <2>5, <2>6
<1>10. CASE UNCHANGED vars
  BY <1>10 DEF vars
<1> QED  BY <1>1, <1>2, <1>3, <1>4, <1>5, <1>6, <1>7, <1>8, <1>9, <1>10 DEF Next

(* Theorem: the type invariant, and that g.lock is held across a reserve   *)
(* or a key swap and nowhere else, whatever the interleaving.              *)
THEOREM TypeCorrect == Spec => [](TypeOK /\ LockInv)
<1>1. Spec => []TypeInv  BY TypeInit, TypeStep, PTL DEF Spec
<1> QED  BY <1>1, PTL DEF TypeInv

-----------------------------------------------------------------------------
(* No nonce twice *)

TxSafe == TxInv /\ NonceOnce

(* Lemma: what a ticket holds is a keypair and a counter.                  *)
LEMMA TicketType ==
  ASSUME TypeOK, NEW s \in Senders
  PROVE  /\ TicketKey(s) \in Keypairs
         /\ tx[s].counter \in Counters
         /\ session.key \in Keypairs
         /\ session.send_counter \in Counters
         /\ tx[s].pc \in {"idle", "key", "seal"}
  BY DEF TypeOK, TxTickets, Sessions, TicketKey

(* Lemma: nothing is sealed or reserved at first.                          *)
LEMMA TxSafeInit == Init => TxSafe
  BY DEF Init, TxSafe, TxInv, NonceOnce, Active, NoTxTicket

(* Lemma: a step that leaves the tickets, the sealed frames, the keypair,  *)
(* its counter and its validity alone cannot reuse a nonce.                *)
LEMMA TxSafeFrame ==
  ASSUME TxSafe, UNCHANGED <<lock, keypairs, tx, sealed>>,
         session'.valid = session.valid, session'.key = session.key,
         session'.send_counter = session.send_counter
  PROVE  TxSafe'
  BY DEF TxSafe, TxInv, NonceOnce, Active, TicketKey

(* Lemma: no step reuses a nonce or leaves a ticket whose nonce is taken.  *)
LEMMA TxSafeStep == TypeInv /\ TypeInv' /\ TxSafe /\ [Next]_vars => TxSafe'
<1> SUFFICES ASSUME TypeInv, TypeInv', TxSafe, [Next]_vars PROVE TxSafe'  OBVIOUS
<1>t. \A s \in Senders : /\ TicketKey(s) \in Keypairs
                         /\ tx[s].counter \in Counters
                         /\ tx[s].pc \in {"idle", "key", "seal"}
  BY TicketType DEF TypeInv
<1>k. /\ session.key \in Keypairs /\ session.send_counter \in Counters
      /\ keypairs \in Keypairs
  BY DEF TypeInv, TypeOK, Sessions
<1>n. /\ keypairs \in Int /\ session.key \in Int /\ session.send_counter \in Int
      /\ \A s \in Senders : TicketKey(s) \in Int /\ tx[s].counter \in Int
      /\ \A k \in Keypairs : k \in Int
      /\ \A c \in Counters : c \in Int
  BY <1>t, <1>k DEF Keypairs, Counters
<1>f. Free \notin Senders /\ Swap \notin Senders /\ Free # Swap
  BY TransportAssumption DEF Free, Swap
<1>l. \A s \in Senders : tx[s].pc = "key" <=> lock = s
  BY DEF TypeInv, LockInv
<1>1. ASSUME NEW idx \in Indices, SessionInitKeys(idx) PROVE TxSafe'
  <2>1. \A s \in Senders : Active(s) => TicketKey(s)' = TicketKey(s) /\ Active(s)'
    BY <1>1, <1>l, <1>f, <1>t DEF SessionInitKeys, TicketKey, Active
  <2>2. lock = Free /\ lock' = Swap /\ tx' = tx /\ sealed' = sealed
        /\ keypairs' = keypairs + 1
    BY <1>1 DEF SessionInitKeys
  <2>3. session'.key = keypairs + 1
    BY <1>1 DEF SessionInitKeys, TypeInv, TypeOK, Sessions
  <2> QED  BY <2>1, <2>2, <2>3, <1>t, <1>k, <1>n, <1>f DEF TxSafe, TxInv, NonceOnce, Active
<1>2. CASE SessionInitReset
  <2>1. \A s \in Senders : Active(s) => TicketKey(s)' = TicketKey(s) /\ Active(s)'
    BY <1>2, <1>l, <1>f, <1>t DEF SessionInitReset, TicketKey, Active
  <2>2. /\ lock = Swap /\ lock' = Free /\ tx' = tx /\ sealed' = sealed
        /\ keypairs' = keypairs
    BY <1>2 DEF SessionInitReset
  <2>3. session'.key = session.key
    BY <1>2 DEF SessionInitReset, TypeInv, TypeOK, Sessions
  <2> QED  BY <2>1, <2>2, <2>3, <1>f DEF TxSafe, TxInv, NonceOnce, Active
<1>3. CASE SessionScrub
  <2>1. \A s \in Senders : Active(s) => TicketKey(s)' = TicketKey(s) /\ Active(s)'
    BY <1>3, <1>l, <1>f, <1>t DEF SessionScrub, TicketKey, Active
  <2>2. /\ lock = Free /\ lock' = Free /\ tx' = tx /\ sealed' = sealed
        /\ keypairs' = keypairs /\ session'.valid = FALSE
    BY <1>3 DEF SessionScrub, NoSession
  <2> QED  BY <2>1, <2>2, <1>f DEF TxSafe, TxInv, NonceOnce, Active
<1>4. ASSUME NEW s \in Senders, TxReserveCounter(s) PROVE TxSafe'
  <2>1. /\ lock = Free /\ lock' = s /\ keypairs' = keypairs /\ sealed' = sealed
        /\ session.valid /\ tx[s].pc = "idle"
    BY <1>4 DEF TxReserveCounter
  <2>2. /\ session'.key = session.key /\ session'.valid = session.valid
        /\ session'.send_counter = session.send_counter + 1
    BY <1>4 DEF TxReserveCounter, TypeInv, TypeOK, Sessions
  <2>3. /\ tx'[s].pc = "key" /\ tx'[s].counter = session.send_counter
        /\ \A t \in Senders \ {s} : tx'[t] = tx[t]
    BY <1>4 DEF TxReserveCounter, TypeInv, TypeOK
  <2>4. Active(s)' /\ TicketKey(s)' = session.key
    BY <2>2, <2>3 DEF Active, TicketKey
  <2>5. \A t \in Senders \ {s} : /\ Active(t)' = Active(t)
                                 /\ TicketKey(t)' = TicketKey(t)
    BY <2>2, <2>3 DEF Active, TicketKey
  <2>6. session.key <= keypairs
    BY DEF TypeInv, LockInv
  <2>7. sealed[<<session.key, session.send_counter>>] = 0
    BY <2>1, <1>k, <1>n, <1>f DEF TxSafe, TxInv
  <2>8. \A t \in Senders : Active(t)' =>
          /\ TicketKey(t)' <= keypairs'
          /\ sealed'[<<TicketKey(t)', tx'[t].counter>>] = 0
          /\ TicketKey(t)' = session'.key => tx'[t].counter < session'.send_counter
    BY <2>1, <2>2, <2>3, <2>4, <2>5, <2>6, <2>7, <1>t, <1>k, <1>n, <1>f DEF TxSafe, TxInv
  <2>9. \A t, u \in Senders : Active(t)' /\ Active(u)' /\ t # u =>
          <<TicketKey(t)', tx'[t].counter>> # <<TicketKey(u)', tx'[u].counter>>
    <3>1. \A t \in Senders \ {s} : Active(t) =>
            ~(TicketKey(t) = session.key /\ tx[t].counter = session.send_counter)
      <4>1. \A t \in Senders : Active(t) /\ TicketKey(t) = session.key =>
              tx[t].counter < session.send_counter
        BY <2>1, <1>f DEF TxSafe, TxInv
      <4>2. \A t \in Senders : tx[t].counter < session.send_counter =>
              tx[t].counter # session.send_counter
        BY <1>n
      <4> QED  BY <4>1, <4>2
    <3>2. \A t, u \in Senders : Active(t) /\ Active(u) /\ t # u =>
            ~(TicketKey(t) = TicketKey(u) /\ tx[t].counter = tx[u].counter)
      BY DEF TxSafe, TxInv
    <3>3. \A t, u \in Senders : Active(t)' /\ Active(u)' /\ t # u =>
            ~(TicketKey(t)' = TicketKey(u)' /\ tx'[t].counter = tx'[u].counter)
      BY <2>3, <2>4, <2>5, <3>1, <3>2
    <3> QED  BY <3>3
  <2>10. \A k \in Keypairs, c \in Counters : sealed'[<<k, c>>] # 0 =>
          /\ k <= keypairs'
          /\ k = session'.key => c < session'.send_counter
    BY <2>1, <2>2, <1>k, <1>n, <1>f DEF TxSafe, TxInv
  <2> QED  BY <2>1, <2>8, <2>9, <2>10, <1>f DEF TxSafe, TxInv, NonceOnce
<1>5. ASSUME NEW s \in Senders, TxReserveKey(s) PROVE TxSafe'
  <2>1. /\ tx[s].pc = "key" /\ lock = s /\ lock' = Free /\ session' = session
        /\ keypairs' = keypairs /\ sealed' = sealed
    BY <1>5, <1>l DEF TxReserveKey
  <2>2. \A t \in Senders : /\ Active(t)' = Active(t)
                           /\ TicketKey(t)' = TicketKey(t)
                           /\ tx'[t].counter = tx[t].counter
    BY <1>5, <2>1 DEF TxReserveKey, TypeInv, TypeOK, TxTickets, Active, TicketKey
  <2> QED  BY <2>1, <2>2, <1>f DEF TxSafe, TxInv, NonceOnce
<1>6. ASSUME NEW s \in Senders, TxSeal(s) PROVE TxSafe'
  <2> DEFINE kc == <<tx[s].key, tx[s].counter>>
  <2>1. /\ tx[s].pc = "seal" /\ lock' = lock /\ session' = session /\ keypairs' = keypairs
        /\ \/ sealed' = [sealed EXCEPT ![kc] = @ + 1]
           \/ sealed' = sealed
    BY <1>6 DEF TxSeal
  <2>2. ~Active(s)' /\ Active(s) /\ TicketKey(s) = tx[s].key
        /\ \A t \in Senders \ {s} : /\ tx'[t] = tx[t]
                                    /\ Active(t)' = Active(t)
                                    /\ TicketKey(t)' = TicketKey(t)
    BY <1>6 DEF TxSeal, NoTxTicket, Active, TicketKey, TypeInv, TypeOK
  <2>3. kc \in Keypairs \X Counters /\ sealed \in [Keypairs \X Counters -> Nat]
    BY <1>t, <2>2 DEF TypeInv, TypeOK
  <2>4. sealed[kc] = 0
    BY <2>2 DEF TxSafe, TxInv
  <2>5. \A e \in Keypairs \X Counters :
          sealed'[e] = sealed[e] \/ (e = kc /\ sealed'[e] = 1)
    BY <2>1, <2>3, <2>4
  <2> HIDE DEF kc
  <2>6. NonceOnce'
    BY <2>1, <2>3, <2>5 DEF TxSafe, NonceOnce
  <2>7. \A t \in Senders \ {s} : Active(t) => <<TicketKey(t), tx[t].counter>> # kc
    BY <2>2 DEF TxSafe, TxInv, kc
  <2>8. \A t \in Senders : Active(t)' =>
          sealed'[<<TicketKey(t)', tx'[t].counter>>] = 0
    BY <2>2, <2>5, <2>7, <1>t DEF TxSafe, TxInv
  <2>9. \A k \in Keypairs, c \in Counters : sealed'[<<k, c>>] # 0 =>
          /\ k <= keypairs
          /\ session.valid /\ lock # Swap /\ k = session.key => c < session.send_counter
          /\ lock = Swap => k # session.key
    BY <2>2, <2>5 DEF TxSafe, TxInv, kc
  <2> QED  BY <2>1, <2>2, <2>6, <2>8, <2>9 DEF TxSafe, TxInv
<1>7. ASSUME NEW r \in Receivers, NEW idx \in Indices, NEW c \in Counters,
             NEW k \in 0 .. keypairs, RxBegin(r, idx, c, k)
      PROVE  TxSafe'
  BY <1>7, TxSafeFrame DEF RxBegin
<1>8. ASSUME NEW r \in Receivers, RxOpen(r) PROVE TxSafe'
  BY <1>8, TxSafeFrame DEF RxOpen
<1>9. ASSUME NEW r \in Receivers, RxCommit(r) PROVE TxSafe'
  <2>1. rx[r].counter \in Counters /\ session \in Sessions
    BY DEF TypeInv, TypeOK, RxTickets
  <2> QED  BY <1>9, <2>1, UpdateType, TxSafeFrame DEF RxCommit
<1>10. CASE UNCHANGED vars
  BY <1>10, TxSafeFrame DEF vars
<1> QED  BY <1>1, <1>2, <1>3, <1>4, <1>5, <1>6, <1>7, <1>8, <1>9, <1>10 DEF Next

(* Theorem: no counter is ever sealed twice under one key, for any number  *)
(* of sending tasks and any interleaving of rekeys, stops and senders.     *)
THEOREM NonceNeverReused == Spec => []NonceOnce
<1>1. Spec => [](TypeInv /\ TxSafe)
  BY TypeInit, TypeStep, TxSafeInit, TxSafeStep, PTL DEF Spec
<1> QED  BY <1>1, PTL DEF TxSafe

-----------------------------------------------------------------------------
(* No packet twice *)

RxSafe == RxInv /\ DeliveredOnce /\ WindowAuthentic

(* Lemma: nothing is delivered at first.                                   *)
LEMMA RxSafeInit == Init => RxSafe
  BY DEF Init, RxSafe, RxInv, DeliveredOnce, WindowAuthentic, NoSession, NoRxTicket,
     Keypairs, Counters

(* Lemma: a step that leaves the tickets, the deliveries and the window of *)
(* the session alone delivers nothing twice.                               *)
LEMMA RxSafeFrame ==
  ASSUME RxSafe, UNCHANGED <<lock, s_next_gen, keypairs, rx, delivered>>,
         session'.valid = session.valid, session'.key = session.key,
         session'.gen = session.gen, session'.highest = session.highest,
         session'.bitmap = session.bitmap
  PROVE  RxSafe'
  BY DEF RxSafe, RxInv, DeliveredOnce, WindowAuthentic

(* Lemma: a packet rx_commit accepts was not delivered before; recording   *)
(* it keeps the window exact.                                              *)
LEMMA CommitSafe ==
  ASSUME TypeInv, RxSafe, NEW r \in Receivers, RxCommit(r),
         ~Stale(r), wg_replay_check(session, rx[r].counter)
  PROVE  RxSafe'
<1> DEFINE c == rx[r].counter
           kc == <<session.key, c>>
<1>1. /\ rx[r].pc = "commit" /\ lock = Free /\ session.valid
      /\ session.gen = rx[r].gen /\ Free # Swap
  BY DEF RxCommit, Stale, Free, Swap
<1>2. rx[r].sealedBy = session.key
  BY <1>1 DEF RxSafe, RxInv
<1>3. /\ c \in Counters /\ session \in Sessions /\ session.key \in Keypairs
      /\ session.highest \in Counters
      /\ kc \in Keypairs \X Counters
      /\ delivered \in [Keypairs \X Counters -> Nat]
  BY DEF TypeInv, TypeOK, RxTickets, Sessions
<1>4. /\ session' = wg_replay_update(session, c)
      /\ delivered' = [delivered EXCEPT ![kc] = @ + 1]
      /\ UNCHANGED <<lock, s_next_gen, keypairs>>
      /\ rx' = [rx EXCEPT ![r] = NoRxTicket]
  BY <1>2 DEF RxCommit
<1>5. /\ session'.highest = IF c > session.highest THEN c ELSE session.highest
      /\ session'.key = session.key /\ session'.gen = session.gen
      /\ session'.valid = session.valid
  BY <1>3, <1>4, UpdateType
<1>6. c <= session.highest =>
        session.highest < c + WindowBits /\ Slot(c) \notin session.bitmap
  BY <1>3, CheckInWindow
<1> HIDE DEF c
<1>i. /\ session.highest \in Int /\ c \in Int /\ WindowBits \in Int /\ WindowBits > 0
      /\ \A d \in Counters : d \in Int
  BY <1>3, TransportAssumption DEF Counters
<1>7. session.highest < c + WindowBits
  BY <1>6, <1>i
<1>8. \A d \in Counters : delivered[<<session.key, d>>] # 0 => d <= session.highest
  BY <1>1, <1>3 DEF RxSafe, RxInv
<1>9. delivered[kc] = 0
  <2>1. CASE c <= session.highest
    BY <1>1, <1>3, <1>6, <2>1 DEF RxSafe, RxInv
  <2>2. CASE ~(c <= session.highest)
    BY <1>3, <1>8, <2>2
  <2> QED  BY <2>1, <2>2
<1>10. \A e \in Keypairs \X Counters : delivered'[e] = IF e = kc THEN 1 ELSE delivered[e]
  BY <1>3, <1>4, <1>9
<1>11. \A k \in Keypairs, d \in Counters :
         delivered'[<<k, d>>] # 0 <=> (k = session.key /\ d = c) \/ delivered[<<k, d>>] # 0
  BY <1>9, <1>10
<1>12. DeliveredOnce'
  BY <1>3, <1>4, <1>10 DEF DeliveredOnce, RxSafe
<1>13. WindowAuthentic'
  <2>1. CASE c > session.highest
    BY <1>3, <1>5, <1>10, <2>1 DEF WindowAuthentic
  <2>2. CASE ~(c > session.highest)
    BY <1>1, <1>3, <1>5, <1>10, <2>2 DEF WindowAuthentic, RxSafe
  <2> QED  BY <2>1, <2>2
<1>14. \A q \in Receivers : rx'[q].pc # "idle" => rx'[q] = rx[q]
  BY <1>4 DEF TypeInv, TypeOK, NoRxTicket
<1>15. \A q \in Receivers : rx'[q].pc # "idle" =>
        /\ rx'[q].gen <= s_next_gen'
        /\ session'.valid /\ lock' # Swap /\ session'.gen = rx'[q].gen
             => rx'[q].key = session'.key
        /\ rx'[q].pc = "commit" => rx'[q].sealedBy = rx'[q].key
  BY <1>4, <1>5, <1>14 DEF RxSafe, RxInv
<1>16. \A k \in Keypairs, d \in Counters : delivered'[<<k, d>>] # 0 =>
        /\ k <= keypairs'
        /\ k = session'.key => d <= session'.highest
  <2>1. session.key <= keypairs  BY DEF TypeInv, LockInv
  <2>2. \A d \in Counters : d <= session.highest => d <= session'.highest
    BY <1>5, <1>i
  <2>3. c <= session'.highest  BY <1>5, <1>i
  <2> QED  BY <1>1, <1>4, <1>5, <1>8, <1>11, <2>1, <2>2, <2>3 DEF RxSafe, RxInv
<1>17. \A d \in Counters : d <= session'.highest /\ session'.highest < d + WindowBits =>
          (Slot(d) \in session'.bitmap <=> delivered'[<<session'.key, d>>] # 0)
  <2> SUFFICES ASSUME NEW d \in Counters,
                      d <= session'.highest, session'.highest < d + WindowBits
               PROVE  Slot(d) \in session'.bitmap <=> delivered'[<<session'.key, d>>] # 0
    OBVIOUS
  <2>1. Slot(d) \in session'.bitmap <=>
           \/ d = c
           \/ d <= session.highest /\ session.highest < d + WindowBits
              /\ Slot(d) \in session.bitmap
    BY <1>3, <1>4, <1>7, UpdateExact
  <2>2. d <= session.highest => session.highest < d + WindowBits
    BY <1>5, <1>i
  <2>3. d <= session.highest =>
          (Slot(d) \in session.bitmap <=> delivered[<<session.key, d>>] # 0)
    BY <1>1, <2>2 DEF RxSafe, RxInv
  <2>4. delivered'[<<session'.key, d>>] # 0 <=>
           d = c \/ delivered[<<session.key, d>>] # 0
    BY <1>3, <1>5, <1>11
  <2> QED  BY <1>8, <2>1, <2>2, <2>3, <2>4
<1> QED  BY <1>1, <1>4, <1>12, <1>13, <1>15, <1>16, <1>17 DEF RxSafe, RxInv

(* Lemma: no step delivers a packet twice or spoils the window.            *)
LEMMA RxSafeStep == TypeInv /\ TypeInv' /\ RxSafe /\ [Next]_vars => RxSafe'
<1> SUFFICES ASSUME TypeInv, TypeInv', RxSafe, [Next]_vars PROVE RxSafe'  OBVIOUS
<1>t. /\ session \in Sessions /\ session.key \in Keypairs
      /\ session.gen \in Generations /\ s_next_gen \in Generations
      /\ keypairs \in Keypairs /\ rx \in [Receivers -> RxTickets]
      /\ session.highest \in Counters
  BY DEF TypeInv, TypeOK, Sessions
<1>n. /\ keypairs \in Int /\ s_next_gen \in Int /\ session.gen \in Int
      /\ \A k \in Keypairs : k \in Int
      /\ \A r \in Receivers : rx[r].gen \in Int
  BY <1>t DEF Keypairs, Generations, RxTickets
<1>f. Free \notin Senders /\ Swap \notin Senders /\ Free # Swap
  BY TransportAssumption DEF Free, Swap
<1>g. \A r \in Receivers : rx[r].pc # "idle" => rx[r].gen <= s_next_gen
  BY DEF RxSafe, RxInv
<1>1. ASSUME NEW idx \in Indices, SessionInitKeys(idx) PROVE RxSafe'
  <2>1. /\ lock = Free /\ lock' = Swap /\ keypairs' = keypairs + 1
        /\ UNCHANGED <<s_next_gen, rx, delivered>>
    BY <1>1 DEF SessionInitKeys
  <2>2. session'.key = keypairs + 1
    BY <1>1, <1>t DEF SessionInitKeys, Sessions
  <2> QED  BY <2>1, <2>2, <1>n DEF RxSafe, RxInv, DeliveredOnce, WindowAuthentic
<1>2. CASE SessionInitReset
  <2>1. /\ lock = Swap /\ lock' = Free /\ s_next_gen' = s_next_gen + 1
        /\ UNCHANGED <<keypairs, rx, delivered>>
    BY <1>2 DEF SessionInitReset
  <2>2. /\ session'.key = session.key /\ session'.gen = s_next_gen + 1
        /\ session'.highest = 0 /\ session'.bitmap = {}
    BY <1>2, <1>t DEF SessionInitReset, Sessions
  <2>3. \A c \in Counters : delivered[<<session.key, c>>] = 0
    BY <2>1, <1>t DEF RxSafe, RxInv
  <2>4. \A r \in Receivers : rx[r].pc # "idle" =>
          rx[r].gen <= s_next_gen + 1 /\ rx[r].gen # s_next_gen + 1
    BY <1>n, <1>g
  <2> QED  BY <2>1, <2>2, <2>3, <2>4, <1>f DEF RxSafe, RxInv, DeliveredOnce, WindowAuthentic
<1>3. CASE SessionScrub
  <2>1. /\ lock = Free /\ lock' = Free /\ s_next_gen' = s_next_gen + 1
        /\ UNCHANGED <<keypairs, rx, delivered>> /\ session'.valid = FALSE
    BY <1>3 DEF SessionScrub, NoSession
  <2>2. \A r \in Receivers : rx[r].pc # "idle" => rx[r].gen <= s_next_gen + 1
    BY <1>n, <1>g
  <2> QED  BY <2>1, <2>2, <1>f DEF RxSafe, RxInv, DeliveredOnce, WindowAuthentic
<1>4. ASSUME NEW s \in Senders, TxReserveCounter(s) PROVE RxSafe'
  <2>1. /\ lock = Free /\ lock' = s /\ UNCHANGED <<s_next_gen, keypairs, rx, delivered>>
    BY <1>4 DEF TxReserveCounter
  <2>2. /\ session'.valid = session.valid /\ session'.key = session.key
        /\ session'.gen = session.gen /\ session'.highest = session.highest
        /\ session'.bitmap = session.bitmap
    BY <1>4, <1>t DEF TxReserveCounter, Sessions
  <2> QED  BY <2>1, <2>2, <1>f DEF RxSafe, RxInv, DeliveredOnce, WindowAuthentic
<1>5. ASSUME NEW s \in Senders, TxReserveKey(s) PROVE RxSafe'
  <2>1. /\ lock = s /\ lock' = Free
        /\ UNCHANGED <<session, s_next_gen, keypairs, rx, delivered>>
    BY <1>5 DEF TxReserveKey, TypeInv, LockInv
  <2> QED  BY <2>1, <1>f DEF RxSafe, RxInv, DeliveredOnce, WindowAuthentic
<1>6. ASSUME NEW s \in Senders, TxSeal(s) PROVE RxSafe'
  BY <1>6, RxSafeFrame DEF TxSeal
<1>7. ASSUME NEW r \in Receivers, NEW idx \in Indices, NEW c \in Counters,
             NEW k \in 0 .. keypairs, RxBegin(r, idx, c, k)
      PROVE  RxSafe'
  <2>1. UNCHANGED <<lock, session, s_next_gen, keypairs, delivered>>
    BY <1>7 DEF RxBegin
  <2>2. /\ rx'[r].pc = "open" /\ rx'[r].gen = session.gen /\ rx'[r].key = session.key
        /\ \A q \in Receivers \ {r} : rx'[q] = rx[q]
    BY <1>7, <1>t DEF RxBegin
  <2>3. session.gen <= s_next_gen
    BY DEF TypeInv, LockInv
  <2> QED  BY <2>1, <2>2, <2>3 DEF RxSafe, RxInv, DeliveredOnce, WindowAuthentic
<1>8. ASSUME NEW r \in Receivers, RxOpen(r) PROVE RxSafe'
  <2>1. UNCHANGED <<lock, session, s_next_gen, keypairs, delivered>>
    BY <1>8 DEF RxOpen
  <2>2. \A q \in Receivers : rx'[q].pc # "idle" =>
          /\ rx[q].pc # "idle" /\ rx'[q].gen = rx[q].gen /\ rx'[q].key = rx[q].key
          /\ rx'[q].pc = "commit" => rx'[q].sealedBy = rx'[q].key
    BY <1>8, <1>t DEF RxOpen, NoRxTicket, RxTickets, RxSafe, RxInv
  <2> QED  BY <2>1, <2>2 DEF RxSafe, RxInv, DeliveredOnce, WindowAuthentic
<1>9. ASSUME NEW r \in Receivers, RxCommit(r) PROVE RxSafe'
  <2>1. CASE ~Stale(r) /\ wg_replay_check(session, rx[r].counter)
    BY <1>9, <2>1, CommitSafe
  <2>2. CASE Stale(r) \/ ~wg_replay_check(session, rx[r].counter)
    <3>1. UNCHANGED <<lock, session, s_next_gen, keypairs, delivered>>
      BY <1>9, <2>2 DEF RxCommit
    <3>2. \A q \in Receivers : rx'[q].pc # "idle" => rx'[q] = rx[q]
      BY <1>9, <1>t DEF RxCommit, NoRxTicket
    <3> QED  BY <3>1, <3>2 DEF RxSafe, RxInv, DeliveredOnce, WindowAuthentic
  <2> QED  BY <2>1, <2>2
<1>10. CASE UNCHANGED vars
  BY <1>10, RxSafeFrame DEF vars
<1> QED  BY <1>1, <1>2, <1>3, <1>4, <1>5, <1>6, <1>7, <1>8, <1>9, <1>10 DEF Next

(* Lemma: the reachable states of the receive side.                        *)
LEMMA RxSafeAlways == Spec => [](TypeInv /\ RxSafe)
  BY TypeInit, TypeStep, RxSafeInit, RxSafeStep, PTL DEF Spec

(* Theorem: rx_commit delivers each packet of the peer at most once,       *)
(* whatever copies are in flight on the direct and the relayed path and    *)
(* whatever rekeys come between rx_begin and rx_commit.                    *)
THEOREM PacketDeliveredOnce == Spec => []DeliveredOnce
  BY RxSafeAlways, PTL DEF RxSafe

(* Theorem: the replay window only ever follows authentic packets.         *)
THEOREM WindowFollowsPeer == Spec => []WindowAuthentic
  BY RxSafeAlways, PTL DEF RxSafe

(* Theorem: wg_replay_check accepts exactly the in-window counters not yet *)
(* delivered, for every window size and counter width.                     *)
THEOREM WindowExact == Spec => []ReplayCheckExact
<1>1. TypeInv /\ RxSafe => ReplayCheckExact
  <2> SUFFICES ASSUME TypeInv, RxSafe, session.valid, lock # Swap,
                      NEW c \in 0 .. CounterMod - 1 - WindowBits
               PROVE  wg_replay_check(session, c) <=>
                        c + WindowBits > session.highest /\ delivered[<<session.key, c>>] = 0
    BY DEF ReplayCheckExact
  <2>1. /\ c \in Counters /\ c \in Int /\ c # CounterRejectAt
        /\ (c + WindowBits) % CounterMod = c + WindowBits
    BY TransportAssumption DEF Counters, CounterRejectAt
  <2>2. session.highest \in Int /\ session.key \in Keypairs /\ WindowBits \in Int /\ WindowBits > 0
    BY TransportAssumption DEF TypeInv, TypeOK, Sessions, Counters
  <2>3. delivered[<<session.key, c>>] # 0 => c <= session.highest
    BY <2>1, <2>2 DEF RxSafe, RxInv
  <2>4. c <= session.highest /\ session.highest < c + WindowBits =>
          (Slot(c) \in session.bitmap <=> delivered[<<session.key, c>>] # 0)
    BY <2>1 DEF RxSafe, RxInv
  <2> QED  BY <2>1, <2>2, <2>3, <2>4 DEF wg_replay_check
<1> QED  BY <1>1, RxSafeAlways, PTL
=============================================================================
