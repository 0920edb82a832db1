------------------------------- MODULE Disco -------------------------------
(***************************************************************************)
(* DISCO, the protocol that finds a direct path to the WireGuard peer:     *)
(* the table of outbound probes (disco_prober.c), the three tasks that     *)
(* send pings (the long-poll task's prepunch, the DERP task's answer to a  *)
(* CallMeMaybe, the path ping of wg_rx and wg_tx) and the two handlers     *)
(* that receive DISCO frames (direct on wg_rx, relayed on the DERP task).  *)
(* Whatever runs between two locks of the code is a step of its own, so a  *)
(* pong, a key change or another task's ping may come in between.          *)
(*                                                                         *)
(* A frame is sealed with the box key K shared by this node and one other  *)
(* DiscoKey, and K is represented by that DiscoKey: a frame opens under K  *)
(* exactly when its sender is the key K stands for.  Pongs are not stored: *)
(* a ping that left may be answered at any time, any number of times or    *)
(* never, and the answer may come back from another address.               *)
(***************************************************************************)
EXTENDS Integers, Sequences, FiniteSets

CONSTANTS
    DiscoKeys,      \* DiscoKeys of the nodes of the netmap
    Eps,            \* AddrPorts
    Advertised,     \* the endpoints they advertise, as <<DiscoKey, AddrPort>>
    TableSize,      \* DISCO_PROBER_TABLE_SIZE
    ProbeFor,       \* DISCO_PROBER_TIMEOUT_MS
    PeerKey,        \* the WireGuard peer's
    MaxWork,        \* bound: pings built and changes of the peer's keys
    MaxNow          \* bound: clock

NoKey == "no key"
NoEp == "no endpoint"
Free == [txid |-> 0, dst |-> NoEp, sent |-> 0]      \* a slot with valid = false
NoPeer == [pub |-> NoKey, k |-> NoKey, ep |-> NoEp]
Off == [st |-> "off"]
Tasks == {"poll", "derp", "wg"}

VARIABLES
    now,            \* esp_timer_get_time
    netif,          \* "idle", "keyless" and "started" (wg_netif_start), "ready"
                    \* (s_dataplane_started)
    dpeer,          \* g.peer.peer_disco_pub, its K and g.peer_addr, under g.lock
    table,          \* s_table of disco_prober.c
    ptask,          \* where each pinging task is
    rxd,            \* the frame wg_rx holds, with its snapshot of the peer's keys
    pings,          \* pings that left: who they are for and whose K sealed them
    logged,         \* the records made, oldest first
    accepted,       \* the pings whose pong reached rx_pong
    built,          \* pings built so far
    swaps

discoVars == <<now, netif, dpeer, table, ptask, rxd, pings, logged, accepted,
               built, swaps>>

Slots == 1..TableSize

DiscoInit ==
    /\ now = 0 /\ netif = "idle"
    /\ dpeer = NoPeer
    /\ table = [i \in Slots |-> Free]
    /\ ptask = [t \in Tasks |-> Off]
    /\ rxd = Off
    /\ pings = {} /\ logged = <<>> /\ accepted = {}
    /\ built = 0 /\ swaps = 0

-----------------------------------------------------------------------------
\* The table of outbound probes

expired(slot, at) == slot.sent < at - ProbeFor

\* The slot a record takes: the first one free or expired, else the one sent first.
victim(tab, at) ==
    LET usable == {i \in Slots : tab[i] = Free \/ expired(tab[i], at)}
        oldest == {i \in Slots : \A j \in Slots : tab[i].sent <= tab[j].sent}
        pick   == IF usable # {} THEN usable ELSE oldest
    IN  CHOOSE i \in pick : \A j \in pick : i <= j

record(tab, txid, dst, at) ==
    [tab EXCEPT ![victim(tab, at)] = [txid |-> txid, dst |-> dst, sent |-> at]]

\* disco_prober_take: a pong from another address leaves the slot alone; one
\* from the probed address empties it, and matches if it is in time.
Slot(tab, txid, src) ==
    {i \in Slots : tab[i].txid = txid /\ tab[i].dst = src}

matches(tab, txid, src, at) ==
    \E i \in Slot(tab, txid, src) : ~expired(tab[i], at)

take_Kept(tab, txid, src) == tab
take(tab, txid, src) ==
    [i \in Slots |-> IF i \in Slot(tab, txid, src) THEN Free ELSE tab[i]]

-----------------------------------------------------------------------------
\* Opening a frame

Keys == [pub |-> dpeer.pub, k |-> dpeer.k]

\* disco_gate and handle_disco_direct's own gate: another sender than the known peer.
gated(snap, from) == snap.pub # NoKey /\ from # snap.pub

\* With the cached K when there is one, else with a K computed for the sender.
opens(snap, from) == snap.k = NoKey \/ snap.k = from

-----------------------------------------------------------------------------
\* The peer, as the netmap sets it (long-poll task)

\* nacl_box_compute_shared: the K of a key, or none if it fails.
shared(key) == {key, NoKey}

\* wg_netif_start sets the peer, sends the INIT, and computes K only then.
Start(key, ep) ==
    /\ netif = "idle" /\ netif' = "keyless"
    /\ dpeer' = [pub |-> key, k |-> NoKey, ep |-> ep]
    /\ UNCHANGED <<now, table, ptask, rxd, pings, logged, accepted, built, swaps>>

StartK ==
    /\ netif = "keyless" /\ netif' = "started"
    /\ dpeer' = [dpeer EXCEPT !.k = dpeer.pub]
    /\ UNCHANGED <<now, table, ptask, rxd, pings, logged, accepted, built, swaps>>

\* wg_netif_abort_start after a bring-up that failed past wg_netif_start: no
\* peer again, wg_rx stays.
AbortStart ==
    /\ netif = "started" /\ built + swaps < MaxWork
    /\ netif' = "idle"
    /\ dpeer' = NoPeer
    /\ swaps' = swaps + 1
    /\ UNCHANGED <<now, table, ptask, rxd, pings, logged, accepted, built>>

\* wg_rx runs from the end of the first start on.
RxRunning == netif \in {"started", "ready"} \/ swaps > 0

DataplaneStarted ==
    /\ netif = "started" /\ netif' = "ready"
    /\ UNCHANGED <<now, dpeer, table, ptask, rxd, pings, logged, accepted, built, swaps>>

\* The key and its K change together; NoKey is wg_netif_clear_peer_disco.
update_peer_keys(key, k) == [dpeer EXCEPT !.pub = key, !.k = k]

UpdatePeerKeys(key) ==
    /\ netif = "ready" /\ built + swaps < MaxWork /\ key # dpeer.pub
    /\ \E k \in shared(key) : dpeer' = update_peer_keys(key, k)
    /\ swaps' = swaps + 1
    /\ UNCHANGED <<now, netif, table, ptask, rxd, pings, logged, accepted, built>>

-----------------------------------------------------------------------------
\* The prepunch and the CallMeMaybe punch: send, then record

Burst(t, to) ==
    /\ built + swaps < MaxWork
    /\ ptask' = [ptask EXCEPT ![t] = [st |-> "loop", snap |-> Keys, to |-> to]]
    /\ UNCHANGED <<now, netif, dpeer, table, rxd, pings, logged, accepted, built, swaps>>

\* prepunch_pings_to_peers, for the peers of the netmap that have a DiscoKey; on
\* the long-poll task, or on wg_rx when the path went stale (on_wg_path_stale),
\* so the peer's keys may change during it
Prepunch(to) ==
    /\ netif = "ready" /\ ptask["poll"] = Off
    /\ Burst("poll", to)

\* handle_disco_relayed on a CallMeMaybe of `from`
RelayedCmm(from) ==
    /\ netif = "ready" /\ ptask["derp"] = Off
    /\ ~gated(Keys, from) /\ opens(Keys, from)
    /\ Burst("derp", {from})

BurstEnd(t) ==
    /\ ptask[t].st = "loop"
    /\ ptask' = [ptask EXCEPT ![t] = Off]
    /\ UNCHANGED <<now, netif, dpeer, table, rxd, pings, logged, accepted, built, swaps>>

\* The K a ping to `key` is sealed with: the active peer's cached one when it is
\* for that peer, else computed for `key`.
seal_k(snap, key) ==
    IF snap.k # NoKey /\ key = snap.pub THEN snap.k ELSE key

Ping(txid, dst, to, seal) ==
    [txid |-> txid, dst |-> dst, to |-> to, seal |-> seal]

\* One endpoint of one peer: sendto (one that fails leaves nothing behind).
BurstSend(t, to, dst) ==
    /\ ptask[t].st = "loop" /\ to \in ptask[t].to /\ built + swaps < MaxWork
    /\ built' = built + 1
    /\ pings' = pings \cup {Ping(built', dst, to, seal_k(ptask[t].snap, to))}
    /\ ptask' = [ptask EXCEPT ![t] =
          [st |-> "sent", snap |-> @.snap, to |-> @.to, txid |-> built', dst |-> dst]]
    /\ UNCHANGED <<now, netif, dpeer, table, rxd, logged, accepted, swaps>>

Logged(p, at) == Append(logged, [txid |-> p.txid, at |-> at])

BurstRecord(t) ==
    LET p == ptask[t]
    IN  /\ p.st = "sent"
        /\ table' = record(table, p.txid, p.dst, now)
        /\ logged' = Logged(p, now)
        /\ ptask' = [ptask EXCEPT ![t] = [st |-> "loop", snap |-> p.snap, to |-> p.to]]
        /\ UNCHANGED <<now, netif, dpeer, rxd, pings, accepted, built, swaps>>

-----------------------------------------------------------------------------
\* path_ping, on wg_rx and wg_tx: record, then send; the clock is read before
\* disco_prober_record takes its lock

PathPing ==
    /\ RxRunning /\ ptask["wg"] = Off /\ built + swaps < MaxWork
    /\ dpeer.k # NoKey /\ dpeer.ep # NoEp
    /\ built' = built + 1
    /\ ptask' = [ptask EXCEPT !["wg"] =
          [st |-> "built", txid |-> built', dst |-> dpeer.ep,
           k |-> dpeer.k, at |-> now]]
    /\ UNCHANGED <<now, netif, dpeer, table, rxd, pings, logged, accepted, swaps>>

PathRecord ==
    LET p == ptask["wg"]
    IN  /\ p.st = "built"
        /\ table' = record(table, p.txid, p.dst, p.at)
        /\ logged' = Logged(p, p.at)
        /\ ptask' = [ptask EXCEPT !["wg"] =
              [st |-> "recorded", txid |-> p.txid, dst |-> p.dst, k |-> p.k]]
        /\ UNCHANGED <<now, netif, dpeer, rxd, pings, accepted, built, swaps>>

\* sendto may fail: the slot expires.
PathSend ==
    LET p == ptask["wg"]
    IN  /\ p.st = "recorded"
        /\ pings' \in {pings, pings \cup {Ping(p.txid, p.dst, p.k, p.k)}}
        /\ ptask' = [ptask EXCEPT !["wg"] = Off]
        /\ UNCHANGED <<now, netif, dpeer, table, rxd, logged, accepted, built, swaps>>

-----------------------------------------------------------------------------
\* handle_disco_direct: wg_rx takes the peer's keys under the lock, then opens
\* the frame.  A frame is the pong to a ping that left; a peer's ping is
\* answered and a direct CallMeMaybe ignored, neither changes anything here.

DirectSnap(ping, src) ==
    /\ RxRunning /\ netif # "idle" /\ rxd = Off
    /\ rxd' = [st |-> "snap", snap |-> Keys, txid |-> ping.txid,
               from |-> ping.seal, src |-> src]
    /\ UNCHANGED <<now, netif, dpeer, table, ptask, pings, logged, accepted, built, swaps>>

\* roam_allowed: the sender the frame opened for is the snapshot's peer
roam_allowed(snap, from) == snap.pub = NoKey \/ from = snap.pub

\* rx_pong: the path selection may move the endpoint to src or keep it.
rx_pong(f) ==
    /\ accepted' = accepted \cup {f.txid}
    /\ dpeer' \in {dpeer, [dpeer EXCEPT !.ep = f.src]}

Opened(f) == ~gated(f.snap, f.from) /\ opens(f.snap, f.from)

Accepts(f) ==
    /\ Opened(f)
    /\ matches(table, f.txid, f.src, now)
    /\ roam_allowed(f.snap, f.from)

DirectPong ==
    /\ rxd # Off
    /\ rxd' = Off
    /\ table' = IF Opened(rxd) THEN take(table, rxd.txid, rxd.src) ELSE table
    /\ \/ Accepts(rxd) /\ rx_pong(rxd)
       \/ ~Accepts(rxd) /\ UNCHANGED <<accepted, dpeer>>
    /\ UNCHANGED <<now, netif, ptask, pings, logged, built, swaps>>

\* A bound: the clock starts with the first ping, ages are all that count.
Tick ==
    /\ built > 0 /\ now < MaxNow /\ now' = now + 1
    /\ UNCHANGED <<netif, dpeer, table, ptask, rxd, pings, logged, accepted, built, swaps>>

DiscoNext ==
    \/ \E key \in {PeerKey, NoKey}, ep \in Eps \cup {NoEp} :
          (ep = NoEp \/ <<PeerKey, ep>> \in Advertised) /\ Start(key, ep)
    \/ StartK \/ AbortStart \/ DataplaneStarted
    \/ \E key \in DiscoKeys \cup {NoKey} : UpdatePeerKeys(key)
    \/ Prepunch(DiscoKeys)
    \/ \E from \in DiscoKeys : RelayedCmm(from)
    \/ \E t \in {"poll", "derp"} : BurstEnd(t)
    \/ \E t \in {"poll", "derp"}, e \in Advertised : BurstSend(t, e[1], e[2])
    \/ \E t \in {"poll", "derp"} : BurstRecord(t)
    \/ PathPing \/ PathRecord \/ PathSend
    \/ \E ping \in pings, src \in Eps : DirectSnap(ping, src)
    \/ DirectPong
    \/ Tick

-----------------------------------------------------------------------------
\* Properties

\* A pong moves or confirms the endpoint (rx_pong) at most once per ping, only
\* from the address that ping went to, within DISCO_PROBER_TIMEOUT_MS of its
\* record, and only when the node that answered is the peer whose keys wg_rx
\* snapshot, whatever else the tasks do to the table and the keys meanwhile.
PongSound ==
    LET f == rxd
    IN  f # Off /\ rxd' = Off /\ Accepts(f) =>
        /\ f.txid \notin accepted
        /\ \E p \in pings : p.txid = f.txid /\ p.dst = f.src /\ p.to = f.from
        /\ \E j \in DOMAIN logged :
              logged[j].txid = f.txid /\ now - logged[j].at <= ProbeFor
        /\ f.snap.pub \in {NoKey, f.from}

\* path_ping's probe is in the table before the ping leaves, so that a pong
\* cannot beat it.
RecordedFirst ==
    \A p \in pings' \ pings :
        ptask'["wg"] # ptask["wg"] => \E j \in DOMAIN logged : logged[j].txid = p.txid

PongsSound == [][PongSound /\ RecordedFirst]_discoVars

\* The ping of the j-th record was pushed out of the table by enough others
Outnumbered(j) ==
    Cardinality({i \in DOMAIN logged \ {j} :
                    i > j \/ logged[i].at >= logged[j].at}) >= TableSize

\* A probe whose pong could still count is in the table (disco_prober_record):
\* it leaves only by its own pong, by age, or when DISCO_PROBER_TABLE_SIZE
\* others are later.
ProbesKept ==
    \A j \in DOMAIN logged :
        \/ \E i \in Slots : table[i].txid = logged[j].txid
        \/ logged[j].txid \in accepted
        \/ now - logged[j].at > ProbeFor
        \/ Outnumbered(j)

\* A ping meant for a node is sealed with the K of that node: the cached K and
\* the DiscoKey it was derived from are always read and swapped together.
SealedToPeer ==
    /\ dpeer.k \in {NoKey, dpeer.pub}
    /\ \A p \in pings : p.seal = p.to

DiscoSound == ProbesKept /\ SealedToPeer

\* Probes stay known while their pong may count, and only such pongs count.
ProbesSound == []DiscoSound /\ PongsSound
=============================================================================
