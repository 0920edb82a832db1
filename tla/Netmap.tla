------------------------------- MODULE Netmap -------------------------------
(***************************************************************************)
(* From the map stream to the WireGuard peer: control changes nodes and    *)
(* says so in frames (mapreq.c collects their elements under fixed caps),  *)
(* tinylink.c merges every frame into the peer table, and wg_dataplane.c   *)
(* starts the session from the table and later follows its peer there.     *)
(*                                                                         *)
(* A frame is handled by one task, to the merge into the table and the     *)
(* read of the live endpoint in one action; the rest of the update of the  *)
(* session is one action per g.lock section, between which the endpoint    *)
(* roams on its own.                                                       *)
(* A node is its NodeID, NodeKey, DiscoKey (0: none), endpoints and        *)
(* tailnet address (0: no /32).  The self node, the DERP map and the first *)
(* frame of a warm start are in other modules; an element's JSON is left   *)
(* out, but for being too large or malformed.                              *)
(***************************************************************************)
EXTENDS Integers, Sequences, FiniteSets, SequencesExt, FiniteSetsExt

CONSTANTS
    Ids,            \* NodeIDs, positive integers
    Variants,       \* for each NodeID what its node may be: [key, disco, eps, v4]
    Addresses,      \* AddrPorts a node may be seen at
    PublicAddrs,    \* those publicly routable
    OurAddr,        \* the one STUN may find for this node
    MaxPeers,       \* TL_MAX_PEERS
    MaxRemoved,     \* TL_MAX_PEERS_REMOVED
    MaxPatches,     \* TL_MAX_PEER_PATCHES
    MaxMapFrames    \* bound: frames

NoNode == [id |-> 0]
NoAddr == "no address"

VARIABLES
    view,           \* control's node of each NodeID
    stream,         \* "new": the next frame is a full netmap; "open"
    tbl,            \* s_last_peers
    lost,           \* a frame, or an element the code does not ask again for, was dropped
    sess,           \* wg_dataplane.c's peer with the live endpoint, or NoNode
    proven,         \* wg_netif_live_path_proven
    ours,           \* tinylink_get_public_endpoint
    init,           \* where the last INIT of a key change went
    upd,            \* the long-poll task inside wg_dataplane_update_peers
    mapFrames

mapVars == <<view, stream, tbl, lost, sess, proven, ours, init, upd, mapFrames>>

Node(id, v) ==
    [id |-> id, key |-> <<id, v.key>>, disco |-> v.disco, eps |-> v.eps, v4 |-> v.v4]

NoUpdate == [at |-> "idle"]

MapInit ==
    /\ view \in [Ids -> {NoNode}]
    /\ stream = "new" /\ tbl = <<>> /\ lost = FALSE
    /\ sess = NoNode /\ proven = FALSE /\ ours = NoAddr /\ init = NoAddr
    /\ upd = NoUpdate /\ mapFrames = 0

-----------------------------------------------------------------------------
\* Collecting a frame's elements

FirstN(s, n) == SubSeq(s, 1, IF Len(s) < n THEN Len(s) ELSE n)
InOrder(S) == SelectSeq([i \in 1..Max(Ids) |-> i], LAMBDA i : i \in S)
\* The fields of a with those that b has in their place
Over(a, b) ==
    [f \in DOMAIN a \cup DOMAIN b |-> IF f \in DOMAIN b THEN b[f] ELSE a[f]]

\* elem_patch: one entry per NodeID, later fields winning.
fold_patch(ps, p) ==
    IF \E i \in DOMAIN ps : ps[i].id = p.id
    THEN [i \in DOMAIN ps |->
            IF ps[i].id # p.id THEN ps[i]
            ELSE [id |-> p.id, set |-> Over(ps[i].set, p.set)]]
    ELSE Append(ps, p)

folded(frame) == FoldLeft(fold_patch, <<>>, frame.patches)

\* What the netmap holds of the removals and the patches
removed_ids(frame) == FirstN(frame.removed, MaxRemoved)
patches(frame) == FirstN(folded(frame), MaxPatches)

\* More deltas than the caps, or a patch that was too large to be read.
overflows(frame) ==
    \/ Len(frame.removed) > MaxRemoved
    \/ Len(folded(frame)) > MaxPatches
    \/ frame.big /\ frame.patches # <<>>

\* The peers stored: an oversized one (the first) is skipped, those past the cap
\* are drained.
peers_read(frame) ==
    IF frame.big /\ frame.peers # <<>> THEN Tail(frame.peers) ELSE frame.peers

stored(frame) == FirstN(peers_read(frame), MaxPeers)

-----------------------------------------------------------------------------
\* merge_peers

Has(t, id) == \E i \in DOMAIN t : t[i].id = id

remove(t, id) == SelectSeq(t, LAMBDA p : p.id # id)

upsert(t, p) ==
    CASE Has(t, p.id) -> [i \in DOMAIN t |-> IF t[i].id = p.id THEN p ELSE t[i]]
      [] ~Has(t, p.id) /\ Len(t) < MaxPeers -> Append(t, p)
      [] OTHER -> t

patch(t, c) ==
    [i \in DOMAIN t |-> IF t[i].id # c.id THEN t[i] ELSE Over(t[i], c.set)]

merge_peers_AppendsAll(t, frame) ==
    IF frame.full /\ stored(frame) # <<>> THEN stored(frame)
    ELSE FoldLeft(patch, FoldLeft(remove, t, removed_ids(frame)) \o stored(frame),
                  patches(frame))
merge_peers(t, frame) ==
    IF frame.full /\ stored(frame) # <<>> THEN stored(frame)
    ELSE FoldLeft(patch, FoldLeft(upsert, FoldLeft(remove, t, removed_ids(frame)),
                                  stored(frame)), patches(frame))

\* merge_peers' result: the table t was changed, or may have been (any full list,
\* any upsert).
peers_changed(t, frame) ==
    \/ t # tbl
    \/ \E i \in DOMAIN stored(frame) : frame.full \/ Has(t, stored(frame)[i].id)

-----------------------------------------------------------------------------
\* The endpoint and the peer to dial

FirstIn(eps, S) ==
    LET at == {i \in DOMAIN eps : eps[i] \in S}
    IN  IF at = {} THEN NoAddr ELSE eps[Min(at)]

\* Behind the same NAT the peer's LAN address, else its first public one, else
\* its first.
pick_peer_endpoint(eps) ==
    LET lan == FirstIn(eps, Addresses \ PublicAddrs)
        pub == FirstIn(eps, PublicAddrs)
    IN  CASE ours # NoAddr /\ FirstIn(eps, {ours}) # NoAddr /\ lan # NoAddr -> lan
          [] pub # NoAddr -> pub
          [] OTHER -> FirstIn(eps, Addresses)

\* tl_warm_target_index: the first peer with a public endpoint that is not ours.
peer_reachable(p) == FirstIn(p.eps, PublicAddrs \ {ours}) # NoAddr

target(t) ==
    LET qualified == {i \in DOMAIN t : peer_reachable(t[i])}
    IN  IF qualified = {} THEN t[1] ELSE t[Min(qualified)]

\* wg_dataplane_start
start(t) ==
    LET p == target(t)
        ep == pick_peer_endpoint(p.eps)
    IN  [id |-> p.id, key |-> p.key, disco |-> p.disco, v4 |-> p.v4,
         dialled |-> ep, live |-> ep]

\* The peer of the session is the table's entry of its NodeID.
of_session(t) == t[CHOOSE i \in DOMAIN t : t[i].id = sess.id]

\* wg_dataplane_update_peers up to wg_netif_get_peer_endpoint: the pick, and
\* what becomes of it where the live endpoint is still listed.
\* `live` is the endpoint read; `did` (what became of the pick) and
\* `roamed` (the endpoint or its proof changed since) are histories.
update_peers(p) ==
    LET ep == pick_peer_endpoint(p.eps)
    IN  [at |-> CASE ep \in {NoAddr, sess.dialled} -> "keys"
                  [] ep \notin {NoAddr, sess.dialled} /\ sess.live \in ToSet(p.eps) -> "keep"
                  [] OTHER -> "test",
         peer |-> p, ep |-> ep, live |-> sess.live, did |-> "nothing", roamed |-> FALSE]

-----------------------------------------------------------------------------
\* long_poll_handler on a frame, after stream_frame

\* What the collector or the table drops without asking for a full map
Drops(t, frame) ==
    \/ Len(stored(frame)) < Len(frame.peers)
    \/ \E i \in DOMAIN stored(frame) : ~Has(t, stored(frame)[i].id)
    \/ frame.full /\ frame.peers = <<>> /\ tbl # <<>>

HandleFrame(frame) ==
    LET t == merge_peers(tbl, frame)
    IN  /\ tbl' = t
        /\ lost' = (Drops(t, frame) \/ (lost /\ ~frame.full))
        /\ \/ /\ sess = NoNode /\ t # <<>>
              /\ target(t).eps # <<>> /\ sess' = start(t) /\ proven' = FALSE
              /\ UNCHANGED upd
           \/ sess = NoNode /\ UNCHANGED <<sess, proven, upd>>   \* no peer, or no start
           \/ /\ sess # NoNode
              /\ upd' = IF peers_changed(t, frame) /\ Has(t, sess.id)
                        THEN update_peers(of_session(t)) ELSE upd
              /\ UNCHANGED <<sess, proven>>
        /\ UNCHANGED init

\* wg_netif_live_path_proven
TestProven ==
    /\ upd.at = "test"
    /\ upd' = [upd EXCEPT !.at = IF proven THEN "keep" ELSE "move"]
    /\ UNCHANGED <<view, stream, tbl, lost, sess, proven, ours, init, mapFrames>>

\* The end of apply_peer_endpoint: the pick is remembered, and the live endpoint
\* kept or moved to it (wg_netif_update_peer_endpoint).
apply_peer_endpoint ==
    LET moves == upd.at = "move"
    IN  /\ upd.at \in {"keep", "move"}
        /\ sess' = [sess EXCEPT !.dialled = upd.ep, !.live = IF moves THEN upd.ep ELSE @]
        /\ proven' = (proven /\ sess'.live = sess.live)
        /\ upd' = [upd EXCEPT !.at = "keys", !.did = upd.at]
        /\ UNCHANGED <<view, stream, tbl, lost, ours, init, mapFrames>>

update_tailnet(s, p) == IF p.v4 = 0 THEN s ELSE [s EXCEPT !.v4 = p.v4]

init_to_EndpointRead(s) == upd.live
init_to(s) == s.live

\* The keys after the endpoint: a new NodeKey sends a cold INIT at once, a
\* DiscoKey that is gone is cleared.
update_keys ==
    /\ upd.at = "keys" /\ upd' = NoUpdate
    /\ sess' = [update_tailnet(sess, upd.peer) EXCEPT !.key = upd.peer.key,
                                                     !.disco = upd.peer.disco]
    /\ init' = IF sess'.key # sess.key THEN init_to(sess) ELSE init
    /\ UNCHANGED <<view, stream, tbl, lost, proven, ours, mapFrames>>

stream_frame(frame) ==
    \/ /\ overflows(frame) /\ stream' = "new"
       /\ UNCHANGED <<tbl, lost, sess, proven, init, upd>>
    \/ ~overflows(frame) /\ stream' = "open" /\ HandleFrame(frame)

-----------------------------------------------------------------------------
\* Control: changes of up to two nodes, and the frame that says so

Nodes(v) == InOrder({id \in Ids : v[id] # NoNode})

FullFrame(v, big) ==
    [full |-> TRUE, peers |-> [i \in DOMAIN Nodes(v) |-> v[Nodes(v)[i]]],
     removed |-> <<>>, patches |-> <<>>, big |-> big]

Patchable(old, new) ==
    old # NoNode /\ new # NoNode /\ old.v4 = new.v4 /\ (new.disco # 0 \/ old.disco = 0)

Patches(old, new) ==
    LET diff(F) == [f \in {g \in F : old[g] # new[g]} |-> new[f]]
    IN  <<[id |-> new.id, set |-> diff({"key"})],
          [id |-> new.id, set |-> diff({"disco", "eps"})]>>

\* Entries without anything the client uses are not stored.
Useful(p) == DOMAIN p.set # {}

DeltaFrame(new, asPatch, big) ==
    LET changed == {id \in Ids : view[id] # new[id]}
        gone    == {id \in changed : new[id] = NoNode}
        patched == asPatch \cap changed
        whole   == InOrder(changed \ (gone \cup patched))
        order   == InOrder(patched)
    IN  [full |-> FALSE, removed |-> InOrder(gone), big |-> big,
         peers |-> [i \in DOMAIN whole |-> new[whole[i]]],
         patches |-> SelectSeq(
            FoldLeft(LAMBDA ps, id : ps \o Patches(view[id], new[id]), <<>>, order),
            Useful)]

Options(id) == {NoNode} \cup {Node(id, v) : v \in Variants[id]}

ViewsAfter ==
    UNION {{[view EXCEPT ![i] = n, ![j] = m] : n \in Options(i), m \in Options(j)} :
             i \in Ids, j \in Ids}

Listens == upd.at = "idle" /\ mapFrames < MaxMapFrames
MoreFrames == Listens /\ mapFrames' = mapFrames + 1

ControlFull(new, big) ==
    /\ MoreFrames /\ stream = "new"
    /\ view' = new
    /\ stream_frame(FullFrame(new, big))
    /\ UNCHANGED ours

ControlDelta(new, asPatch, big) ==
    /\ MoreFrames /\ stream = "open" /\ new # view
    /\ view' = new
    /\ stream_frame(DeltaFrame(new, asPatch, big))
    /\ UNCHANGED ours

\* A frame that does not parse is dropped and the stream goes on.
ControlMalformed(new) ==
    /\ MoreFrames /\ stream = "open" /\ new # view
    /\ view' = new /\ lost' = TRUE
    /\ UNCHANGED <<stream, tbl, sess, proven, ours, init, upd>>

StreamEnds ==
    /\ MoreFrames /\ stream = "open" /\ stream' = "new"
    /\ UNCHANGED <<view, tbl, lost, sess, proven, ours, init, upd>>

\* The data plane: the endpoint roams, is proven or lapses; STUN answers.
Roam(ep, proof) ==
    /\ sess # NoNode /\ <<ep, proof>> # <<sess.live, proven>>
    /\ sess' = [sess EXCEPT !.live = ep]
    /\ proven' = proof
    /\ upd' = IF upd = NoUpdate THEN upd ELSE [upd EXCEPT !.roamed = TRUE]
    /\ UNCHANGED <<view, stream, tbl, lost, ours, init, mapFrames>>

StunLearns ==
    /\ ours = NoAddr /\ ours' = OurAddr
    /\ UNCHANGED <<view, stream, tbl, lost, sess, proven, init, upd, mapFrames>>

MapNext ==
    \/ /\ Listens
       /\ \E new \in ViewsAfter :
            \/ \E big \in BOOLEAN : ControlFull(new, big)
            \/ \E asPatch \in {{}, {id \in Ids : Patchable(view[id], new[id])}}, big \in BOOLEAN :
                  ControlDelta(new, asPatch, big)
            \/ ControlMalformed(new)
    \/ StreamEnds
    \/ TestProven \/ apply_peer_endpoint \/ update_keys
    \/ \E ep \in Addresses, proof \in BOOLEAN : Roam(ep, proof)
    \/ StunLearns

-----------------------------------------------------------------------------
\* Properties

\* While a stream is open and nothing was silently dropped since its full map,
\* the peer table (merge_peers) is exactly control's nodes: no removed peer
\* lingers, no entry has older keys or endpoints, each NodeID is there once.
\* Deltas over the per-frame caps never leave it partly updated (stream_frame).
TableFollowsControl ==
    /\ \A i, j \in DOMAIN tbl : i # j => tbl[i].id # tbl[j].id
    /\ Len(tbl) <= MaxPeers
    /\ stream = "open" /\ ~lost =>
          ToSet(tbl) = {view[id] : id \in Ids} \ {NoNode}

\* The session never leaves the NodeID it was started with, however the table
\* is reordered, and has the keys of its peer's entry whenever there is one and
\* no update is under way (wg_dataplane_update_peers).
SessionFollowsTable ==
    sess # NoNode =>
        /\ sess.key[1] = sess.id
        /\ \A i \in DOMAIN tbl : tbl[i].id = sess.id /\ upd = NoUpdate =>
              /\ sess.key = tbl[i].key /\ sess.disco = tbl[i].disco
              /\ tbl[i].v4 \in {0, sess.v4}

NetmapSound == TableFollowsControl /\ SessionFollowsTable

\* A netmap moves the endpoint only to an address its peer's entry lists, and
\* only off one that is neither proven nor listed; the INIT that a re-login
\* triggers goes where the endpoint is after the whole frame, not to the
\* address the same frame replaced.  The one exception is an endpoint that
\* wg_rx writes between the three lock sections of apply_peer_endpoint: it is
\* overwritten, proven or not.
EndpointStep ==
    sess # NoNode /\ sess' # NoNode /\ upd # NoUpdate /\ upd'.at # upd.at =>
        /\ sess'.live # sess.live =>
              /\ sess'.live \in ToSet(of_session(tbl).eps)
              /\ ~upd.roamed => ~proven /\ sess.live \notin ToSet(of_session(tbl).eps)
        /\ sess'.key # sess.key =>
              /\ init' = sess'.live
              /\ ~upd.roamed /\ upd.did = "move" => init' = upd.ep
              /\ ~upd.roamed /\ upd.did = "keep" =>
                    proven \/ init' \in ToSet(of_session(tbl).eps)

EndpointKept == [][EndpointStep]_mapVars
=============================================================================
