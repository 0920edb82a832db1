----------------------------- MODULE MCDataplane -----------------------------
(* The session with the peer, for TLC: the senders and the receivers of the *)
(* transport (WgTransport: they share the key swap and the scrub, which run *)
(* beside both), and the probes of the direct path (Disco).  `which` names  *)
(* what a behaviour is about; the rest stays as it started.                 *)
EXTENDS WgTransport

VARIABLES
  which,
  now, netif, dpeer, table, ptask, rxd, pings, logged, accepted, built, swaps

discoVars == <<now, netif, dpeer, table, ptask, rxd, pings, logged, accepted, built, swaps>>

\* The peer and another node with an address each, a table of two probes,
\* three pings or changes of the peer's keys.
Probes == INSTANCE Disco WITH
  DiscoKeys <- {"p", "q"}, Eps <- {"a", "b"}, Advertised <- {<<"p", "a">>, <<"q", "b">>},
  TableSize <- 2, ProbeFor <- 1, MaxNow <- 2, MaxWork <- 3, PeerKey <- "p"

MCInit == which \in {"tx", "rx", "disco"} /\ Init /\ Probes!DiscoInit

MCNext ==
  \/ which = "tx" /\ Next /\ UNCHANGED <<rx, which, discoVars>>
  \/ which = "rx" /\ Next /\ UNCHANGED <<tx, which, discoVars>>
  \/ which = "disco" /\ Probes!DiscoNext /\ UNCHANGED <<which, vars>>

MCSpec == MCInit /\ [][MCNext]_<<which, vars, discoVars>>

(* Disco: a probe whose pong may still count is in the table, and a pong    *)
(* moves the endpoint once per ping, from the address probed, in time and   *)
(* only for the peer whose keys opened it (disco_prober.c, rx_pong).        *)
ProbesSound == Probes!ProbesSound
=============================================================================
