------------------------------- MODULE MCPath -------------------------------
(* The path to the peer, for TLC: the state machine of the direct path and  *)
(* the relay (WgPath), and the re-send of the frames a lapse of the direct  *)
(* path endangers (WgRescue).  `which` names the one a behaviour is about;  *)
(* the other stays as it started.                                           *)
EXTENDS WgPath

VARIABLES
  which,
  clock, cur_gen, from, ring, sent, sum, flush, kept_gen, kept_at, handed,
  order                                                          \* WgRescue

rescueVars == <<clock, cur_gen, from, ring, sent, sum, flush, kept_gen, kept_at, handed, order>>

\* A ring of three frames, three keypairs; a frame is at risk for three
\* ticks and in transit for one.
Kept == INSTANCE WgRescue WITH
  RescueSlots <- 3, MaxAge <- 3, Transit <- 1, MaxGen <- 3, MaxTime <- 4, now <- clock

MCInit == /\ which \in {"path", "rescue"} /\ Init /\ Kept!Init
          /\ which = "rescue" => p = Start(1, TRUE)
MCNext == \/ which = "path" /\ Next /\ UNCHANGED <<which, rescueVars>>
          \/ which = "rescue" /\ Kept!Next /\ UNCHANGED <<which, vars>>
MCSpec == MCInit /\ [][MCNext]_<<which, vars, rescueVars>>

\* A bound: at the last instant only a peer with a DiscoKey is followed on.
ManagedLast == which = "path" /\ now = MaxTime => p.managed

(* WgRescue: the summary answers the risk question of an INIT as the ring   *)
(* itself would (wg_rescue_init_risk).                                      *)
RiskExact == which = "rescue" => Kept!RiskExact

(* WgRescue: over refusals, later frames and later passes, frames reach the *)
(* relay in the order they were sent, and none twice (wg_rescue_flush).     *)
ResentInOrder == [][order' # order => order' > order]_order
=============================================================================
