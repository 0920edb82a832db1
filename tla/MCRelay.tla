------------------------------ MODULE MCRelay ------------------------------
(* Two components with promises that need fairness, for TLC: the relay      *)
(* connection with its supervisor and a sender (DerpClient), and one boot   *)
(* of the warm start (WarmStart; several boots are in MCRecords).  `which`  *)
(* names the one a behaviour is about; the other stays as it started.       *)
EXTENDS DerpClient, WarmStart

VARIABLE which

\* A netmap and one each with another address of ours, another key and
\* another endpoint.
Netmap(s, p, k, e) == [self |-> s, peer |-> p, key |-> k, ep |-> e]
FourNetmaps ==
  {Netmap(1, 1, 1, 1), Netmap(2, 1, 1, 1), Netmap(1, 1, 2, 1), Netmap(1, 1, 1, 2)}

MCInit ==
  /\ which \in {"derp", "warm"} /\ Init
  /\ WarmInit /\ (which # "warm" => nvs = NoRecord)

MCNext ==
  \/ which = "derp" /\ Next /\ UNCHANGED <<which, warmVars>>
  \/ which = "warm" /\ WarmNext /\ UNCHANGED <<which, vars>>

\* The fairness of each (Fairness, WarmFairness), where the behaviour is about
\* it.
DerpFair ==
  /\ \A w \in Tasks : WF_vars(which = "derp" /\ Frame(w))
  /\ WF_vars(which = "derp" /\ Send(Sup, FALSE))
  /\ SF_vars(which = "derp" /\ Take(Sup))
  /\ WF_vars(which = "derp" /\ Supervise)
  /\ WF_vars(which = "derp" /\ ReadAborted)
  /\ SF_vars(which = "derp" /\ (ReadEvent \/ ReadEnds))

WarmFair ==
  /\ WF_warmVars(which = "warm" /\ LpStep)
  /\ WF_warmVars(which = "warm" /\ TlmStep)
  /\ SF_warmVars(which = "warm" /\ (PollBound("lp") \/ PollBound("tlm")))

MCSpec == MCInit /\ [][MCNext]_<<which, vars, warmVars>> /\ DerpFair /\ WarmFair
=============================================================================
