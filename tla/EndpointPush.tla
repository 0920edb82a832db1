---------------------------- MODULE EndpointPush ----------------------------
(***************************************************************************)
(* What the endpoint push promises, without connections, requests or       *)
(* deadlines: the control server has the node's public endpoint unless the *)
(* node still owes it a push, and a push that is owed is made.             *)
(***************************************************************************)
CONSTANT Endpoints

VARIABLES
  ep,    \* the endpoint the node has (s_stun_result)
  told,  \* the endpoint control has for the node
  owed   \* the node is still going to push

vars == <<ep, told, owed>>

Init == ep \in Endpoints /\ told \in Endpoints /\ owed = TRUE

Move == ep' \in Endpoints /\ owed' = TRUE /\ told' = told

(* A push control applied whose answer was lost, or with an endpoint the   *)
(* node no longer has: the node pushes again.                              *)
Unsettled == owed /\ told' \in Endpoints /\ owed' = TRUE /\ ep' = ep

(* A registration asks for a push, whatever control has.                   *)
Ask == owed' = TRUE /\ UNCHANGED <<ep, told>>

Deliver == owed /\ told' = ep /\ owed' = FALSE /\ ep' = ep

Next == Move \/ Unsettled \/ Ask \/ Deliver

Spec == Init /\ [][Next]_vars /\ WF_vars(Deliver)

=============================================================================
