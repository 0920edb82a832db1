--------------------------- MODULE MCControlLoop ---------------------------
(* Two addresses: the one the name resolves to and an old one the cache    *)
(* may hold.                                                               *)
EXTENDS ControlLoop

Net(f(_, _)) == [pa \in Ports \X Addrs |-> f(pa[1], pa[2])]
AllOk == Net(LAMBDA p, a : "ok")
OldDead == Net(LAMBDA p, a : IF a = Name THEN "ok" ELSE "dead")
OldMute == Net(LAMBDA p, a : IF a = Name THEN "ok" ELSE "mute")
PlainDead == Net(LAMBDA p, a : IF p = "80" THEN "dead" ELSE "ok")
PlainMute == Net(LAMBDA p, a : IF p = "80" THEN "mute" ELSE "ok")

Scenario(net, delay, addr, known, knows, modes) ==
  {[net |-> net, delay |-> delay, addr |-> addr, known |-> known, knows |-> knows,
    removal |-> delay < ReqBase, one |-> m = "one", alone |-> m = "alone"] : m \in modes}

MCScenarios ==
  Scenario(AllOk, 1, NoAddr, FALSE, FALSE, {"pair", "one", "alone"})
    \cup Scenario(AllOk, 50, "new", TRUE, TRUE, {"pair"})
    \cup Scenario(AllOk, 110, "old", TRUE, FALSE, {"alone"})
    \cup Scenario(OldDead, 1, "old", TRUE, TRUE, {"pair"})
    \cup Scenario(OldMute, 1, "old", TRUE, TRUE, {"alone"})
    \cup Scenario(PlainDead, 1, "old", TRUE, TRUE, {"pair"})

(* Every stream on :80 stalls and :443 answers. *)
StalledScenarios == {[s EXCEPT !.removal = FALSE] :
                       s \in Scenario(PlainMute, 1, NoAddr, TRUE, TRUE, {"pair"})}

=============================================================================
