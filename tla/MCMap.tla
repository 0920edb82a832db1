------------------------------- MODULE MCMap -------------------------------
(* The way of a netmap from control's bytes to the WireGuard session, one   *)
(* component at a time: the HTTP/2 engine (H2Core), the streaming splitter  *)
(* of the JSON body (MapSplit), the peer table and the session's peer       *)
(* (Netmap).  `which` names the component a behaviour is about; the others  *)
(* stay as they started.                                                    *)
EXTENDS Integers, Sequences

VARIABLES
  which,
  h, srv, frames, requests,                                        \* H2Core
  text, split, fed,                                                \* MapSplit
  view, stream, tbl, lost, sess, proven, ours, init, upd, mapFrames \* Netmap

h2Vars == <<h, srv, frames, requests>>
splitVars == <<text, split, fed>>
mapVars == <<view, stream, tbl, lost, sess, proven, ours, init, upd, mapFrames>>

Field(k, v) == [k |-> k, v |-> v]
Block(items, eh, es) == [items |-> items, eh |-> eh, es |-> es]
Data(left, pad, es) == [left |-> left, pad |-> pad, es |-> es]

\* A window of 4; frames of data, padded data and an empty last frame;
\* responses with and without a length, an interim one cut before its end,
\* one without a body cut inside a field, a trailer, a block that does not
\* decode.
H2 == INSTANCE H2Core WITH
  Window <- 4, MaxWindow <- 5, CtlCap <- 2, MaxCont <- 1, TxCap <- 4,
  Bodies <- {3}, SideBodies <- {1, 3}, InitWins <- {1},
  DataFrames <- {Data(2, 0, FALSE), Data(3, 1, FALSE), Data(0, 0, TRUE)},
  BlockFrames <- {Block(<<Field("status", 200)>>, TRUE, FALSE),
                  Block(<<Field("status", 200), Field("cl", 2)>>, TRUE, FALSE),
                  Block(<<Field("status", 103)>>, FALSE, FALSE),
                  Block(<<Field("status", 304), Field("cut", 0)>>, FALSE, FALSE),
                  Block(<<Field("reg", 0)>>, TRUE, TRUE),
                  Block(<<Field("corrupt", 0)>>, TRUE, FALSE)},
  MaxFrames <- 3, MaxRequests <- 2

\* Bodies begun outside and inside the two arrays the splitter collects from
\* ("P" stands for "Peers", "D" for both "DERPMap" and "Regions"), in a
\* string and before a value, then any five characters.
AtPeers == <<"{", "\"", "P", "\"", ":", "[">>
AtRegions == <<"{", "\"", "D", "\"", ":", "{", "\"", "D", "\"", ":", "{">>
Split == INSTANCE MapSplit WITH
  Chars <- {"{", "}", "[", "]", ",", ":", "\"", "\\", " ", "P"},
  Starts <- {<<>>, AtPeers, AtPeers \o <<"P", "\"", ",", "\"", "[">>,
             AtRegions, AtRegions \o <<"\"", "P", "\"", ":">>},
  PeersKey <- <<"P">>, DerpMapKey <- <<"D">>, RegionsKey <- <<"D">>,
  MaxDepth <- 2, ElemCap <- 2, MaxFed <- 5

\* Three nodes of which the table holds two; a node may change its key, its
\* endpoints (one of them our own public address) or lose its IPv4 address.
Usual == [key |-> 1, disco |-> 1, eps |-> <<"lan", "pub">>, v4 |-> 1]
Rekeyed == [key |-> 2, disco |-> 1, eps |-> <<"nat", "lan">>, v4 |-> 1]
Bare == [key |-> 1, disco |-> 0, eps |-> <<"lan">>, v4 |-> 0]
Map == INSTANCE Netmap WITH
  Ids <- {1, 2, 3}, Variants <- <<{Usual, Rekeyed}, {Usual, Bare}, {Usual}>>,
  Addresses <- {"lan", "pub", "nat"}, PublicAddrs <- {"pub", "nat"}, OurAddr <- "nat",
  MaxPeers <- 2, MaxRemoved <- 1, MaxPatches <- 1, MaxMapFrames <- 3

Init ==
  /\ which \in {"h2", "split", "map"}
  /\ H2!Init /\ Map!MapInit
  /\ Split!SplitInit /\ (which # "split" => text = <<>>)

Next ==
  \/ which = "h2" /\ H2!Next /\ UNCHANGED <<which, splitVars, mapVars>>
  \/ which = "split" /\ Split!SplitNext /\ UNCHANGED <<which, h2Vars, mapVars>>
  \/ which = "map" /\ Map!MapNext /\ UNCHANGED <<which, h2Vars, splitVars>>

Spec == Init /\ [][Next]_<<which, h2Vars, splitVars, mapVars>>

(* H2Core: neither side of a window is overdrawn, lost or granted twice     *)
(* (data_consumed, put_data, setting, roll_back), and control saw the       *)
(* streams the engine believes it opened.                                   *)
EngineAgrees == which = "h2" => H2!EngineAgrees

(* H2Core: a clean close is a whole response (remote_end).                  *)
CloseIsAnswer == which = "h2" => H2!CloseIsAnswer

(* MapSplit: the streaming splitter collects what the whole body holds.     *)
SplitAsWhole == which = "split" => Split!SplitAsWhole

(* Netmap: the peer table follows control, the session follows the table.   *)
NetmapSound == which = "map" => Map!NetmapSound

(* Netmap: a frame moves the session's endpoint only off an address neither *)
(* proven nor listed (one that roams while it does apart), and an INIT goes *)
(* to the endpoint after the frame.                                         *)
EndpointKept == [][which = "map" => Map!EndpointStep]_mapVars
=============================================================================
