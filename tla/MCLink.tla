------------------------------- MODULE MCLink -------------------------------
(* Getting onto the network and staying there, for TLC: the re-probe of the *)
(* public endpoint (StunReprobe), the boot probe (StunBoot), the station    *)
(* (WifiStation), the derivation of the Wi-Fi key (WifiPsk) and the floor   *)
(* under the handshake timestamps (TaiFloor).  `which` names the component  *)
(* a behaviour is about; the others stay as they started.                   *)
EXTENDS StunReprobe, StunBoot, WifiStation, WifiPsk, TaiFloor

VARIABLE which

MCInit ==
  /\ which \in {"reprobe", "boot", "wifi", "psk", "tai"}
  /\ ReprobeInit /\ (which # "reprobe" => now_ep = 1 /\ ~reprobe_now /\ ~s_stun_result.valid)
  /\ WifiInit /\ (which # "wifi" => net = [ssid |-> 1, channel |-> 1])
  /\ BootInit /\ PskInit /\ TaiInit

MCNext ==
  \/ which = "reprobe" /\ ReprobeNext /\ UNCHANGED <<which, bootVars, wifiVars, pskVars, taiVars>>
  \/ which = "boot" /\ BootNext /\ UNCHANGED <<which, reprobeVars, wifiVars, pskVars, taiVars>>
  \/ which = "wifi" /\ WifiNext /\ UNCHANGED <<which, reprobeVars, bootVars, pskVars, taiVars>>
  \/ which = "psk" /\ PskNext /\ UNCHANGED <<which, reprobeVars, bootVars, wifiVars, taiVars>>
  \/ which = "tai" /\ TaiNext /\ UNCHANGED <<which, reprobeVars, bootVars, wifiVars, pskVars>>

\* The tasks of each component run, where the behaviour is about it; a
\* probe's deadline comes although datagrams keep the socket busy.
ReFair ==
  /\ WF_reprobeVars(which = "reprobe" /\ ReprobePoll)
  /\ WF_reprobeVars(which = "reprobe" /\ ProbeStep)
  /\ WF_reprobeVars(which = "reprobe" /\ HandlerStep)
  /\ WF_reprobeVars(which = "reprobe" /\ (PushTake \/ PushRead))

BootFair ==
  /\ WF_bootVars(which = "boot" /\ MainStep)
  /\ WF_bootVars(which = "boot" /\ BootProbeStep)
  /\ SF_bootVars(which = "boot" /\ Deadline)

WifiFair ==
  /\ WF_wifiVars(which = "wifi" /\ Boot)
  /\ WF_wifiVars(which = "wifi" /\ Handler)
  /\ WF_wifiVars(which = "wifi" /\ Timer)
  /\ WF_wifiVars(which = "wifi" /\ (Connected \/ WaitTimesOut))
  /\ WF_wifiVars(which = "wifi" /\ Restart)
  /\ WF_wifiVars(which = "wifi" /\ Driver)

MCSpec ==
  /\ MCInit /\ [][MCNext]_<<which, reprobeVars, bootVars, wifiVars, pskVars, taiVars>>
  /\ ReFair /\ BootFair /\ WifiFair

(* StunBoot: the join returns, and the probe's task ends once it started:   *)
(* neither task waits for the other for ever (stun_boot_join).              *)
BothGoOn ==
  /\ <>[](which = "boot" => JoinEnded)
  /\ []<>(which = "boot" => ProbeEnded)

(* WifiStation: the station joins for good once failures end, unless the    *)
(* driver itself refused a connect.                                         *)
Rejoins ==
  <>[](which = "wifi" => Online) \/ <>[](which = "wifi" => Parked)
=============================================================================
