----------------------------- MODULE MCRecords -----------------------------
(* What the device keeps over resets and the tasks that keep it, one at a   *)
(* time: the netmap of the warm start (WarmStart, over several boots), the  *)
(* TLS sessions (TlsSessions), the addresses of the relay and of control    *)
(* (AddrCache); and the housekeeping loop that runs their polls             *)
(* (Telemetry).  `which` names the component a behaviour is about; the      *)
(* others stay as they started.                                             *)
EXTENDS WarmStart, TlsSessions, AddrCache, TLC

VARIABLES
  which,
  up, link, sock, spawn, start, pc, plan, stun, notified, sentAt \* Telemetry

tlmVars == <<up, link, sock, spawn, start, pc, plan, stun, notified, sentAt>>

\* A netmap and one with another peer.
TwoNetmaps == {[self |-> 1, peer |-> 1, key |-> 1, ep |-> 1],
               [self |-> 1, peer |-> 2, key |-> 2, ep |-> 1]}

\* Two firmwares of different regions and control hosts.
TwoFirmwares == {[region |-> 1, derp |-> "h1", ctl |-> "c"],
                 [region |-> 2, derp |-> "h2", ctl |-> "d"]}

\* Two nodes a netmap names: the first firmware's with an address, and another
\* without.
TwoNodes == {[host |-> "h1", addr |-> "a"], [host |-> "h2", addr |-> "none"]}

\* The relays are alike to the TLS sessions.
AnyHosts == Permutations(DerpHosts)

\* Two periods; the slices and periods keep the order of the
\* code's.
Tlm == INSTANCE Telemetry WITH
  Period <- 4, SlackDiv <- 4, SlackMax <- 1, EarlyMax <- 10, HoldMax <- 2, HoldPoll <- 1,
  SliceStats <- 3, SliceIdle <- 7, HkEvery <- 8, StunEvery <- 9, SpawnRetry <- 7,
  Drift <- 1, Block <- 1, MaxUp <- 10

\* The housekeeping loop, where the behaviour is not about it.
NoTlm == /\ up = 0 /\ link = 0 /\ sock = 0 /\ spawn = 0 /\ start = 0 /\ pc = 0
         /\ plan = 0 /\ stun = 0 /\ notified = 0 /\ sentAt = 0

MCInit ==
  /\ which \in {"warm", "tls", "addr", "tlm"}
  /\ WarmInit /\ (which # "warm" => nvs = NoRecord)
  /\ TlsInit /\ (which # "tls" => rsaOff = {})
  /\ AddrInit /\ (which # "addr" => fw.region = 1)
  /\ IF which = "tlm" THEN Tlm!TlmInit ELSE NoTlm

MCNext ==
  \/ which = "warm" /\ WarmNext /\ UNCHANGED <<which, tlsVars, addrVars, tlmVars>>
  \/ which = "tls" /\ TlsNext /\ UNCHANGED <<which, warmVars, addrVars, tlmVars>>
  \/ which = "addr" /\ AddrNext /\ UNCHANGED <<which, warmVars, tlsVars, tlmVars>>
  \/ which = "tlm" /\ Tlm!TlmNext /\ UNCHANGED <<which, warmVars, tlsVars, addrVars>>

MCSpec == MCInit /\ [][MCNext]_<<which, warmVars, tlsVars, addrVars, tlmVars>>

(* Telemetry: one task however often it is asked for, housekeeping and      *)
(* re-probes on time, samples on their grid (telemetry.c).                  *)
TelemetrySound ==
  /\ [](which = "tlm" => Tlm!TlmSound)
  /\ [][which = "tlm" => Tlm!SampleSound]_tlmVars
=============================================================================
