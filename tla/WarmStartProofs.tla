-------------------------- MODULE WarmStartProofs --------------------------
(***************************************************************************)
(* The safety of the warm start over boots (WarmBootsSound) and within one *)
(* (WarmSessionSound), for any set of netmaps, any number of boots and any *)
(* limit of crashes.                                                       *)
(*                                                                         *)
(* WarmInv strengthens them along four lines: what a reset leaves behind   *)
(* and the marks in RTC memory say of it (AtReset, Marks); that the gate   *)
(* keeps the handler of netmaps and main's warm start apart (Gate); what   *)
(* the data plane runs with at each place of either (Plane); and that the  *)
(* record is only written under the mutex, and not before a session is     *)
(* confirmed (Writer).                                                     *)
(***************************************************************************)
EXTENDS WarmStart, TLAPS

\* Places of main inside the warm start, of the long-poll inside a frame, of
\* the telemetry task on its way to a write.
Inside == {"locked", "bringup", "prepunch"}
InFrame == {"frame", "netmap", "cold", "update", "stage"}
ToWrite == {"take", "store", "settle"}

LpPCs == {"stream", "gate", "poll", "mark", "hung"} \cup InFrame \cup Restarting
TlmPCs == {"idle", "poll", "copy", "mark", "hung"} \cup ToWrite \cup Restarting

RtcRec == [attempt : BOOLEAN, skip : BOOLEAN, crashes : Nat]
SmRec == [state : {"OFF", "PENDING", "CONFIRMED"}, seeded : BOOLEAN, restart : BOOLEAN,
          bound_fired : BOOLEAN, unsettled : BOOLEAN, pending : BOOLEAN]
LpRec == [pc : LpPCs, kind : Kinds \cup {"none", "moved"}, nm : Records, warm : BOOLEAN]
TlmRec == [pc : TlmPCs, rec : Records, rc : Int]
MirrorRec == [valid : BOOLEAN, wrote : BOOLEAN, rec : Records]

Types ==
  /\ rtc \in RtcRec /\ sm \in SmRec /\ lp \in LpRec /\ tlm \in TlmRec
  /\ mirror \in MirrorRec
  /\ main \in {"off", "start", "done"} \cup Inside
  /\ tables \in Records /\ session \in Records /\ stage \in Records /\ nvs \in Records
  /\ streak \in Nat /\ starts \in Nat
  /\ prev \in {"plain", "lost", "restart"}

\* No session, nothing staged, no write under way: before the data plane is
\* started.
NotStarted ==
  /\ sm.state = "OFF" /\ ~sm.unsettled
  /\ session = NoRecord /\ starts = 0 /\ stage = NoRecord /\ tlm.pc \notin ToWrite

AtReset ==
  /\ main = "off" <=> reset # "up"
  /\ reset # "up" => lp = LpIdle /\ tlm = TlmIdle /\ ~gate_shut /\ ~gate_lp /\ NotStarted
  /\ reset = "POWERON" => streak = 0 /\ prev = "plain"
  /\ reset # "up" /\ prev = "restart" => rtc.skip
  /\ prev = "lost" /\ reset # "up" => reset = "CRASH" /\ rtc.attempt
  /\ reset = "up" /\ verdict = "CLEAN" => prev = "plain"

Marks ==
  /\ rtc.crashes <= MAX_CRASHES
  /\ streak <= IF reset = "CRASH" /\ rtc.attempt THEN rtc.crashes + 1 ELSE rtc.crashes
  /\ streak <= MAX_CRASHES
  /\ Marked => rtc.skip
  /\ ~Marked /\ reset = "up" /\ verdict = "CLEAN" => rtc.crashes < MAX_CRASHES
  /\ Unsettled => rtc.attempt /\ verdict = "CLEAN"

Gate ==
  /\ main \in Inside => mx = "main" /\ gate_shut
  /\ main \in {"bringup", "prepunch"} => verdict = "CLEAN"
  /\ lp.pc \in InFrame => gate_lp
  /\ gate_lp /\ lp.pc \notin Restarting \cup {"hung"} => gate_shut /\ main \notin Inside
  /\ main \in {"locked", "bringup"} \/ (main = "start" /\ ~gate_shut) => NotStarted

Plane ==
  /\ mirror.valid => mirror.rec # NoRecord
  /\ main = "bringup" => tables = mirror.rec /\ tables # NoRecord
  /\ sm.state = "PENDING" => session = mirror.rec /\ session # NoRecord
  /\ lp.kind = "full" => lp.nm # NoRecord
  /\ lp.pc = "netmap" => sm.state = "PENDING"
  /\ lp.pc = "cold" => tables # NoRecord /\ session = NoRecord
  /\ lp.pc = "update" => tables # NoRecord /\ session # NoRecord /\ session.self = tables.self
  /\ session = NoRecord => starts = 0
  /\ starts <= 1
  /\ ConfirmOrBound /\ SessionFollowsNetmap

Writer ==
  /\ sm.state = "PENDING" =>
       stage = NoRecord /\ tlm.pc \notin ToWrite /\ lp.pc \notin {"cold", "update", "stage"}
  /\ tlm.pc \in ToWrite => tlm.rec # NoRecord
  /\ tlm.pc \in {"store", "settle"} => mx = "tlm"
  /\ NoWriteAfterErase

WarmInv == Types /\ AtReset /\ Marks /\ Gate /\ Plane /\ Writer
-----------------------------------------------------------------------------

(* What a reset leaves in RAM has the types of the five records.           *)
LEMMA Cleared ==
  SmOff \in SmRec /\ LpIdle \in LpRec /\ TlmIdle \in TlmRec /\ NoMirror \in MirrorRec
<1>1. SmOff \in SmRec
  BY DEF SmOff, SmRec
<1>2. LpIdle \in LpRec
  BY DEF LpIdle, LpRec, LpPCs, Records
<1>3. TlmIdle \in TlmRec
  BY DEF TlmIdle, TlmRec, TlmPCs, Records
<1>4. NoMirror \in MirrorRec
  BY DEF NoMirror, MirrorRec, Records
<1> QED
  BY <1>1, <1>2, <1>3, <1>4

(* The updates of s_warm_rtc keep its type.                               *)
LEMMA RtcTyped ==
  ASSUME NEW r \in RtcRec
  PROVE  /\ \A n \in Nat : [attempt |-> FALSE, skip |-> FALSE, crashes |-> n] \in RtcRec
         /\ \A b \in BOOLEAN : [r EXCEPT !.attempt = b] \in RtcRec
         /\ [r EXCEPT !.attempt = FALSE, !.crashes = 0] \in RtcRec
         /\ tl_warm_rtc_restart(r) \in RtcRec
         /\ tl_warm_rtc_hung(r) \in RtcRec
<1>1. ASSUME NEW n \in Nat PROVE [attempt |-> FALSE, skip |-> FALSE,
      crashes |-> n] \in RtcRec
  BY DEF RtcRec
<1>2. ASSUME NEW b \in BOOLEAN PROVE [r EXCEPT !.attempt = b] \in RtcRec
  BY DEF RtcRec
<1>3. [r EXCEPT !.attempt = FALSE, !.crashes = 0] \in RtcRec
  BY ZenonT(40) DEF RtcRec
<1>4. ASSUME NEW q \in RtcRec PROVE tl_warm_rtc_restart(q) \in RtcRec
  BY ZenonT(40) DEF tl_warm_rtc_restart, RtcRec
<1>5. [r EXCEPT !.crashes = IF @ < MAX_CRASHES THEN @ + 1 ELSE @] \in RtcRec
  BY WarmAssumption DEF RtcRec
<1>6. tl_warm_rtc_hung(r) \in RtcRec
  BY <1>4, <1>5, SMTT(30) DEF tl_warm_rtc_hung
<1> QED
  BY <1>1, <1>2, <1>3, <1>4, <1>6

(* The updates of the session's state machine keep its type.              *)
LEMMA SmTyped ==
  ASSUME NEW s \in SmRec
  PROVE  /\ [SmOff EXCEPT !.seeded = TRUE] \in SmRec
         /\ [s EXCEPT !.state = "PENDING", !.pending = TRUE] \in SmRec
         /\ [s EXCEPT !.state = "OFF", !.seeded = FALSE] \in SmRec
         /\ [s EXCEPT !.bound_fired = TRUE, !.pending = FALSE] \in SmRec
         /\ \A b \in BOOLEAN : [s EXCEPT !.seeded = FALSE, !.restart = @ \/ b] \in SmRec
         /\ [s EXCEPT !.state = "CONFIRMED", !.pending = FALSE,
             !.unsettled = TRUE] \in SmRec
         /\ [s EXCEPT !.restart = TRUE, !.pending = FALSE] \in SmRec
         /\ [s EXCEPT !.state = IF @ = "OFF" THEN "CONFIRMED" ELSE @] \in SmRec
         /\ [s EXCEPT !.unsettled = FALSE] \in SmRec
<1>1. [SmOff EXCEPT !.seeded = TRUE] \in SmRec
  BY ZenonT(40) DEF SmOff, SmRec
<1>2. [s EXCEPT !.state = "PENDING", !.pending = TRUE] \in SmRec
  BY ZenonT(40) DEF SmRec
<1>3. [s EXCEPT !.state = "OFF", !.seeded = FALSE] \in SmRec
  BY ZenonT(40) DEF SmRec
<1>4. [s EXCEPT !.bound_fired = TRUE, !.pending = FALSE] \in SmRec
  BY ZenonT(40) DEF SmRec
<1>5. ASSUME NEW b \in BOOLEAN
      PROVE  [s EXCEPT !.seeded = FALSE, !.restart = @ \/ b] \in SmRec
  BY ZenonT(40) DEF SmRec
<1>6. [s EXCEPT !.state = "CONFIRMED", !.pending = FALSE, !.unsettled = TRUE] \in SmRec
  BY ZenonT(40) DEF SmRec
<1>7. [s EXCEPT !.restart = TRUE, !.pending = FALSE] \in SmRec
  BY ZenonT(40) DEF SmRec
<1>8. [s EXCEPT !.state = IF @ = "OFF" THEN "CONFIRMED" ELSE @] \in SmRec
  BY DEF SmRec
<1>9. [s EXCEPT !.unsettled = FALSE] \in SmRec
  BY ZenonT(40) DEF SmRec
<1> QED
  BY <1>1, <1>2, <1>3, <1>4, <1>5, <1>6, <1>7, <1>8, <1>9, ZenonT(40)

(* The long-poll's steps keep the type of its place and locals.           *)
LEMMA LpTyped ==
  ASSUME NEW l \in LpRec, NEW pc \in LpPCs
  PROVE  /\ [l EXCEPT !.pc = pc] \in LpRec
         /\ \A w \in BOOLEAN, k \in Kinds \cup {"none", "moved"} :
              [l EXCEPT !.warm = w, !.kind = k, !.pc = pc] \in LpRec
         /\ \A k \in Kinds, n \in Records :
              [pc |-> pc, kind |-> k, nm |-> n, warm |-> FALSE] \in LpRec
<1>1. [l EXCEPT !.pc = pc] \in LpRec
  BY DEF LpRec
<1>2. ASSUME NEW w \in BOOLEAN, NEW k \in Kinds \cup {"none", "moved"}
      PROVE  [l EXCEPT !.warm = w, !.kind = k, !.pc = pc] \in LpRec
  BY ZenonT(40) DEF LpRec
<1>3. ASSUME NEW k \in Kinds, NEW n \in Records
      PROVE  [pc |-> pc, kind |-> k, nm |-> n, warm |-> FALSE] \in LpRec
  BY DEF LpRec
<1> QED
  BY <1>1, <1>2, <1>3, ZenonT(40)

(* So does the telemetry task's store.                                    *)
LEMMA TlmTyped ==
  ASSUME NEW t \in TlmRec, NEW rc \in Int
  PROVE  [t EXCEPT !.pc = "settle", !.rc = rc] \in TlmRec
  BY ZenonT(40) DEF TlmRec, TlmPCs, ToWrite

(* A record read from or written to NVS is one the mirror may hold.       *)
LEMMA MirrorTyped ==
  ASSUME NEW n \in Records
  PROVE  /\ [NoMirror EXCEPT !.valid = TRUE, !.rec = n] \in MirrorRec
         /\ [valid |-> TRUE, wrote |-> TRUE, rec |-> n] \in MirrorRec
  BY ZenonT(40) DEF NoMirror, MirrorRec, Records

USE DEF Inside, InFrame, ToWrite, Restarting, Kinds, NoHolder, disk, past

(* Every step keeps the types.                                            *)
LEMMA TypesStep == ASSUME WarmInv, [WarmNext]_warmVars PROVE Types'
<1> USE DEF WarmInv, Types
<1>1. ASSUME NEW io_ok \in BOOLEAN, Boot(io_ok) PROVE Types'
  <2>1. (rtc \in RtcRec)'
    BY <1>1, SMTT(30) DEF RtcRec, Boot, tl_warm_rtc_boot, NoMarks, NoMirror, LpIdle,
        TlmIdle,
        plane, guards
  <2>2. (mirror \in MirrorRec)'
    BY <1>1, MirrorTyped, Cleared, ZenonT(40) DEF Boot, tl_warm_rtc_boot, NoMarks,
        plane, guards
  <2> QED
    BY <1>1, <2>1, <2>2 DEF Records, Boot, tl_warm_rtc_boot, NoMarks, plane, guards
<1>2. CASE Crash
  <2>1. (streak \in Nat)'
    BY <1>2 DEF Crash, WarmReset, SmOff, NoMirror, LpIdle, TlmIdle
  <2>2. (prev \in {"plain", "lost", "restart"})'
    BY <1>2 DEF Crash, WarmReset, SmOff, NoMirror, LpIdle, TlmIdle
  <2> QED
    BY <1>2, <2>1, <2>2, Cleared DEF Records, Crash, WarmReset
<1>3. CASE PowerCycle
  BY <1>3, Cleared DEF Records, PowerCycle, WarmReset
<1>4. CASE OtherRestart
  BY <1>4, Cleared DEF Records, OtherRestart, WarmReset
<1>5. CASE WarmTake
  BY <1>5 DEF RtcRec, SmRec, LpRec, LpPCs, TlmRec, TlmPCs, MirrorRec, Records,
      WarmTake, Booted, plane
<1>6. ASSUME NEW fit \in BOOLEAN, WarmSkip(fit) PROVE Types'
  BY <1>6 DEF RtcRec, SmRec, LpRec, LpPCs, TlmRec, TlmPCs, MirrorRec, Records,
      WarmSkip, Booted, plane, guards
<1>7. ASSUME NEW fit \in BOOLEAN, WarmBegin(fit) PROVE Types'
  <2>1. (rtc \in RtcRec)'
    BY <1>7, ZenonT(40) DEF RtcRec, WarmBegin, Booted, tl_warm_go, SmOff, guards
  <2>2. (sm \in SmRec)'
    BY <1>7, SmTyped, ZenonT(40) DEF WarmBegin, Booted, tl_warm_go, guards
  <2> QED
    BY <1>7, <2>1, <2>2 DEF Records, MirrorRec, WarmBegin, Booted, tl_warm_go, guards
<1>8. ASSUME NEW ok \in BOOLEAN, WarmStarted(ok) PROVE Types'
  <2>1. (rtc \in RtcRec)'
    BY <1>8, ZenonT(40) DEF RtcRec, WarmStarted, Booted, guards
  <2>2. (sm \in SmRec)'
    BY <1>8, ZenonT(40) DEF SmRec, WarmStarted, Booted, guards
  <2> QED
    BY <1>8, <2>1, <2>2 DEF Records, WarmStarted, Booted, guards
<1>9. CASE WarmGive
  BY <1>9 DEF RtcRec, SmRec, LpRec, LpPCs, TlmRec, TlmPCs, MirrorRec, Records,
      WarmGive, Booted, plane, guards
<1>10. ASSUME NEW t \in {"lp", "tlm"}, RestartMark(t) PROVE Types'
  <2>1. (rtc \in RtcRec)'
    BY <1>10, RtcTyped, ZenonT(40) DEF RestartMark, Booted, Pc, Goto, plane, guards
  <2>2. (lp \in LpRec)'
    BY <1>10 DEF LpRec, LpPCs, RestartMark, Booted, Pc, Goto, tl_warm_rtc_hung,
        tl_warm_rtc_restart, plane, guards
  <2>3. (tlm \in TlmRec)'
    BY <1>10 DEF TlmRec, TlmPCs, Records, RestartMark, Booted, Pc, Goto, tl_warm_rtc_hung,
        tl_warm_rtc_restart, plane, guards
  <2>4. (streak \in Nat)'
    BY <1>10 DEF RestartMark, Booted, Pc, Goto, tl_warm_rtc_hung, tl_warm_rtc_restart,
        plane, guards
  <2> QED
    BY <1>10, <2>1, <2>2, <2>3, <2>4, SMTT(30) DEF Records, RestartMark, Booted, Pc, Goto,
        plane,
        guards
<1>11. ASSUME NEW t \in {"lp", "tlm"}, RestartTake(t) PROVE Types'
  BY <1>11 DEF RtcRec, SmRec, LpRec, LpPCs, TlmRec, TlmPCs, MirrorRec, Records,
      RestartTake, Booted, Pc, Goto, plane
<1>12. ASSUME NEW t \in {"lp", "tlm"}, NEW ok \in BOOLEAN, RestartErase(t,
       ok) PROVE Types'
  <2>1. (lp \in LpRec)'
    BY <1>12 DEF LpRec, LpPCs, RestartErase, Booted, Pc, Goto, plane, guards
  <2>2. (tlm \in TlmRec)'
    BY <1>12 DEF TlmRec, TlmPCs, Records, RestartErase, Booted, Pc, Goto, plane, guards
  <2> QED
    BY <1>12, <2>1, <2>2 DEF Records, RestartErase, Booted, Pc, Goto, plane, guards
<1>13. ASSUME NEW t \in {"lp", "tlm"}, RestartNow(t) PROVE Types'
  BY <1>13, Cleared DEF Records, RestartNow, Pc, WarmReset
<1>14. CASE PollRestart
  BY <1>14 DEF RtcRec, SmRec, LpRec, LpPCs, TlmRec, TlmPCs, MirrorRec, Records,
      PollRestart, Booted, Goto, plane, guards
<1>15. ASSUME NEW t \in {"lp", "tlm"}, PollBound(t) PROVE Types'
  <2>1. (sm \in SmRec)'
    BY <1>15, ZenonT(40) DEF SmRec, PollBound, Booted, Pc, Goto, BoundClaims, plane, guards
  <2>2. (lp \in LpRec)'
    BY <1>15 DEF LpRec, LpPCs, PollBound, Booted, Pc, Goto, BoundClaims, plane, guards
  <2>3. (tlm \in TlmRec)'
    BY <1>15 DEF TlmRec, TlmPCs, Records, PollBound, Booted, Pc, Goto, BoundClaims, plane,
        guards
  <2> QED
    BY <1>15, <2>1, <2>2, <2>3 DEF Records, PollBound, Booted, Pc, Goto, BoundClaims,
        plane, guards
<1>16. ASSUME NEW t \in {"lp", "tlm"}, PollNothing(t) PROVE Types'
  BY <1>16 DEF RtcRec, SmRec, LpRec, LpPCs, TlmRec, TlmPCs, MirrorRec, Records,
      PollNothing, Booted, Pc, Goto, plane, guards
<1>17. ASSUME NEW kind \in Kinds, NEW n \in Records, NetmapFrame(kind, n) PROVE Types'
  BY <1>17 DEF RtcRec, SmRec, LpRec, LpPCs, TlmRec, TlmPCs, MirrorRec, Records, NetmapFrame,
      Booted, plane, guards
<1>18. CASE StreamEnds
  BY <1>18 DEF RtcRec, SmRec, LpRec, LpPCs, TlmRec, TlmPCs, MirrorRec, Records,
      StreamEnds, Booted, LpTo, plane, guards
<1>19. CASE GateTake
  BY <1>19 DEF RtcRec, SmRec, LpRec, LpPCs, TlmRec, TlmPCs, MirrorRec, Records,
      GateTake, Booted, LpTo, plane
<1>20. CASE GateHung
  BY <1>20 DEF RtcRec, SmRec, LpRec, LpPCs, TlmRec, TlmPCs, MirrorRec, Records,
      GateHung, Booted, LpTo, plane
<1>21. CASE HandleFrame
  <2>1. (sm \in SmRec)'
    BY <1>21, ZenonT(40) DEF SmRec, HandleFrame, Booted, Merged, guards
  <2>2. (lp \in LpRec)'
    BY <1>21, ZenonT(40) DEF LpRec, LpPCs, HandleFrame, Booted, Merged, guards
  <2>3. (tables \in Records)'
    BY <1>21 DEF LpRec, Records, HandleFrame, Booted, Merged, guards
  <2> QED
    BY <1>21, <2>1, <2>2, <2>3 DEF Records, HandleFrame, Booted, Merged, guards
<1>22. CASE SmNetmap
  <2>1. CASE sm.bound_fired
    <3>1. (sm \in SmRec)'
      BY <1>22, <2>1 DEF SmRec, SmNetmap, Booted, LpTo, plane, guards
    <3>2. (lp \in LpRec)'
      BY <1>22, <2>1 DEF LpRec, LpPCs, SmNetmap, Booted, LpTo, plane, guards
    <3> QED
      BY <1>22, <2>1, <3>1, <3>2 DEF Records, SmNetmap, Booted, LpTo, plane, guards
  <2>2. CASE ~sm.bound_fired /\ Told /\ ~RestartDiff(mirror.rec, tables)
    <3>1. (sm \in SmRec)'
      BY <1>22, <2>2, ZenonT(40) DEF SmRec, SmNetmap, Booted, LpTo, plane, guards
    <3>2. (lp \in LpRec)'
      BY <1>22, <2>2 DEF LpRec, LpPCs, SmNetmap, Booted, LpTo, plane, guards
    <3> QED
      BY <1>22, <2>2, <3>1, <3>2 DEF Records, SmNetmap, Booted, LpTo, plane, guards
  <2>3. CASE ~sm.bound_fired /\ ~Told /\ lp.kind = "partial"
    <3>1. (sm \in SmRec)'
      BY <1>22, <2>3 DEF SmRec, SmNetmap, Booted, LpTo, plane, guards
    <3>2. (lp \in LpRec)'
      BY <1>22, <2>3 DEF LpRec, LpPCs, SmNetmap, Booted, LpTo, plane, guards
    <3> QED
      BY <1>22, <2>3, <3>1, <3>2 DEF Records, SmNetmap, Booted, LpTo, plane, guards
  <2>4. CASE ~sm.bound_fired /\ IF Told THEN RestartDiff(mirror.rec,
             tables) ELSE lp.kind # "partial"
    <3>1. (sm \in SmRec)'
      BY <1>22, <2>4, ZenonT(40) DEF SmRec, SmNetmap, Booted, LpTo, plane, guards
    <3>2. (lp \in LpRec)'
      BY <1>22, <2>4 DEF LpRec, LpPCs, SmNetmap, Booted, LpTo, plane, guards
    <3> QED
      BY <1>22, <2>4, <3>1, <3>2 DEF Records, SmNetmap, Booted, LpTo, plane, guards
  <2> QED
    BY <1>22, <2>1, <2>2, <2>3, <2>4 DEF SmNetmap
<1>23. ASSUME NEW ok \in BOOLEAN, ColdStart(ok) PROVE Types'
  BY <1>23 DEF RtcRec, SmRec, LpRec, LpPCs, TlmRec, TlmPCs, MirrorRec, Records,
      ColdStart, Booted, LpTo, guards
<1>24. CASE UpdatePeers
  BY <1>24 DEF RtcRec, SmRec, LpRec, LpPCs, TlmRec, TlmPCs, MirrorRec, Records,
      UpdatePeers, Booted, LpTo, guards
<1>25. CASE WarmStage
  BY <1>25 DEF RtcRec, SmRec, LpRec, LpPCs, TlmRec, TlmPCs, MirrorRec, Records,
      WarmStage, Booted, LpTo, plane, guards
<1>26. CASE TlmWake
  BY <1>26 DEF RtcRec, SmRec, LpRec, LpPCs, TlmRec, TlmPCs, MirrorRec, Records,
      TlmWake, Booted, TlmTo, plane, guards
<1>27. CASE PersistCopy
  <2>1. (tlm \in TlmRec)'
    BY <1>27, ZenonT(40) DEF TlmRec, TlmPCs, Records, PersistCopy, Booted, plane, guards
  <2> QED
    BY <1>27, <2>1 DEF Records, PersistCopy, Booted, plane, guards
<1>28. CASE PersistTake
  BY <1>28 DEF RtcRec, SmRec, LpRec, LpPCs, TlmRec, TlmPCs, MirrorRec, Records,
      PersistTake, Booted, TlmTo, plane, guards
<1>29. ASSUME NEW late \in BOOLEAN, NEW ok \in BOOLEAN, PersistStore(late,
       ok) PROVE Types'
  <2>1. CASE tl_warm_store_due(mirror, tlm.rec, late)
    <3>1. tlm' = [tlm EXCEPT !.pc = "settle", !.rc = IF ok THEN 1 ELSE -1]
      BY <1>29, <2>1 DEF PersistStore, Booted, plane, guards
    <3>2. mirror' = [valid |-> TRUE, wrote |-> TRUE, rec |-> tlm.rec]
      BY <1>29, <2>1 DEF PersistStore, Booted, plane, guards
    <3>3. nvs' = IF ok THEN tlm.rec ELSE nvs
      BY <1>29, <2>1 DEF PersistStore, Booted, plane, guards
    <3>4. UNCHANGED <<rtc, sm, lp, main, tables, session, stage, streak, starts, prev>>
      BY <1>29, <2>1 DEF PersistStore, Booted, plane, guards
    <3>a. (IF ok THEN 1 ELSE -1) \in Int
      OBVIOUS
    <3>5. (tlm \in TlmRec)'
      BY <3>1, <3>a, TlmTyped, Zenon
    <3>6. tlm.rec \in Records
      BY SMTT(30) DEF TlmRec
    <3> QED
      BY <3>1, <3>2, <3>3, <3>4, <3>5, <3>6, MirrorTyped, ZenonT(40)
  <2>2. CASE ~tl_warm_store_due(mirror, tlm.rec, late)
    <3>1. tlm' = [tlm EXCEPT !.pc = "settle", !.rc = 0]
      BY <1>29, <2>2 DEF PersistStore, Booted, plane, guards
    <3>2. UNCHANGED <<rtc, sm, lp, mirror, main, tables, session, stage, nvs, streak,
          starts, prev>>
      BY <1>29, <2>2 DEF PersistStore, Booted, plane, guards
    <3>a. 0 \in Int
      OBVIOUS
    <3>3. (tlm \in TlmRec)'
      BY <3>1, <3>a, TlmTyped, Zenon
    <3> QED
      BY <3>1, <3>2, <3>3, MirrorTyped, ZenonT(40)
  <2> QED
    BY <2>1, <2>2
<1>30. CASE PersistSettle
  <2>1. CASE sm.state = "CONFIRMED" /\ sm.unsettled /\ tlm.rc >= 0
    <3>1. (rtc \in RtcRec)'
      BY <1>30, <2>1, RtcTyped, ZenonT(40) DEF PersistSettle, Booted, plane, guards
    <3>2. (sm \in SmRec)'
      BY <1>30, <2>1, ZenonT(40) DEF SmRec, PersistSettle, Booted, TlmIdle, plane, guards
    <3>3. (tlm \in TlmRec)'
      BY <1>30, <2>1, Cleared DEF PersistSettle, Booted, plane, guards
    <3>4. (streak \in Nat)'
      BY <1>30, <2>1 DEF PersistSettle, Booted, TlmIdle, plane, guards
    <3> QED
      BY <1>30, <2>1, <3>1, <3>2, <3>3, <3>4, SMTT(30) DEF Records, PersistSettle, Booted,
          plane,
          guards
  <2>2. CASE ~(sm.state = "CONFIRMED" /\ sm.unsettled /\ tlm.rc >= 0)
    <3>1. (rtc \in RtcRec)'
      BY <1>30, <2>2, RtcTyped, ZenonT(40) DEF PersistSettle, Booted, plane, guards
    <3>2. (sm \in SmRec)'
      BY <1>30, <2>2 DEF SmRec, PersistSettle, Booted, TlmIdle, plane, guards
    <3>3. (tlm \in TlmRec)'
      BY <1>30, <2>2, Cleared DEF PersistSettle, Booted, plane, guards
    <3>4. (streak \in Nat)'
      BY <1>30, <2>2 DEF PersistSettle, Booted, TlmIdle, plane, guards
    <3> QED
      BY <1>30, <2>2, <3>1, <3>2, <3>3, <3>4 DEF Records, PersistSettle, Booted, plane,
          guards
  <2> QED
    BY <2>1, <2>2
<1>31. CASE UNCHANGED warmVars
  BY <1>31 DEF warmVars
<1> QED
  BY <1>1, <1>2, <1>3, <1>4, <1>5, <1>6, <1>7, <1>8, <1>9, <1>10, <1>11, <1>12, <1>13,
      ZenonT(40),
      <1>14, <1>15, <1>16, <1>17, <1>18, <1>19, <1>20, <1>21, <1>22, <1>23, <1>24,
      <1>25, <1>26, <1>27, <1>28, <1>29, <1>30, <1>31
  DEF WarmNext, MainStep, LpStep, TlmStep, RestartStep

(* Every step keeps what is so between a reset and the next boot.         *)
LEMMA AtResetStep == ASSUME WarmInv, [WarmNext]_warmVars PROVE AtReset'
<1> USE DEF WarmInv, Types, AtReset, Marks, Gate, RtcRec, SmRec, LpRec, LpPCs, TlmRec,
    TlmPCs, MirrorRec, Records, Marked, NotStarted, Unsettled
<1>1. ASSUME NEW io_ok \in BOOLEAN, Boot(io_ok) PROVE AtReset'
  BY <1>1 DEF Boot, tl_warm_rtc_boot, NoMarks, NoMirror, LpIdle, TlmIdle, plane,
      guards
<1>2. CASE Crash
  BY <1>2 DEF Crash, WarmReset, SmOff, NoMirror, LpIdle, TlmIdle
<1>3. CASE PowerCycle
  BY <1>3 DEF PowerCycle, WarmReset, SmOff, NoMirror, LpIdle, TlmIdle
<1>4. CASE OtherRestart
  BY <1>4 DEF OtherRestart, WarmReset, SmOff, NoMirror, LpIdle, TlmIdle
<1>5. CASE WarmTake
  BY <1>5 DEF WarmTake, Booted, plane
<1>6. ASSUME NEW fit \in BOOLEAN, WarmSkip(fit) PROVE AtReset'
  BY <1>6 DEF WarmSkip, Booted, plane, guards
<1>7. ASSUME NEW fit \in BOOLEAN, WarmBegin(fit) PROVE AtReset'
  BY <1>7 DEF WarmBegin, Booted, tl_warm_go, SmOff, guards
<1>8. ASSUME NEW ok \in BOOLEAN, WarmStarted(ok) PROVE AtReset'
  BY <1>8 DEF WarmStarted, Booted, guards
<1>9. CASE WarmGive
  BY <1>9 DEF WarmGive, Booted, plane, guards
<1>10. ASSUME NEW t \in {"lp", "tlm"}, RestartMark(t) PROVE AtReset'
  BY <1>10 DEF RestartMark, Booted, Pc, Goto, tl_warm_rtc_hung, tl_warm_rtc_restart,
      plane, guards
<1>11. ASSUME NEW t \in {"lp", "tlm"}, RestartTake(t) PROVE AtReset'
  BY <1>11 DEF RestartTake, Booted, Pc, Goto, plane
<1>12. ASSUME NEW t \in {"lp", "tlm"}, NEW ok \in BOOLEAN, RestartErase(t,
       ok) PROVE AtReset'
  BY <1>12, SMTT(30) DEF RestartErase, Booted, Pc, Goto, plane, guards
<1>13. ASSUME NEW t \in {"lp", "tlm"}, RestartNow(t) PROVE AtReset'
  BY <1>13 DEF RestartNow, Pc, WarmReset, SmOff, NoMirror, LpIdle, TlmIdle
<1>14. CASE PollRestart
  BY <1>14 DEF PollRestart, Booted, Goto, plane, guards
<1>15. ASSUME NEW t \in {"lp", "tlm"}, PollBound(t) PROVE AtReset'
  BY <1>15 DEF PollBound, Booted, Pc, Goto, BoundClaims, plane, guards
<1>16. ASSUME NEW t \in {"lp", "tlm"}, PollNothing(t) PROVE AtReset'
  BY <1>16 DEF PollNothing, Booted, Pc, Goto, plane, guards
<1>17. ASSUME NEW kind \in Kinds, NEW n \in Records, NetmapFrame(kind, n) PROVE AtReset'
  BY <1>17 DEF NetmapFrame, Booted, plane, guards
<1>18. CASE StreamEnds
  BY <1>18 DEF StreamEnds, Booted, LpTo, plane, guards
<1>19. CASE GateTake
  BY <1>19 DEF GateTake, Booted, LpTo, plane
<1>20. CASE GateHung
  BY <1>20 DEF GateHung, Booted, LpTo, plane
<1>21. CASE HandleFrame
  BY <1>21 DEF HandleFrame, Booted, Merged, guards
<1>22. CASE SmNetmap
  BY <1>22 DEF SmNetmap, Booted, LpTo, Told, RestartDiff, plane, guards
<1>23. ASSUME NEW ok \in BOOLEAN, ColdStart(ok) PROVE AtReset'
  BY <1>23 DEF ColdStart, Booted, LpTo, guards
<1>24. CASE UpdatePeers
  BY <1>24 DEF UpdatePeers, Booted, LpTo, guards
<1>25. CASE WarmStage
  BY <1>25 DEF WarmStage, Booted, LpTo, plane, guards
<1>26. CASE TlmWake
  BY <1>26 DEF TlmWake, Booted, TlmTo, plane, guards
<1>27. CASE PersistCopy
  BY <1>27 DEF PersistCopy, Booted, plane, guards
<1>28. CASE PersistTake
  BY <1>28 DEF PersistTake, Booted, TlmTo, plane, guards
<1>29. ASSUME NEW late \in BOOLEAN, NEW ok \in BOOLEAN, PersistStore(late,
       ok) PROVE AtReset'
  BY <1>29 DEF PersistStore, Booted, plane, guards
<1>30. CASE PersistSettle
  BY <1>30 DEF PersistSettle, Booted, TlmIdle, plane, guards
<1>31. CASE UNCHANGED warmVars
  BY <1>31, SMTT(30) DEF warmVars
<1> HIDE DEF WarmInv, AtReset
<1> QED
  BY <1>1, <1>2, <1>3, <1>4, <1>5, <1>6, <1>7, <1>8, <1>9, <1>10, <1>11, <1>12, <1>13,
      SMTT(30),
      <1>14, <1>15, <1>16, <1>17, <1>18, <1>19, <1>20, <1>21, <1>22, <1>23, <1>24,
      <1>25, <1>26, <1>27, <1>28, <1>29, <1>30, <1>31
  DEF WarmNext, MainStep, LpStep, TlmStep, RestartStep

(* Every step keeps what the marks in RTC memory say.                     *)
LEMMA MarksStep == ASSUME WarmInv, [WarmNext]_warmVars PROVE Marks'
<1> USE DEF WarmInv, Types, AtReset, Marks, Gate, Writer, Plane, RtcRec, SmRec, LpRec,
    LpPCs, TlmRec, TlmPCs, MirrorRec, Records, Marked, NotStarted, Unsettled
<1>1. ASSUME NEW io_ok \in BOOLEAN, Boot(io_ok) PROVE Marks'
  BY <1>1, WarmAssumption, SMTT(30) DEF Boot, tl_warm_rtc_boot, NoMarks, NoMirror, LpIdle,
      TlmIdle, plane, guards
<1>2. CASE Crash
  BY <1>2, WarmAssumption, SMTT(30) DEF Crash, WarmReset, SmOff, NoMirror, LpIdle, TlmIdle
<1>3. CASE PowerCycle
  BY <1>3, WarmAssumption, SMTT(30) DEF PowerCycle, WarmReset, SmOff, NoMirror, LpIdle,
      TlmIdle
<1>4. CASE OtherRestart
  BY <1>4, WarmAssumption DEF OtherRestart, WarmReset, SmOff, NoMirror, LpIdle, TlmIdle
<1>5. CASE WarmTake
  BY <1>5, WarmAssumption DEF WarmTake, Booted, plane
<1>6. ASSUME NEW fit \in BOOLEAN, WarmSkip(fit) PROVE Marks'
  BY <1>6, WarmAssumption DEF WarmSkip, Booted, plane, guards
<1>7. ASSUME NEW fit \in BOOLEAN, WarmBegin(fit) PROVE Marks'
  BY <1>7, WarmAssumption, SMTT(30) DEF WarmBegin, Booted, tl_warm_go, SmOff, guards
<1>8. ASSUME NEW ok \in BOOLEAN, WarmStarted(ok) PROVE Marks'
  <2>1. CASE ok
    BY <1>8, <2>1, WarmAssumption, SMTT(30) DEF WarmStarted, Booted, guards
  <2>2. CASE ~ok
    <3>1. sm'.state = "OFF" /\ sm'.unsettled = sm.unsettled
      BY <1>8, <2>2, ZenonT(40) DEF WarmStarted, Booted, guards
    <3>2. ~rtc'.attempt /\ rtc'.skip = rtc.skip /\ rtc'.crashes = rtc.crashes
      BY <1>8, <2>2 DEF WarmStarted, Booted, guards
    <3>3. reset = "up" /\ main = "bringup" /\ main' = "prepunch" /\ UNCHANGED <<reset,
          verdict, streak, lp, tlm>>
      BY <1>8, <2>2 DEF WarmStarted, Booted, guards
    <3> QED
      BY <3>1, <3>2, <3>3, WarmAssumption
  <2> QED
    BY <2>1, <2>2
<1>9. CASE WarmGive
  BY <1>9, WarmAssumption DEF WarmGive, Booted, plane, guards
<1>10. ASSUME NEW t \in {"lp", "tlm"}, RestartMark(t) PROVE Marks'
  BY <1>10, WarmAssumption DEF RestartMark, Booted, Pc, Goto, tl_warm_rtc_hung,
      tl_warm_rtc_restart, plane, guards
<1>11. ASSUME NEW t \in {"lp", "tlm"}, RestartTake(t) PROVE Marks'
  BY <1>11, WarmAssumption DEF RestartTake, Booted, Pc, Goto, plane
<1>12. ASSUME NEW t \in {"lp", "tlm"}, NEW ok \in BOOLEAN, RestartErase(t,
       ok) PROVE Marks'
  BY <1>12, WarmAssumption DEF RestartErase, Booted, Pc, Goto, plane, guards
<1>13. ASSUME NEW t \in {"lp", "tlm"}, RestartNow(t) PROVE Marks'
  BY <1>13, WarmAssumption DEF RestartNow, Pc, WarmReset, SmOff, NoMirror, LpIdle, TlmIdle
<1>14. CASE PollRestart
  BY <1>14, WarmAssumption DEF PollRestart, Booted, Goto, plane, guards
<1>15. ASSUME NEW t \in {"lp", "tlm"}, PollBound(t) PROVE Marks'
  BY <1>15, WarmAssumption DEF PollBound, Booted, Pc, Goto, BoundClaims, plane, guards
<1>16. ASSUME NEW t \in {"lp", "tlm"}, PollNothing(t) PROVE Marks'
  BY <1>16, WarmAssumption, SMTT(30) DEF PollNothing, Booted, Pc, Goto, plane, guards
<1>17. ASSUME NEW kind \in Kinds, NEW n \in Records, NetmapFrame(kind, n) PROVE Marks'
  BY <1>17, WarmAssumption DEF NetmapFrame, Booted, plane, guards
<1>18. CASE StreamEnds
  BY <1>18, WarmAssumption DEF StreamEnds, Booted, LpTo, plane, guards
<1>19. CASE GateTake
  BY <1>19, WarmAssumption DEF GateTake, Booted, LpTo, plane
<1>20. CASE GateHung
  BY <1>20, WarmAssumption DEF GateHung, Booted, LpTo, plane
<1>21. CASE HandleFrame
  BY <1>21, WarmAssumption, SMTT(30) DEF HandleFrame, Booted, Merged, guards
<1>22. CASE SmNetmap
  <2>1. CASE sm.bound_fired
    BY <1>22, <2>1, WarmAssumption DEF SmNetmap, Booted, LpTo, plane, guards
  <2>2. CASE ~sm.bound_fired /\ Told /\ ~RestartDiff(mirror.rec, tables)
    <3>1. sm'.state = "CONFIRMED" /\ lp.pc = "netmap" /\ lp'.pc = "update"
      BY <1>22, <2>2, ZenonT(40) DEF SmNetmap, Booted, LpTo, plane, guards
    <3>2. UNCHANGED <<rtc, reset, verdict, streak, main, tlm>>
      BY <1>22, <2>2 DEF SmNetmap, Booted, LpTo, plane, guards
    <3> QED
      BY <3>1, <3>2, WarmAssumption
  <2>3. CASE ~sm.bound_fired /\ ~Told /\ lp.kind = "partial"
    BY <1>22, <2>3, WarmAssumption DEF SmNetmap, Booted, LpTo, plane, guards
  <2>4. CASE ~sm.bound_fired /\ IF Told THEN RestartDiff(mirror.rec,
             tables) ELSE lp.kind # "partial"
    BY <1>22, <2>4, WarmAssumption DEF SmNetmap, Booted, LpTo, plane, guards
  <2> QED
    BY <1>22, <2>1, <2>2, <2>3, <2>4 DEF SmNetmap
<1>23. ASSUME NEW ok \in BOOLEAN, ColdStart(ok) PROVE Marks'
  BY <1>23, WarmAssumption DEF ColdStart, Booted, LpTo, guards
<1>24. CASE UpdatePeers
  BY <1>24, WarmAssumption DEF UpdatePeers, Booted, LpTo, guards
<1>25. CASE WarmStage
  BY <1>25, WarmAssumption DEF WarmStage, Booted, LpTo, plane, guards
<1>26. CASE TlmWake
  BY <1>26, WarmAssumption DEF TlmWake, Booted, TlmTo, plane, guards
<1>27. CASE PersistCopy
  BY <1>27, WarmAssumption DEF PersistCopy, Booted, plane, guards
<1>28. CASE PersistTake
  BY <1>28, WarmAssumption DEF PersistTake, Booted, TlmTo, plane, guards
<1>29. ASSUME NEW late \in BOOLEAN, NEW ok \in BOOLEAN, PersistStore(late,
       ok) PROVE Marks'
  <2>1. CASE tl_warm_store_due(mirror, tlm.rec, late)
    BY <1>29, <2>1, WarmAssumption, ZenonT(40) DEF PersistStore, Booted, plane, guards
  <2>2. CASE ~tl_warm_store_due(mirror, tlm.rec, late)
    BY <1>29, <2>2, WarmAssumption, ZenonT(40) DEF PersistStore, Booted, plane, guards
  <2> QED
    BY <2>1, <2>2
<1>30. CASE PersistSettle
  <2>1. CASE sm.state = "CONFIRMED" /\ sm.unsettled /\ tlm.rc >= 0
    <3>1. sm.state = "CONFIRMED" /\ sm'.state = "CONFIRMED" /\ ~sm'.unsettled
      BY <1>30, <2>1 DEF PersistSettle, Booted, TlmIdle, plane, guards
    <3>2. ~rtc'.attempt /\ rtc'.skip = rtc.skip /\ rtc'.crashes = 0
      BY <1>30, <2>1, ZenonT(40) DEF PersistSettle, Booted, TlmIdle, plane, guards
    <3>3. streak' = 0 /\ reset = "up" /\ tlm.pc = "settle" /\ tlm'.pc = "idle"
          /\ UNCHANGED <<reset, verdict, main, lp>>
      BY <1>30, <2>1 DEF PersistSettle, Booted, TlmIdle, plane, guards
    <3> QED
      BY <3>1, <3>2, <3>3, WarmAssumption
  <2>2. CASE ~(sm.state = "CONFIRMED" /\ sm.unsettled /\ tlm.rc >= 0)
    BY <1>30, <2>2, WarmAssumption DEF PersistSettle, Booted, TlmIdle, plane, guards
  <2> QED
    BY <2>1, <2>2
<1>31. CASE UNCHANGED warmVars
  BY <1>31, ZenonT(40) DEF warmVars
<1> HIDE DEF WarmInv, Marks
<1> QED
  BY <1>1, <1>2, <1>3, <1>4, <1>5, <1>6, <1>7, <1>8, <1>9, <1>10, <1>11, <1>12, <1>13,
      <1>14, <1>15, <1>16, <1>17, <1>18, <1>19, <1>20, <1>21, <1>22, <1>23, <1>24,
      <1>25, <1>26, <1>27, <1>28, <1>29, <1>30, <1>31
  DEF WarmNext, MainStep, LpStep, TlmStep, RestartStep

(* Every step keeps the gate.                                             *)
LEMMA GateStep == ASSUME WarmInv, [WarmNext]_warmVars PROVE Gate'
<1> USE DEF WarmInv, Types, AtReset, Gate, Plane, Writer, RtcRec, SmRec, LpRec, LpPCs,
    TlmRec, TlmPCs, MirrorRec, Records, NotStarted
<1>1. ASSUME NEW io_ok \in BOOLEAN, Boot(io_ok) PROVE Gate'
  BY <1>1 DEF Boot, tl_warm_rtc_boot, NoMarks, NoMirror, LpIdle, TlmIdle, plane,
      guards
<1>2. CASE Crash
  BY <1>2 DEF Crash, WarmReset, SmOff, NoMirror, LpIdle, TlmIdle
<1>3. CASE PowerCycle
  BY <1>3 DEF PowerCycle, WarmReset, SmOff, NoMirror, LpIdle, TlmIdle
<1>4. CASE OtherRestart
  BY <1>4 DEF OtherRestart, WarmReset, SmOff, NoMirror, LpIdle, TlmIdle
<1>5. CASE WarmTake
  BY <1>5 DEF WarmTake, Booted, plane
<1>6. ASSUME NEW fit \in BOOLEAN, WarmSkip(fit) PROVE Gate'
  BY <1>6 DEF WarmSkip, Booted, plane, guards
<1>7. ASSUME NEW fit \in BOOLEAN, WarmBegin(fit) PROVE Gate'
  BY <1>7 DEF WarmBegin, Booted, tl_warm_go, SmOff, guards
<1>8. ASSUME NEW ok \in BOOLEAN, WarmStarted(ok) PROVE Gate'
  BY <1>8 DEF WarmStarted, Booted, guards
<1>9. CASE WarmGive
  BY <1>9 DEF WarmGive, Booted, plane, guards
<1>10. ASSUME NEW t \in {"lp", "tlm"}, RestartMark(t) PROVE Gate'
  BY <1>10 DEF RestartMark, Booted, Pc, Goto, tl_warm_rtc_hung, tl_warm_rtc_restart,
      plane, guards
<1>11. ASSUME NEW t \in {"lp", "tlm"}, RestartTake(t) PROVE Gate'
  BY <1>11 DEF RestartTake, Booted, Pc, Goto, plane
<1>12. ASSUME NEW t \in {"lp", "tlm"}, NEW ok \in BOOLEAN, RestartErase(t, ok) PROVE Gate'
  BY <1>12, SMTT(30) DEF RestartErase, Booted, Pc, Goto, plane, guards
<1>13. ASSUME NEW t \in {"lp", "tlm"}, RestartNow(t) PROVE Gate'
  BY <1>13 DEF RestartNow, Pc, WarmReset, SmOff, NoMirror, LpIdle, TlmIdle
<1>14. CASE PollRestart
  BY <1>14 DEF PollRestart, Booted, Goto, plane, guards
<1>15. ASSUME NEW t \in {"lp", "tlm"}, PollBound(t) PROVE Gate'
  BY <1>15 DEF PollBound, Booted, Pc, Goto, BoundClaims, plane, guards
<1>16. ASSUME NEW t \in {"lp", "tlm"}, PollNothing(t) PROVE Gate'
  BY <1>16 DEF PollNothing, Booted, Pc, Goto, plane, guards
<1>17. ASSUME NEW kind \in Kinds, NEW n \in Records, NetmapFrame(kind, n) PROVE Gate'
  BY <1>17 DEF NetmapFrame, Booted, plane, guards
<1>18. CASE StreamEnds
  BY <1>18 DEF StreamEnds, Booted, LpTo, plane, guards
<1>19. CASE GateTake
  BY <1>19 DEF GateTake, Booted, LpTo, plane
<1>20. CASE GateHung
  BY <1>20 DEF GateHung, Booted, LpTo, plane
<1>21. CASE HandleFrame
  BY <1>21 DEF HandleFrame, Booted, Merged, guards
<1>22. CASE SmNetmap
  BY <1>22 DEF SmNetmap, Booted, LpTo, Told, RestartDiff, plane, guards
<1>23. ASSUME NEW ok \in BOOLEAN, ColdStart(ok) PROVE Gate'
  BY <1>23 DEF ColdStart, Booted, LpTo, guards
<1>24. CASE UpdatePeers
  BY <1>24 DEF UpdatePeers, Booted, LpTo, guards
<1>25. CASE WarmStage
  BY <1>25 DEF WarmStage, Booted, LpTo, plane, guards
<1>26. CASE TlmWake
  BY <1>26 DEF TlmWake, Booted, TlmTo, plane, guards
<1>27. CASE PersistCopy
  BY <1>27 DEF PersistCopy, Booted, plane, guards
<1>28. CASE PersistTake
  BY <1>28 DEF PersistTake, Booted, TlmTo, plane, guards
<1>29. ASSUME NEW late \in BOOLEAN, NEW ok \in BOOLEAN, PersistStore(late, ok) PROVE Gate'
  BY <1>29 DEF PersistStore, Booted, plane, guards
<1>30. CASE PersistSettle
  BY <1>30 DEF PersistSettle, Booted, TlmIdle, plane, guards
<1>31. CASE UNCHANGED warmVars
  BY <1>31, SMTT(30) DEF warmVars
<1> HIDE DEF WarmInv, Gate
<1> QED
  BY <1>1, <1>2, <1>3, <1>4, <1>5, <1>6, <1>7, <1>8, <1>9, <1>10, <1>11, <1>12, <1>13,
      <1>14, <1>15, <1>16, <1>17, <1>18, <1>19, <1>20, <1>21, <1>22, <1>23, <1>24,
      <1>25, <1>26, <1>27, <1>28, <1>29, <1>30, <1>31
  DEF WarmNext, MainStep, LpStep, TlmStep, RestartStep

(* Every step keeps what the data plane runs with.                        *)
LEMMA PlaneStep == ASSUME WarmInv, [WarmNext]_warmVars PROVE Plane'
<1> USE DEF WarmInv, Types, AtReset, Gate, Plane, Writer, Marks, RtcRec, SmRec, LpRec,
    LpPCs, TlmRec, TlmPCs, MirrorRec, Records, ConfirmOrBound, Marked, NotStarted,
    SessionFollowsNetmap, Unsettled
<1>1. ASSUME NEW io_ok \in BOOLEAN, Boot(io_ok) PROVE Plane'
  BY <1>1, SMTT(30) DEF Boot, tl_warm_rtc_boot, NoMarks, NoMirror, LpIdle, TlmIdle, plane,
      guards
<1>2. CASE Crash
  BY <1>2, SMTT(30) DEF Crash, WarmReset, SmOff, NoMirror, LpIdle, TlmIdle
<1>3. CASE PowerCycle
  BY <1>3, SMTT(30) DEF PowerCycle, WarmReset, SmOff, NoMirror, LpIdle, TlmIdle
<1>4. CASE OtherRestart
  BY <1>4, SMTT(30) DEF OtherRestart, WarmReset, SmOff, NoMirror, LpIdle, TlmIdle
<1>5. CASE WarmTake
  BY <1>5 DEF WarmTake, Booted, plane
<1>6. ASSUME NEW fit \in BOOLEAN, WarmSkip(fit) PROVE Plane'
  BY <1>6 DEF WarmSkip, Booted, plane, guards
<1>7. ASSUME NEW fit \in BOOLEAN, WarmBegin(fit) PROVE Plane'
  BY <1>7, SMTT(30) DEF WarmBegin, Booted, tl_warm_go, SmOff, guards
<1>8. ASSUME NEW ok \in BOOLEAN, WarmStarted(ok) PROVE Plane'
  <2>1. CASE ok
    <3>1. sm'.state = "PENDING" /\ sm'.bound_fired = sm.bound_fired
      BY <1>8, <2>1, ZenonT(40) DEF WarmStarted, Booted, guards
    <3>2. session' = tables /\ starts' = starts + 1 /\ reset = "up"
          /\ main = "bringup" /\ main' = "prepunch" /\ UNCHANGED <<tables, mirror, lp>>
      BY <1>8, <2>1 DEF WarmStarted, Booted, guards
    <3> QED
      BY <3>1, <3>2
  <2>2. CASE ~ok
    <3>1. sm'.state = "OFF" /\ sm'.bound_fired = sm.bound_fired
      BY <1>8, <2>2, ZenonT(40) DEF WarmStarted, Booted, guards
    <3>2. reset = "up" /\ main = "bringup" /\ main' = "prepunch" /\ UNCHANGED <<session,
          starts, mirror, lp>>
      BY <1>8, <2>2 DEF WarmStarted, Booted, guards
    <3> QED
      BY <3>1, <3>2
  <2> QED
    BY <2>1, <2>2
<1>9. CASE WarmGive
  BY <1>9 DEF WarmGive, Booted, plane, guards
<1>10. ASSUME NEW t \in {"lp", "tlm"}, RestartMark(t) PROVE Plane'
  BY <1>10 DEF RestartMark, Booted, Pc, Goto, tl_warm_rtc_hung, tl_warm_rtc_restart,
      plane, guards
<1>11. ASSUME NEW t \in {"lp", "tlm"}, RestartTake(t) PROVE Plane'
  BY <1>11 DEF RestartTake, Booted, Pc, Goto, plane
<1>12. ASSUME NEW t \in {"lp", "tlm"}, NEW ok \in BOOLEAN, RestartErase(t,
       ok) PROVE Plane'
  BY <1>12, SMTT(30) DEF RestartErase, Booted, Pc, Goto, plane, guards
<1>13. ASSUME NEW t \in {"lp", "tlm"}, RestartNow(t) PROVE Plane'
  BY <1>13, SMTT(30) DEF RestartNow, Pc, WarmReset, SmOff, NoMirror, LpIdle, TlmIdle
<1>14. CASE PollRestart
  BY <1>14 DEF PollRestart, Booted, Goto, plane, guards
<1>15. ASSUME NEW t \in {"lp", "tlm"}, PollBound(t) PROVE Plane'
  BY <1>15 DEF PollBound, Booted, Pc, Goto, BoundClaims, plane, guards
<1>16. ASSUME NEW t \in {"lp", "tlm"}, PollNothing(t) PROVE Plane'
  BY <1>16, SMTT(30) DEF PollNothing, Booted, Pc, Goto, plane, guards
<1>17. ASSUME NEW kind \in Kinds, NEW n \in Records, NetmapFrame(kind, n) PROVE Plane'
  BY <1>17 DEF NetmapFrame, Booted, plane, guards
<1>18. CASE StreamEnds
  BY <1>18 DEF StreamEnds, Booted, LpTo, plane, guards
<1>19. CASE GateTake
  BY <1>19 DEF GateTake, Booted, LpTo, plane
<1>20. CASE GateHung
  BY <1>20 DEF GateHung, Booted, LpTo, plane
<1>21. CASE HandleFrame
  BY <1>21, SMTT(30) DEF HandleFrame, Booted, Merged, guards
<1>22. CASE SmNetmap
  <2>1. CASE sm.bound_fired
    BY <1>22, <2>1, SMTT(30) DEF SmNetmap, Booted, LpTo, Told, RestartDiff, plane, guards
  <2>2. CASE ~sm.bound_fired /\ Told /\ ~RestartDiff(mirror.rec, tables)
    <3>1. sm'.state = "CONFIRMED" /\ ~sm'.bound_fired
      BY <1>22, <2>2, ZenonT(40) DEF SmNetmap, Booted, LpTo, Told, RestartDiff, plane, guards
    <3>2. lp.pc = "netmap" /\ lp'.pc = "update" /\ lp'.kind = lp.kind /\ lp'.nm = lp.nm
      BY <1>22, <2>2 DEF SmNetmap, Booted, LpTo, Told, RestartDiff, plane, guards
    <3>3. tables # NoRecord /\ mirror.rec.self = tables.self
      BY <1>22, <2>2 DEF SmNetmap, Booted, LpTo, Told, RestartDiff, plane, guards
    <3>4. UNCHANGED <<tables, session, starts, mirror, main>>
      BY <1>22, <2>2 DEF SmNetmap, Booted, LpTo, Told, RestartDiff, plane, guards
    <3> QED
      BY <3>1, <3>2, <3>3, <3>4
  <2>3. CASE ~sm.bound_fired /\ ~Told /\ lp.kind = "partial"
    BY <1>22, <2>3 DEF SmNetmap, Booted, LpTo, Told, RestartDiff, plane, guards
  <2>4. CASE ~sm.bound_fired /\ IF Told THEN RestartDiff(mirror.rec,
             tables) ELSE lp.kind # "partial"
    <3>1. sm'.state = sm.state /\ sm'.bound_fired = sm.bound_fired
      BY <1>22, <2>4, ZenonT(40) DEF SmNetmap, Booted, LpTo, Told, RestartDiff, plane, guards
    <3>2. lp'.pc = "poll" /\ lp'.kind = lp.kind /\ lp'.nm = lp.nm
      BY <1>22, <2>4 DEF SmNetmap, Booted, LpTo, Told, RestartDiff, plane, guards
    <3>3. UNCHANGED <<tables, session, starts, mirror, main>>
      BY <1>22, <2>4 DEF SmNetmap, Booted, LpTo, Told, RestartDiff, plane, guards
    <3> QED
      BY <3>1, <3>2, <3>3
  <2> QED
    BY <1>22, <2>1, <2>2, <2>3, <2>4 DEF SmNetmap
<1>23. ASSUME NEW ok \in BOOLEAN, ColdStart(ok) PROVE Plane'
  BY <1>23 DEF ColdStart, Booted, LpTo, guards
<1>24. CASE UpdatePeers
  BY <1>24 DEF UpdatePeers, Booted, LpTo, guards
<1>25. CASE WarmStage
  BY <1>25 DEF WarmStage, Booted, LpTo, plane, guards
<1>26. CASE TlmWake
  BY <1>26 DEF TlmWake, Booted, TlmTo, plane, guards
<1>27. CASE PersistCopy
  BY <1>27 DEF PersistCopy, Booted, plane, guards
<1>28. CASE PersistTake
  BY <1>28 DEF PersistTake, Booted, TlmTo, plane, guards
<1>29. ASSUME NEW late \in BOOLEAN, NEW ok \in BOOLEAN, PersistStore(late,
       ok) PROVE Plane'
  BY <1>29 DEF PersistStore, Booted, plane, guards
<1>30. CASE PersistSettle
  BY <1>30 DEF PersistSettle, Booted, TlmIdle, plane, guards
<1>31. CASE UNCHANGED warmVars
  BY <1>31, SMTT(30) DEF warmVars
<1> HIDE DEF WarmInv, Plane
<1> QED
  BY <1>1, <1>2, <1>3, <1>4, <1>5, <1>6, <1>7, <1>8, <1>9, <1>10, <1>11, <1>12, <1>13,
      <1>14, <1>15, <1>16, <1>17, <1>18, <1>19, <1>20, <1>21, <1>22, <1>23, <1>24,
      <1>25, <1>26, <1>27, <1>28, <1>29, <1>30, <1>31
  DEF WarmNext, MainStep, LpStep, TlmStep, RestartStep

(* Every step keeps the order of the writes.                              *)
LEMMA WriterStep == ASSUME WarmInv, [WarmNext]_warmVars PROVE Writer'
<1> USE DEF WarmInv, Types, AtReset, Gate, Plane, Writer, Marks, RtcRec, SmRec, LpRec,
    LpPCs, TlmRec, TlmPCs, MirrorRec, Records, Marked, NoWriteAfterErase, NotStarted,
    Unsettled
<1>1. ASSUME NEW io_ok \in BOOLEAN, Boot(io_ok) PROVE Writer'
  BY <1>1, SMTT(30) DEF Boot, tl_warm_rtc_boot, NoMarks, NoMirror, LpIdle, TlmIdle, plane,
      guards
<1>2. CASE Crash
  BY <1>2, SMTT(30) DEF Crash, WarmReset, SmOff, NoMirror, LpIdle, TlmIdle
<1>3. CASE PowerCycle
  BY <1>3, SMTT(30) DEF PowerCycle, WarmReset, SmOff, NoMirror, LpIdle, TlmIdle
<1>4. CASE OtherRestart
  BY <1>4 DEF OtherRestart, WarmReset, SmOff, NoMirror, LpIdle, TlmIdle
<1>5. CASE WarmTake
  BY <1>5, SMTT(30) DEF WarmTake, Booted, plane
<1>6. ASSUME NEW fit \in BOOLEAN, WarmSkip(fit) PROVE Writer'
  BY <1>6 DEF WarmSkip, Booted, plane, guards
<1>7. ASSUME NEW fit \in BOOLEAN, WarmBegin(fit) PROVE Writer'
  BY <1>7 DEF WarmBegin, Booted, tl_warm_go, SmOff, guards
<1>8. ASSUME NEW ok \in BOOLEAN, WarmStarted(ok) PROVE Writer'
  BY <1>8, SMTT(30) DEF WarmStarted, Booted, guards
<1>9. CASE WarmGive
  BY <1>9 DEF WarmGive, Booted, plane, guards
<1>10. ASSUME NEW t \in {"lp", "tlm"}, RestartMark(t) PROVE Writer'
  BY <1>10 DEF RestartMark, Booted, Pc, Goto, tl_warm_rtc_hung, tl_warm_rtc_restart,
      plane, guards
<1>11. ASSUME NEW t \in {"lp", "tlm"}, RestartTake(t) PROVE Writer'
  BY <1>11 DEF RestartTake, Booted, Pc, Goto, plane
<1>12. ASSUME NEW t \in {"lp", "tlm"}, NEW ok \in BOOLEAN, RestartErase(t,
       ok) PROVE Writer'
  BY <1>12, SMTT(30) DEF RestartErase, Booted, Pc, Goto, plane, guards
<1>13. ASSUME NEW t \in {"lp", "tlm"}, RestartNow(t) PROVE Writer'
  BY <1>13 DEF RestartNow, Pc, WarmReset, SmOff, NoMirror, LpIdle, TlmIdle
<1>14. CASE PollRestart
  BY <1>14 DEF PollRestart, Booted, Goto, plane, guards
<1>15. ASSUME NEW t \in {"lp", "tlm"}, PollBound(t) PROVE Writer'
  BY <1>15 DEF PollBound, Booted, Pc, Goto, BoundClaims, plane, guards
<1>16. ASSUME NEW t \in {"lp", "tlm"}, PollNothing(t) PROVE Writer'
  BY <1>16, SMTT(30) DEF PollNothing, Booted, Pc, Goto, plane, guards
<1>17. ASSUME NEW kind \in Kinds, NEW n \in Records, NetmapFrame(kind, n) PROVE Writer'
  BY <1>17 DEF NetmapFrame, Booted, plane, guards
<1>18. CASE StreamEnds
  BY <1>18 DEF StreamEnds, Booted, LpTo, plane, guards
<1>19. CASE GateTake
  BY <1>19 DEF GateTake, Booted, LpTo, plane
<1>20. CASE GateHung
  BY <1>20 DEF GateHung, Booted, LpTo, plane
<1>21. CASE HandleFrame
  BY <1>21 DEF HandleFrame, Booted, Merged, guards
<1>22. CASE SmNetmap
  <2>1. CASE sm.bound_fired
    BY <1>22, <2>1 DEF SmNetmap, Booted, LpTo, plane, guards
  <2>2. CASE ~sm.bound_fired /\ Told /\ ~RestartDiff(mirror.rec, tables)
    BY <1>22, <2>2, ZenonT(40) DEF SmNetmap, Booted, LpTo, plane, guards
  <2>3. CASE ~sm.bound_fired /\ ~Told /\ lp.kind = "partial"
    BY <1>22, <2>3 DEF SmNetmap, Booted, LpTo, plane, guards
  <2>4. CASE ~sm.bound_fired /\ IF Told THEN RestartDiff(mirror.rec,
             tables) ELSE lp.kind # "partial"
    BY <1>22, <2>4 DEF SmNetmap, Booted, LpTo, plane, guards
  <2> QED
    BY <1>22, <2>1, <2>2, <2>3, <2>4 DEF SmNetmap
<1>23. ASSUME NEW ok \in BOOLEAN, ColdStart(ok) PROVE Writer'
  BY <1>23 DEF ColdStart, Booted, LpTo, guards
<1>24. CASE UpdatePeers
  BY <1>24 DEF UpdatePeers, Booted, LpTo, guards
<1>25. CASE WarmStage
  BY <1>25 DEF WarmStage, Booted, LpTo, plane, guards
<1>26. CASE TlmWake
  BY <1>26 DEF TlmWake, Booted, TlmTo, plane, guards
<1>27. CASE PersistCopy
  BY <1>27 DEF PersistCopy, Booted, plane, guards
<1>28. CASE PersistTake
  BY <1>28 DEF PersistTake, Booted, TlmTo, plane, guards
<1>29. ASSUME NEW late \in BOOLEAN, NEW ok \in BOOLEAN, PersistStore(late,
       ok) PROVE Writer'
  BY <1>29, ZenonT(40) DEF PersistStore, Booted, plane, guards
<1>30. CASE PersistSettle
  BY <1>30, SMTT(30) DEF PersistSettle, Booted, TlmIdle, plane, guards
<1>31. CASE UNCHANGED warmVars
  BY <1>31 DEF warmVars
<1> HIDE DEF WarmInv, Writer
<1> QED
  BY <1>1, <1>2, <1>3, <1>4, <1>5, <1>6, <1>7, <1>8, <1>9, <1>10, <1>11, <1>12, <1>13,
      <1>14, <1>15, <1>16, <1>17, <1>18, <1>19, <1>20, <1>21, <1>22, <1>23, <1>24,
      <1>25, <1>26, <1>27, <1>28, <1>29, <1>30, <1>31
  DEF WarmNext, MainStep, LpStep, TlmStep, RestartStep

(* The first boot, with any record in NVS.                                *)
LEMMA WarmStarts == WarmInit => WarmInv
<1> SUFFICES ASSUME WarmInit PROVE WarmInv
  OBVIOUS
<1>1. NoMarks \in RtcRec
  BY DEF NoMarks, RtcRec
<1>2. Types
  BY <1>1, Cleared, SMTT(30) DEF WarmInit, Types, Records
<1>3. AtReset /\ Marks /\ Gate /\ Plane /\ Writer
  BY WarmAssumption, SMTT(30) DEF WarmInit, NoMarks, LpIdle, TlmIdle, SmOff, NoMirror,
      AtReset, Marks, Gate,
    Plane, Writer, NotStarted, Marked, Unsettled, ConfirmOrBound, SessionFollowsNetmap,
    NoWriteAfterErase
<1> QED
  BY <1>2, <1>3 DEF WarmInv

(* So every step keeps WarmInv.                                           *)
LEMMA WarmStep == WarmInv /\ [WarmNext]_warmVars => WarmInv'
  BY TypesStep, AtResetStep, MarksStep, GateStep, PlaneStep, WriterStep DEF WarmInv

(* tl_warm_rtc_boot, tl_warm_rtc_restart, the gate: whatever resets come   *)
(* at whatever step, at most TL_WARM_RTC_MAX_CRASHES warm starts in a row  *)
(* are lost, a lost or restarted one is followed by a cold boot, and no    *)
(* boot starts the data plane twice.                                       *)
THEOREM WarmBootsAlwaysSound == WarmSpec => []WarmBootsSound
<1>1. WarmInv => WarmBootsSound
  BY DEF WarmInv, AtReset, Marks, Gate, Plane, WarmBootsSound, CrashesBounded,
    ColdAfterFailure, StartedOnce
<1> QED
  BY WarmStarts, WarmStep, <1>1, PTL DEF WarmSpec

(* tl_warm_sm_netmap, tl_warm_sm_bound, warm_persist: a session is         *)
(* confirmed or claimed by the bound, never both; what it runs with        *)
(* follows the netmap; no record is written after a restart's erase.       *)
THEOREM WarmSessionAlwaysSound == WarmSpec => []WarmSessionSound
<1>1. WarmInv => WarmSessionSound
  BY DEF WarmInv, Plane, Writer, WarmSessionSound
<1> QED
  BY WarmStarts, WarmStep, <1>1, PTL DEF WarmSpec
=============================================================================
