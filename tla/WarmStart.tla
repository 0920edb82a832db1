----------------------------- MODULE WarmStart -----------------------------
(***************************************************************************)
(* The warm start (tl_warm.h, tinylink.c): main brings WireGuard up from   *)
(* the record a previous boot left in NVS while the long-poll waits for    *)
(* the first netmap, which confirms the session, corrects it in place or   *)
(* has the device restart cold.  The telemetry task ends a session that no *)
(* netmap confirms, and stores the next boot's record.  RTC memory carries *)
(* the crash guard and the restart mark from one boot to the next; a reset *)
(* of any kind may come at any step.                                       *)
(***************************************************************************)
EXTENDS Integers

CONSTANTS
  Netmaps,      \* what a full netmap says: records of Record
  MAX_CRASHES,  \* TL_WARM_RTC_MAX_CRASHES
  MaxBoots      \* bound: boots

ASSUME WarmAssumption == MAX_CRASHES \in Nat \ {0}

NoRecord == [self |-> 0, peer |-> 0, key |-> 0, ep |-> 0]
Records == Netmaps \cup {NoRecord}
NoHolder == "free"
WarmTasks == {"main", "lp", "tlm"}

VARIABLES
  rtc,        \* s_warm_rtc: attempt, skip, crashes
  nvs,        \* the record in flash, or None
  reset,      \* "up", or the reason of the reset that leads to the next boot
  boots,
  verdict,    \* s_warm_rtc_verdict
  mirror,     \* s_warm_nvs: valid, wrote, rec
  sm,         \* s_wsm
  stage,      \* s_warm_stage, or None while not s_warm_staged
  tables,     \* s_self_addrs, s_last_peers: the pick they hold, or None
  session,    \* what the data plane runs with, or None
  starts,     \* data plane starts of this boot that succeeded
  mx,         \* holder of s_warm_mx
  gate_shut, gate_lp, nvs_shut,
  main, lp, tlm,  \* the tasks' places; lp and tlm carry locals
  streak,     \* warm starts lost to a crash or a hang in a row
  prev        \* how the boot before this one ended: "plain", "lost", "restart"

warmVars == <<rtc, nvs, reset, boots, verdict, mirror, sm, stage, tables, session,
              starts, mx, gate_shut, gate_lp, nvs_shut, main, lp, tlm, streak, prev>>

disk == <<rtc, nvs>>
guards == <<gate_shut, gate_lp, nvs_shut>>
plane == <<tables, session, starts>>
past == <<reset, boots, verdict, streak, prev>>

SmOff == [state |-> "OFF", seeded |-> FALSE, restart |-> FALSE,
          bound_fired |-> FALSE, unsettled |-> FALSE, pending |-> FALSE]
NoMirror == [valid |-> FALSE, wrote |-> FALSE, rec |-> NoRecord]
LpIdle == [pc |-> "stream", kind |-> "none", nm |-> NoRecord, warm |-> FALSE]
TlmIdle == [pc |-> "idle", rec |-> NoRecord, rc |-> 0]
NoMarks == [attempt |-> FALSE, skip |-> FALSE, crashes |-> 0]

\* A reset: what is in RAM goes.
WarmReset(why) ==
  /\ reset = "up"
  /\ reset' = why
  /\ verdict' = "CLEAN" /\ mirror' = NoMirror /\ main' = "off"
  /\ sm' = SmOff /\ stage' = NoRecord
  /\ tables' = NoRecord /\ session' = NoRecord /\ starts' = 0
  /\ mx' = NoHolder /\ gate_shut' = FALSE /\ gate_lp' = FALSE /\ nvs_shut' = FALSE
  /\ lp' = LpIdle /\ tlm' = TlmIdle
  /\ UNCHANGED <<disk, boots>>

WarmInit ==
  /\ rtc = NoMarks /\ nvs \in Records /\ reset = "POWERON" /\ boots = 0
  /\ verdict = "CLEAN" /\ mirror = NoMirror /\ sm = SmOff /\ stage = NoRecord
  /\ tables = NoRecord /\ session = NoRecord /\ starts = 0
  /\ mx = NoHolder /\ gate_shut = FALSE /\ gate_lp = FALSE /\ nvs_shut = FALSE
  /\ main = "off" /\ lp = LpIdle /\ tlm = TlmIdle
  /\ streak = 0 /\ prev = "plain"

-----------------------------------------------------------------------------
(* What differs between two records: the classes of tl_warm_diff.          *)

\* TL_WARM_RESTART: the session cannot take it in place.
RestartDiff(was, now) == was.self # now.self \/ was.peer # now.peer

\* TL_WARM_HARD: stored at the next housekeeping; an endpoint may wait.
HardDiff(was, now) == RestartDiff(was, now) \/ was.key # now.key

(* The RTC guard.                                                          *)

tl_warm_rtc_boot(r, why) ==
  IF why = "POWERON" THEN [rtc |-> NoMarks, erase |-> FALSE, verdict |-> "CLEAN"]
  ELSE LET crash == r.attempt /\ why # "SW"
           n == IF crash /\ r.crashes < MAX_CRASHES THEN r.crashes + 1 ELSE r.crashes
       IN [rtc |-> [attempt |-> FALSE, skip |-> FALSE, crashes |-> n],
           erase |-> crash,
           verdict |-> IF n >= MAX_CRASHES THEN "OFF"
                       ELSE IF crash THEN "CRASHED"
                       ELSE IF r.skip THEN "RESTARTED" ELSE "CLEAN"]

\* Mutant: only the erase keeps the next boot from a warm start.
tl_warm_rtc_restart_unmarked(r) == [r EXCEPT !.attempt = FALSE]

tl_warm_rtc_restart(r) == [r EXCEPT !.attempt = FALSE, !.skip = TRUE]

tl_warm_rtc_hung(r) ==
  tl_warm_rtc_restart([r EXCEPT !.crashes = IF @ < MAX_CRASHES THEN @ + 1 ELSE @])

\* `fit`: the record is for our keys and not too old, the register needed no
\* auth key, and there is heap.
tl_warm_go(fit) == verdict = "CLEAN" /\ mirror.valid /\ fit

-----------------------------------------------------------------------------
(* A boot: warm_load consumes the marks, erases the record after a crash   *)
(* (the erase may fail) or reads it (the read may fail).                   *)

Boot(io_ok) ==
  /\ reset # "up" /\ boots < MaxBoots
  /\ LET b == tl_warm_rtc_boot(rtc, reset) IN
     /\ rtc' = b.rtc
     /\ verdict' = b.verdict
     /\ nvs' = IF b.erase /\ io_ok THEN NoRecord ELSE nvs
     /\ mirror' = IF ~b.erase /\ io_ok /\ nvs # NoRecord
                  THEN [NoMirror EXCEPT !.valid = TRUE, !.rec = nvs] ELSE NoMirror
  /\ reset' = "up"
  /\ boots' = boots + 1
  /\ main' = "start"
  /\ UNCHANGED <<streak, prev, sm, stage, plane, mx, guards, lp, tlm>>

Restarting == {"take_mx", "erase", "failed", "restart"}

\* A planned restart is marked; else, a warm start runs and has not settled.
Marked == lp.pc \in Restarting \/ tlm.pc \in Restarting

Unsettled == ~Marked /\ (main = "bringup" \/ sm.state = "PENDING" \/ sm.unsettled)

(* A panic, a watchdog, a brown-out ...                                    *)
Crash ==
  /\ WarmReset("CRASH")
  /\ streak' = IF Unsettled THEN streak + 1 ELSE streak
  /\ prev' = IF Marked THEN "restart" ELSE IF Unsettled THEN "lost" ELSE "plain"

(* ... a power cycle ...                                                   *)
PowerCycle ==
  /\ WarmReset("POWERON")
  /\ streak' = 0
  /\ prev' = "plain"

(* ... or a software restart elsewhere (the long-poll's wedge restart).    *)
OtherRestart ==
  /\ WarmReset("SW")
  /\ prev' = IF Marked THEN "restart" ELSE "plain"
  /\ UNCHANGED streak

-----------------------------------------------------------------------------
(* Main: tinylink_warm_start.                                              *)

Booted == reset = "up"

(* The gate: shut already, or this task shuts it and holds the mutex.      *)
WarmTake ==
  /\ Booted /\ main = "start" /\ mx = NoHolder
  /\ IF gate_shut THEN main' = "done" /\ UNCHANGED <<mx, gate_shut>>
     ELSE mx' = "main" /\ gate_shut' = TRUE /\ main' = "locked"
  /\ UNCHANGED <<disk, past, mirror, sm, stage, plane, gate_lp, nvs_shut, lp, tlm>>

(* warm_start_locked: no warm start (tl_warm_go) ...                       *)
WarmSkip(fit) ==
  /\ Booted /\ main = "locked" /\ ~tl_warm_go(fit)
  /\ main' = "done" /\ mx' = NoHolder
  /\ UNCHANGED <<disk, past, mirror, sm, stage, plane, guards, lp, tlm>>

(* ... or tl_warm_sm_begin and tl_warm_seed.                               *)
WarmBegin(fit) ==
  /\ Booted /\ main = "locked" /\ tl_warm_go(fit)
  /\ sm' = [SmOff EXCEPT !.seeded = TRUE]
  /\ rtc' = [rtc EXCEPT !.attempt = TRUE]
  /\ tables' = mirror.rec
  /\ main' = "bringup"
  /\ UNCHANGED <<nvs, past, mirror, stage, session, starts, mx, guards, lp, tlm>>

(* wg_dataplane_start and tl_warm_sm_started; the step may never come.     *)
WarmStarted(ok) ==
  /\ Booted /\ main = "bringup"
  /\ IF ok THEN /\ sm' = [sm EXCEPT !.state = "PENDING", !.pending = TRUE]
                /\ session' = tables /\ starts' = starts + 1
                /\ UNCHANGED <<rtc, tables>>
     ELSE /\ sm' = [sm EXCEPT !.state = "OFF", !.seeded = FALSE]
          /\ rtc' = [rtc EXCEPT !.attempt = FALSE]
          /\ tables' = NoRecord
          /\ UNCHANGED <<session, starts>>
  /\ main' = "prepunch"
  /\ UNCHANGED <<nvs, past, mirror, stage, mx, guards, lp, tlm>>

(* The pings, and the mutex back.                                          *)
WarmGive ==
  /\ Booted /\ main = "prepunch"
  /\ mx' = IF mx = "main" THEN NoHolder ELSE mx
  /\ main' = "done"
  /\ UNCHANGED <<disk, past, mirror, sm, stage, plane, guards, lp, tlm>>

-----------------------------------------------------------------------------
(* A restart out of the long-poll or the telemetry task: warm_restart_now. *)

Pc(t) == IF t = "lp" THEN lp.pc ELSE tlm.pc
Goto(t, pc) ==
  IF t = "lp" THEN lp' = [lp EXCEPT !.pc = pc] /\ UNCHANGED tlm
              ELSE tlm' = [tlm EXCEPT !.pc = pc] /\ UNCHANGED lp

RestartMark(t) ==
  /\ Booted /\ Pc(t) \in {"mark", "hung"}
  /\ rtc' = IF Pc(t) = "hung" THEN tl_warm_rtc_hung(rtc) ELSE tl_warm_rtc_restart(rtc)
  /\ streak' = IF Pc(t) = "hung" /\ Unsettled THEN streak + 1 ELSE streak
  /\ Goto(t, "take_mx")
  /\ UNCHANGED <<nvs, reset, boots, verdict, prev, mirror, sm, stage, plane, mx, guards, main>>

(* Up to 5 s for the mutex, which is not given back.                       *)
RestartTake(t) ==
  /\ Booted /\ Pc(t) = "take_mx"
  /\ mx' = IF mx = NoHolder THEN t ELSE mx
  /\ nvs_shut' = TRUE
  /\ Goto(t, "erase")
  /\ UNCHANGED <<disk, past, mirror, sm, stage, plane, gate_shut, gate_lp, main>>

RestartErase(t, ok) ==
  /\ Booted /\ Pc(t) = "erase"
  /\ nvs' = IF ok THEN NoRecord ELSE nvs
  /\ Goto(t, IF ok THEN "restart" ELSE "failed")
  /\ UNCHANGED <<rtc, past, mirror, sm, stage, plane, mx, guards, main>>

RestartNow(t) ==
  /\ Pc(t) \in {"restart", "failed"}
  /\ WarmReset("SW")
  /\ prev' = "restart"
  /\ UNCHANGED streak

(* warm_poll: the netmap's restart (long-poll only), then the bound, which *)
(* claims the pending session.                                             *)

BoundClaims == sm.state = "PENDING" /\ sm.pending /\ ~sm.bound_fired

PollRestart ==
  /\ Booted /\ lp.pc = "poll" /\ sm.restart
  /\ Goto("lp", "mark")
  /\ UNCHANGED <<disk, past, mirror, sm, stage, plane, mx, guards, main>>

PollBound(t) ==
  /\ Booted /\ Pc(t) = "poll" /\ ~(t = "lp" /\ sm.restart)
  /\ BoundClaims
  /\ sm' = [sm EXCEPT !.bound_fired = TRUE, !.pending = FALSE]
  /\ Goto(t, "mark")
  /\ UNCHANGED <<disk, past, mirror, stage, plane, mx, guards, main>>

(* The bound has not passed, or there is nothing to bound.                 *)
PollNothing(t) ==
  /\ Booted /\ Pc(t) = "poll" /\ ~(t = "lp" /\ sm.restart)
  /\ Goto(t, IF t = "lp" THEN "stream" ELSE "copy")
  /\ UNCHANGED <<disk, past, mirror, sm, stage, plane, mx, guards, main>>

-----------------------------------------------------------------------------
(* The long-poll: long_poll_handler for each frame.                        *)

LpTo(pc) == lp' = [lp EXCEPT !.pc = pc]

(* A frame: control marks us expired, a frame without our node, a full     *)
(* netmap without an address or a peer, or a full netmap.                  *)
NetmapFrame(kind, n) ==
  /\ Booted /\ main # "off" /\ lp.pc = "stream"
  /\ (kind = "full") = (n # NoRecord)
  /\ lp' = [pc |-> IF gate_lp THEN "frame" ELSE "gate", kind |-> kind, nm |-> n, warm |-> FALSE]
  /\ UNCHANGED <<disk, past, mirror, sm, stage, plane, mx, guards, main, tlm>>

(* The stream ends without a frame.                                        *)
StreamEnds ==
  /\ Booted /\ main # "off" /\ lp.pc = "stream"
  /\ LpTo("poll")
  /\ UNCHANGED <<disk, past, mirror, sm, stage, plane, mx, guards, main, tlm>>

(* warm_gate_shut: the mutex, or WARM_GATE_MAX_MS without it.              *)
GateTake ==
  /\ Booted /\ lp.pc = "gate" /\ mx = NoHolder
  /\ gate_lp' = TRUE /\ gate_shut' = TRUE
  /\ LpTo("frame")
  /\ UNCHANGED <<disk, past, mirror, sm, stage, plane, mx, nvs_shut, main, tlm>>

\* Mutant: the wait has no end.
GateHungWaits ==
  /\ Booted /\ lp.pc = "gate" /\ mx # NoHolder
  /\ gate_lp' = TRUE
  /\ UNCHANGED <<disk, past, mirror, sm, stage, plane, mx, gate_shut, nvs_shut, main, lp, tlm>>

GateHung ==
  /\ Booted /\ lp.pc = "gate" /\ mx # NoHolder
  /\ gate_lp' = TRUE
  /\ LpTo("hung")
  /\ UNCHANGED <<disk, past, mirror, sm, stage, plane, mx, gate_shut, nvs_shut, main, tlm>>

\* merge_peers and the self addresses: only what a frame carries replaces.
Merged(kind, old) == IF kind = "full" THEN lp.nm ELSE old

(* tl_warm_sm_frame, then the handler up to its decision. A frame that     *)
(* leaves the tables as they are stages what is staged already.            *)
HandleFrame ==
  /\ Booted /\ lp.pc = "frame"
  /\ LET warm == sm.state = "PENDING"
         old == IF sm.seeded THEN NoRecord ELSE tables
         moved == /\ lp.kind = "full" /\ session # NoRecord /\ lp.nm.self # session.self
         merged == Merged(lp.kind, old)
     IN /\ tables' = IF moved THEN old ELSE merged
        /\ sm' = [sm EXCEPT !.seeded = FALSE, !.restart = @ \/ (moved /\ ~warm)]
        /\ lp' = [lp EXCEPT !.warm = warm,
                            !.kind = IF moved THEN "moved" ELSE @,
                            !.pc = IF warm THEN "netmap"
                                   ELSE IF lp.kind = "expired" \/ moved THEN "poll"
                                   ELSE IF session = NoRecord
                                     THEN IF merged = NoRecord THEN "stream" ELSE "cold"
                                   ELSE IF lp.kind = "full" THEN "update" ELSE "stream"]
  /\ UNCHANGED <<disk, past, mirror, stage, session, starts, mx, guards, main, tlm>>

\* The frame and the tables give our addresses and a pick.
Told == lp.kind \notin {"expired", "moved"} /\ tables # NoRecord

(* warm_netmap with tl_warm_sm_netmap: the bound's restart is under way,   *)
(* confirm, wait, or restart.                                              *)
SmNetmap ==
  /\ Booted /\ lp.pc = "netmap"
  /\ \/ /\ sm.bound_fired
        /\ LpTo("stream") /\ UNCHANGED sm
     \/ /\ ~sm.bound_fired
        /\ Told /\ ~RestartDiff(mirror.rec, tables)
        /\ sm' = [sm EXCEPT !.state = "CONFIRMED", !.pending = FALSE, !.unsettled = TRUE]
        /\ LpTo("update")
     \/ /\ ~sm.bound_fired
        /\ ~Told /\ lp.kind = "partial"
        /\ LpTo("stream") /\ UNCHANGED sm
     \/ /\ ~sm.bound_fired
        /\ IF Told THEN RestartDiff(mirror.rec, tables) ELSE lp.kind # "partial"
        /\ sm' = [sm EXCEPT !.restart = TRUE, !.pending = FALSE]
        /\ LpTo("poll")
  /\ UNCHANGED <<disk, past, mirror, stage, plane, mx, guards, main, tlm>>

(* The first netmap of a cold boot: wg_dataplane_start, tl_warm_sm_cold.   *)
(* If it fails the stream goes on, and the next frame tries again.         *)
ColdStart(ok) ==
  /\ Booted /\ lp.pc = "cold"
  /\ IF ok THEN /\ session' = tables /\ starts' = starts + 1
                /\ sm' = [sm EXCEPT !.state = IF @ = "OFF" THEN "CONFIRMED" ELSE @]
                /\ LpTo("stage")
     ELSE LpTo("stream") /\ UNCHANGED <<session, starts, sm>>
  /\ UNCHANGED <<disk, past, mirror, stage, tables, mx, guards, main, tlm>>

(* wg_dataplane_update_peers: the session's own peer only.                 *)
UpdatePeers ==
  /\ Booted /\ lp.pc = "update"
  /\ session' = IF tables.peer = session.peer THEN tables ELSE session
  /\ LpTo("stage")
  /\ UNCHANGED <<disk, past, mirror, sm, stage, tables, starts, mx, guards, main, tlm>>

(* warm_stage.                                                             *)
WarmStage ==
  /\ Booted /\ lp.pc = "stage"
  /\ stage' = IF tables = NoRecord THEN stage ELSE tables
  /\ LpTo("stream")
  /\ UNCHANGED <<disk, past, mirror, sm, plane, mx, guards, main, tlm>>

-----------------------------------------------------------------------------
(* The telemetry task: tinylink_warm_persist_poll.                         *)

TlmTo(pc) == tlm' = [tlm EXCEPT !.pc = pc]

(* Housekeeping is due; the task exists once telemetry_start ran.          *)
TlmWake ==
  /\ Booted /\ tlm.pc = "idle" /\ (main = "done" \/ session # NoRecord)
  /\ TlmTo("poll")
  /\ UNCHANGED <<disk, past, mirror, sm, stage, plane, mx, guards, main, lp>>

(* warm_persist: the staged record is copied ...                           *)
PersistCopy ==
  /\ Booted /\ tlm.pc = "copy"
  /\ tlm' = [tlm EXCEPT !.rec = stage, !.pc = IF stage = NoRecord THEN "idle" ELSE "take"]
  /\ UNCHANGED <<disk, past, mirror, sm, stage, plane, mx, guards, main, lp>>

\* Mutant: without the mutex the write goes on.
PersistTakeAnyway ==
  /\ Booted /\ tlm.pc = "take"
  /\ mx' = IF mx = NoHolder THEN "tlm" ELSE mx
  /\ TlmTo("store")
  /\ UNCHANGED <<disk, past, mirror, sm, stage, plane, guards, main, lp>>

(* ... the mutex taken, or not within a second, or the record is erased    *)
(* for a restart ...                                                       *)
PersistTake ==
  /\ Booted /\ tlm.pc = "take"
  /\ IF mx = NoHolder /\ ~nvs_shut THEN mx' = "tlm" /\ TlmTo("store")
                               ELSE TlmTo("idle") /\ UNCHANGED mx
  /\ UNCHANGED <<disk, past, mirror, sm, stage, plane, guards, main, lp>>

\* `late`: an hour since the last write, or a day since the last renewal.
tl_warm_store_due(m, r, late) ==
  \/ ~m.valid
  \/ HardDiff(m.rec, r)
  \/ m.rec # r /\ (~m.wrote \/ late)
  \/ m.rec = r /\ late

(* ... tl_warm_store, whose write may fail ...                             *)
PersistStore(late, ok) ==
  /\ Booted /\ tlm.pc = "store"
  /\ IF tl_warm_store_due(mirror, tlm.rec, late)
     THEN /\ mirror' = [valid |-> TRUE, wrote |-> TRUE, rec |-> tlm.rec]
          /\ nvs' = IF ok THEN tlm.rec ELSE nvs
          /\ tlm' = [tlm EXCEPT !.pc = "settle", !.rc = IF ok THEN 1 ELSE -1]
     ELSE /\ tlm' = [tlm EXCEPT !.pc = "settle", !.rc = 0]
          /\ UNCHANGED <<mirror, nvs>>
  /\ UNCHANGED <<rtc, past, sm, stage, plane, mx, guards, main, lp>>

(* ... and tl_warm_sm_settle; the mutex goes back.                         *)
PersistSettle ==
  /\ Booted /\ tlm.pc = "settle"
  /\ IF sm.state = "CONFIRMED" /\ sm.unsettled /\ tlm.rc >= 0
     THEN /\ sm' = [sm EXCEPT !.unsettled = FALSE]
          /\ rtc' = [rtc EXCEPT !.attempt = FALSE, !.crashes = 0]
          /\ streak' = 0
     ELSE UNCHANGED <<sm, rtc, streak>>
  /\ mx' = IF mx = "tlm" THEN NoHolder ELSE mx
  /\ tlm' = TlmIdle
  /\ UNCHANGED <<nvs, reset, boots, verdict, prev, mirror, stage, plane, guards, main, lp>>

-----------------------------------------------------------------------------
MainStep ==
  \/ WarmTake
  \/ \E fit \in BOOLEAN : WarmSkip(fit) \/ WarmBegin(fit)
  \/ \E ok \in BOOLEAN : WarmStarted(ok)
  \/ WarmGive

RestartStep(t) ==
  RestartMark(t) \/ RestartTake(t) \/ (\E ok \in BOOLEAN : RestartErase(t, ok)) \/ RestartNow(t)

LpStep ==
  \/ RestartStep("lp") \/ PollRestart \/ PollBound("lp") \/ PollNothing("lp")
  \/ GateTake \/ GateHung \/ HandleFrame \/ SmNetmap
  \/ (\E ok \in BOOLEAN : ColdStart(ok)) \/ UpdatePeers \/ WarmStage

TlmStep ==
  \/ RestartStep("tlm") \/ PollBound("tlm") \/ PollNothing("tlm")
  \/ TlmWake \/ PersistCopy \/ PersistTake
  \/ (\E late, ok \in BOOLEAN : PersistStore(late, ok)) \/ PersistSettle

Kinds == {"expired", "partial", "empty", "full"}

WarmNext ==
  \/ \E io_ok \in BOOLEAN : Boot(io_ok)
  \/ Crash \/ PowerCycle \/ OtherRestart
  \/ MainStep \/ LpStep \/ TlmStep \/ StreamEnds
  \/ \E kind \in Kinds, n \in Records : NetmapFrame(kind, n)

WarmSpec == WarmInit /\ [][WarmNext]_warmVars

\* The two tasks run, and the bound of a session that stays pending passes.
\* Nothing is promised of main: the bring-up may hang.
WarmFairness ==
  /\ WF_warmVars(LpStep) /\ WF_warmVars(TlmStep)
  /\ SF_warmVars(PollBound("lp") \/ PollBound("tlm"))
WarmFairSpec == WarmSpec /\ WarmFairness

-----------------------------------------------------------------------------
WarmTypeOK ==
  /\ rtc \in [attempt : BOOLEAN, skip : BOOLEAN, crashes : 0 .. MAX_CRASHES]
  /\ nvs \in Records /\ stage \in Records /\ tables \in Records /\ session \in Records
  /\ reset \in {"up", "POWERON", "SW", "CRASH"} /\ boots \in 0 .. MaxBoots
  /\ verdict \in {"CLEAN", "RESTARTED", "CRASHED", "OFF"}
  /\ mirror \in [valid : BOOLEAN, wrote : BOOLEAN, rec : Records]
  /\ sm \in [state : {"OFF", "PENDING", "CONFIRMED"}, seeded : BOOLEAN, restart : BOOLEAN,
             bound_fired : BOOLEAN, unsettled : BOOLEAN, pending : BOOLEAN]
  /\ mx \in WarmTasks \cup {NoHolder}
  /\ gate_shut \in BOOLEAN /\ gate_lp \in BOOLEAN /\ nvs_shut \in BOOLEAN
  /\ streak \in Nat /\ prev \in {"plain", "lost", "restart"} /\ starts \in Nat

\* The crash guard: between two settled warm starts or power cycles at most
\* TL_WARM_RTC_MAX_CRASHES warm starts are lost to a crash or a hang; after
\* that the warm start stays off (tl_warm_rtc_boot).
CrashesBounded == streak <= MAX_CRASHES

\* A warm start that was lost, or that ended in a planned restart, is
\* followed by a cold boot, whether or not the record could be erased.
ColdAfterFailure == main \in {"bringup", "prepunch"} => prev = "plain"

\* The first netmap and the bound exclude each other: a session the bound
\* claimed is never confirmed (tl_warm_sm_bound, tl_warm_sm_netmap).
ConfirmOrBound == sm.bound_fired => sm.state = "PENDING"

\* The data plane is started once per boot: the gate keeps the warm start
\* and the first netmap's cold start apart.
StartedOnce == starts <= 1

\* Once a netmap is through, the session's keys and endpoints are the
\* netmap's, unless the netmap now picks another peer.
SessionFollowsNetmap ==
  lp.pc = "stage" => session.self = tables.self
                     /\ (session.peer = tables.peer => session = tables)

\* No record is written after a restart erased it while it held the mutex.
NoWriteAfterErase ==
  /\ lp.pc = "restart" /\ mx = "lp" => nvs = NoRecord
  /\ tlm.pc = "restart" /\ mx = "tlm" => nvs = NoRecord

\* A warm session does not stay unconfirmed for ever: a netmap confirms it
\* or the device restarts.
PendingEnds == []<>~(Booted /\ sm.state = "PENDING")

\* A bring-up that hangs does not hold the netmap back for ever
\* (WARM_GATE_MAX_MS): the frame is handled or the device restarts.
GateOpens == []<>~(Booted /\ lp.pc = "gate")

\* Over boots: lost warm starts are bounded, followed by a cold boot, and the
\* data plane is started once.
WarmBootsSound == CrashesBounded /\ ColdAfterFailure /\ StartedOnce

\* Within a boot: confirmed or claimed, never both; the session follows the
\* netmap; nothing is written after a restart's erase.
WarmSessionSound == ConfirmOrBound /\ SessionFollowsNetmap /\ NoWriteAfterErase

\* Neither a pending session nor the gate lasts for ever.
WarmEnds == PendingEnds /\ GateOpens
=============================================================================
