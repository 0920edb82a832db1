---------------------------- MODULE WifiStation ----------------------------
(***************************************************************************)
(* The Wi-Fi station of main/: bringup's wait for an address and its       *)
(* restart, the association hint kept in RTC memory and NVS (wifi_hint.h), *)
(* the retry policy and the hand-over of the next attempt from the event   *)
(* handler (sys_evt) to the reconnect timer (esp_timer), the power-save    *)
(* switch (app_wifi.c).  The driver is external: it reports the outcome of *)
(* an attempt by an event and blacklists an AP whose 4-way handshake timed *)
(* out until the configuration is set again.                               *)
(***************************************************************************)
EXTENDS Integers, Sequences

CONSTANTS Channels,   \* the channels an AP may be on
          Networks,   \* the SSIDs a device may be provisioned with
          MaxFails,   \* bound on failed attempts, lost links, failed calls
          MaxResets   \* bound on resets that are not the code's own

VARIABLES net,    \* the provisioned SSID, the channel of its AP
          conn,   \* s_conn
          nxt,    \* s_next: what the next attempt needs
          cfg,    \* s_cfg_channel, the channel the driver's configuration holds
          sta,    \* the driver: state, whether the AP is blacklisted
          evq,    \* events for wifi_event_handler, oldest first
          recon,  \* s_reconnect_timer and its callback
          rec,    \* the records: RTC, NVS, the RAM mirror of NVS
          boot,   \* bringup, the connected bit, the power-save mode, whether
                  \* there is a reconnect timer
          budget, \* failures and resets left
          seen    \* history: attempts made without a backoff since the last
                  \* join, those of them that no timer could take, a
                  \* blacklist clear asked for and not done, whether the last
                  \* write of the record succeeded, whether the driver
                  \* refused a connect of this boot

wifiVars == <<net, conn, nxt, cfg, sta, evq, recon, rec, boot, budget, seen>>

NoAp == [channel |-> 0, ssid |-> 0]
Garbage == [channel |-> -1, ssid |-> 0]     \* fails magic or checksum
NoConn == [ap |-> NoAp, hint |-> FALSE, joined |-> FALSE, fast_spent |-> FALSE]
NoNext == [reapply |-> FALSE, channel |-> 0]
NoBoot == [pc |-> "off", bit |-> FALSE, ps |-> "none", timer |-> FALSE]

WifiInit ==
    /\ net \in [ssid : Networks, channel : Channels]
    /\ conn = NoConn /\ nxt = NoNext /\ cfg = 0
    /\ sta = [st |-> "off", black |-> FALSE]
    /\ evq = <<>> /\ recon = "off"
    /\ rec = [rtc |-> Garbage, nvs |-> NoAp, mirror |-> NoAp]
    /\ boot = NoBoot
    /\ budget = [fails |-> MaxFails, resets |-> MaxResets]
    /\ seen = [unpaced |-> 0, untimed |-> 0, owed |-> FALSE, stored |-> TRUE,
               refused |-> FALSE]

\* A call fails only while the budget lasts.
Outcomes == IF budget.fails > 0 THEN BOOLEAN ELSE {TRUE}

Charge(ok) == budget' = IF ok THEN budget ELSE [budget EXCEPT !.fails = @ - 1]

-----------------------------------------------------------------------------
(* wifi_hint.h                                                             *)

ap_ok(a, ssid) == a.channel \in Channels /\ a.ssid = ssid

\* tl_wifi_ap_boot: the RTC copy, else NVS, each only for this SSID.
ap_boot(ssid, nvs) ==
    CASE ap_ok(rec.rtc, ssid) -> rec.rtc
      [] ~ap_ok(rec.rtc, ssid) /\ ap_ok(nvs, ssid) -> nvs
      [] OTHER -> NoAp

hinted(c) == IF c.hint THEN c.ap.channel ELSE 0

on_connected(c, channel) ==
    LET a == [channel |-> channel, ssid |-> net.ssid]
    IN  IF ap_ok(a, net.ssid)
        THEN [ap |-> a, hint |-> TRUE, joined |-> TRUE, fast_spent |-> FALSE]
        ELSE [c EXCEPT !.joined = TRUE, !.fast_spent = FALSE]

\* tl_wifi_on_disconnected: the state and the next attempt.
on_disconnected_NeverSpent(c, reason) ==
    LET off == [c EXCEPT !.joined = FALSE]
    IN  IF ~c.joined /\ reason = "4way"
        THEN [c |-> off, now |-> TRUE, reapply |-> TRUE, channel |-> hinted(c)]
        ELSE [c |-> off, now |-> FALSE, reapply |-> FALSE, channel |-> hinted(c)]

on_disconnected(c, reason) ==
    LET off == [c EXCEPT !.joined = FALSE]
    IN  CASE c.joined ->
               [c |-> off, now |-> FALSE, reapply |-> FALSE, channel |-> hinted(c)]
          [] ~c.joined /\ reason = "4way" /\ ~c.fast_spent ->
               [c |-> [off EXCEPT !.fast_spent = TRUE], now |-> TRUE, reapply |-> TRUE,
                channel |-> hinted(c)]
          [] OTHER ->
               [c |-> [off EXCEPT !.hint = FALSE], now |-> FALSE, reapply |-> FALSE,
                channel |-> 0]

-----------------------------------------------------------------------------
(* app_wifi_start and bringup                                              *)

\* hint_load, the reconnect timer, the configuration, esp_wifi_start.  `read`:
\* NVS could be opened; `timer`: the reconnect timer could be created.
Boot ==
    /\ boot.pc = "off"
    /\ \E read \in Outcomes, timer \in Outcomes :
          LET nvs == IF read THEN rec.nvs ELSE NoAp
              ap  == ap_boot(net.ssid, nvs)
          IN  /\ conn' = [NoConn EXCEPT !.ap = ap, !.hint = ap # NoAp]
              /\ rec' = [rec EXCEPT !.mirror = nvs]
              /\ boot' = [NoBoot EXCEPT !.pc = "wait", !.timer = timer]
              /\ Charge(read /\ timer)
    /\ nxt' = NoNext
    /\ cfg' = hinted(conn')
    /\ sta' = [st |-> "idle", black |-> FALSE]
    /\ evq' = <<[ev |-> "start"]>> /\ recon' = "off"
    /\ UNCHANGED <<net, seen>>

\* app_wifi_wait_connected, its timeout, the register loop and what follows.
Connected ==
    /\ boot.pc = "wait" /\ boot.bit
    /\ boot' = [boot EXCEPT !.pc = "register"]
    /\ UNCHANGED <<net, conn, nxt, cfg, sta, evq, recon, rec, budget, seen>>

\* A backoff, or a chain that broke.
Stalled == evq = <<>> /\ sta.st = "idle" /\ recon \in {"off", "armed"}

\* WIFI_TIMEOUT_MS are over.  An attempt that is under way for so long is one
\* of the failures the budget counts.
WaitTimesOut ==
    /\ boot.pc = "wait" /\ ~boot.bit
    /\ Stalled \/ budget.fails > 0
    /\ boot' = [boot EXCEPT !.pc = "failed"]
    /\ Charge(Stalled)
    /\ UNCHANGED <<net, conn, nxt, cfg, sta, evq, recon, rec, seen>>

Registered ==
    /\ boot.pc = "register" /\ boot.bit
    /\ boot' = [boot EXCEPT !.pc = "run"]
    /\ UNCHANGED <<net, conn, nxt, cfg, sta, evq, recon, rec, budget, seen>>

Down(keepsRtc) ==
    /\ conn' = NoConn /\ nxt' = NoNext /\ cfg' = 0 /\ evq' = <<>> /\ recon' = "off"
    /\ sta' = [st |-> "off", black |-> FALSE]
    /\ rec' = [rec EXCEPT !.mirror = NoAp, !.rtc = IF keepsRtc THEN @ ELSE Garbage]
    /\ boot' = NoBoot
    /\ seen' = [seen EXCEPT !.unpaced = 0, !.untimed = 0, !.owed = FALSE, !.refused = FALSE]

\* app_main after a failed bringup; the long-poll task's wedge restart once
\* the control plane has been out of reach for long.
Restart ==
    /\ boot.pc = "failed" \/ (boot.pc = "run" /\ Stalled)
    /\ Down(TRUE)
    /\ UNCHANGED <<net, budget>>

\* A power cycle, perhaps with new credentials; the AP may change channel.
PowerCycle ==
    /\ boot.pc # "off" /\ budget.resets > 0
    /\ \E keeps \in BOOLEAN : Down(keeps)
    /\ net' \in [ssid : Networks, channel : Channels]
    /\ budget' = [budget EXCEPT !.resets = @ - 1]

\* ps_timer_cb: modem sleep once the tunnel is up, or PS_AWAKE_CAP_MS later;
\* a failed call is made again at the next poll.
PsTimer ==
    /\ boot.pc \notin {"off"} /\ boot.ps = "none"
    /\ \E ok \in Outcomes : boot' = [boot EXCEPT !.ps = IF ok THEN "steady" ELSE @] /\ Charge(ok)
    /\ UNCHANGED <<net, conn, nxt, cfg, sta, evq, recon, rec, seen>>

-----------------------------------------------------------------------------
(* wifi_event_handler and reconnect_timer_cb                               *)

\* esp_wifi_connect: a refused call queues no event.
connect(ok) ==
    /\ sta' = IF ok THEN [sta EXCEPT !.st = "connecting"] ELSE sta
    /\ seen' = [seen EXCEPT !.refused = @ \/ ~ok]

Handled(ev) == evq # <<>> /\ Head(evq).ev = ev /\ evq' = Tail(evq)

OnStart ==
    /\ Handled("start")
    /\ \E ok \in Outcomes : connect(ok) /\ Charge(ok)
    /\ UNCHANGED <<net, conn, nxt, cfg, recon, rec, boot>>

OnConnected ==
    /\ Handled("connected")
    /\ conn' = on_connected(conn, Head(evq).channel)
    /\ rec' = IF conn'.ap.channel # 0 THEN [rec EXCEPT !.rtc = conn'.ap] ELSE rec
    /\ seen' = [seen EXCEPT !.unpaced = 0, !.untimed = 0]
    /\ UNCHANGED <<net, nxt, cfg, sta, recon, boot, budget>>

OnGotIp ==
    /\ Handled("ip")
    /\ boot' = [boot EXCEPT !.bit = TRUE]
    /\ UNCHANGED <<net, conn, nxt, cfg, sta, recon, rec, budget, seen>>

\* The next attempt is merged under s_conn_mux: a re-apply stays asked for
\* until an attempt applies it.
queued(n) == [reapply |-> nxt.reapply \/ n.reapply, channel |-> n.channel]

retry_in_OnlyNow(n, timer) == IF n.now THEN "now" ELSE recon

\* The one-shot timer, after the backoff or at once; without a timer, or when
\* it does not start, the callback at once and on the handler's own task
\* (which has nothing else to handle: the station is idle).
retry_in(n, timer) ==
    IF ~timer THEN "direct" ELSE IF n.now THEN "now" ELSE "armed"

OnDisconnected ==
    /\ Handled("disconnected")
    /\ \E timer \in IF boot.timer THEN Outcomes ELSE {FALSE} :
          LET n == on_disconnected(conn, Head(evq).reason)
          IN  /\ conn' = n.c /\ nxt' = queued(n)
              /\ recon' = retry_in(n, timer)
              /\ seen' = [seen EXCEPT !.owed = @ \/ n.reapply]
              /\ Charge(timer \/ ~boot.timer)
    /\ boot' = [boot EXCEPT !.bit = FALSE]
    /\ UNCHANGED <<net, cfg, sta, rec>>

needs_config(n) == n.reapply \/ n.channel # cfg

config_done(n, ok) == IF ok THEN [n EXCEPT !.reapply = FALSE] ELSE n

\* apply_channel, if this attempt needs it ...
TimerApplies ==
    /\ recon \in {"armed", "now", "direct"}
    /\ recon' = "connect"
    /\ LET now == IF recon = "armed" THEN 0 ELSE 1
           direct == IF recon = "direct" THEN 1 ELSE 0
       IN  \E ok \in IF needs_config(nxt) THEN Outcomes ELSE {FALSE} :
              /\ cfg' = IF ok THEN nxt.channel ELSE cfg
              /\ nxt' = IF needs_config(nxt) THEN config_done(nxt, ok) ELSE nxt
              /\ sta' = IF ok THEN [sta EXCEPT !.black = FALSE] ELSE sta
              /\ seen' = [seen EXCEPT !.unpaced = @ + now, !.untimed = @ + direct,
                                      !.owed = @ /\ ~ok]
              /\ Charge(ok \/ ~needs_config(nxt))
    /\ UNCHANGED <<net, conn, evq, rec, boot>>

\* ... then the attempt.
TimerConnects ==
    /\ recon = "connect"
    /\ recon' = "off"
    /\ \E ok \in Outcomes : connect(ok) /\ Charge(ok)
    /\ UNCHANGED <<net, conn, nxt, cfg, evq, rec, boot>>

\* hint_persist: housekeeping, or main's register loop.  The mirror takes the
\* bytes whether or not the write succeeds.
Persist ==
    /\ boot.pc \in {"register", "run"} /\ ap_ok(conn.ap, net.ssid) /\ rec.mirror # conn.ap
    /\ \E ok \in Outcomes :
          /\ rec' = [rec EXCEPT !.mirror = conn.ap, !.nvs = IF ok THEN conn.ap ELSE @]
          /\ seen' = [seen EXCEPT !.stored = ok]
          /\ Charge(ok)
    /\ UNCHANGED <<net, conn, nxt, cfg, sta, evq, recon, boot>>

-----------------------------------------------------------------------------
(* The driver and the air.                                                 *)

Joins ==
    /\ sta.st = "connecting"
    /\ sta' = [sta EXCEPT !.st = "up"]
    /\ evq' = evq \o <<[ev |-> "connected", channel |-> net.channel], [ev |-> "ip"]>>
    /\ UNCHANGED <<net, conn, nxt, cfg, recon, rec, boot, budget, seen>>

Refused(reason) ==
    /\ sta.st = "connecting" /\ budget.fails > 0
    /\ sta' = [st |-> "idle", black |-> reason = "4way" \/ sta.black]
    /\ evq' = Append(evq, [ev |-> "disconnected", reason |-> reason])
    /\ budget' = [budget EXCEPT !.fails = @ - 1]
    /\ UNCHANGED <<net, conn, nxt, cfg, recon, rec, boot, seen>>

LinkLost ==
    /\ sta.st = "up" /\ budget.fails > 0
    /\ sta' = [sta EXCEPT !.st = "idle"]
    /\ evq' = Append(evq, [ev |-> "disconnected", reason |-> "other"])
    /\ net' \in [ssid : {net.ssid}, channel : Channels]
    /\ budget' = [budget EXCEPT !.fails = @ - 1]
    /\ UNCHANGED <<conn, nxt, cfg, recon, rec, boot, seen>>

Handler == OnStart \/ OnConnected \/ OnGotIp \/ OnDisconnected
Timer == TimerApplies \/ TimerConnects
Bringup == Connected \/ WaitTimesOut \/ Registered
Driver == Joins \/ Refused("4way") \/ Refused("other")

WifiNext == \/ Boot \/ Handler \/ Timer \/ Bringup \/ Restart \/ PowerCycle
            \/ PsTimer \/ Persist \/ Driver \/ LinkLost

WifiSpec == WifiInit /\ [][WifiNext]_wifiVars

-----------------------------------------------------------------------------
\* One attempt per failure streak, no more, skips the backoff, apart from the
\* ones that no timer could take (it could not be created at boot, or did not
\* start); the blacklist clear it asks for stays asked for, over failed calls
\* and newer disconnects queued by the event handler, until
\* esp_wifi_set_config has done it.
RetriesSound ==
    /\ seen.unpaced <= seen.untimed + 1
    /\ seen.owed <=> nxt.reapply

\* The channel scanned first is one this SSID was joined on: a record of other
\* credentials, or what a power cut left in RTC memory, is never used; and
\* NVS holds what its mirror says unless the write failed.
HintOwn ==
    /\ conn.hint => conn.ap.ssid = net.ssid /\ conn.ap.channel \in Channels
    /\ boot.pc \in {"register", "run"} /\ seen.stored /\ rec.mirror # NoAp
          => rec.nvs = rec.mirror

\* Both: what the station promises of its retries and of its hint.
StationSound == RetriesSound /\ HintOwn

Online == sta.st = "up" /\ boot.bit

\* Only a connect the driver refused outright ends the chain of attempts.
Parked == /\ boot.pc = "register" /\ sta.st = "idle"
          /\ evq = <<>> /\ recon = "off" /\ seen.refused
=============================================================================
