----------------------------- MODULE Telemetry -----------------------------
(***************************************************************************)
(* The telemetry task (telemetry.c, tlm_sched.h): one loop that sends a    *)
(* sample per period on a fixed grid, runs the housekeeping (the NVS       *)
(* persists) and the STUN re-probe at the sample's wake when one is near   *)
(* enough, and sleeps in between, in select() once /stats is served and on *)
(* its task notification before.  Two tasks may start it; a spawn that     *)
(* finds no memory is retried from a timer.                                *)
(*                                                                         *)
(* The task's own steps take no time; its waits and the STUN probe do.  A  *)
(* wait may end up to Drift early (tick drift under light sleep).  The     *)
(* probe itself is module StunReprobe, what it and the samples send is     *)
(* left out.                                                               *)
(***************************************************************************)
EXTENDS Integers, FiniteSets

CONSTANTS
    Period,         \* CONFIG_TINYLINK_TELEMETRY_PERIOD_MS
    SlackDiv,       \* 16: a sample may run period / SlackDiv early,
    SlackMax,       \* at most TLM_SLACK_MAX_US
    EarlyMax,       \* TLM_EARLY_MAX_US
    HoldMax,        \* TLM_HOLD_MAX_US
    HoldPoll,       \* TLM_HOLD_POLL_US
    SliceStats,     \* TLM_SLICE_STATS_US
    SliceIdle,      \* TLM_SLICE_IDLE_US
    HkEvery,        \* TLM_HOUSEKEEP_US
    StunEvery,      \* CONFIG_TINYLINK_STUN_REPROBE_MS
    SpawnRetry,     \* TLM_SPAWN_RETRY_US
    Drift,          \* bound: how early a wait may end
    Block,          \* bound: how long a STUN probe may take
    MaxUp           \* bound: uptime

Callers == {"main", "poll"}     \* tinylink_stun_reprobe_start, telemetry_start
Far == MaxUp + SliceIdle + 1    \* INT64_MAX

VARIABLES
    up,             \* esp_timer_get_time
    link,           \* [tunnel, netmap, armed]: what other tasks set
    sock,           \* [open, sensor]: tlm_open's result
    spawn,          \* [claimed, handle, tasks, retryAt] of telemetry_task_start,
                    \* and whether tlm_retry_cb gave up
    start,          \* where each caller of telemetry_task_start is
    pc,             \* where the task's loop is
    plan,           \* [sample, hk, deadline, early, anchor, until] of the loop, and
                    \* whether it planned a wait that serves /stats
    stun,           \* [now, due, owed, kicked]: the re-probe requested, due, owed
                    \* since, and whether the request woke the task
    notified,       \* the task's notification
    sentAt          \* when the last sample went out, and whether with a session

tlmVars == <<up, link, sock, spawn, start, pc, plan, stun, notified, sentAt>>

\* Without a socket the sensor is not read.
tlm_open == {s \in [open : BOOLEAN, sensor : BOOLEAN] : s.sensor => s.open}

TlmInit ==
    /\ up = 1
    /\ link = [tunnel |-> FALSE, netmap |-> FALSE, armed |-> FALSE]
    /\ sock \in tlm_open
    /\ spawn = [claimed |-> FALSE, handle |-> FALSE, tasks |-> 0, retryAt |-> 0,
                gaveUp |-> FALSE]
    /\ start = [c \in Callers |-> "idle"]
    /\ pc = "off"
    /\ plan = [sample |-> 0, hk |-> 0, deadline |-> 0, early |-> 0, anchor |-> 0,
               until |-> 0, stats |-> FALSE]
    /\ \E asked \in BOOLEAN :         \* stun_boot_join, before either caller
          stun = [now |-> asked, due |-> Far, owed |-> 0, kicked |-> FALSE]
    /\ notified = FALSE /\ sentAt = [at |-> 0, session |-> FALSE]

-----------------------------------------------------------------------------
\* tlm_sched.h

Lesser(a, b) == IF a < b THEN a ELSE b

tlm_slack == Lesser(Period \div SlackDiv, SlackMax)

\* At least half a period ahead: an instant reached late is dropped.
tlm_next_on_grid(prev, period, now) ==
    LET after == {k \in 1..(MaxUp + 2) : prev + k * period >= now + period \div 2}
    IN  prev + period * (CHOOSE k \in after : \A j \in after : k <= j)

tlm_early(sampling) == IF sampling THEN Lesser(Period, EarlyMax) ELSE SlackMax

tlm_due(now, due, early) == now >= due - early

tlm_wake_at_AfterIt(due, anchor, early) == IF due - anchor <= early THEN anchor ELSE due
tlm_wake_at(due, anchor, early) ==
    IF anchor <= due /\ due - anchor <= early THEN anchor ELSE due

tlm_hold(session, now, due) == ~session /\ now - due < HoldMax

-----------------------------------------------------------------------------
\* Starting the task

\* A request that waits can be served from now on.
owed_now == IF stun.now THEN [stun EXCEPT !.owed = up] ELSE stun

Claim(c) ==
    /\ start[c] = "idle"
    /\ start' = [start EXCEPT ![c] = IF spawn.claimed THEN "kick" ELSE "spawn"]
    /\ spawn' = [spawn EXCEPT !.claimed = TRUE]
    /\ \/ c = "poll" /\ link' = [link EXCEPT !.tunnel = TRUE] /\ UNCHANGED stun
       \/ /\ c = "main"
          /\ link' = [link EXCEPT !.armed = TRUE]
          /\ stun' = [owed_now EXCEPT !.due = up + StunEvery]
    /\ UNCHANGED <<up, sock, pc, plan, notified, sentAt>>

\* xTaskCreate: the task runs before its creator stores the handle, or it fails
\* and a timer retries; without a timer either, the next caller may try.
task_created == [spawn EXCEPT !.tasks = @ + 1, !.retryAt = 0]

TaskRuns ==
    /\ pc' = "loop"
    /\ plan' = [plan EXCEPT !.hk = up + HkEvery]
    /\ stun' = owed_now

Spawn(c) ==
    /\ start[c] = "spawn"
    /\ \/ /\ spawn' = task_created
          /\ start' = [start EXCEPT ![c] = "store"]
          /\ TaskRuns
       \/ /\ \/ spawn' = [spawn EXCEPT !.retryAt = up + SpawnRetry]
             \/ spawn' = [spawn EXCEPT !.claimed = FALSE]
          /\ start' = [start EXCEPT ![c] = "kick"]
          /\ UNCHANGED <<pc, plan, stun>>
    /\ UNCHANGED <<up, link, sock, notified, sentAt>>

StoreHandle(c) ==
    /\ start[c] = "store"
    /\ spawn' = [spawn EXCEPT !.handle = TRUE]
    /\ start' = [start EXCEPT ![c] = "kick"]
    /\ UNCHANGED <<up, link, sock, pc, plan, stun, notified, sentAt>>

\* telemetry_kick: nothing while the handle is not stored.
kicks == spawn.handle /\ pc # "off"

\* telemetry_start kicks; tinylink_stun_reprobe_start returns.
StartEnds(c) ==
    /\ start[c] = "kick"
    /\ start' = [start EXCEPT ![c] = "done"]
    /\ notified' = (notified \/ (c = "poll" /\ kicks))
    /\ UNCHANGED <<up, link, sock, spawn, pc, plan, stun, sentAt>>

\* tlm_retry_cb, on the esp_timer task: spawned, retried later, or given up with
\* the spawn still claimed when the timer cannot be armed again.
RetrySpawn ==
    /\ spawn.retryAt # 0 /\ up >= spawn.retryAt
    /\ \/ /\ spawn' = [task_created EXCEPT !.handle = TRUE]
          /\ TaskRuns
       \/ /\ \/ spawn' = [spawn EXCEPT !.retryAt = up + SpawnRetry]
             \/ spawn' = [spawn EXCEPT !.retryAt = 0, !.gaveUp = TRUE]
          /\ UNCHANGED <<pc, plan, stun>>
    /\ UNCHANGED <<up, link, sock, start, notified, sentAt>>

-----------------------------------------------------------------------------
\* The loop

sampling == link.tunnel /\ sock.sensor /\ sock.open
tlm_serves_stats == sock.open /\ link.tunnel

\* One pass up to the re-probe: the sample (or its hold), the housekeeping, and
\* the deadline of the wait from both.  wg_netif_is_up says whether there is a
\* session.
Loop(session) ==
    LET first == IF plan.sample = 0 THEN up ELSE plan.sample
        due   == sampling /\ tlm_due(up, first, tlm_slack)
        held  == due /\ tlm_hold(session, up, first)
        sent  == due /\ ~held
        next  == IF sent THEN tlm_next_on_grid(first, Period, up) ELSE first
        early == tlm_early(sampling)
        anchor == IF sampling THEN next ELSE Far
        slice == up + (IF tlm_serves_stats THEN SliceStats ELSE SliceIdle)
        wait  == CASE held -> up + HoldPoll
                   [] sampling /\ ~held /\ next < slice + tlm_slack -> next
                   [] OTHER -> slice
        hk    == IF tlm_due(up, plan.hk, early)
                 THEN tlm_next_on_grid(plan.hk, HkEvery, up) ELSE plan.hk
    IN  /\ pc = "loop" /\ pc' = "stun"
        /\ plan' = [sample |-> IF sampling THEN next ELSE plan.sample,
                    hk |-> hk, early |-> early, anchor |-> anchor, until |-> 0,
                    stats |-> tlm_serves_stats,
                    deadline |-> Lesser(wait, tlm_wake_at(hk, anchor, early))]
        /\ sentAt' = IF sent THEN [at |-> up, session |-> session] ELSE sentAt
        /\ UNCHANGED <<up, link, sock, spawn, start, stun, notified>>

\* The wait ends for the re-probe due at `at` too.
wake_for(at) ==
    [plan EXCEPT !.deadline = Lesser(@, tlm_wake_at(at, plan.anchor, plan.early))]

\* tinylink_stun_reprobe_poll: not due, not possible yet, or a probe.
StunPoll ==
    LET wanted == link.armed /\ (stun.now \/ up + plan.early >= stun.due)
    IN  /\ pc = "stun"
        /\ \/ /\ ~wanted /\ pc' = "wait"
              /\ plan' = wake_for(IF link.armed THEN stun.due ELSE Far)
              /\ UNCHANGED stun
           \/ /\ wanted /\ ~link.netmap /\ pc' = "wait"
              /\ plan' = wake_for(up + 1)
              /\ UNCHANGED stun
           \/ /\ wanted /\ link.netmap /\ pc' = "probe"
              /\ stun' = [stun EXCEPT !.now = FALSE, !.owed = 0, !.kicked = FALSE]
              /\ \E b \in {0, Block} : plan' = [plan EXCEPT !.until = up + b]
        /\ UNCHANGED <<up, link, sock, spawn, start, notified, sentAt>>

ProbeEnds ==
    /\ pc = "probe" /\ up = plan.until
    /\ pc' = "wait"
    /\ stun' = [stun EXCEPT !.due = up + StunEvery]
    /\ plan' = wake_for(up + StunEvery)
    /\ UNCHANGED <<up, link, sock, spawn, start, notified, sentAt>>

\* tlm_wait chooses how to wait by what is served now.
Wait ==
    /\ pc = "wait"
    /\ pc' = CASE plan.deadline <= up -> "loop"
               [] plan.deadline > up /\ tlm_serves_stats -> "select"
               [] OTHER -> "notify"
    /\ UNCHANGED <<up, link, sock, spawn, start, plan, stun, notified, sentAt>>

\* A select that fails sits out the rest on the notification.
SelectFails ==
    /\ pc = "select" /\ pc' = "notify"
    /\ UNCHANGED <<up, link, sock, spawn, start, plan, stun, notified, sentAt>>

Wake ==
    /\ \/ pc \in {"select", "notify"} /\ up >= plan.deadline - Drift
       \/ pc = "notify" /\ notified
    /\ pc' = "loop"
    /\ notified' = IF pc = "notify" THEN FALSE ELSE notified
    /\ UNCHANGED <<up, link, sock, spawn, start, plan, stun, sentAt>>

-----------------------------------------------------------------------------
\* The other tasks, and time

\* stun_reprobe_on_got_ip, once the handler is registered; a request that
\* waits already is owed from the first event that woke the task.
GotIp ==
    /\ link.armed
    /\ stun' = [stun EXCEPT !.now = TRUE, !.kicked = @ \/ kicks,
                            !.owed = IF stun.now /\ (stun.kicked \/ ~kicks) THEN @ ELSE up]
    /\ notified' = (notified \/ kicks)
    /\ UNCHANGED <<up, link, sock, spawn, start, pc, plan, sentAt>>

\* tinylink_netmap_seen turns true, with wg_rx running
NetmapSeen ==
    /\ ~link.netmap
    /\ link' = [link EXCEPT !.netmap = TRUE]
    /\ stun' = owed_now
    /\ UNCHANGED <<up, sock, spawn, start, pc, plan, notified, sentAt>>

TimePasses ==
    /\ up < MaxUp
    /\ \/ pc = "off" /\ (spawn.retryAt = 0 \/ up < spawn.retryAt)
       \/ pc = "probe" /\ up < plan.until
       \/ pc = "select" /\ up < plan.deadline
       \/ pc = "notify" /\ up < plan.deadline /\ ~notified
    /\ \A c \in Callers : start[c] \in {"idle", "done"}
    /\ up' = up + 1
    /\ UNCHANGED <<link, sock, spawn, start, pc, plan, stun, notified, sentAt>>

TlmNext ==
    \/ \E c \in Callers : Claim(c) \/ Spawn(c) \/ StoreHandle(c) \/ StartEnds(c)
    \/ RetrySpawn
    \/ \E session \in BOOLEAN : Loop(session)
    \/ StunPoll \/ ProbeEnds \/ Wait \/ SelectFails \/ Wake
    \/ GotIp \/ NetmapSeen
    \/ TimePasses

-----------------------------------------------------------------------------
\* Properties

\* The task is spawned once however its two callers and the retry timer race,
\* and a claimed spawn is a running task, an armed retry or a caller at work,
\* unless the retry could not be armed again.
SpawnedOnce ==
    /\ spawn.tasks <= 1
    /\ spawn.claimed /\ ~spawn.gaveUp =>
          \/ spawn.tasks = 1
          \/ spawn.retryAt # 0
          \/ \E c \in Callers : start[c] = "spawn"

\* The housekeeping rides an earlier sample's wake and is never late for it:
\* it runs within one blocking probe of its instant.
HousekeepOnTime == pc # "off" => up <= plan.hk + Block

\* A wait planned before /stats was served, which serves it: the tunnel came up
\* between the loop's choice of its slice and its wait.
LongSelect == tlm_serves_stats /\ ~plan.stats

\* While the task waits, a re-probe that is requested and possible is not owed
\* for longer, a blocking probe aside, than: no time when GOT_IP woke the task
\* and /stats is not served; the 5-s slice (the slack more when a sample
\* stretches it) when it is; the idle slice when the request woke nobody
\* (stun_boot_join, or a kick before the handle was stored) or met a
\* LongSelect.
ReprobeServed ==
    /\ pc \in {"select", "notify", "probe"}
    /\ stun.now /\ link.armed /\ link.netmap
    => up - stun.owed <= Block + (CASE ~stun.kicked \/ LongSelect -> SliceIdle
                                    [] stun.kicked /\ ~sock.open -> 0
                                    [] OTHER -> SliceStats + tlm_slack)

TlmSound == SpawnedOnce /\ HousekeepOnTime /\ ReprobeServed

\* Samples keep their grid (the hold and a late wake never shift it), two never
\* go out less than half a period less the slack apart, and one leaves without a
\* session only after its whole hold.
SampleSound ==
    sentAt' # sentAt =>
        /\ sentAt.at # 0 => up - sentAt.at >= Period \div 2 - tlm_slack
        /\ plan.sample # 0 => (plan'.sample - plan.sample) % Period = 0
        /\ sentAt'.session \/ (plan.sample # 0 /\ up - plan.sample >= HoldMax)

SamplesOnGrid == [][SampleSound]_tlmVars

\* The schedule as a whole: one task, on time, on the grid.
TelemetrySound == []TlmSound /\ SamplesOnGrid
=============================================================================
