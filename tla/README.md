# tinylink: TLA+ verification project

tinylink is a Tailscale client for the ESP32: it registers with a control
server over Noise and HTTP/2, keeps a relay (DERP) connection, finds its public
endpoint by STUN, and carries IP packets over WireGuard to one peer.  It runs
as half a dozen FreeRTOS tasks on two cores with few locks, and it must survive
lost connections, address changes, crashes and reboots unattended.  That is
what this project models: the control of the code (who holds which lock, what
is read before and used after an unlock, what a reset keeps, when a timer
fires), not the contents of its messages.

Paths below are relative to `src/components/tinylink/src/` unless they start
with `main/` (`src/main/`).

## The system

### Tasks

| task | runs | shares |
|---|---|---|
| main | boot order, register, warm start, Wi-Fi wait | dataplane, STUN boot state |
| `wg_rx` | the UDP socket's reader, handshake and path timers | session, path, probes, STUN slot |
| `wg_tx` | sends frames, relays and rescues | TX ring, relay connection |
| TCP/IP | encrypts what lwIP sends | session, TX ring |
| `tinylink_derp` | relay supervisor: connect, read, close | relay connection, probes, INITs |
| long-poll | control stream, netmaps, endpoint pushes | peers, warm start, home relay |
| telemetry | samples, housekeeping, STUN re-probe, NVS writes | endpoint, warm record, addresses |
| event / esp_timer | Wi-Fi and got-ip events, retry timers | abort flags, requests |
| `psk_task` | derives the Wi-Fi key on the second core | the key's hand-over |

### Parts and modules

| part | module | what is hard about it |
|---|---|---|
| transport session (`wg_transport.c`) | `WgTransport` | AEAD runs outside the lock; keys are swapped in place; 64-bit and ring arithmetic |
| handshake (`wg_netif.c`, `wg_handshake.c`, `wg_timers.h`) | `WgHandshake` | six timers, four tasks that start an INIT, responses that come late |
| timestamps (`wg_proto.c`, `tinylink.c`) | `TaiFloor` | reboots without a clock, failed writes |
| path (`wg_path.h`) | `WgPath` | long event orders; a sleep that must mirror its timers |
| rescue (`wg_rescue.h`) | `WgRescue` | a summary one task writes and another judges by |
| TX ring (`wg_netif.c`) | `WgTxRing` | unlocked test-and-set, queue limits, teardown |
| DISCO (`disco_prober.c`, `disco_handler.c`) | `Disco` | eviction, late pongs, key changes while a frame is handled |
| relay client (`derp_client.c`, `derp_wlock.h`) | `DerpClient` | a writer blocked for seconds in a context the supervisor wants to free |
| control connection and long-poll (`tinylink.c`, `ts2021_client.c`, `h2_client.c`, `mapreq.c`) | `ControlLoop` | fallbacks of port and address, growing deadlines, refusals, pushes |
| endpoint push, abstractly | `EndpointPush` | what `ControlLoop` promises |
| HTTP/2 (`h2_core.c`) | `H2Core` | windows of two streams, a pair of requests rolled back |
| map body (`mapreq.c`, `jsmn_split.h`) | `MapSplit` | a byte-wise splitter that must equal the whole-body parser |
| peer table (`tinylink.c`, `mapreq.c`, `wg_dataplane.c`) | `Netmap` | partial frames, caps, a session that follows a moving table |
| boot probe (`stun_boot.h`) | `StunBoot` | a timeout racing the result; who frees what |
| re-probe (`tinylink.c`) | `StunReprobe` | a slot shared by two tasks without a lock |
| warm start (`tl_warm.h`, `tinylink.c`) | `WarmStart` | resets at any point; three tasks; one dataplane start |
| TLS sessions (`tls_resume.c`, `tls_rtc.h`, `tls_offer.c`) | `TlsSessions` | three clocks, records over resets, fallbacks |
| addresses (`tl_addr.h`) | `AddrCache` | a record written by another firmware, a mirror of flash |
| telemetry (`telemetry.c`, `tlm_sched.h`) | `Telemetry` | a grid, waits that end early, two starters |
| Wi-Fi (`main/app_wifi.c`, `main/wifi_hint.h`) | `WifiStation` | events and a timer that hand an attempt over |
| Wi-Fi key (`main/wifi_psk.h`) | `WifiPsk` | a derivation that may finish too late |

## Modules

### Data plane

`WgTransport`.  `session` is `g.transport`; `tx[s]` and `rx[r]` are the tickets
`wg_transport_tx_reserve` and `wg_transport_rx_begin` fill; `lock` is held
across two steps where the code does two things under `g.lock` whose order
matters: the two halves of a reservation (counter, then key) and of a key swap
(keys, then counter, generation and window).  Keys are numbers of keypairs.
The counter's width is `CounterMod` (2^64), the window's `WindowBits` (a power
of two in the code; any positive value here); the sum in `wg_replay_check`
wraps at `CounterMod` as the 64-bit sum does.  A packet's tag verifies exactly
when the ticket's keypair sealed it.  `sealed` and `delivered` are histories.

`WgHandshake`.  `g` holds the handshake fields of `wg_netif`'s state, `rx` the
place of `rx_task` and what is left of its wait.  A time stamp is kept as its
age in ticks, saturated past the longest period it is compared with, so the
model needs no bound on time.  `wire` and `resps` are INITs and responses on
their way: lost, late or both relayed and direct.  `env` is the link, the
relay's login and the direct path.  The responder's `epoch` counts its lives (a
restart, a re-login); a response carries the life it was made in, so that one
of an earlier life may still arrive.  A transport packet comes only from a responder
whose current keypair, of its present life, is the one in use here.  The kinds
of fault and their number are constants.

`WgPath`.  Each function of `wg_path.h` is an operator from the record `p` to a
new record and the set of `WG_PATH_ACT_*` it returns.  The clock is explicit
and stops at `MaxTime`; instants and periods are small numbers, with the code's
strict `wg_timer_due`.  The events come in any order, whatever a peer or a
network would do, so what holds here holds for every peer.  A round-trip time
stands for an endpoint's quality (a private address counts as a shorter time).
`unsettled` and `rekeys` are histories.

`WgRescue`.  `ring` is the array read oldest first, so `head` is not a variable;
`sent`, `sum` and the summary's fields keep the code's meaning.  A pass of
`wg_rescue_flush` takes one step per slot, because the relay's write waits and
the clock, the keys and the proofs of delivery move meanwhile.

`WgTxRing`.  `free_q` and `ready_q` are the two queues of slot indices; the
sentinels travel in `ready_q`.  A queue operation is atomic and never waits.
Every access of `rescue_queued` and `rescue_owed` is a step of its own.  A task
is inside `send_plaintext` (claim, seal), `queue_rescue` (test, set, queue) or
`init_queue_relay` (claim, copy); `hs_lock` is held where the code holds it.
`wg_netif_stop` joins the worker or times out, then frees or leaks the ring; a
sender that meets a freed ring is not followed (nothing calls `wg_netif_stop`
on a running netif).  A slot is in at most one place, not exactly one: two
tasks that race in `queue_rescue` can fill the queue with sentinels, and a slot
refused by it is lost.  `asked` is a history.

`Disco`.  A frame is sealed with a box key, represented by the DiscoKey it is
shared with.  Pongs are not stored: a ping that left may be answered at any
time, any number of times or never, and from another address.  The record of a
ping is made after `sendto` (`tinylink.c:980`, `1074`), so a pong may come
before its probe is in the table; that is a step between two others here.  A
shared key that cannot be computed leaves the peer without one (`shared`), at a
change of keys; at the start of the session the computation is taken to succeed.

`DerpClient`.  Each frame (`wr[w]`) follows `send_frame` one atomic access at a
time: generation, `connected`, lock, `connected`, generation, socket, then one
write call per part.  A call returns a part, a timeout or an error.  The
supervisor (`sup`) connects by address, then by name; logs in; reads; answers;
and closes with the grace, the cut and the unbounded wait.  `gen` counts
connects, `conns` TLS contexts; `torn` is the history that a frame failed on
the present stream, `ip_changed` that our address changed since the connect
began.

`TaiFloor`.  The floor in NVS, the reservation in RAM, clocks that stand still,
jump and fall back, resets anywhere and NVS accesses that fail.  A stamp is its
seconds.  `doubt` records a failed access while the floor mattered.

### Control

`ControlLoop`.  The task that registers and runs map streams: `ts2021_connect`
with the cached address, the plain and the TLS port; requests with deadlines
that grow and shrink; a push that rides with a stream or goes ahead of it; and
the tasks that ask for a push at any moment.  A server answers after a fixed
delay, so a deadline decides the outcome; `Scenarios` says what answers where
and how fast.  Requests of an abandoned connection are taken to be processed
before those of the next one.

`EndpointPush`.  The promise, in one page: control has the endpoint unless a
push is owed, and a push that is owed is made.  `ControlLoop` implements it
under the mapping in its `EP` instance (property `PushRefines`).

`H2Core`.  `h` is `h2_core_t`; `srv` is what the server has seen of us.  One
step takes a frame header and one a piece of a payload, so a record boundary
may fall anywhere.  A header block is a sequence of fields, a body a number of
bytes; a block may end inside a field, which the next CONTINUATION goes on with
or the decoder refuses.  `rst` marks a stream the server reset.

`MapSplit`.  The splitter as a state machine fed one character at a time, and
the whole-body iterators it replaced as operators over the text; what they
collect must be equal for every text, malformed and cut ones included.  Of the
four characters of white space the texts have the blank.

`Netmap`.  Control changes nodes and says so in frames; `mapreq.c` collects
under fixed caps; `tinylink.c` merges into the table; `wg_dataplane.c` starts
and updates the session.  One task runs a frame from its first byte to the
session's update.  Up to the read of the live endpoint that is one action, for
nothing it touches is shared; then come the test whether that endpoint is
proven (`TestProven`), the end of `apply_peer_endpoint` and the keys
(`update_keys`), between which `wg_rx` moves the endpoint (`Roam`), as between
the code's sections under `g.lock`.  Elements lost without a recycle
(`mapreq.c:1319`) are modelled, and a full map whose `Peers` is empty leaves
the old table, as in the code.

### Boot, link and records

`StunBoot`.  The transitions of `stun_boot.h` are operators on the state; the
probe's task and main step through `stun_boot_run`, `stun_boot_exchange` and
`stun_boot_join`; the mutex is held across the read of a datagram.

`StunReprobe`.  Every access of `s_stun_pending` is a step of its own.  An
answer carries the probe it answers and the endpoint of that moment; it may be
lost, late or duplicated.  `told` is the endpoint control holds.  A push, once
taken, reaches control here; its failures are in `ControlLoop`.

`WarmStart`.  `rtc` survives every reset but a power cycle, `nvs` survives all
of them, and everything else is cleared by `WarmReset`.  A netmap is our address,
the peer picked, its key and its endpoint: the classes `tl_warm_diff` tells
apart.  `mx` is `s_warm_mx`; `verdict`, `sm`, `stage`, `mirror` keep the code's
names.  `streak` and `prev` are histories of how the last boots ended.

`TlsSessions`.  A master secret is a number; `secret` remembers when and with
whom it was made.  True time, the RTC timer and `esp_timer` are three clocks.

`AddrCache`.  The home relay's and control's last address in RAM, in NVS and in
the mirror of NVS, over boots of firmwares built for other regions and control
hosts.  `said` remembers what netmaps named and which control address answered
for which host, `failed` the keys whose last write failed.  The supervisor keeps
the record and the generation it connected with; the poll of the telemetry task
reads the home record under the lock and writes the two blobs after it.

`Telemetry`.  The loop's waits, jobs and grid, the creation of the task from
two tasks and a retry timer, which gives up when it cannot be armed again.  The
task's own steps take no time; a wait may end up to `Drift` early.  `stun`
remembers since when a re-probe is owed and whether its request woke the task.

`WifiStation` and `WifiPsk`.  The retry policy, the association hint in RTC and
NVS, the hand-over of the next attempt from the event handler to the timer and
the power-save switch; and the key's states with the two tasks that race for
it.  A reconnect timer that could not be created, or does not start, makes the
event handler run the callback itself, at once; `seen` counts these attempts
apart.  Bringup's wait may run out while an attempt is under way.  The driver is
external.

## Runs

An MC module may hold several components that do not interact: a variable
`which`, chosen in the initial state, names the one a behaviour is about, and
the others stay as they started.

| run | components | what it shows | bounds, and what happens within them |
|---|---|---|---|
| `dataplane` | `WgTransport`, `Disco` | no nonce twice, no packet twice, an exact and authentic window; only a timely pong of the peer moves the endpoint | 2 senders, 2 receivers, a ring of 2, counters up to 5, 2 rekeys: the ring wraps, counters end; 2 nodes, a table of 2, 3 pings or key changes, one without a shared key: eviction and expiry |
| `relay` | `DerpClient`, `WarmStart` | no write into a freed context, on another connection or after a torn frame; torn and outdated connections are left; a warm session is confirmed, followed or restarted, in bounded time | a sender and the supervisor, 2 connects, frames of 2 parts; one boot from any record, another address, key or endpoint |
| `link` | `StunReprobe`, `StunBoot`, `WifiStation`, `WifiPsk`, `TaiFloor` | a move is probed and control comes to hold the endpoint; one reader and one owner of the semaphore; the station rejoins; the key is handed over whole; stamps grow | 2 endpoints, probes and moves; 3 sends, 2 strays; 3 failures, of joins, calls or the timer, and a power cycle; 14 seconds of stamps: several chunks and resets |
| `records` | `WarmStart`, `TlsSessions`, `AddrCache`, `Telemetry` | lost warm starts are bounded and followed by a cold boot; a session or address is used only for what it was kept for, a move of the relay and back is noticed, flash follows the records; jobs and samples on time | 3 boots, 1 lost warm start allowed, so that a second would fit; 2 relays (alike, so taken up to symmetry) and control, secrets that outlive their age; 2 firmwares, nodes and control addresses, 2 moves per boot, 2 resets or failed writes; 10 units, more than 2 sample periods: every job and its retry happen |
| `netmap` | `H2Core`, `MapSplit`, `Netmap` | windows agree on both sides, a clean close is a whole answer; the splitter equals the parser; table and session follow control, a proven endpoint is kept | a window of 4, 3 frames, 2 requests; any 5 characters from 5 starts; 3 nodes, a table of 2, 3 map frames, any roaming |
| `path` | `WgPath`, `WgRescue` | the deadline is exactly when the tick acts; no lapse is forgotten; the summary is exact; re-sends stay in order | 3 instants with periods of 0 to 2 and a clock that lags by 1, a peer without DiscoKey not followed past the last instant; 3 slots, 3 keypairs, 4 instants: the ring wraps, frames age out |
| `tx_ring` | `WgTxRing` | no slot in two hands, no ring freed in use, a re-send asked for is served | 1 slot, `wg_rx` sending data and INITs, the relay's task |
| `control` | `ControlLoop` | the push implements `EndpointPush`; :80 is given up only on the name's own failure; a server within the longest deadline is heard | 8 scenarios: servers that are fast, slow, dead or mute by port and address; a move, a fault and a throttle |
| `handshake` | `WgHandshake` | every deadline is in the plan, retries are bounded, a response installs only a keypair the responder holds, the session recovers | first retry < REKEY_TIMEOUT, keepalive < stale < age rekey as in the code, one fault of any of 12 kinds |
| `tx_ring_order` | `WgTxRing` | violated, see Findings | a sender of data besides |
| `control_stall` | `ControlLoop` | violated, see Findings | every stream on :80 stalls, :443 answers |
| `handshake_retry` | `WgHandshake` | violated, see Findings | the peer logs in again |

Deadlock is checked in the control and handshake runs, whose systems run for
ever.  It is off where a bound ends the behaviour (a boot that is over, the
last boot, the last probe, the end of an explicit clock, the last frame) or the
system stops (`wg_netif_stop`).

The bounds are the smallest at which the case a property is about happens; each
property is checked to fail when the definition it guards is changed as a
plausible bug would change it (operators such as `RxCommitNoRecheck`, beside
the definition they vary).  In `dataplane` the ring has 2 bits, so every jump
clears the whole of it or one bit; larger rings are covered by the theorem
`WindowExact`, which holds for every size.  In `records` one lost warm start is
allowed where the code allows two; `WarmBootsAlwaysSound` holds for every limit.

### Fairness

* `DerpClient`: every task goes on with the frame it is writing (a write call
  returns after `SO_SNDTIMEO` at the latest) and the supervisor goes on.  The
  supervisor's wait for the lock is strongly fair: it outranks `wg_tx` and is
  woken by each give.  Reads return again and again because of the server's
  keepalives, or the idle budget ends them.
* `StunBoot`: both tasks run; the probe's deadline comes.  The latter is strong:
  strays interrupt the wait without putting the deadline off.
* `StunReprobe`: the telemetry task polls, `wg_rx` finishes a frame, the
  long-poll serves a push.  Nothing is assumed of the network.
* `WarmStart`: the long-poll and the telemetry task run; the bound of a pending
  session is a clock, so it passes (strong: the poll that sees it comes and
  goes).  Nothing is assumed of main, of netmaps or of resets.
* `WifiStation`: the event handler, the timer and main run, and the driver
  reports the outcome of an attempt.
* `WgTxRing`: a task inside an operation goes on and the worker runs; none waits
  for anything but `hs_lock`, held for a few steps (the kick's wait for it is
  strongly fair).  Nothing is assumed of the relay.
* `ControlLoop`: the long-poll, the push timer and the callers of a push go on;
  the cached address ages (strong: its age is looked at when a dial begins).
* `WgHandshake`: `rx_task` runs, what is on the wire arrives or was lost by a
  counted fault, other tasks finish.

### Findings

Each is a comment of the source that the code does not meet.

* `tx_ring_order`: `queue_rescue` tests `rescue_queued`, sets it and then queues
  the sentinel, without a lock.  A task that sees the flag before the sentinel
  is queued puts its INIT ahead of the re-send that the comment at
  `wg_netif.c:911` says it follows.  It needs a preemption inside a few
  instructions, and costs frames under a keypair the peer deletes.
* `control_stall`: the comment at `h2_client.c:661` says that a stall which
  persists also tries the other port and a fresh address.  Once the response
  deadline has grown to its cap of 120 s the connection is no longer younger
  than `TS2021_PLAIN_EARLY_DROP_S`, and the same port is dialled each time.
* `handshake_retry`: the comment at `wg_netif.c:161` counts on the first retry
  of a cold INIT being a full `REKEY_TIMEOUT` away.  It is 2 s away since the
  first retry was shortened, so a wait that began before the INIT makes it late.
  The property is about the INIT the comment is about, the one a re-login's new
  key triggers.  The first INIT of a boot is sent with `rx_task` in its first,
  unplanned wait (`wg_netif.c:1860`) and is as late.

Noted while modelling, without a run:

* With a slow control server, a node that was removed and an endpoint that
  moved, each push resets the request deadline (`h2_client.c:570`), so the
  register may keep failing while moves go on.
* `send_to_peer` back-dates a stamp by a period; in the first 30 s of uptime the
  result is not positive and reads as "never" (`wg_netif.c:596`).
* `wg_proto.c:215` speaks of one rejected INIT after a failed floor write; there
  can be several until the clock passes the old floor.
* `telemetry.c:297` and `tinylink.c:3125` differ on how long a wake-up may wait
  in `select()`.
* `stun_response_handler` checks `in_flight` and the transaction before it
  writes the result (`tinylink.c:2934`): held in between across the timeout and
  the next probe's drain, it completes that probe with the previous answer.  The
  next re-probe repairs it; `MoveIsProbed` and `ControlCatchesUp` hold with it.
* An `esp_wifi_connect` that fails at once ends the chain of retries
  (`main/app_wifi.c:367`); `Rejoins` excludes it by name (`Parked`).
* Without a reconnect timer, or when it does not start, the next attempt is made
  at once and on the event task (`main/app_wifi.c:420`): a burst of failures then
  has as many attempts without a backoff as failures.  `RetriesSound` counts them
  apart.
* A telemetry task that could not be created and whose retry timer cannot be
  armed again is given up with its claim kept (`telemetry.c:401`), so no later
  caller tries.
* When the tunnel comes up between the loop's choice of a slice and its wait, the
  idle slice is spent in `select()`, which no kick ends: a got-ip re-probe may
  wait 30 s instead of the 5 to 6 s of `tinylink.c:3126` (`LongSelect`).
* RST_STREAM with NO_ERROR closes a stream as END_STREAM does (`h2_core.c`,
  `fixed_done`), and `h2_client.c:680` takes it for a whole answer.
  `CloseIsAnswer` excludes it by name (`rst`).
* `apply_peer_endpoint` reads the live endpoint, asks whether it is proven and
  writes it in three sections (`wg_dataplane.c:436`): an endpoint `wg_rx` proved in
  between is overwritten.  `EndpointKept` excludes it by name (`roamed`); the next
  pong moves the endpoint back.
* A response made before the responder restarted or logged in anew installs keys
  nobody holds (`wg_netif.c:1120`).  `InstallsLive` excludes it by name (`epoch`);
  the RX-stale watchdog rekeys, and `Recovers` holds with it.

## Proofs

A run checks a small instance; the theorems hold for every value of the
constants.  Each component's theorems are in a module of their own
(`...Proofs`) that extends the component's; those of the five components of the
run `link` share `LinkProofs`.  All of them have the same shape: an
inductive invariant, first checked by TLC as an invariant of a small instance;
a lemma that the initial states have it; a lemma that every action keeps it,
with one step per action; and the property as its consequence.  What an
invariant needs beyond the property is the part worth reading.  The runs named
below check the very definitions the theorems are about.

| theorem | property | run |
|---|---|---|
| `WgTransportProofs!TypeCorrect` | types, and who is inside the lock | - |
| `WgTransportProofs!NonceNeverReused` | `NonceOnce` | `dataplane` |
| `WgTransportProofs!PacketDeliveredOnce` | `DeliveredOnce` | `dataplane` |
| `WgTransportProofs!WindowFollowsPeer` | `WindowAuthentic` | `dataplane` |
| `WgTransportProofs!WindowExact` | `ReplayCheckExact` | `dataplane` |
| `WgPathProofs!LapseNeverForgotten` | `LapseSettled` | `path` |
| `WgPathProofs!DeadlineAlwaysExact` | `DeadlineExact` | `path` |
| `WgPathProofs!RekeyOncePerSilence` | one rekey per silence | - |
| `WgHandshakeProofs!PlanAlwaysExact` | `PlanExact` | `handshake` |
| `WgHandshakeProofs!RetryAlwaysBounded` | `RetryBounded` | `handshake` |
| `WgHandshakeProofs!InstallsOnlyLive` | `InstallsLive` | `handshake` |
| `WgTxRingProofs!RingAlwaysSound` | `RingSound` | `tx_ring` |
| `DerpClientProofs!RelayConnectionSound` | `ConnectionSound` | `relay` |
| `WarmStartProofs!WarmBootsAlwaysSound` | `WarmBootsSound` | `records` |
| `WarmStartProofs!WarmSessionAlwaysSound` | `WarmSessionSound` | `relay` |
| `LinkProofs!BootJoinSound` | `JoinSound` | `link` |
| `LinkProofs!MoveAlwaysProbed` | `MoveIsProbed` | `link` |
| `LinkProofs!StationAlwaysSound` | `StationSound` | `link` |
| `LinkProofs!PskAlwaysHandedOver` | `PskHandedOver` | `link` |
| `LinkProofs!StampsAlwaysIncrease` | `StampsIncrease` | `link` |

**Transport session.**  Assumed (`TransportAssumption`): a window of at least one
bit and a counter space larger than the window.  For sealing, the invariant
says that a reserved counter is below the keypair's next one and that no two
active tickets of a keypair share one; nonces then cannot meet although sealing
happens outside the lock.  For receiving, it says that a bit of the window is
set exactly for the delivered counters of the present keypair, that a ticket of
an older keypair is recognised by its generation, and that nothing above
`highest` was delivered.  The arithmetic is in the lemmas: two counters less
than a window apart have different bits (`SlotsApart`), and `wg_replay_update`
clears exactly the bits of the counters it skips (`UpdateExact`).

**Path.**  One lemma per function of `wg_path.h` about the record it returns: a
lapse stays pending or its frames are handed out, and the count of rekeys since
the peer was last heard goes up only where `REKEY` is returned.  The theorems
follow for any clock and periods.  That the path asks for a rekey only once per
silence is not in a run: a second silence needs six instants, too many for TLC
with every order of events.  For the deadline the invariant is `ClockInv`: the
record's instants are numbers, its mode was not entered in the future, and a
relay has a period for its re-test.  `TickAtDeadline` says that the tick acts
from the deadline on and not before it, `DeadlineAfterTick` that after any tick,
however late, the next deadline lies ahead.

**Handshake.**  Assumed (`HandshakeConstants`): natural periods, a wait and a
burst of at least one, a first retry no later than the others.  `HsInv` has
three parts.  `Timely` says that what is left of REKEY_TIMEOUT covers what is
left of `rx_task`'s wait, whichever task sent the INIT in flight: with it no
INIT is left alone for longer.  `LiveOk` ties the INIT in flight to the INITs on
their way and to the responses: it is the newest of all, and once the responder
answered it in its present life (`Answered`), nothing is on its way, and the
responder holds its keypair and takes no older INIT.  `RespsOk` says that a
response is of the responder's present life or of an earlier one, and that few
enough indices are in use for a fresh one to be left.  A response that is taken
answers the INIT in flight, so its keypair is the responder's, or it was made in
an earlier life; that is `InstallsLive`, with its exception.  That the plan is
exact needs no more than the types: it compares two ways of computing the
same instants.  One lemma per operation of `wg_netif.c` about the pair of the
handshake fields and the wire, then one per action.

**TX ring.**  Assumed (`TxRingAssumption`): finitely many slots, and that slots,
sentinels and "nobody" are told apart.  `RingInv` adds that a task about to
queue or give back a slot has one (`Holding`), and that whoever is between the
request of a re-send and the copy of its INIT holds `hs_lock` (`Locking`): this
is what keeps `StopFree`, which takes the lock, off the copy.  The lemmas
`TailFacts` and `AppendFacts` say what a queue operation does to the places of
a slot; one lemma per hand-over (`TaskClaims`, `TaskPasses`, `WorkerTakes`,
`WorkerFrees`, `NobodyGains`) then serves all 27 actions.

**Relay client.**  Assumed (`DerpAssumption`): the supervisor is none of the
relaying tasks, "free" is no task, and a frame has a part and an idle limit of at
least one.  `ConnectionSound` says nothing of a frame that waits for the
lock over a close and a reconnect, nor of the flags between the stores of a
failed write.  `DerpInv` adds who may hold the lock where, when the connection
may be up, that no frame is under way while the supervisor dials, and that a
frame admitted under the current generation was admitted on the connection that
is up.  Any number of relaying tasks, connects and write calls.

**Warm start.**  Assumed (`WarmAssumption`): a crash limit of at least one.
`WarmInv` follows four lines: what a reset leaves behind and what the marks in
RTC memory say of it (`AtReset`, `Marks`); that the gate keeps the handler of
netmaps and main's warm start apart (`Gate`); what the data plane runs with at
each place of either (`Plane`); and that the record is written only under the
mutex and not before a session is confirmed (`Writer`).  It is inductive only
with the fact that the long-poll judges a netmap against a session that is
still pending.

**Boot probe.**  Of the two tasks only the shared state tells who was first, so
`BootInv` says what each value of it means for both.  The theorem includes an
action property, `OneReader`: no step makes a second reader of the socket.

**Re-probe.**  `MoveIsProbed` is inductive as it stands, over the shapes of the
state (`ReprobeInv`): only a poll that sets out on a probe takes the request, and
no step inside a probe touches it.

**Wi-Fi station.**  The events in the queue follow each other as the driver's
states do (`QueueInv`): a disconnect is in it only when the station is idle and
no attempt is being prepared, so the handler and the timer's callback never
prepare two.  `Paced` counts: the attempts without a backoff of this streak, the
one about to be made included, are at most the one that `fast_spent` stands for
and those no timer could take.  `ClearOwed` and `HintKept` connect the next
attempt and the hint with what was asked and joined.  Any channels, networks
and number of failures and resets.

**Wi-Fi key.**  `PskInv` says what the state of the key tells each task of the
other: who has claimed or published it, and where the passphrase and the derived
key still are.

**Timestamps.**  Hypotheses of the theorem (`TaiConstants`): a chunk of at least
a second and clocks that read no negative time.  A stamp is compared with stamps
of earlier boots that no variable of this boot holds; the invariant connects
them through NVS: without doubt about it, the floor is no lower than any stamp
sent, the reservation of a boot that may write is that floor, and the stamp
under way is below it.

Not proved, and checked by TLC only: everything about liveness (fairness and
ENABLED are outside the prover's reach) and with it `EndpointPush` as a whole;
`MapSplit`, which compares recursive definitions over all texts; `WgRescue`,
`H2Core` and `Netmap`, whose properties compare sums and selections over a
sequence with what was counted along the way, an induction over data; and
`ControlLoop`, `Disco`, `TlsSessions`, `AddrCache` and `Telemetry`, for which no
invariant has been worked out.

## Not modelled

* Cryptographic primitives, message codecs (HPACK, DERP and STUN framing, Noise,
  record encodings), JSON inside an element, logging and diagnostics: no control
  state to check.
* Memory reordering: shared flags are atomics or `volatile`, and each access is
  one step.
* Time, except in `WgRescue`, `WgPath`, `WgHandshake`, `Telemetry`, `TlsSessions`
  and the deadlines of `ControlLoop`: elsewhere a timeout may fire whenever it is
  armed.
* Of the long-poll: the wedge restart (it is `OtherRestart` in `WarmStart`) and
  the pacing asked for by Retry-After.  Of TLS resumption: a restart of the RTC
  timer within one boot.  Of DISCO: a shared key that cannot be computed when the
  session starts (at a change of keys it is modelled).
* lwIP's glue, SNTP and NVS provisioning: I/O.
