---------------------------- MODULE DerpClient ----------------------------
(***************************************************************************)
(* The relay connection of derp_client.c and its write lock (derp_wlock.h) *)
(* under the tasks that use it: the supervisor (derp_supervised_task)      *)
(* connects, reads, answers pings and is the only one that closes; wg_tx   *)
(* relays frames with derp_client_send_packet / _try_send_packet.  A       *)
(* waiting write may sit on a stalled connection; a close drops            *)
(* `connected`, gives the writer a grace, cuts the socket and then waits   *)
(* for the lock.                                                           *)
(***************************************************************************)
EXTENDS Integers

CONSTANTS
  Relays,      \* tasks that relay frames (wg_tx)
  Sup,         \* the supervisor task
  MaxIdle,     \* DERP_MAX_IDLE_POLLS
  FrameParts,  \* write calls one frame may take
  MaxGen,      \* bound: connects
  MaxMoves     \* bound: home relay moves

Tasks == Relays \cup {Sup}
Free == "free"
NULL == 0

ASSUME DerpAssumption ==
  /\ Free \notin Tasks /\ Sup \notin Relays
  /\ MaxIdle \in Nat \ {0} /\ FrameParts \in Nat \ {0}

VARIABLES
  lock,        \* holder of wl.lock
  connected,   \* wl.connected
  gen,         \* wl.gen
  tls,         \* c->tls: NULL or the number of the connection
  conns,       \* connections created so far
  cut,         \* the socket of c->tls was shut down
  torn,        \* a frame failed on the stream of c->tls
  abort_reads, \* c->abort_reads
  ip_changed,  \* our address changed since the connect began
  wr,          \* per task: its send_frame
  sup,         \* the supervisor's place, and where its close returns to
  host_gen,    \* s_derp_host_gen
  conn_gen     \* s_derp_conn_gen

vars == <<lock, connected, gen, tls, conns, cut, torn, abort_reads, ip_changed,
          wr, sup, host_gen, conn_gen>>

conn == <<tls, conns, cut>>
reader == <<abort_reads, ip_changed>>

\* `out` is the connection the frame set out on, `ctx` the one it writes to.
NoFrame == [pc |-> "idle", gen |-> 0, out |-> NULL, ctx |-> NULL,
            no_wait |-> FALSE, left |-> 0, idle |-> 0]

Init ==
  /\ lock = Free
  /\ connected = FALSE
  /\ gen = 0
  /\ tls = NULL /\ conns = 0 /\ cut = FALSE /\ torn = FALSE
  /\ abort_reads = FALSE /\ ip_changed = FALSE
  /\ wr = [w \in Tasks |-> NoFrame]
  /\ sup = [pc |-> "connect", ret |-> "connect"]
  /\ host_gen = 0 /\ conn_gen = 0

-----------------------------------------------------------------------------
(* A frame: send_frame.                                                    *)

Step(w, pc) == wr' = [wr EXCEPT ![w].pc = pc]

\* send_frame returns; the supervisor's pong ends the run loop on an error,
\* its DISCO pong does not.
Return(w, ok) ==
  /\ wr' = [wr EXCEPT ![w] = NoFrame]
  /\ sup' = IF w # Sup THEN sup
            ELSE IF sup.pc = "disco" THEN [sup EXCEPT !.pc = "event"]
            ELSE [sup EXCEPT !.pc = IF ok THEN "read" ELSE "close"]

MaySend(w) == wr[w].pc = "idle" /\ (w = Sup => sup.pc \in {"pong", "disco"})

(* derp_wl_admits, the generation ...                                      *)
Send(w, no_wait) ==
  /\ MaySend(w)
  /\ w = Sup => ~no_wait
  /\ wr' = [wr EXCEPT ![w] = [NoFrame EXCEPT !.pc = "admits", !.gen = gen,
                                             !.no_wait = no_wait,
                                             !.left = FrameParts]]
  /\ UNCHANGED <<lock, connected, gen, conn, torn, reader, sup, host_gen, conn_gen>>

(* ... and then `connected`.                                               *)
Admits(w) ==
  /\ wr[w].pc = "admits"
  /\ IF connected
     THEN /\ wr' = [wr EXCEPT ![w].pc = "acquire", ![w].out = tls]
          /\ UNCHANGED sup
     ELSE Return(w, FALSE)
  /\ UNCHANGED <<lock, connected, gen, conn, torn, reader, host_gen, conn_gen>>

(* derp_wl_acquire: the lock is taken ...                                  *)
Take(w) ==
  /\ wr[w].pc = "acquire"
  /\ lock = Free
  /\ lock' = w
  /\ Step(w, "up")
  /\ UNCHANGED <<connected, gen, conn, torn, reader, sup, host_gen, conn_gen>>

(* ... or a slice passes without it: the wait goes on unless the           *)
(* connection is closing or replaced, or the caller does not wait.         *)
GiveUpWait(w) ==
  /\ wr[w].pc = "acquire"
  /\ lock # Free
  /\ ~connected \/ gen # wr[w].gen \/ wr[w].no_wait
  /\ Return(w, FALSE)
  /\ UNCHANGED <<lock, connected, gen, conn, torn, reader, host_gen, conn_gen>>

GiveBack(w) ==
  /\ lock' = Free
  /\ Return(w, FALSE)

(* With the lock: derp_wl_up, then derp_wl_gen.                            *)
Up(w) ==
  /\ wr[w].pc = "up"
  /\ IF connected THEN Step(w, "gen") /\ UNCHANGED <<lock, sup>> ELSE GiveBack(w)
  /\ UNCHANGED <<connected, gen, conn, torn, reader, host_gen, conn_gen>>

\* Mutant: the generation is not compared.
SameGenUnchecked(w) ==
  /\ wr[w].pc = "gen"
  /\ Step(w, "poll")
  /\ UNCHANGED <<lock, connected, gen, conn, torn, reader, sup, host_gen, conn_gen>>

SameGen(w) ==
  /\ wr[w].pc = "gen"
  /\ IF gen = wr[w].gen
     THEN Step(w, IF wr[w].no_wait THEN "writable" ELSE "poll") /\ UNCHANGED <<lock, sup>>
     ELSE GiveBack(w)
  /\ UNCHANGED <<connected, gen, conn, torn, reader, host_gen, conn_gen>>

(* socket_writable_now, for a try.                                         *)
Writable(w) ==
  /\ wr[w].pc = "writable"
  /\ \/ Step(w, "poll") /\ UNCHANGED <<lock, sup>>
     \/ GiveBack(w)
  /\ UNCHANGED <<connected, gen, conn, torn, reader, host_gen, conn_gen>>

(* derp_tls_write: every write call first asks derp_wl_may_write.          *)
Poll(w) ==
  /\ wr[w].pc = "poll"
  /\ IF connected
     THEN /\ wr' = [wr EXCEPT ![w].pc = "call", ![w].ctx = tls]
          /\ UNCHANGED torn
     ELSE Step(w, "failed") /\ torn' = TRUE
  /\ UNCHANGED <<lock, connected, gen, conn, reader, sup, host_gen, conn_gen>>

(* The write call returns: a part went out, SO_SNDTIMEO passed (counted by *)
(* tls_io_write_full), or an error - at once on a socket that was cut.     *)
CallPart(w) ==
  /\ wr[w].pc = "call" /\ ~cut
  /\ wr' = [wr EXCEPT ![w].left = @ - 1, ![w].idle = 0,
                      ![w].pc = IF wr[w].left = 1 THEN "sent" ELSE "poll"]
  /\ UNCHANGED <<lock, connected, gen, conn, torn, reader, sup, host_gen, conn_gen>>

CallFails(w) ==
  /\ wr[w].pc = "call"
  /\ \/ /\ ~cut /\ wr[w].idle + 1 < MaxIdle
        /\ wr' = [wr EXCEPT ![w].idle = @ + 1, ![w].pc = "poll"]
        /\ UNCHANGED torn
     \/ Step(w, "failed") /\ torn' = TRUE
  /\ UNCHANGED <<lock, connected, gen, conn, reader, sup, host_gen, conn_gen>>

(* frame_failed_locked: derp_wl_write_failed's load ...                    *)
WriteFailed(w) ==
  /\ wr[w].pc = "failed"
  /\ Step(w, IF connected THEN "drop" ELSE "lost")
  /\ UNCHANGED <<lock, connected, gen, conn, torn, reader, sup, host_gen, conn_gen>>

(* ... its store ...                                                       *)
WriteFailedDrop(w) ==
  /\ wr[w].pc = "drop"
  /\ connected' = FALSE
  /\ Step(w, "abort")
  /\ UNCHANGED <<lock, gen, conn, torn, reader, sup, host_gen, conn_gen>>

\* Mutant: the reader is not told.
AbortReadsForgotten(w) ==
  /\ wr[w].pc = "abort"
  /\ Step(w, "lost")
  /\ UNCHANGED <<lock, connected, gen, conn, torn, reader, sup, host_gen, conn_gen>>

(* ... and the reader is told to leave.                                    *)
AbortReads(w) ==
  /\ wr[w].pc = "abort"
  /\ abort_reads' = TRUE
  /\ Step(w, "lost")
  /\ UNCHANGED <<lock, connected, gen, conn, torn, ip_changed, sup, host_gen, conn_gen>>

(* derp_wl_give after the frame, whole or lost.                            *)
Give(w) ==
  /\ wr[w].pc \in {"sent", "lost"}
  /\ lock' = Free
  /\ Return(w, wr[w].pc = "sent")
  /\ UNCHANGED <<connected, gen, conn, torn, reader, host_gen, conn_gen>>

-----------------------------------------------------------------------------
(* The supervisor: derp_supervised_task, on derp_client_connect_login,     *)
(* derp_run_loop and derp_client_close.                                    *)

SupAt(pc) == sup.pc = pc /\ wr[Sup].pc = "idle"
SupTo(pc) == sup' = [sup EXCEPT !.pc = pc]
CloseThen(ret) == sup' = [pc |-> "close", ret |-> ret]

(* home_derp_get: host and generation in one snapshot; then                *)
(* derp_wl_new_conn's first store ...                                      *)
Connect ==
  /\ SupAt("connect")
  /\ gen < MaxGen
  /\ conn_gen' = host_gen
  /\ connected' = FALSE
  /\ SupTo("new_conn")
  /\ UNCHANGED <<lock, gen, conn, torn, reader, wr, host_gen>>

(* ... and its second.                                                     *)
NewConn ==
  /\ SupAt("new_conn")
  /\ gen' = gen + 1
  /\ SupTo("reset")
  /\ UNCHANGED <<lock, connected, conn, torn, reader, wr, host_gen, conn_gen>>

(* The rest of the per-connect state; the DERP map's address is tried      *)
(* first if there is a usable one.                                         *)
Reset ==
  /\ SupAt("reset")
  /\ tls' = NULL
  /\ abort_reads' = FALSE /\ ip_changed' = FALSE
  /\ \E by \in {"addr", "name"} : SupTo(by)
  /\ UNCHANGED <<lock, connected, gen, conns, cut, torn, wr, host_gen, conn_gen>>

\* Where connect_on's failure leads: from the address to the name, from the
\* name to the supervisor's own close.
AfterFailure(by) == IF by = "addr" THEN "name" ELSE "failed"

(* connect_on, open_tls: esp_tls_init may fail; a dial that fails leaves   *)
(* the half-open connection to the close.                                  *)
OpenTls(by) ==
  /\ SupAt(by)
  /\ \/ CloseThen(AfterFailure(by)) /\ UNCHANGED <<conn, torn>>
     \/ /\ conns' = conns + 1 /\ tls' = conns + 1
        /\ cut' = FALSE /\ torn' = FALSE
        /\ \/ CloseThen(AfterFailure(by))
           \/ sup' = [pc |-> "login", ret |-> AfterFailure(by)]
  /\ UNCHANGED <<lock, connected, gen, reader, wr, host_gen, conn_gen>>

(* connect_on, login: derp_wl_set_up, or closed.                           *)
Login ==
  /\ SupAt("login")
  /\ \/ connected' = TRUE /\ SupTo("run")
     \/ CloseThen(sup.ret) /\ UNCHANGED connected
  /\ UNCHANGED <<lock, gen, conn, torn, reader, wr, host_gen, conn_gen>>

(* The connect failed: the supervisor closes once more, and sleeps.        *)
ConnectFailed ==
  /\ SupAt("failed")
  /\ CloseThen("connect")
  /\ UNCHANGED <<lock, connected, gen, conn, torn, reader, wr, host_gen, conn_gen>>

(* derp_client_run's entry check.                                          *)
Run ==
  /\ SupAt("run")
  /\ IF connected THEN SupTo("read") ELSE CloseThen("connect")
  /\ UNCHANGED <<lock, connected, gen, conn, torn, reader, wr, host_gen, conn_gen>>

Leave == CloseThen("connect")

(* derp_tls_read with the abort flag up.                                   *)
ReadAborted ==
  /\ SupAt("read")
  /\ abort_reads
  /\ Leave
  /\ UNCHANGED <<lock, connected, gen, conn, torn, reader, wr, host_gen, conn_gen>>

(* The stream ends: FIN, error, idle budget spent, a malformed or oversize *)
(* frame, or the server restarting.                                        *)
ReadEnds ==
  /\ SupAt("read")
  /\ Leave
  /\ UNCHANGED <<lock, connected, gen, conn, torn, reader, wr, host_gen, conn_gen>>

(* A ping: the pong is a frame of the supervisor's.                        *)
ReadPing ==
  /\ SupAt("read") /\ ~abort_reads
  /\ sup' = [pc |-> "pong", ret |-> "connect"]
  /\ UNCHANGED <<lock, connected, gen, conn, torn, reader, wr, host_gen, conn_gen>>

(* Any frame derp_sup_event_cb sees; a relayed DISCO ping is answered      *)
(* through the relay before the callback ends.                             *)
ReadEvent ==
  /\ SupAt("read") /\ ~abort_reads
  /\ \E to \in {"disco", "event"} : SupTo(to)
  /\ UNCHANGED <<lock, connected, gen, conn, torn, reader, wr, host_gen, conn_gen>>

(* The callback's end: the home relay moved since this connect.            *)
EventEnd ==
  /\ SupAt("event")
  /\ IF host_gen # conn_gen THEN Leave ELSE SupTo("read")
  /\ UNCHANGED <<lock, connected, gen, conn, torn, reader, wr, host_gen, conn_gen>>

(* derp_wl_close_lock: no new frames; the lock within the grace, ...       *)
CloseDrop ==
  /\ SupAt("close")
  /\ connected' = FALSE
  /\ SupTo("grace")
  /\ UNCHANGED <<lock, gen, conn, torn, reader, wr, host_gen, conn_gen>>

(* ... or the grace passes: the socket is shut down (which may be refused) *)
CloseCut ==
  /\ SupAt("grace")
  /\ lock # Free
  /\ cut' \in IF tls = NULL THEN {cut} ELSE {cut, TRUE}
  /\ SupTo("wait")
  /\ UNCHANGED <<lock, connected, gen, tls, conns, torn, reader, wr, host_gen, conn_gen>>

(* ... and the close waits on, for as long as it takes.                    *)
CloseTake ==
  /\ SupAt("grace") \/ SupAt("wait")
  /\ lock = Free
  /\ lock' = Sup
  /\ SupTo("destroy")
  /\ UNCHANGED <<connected, gen, conn, torn, reader, wr, host_gen, conn_gen>>

(* esp_tls_conn_destroy under the lock, then the lock is given back.       *)
CloseDestroy ==
  /\ SupAt("destroy")
  /\ tls' = NULL
  /\ cut' = FALSE /\ torn' = FALSE
  /\ SupTo("give")
  /\ UNCHANGED <<lock, connected, gen, conns, reader, wr, host_gen, conn_gen>>

CloseGive ==
  /\ SupAt("give")
  /\ lock' = Free
  /\ SupTo(sup.ret)
  /\ UNCHANGED <<connected, gen, conn, torn, reader, wr, host_gen, conn_gen>>

(* update_derp_host_from_netmap, on the long-poll task.                    *)
HostMoved ==
  /\ host_gen < MaxMoves
  /\ host_gen' = host_gen + 1
  /\ UNCHANGED <<lock, connected, gen, conn, torn, reader, wr, sup, conn_gen>>

(* stun_reprobe_on_got_ip with ip_changed, on the event task.              *)
IpChanged ==
  /\ abort_reads' = TRUE /\ ip_changed' = TRUE
  /\ UNCHANGED <<lock, connected, gen, conn, torn, wr, sup, host_gen, conn_gen>>

-----------------------------------------------------------------------------
Frame(w) ==
  \/ Admits(w) \/ Take(w) \/ GiveUpWait(w) \/ Up(w) \/ SameGen(w) \/ Writable(w)
  \/ Poll(w) \/ CallPart(w) \/ CallFails(w)
  \/ WriteFailed(w) \/ WriteFailedDrop(w) \/ AbortReads(w) \/ Give(w)

Close == CloseDrop \/ CloseCut \/ CloseTake \/ CloseDestroy \/ CloseGive

Supervise ==
  \/ Connect \/ NewConn \/ Reset \/ OpenTls("addr") \/ OpenTls("name") \/ Login
  \/ ConnectFailed \/ Run \/ EventEnd \/ Close

Next ==
  \/ \E w \in Tasks : Frame(w) \/ \E no_wait \in BOOLEAN : Send(w, no_wait)
  \/ Supervise
  \/ ReadAborted \/ ReadEnds \/ ReadPing \/ ReadEvent
  \/ HostMoved \/ IpChanged

Spec == Init /\ [][Next]_vars

(* Every task runs until it blocks, and a blocked write call returns after *)
(* SO_SNDTIMEO at the latest; a poll of the reader returns too.  The       *)
(* server's keepalives reach the reader again and again, or the idle       *)
(* budget ends the stream.  A give wakes the supervisor's wait, which      *)
(* outranks wg_tx (tskIDLE_PRIORITY + 3 against + 2, on two cores): it     *)
(* does not lose the lock to wg_tx for ever.                               *)
Fairness ==
  /\ \A w \in Tasks : WF_vars(Frame(w))
  /\ WF_vars(Send(Sup, FALSE))
  /\ SF_vars(Take(Sup))
  /\ WF_vars(Supervise)
  /\ WF_vars(ReadAborted)
  /\ SF_vars(ReadEvent \/ ReadEnds)

FairSpec == Spec /\ Fairness

-----------------------------------------------------------------------------
Conns == 0 .. 2 * MaxGen
FramePCs == {"idle", "admits", "acquire", "up", "gen", "writable", "poll", "call",
             "failed", "drop", "abort", "sent", "lost"}
SupPCs == {"connect", "new_conn", "reset", "addr", "name", "login", "failed", "run",
           "read", "pong", "disco", "event", "close", "grace", "wait", "destroy", "give"}

TypeOK ==
  /\ lock \in Tasks \cup {Free}
  /\ connected \in BOOLEAN /\ gen \in 0 .. MaxGen
  /\ tls \in Conns /\ conns \in Conns
  /\ cut \in BOOLEAN /\ torn \in BOOLEAN /\ abort_reads \in BOOLEAN
  /\ ip_changed \in BOOLEAN
  /\ wr \in [Tasks -> [pc : FramePCs, gen : 0 .. MaxGen, out : Conns, ctx : Conns,
                       no_wait : BOOLEAN, left : 0 .. FrameParts, idle : 0 .. MaxIdle - 1]]
  /\ sup \in [pc : SupPCs, ret : {"connect", "name", "failed"}]
  /\ host_gen \in 0 .. MaxMoves /\ conn_gen \in 0 .. MaxMoves

InCall(w) == wr[w].pc = "call"

(* derp_client_close: the TLS context a writer is blocked in is never      *)
(* destroyed under it, however the grace, the cut and a refused shutdown   *)
(* fall.                                                                   *)
NoUseAfterFree == \A w \in Tasks : InCall(w) => wr[w].ctx # NULL /\ wr[w].ctx = tls

(* derp_wl_admits / derp_wl_acquire: a frame that set out on one           *)
(* connection is never written on the next one.                            *)
FrameOnItsConn == \A w \in Tasks : InCall(w) => wr[w].ctx = wr[w].out

(* derp_wl_write_failed: nothing is written on a stream a failed frame     *)
(* left torn - mbedtls would flush the old record's tail and report the    *)
(* new frame as sent.                                                      *)
NothingAfterFailure == \A w \in Tasks : InCall(w) => ~torn

(* frame_failed_locked against the reset in derp_client_connect_login: a   *)
(* late abort_reads never reaches a connection no frame failed on, unless  *)
(* our address changed since.                                              *)
AbortReadsOwn ==
  abort_reads /\ sup.pc \in {"login", "run", "read", "pong", "disco", "event"} =>
    torn \/ ip_changed

(* derp_wl_close_lock always gets the lock: no close lasts for ever.       *)
CloseEnds == []<>(sup.pc \notin {"close", "grace", "wait", "destroy", "give"})

(* A torn stream is given up: the reader leaves and closes it.             *)
TornIsClosed == []<>~torn

Reading == sup.pc \in {"read", "pong", "disco", "event"}

(* stun_reprobe_on_got_ip: a connection dialled from an address we no      *)
(* longer have is left, even when the change came while it was dialled ... *)
OldAddressLeft == []<>~(Reading /\ ip_changed)

(* ... and a home relay that moved, even during the connect, is followed.  *)
StaleRelayLeft == []<>~(Reading /\ host_gen # conn_gen)

(* The supervisor never reads on for ever on a connection that is outdated *)
(* on either account.                                                      *)
OutdatedLeft == OldAddressLeft /\ StaleRelayLeft

(* What a frame on the relay connection can count on, whoever shares it:   *)
(* its context lives, is its own and is whole, and the reader is not torn  *)
(* away from a sound one.                                                  *)
ConnectionSound ==
  NoUseAfterFree /\ FrameOnItsConn /\ NothingAfterFailure /\ AbortReadsOwn

(* A close ends, and a torn or outdated connection is left.                *)
ConnectionLeft == CloseEnds /\ TornIsClosed /\ OutdatedLeft
=============================================================================
