----------------------------- MODULE LinkProofs -----------------------------
(***************************************************************************)
(* Getting onto the network and staying there: the boot probe's join       *)
(* (JoinSound), the re-probe a got-ip event asks for (MoveIsProbed), the   *)
(* Wi-Fi station's retries and its channel hint (StationSound), the        *)
(* hand-over of the derived Wi-Fi key (PskHandedOver) and the stamps of    *)
(* the handshakes (StampsIncrease), each for every value of its constants. *)
(* The components share no state; each has its own inductive invariant.    *)
(***************************************************************************)
EXTENDS StunReprobe, StunBoot, WifiStation, WifiPsk, TaiFloor,
        SequenceTheorems, TLAPS

-----------------------------------------------------------------------------
(* The boot probe.  Of the two tasks only stun_boot_state_t tells who was  *)
(* first, so BootInv says what each of its values means for both:          *)
(* BootReading (the mutex is held across a read, so a probe that reads was *)
(* not given up on), BootStarted (the semaphore exists exactly while there *)
(* is a probe to wait for) and BootEnded (who deletes it).                 *)

BootStates == {"IDLE", "RESOLVING", "ON_SOCKET", "DONE", "ABANDONED"}
BootPCs == {"none", "pick", "claim", "send", "select", "lock", "read", "unlock",
            "finish", "give", "delete", "ended"}
MainPCs == {"start", "inline", "register", "wait", "give_up", "take", "delete", "check",
            "joined"}
PastJoin == {"check", "joined"}
BootRunning == BootPCs \ {"none", "ended"}

BootTypes ==
  /\ s_stun_boot \in BootStates /\ boot_probe \in BootPCs /\ main \in MainPCs
  /\ s_stun_boot_mx \in {Free, "probe"} /\ done \in {"none", "empty", "full", "freed"}
  /\ came \in [{"answer", "stray"} -> Int]

BootStarted ==
  /\ main = "start" => boot_probe = "none"
  /\ (boot_probe = "none") = (done = "none")
  /\ (boot_probe = "none") = (s_stun_boot = "IDLE")
  /\ main \in {"inline", "wait", "give_up", "take", "delete"} => boot_probe # "none"

BootReading ==
  /\ (boot_probe \in {"read", "unlock"}) = (s_stun_boot_mx = "probe")
  /\ boot_probe = "read" => s_stun_boot = "ON_SOCKET"
  /\ s_stun_boot = "ABANDONED" => main \in PastJoin
  /\ main \in PastJoin => s_stun_boot \in {"IDLE", "DONE", "ABANDONED"}
  /\ wg_rx => main = "joined"

BootEnded ==
  /\ boot_probe \in BootRunning => done = "empty" /\ main # "delete"
  /\ boot_probe \in BootRunning /\ main \in PastJoin => s_stun_boot = "ABANDONED"
  /\ boot_probe = "give" => s_stun_boot = "DONE"
  /\ boot_probe = "delete" => s_stun_boot = "ABANDONED"
  /\ main \in {"take", "delete"} => s_stun_boot = "DONE"
  /\ boot_probe = "ended" =>
       /\ s_stun_boot \in {"DONE", "ABANDONED"}
       /\ done = IF main \in PastJoin THEN "freed" ELSE IF main = "delete" THEN "empty" ELSE "full"

BootInv == BootTypes /\ BootStarted /\ BootReading /\ BootEnded /\ JoinDecides
-----------------------------------------------------------------------------
(* Every step of stun_boot_run, of main up to the join's return, of wg_rx  *)
(* and of the network preserves BootInv.                                   *)
LEMMA BootStep == ASSUME BootInv, [BootNext]_bootVars PROVE BootInv'
<1> USE DEF BootInv, BootTypes, BootStarted, BootReading, BootEnded, JoinDecides,
            BootStates, BootPCs, MainPCs, PastJoin, BootRunning, Free, prober, joiner, socket
<1>1. CASE ServerPick
  BY <1>1 DEF ServerPick, BootProbeTo, ProbeFails
<1>2. CASE ClaimSocket
  BY <1>2 DEF ClaimSocket, stun_boot_claim, BootProbeTo, ProbeFails
<1>3. CASE BootSend
  BY <1>3 DEF BootSend
<1>4. CASE NoResend
  BY <1>4 DEF NoResend, BootProbeTo
<1>5. CASE Deadline
  BY <1>5 DEF Deadline, ProbeFails
<1>6. CASE SelectSlice
  BY <1>6 DEF SelectSlice, BootProbeTo
<1>7. CASE SelectFails
  BY <1>7 DEF SelectFails, ProbeFails
<1>8. CASE SelectReadable
  BY <1>8 DEF SelectReadable, BootProbeTo
<1>9. CASE LockToRead
  BY <1>9 DEF LockToRead, stun_boot_may_read, BootProbeTo
<1>10. CASE ReadOther
  BY <1>10 DEF ReadOther, Recv, BootProbeTo
<1>11. CASE ReadAnswer
  BY <1>11 DEF ReadAnswer, Recv, stun_boot_publish
<1>12. CASE UnlockAndLeave
  BY <1>12 DEF UnlockAndLeave, BootProbeTo
<1>13. CASE Finish
  BY <1>13 DEF Finish, stun_boot_finish, BootProbeTo
<1>14. CASE ProbeDelete
  BY <1>14 DEF ProbeDelete, BootProbeTo
<1>15. CASE ProbeGive
  BY <1>15 DEF ProbeGive, BootProbeTo
<1>16. ASSUME NEW spawned \in BOOLEAN, ProbeStart(spawned) PROVE BootInv'
  BY <1>16 DEF ProbeStart
<1>17. CASE ProbeNoMem
  BY <1>17 DEF ProbeNoMem
<1>18. CASE InlineDone
  BY <1>18 DEF InlineDone
<1>19. CASE Join
  BY <1>19 DEF Join, MainTo
<1>20. CASE WaitTakes
  BY <1>20 DEF WaitTakes
<1>21. CASE WaitRunsOut
  BY <1>21 DEF WaitRunsOut, MainTo
<1>22. CASE GiveUp
  BY <1>22 DEF GiveUp, stun_boot_give_up
<1>23. CASE TakeForever
  BY <1>23 DEF TakeForever, MainTo
<1>24. CASE MainDelete
  BY <1>24 DEF MainDelete, MainTo
<1>25. CASE CheckResult
  BY <1>25 DEF CheckResult
<1>26. CASE StartWgRx
  BY <1>26 DEF StartWgRx
<1>27. CASE WgRxReads
  BY <1>27 DEF WgRxReads, Recv
<1>28. ASSUME NEW kind \in DOMAIN came, Arrive(kind) PROVE BootInv'
  BY <1>28 DEF Arrive
<1>29. CASE UNCHANGED bootVars
  BY <1>29 DEF bootVars
<1> QED
  BY <1>1, <1>2, <1>3, <1>4, <1>5, <1>6, <1>7, <1>8, <1>9, <1>10, <1>11, <1>12,
      <1>13, <1>14, <1>15, <1>16, <1>17, <1>18, <1>19, <1>20, <1>21, <1>22, <1>23,
      <1>24, <1>25, <1>26, <1>27, <1>28, <1>29, ZenonT(40) DEF BootNext, BootProbeStep, MainStep

(* While BootInv holds, only wg_rx takes a datagram off the socket once    *)
(* stun_boot_join returned.                                                *)
LEMMA ReaderStep ==
  ASSUME BootInv, BootNext, main = "joined", inbox' # inbox
  PROVE  came' # came \/ (wg_rx /\ UNCHANGED prober)
<1> USE DEF BootInv, BootTypes, BootReading, BootStates, BootPCs, MainPCs, PastJoin, Free,
            prober, joiner, socket
<1>1. CASE BootProbeStep
  BY <1>1, ZenonT(40) DEF BootProbeStep, ServerPick, ClaimSocket, BootSend, NoResend,
     Deadline, SelectSlice,
              SelectFails, SelectReadable, LockToRead, ReadOther, ReadAnswer, UnlockAndLeave,
              Finish, ProbeDelete, ProbeGive
<1>2. CASE MainStep
  BY <1>2 DEF MainStep, ProbeStart, ProbeNoMem, InlineDone, Join, WaitTakes, WaitRunsOut,
              GiveUp, TakeForever, MainDelete, CheckResult
<1>3. CASE StartWgRx
  BY <1>3 DEF StartWgRx
<1>4. CASE WgRxReads
  BY <1>4 DEF WgRxReads
<1>5. ASSUME NEW kind \in DOMAIN came, Arrive(kind) PROVE came' # came
  BY <1>5 DEF Arrive
<1> QED
  BY <1>1, <1>2, <1>3, <1>4, <1>5, SMTT(30) DEF BootNext

(* However the deadline, the answer, the join and its timeout interleave:  *)
(* once the join returned the probe reads no datagram and publishes        *)
(* nothing, and the completion semaphore is alive where it is used and     *)
(* deleted once, by main or by the abandoned probe.                        *)
THEOREM BootJoinSound == BootSpec => JoinSound
<1>1. BootInit => BootInv
  BY DEF BootInit, NoDatagram, BootInv, BootTypes, BootStarted, BootReading, BootEnded,
         JoinDecides, BootStates, BootPCs, MainPCs, PastJoin, BootRunning, Free
<1>2. BootInv /\ [BootNext]_bootVars => BootInv'
  BY BootStep
<1>3. BootInv => JoinDecides /\ SemaphoreOwned
  BY DEF BootInv, BootTypes, BootStarted, BootEnded, SemaphoreOwned, SemaphoreAlive,
         SemaphoreFreed, BootPCs, MainPCs, PastJoin, BootRunning
<1>4. BootInv /\ [BootNext]_bootVars =>
        [main = "joined" /\ inbox' # inbox =>
           came' # came \/ (wg_rx /\ UNCHANGED prober)]_bootVars
  BY ReaderStep
<1> QED
  BY <1>1, <1>2, <1>3, <1>4, PTL DEF BootSpec, JoinSound, OneReader

-----------------------------------------------------------------------------
(* The re-probe.                                                           *)

\* The re-probe's state keeps its fields.
ProbeShape ==
  probe = [pc |-> probe.pc, n |-> probe.n, out |-> probe.out, since |-> probe.since]

ReprobeInv == ProbeShape /\ MoveIsProbed

(* A step of the telemetry task inside a probe does not touch what the     *)
(* probe was for; only a poll that sets out takes the request.             *)
LEMMA ReprobeStep == ASSUME ReprobeInv, [ReprobeNext]_reprobeVars PROVE ReprobeInv'
<1> USE DEF ReprobeInv, ProbeShape, MoveIsProbed, outside, app
<1>1. CASE ReprobePoll
  BY <1>1, ZenonT(40) DEF ReprobePoll
<1>2. CASE ProbeStep
  BY <1>2, ZenonT(40) DEF ProbeStep, ProbeTo, PickFails, NewTxid, ClearResult, Drain, Arm,
     SendRequest,
              SendFails, Signalled, TimesOut, CopyResult, Disarm, Commit, PushAsync
<1>3. CASE HandlerStep
  BY <1>3 DEF HandlerStep, CheckInFlight, MatchTxid, WriteResult, SetValid, Give
<1>4. ASSUME NEW a \in Answers, NEW again \in BOOLEAN, Receive(a, again) PROVE ReprobeInv'
  BY <1>4 DEF Receive
<1>5. ASSUME NEW e \in Endpoints, GotIp(e) PROVE ReprobeInv'
  BY <1>5 DEF GotIp
<1>6. CASE PushTake \/ PushRead
  BY <1>6 DEF PushTake, PushRead
<1>7. CASE UNCHANGED reprobeVars
  BY <1>7 DEF reprobeVars
<1>8. QED
  BY <1>1, <1>2, <1>3, <1>4, <1>5, <1>6, <1>7 DEF ReprobeNext

(* However many addresses the device gets and wherever a probe stands when *)
(* one comes (on_sta_got_ip): a probe set out after the last, or one is    *)
(* still asked for.                                                        *)
THEOREM MoveAlwaysProbed == ReprobeSpec => []MoveIsProbed
<1>1. ReprobeInit => ReprobeInv
  BY DEF ReprobeInit, ReprobeInv, ProbeShape, MoveIsProbed
<1>2. ReprobeInv /\ [ReprobeNext]_reprobeVars => ReprobeInv'
  BY ReprobeStep
<1>3. ReprobeInv => MoveIsProbed
  BY DEF ReprobeInv
<1>4. QED
  BY <1>1, <1>2, <1>3, PTL DEF ReprobeSpec

-----------------------------------------------------------------------------
(* The station.  An attempt, its outcome and the events that tell of it    *)
(* follow each other: QueueInv says which events may wait for the handler  *)
(* in each state of the driver, and that the timer rests until the last    *)
(* of them is handled.  So one attempt at most skips the backoff for each  *)
(* time fast_spent is set, apart from those no timer could take (Paced).   *)

EvStart == [ev |-> "start"]
EvIp == [ev |-> "ip"]
Joined == [ev : {"connected"}, channel : Channels]
Left == [ev : {"disconnected"}, reason : {"4way", "other"}]

UpQueues == {<<>>, <<EvIp>>} \cup {<<c, EvIp>> : c \in Joined}
DownQueues == {<<d>> : d \in Left} \cup {<<EvIp, d>> : d \in Left}
                \cup {<<c, EvIp, d>> : c \in Joined, d \in Left}

QueueInv ==
  /\ sta.st \in {"off", "connecting"} => evq = <<>>
  /\ sta.st = "up" => evq \in UpQueues
  /\ sta.st = "idle" => evq \in {<<>>, <<EvStart>>} \cup DownQueues
  /\ sta.st # "idle" \/ evq # <<>> => recon = "off"

ApRecs == [channel : Channels \cup {0, -1}, ssid : Networks \cup {0}]
Boots == [pc : {"off", "wait", "failed", "register", "run"}, bit : BOOLEAN,
          ps : {"none", "steady"}, timer : BOOLEAN]
Seens == [unpaced : Nat, untimed : Nat, owed : BOOLEAN, stored : BOOLEAN, refused : BOOLEAN]

WifiTypes ==
  /\ net \in [ssid : Networks, channel : Channels]
  /\ conn \in [ap : ApRecs, hint : BOOLEAN, joined : BOOLEAN, fast_spent : BOOLEAN]
  /\ nxt \in [reapply : BOOLEAN, channel : Channels \cup {0, -1}]
  /\ sta \in [st : {"off", "idle", "connecting", "up"}, black : BOOLEAN]
  /\ recon \in {"off", "armed", "now", "direct", "connect"}
  /\ rec \in [rtc : ApRecs, nvs : ApRecs, mirror : ApRecs]
  /\ boot \in Boots
  /\ seen \in Seens

\* An attempt without a backoff, made or about to be made, is the one of its
\* streak that fast_spent stands for, or one that no timer could take.
Paced ==
  /\ ~conn.fast_spent => seen.unpaced <= seen.untimed /\ recon # "now"
  /\ recon = "now" => seen.unpaced <= seen.untimed
  /\ seen.unpaced <= seen.untimed + 1
  /\ sta.st = "off" => seen.unpaced <= seen.untimed /\ ~seen.owed
  /\ boot.pc = "off" <=> sta.st = "off"

ClearOwed == seen.owed = nxt.reapply

HintKept ==
  /\ conn.hint => conn.ap.ssid = net.ssid /\ conn.ap.channel \in Channels
  /\ seen.stored /\ rec.mirror # NoAp => rec.nvs = rec.mirror

WifiInv == WifiTypes /\ QueueInv /\ Paced /\ ClearOwed /\ HintKept

(* Appending to a pair.                                                    *)
LEMMA AppendThird == ASSUME NEW a, NEW b, NEW c PROVE Append(<<a, b>>, c) = <<a, b, c>>
<1> DEFINE S == {a, b, c}
           t == Append(<<a, b>>, c)
<1>1. <<a, b>> \in Seq(S) /\ Len(<<a, b>>) = 2 /\ <<a, b>>[1] = a /\ <<a, b>>[2] = b
  OBVIOUS
<1>2. t \in Seq(S) /\ Len(t) = 3 /\ t[3] = c /\ \A i \in 1 .. 2 : t[i] = <<a, b>>[i]
  BY <1>1, AppendProperties
<1> HIDE DEF t
<1>3. /\ <<a, b, c>> \in Seq(S) /\ Len(<<a, b, c>>) = 3
      /\ <<a, b, c>>[1] = a /\ <<a, b, c>>[2] = b /\ <<a, b, c>>[3] = c
  OBVIOUS
<1>4. \A i \in 1 .. Len(t) : t[i] = <<a, b, c>>[i]
  BY <1>1, <1>2, <1>3
<1>5. t = <<a, b, c>>
  BY <1>2, <1>3, <1>4, SeqEqual
<1>6. QED BY <1>5 DEF t

(* Appending to a sequence of one.                                         *)
LEMMA AppendSecond == ASSUME NEW a, NEW b PROVE Append(<<a>>, b) = <<a, b>>
<1> DEFINE S == {a, b}
           t == Append(<<a>>, b)
<1>1. <<a>> \in Seq(S) /\ Len(<<a>>) = 1 /\ <<a>>[1] = a
  OBVIOUS
<1>2. t \in Seq(S) /\ Len(t) = 2 /\ t[2] = b /\ \A i \in 1 .. 1 : t[i] = <<a>>[i]
  BY <1>1, AppendProperties
<1> HIDE DEF t
<1>3. <<a, b>> \in Seq(S) /\ Len(<<a, b>>) = 2 /\ <<a, b>>[1] = a /\ <<a, b>>[2] = b
  OBVIOUS
<1>4. \A i \in 1 .. Len(t) : t[i] = <<a, b>>[i]
  BY <1>1, <1>2, <1>3
<1>5. t = <<a, b>>
  BY <1>2, <1>3, <1>4, SeqEqual
<1>6. QED BY <1>5 DEF t

(* The operators the queue is handled with, on the queues there are.       *)
LEMMA Tuples ==
  ASSUME NEW a, NEW b, NEW c
  PROVE  /\ Head(<<a>>) = a /\ Head(<<a, b>>) = a /\ Head(<<a, b, c>>) = a
         /\ Tail(<<a>>) = <<>> /\ Tail(<<a, b>>) = <<b>> /\ Tail(<<a, b, c>>) = <<b, c>>
         /\ Append(<<>>, a) = <<a>> /\ <<>> \o <<a, b>> = <<a, b>>
         /\ <<a>> # <<>> /\ <<a, b>> # <<>> /\ <<a, b, c>> # <<>>
<1>1. Head(<<a>>) = a /\ Head(<<a, b>>) = a /\ Head(<<a, b, c>>) = a
  OBVIOUS
<1>2. Tail(<<a>>) = <<>> /\ Tail(<<a, b>>) = <<b>>
  OBVIOUS
<1>3. Tail(<<a, b, c>>) = <<b, c>>
  OBVIOUS
<1>4. Append(<<>>, a) = <<a>> /\ <<>> \o <<a, b>> = <<a, b>>
  OBVIOUS
<1>5. <<a>> # <<>> /\ <<a, b>> # <<>> /\ <<a, b, c>> # <<>>
  OBVIOUS
<1>6. QED BY <1>1, <1>2, <1>3, <1>4, <1>5

(* What handling the oldest event leaves.                                  *)
LEMMA HandledEvent ==
  ASSUME WifiTypes, QueueInv, NEW ev \in {"start", "connected", "ip", "disconnected"}, Handled(ev)
  PROVE  /\ recon = "off" /\ sta.st \in {"idle", "up"}
         /\ sta.st = "up" => evq' \in UpQueues
         /\ sta.st = "idle" => evq' \in {<<>>} \cup DownQueues
         /\ ev \in {"start", "disconnected"} => sta.st = "idle" /\ evq' = <<>>
         /\ ev = "connected" => Head(evq) \in Joined
         /\ ev = "disconnected" => Head(evq) \in Left
<1>1. evq # <<>> /\ Head(evq).ev = ev /\ evq' = Tail(evq)
  BY DEF Handled
<1>2. recon = "off" /\ sta.st \in {"idle", "up"}
  BY <1>1 DEF WifiTypes, Boots, Seens, QueueInv
<1>3. \A d \in Left : d.ev = "disconnected"
  BY DEF Left
<1>4. \A c \in Joined : c.ev = "connected"
  BY DEF Joined
<1>5. EvStart.ev = "start" /\ EvIp.ev = "ip"
  BY DEF EvStart, EvIp
<1>6. CASE evq = <<EvStart>> /\ sta.st = "idle"
  BY <1>1, <1>2, <1>5, <1>6, Tuples
<1>7. CASE evq = <<EvIp>> /\ sta.st = "up"
  BY <1>1, <1>2, <1>5, <1>7, Tuples DEF UpQueues
<1>8. ASSUME NEW c \in Joined, evq = <<c, EvIp>>, sta.st = "up"
      PROVE  Head(evq) = c /\ evq' = <<EvIp>>
  BY <1>1, <1>8, Tuples
<1>9. ASSUME NEW d \in Left, evq = <<d>>
      PROVE  Head(evq) = d /\ evq' = <<>>
  BY <1>1, <1>9, Tuples
<1>10. ASSUME NEW d \in Left, evq = <<EvIp, d>>
       PROVE  Head(evq) = EvIp /\ evq' = <<d>>
  BY <1>1, <1>10, Tuples
<1>11. ASSUME NEW c \in Joined, NEW d \in Left, evq = <<c, EvIp, d>>
       PROVE  Head(evq) = c /\ evq' = <<EvIp, d>>
  BY <1>1, <1>11, Tuples
<1>12. CASE sta.st = "up"
  <2>1. evq = <<EvIp>> \/ \E c \in Joined : evq = <<c, EvIp>>
    BY <1>1, <1>12 DEF QueueInv, UpQueues
  <2>2. CASE evq = <<EvIp>>
    BY <1>7, <1>12, <2>2
  <2>3. CASE \E c \in Joined : evq = <<c, EvIp>>
    <3>1. PICK c \in Joined : evq = <<c, EvIp>>
      BY <2>3
    <3>2. Head(evq) = c /\ evq' = <<EvIp>>
      BY <1>8, <1>12, <3>1
    <3>3. ev = "connected"
      BY <1>1, <1>4, <3>2
    <3>4. QED BY <1>2, <1>12, <3>2, <3>3 DEF UpQueues
  <2>4. QED BY <2>1, <2>2, <2>3
<1>13. CASE sta.st = "idle"
  <2>1. evq = <<EvStart>> \/ evq \in DownQueues
    BY <1>1, <1>13 DEF QueueInv
  <2>2. CASE evq = <<EvStart>>
    BY <1>6, <1>13, <2>2
  <2>3. CASE \E d \in Left : evq = <<d>>
    <3>1. PICK d \in Left : evq = <<d>>
      BY <2>3
    <3>2. Head(evq) = d /\ evq' = <<>> /\ ev = "disconnected"
      BY <1>1, <1>3, <1>9, <3>1
    <3>3. QED BY <1>2, <1>13, <3>2
  <2>4. CASE \E d \in Left : evq = <<EvIp, d>>
    <3>1. PICK d \in Left : evq = <<EvIp, d>>
      BY <2>4
    <3>2. Head(evq) = EvIp /\ evq' = <<d>> /\ ev = "ip"
      BY <1>1, <1>5, <1>10, <3>1
    <3>3. evq' \in DownQueues
      BY <3>2 DEF DownQueues
    <3>4. QED BY <1>2, <1>13, <3>2, <3>3
  <2>5. CASE \E c \in Joined, d \in Left : evq = <<c, EvIp, d>>
    <3>1. PICK c \in Joined, d \in Left : evq = <<c, EvIp, d>>
      BY <2>5
    <3>2. Head(evq) = c /\ evq' = <<EvIp, d>> /\ ev = "connected"
      BY <1>1, <1>4, <1>11, <3>1
    <3>3. evq' \in DownQueues
      BY <3>2 DEF DownQueues
    <3>4. QED BY <1>2, <1>13, <3>2, <3>3
  <2>6. evq \in DownQueues => \/ \E d \in Left : evq = <<d>>
                              \/ \E d \in Left : evq = <<EvIp, d>>
                              \/ \E c \in Joined, d \in Left : evq = <<c, EvIp, d>>
    BY DEF DownQueues
  <2>7. QED BY <2>1, <2>2, <2>3, <2>4, <2>5, <2>6
<1>14. QED BY <1>2, <1>12, <1>13

(* The boot, the records and the counts that go with a reset.              *)
LEMMA BootKeeps == ASSUME WifiInv, Boot PROVE WifiInv'
<1> USE DEF WifiInv
<1>1. PICK read \in BOOLEAN :
         LET kept == IF read THEN rec.nvs ELSE NoAp
             ap  == ap_boot(net.ssid, kept)
         IN  /\ conn' = [NoConn EXCEPT !.ap = ap, !.hint = ap # NoAp]
             /\ rec' = [rec EXCEPT !.mirror = kept]
  BY ZenonT(40) DEF Boot, Outcomes
<1> DEFINE kept == IF read THEN rec.nvs ELSE NoAp
           ap == ap_boot(net.ssid, kept)
<1>2. NoAp \in ApRecs /\ kept \in ApRecs
  BY DEF WifiTypes, Boots, Seens, ApRecs, NoAp
<1>3. /\ ap \in ApRecs
      /\ ap # NoAp => ap.ssid = net.ssid /\ ap.channel \in Channels
  BY <1>2 DEF ap_boot, ap_ok, WifiTypes, Boots, Seens
<1>4. /\ conn' = [ap |-> ap, hint |-> ap # NoAp, joined |-> FALSE, fast_spent |-> FALSE]
      /\ rec' = [rec EXCEPT !.mirror = kept]
  BY <1>1, ZenonT(40) DEF NoConn
<1> HIDE DEF kept, ap
<1>5. /\ boot.pc = "off" /\ nxt' = NoNext /\ sta' = [st |-> "idle", black |-> FALSE]
      /\ evq' = <<EvStart>> /\ recon' = "off" /\ net' = net /\ seen' = seen
      /\ boot'.pc = "wait"
  BY DEF Boot, NoBoot, EvStart, WifiTypes, Boots, Seens
<1>6. WifiTypes'
  <2>1. boot' \in Boots
    BY ZenonT(40) DEF Boot, NoBoot, Outcomes, WifiTypes, Boots, Seens
  <2>2. QED BY <1>2, <1>3, <1>4, <1>5, <2>1 DEF WifiTypes, Boots, Seens, NoNext
<1>7. QueueInv'
  BY <1>5 DEF QueueInv
<1>8. Paced' /\ ClearOwed'
  BY <1>4, <1>5, ZenonT(40) DEF Paced, ClearOwed, NoNext, WifiTypes, Boots, Seens
<1>9. HintKept'
  <2>1. conn'.hint => conn'.ap.ssid = net'.ssid /\ conn'.ap.channel \in Channels
    BY <1>3, <1>4, <1>5, ZenonT(40)
  <2>2. rec'.mirror = kept /\ rec'.nvs = rec.nvs
    BY <1>4 DEF WifiTypes, Boots, Seens
  <2>3. QED BY <2>1, <2>2 DEF HintKept, kept
<1>10. QED BY <1>6, <1>7, <1>8, <1>9, SMTT(30)

(* A restart or a power cycle.                                             *)
LEMMA DownKeeps ==
  ASSUME WifiInv, NEW keeps \in BOOLEAN, Down(keeps),
         net' \in [ssid : Networks, channel : Channels]
  PROVE  WifiInv'
<1> USE DEF WifiInv
<1>1. /\ NoAp \in ApRecs /\ Garbage \in ApRecs
      /\ NoConn = [ap |-> NoAp, hint |-> FALSE, joined |-> FALSE, fast_spent |-> FALSE]
  BY DEF ApRecs, NoAp, Garbage, NoConn
<1>2. /\ conn' = NoConn /\ nxt' = NoNext /\ evq' = <<>> /\ recon' = "off"
      /\ sta' = [st |-> "off", black |-> FALSE]
      /\ rec'.mirror = NoAp /\ rec'.nvs = rec.nvs /\ rec'.rtc \in {rec.rtc, Garbage}
      /\ rec' \in [rtc : ApRecs, nvs : ApRecs, mirror : ApRecs]
      /\ boot'.pc = "off"
      /\ boot' \in Boots
      /\ seen' = [seen EXCEPT !.unpaced = 0, !.untimed = 0, !.owed = FALSE, !.refused = FALSE]
  BY <1>1, ZenonT(40) DEF Down, NoBoot, WifiTypes, Boots, Seens
<1>3. /\ seen'.unpaced = 0 /\ seen'.untimed = 0
      /\ seen'.owed = FALSE /\ seen'.stored = seen.stored
      /\ seen' \in Seens
  BY <1>2, ZenonT(40) DEF WifiTypes, Boots, Seens
<1>4. WifiTypes'
  BY <1>1, <1>2, <1>3 DEF WifiTypes, Boots, Seens, NoNext
<1>5. QueueInv' /\ Paced' /\ ClearOwed' /\ HintKept'
  BY <1>1, <1>2, <1>3 DEF QueueInv, Paced, ClearOwed, HintKept, NoNext
<1>6. QED BY <1>4, <1>5

(* Bring-up, the power-save timer: they move boot alone.                   *)
LEMMA BringupKeeps == ASSUME WifiInv, Bringup \/ PsTimer PROVE WifiInv'
<1>1. /\ UNCHANGED <<net, conn, nxt, sta, evq, recon, rec, seen>>
      /\ boot.pc # "off" /\ boot'.pc # "off"
      /\ boot' \in Boots
  BY DEF WifiInv, WifiTypes, Boots, Seens, Bringup, PsTimer, Connected, WaitTimesOut, Registered
<1>2. QED
  BY <1>1 DEF WifiInv, WifiTypes, Boots, Seens, QueueInv, Paced, ClearOwed, HintKept

(* The attempt: esp_wifi_connect with the timer at rest.                   *)
LEMMA ConnectKeeps ==
  ASSUME WifiInv, NEW ok \in BOOLEAN, connect(ok),
         sta.st = "idle", evq' = <<>>, recon' = "off", recon # "now",
         UNCHANGED <<net, conn, nxt, rec, boot>>
  PROVE  WifiInv'
<1>1. /\ sta' \in [st : {"idle", "connecting"}, black : BOOLEAN]
      /\ seen' = [seen EXCEPT !.refused = @ \/ ~ok]
  BY DEF WifiInv, WifiTypes, Boots, Seens, connect
<1>2. /\ seen'.unpaced = seen.unpaced /\ seen'.untimed = seen.untimed
      /\ seen'.owed = seen.owed /\ seen'.stored = seen.stored
      /\ seen' \in Seens
  BY <1>1, ZenonT(40) DEF WifiInv, WifiTypes, Boots, Seens
<1>3. QED
  BY <1>1, <1>2 DEF WifiInv, WifiTypes, Boots, Seens, QueueInv, Paced, ClearOwed, HintKept

(* The first attempt, at WIFI_EVENT_STA_START.                             *)
LEMMA StartKeeps == ASSUME WifiInv, OnStart PROVE WifiInv'
<1>1. sta.st = "idle" /\ evq' = <<>> /\ recon = "off"
  BY HandledEvent DEF WifiInv, OnStart
<1>2. PICK ok \in BOOLEAN : connect(ok)
  BY ZenonT(40) DEF OnStart, Outcomes
<1>3. UNCHANGED <<net, conn, nxt, recon, rec, boot>>
  BY DEF OnStart
<1>4. QED BY <1>1, <1>2, <1>3, ConnectKeeps

(* The timer's second half: the attempt itself.                            *)
LEMMA TimerConnectsKeeps == ASSUME WifiInv, TimerConnects PROVE WifiInv'
<1>1. PICK ok \in BOOLEAN : connect(ok)
  BY ZenonT(40) DEF TimerConnects, Outcomes
<1>2. recon = "connect" /\ recon' = "off" /\ UNCHANGED <<net, conn, nxt, evq, rec, boot>>
  BY DEF TimerConnects
<1>3. sta.st = "idle" /\ evq = <<>>
  BY <1>2 DEF WifiInv, QueueInv
<1>4. QED BY <1>1, <1>2, <1>3, ConnectKeeps

(* A join: the streak ends, the channel is learnt.                         *)
LEMMA ConnectedKeeps == ASSUME WifiInv, OnConnected PROVE WifiInv'
<1> DEFINE ch == Head(evq).channel
           a == [channel |-> ch, ssid |-> net.ssid]
<1>1. /\ recon = "off" /\ sta.st \in {"idle", "up"}
      /\ sta.st = "up" => evq' \in UpQueues
      /\ sta.st = "idle" => evq' \in {<<>>} \cup DownQueues
      /\ Head(evq) \in Joined
  BY HandledEvent DEF WifiInv, OnConnected
<1>2. ch \in Channels /\ a \in ApRecs /\ ap_ok(a, net.ssid)
  BY <1>1 DEF Joined, ApRecs, WifiInv, WifiTypes, Boots, Seens, ap_ok
<1>3. conn' = [ap |-> a, hint |-> TRUE, joined |-> TRUE, fast_spent |-> FALSE]
  BY <1>2 DEF OnConnected, on_connected
<1>4. /\ rec' \in {rec, [rec EXCEPT !.rtc = a]}
      /\ seen' = [seen EXCEPT !.unpaced = 0, !.untimed = 0]
      /\ UNCHANGED <<net, nxt, sta, recon, boot>>
  BY <1>3 DEF OnConnected
<1> HIDE DEF ch
<1>5. /\ rec'.mirror = rec.mirror /\ rec'.nvs = rec.nvs
      /\ rec' \in [rtc : ApRecs, nvs : ApRecs, mirror : ApRecs]
  BY <1>2, <1>4 DEF WifiInv, WifiTypes, Boots, Seens
<1>6. /\ seen'.unpaced = 0 /\ seen'.untimed = 0
      /\ seen'.owed = seen.owed /\ seen'.stored = seen.stored
      /\ seen' \in Seens
  BY <1>4 DEF WifiInv, WifiTypes, Boots, Seens
<1>7. WifiTypes'
  BY <1>2, <1>3, <1>4, <1>5, <1>6 DEF WifiInv, WifiTypes, Boots, Seens
<1>8. QueueInv'
  BY <1>1, <1>4 DEF WifiInv, WifiTypes, Boots, Seens, QueueInv
<1>9. Paced' /\ ClearOwed'
  BY <1>1, <1>3, <1>4, <1>6 DEF WifiInv, WifiTypes, Boots, Seens, Paced, ClearOwed
<1>10. HintKept'
  BY <1>2, <1>3, <1>4, <1>5, <1>6 DEF WifiInv, HintKept
<1>11. QED BY <1>7, <1>8, <1>9, <1>10 DEF WifiInv

(* An address: the connected bit.                                          *)
LEMMA GotIpKeeps == ASSUME WifiInv, OnGotIp PROVE WifiInv'
<1>1. /\ recon = "off" /\ sta.st \in {"idle", "up"}
      /\ sta.st = "up" => evq' \in UpQueues
      /\ sta.st = "idle" => evq' \in {<<>>} \cup DownQueues
  BY HandledEvent DEF WifiInv, OnGotIp
<1>2. /\ UNCHANGED <<net, conn, nxt, sta, recon, rec, seen>>
      /\ boot' = [boot EXCEPT !.bit = TRUE]
  BY DEF OnGotIp
<1>3. /\ boot'.pc = boot.pc
      /\ boot' \in Boots
  BY <1>2, ZenonT(40) DEF WifiInv, WifiTypes, Boots, Seens
<1>4. QED
  BY <1>1, <1>2, <1>3 DEF WifiInv, WifiTypes, Boots, Seens, QueueInv, Paced, ClearOwed, HintKept

(* tl_wifi_on_disconnected: an attempt at once only for a streak that has  *)
(* not had one.                                                            *)
LEMMA NextAttempt ==
  ASSUME WifiInv, NEW reason \in {"4way", "other"}
  PROVE  LET n == on_disconnected(conn, reason)
         IN  /\ n.c \in [ap : {conn.ap}, hint : BOOLEAN, joined : BOOLEAN, fast_spent : BOOLEAN]
             /\ n.c.hint => conn.hint
             /\ n.channel \in Channels \cup {0, -1} /\ n.reapply \in BOOLEAN /\ n.now \in BOOLEAN
             /\ n.now => ~conn.fast_spent /\ n.c.fast_spent
             /\ conn.fast_spent => n.c.fast_spent
<1> USE DEF WifiInv, WifiTypes, Boots, Seens, ApRecs
<1> DEFINE n == on_disconnected(conn, reason)
           off == [conn EXCEPT !.joined = FALSE]
           spent == [off EXCEPT !.fast_spent = TRUE]
           unhinted == [off EXCEPT !.hint = FALSE]
           Conns == [ap : {conn.ap}, hint : BOOLEAN, joined : BOOLEAN, fast_spent : BOOLEAN]
<1>1. /\ off \in Conns /\ off.hint = conn.hint /\ off.fast_spent = conn.fast_spent
      /\ spent \in Conns /\ spent.hint = conn.hint /\ spent.fast_spent
      /\ unhinted \in Conns /\ ~unhinted.hint /\ unhinted.fast_spent = conn.fast_spent
      /\ hinted(conn) \in Channels \cup {0, -1}
  BY ZenonT(40) DEF hinted
<1>2. n \in {[c |-> off, now |-> FALSE, reapply |-> FALSE, channel |-> hinted(conn)],
             [c |-> spent, now |-> TRUE, reapply |-> TRUE, channel |-> hinted(conn)],
             [c |-> unhinted, now |-> FALSE, reapply |-> FALSE, channel |-> 0]}
  BY DEF on_disconnected
<1>3. n.now => ~conn.fast_spent
  BY DEF on_disconnected
<1> HIDE DEF n, off, spent, unhinted
<1>4. /\ n.c \in Conns /\ (n.c.hint => conn.hint)
      /\ n.channel \in Channels \cup {0, -1} /\ n.reapply \in BOOLEAN /\ n.now \in BOOLEAN
      /\ n.now => n.c.fast_spent
      /\ conn.fast_spent => n.c.fast_spent
  <2>1. CASE n = [c |-> off, now |-> FALSE, reapply |-> FALSE, channel |-> hinted(conn)]
    BY <1>1, <2>1
  <2>2. CASE n = [c |-> spent, now |-> TRUE, reapply |-> TRUE, channel |-> hinted(conn)]
    BY <1>1, <2>2
  <2>3. CASE n = [c |-> unhinted, now |-> FALSE, reapply |-> FALSE, channel |-> 0]
    BY <1>1, <2>3
  <2>4. QED BY <1>2, <2>1, <2>2, <2>3
<1>5. QED BY <1>3, <1>4 DEF n

(* A failed or lost connection: the next attempt is queued.                *)
LEMMA DisconnectedKeeps == ASSUME WifiInv, OnDisconnected PROVE WifiInv'
<1> DEFINE n == on_disconnected(conn, Head(evq).reason)
<1>1. recon = "off" /\ sta.st = "idle" /\ evq' = <<>> /\ Head(evq) \in Left
  BY HandledEvent DEF WifiInv, OnDisconnected
<1>2. Head(evq).reason \in {"4way", "other"}
  BY <1>1, SMTT(30) DEF Left
<1>3. /\ n.c \in [ap : {conn.ap}, hint : BOOLEAN, joined : BOOLEAN, fast_spent : BOOLEAN]
      /\ n.c.hint => conn.hint
      /\ n.channel \in Channels \cup {0, -1} /\ n.reapply \in BOOLEAN /\ n.now \in BOOLEAN
      /\ n.now => ~conn.fast_spent /\ n.c.fast_spent
      /\ conn.fast_spent => n.c.fast_spent
  BY <1>2, NextAttempt
<1>4. /\ conn' = n.c /\ nxt' = [reapply |-> nxt.reapply \/ n.reapply, channel |-> n.channel]
      /\ recon' \in {"direct", IF n.now THEN "now" ELSE "armed"}
      /\ seen' = [seen EXCEPT !.owed = @ \/ n.reapply]
      /\ boot' = [boot EXCEPT !.bit = FALSE]
      /\ UNCHANGED <<net, sta, rec>>
  BY DEF OnDisconnected, queued, retry_in
<1> HIDE DEF n
<1>5. /\ seen'.unpaced = seen.unpaced /\ seen'.untimed = seen.untimed
      /\ seen'.stored = seen.stored /\ seen'.owed = (seen.owed \/ n.reapply)
      /\ seen' \in Seens
  BY <1>3, <1>4 DEF WifiInv, WifiTypes, Boots, Seens
<1>6. WifiTypes'
  BY <1>3, <1>4, <1>5, ZenonT(40) DEF WifiInv, WifiTypes, Boots, Seens
<1>7. QueueInv'
  BY <1>1, <1>4 DEF QueueInv
<1>8. Paced'
  BY <1>1, <1>3, <1>4, <1>5 DEF WifiInv, WifiTypes, Boots, Seens, Paced
<1>9. ClearOwed'
  BY <1>3, <1>4, <1>5 DEF WifiInv, WifiTypes, Boots, Seens, ClearOwed
<1>10. HintKept'
  BY <1>3, <1>4, <1>5 DEF WifiInv, WifiTypes, Boots, Seens, HintKept
<1>11. QED BY <1>6, <1>7, <1>8, <1>9, <1>10 DEF WifiInv

(* The timer's first half: the blacklist clear it owes is done with the    *)
(* configuration, and an attempt at once is counted.                       *)
LEMMA AppliesKeeps == ASSUME WifiInv, TimerApplies PROVE WifiInv'
<1> DEFINE now == IF recon = "armed" THEN 0 ELSE 1
           direct == IF recon = "direct" THEN 1 ELSE 0
<1>1. PICK ok \in BOOLEAN :
        /\ ok => needs_config(nxt)
        /\ nxt' = IF needs_config(nxt) THEN config_done(nxt, ok) ELSE nxt
        /\ sta' = IF ok THEN [sta EXCEPT !.black = FALSE] ELSE sta
        /\ seen' = [seen EXCEPT !.unpaced = @ + now, !.untimed = @ + direct,
                                !.owed = @ /\ ~ok]
  BY ZenonT(40) DEF TimerApplies, Outcomes
<1>2. /\ recon \in {"armed", "now", "direct"} /\ recon' = "connect"
      /\ UNCHANGED <<net, conn, evq, rec, boot>>
  BY DEF TimerApplies
<1>3. sta.st = "idle" /\ evq = <<>>
  BY <1>2 DEF WifiInv, QueueInv
<1>4. sta'.st = "idle" /\ sta' \in [st : {"off", "idle", "connecting", "up"}, black : BOOLEAN]
  BY <1>1, <1>3, ZenonT(40) DEF WifiInv, WifiTypes, Boots, Seens
<1>5. /\ nxt' \in [reapply : BOOLEAN, channel : Channels \cup {0, -1}]
      /\ nxt'.reapply = (nxt.reapply /\ ~ok)
  <2>1. CASE ok
    BY <1>1, <2>1, ZenonT(40) DEF config_done, WifiInv, WifiTypes, Boots, Seens
  <2>2. CASE ~ok
    BY <1>1, <2>2 DEF config_done, WifiInv, WifiTypes, Boots, Seens
  <2>3. QED BY <2>1, <2>2
<1>6. /\ seen'.unpaced = seen.unpaced + now /\ seen'.untimed = seen.untimed + direct
      /\ seen'.stored = seen.stored
      /\ seen'.owed = (seen.owed /\ ~ok)
      /\ seen' \in Seens
  <2> DEFINE u == seen.unpaced + now
             d == seen.untimed + direct
             o == seen.owed /\ ~ok
  <2>1. /\ u \in Nat /\ d \in Nat /\ o \in BOOLEAN
        /\ seen' = [seen EXCEPT !.unpaced = u, !.untimed = d, !.owed = o]
    BY <1>1 DEF WifiInv, WifiTypes, Boots, Seens
  <2> HIDE DEF u, d, o
  <2>2. /\ seen'.unpaced = u /\ seen'.untimed = d /\ seen'.owed = o
        /\ seen'.stored = seen.stored
        /\ seen' \in Seens
    BY <2>1, ZenonT(40) DEF WifiInv, WifiTypes, Boots, Seens
  <2>3. QED BY <2>2 DEF u, d, o
<1>7. WifiTypes'
  BY <1>2, <1>4, <1>5, <1>6 DEF WifiInv, WifiTypes, Boots, Seens
<1>8. QueueInv'
  BY <1>2, <1>3, <1>4 DEF QueueInv
<1>9. Paced'
  BY <1>2, <1>3, <1>4, <1>6 DEF WifiInv, WifiTypes, Boots, Seens, Paced
<1>10. ClearOwed'
  BY <1>5, <1>6 DEF WifiInv, ClearOwed
<1>11. HintKept'
  BY <1>2, <1>6 DEF WifiInv, HintKept
<1>12. QED BY <1>7, <1>8, <1>9, <1>10, <1>11 DEF WifiInv

(* hint_persist.                                                           *)
LEMMA PersistKeeps == ASSUME WifiInv, Persist PROVE WifiInv'
<1>1. PICK ok \in BOOLEAN :
        /\ rec' = [rec EXCEPT !.mirror = conn.ap, !.nvs = IF ok THEN conn.ap ELSE @]
        /\ seen' = [seen EXCEPT !.stored = ok]
  BY ZenonT(40) DEF Persist, Outcomes
<1>2. UNCHANGED <<net, conn, nxt, sta, evq, recon, boot>>
  BY DEF Persist
<1>3. /\ rec'.mirror = conn.ap /\ rec'.nvs = (IF ok THEN conn.ap ELSE rec.nvs)
      /\ rec' \in [rtc : ApRecs, nvs : ApRecs, mirror : ApRecs]
  BY <1>1, ZenonT(40) DEF WifiInv, WifiTypes, Boots, Seens
<1>4. /\ seen'.unpaced = seen.unpaced /\ seen'.untimed = seen.untimed
      /\ seen'.owed = seen.owed /\ seen'.stored = ok
      /\ seen' \in Seens
  BY <1>1 DEF WifiInv, WifiTypes, Boots, Seens
<1>5. WifiTypes'
  BY <1>2, <1>3, <1>4 DEF WifiInv, WifiTypes
<1>6. QueueInv' /\ Paced'
  BY <1>2, <1>4 DEF WifiInv, QueueInv, Paced
<1>7. ClearOwed' /\ HintKept'
  BY <1>2, <1>3, <1>4 DEF WifiInv, ClearOwed, HintKept
<1>8. QED BY <1>5, <1>6, <1>7 DEF WifiInv

(* The driver's report of an attempt, and a link that goes.                *)
LEMMA ReportKeeps ==
  ASSUME WifiInv,
         sta.st \in {"connecting", "up"}, sta' \in [st : {"idle", "up"}, black : BOOLEAN],
         sta'.st = "up" => evq' \in UpQueues, sta'.st = "idle" => evq' \in DownQueues,
         net' \in [ssid : {net.ssid}, channel : Channels],
         UNCHANGED <<conn, nxt, recon, rec, boot, seen>>
  PROVE  WifiInv'
<1>1. recon' = "off"
  BY DEF WifiInv, QueueInv
<1>2. WifiTypes'
  BY DEF WifiInv, WifiTypes, Boots, Seens
<1>3. QueueInv'
  BY <1>1 DEF QueueInv
<1>4. Paced'
  BY <1>1 DEF WifiInv, Paced
<1>5. ClearOwed' /\ HintKept'
  BY DEF WifiInv, ClearOwed, HintKept
<1>6. QED BY <1>2, <1>3, <1>4, <1>5 DEF WifiInv

(* The driver and the air.                                                 *)
LEMMA DriverKeeps == ASSUME WifiInv, Driver \/ LinkLost PROVE WifiInv'
<1> DEFINE d4 == [ev |-> "disconnected", reason |-> "4way"]
           do == [ev |-> "disconnected", reason |-> "other"]
           c == [ev |-> "connected", channel |-> net.channel]
<1>1. d4 \in Left /\ do \in Left /\ c \in Joined
  BY DEF Left, Joined, WifiInv, WifiTypes, Boots, Seens
<1>2. net \in [ssid : {net.ssid}, channel : Channels]
  BY DEF WifiInv, WifiTypes, Boots, Seens
<1> HIDE DEF d4, do, c
<1>3. CASE Joins
  <2>1. evq = <<>> /\ sta.st = "connecting"
    BY <1>3 DEF Joins, WifiInv, QueueInv
  <2>2. evq' = <<c, EvIp>>
    BY <1>3, <2>1, Tuples DEF Joins, EvIp, c
  <2>3. evq' \in UpQueues
    BY <1>1, <2>2 DEF UpQueues
  <2>4. sta' \in [st : {"idle", "up"}, black : BOOLEAN] /\ sta'.st = "up"
    BY <1>3, ZenonT(40) DEF Joins, WifiInv, WifiTypes, Boots, Seens
  <2>5. UNCHANGED <<net, conn, nxt, recon, rec, boot, seen>>
    BY <1>3 DEF Joins
  <2>6. QED BY <1>2, <2>1, <2>3, <2>4, <2>5, ReportKeeps
<1>4. ASSUME NEW d \in Left, sta.st = "connecting", evq' = Append(evq, d),
             sta' \in [st : {"idle"}, black : BOOLEAN],
             UNCHANGED <<net, conn, nxt, recon, rec, boot, seen>>
      PROVE  WifiInv'
  <2>1. evq' = <<d>>
    BY <1>4, Tuples DEF WifiInv, QueueInv
  <2>2. evq' \in DownQueues
    BY <2>1 DEF DownQueues
  <2>3. QED BY <1>2, <1>4, <2>2, ReportKeeps
<1>5. CASE Refused("4way")
  BY <1>1, <1>4, <1>5 DEF Refused, d4, WifiInv, WifiTypes, Boots, Seens
<1>6. CASE Refused("other")
  BY <1>1, <1>4, <1>6 DEF Refused, do, WifiInv, WifiTypes, Boots, Seens
<1>7. CASE LinkLost
  <2>1. sta.st = "up" /\ evq' = Append(evq, do) /\ evq \in UpQueues
    BY <1>7 DEF LinkLost, do, WifiInv, QueueInv
  <2>2. evq' \in DownQueues
    <3>1. CASE evq = <<>>
      BY <1>1, <2>1, <3>1, Tuples DEF DownQueues
    <3>2. CASE evq = <<EvIp>>
      <4>1. evq' = <<EvIp, do>>
        BY <2>1, <3>2, AppendSecond
      <4>2. QED BY <1>1, <4>1 DEF DownQueues
    <3>3. ASSUME NEW e \in Joined, evq = <<e, EvIp>> PROVE evq' \in DownQueues
      <4>1. evq' = <<e, EvIp, do>>
        BY <2>1, <3>3, AppendThird
      <4>2. QED BY <1>1, <4>1 DEF DownQueues
    <3>4. QED BY <2>1, <3>1, <3>2, <3>3 DEF UpQueues
  <2>3. /\ sta' \in [st : {"idle"}, black : BOOLEAN]
        /\ net' \in [ssid : {net.ssid}, channel : Channels]
        /\ UNCHANGED <<conn, nxt, recon, rec, boot, seen>>
    BY <1>7, SMTT(30) DEF LinkLost, WifiInv, WifiTypes, Boots, Seens
  <2>4. QED BY <2>1, <2>2, <2>3, ReportKeeps
<1>8. QED BY <1>3, <1>5, <1>6, <1>7 DEF Driver

(* Every step of bring-up, the event handler, the timers and the driver.   *)
LEMMA WifiStep == ASSUME WifiInv, [WifiNext]_wifiVars PROVE WifiInv'
<1>1. CASE Restart
  BY <1>1, DownKeeps, ZenonT(40) DEF Restart, WifiInv, WifiTypes, Boots, Seens
<1>2. CASE PowerCycle
  BY <1>2, DownKeeps DEF PowerCycle
<1>3. CASE UNCHANGED wifiVars
  <2> USE <1>3 DEF wifiVars, WifiInv
  <2>1. WifiTypes'
    BY DEF WifiTypes, Boots, Seens
  <2>2. QueueInv'
    BY DEF QueueInv
  <2>3. Paced' /\ ClearOwed' /\ HintKept'
    BY DEF Paced, ClearOwed, HintKept
  <2>4. QED BY <2>1, <2>2, <2>3
<1>4. QED
  BY <1>1, <1>2, <1>3, BootKeeps, BringupKeeps, StartKeeps, TimerConnectsKeeps,
     ConnectedKeeps, GotIpKeeps, DisconnectedKeeps, AppliesKeeps, PersistKeeps, DriverKeeps
  DEF WifiNext, Handler, Timer

(* Over any failures, lost links, refused calls, timers that cannot be     *)
(* created or started, power cycles and changes of network: no failure     *)
(* streak has two attempts without a backoff, apart from those no timer    *)
(* could take, a blacklist clear is not lost before esp_wifi_set_config    *)
(* did it, and the channel scanned first was learnt on this network        *)
(* (app_wifi.c, wifi_hint.h).                                              *)
THEOREM StationAlwaysSound == WifiSpec => []StationSound
<1>1. WifiInit => WifiInv
  <2> SUFFICES ASSUME WifiInit PROVE WifiInv
    OBVIOUS
  <2>1. WifiTypes
    BY DEF WifiInit, NoBoot, WifiTypes, Boots, Seens, ApRecs, NoAp, Garbage, NoConn, NoNext
  <2>2. /\ sta.st = "off" /\ boot.pc = "off" /\ evq = <<>> /\ recon = "off"
        /\ seen.unpaced = 0 /\ seen.untimed = 0 /\ ~seen.owed
    BY DEF WifiInit, NoBoot
  <2>3. QueueInv
    BY <2>2 DEF QueueInv
  <2>4. Paced
    BY <2>2 DEF Paced
  <2>5. ClearOwed
    BY <2>2 DEF WifiInit, ClearOwed, NoNext
  <2>6. HintKept
    BY DEF WifiInit, HintKept, NoConn
  <2>7. QED BY <2>1, <2>3, <2>4, <2>5, <2>6 DEF WifiInv
<1>2. WifiInv /\ [WifiNext]_wifiVars => WifiInv'
  BY WifiStep
<1>3. WifiInv => StationSound
  BY SMTT(30)
  DEF WifiInv, WifiTypes, Boots, Seens, Paced, ClearOwed, HintKept, StationSound,
     RetriesSound, HintOwn
<1>4. QED
  BY <1>1, <1>2, <1>3, PTL DEF WifiSpec

-----------------------------------------------------------------------------
(* The derived Wi-Fi key.  The two tasks meet in s_psk.state alone: what   *)
(* each of its values says of both is the invariant, and a state that the  *)
(* connect claimed tells the derivation whose the key is.                  *)

PskTypes ==
  /\ state \in {"idle", "running", "ready", "done"} /\ pass \in BOOLEAN
  /\ hex \in {"clear", "part", "whole"} /\ driver \in {"pass", "psk"}
  /\ deriver \in {"none", "derive", "hex", "publish", "scrub", "signal", "done"}
  /\ starter \in {"boot", "event", "wait", "claim", "config", "connect"}

\* No derivation, no key; while it runs nobody else has the buffers.
PskDeriving ==
  /\ deriver = "none" <=> state = "idle"
  /\ pass => deriver = "derive"
  /\ deriver \in {"none", "derive"} => hex = "clear"
  /\ hex = "part" => deriver = "hex"
  /\ deriver \in {"publish", "scrub"} => hex = "whole"
  /\ deriver \in {"derive", "hex", "publish"} => state \in {"running", "done"}
  /\ deriver = "scrub" => state = "done" /\ starter = "connect"

\* Before the claim the key belongs to the derivation, then to one of them.
PskClaimed ==
  /\ starter = "boot" => deriver = "none"
  /\ starter \in {"wait", "claim", "config"} => deriver # "none"
  /\ starter \in {"config", "connect"} => state \in {"idle", "done"}
  /\ state = "done" => starter \in {"config", "connect"}
  /\ deriver \in {"signal", "done"} /\ starter # "connect" => hex = "whole"
  /\ deriver \in {"signal", "done"} /\ starter = "connect" => hex = "clear"
  /\ deriver \in {"signal", "done"} => state \in {"ready", "done"}
  /\ starter = "config" => deriver \in {"signal", "done"}

PskInv == PskTypes /\ PskDeriving /\ PskClaimed

(* Every step of psk_start, psk_task and psk_apply preserves PskInv.       *)
LEMMA PskStep == ASSUME PskInv, [PskNext]_pskVars PROVE PskInv'
<1> USE DEF PskInv, PskTypes, PskDeriving, PskClaimed
<1>1. CASE PskStart
  <2>1. CASE UNCHANGED <<state, pass, deriver>>
    BY <1>1, <2>1 DEF PskStart
  <2>2. CASE state' = "running" /\ pass' = TRUE /\ deriver' = "derive"
    BY <1>1, <2>2 DEF PskStart
  <2>3. QED BY <1>1, <2>1, <2>2, ZenonT(40) DEF PskStart
<1>2. CASE Derive
  BY <1>2, ZenonT(40) DEF Derive
<1>3. CASE HexDone
  BY <1>3 DEF HexDone
<1>4. CASE Publish
  BY <1>4 DEF Publish, publish
<1>5. CASE Scrub
  BY <1>5 DEF Scrub
<1>6. CASE Signal
  BY <1>6 DEF Signal
<1>7. CASE Apply
  BY <1>7 DEF Apply
<1>8. CASE WaitEnds
  BY <1>8 DEF WaitEnds
<1>9. CASE Claim
  BY <1>9 DEF Claim
<1>10. CASE SetConfig
  BY <1>10 DEF SetConfig
<1>11. CASE UNCHANGED pskVars
  BY <1>11 DEF pskVars
<1>12. QED
  BY <1>1, <1>2, <1>3, <1>4, <1>5, <1>6, <1>7, <1>8, <1>9, <1>10, <1>11, ZenonT(40) DEF PskNext

(* Whether the derivation ends before, during or after the bounded wait of *)
(* the connect: the driver gets the whole key or the passphrase, and when  *)
(* both tasks are through neither is left in RAM.                          *)
THEOREM PskAlwaysHandedOver == PskSpec => []PskHandedOver
<1>1. PskInit => PskInv
  BY ZenonT(40) DEF PskInit, PskInv, PskTypes, PskDeriving, PskClaimed
<1>2. PskInv /\ [PskNext]_pskVars => PskInv'
  BY PskStep
<1>3. PskInv => PskHandedOver
  BY DEF PskInv, PskTypes, PskDeriving, PskClaimed, PskHandedOver
<1>4. QED
  BY <1>1, <1>2, <1>3, PTL DEF PskSpec

-----------------------------------------------------------------------------
(* The handshake stamps (wg_proto.c wg_tai64n_now,                         *)
(* tinylink_tai64n_floor_init).  The stamp being made is compared with     *)
(* stamps of earlier boots that no variable of this boot holds: what       *)
(* connects them is the floor.  While NVS is not in doubt the floor is no  *)
(* lower than any stamp sent, this boot's reservation is that floor, and a *)
(* stamp is below the reservation before it leaves - so the reset that     *)
(* loses everything else still finds a floor above it.                     *)

\* A chunk of at least a second, and clocks that read no negative time.
TaiConstants == Chunk \in Nat \ {0} /\ Clocks \subseteq Nat /\ MaxSecs \in Nat

TaiTypes ==
  /\ nvs \in Nat /\ stamped \in Nat /\ doubt \in BOOLEAN /\ secs \in Nat \cup {None}
  /\ tai \in [emitted_high : Nat \cup {None}, reservation : Nat \cup {None}, persist : BOOLEAN]
  /\ tai # Off => tai.emitted_high # None /\ tai.reservation # None
  /\ tai = Off => secs = None

\* The reservation of a boot that may write is the floor in NVS.
ReservationStored == tai.persist => tai.reservation = nvs

\* Without doubt, the floor is above every stamp sent and the one under way.
FloorAhead ==
  ~doubt =>
    /\ nvs >= stamped
    /\ tai # Off => tai.persist /\ tai.emitted_high >= stamped
    /\ secs # None => secs > stamped /\ secs < nvs

TaiInv == TaiTypes /\ ReservationStored /\ FloorAhead

-----------------------------------------------------------------------------
(* What the two uses of Max give.                                          *)
LEMMA MaxOfTwo ==
  ASSUME NEW a \in Int, NEW b \in Int
  PROVE  /\ Max({a, b}) \in {a, b}
         /\ Max({a, b}) >= a /\ Max({a, b}) >= b
<1>1. \E x \in {a, b} : \A y \in {a, b} : x >= y
  <2>1. CASE a >= b
    BY <2>1
  <2>2. CASE b >= a
    BY <2>2
  <2>3. QED BY <2>1, <2>2
<1>2. /\ Max({a, b}) \in {a, b}
      /\ \A y \in {a, b} : Max({a, b}) >= y
  BY <1>1 DEF Max
<1>3. QED BY <1>2

(* No boot yet, no stamp: the floor of a fresh NVS is 0.                   *)
LEMMA TaiStart == ASSUME TaiInit PROVE TaiInv
<1>1. TaiTypes
  BY ZenonT(40) DEF TaiInit, TaiTypes, Off, None
<1>2. ReservationStored
  BY DEF TaiInit, ReservationStored, Off
<1>3. nvs >= stamped
  BY DEF TaiInit
<1>4. FloorAhead
  BY <1>3, Zenon DEF TaiInit, FloorAhead
<1>5. QED BY <1>1, <1>2, <1>4 DEF TaiInv

(* The boot's read of the floor and its first reservation.                 *)
LEMMA InitKeeps ==
  ASSUME TaiConstants, TaiInv, NEW read \in BOOLEAN, NEW wrote \in BOOLEAN,
         FloorInit(read, wrote)
  PROVE  TaiInv'
<1> USE DEF TaiConstants, TaiInv, TaiTypes, ReservationStored, FloorAhead, FloorInit, Off, None
<1>1. CASE ~read
  BY <1>1, ZenonT(40)
<1>2. CASE read /\ ~wrote
  BY <1>2, ZenonT(40)
<1>3. CASE read /\ wrote
  BY <1>3
<1>4. QED BY <1>1, <1>2, <1>3

(* A stamp is made: clamped above this boot's last one, and the floor      *)
(* moved above it before it leaves.                                        *)
LEMMA StampKeeps ==
  ASSUME TaiConstants, TaiInv, NEW clock \in Clocks, NEW wrote \in BOOLEAN,
         Stamp(clock, wrote)
  PROVE  TaiInv'
<1> DEFINE s == clamped(clock)
<1>1. tai # Off /\ tai.emitted_high \in Nat /\ tai.reservation \in Nat
  BY DEF TaiInv, TaiTypes, Stamp
<1>2. s \in Nat /\ s > tai.emitted_high
  <2> DEFINE next == tai.emitted_high + 1
  <2>1. clock \in Nat /\ next \in Nat /\ next > tai.emitted_high
    BY <1>1 DEF TaiConstants
  <2>2. s = Max({clock, next})
    BY DEF clamped
  <2>3. clock \in Int /\ next \in Int
    BY <2>1
  <2> HIDE DEF s, next
  <2>4. s \in {clock, next} /\ s >= clock /\ s >= next
    BY <2>2, <2>3, MaxOfTwo, Zenon
  <2>5. QED BY <1>1, <2>1, <2>4
<1>3. /\ secs = None /\ secs' = s /\ stamped' = stamped
      /\ reserve(s, wrote)
  BY DEF Stamp
<1> HIDE DEF s
<1>4. CASE ~tai.persist \/ s < tai.reservation
  <2>1. nvs' = nvs /\ tai' = tai /\ doubt' = doubt
    BY <1>3, <1>4 DEF reserve
  <2>2. QED
    BY <1>1, <1>2, <1>3, <1>4, <2>1 DEF TaiInv, TaiTypes, ReservationStored, FloorAhead, None
<1>5. CASE tai.persist /\ ~(s < tai.reservation)
  <2>1. CASE wrote
    <3>1. nvs' = s + Chunk /\ tai' = [tai EXCEPT !.reservation = s + Chunk] /\ doubt' = doubt
      BY <1>3, <1>5, <2>1 DEF reserve, TaiInv, TaiTypes
    <3>2. /\ tai'.emitted_high = tai.emitted_high /\ tai'.persist = tai.persist
          /\ tai'.reservation = s + Chunk /\ s + Chunk \in Nat /\ s + Chunk > s
      BY <1>2, <3>1 DEF TaiConstants, TaiInv, TaiTypes
    <3>3. TaiTypes'
      BY <1>1, <1>2, <1>3, <3>1, <3>2 DEF TaiInv, TaiTypes, Off, None
    <3>4. ReservationStored'
      BY <3>1, <3>2 DEF ReservationStored
    <3>5. FloorAhead'
      BY <1>1, <1>2, <1>3, <3>1, <3>2 DEF TaiInv, TaiTypes, FloorAhead, Off, None
    <3>6. QED BY <3>3, <3>4, <3>5 DEF TaiInv
  <2>2. CASE ~wrote
    <3>1. nvs' = nvs /\ tai' = tai /\ doubt' = TRUE
      BY <1>3, <1>5, <2>2 DEF reserve, TaiInv, TaiTypes
    <3>2. QED
      BY <1>1, <1>2, <1>3, <3>1 DEF TaiInv, TaiTypes, ReservationStored, FloorAhead, None
  <2>3. QED BY <2>1, <2>2
<1>6. QED
  BY <1>4, <1>5

(* The stamp leaves.                                                       *)
LEMMA EmitKeeps == ASSUME TaiInv, Emit PROVE TaiInv'
<1>1. secs \in Nat /\ stamped \in Nat /\ tai # Off
  BY DEF TaiInv, TaiTypes, Emit
<1>2. stamped' \in {stamped, secs} /\ stamped' >= stamped /\ stamped' >= secs
  BY <1>1, MaxOfTwo DEF Emit
<1>3. /\ tai' = [tai EXCEPT !.emitted_high = secs]
      /\ secs' = None /\ nvs' = nvs /\ doubt' = doubt
  BY DEF Emit
<1>4. /\ tai'.emitted_high = secs /\ tai'.persist = tai.persist
      /\ tai'.reservation = tai.reservation
  BY <1>3 DEF TaiInv, TaiTypes
<1>5. TaiTypes'
  BY <1>1, <1>2, <1>3, <1>4 DEF TaiInv, TaiTypes, Off, None
<1>6. ReservationStored'
  BY <1>3, <1>4 DEF TaiInv, ReservationStored
<1>7. FloorAhead'
  BY <1>1, <1>2, <1>3, <1>4 DEF TaiInv, TaiTypes, FloorAhead, Off, None
<1>8. QED BY <1>5, <1>6, <1>7 DEF TaiInv

(* Every step of the stamps, a reset at any point included, keeps them.    *)
LEMMA TaiStep == ASSUME TaiConstants, TaiInv, [TaiNext]_taiVars PROVE TaiInv'
<1>1. ASSUME NEW read \in Outcome, NEW wrote \in Outcome, FloorInit(read, wrote) PROVE TaiInv'
  BY <1>1, InitKeeps, ZenonT(40) DEF Outcome
<1>2. ASSUME NEW clock \in Clocks, NEW wrote \in Outcome, Stamp(clock, wrote) PROVE TaiInv'
  BY <1>2, StampKeeps, ZenonT(40) DEF Outcome
<1>3. CASE Emit
  BY <1>3, EmitKeeps
<1>4. CASE Reset
  BY <1>4 DEF Reset, TaiInv, TaiTypes, ReservationStored, FloorAhead, Off, None
<1>5. CASE UNCHANGED taiVars
  BY <1>5 DEF taiVars, TaiInv, TaiTypes, ReservationStored, FloorAhead
<1>6. QED
  BY <1>1, <1>2, <1>3, <1>4, <1>5 DEF TaiNext

(* No initiation carries a stamp the responder would take for a replay:    *)
(* whatever the clock reads and wherever the resets fall, each stamp is    *)
(* above every earlier one unless an access to the floor in NVS failed.    *)
THEOREM StampsAlwaysIncrease ==
  ASSUME TaiConstants PROVE TaiSpec => []StampsIncrease
<1>1. TaiInit => TaiInv
  BY TaiStart
<1>2. TaiInv /\ [TaiNext]_taiVars => TaiInv'
  BY TaiStep
<1>3. TaiInv => StampsIncrease
  BY DEF TaiInv, TaiTypes, FloorAhead, StampsIncrease
<1>4. QED
  BY <1>1, <1>2, <1>3, PTL DEF TaiSpec

=============================================================================
