------------------------- MODULE DerpClientProofs -------------------------
(***************************************************************************)
(* The safety of the relay connection (ConnectionSound), for any number of *)
(* relaying tasks, connects and write calls per frame.                     *)
(*                                                                         *)
(* ConnectionSound is not inductive: it says nothing of the frame that     *)
(* waits for the lock over a close and a reconnect, nor of the flags       *)
(* between the stores of a failed write.  DerpInv adds who may hold the    *)
(* lock where, when the connection may be up, that no frame is under way   *)
(* while the supervisor dials, and that a frame admitted under the current *)
(* generation was admitted on the connection that is up.                   *)
(***************************************************************************)
EXTENDS DerpClient, TLAPS

\* Places of a frame: it holds the lock; it found the connection up under it.
Held == {"up", "gen", "writable", "poll", "call", "failed", "drop", "abort", "sent", "lost"}
UnderWay == Held \ {"up"}
Closing == {"close", "grace", "wait", "destroy", "give"}

\* A close of a connection that never was up: connect_on's own.
ClosingUnused == sup.pc \in Closing /\ sup.ret # "connect"

\* The supervisor dials: the connection is not up and has not been since the
\* last close took the lock.
Dialing ==
  \/ sup.pc \in {"connect", "new_conn", "reset", "addr", "name", "login", "failed"}
  \/ ClosingUnused

FrameRec == [pc : FramePCs, gen : Nat, out : Nat, ctx : Nat,
             no_wait : BOOLEAN, left : Int, idle : Int]

Types ==
  /\ gen \in Nat /\ conns \in Nat /\ tls \in Nat
  /\ wr \in [Tasks -> FrameRec]
  /\ sup \in [pc : SupPCs, ret : {"connect", "name", "failed"}]

\* Between derp_wl_write_failed's load and store the connection is still up on
\* a torn stream, and the writer that tore it has the lock.
SupInv ==
  /\ sup.pc \in {"destroy", "give"} => lock = Sup /\ wr[Sup].pc = "idle"
  /\ wr[Sup].pc # "idle" => sup.pc \in {"pong", "disco"}
  /\ sup.pc = "pong" => sup.ret = "connect"
  /\ connected => /\ sup.pc \in {"run", "read", "pong", "disco", "event", "close"}
                  /\ sup.pc = "close" => sup.ret = "connect"
                  /\ tls # NULL
  /\ sup.pc = "login" => tls # NULL /\ ~torn
  /\ connected /\ torn => lock \in Tasks /\ wr[lock].pc \in {"failed", "drop"}
  /\ abort_reads /\ (sup.pc \in {"addr", "name", "login"} \/ ClosingUnused) => ip_changed
  /\ AbortReadsOwn

FrameInv(w) ==
  /\ wr[w].pc \in Held => lock = w
  /\ wr[w].pc \in UnderWay => ~Dialing
  /\ wr[w].gen <= gen
  /\ wr[w].pc \in Held \cup {"acquire"} /\ wr[w].gen = gen =>
       /\ sup.pc \notin {"reset", "addr", "name", "login", "failed"}
       /\ ~ClosingUnused
       /\ connected => wr[w].out = tls
  /\ wr[w].pc \in {"writable", "poll", "call"} => wr[w].gen = gen
  /\ wr[w].pc = "call" => wr[w].ctx = tls /\ wr[w].out = tls /\ tls # NULL /\ ~torn
  /\ wr[w].pc \in {"failed", "drop", "abort", "lost"} => torn

DerpInv == Types /\ SupInv /\ \A w \in Tasks : FrameInv(w)
-----------------------------------------------------------------------------
(* A new frame, and a frame after one step of send_frame or at its end,    *)
(* is of the type of frames.                                               *)
LEMMA NewFrame ==
  ASSUME NEW no_wait \in BOOLEAN, NEW g \in Nat
  PROVE  [NoFrame EXCEPT !.pc = "admits", !.gen = g, !.no_wait = no_wait,
                         !.left = FrameParts] \in FrameRec
<1> DEFINE r1 == [NoFrame EXCEPT !.pc = "admits", !.gen = g]
           r2 == [r1 EXCEPT !.no_wait = no_wait]
<1>1. NoFrame \in FrameRec
  BY DEF NoFrame, FrameRec, FramePCs, NULL
<1>2. r1 \in FrameRec
  BY <1>1 DEF FrameRec, FramePCs
<1> HIDE DEF r1
<1>3. r2 \in FrameRec
  BY <1>2 DEF FrameRec
<1> HIDE DEF r2
<1>4. [r2 EXCEPT !.left = FrameParts] \in FrameRec
  BY <1>3, DerpAssumption DEF FrameRec
<1> QED
  BY <1>4, Zenon DEF r1, r2

LEMMA FrameStepped ==
  ASSUME wr \in [Tasks -> FrameRec], NEW w \in Tasks, NEW pc \in FramePCs, Step(w, pc)
  PROVE  (wr \in [Tasks -> FrameRec])'
  BY DEF Step, FrameRec

LEMMA FrameEnded ==
  ASSUME wr \in [Tasks -> FrameRec], NEW w \in Tasks, NEW ok, Return(w, ok)
  PROVE  (wr \in [Tasks -> FrameRec])'
<1>1. NoFrame \in FrameRec
  BY DEF NoFrame, FrameRec, FramePCs, NULL
<1> QED
  BY <1>1 DEF Return

USE DEF NULL, FramePCs, SupPCs, conn, reader,
        Held, UnderWay, Closing, ClosingUnused, Dialing, AbortReadsOwn

(* Every step of derp_client.c's frames, connect, run loop and close, and  *)
(* of the tasks that move the relay or our address, preserves DerpInv.     *)
LEMMA DerpStep == ASSUME DerpInv, [Next]_vars PROVE DerpInv'
<1>1. ASSUME NEW w \in Tasks, NEW no_wait \in BOOLEAN, Send(w, no_wait) PROVE DerpInv'
  <2>1. Types'
    <3>1. (wr \in [Tasks -> FrameRec])'
      BY <1>1, NewFrame DEF DerpInv, Types, Send
    <3>2. (sup \in [pc : SupPCs, ret : {"connect", "name", "failed"}])'
      BY <1>1 DEF DerpInv, Types, Send, MaySend
    <3> QED
      BY <1>1, <3>1, <3>2 DEF DerpInv, Types, Send
  <2>2. SupInv'
    BY <1>1, DerpAssumption
      DEF Tasks, DerpInv, Send, NoFrame, MaySend, Types, FrameRec, SupInv, FrameInv
  <2>3. FrameInv(w)'
    BY <1>1, DerpAssumption
      DEF DerpInv, Send, NoFrame, MaySend, Types, FrameRec, SupInv, FrameInv
  <2>4. ASSUME NEW x \in Tasks \ {w} PROVE FrameInv(x)'
    BY <1>1, DerpAssumption
      DEF DerpInv, Send, NoFrame, MaySend, Types, FrameRec, SupInv, FrameInv
  <2> QED
    BY <2>1, <2>2, <2>3, <2>4 DEF DerpInv
<1>2. ASSUME NEW w \in Tasks, Admits(w) PROVE DerpInv'
  <2>1. Types'
    <3>1. (wr \in [Tasks -> FrameRec])'
      <4>1. CASE connected
        BY <1>2, <4>1 DEF DerpInv, Types, Admits, FrameRec
      <4>2. CASE ~connected
        BY <1>2, <4>2, FrameEnded DEF DerpInv, Types, Admits
      <4> QED
        BY <4>1, <4>2
    <3>2. (sup \in [pc : SupPCs, ret : {"connect", "name", "failed"}])'
      BY <1>2 DEF DerpInv, Types, Admits, Return
    <3> QED
      BY <1>2, <3>1, <3>2 DEF DerpInv, Types, Admits
  <2>2. SupInv'
    BY <1>2, DerpAssumption
      DEF Tasks, DerpInv, Admits, Return, NoFrame, Types, FrameRec, SupInv, FrameInv
  <2>3. FrameInv(w)'
    BY <1>2, DerpAssumption
      DEF DerpInv, Admits, Return, NoFrame, Types, FrameRec, SupInv, FrameInv
  <2>4. ASSUME NEW x \in Tasks \ {w} PROVE FrameInv(x)'
    BY <1>2, DerpAssumption
      DEF DerpInv, Admits, Return, NoFrame, Types, FrameRec, SupInv, FrameInv
  <2> QED
    BY <2>1, <2>2, <2>3, <2>4 DEF DerpInv
<1>3. ASSUME NEW w \in Tasks, Take(w) PROVE DerpInv'
  BY <1>3, DerpAssumption
    DEF Tasks, DerpInv, Take, Step, Types, FrameRec, SupInv, FrameInv
<1>4. ASSUME NEW w \in Tasks, GiveUpWait(w) PROVE DerpInv'
  BY <1>4, DerpAssumption
    DEF Tasks, DerpInv, GiveUpWait, Return, NoFrame, Types, FrameRec, SupInv, FrameInv
<1>5. ASSUME NEW w \in Tasks, Up(w) PROVE DerpInv'
  <2>1. Types'
    <3>1. (wr \in [Tasks -> FrameRec])'
      BY <1>5, FrameStepped, FrameEnded DEF DerpInv, Types, Up, GiveBack
    <3>2. (sup \in [pc : SupPCs, ret : {"connect", "name", "failed"}])'
      BY <1>5 DEF DerpInv, Types, Up, Step, GiveBack, Return
    <3> QED
      BY <1>5, <3>1, <3>2 DEF DerpInv, Types, Up
  <2>2. SupInv'
    BY <1>5, DerpAssumption
      DEF Tasks, DerpInv, Up, Step, GiveBack, Return, NoFrame, Types, FrameRec, SupInv,
         FrameInv
  <2>3. FrameInv(w)'
    BY <1>5, DerpAssumption
      DEF DerpInv, Up, Step, GiveBack, Return, NoFrame, Types, FrameRec, SupInv,
         FrameInv
  <2>4. ASSUME NEW x \in Tasks \ {w} PROVE FrameInv(x)'
    BY <1>5, DerpAssumption
      DEF DerpInv, Up, Step, GiveBack, Return, NoFrame, Types, FrameRec, SupInv,
         FrameInv
  <2> QED
    BY <2>1, <2>2, <2>3, <2>4 DEF DerpInv
<1>6. ASSUME NEW w \in Tasks, SameGen(w) PROVE DerpInv'
  <2>1. Types'
    <3>1. (wr \in [Tasks -> FrameRec])'
      <4>1. CASE gen = wr[w].gen /\ wr[w].no_wait
        BY <1>6, <4>1, FrameStepped DEF DerpInv, Types, SameGen
      <4>2. CASE gen = wr[w].gen /\ ~wr[w].no_wait
        BY <1>6, <4>2, FrameStepped DEF DerpInv, Types, SameGen
      <4>3. CASE gen # wr[w].gen
        BY <1>6, <4>3, FrameEnded DEF DerpInv, Types, SameGen, GiveBack
      <4> QED
        BY <4>1, <4>2, <4>3
    <3>2. (sup \in [pc : SupPCs, ret : {"connect", "name", "failed"}])'
      BY <1>6 DEF DerpInv, Types, SameGen, Step, GiveBack, Return
    <3> QED
      BY <1>6, <3>1, <3>2 DEF DerpInv, Types, SameGen
  <2>2. SupInv'
    BY <1>6, DerpAssumption
      DEF Tasks, DerpInv, SameGen, Step, GiveBack, Return, NoFrame, Types, FrameRec,
         SupInv, FrameInv
  <2>3. FrameInv(w)'
    BY <1>6, DerpAssumption
      DEF DerpInv, SameGen, Step, GiveBack, Return, NoFrame, Types, FrameRec, SupInv,
         FrameInv
  <2>4. ASSUME NEW x \in Tasks \ {w} PROVE FrameInv(x)'
    BY <1>6, DerpAssumption
      DEF DerpInv, SameGen, Step, GiveBack, Return, NoFrame, Types, FrameRec, SupInv,
         FrameInv
  <2> QED
    BY <2>1, <2>2, <2>3, <2>4 DEF DerpInv
<1>7. ASSUME NEW w \in Tasks, Writable(w) PROVE DerpInv'
  <2>1. Types'
    <3>1. (wr \in [Tasks -> FrameRec])'
      BY <1>7, FrameStepped, FrameEnded DEF DerpInv, Types, Writable, GiveBack
    <3>2. (sup \in [pc : SupPCs, ret : {"connect", "name", "failed"}])'
      BY <1>7 DEF DerpInv, Types, Writable, Step, GiveBack, Return
    <3> QED
      BY <1>7, <3>1, <3>2 DEF DerpInv, Types, Writable
  <2>2. SupInv'
    BY <1>7, DerpAssumption
      DEF Tasks, DerpInv, Writable, Step, GiveBack, Return, NoFrame, Types, FrameRec,
         SupInv, FrameInv
  <2>3. FrameInv(w)'
    BY <1>7, DerpAssumption
      DEF DerpInv, Writable, Step, GiveBack, Return, NoFrame, Types, FrameRec, SupInv,
         FrameInv
  <2>4. ASSUME NEW x \in Tasks \ {w} PROVE FrameInv(x)'
    BY <1>7, DerpAssumption
      DEF DerpInv, Writable, Step, GiveBack, Return, NoFrame, Types, FrameRec, SupInv,
         FrameInv
  <2> QED
    BY <2>1, <2>2, <2>3, <2>4 DEF DerpInv
<1>8. ASSUME NEW w \in Tasks, Poll(w) PROVE DerpInv'
  <2>1. Types'
    BY <1>8, DerpAssumption DEF DerpInv, Types, FrameRec, Poll, Step
  <2>2. SupInv'
    BY <1>8, DerpAssumption
      DEF Tasks, DerpInv, Poll, Step, Types, FrameRec, SupInv, FrameInv
  <2>3. FrameInv(w)'
    BY <1>8, DerpAssumption DEF DerpInv, Poll, Step, Types, FrameRec, SupInv, FrameInv
  <2>4. ASSUME NEW x \in Tasks \ {w} PROVE FrameInv(x)'
    BY <1>8, DerpAssumption DEF DerpInv, Poll, Step, Types, FrameRec, SupInv, FrameInv
  <2> QED
    BY <2>1, <2>2, <2>3, <2>4 DEF DerpInv
<1>9. ASSUME NEW w \in Tasks, CallPart(w) PROVE DerpInv'
  <2>1. Types'
    BY <1>9, DerpAssumption DEF DerpInv, Types, FrameRec, CallPart
  <2>2. SupInv'
    BY <1>9, DerpAssumption
      DEF Tasks, DerpInv, CallPart, Types, FrameRec, SupInv, FrameInv
  <2>3. FrameInv(w)'
    BY <1>9, DerpAssumption DEF DerpInv, CallPart, Types, FrameRec, SupInv, FrameInv
  <2>4. ASSUME NEW x \in Tasks \ {w} PROVE FrameInv(x)'
    BY <1>9, DerpAssumption DEF DerpInv, CallPart, Types, FrameRec, SupInv, FrameInv
  <2> QED
    BY <2>1, <2>2, <2>3, <2>4 DEF DerpInv
<1>10. ASSUME NEW w \in Tasks, CallFails(w) PROVE DerpInv'
  <2>1. Types'
    BY <1>10, DerpAssumption DEF DerpInv, Types, FrameRec, CallFails, Step
  <2>2. SupInv'
    BY <1>10, DerpAssumption
      DEF Tasks, DerpInv, CallFails, Step, Types, FrameRec, SupInv, FrameInv
  <2>3. FrameInv(w)'
    BY <1>10, DerpAssumption
      DEF DerpInv, CallFails, Step, Types, FrameRec, SupInv, FrameInv
  <2>4. ASSUME NEW x \in Tasks \ {w} PROVE FrameInv(x)'
    BY <1>10, DerpAssumption
      DEF DerpInv, CallFails, Step, Types, FrameRec, SupInv, FrameInv
  <2> QED
    BY <2>1, <2>2, <2>3, <2>4 DEF DerpInv
<1>11. ASSUME NEW w \in Tasks, WriteFailed(w) PROVE DerpInv'
  BY <1>11, DerpAssumption
    DEF Tasks, DerpInv, WriteFailed, Step, Types, FrameRec, SupInv, FrameInv
<1>12. ASSUME NEW w \in Tasks, WriteFailedDrop(w) PROVE DerpInv'
  <2>1. Types'
    BY <1>12, DerpAssumption DEF DerpInv, Types, FrameRec, WriteFailedDrop, Step
  <2>2. SupInv'
    BY <1>12, DerpAssumption
      DEF Tasks, DerpInv, WriteFailedDrop, Step, Types, FrameRec, SupInv, FrameInv
  <2>3. FrameInv(w)'
    BY <1>12, DerpAssumption
      DEF DerpInv, WriteFailedDrop, Step, Types, FrameRec, SupInv, FrameInv
  <2>4. ASSUME NEW x \in Tasks \ {w} PROVE FrameInv(x)'
    BY <1>12, DerpAssumption
      DEF DerpInv, WriteFailedDrop, Step, Types, FrameRec, SupInv, FrameInv
  <2> QED
    BY <2>1, <2>2, <2>3, <2>4 DEF DerpInv
<1>13. ASSUME NEW w \in Tasks, AbortReads(w) PROVE DerpInv'
  BY <1>13, DerpAssumption
    DEF Tasks, DerpInv, AbortReads, Step, Types, FrameRec, SupInv, FrameInv
<1>14. ASSUME NEW w \in Tasks, Give(w) PROVE DerpInv'
  BY <1>14, DerpAssumption
    DEF Tasks, DerpInv, Give, Return, NoFrame, Types, FrameRec, SupInv, FrameInv
<1>15. CASE Connect
  BY <1>15, DerpAssumption
    DEF Tasks, DerpInv, Connect, SupAt, SupTo, Types, FrameRec, SupInv, FrameInv
<1>16. CASE NewConn
  BY <1>16, DerpAssumption
    DEF Tasks, DerpInv, NewConn, SupAt, SupTo, Types, FrameRec, SupInv, FrameInv
<1>17. CASE Reset
  BY <1>17, DerpAssumption
    DEF Tasks, DerpInv, Reset, SupAt, SupTo, Types, FrameRec, SupInv, FrameInv
<1>18. ASSUME NEW by \in {"addr", "name"}, OpenTls(by) PROVE DerpInv'
  <2>1. Types'
    BY <1>18, DerpAssumption
      DEF DerpInv, Types, FrameRec, OpenTls, SupAt, CloseThen, AfterFailure
  <2>2. SupInv'
    BY <1>18, DerpAssumption
      DEF Tasks, DerpInv, OpenTls, SupAt, CloseThen, AfterFailure, Types, FrameRec,
         SupInv, FrameInv
  <2>3. ASSUME NEW x \in Tasks PROVE FrameInv(x)'
    BY <1>18, DerpAssumption
      DEF DerpInv, OpenTls, SupAt, CloseThen, AfterFailure, Types, FrameRec, SupInv,
         FrameInv
  <2> QED
    BY <2>1, <2>2, <2>3 DEF DerpInv
<1>19. CASE Login
  <2>1. Types'
    BY <1>19, DerpAssumption
      DEF DerpInv, Types, FrameRec, Login, SupAt, SupTo, CloseThen
  <2>2. SupInv'
    BY <1>19, DerpAssumption
      DEF Tasks, DerpInv, Login, SupAt, SupTo, CloseThen, Types, FrameRec, SupInv,
         FrameInv
  <2>3. ASSUME NEW x \in Tasks PROVE FrameInv(x)'
    BY <1>19, DerpAssumption
      DEF DerpInv, Login, SupAt, SupTo, CloseThen, Types, FrameRec, SupInv, FrameInv
  <2> QED
    BY <2>1, <2>2, <2>3 DEF DerpInv
<1>20. CASE ConnectFailed
  BY <1>20, DerpAssumption
    DEF Tasks, DerpInv, ConnectFailed, SupAt, CloseThen, Types, FrameRec, SupInv,
       FrameInv
<1>21. CASE Run
  BY <1>21, DerpAssumption
    DEF Tasks, DerpInv, Run, SupAt, SupTo, CloseThen, Types, FrameRec, SupInv, FrameInv
<1>22. CASE EventEnd
  BY <1>22, DerpAssumption
    DEF Tasks, DerpInv, EventEnd, SupAt, SupTo, Leave, CloseThen, Types, FrameRec,
       SupInv, FrameInv
<1>23. CASE CloseDrop
  BY <1>23, DerpAssumption
    DEF Tasks, DerpInv, CloseDrop, SupAt, SupTo, Types, FrameRec, SupInv, FrameInv
<1>24. CASE CloseCut
  BY <1>24, DerpAssumption
    DEF Tasks, DerpInv, CloseCut, SupAt, SupTo, Types, FrameRec, SupInv, FrameInv
<1>25. CASE CloseTake
  BY <1>25, DerpAssumption
    DEF Tasks, DerpInv, CloseTake, SupAt, SupTo, Types, FrameRec, SupInv, FrameInv
<1>26. CASE CloseDestroy
  BY <1>26, DerpAssumption
    DEF Tasks, DerpInv, CloseDestroy, SupAt, SupTo, Types, FrameRec, SupInv, FrameInv
<1>27. CASE CloseGive
  BY <1>27, DerpAssumption
    DEF Tasks, DerpInv, CloseGive, SupAt, SupTo, Types, FrameRec, SupInv, FrameInv
<1>28. CASE ReadAborted
  BY <1>28, DerpAssumption
    DEF Tasks, DerpInv, ReadAborted, SupAt, Leave, CloseThen, Types, FrameRec, SupInv,
       FrameInv
<1>29. CASE ReadEnds
  BY <1>29, DerpAssumption
    DEF Tasks, DerpInv, ReadEnds, SupAt, Leave, CloseThen, Types, FrameRec, SupInv,
       FrameInv
<1>30. CASE ReadPing
  BY <1>30, DerpAssumption
    DEF Tasks, DerpInv, ReadPing, SupAt, Types, FrameRec, SupInv, FrameInv
<1>31. CASE ReadEvent
  BY <1>31, DerpAssumption
    DEF Tasks, DerpInv, ReadEvent, SupAt, SupTo, Types, FrameRec, SupInv, FrameInv
<1>32. CASE HostMoved
  BY <1>32, DerpAssumption
    DEF Tasks, DerpInv, HostMoved, Types, FrameRec, SupInv, FrameInv
<1>33. CASE IpChanged
  BY <1>33, DerpAssumption
    DEF Tasks, DerpInv, IpChanged, Types, FrameRec, SupInv, FrameInv
<1>34. CASE UNCHANGED vars
  BY <1>34 DEF vars, DerpInv, Types, FrameRec, SupInv, FrameInv
<1> QED
  BY <1>1, <1>2, <1>3, <1>4, <1>5, <1>6, <1>7, <1>8, <1>9, <1>10, <1>11, <1>12, <1>13,
       <1>14, <1>15, <1>16, <1>17, <1>18, <1>19, <1>20, <1>21, <1>22, <1>23, <1>24,
       <1>25, <1>26, <1>27, <1>28, <1>29, <1>30, <1>31, <1>32, <1>33, <1>34
  DEF Next, Frame, Supervise, Close

(* Whatever the order of writes, slices, failures, closes and reconnects,  *)
(* of any number of tasks: a write call of derp_tls_write is always on the *)
(* live TLS context of the connection its frame set out on, never on a     *)
(* torn stream, and frame_failed_locked's abort_reads never reaches a      *)
(* connection on which nothing failed.                                     *)
THEOREM RelayConnectionSound == Spec => []ConnectionSound
<1>1. Init => DerpInv
  BY DerpAssumption DEF Init, DerpInv, Types, FrameRec, SupInv, FrameInv, NoFrame, Tasks
<1>2. DerpInv /\ [Next]_vars => DerpInv'
  BY DerpStep
<1>3. DerpInv => ConnectionSound
  BY DEF DerpInv, SupInv, FrameInv, ConnectionSound, NoUseAfterFree, FrameOnItsConn,
         NothingAfterFailure, InCall
<1> QED
  BY <1>1, <1>2, <1>3, PTL DEF Spec
=============================================================================
