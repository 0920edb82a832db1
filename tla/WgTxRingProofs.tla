--------------------------- MODULE WgTxRingProofs ---------------------------
(***************************************************************************)
(* The TX ring (wg_netif.c) for any number of slots and tasks: a slot is   *)
(* in one hand at a time, and tx_ring_destroy frees nothing in use.        *)
(*                                                                         *)
(* That a slot is in one hand carries over a step only with what says that *)
(* a hand about to pass a slot on has one (Holding).  The teardown rests   *)
(* on hs_lock (Locking): whoever is between the claim of a slot and its    *)
(* copy of the INIT holds it, and StopFree takes it.                       *)
(***************************************************************************)
EXTENDS WgTxRing, TLAPS

Owners == Slots \cup {None}
TaskPCs == {"idle", "seal", "set", "queue", "init", "copy", "login", "kick"}
TxPCs == {"top", "recv", "send", "clear", "flush", "owed", "exit", "gone"}
TaskRec == [pc : TaskPCs, then : {"idle", "init", "kick"}, slot : Owners, owes : BOOLEAN]
TxRec == [pc : TxPCs, slot : Owners, kept : BOOLEAN]

QueueTypes == free_q \in Seq(Slots) /\ ready_q \in Seq(Slots \cup Sentinels)
TaskTypes == task \in [Tasks -> TaskRec]
TxTypes == wg_tx \in TxRec
RingTypes == QueueTypes /\ TaskTypes /\ TxTypes

\* A task that is about to queue or give back a slot has one, and so has a
\* worker that sends.
Holding ==
  /\ \A t \in Tasks : task[t].pc \in {"seal", "copy"} => task[t].slot \in Slots
  /\ wg_tx.pc = "send" => wg_tx.slot \in Slots

\* The points of init_queue_relay and of the kick, under hs_lock.
Inside(t) ==
  \/ task[t].pc \in {"init", "copy", "kick"}
  \/ task[t].pc \in {"set", "queue"} /\ task[t].then \in {"init", "kick"}

Locking == \A t \in Tasks : Inside(t) => hs_lock = t

Teardown ==
  /\ ring = "freed" => wg_tx.pc = "gone" /\ \A t \in Tasks : task[t].pc # "copy"
  /\ stop = "joined" => wg_tx.pc = "gone"

RingInv == RingTypes /\ Holding /\ SlotOwnedOnce /\ Locking /\ Teardown

-----------------------------------------------------------------------------
(* What xQueueReceive leaves of a queue.                                   *)
LEMMA TailFacts ==
  ASSUME NEW S, NEW q \in Seq(S), q # <<>>
  PROVE  /\ Tail(q) \in Seq(S) /\ Head(q) \in S /\ In(q, Head(q))
         /\ \A x : In(Tail(q), x) => In(q, x)
         /\ \A x : Once(q, x) => Once(Tail(q), x)
         /\ \A x : Once(q, x) /\ x = Head(q) => ~In(Tail(q), x)
<1>1. /\ Tail(q) \in Seq(S) /\ Head(q) \in S /\ Head(q) = q[1]
      /\ Len(q) \in Nat /\ Len(q) >= 1 /\ Len(Tail(q)) = Len(q) - 1
      /\ DOMAIN q = 1 .. Len(q) /\ DOMAIN Tail(q) = 1 .. (Len(q) - 1)
  OBVIOUS
<1>2. \A i \in 1 .. (Len(q) - 1) : Tail(q)[i] = q[i + 1] /\ i + 1 \in 1 .. Len(q)
  BY <1>1
<1>3. In(q, Head(q))
  BY <1>1 DEF In
<1>4. ASSUME NEW x, In(Tail(q), x) PROVE In(q, x)
  BY <1>1, <1>2, <1>4 DEF In
<1>5. ASSUME NEW x, Once(q, x) PROVE Once(Tail(q), x)
  <2>1. SUFFICES ASSUME NEW i \in 1 .. (Len(q) - 1), NEW j \in 1 .. (Len(q) - 1),
                        Tail(q)[i] = x, Tail(q)[j] = x
                 PROVE  i = j
    BY <1>1 DEF Once
  <2>2. q[i + 1] = x /\ q[j + 1] = x /\ i + 1 \in DOMAIN q /\ j + 1 \in DOMAIN q
    BY <1>1, <1>2, <2>1
  <2>3. i + 1 = j + 1
    BY <1>5, <2>2 DEF Once
  <2>4. QED BY <2>3
<1>6. ASSUME NEW x, Once(q, x), x = Head(q) PROVE ~In(Tail(q), x)
  <2>1. SUFFICES ASSUME NEW i \in 1 .. (Len(q) - 1), Tail(q)[i] = x PROVE FALSE
    BY <1>1 DEF In
  <2>2. q[i + 1] = x /\ i + 1 \in DOMAIN q /\ q[1] = x /\ 1 \in DOMAIN q
    BY <1>1, <1>2, <1>6, <2>1
  <2>3. i + 1 = 1
    BY <1>6, <2>2 DEF Once
  <2>4. QED BY <2>3
<1>7. QED BY <1>1, <1>3, <1>4, <1>5, <1>6

(* What xQueueSend makes of one.                                           *)
LEMMA AppendFacts ==
  ASSUME NEW S, NEW q \in Seq(S), NEW y \in S
  PROVE  /\ Append(q, y) \in Seq(S)
         /\ \A x : In(Append(q, y), x) <=> In(q, x) \/ x = y
         /\ \A x : Once(q, x) /\ (x = y => ~In(q, x)) => Once(Append(q, y), x)
<1> DEFINE a == Append(q, y)
<1>1. /\ a \in Seq(S) /\ Len(q) \in Nat /\ DOMAIN q = 1 .. Len(q)
      /\ DOMAIN a = 1 .. (Len(q) + 1) /\ a[Len(q) + 1] = y
      /\ \A i \in 1 .. Len(q) : a[i] = q[i]
  OBVIOUS
<1> HIDE DEF a
<1>2. ASSUME NEW x PROVE In(a, x) <=> In(q, x) \/ x = y
  <2>1. ASSUME In(a, x), x # y PROVE In(q, x)
    BY <1>1, <2>1 DEF In
  <2>2. ASSUME In(q, x) PROVE In(a, x)
    BY <1>1, <2>2 DEF In
  <2>3. ASSUME x = y PROVE In(a, x)
    BY <1>1, <2>3 DEF In
  <2>4. QED BY <2>1, <2>2, <2>3
<1>3. ASSUME NEW x, Once(q, x), x = y => ~In(q, x) PROVE Once(a, x)
  <2>1. SUFFICES ASSUME NEW i \in 1 .. (Len(q) + 1), NEW j \in 1 .. (Len(q) + 1),
                        a[i] = x, a[j] = x
                 PROVE  i = j
    BY <1>1 DEF Once
  <2>2. CASE i \in 1 .. Len(q) /\ j \in 1 .. Len(q)
    BY <1>1, <1>3, <2>1, <2>2 DEF Once
  <2>3. CASE i = Len(q) + 1 /\ j \in 1 .. Len(q)
    BY <1>1, <1>3, <2>1, <2>3 DEF In
  <2>4. CASE j = Len(q) + 1 /\ i \in 1 .. Len(q)
    BY <1>1, <1>3, <2>1, <2>4 DEF In
  <2>5. QED BY <1>1, <2>2, <2>3, <2>4
<1>4. QED BY <1>1, <1>2, <1>3 DEF a

(* tx_ring_create queues every slot once.                                  *)
LEMMA AllFree ==
  ASSUME NEW q \in Bijection(1 .. Cardinality(Slots), Slots)
  PROVE  q \in Seq(Slots) /\ \A s : Once(q, s)
<1> DEFINE n == Cardinality(Slots)
<1>1. n \in Nat
  BY TxRingAssumption
<1> HIDE DEF n
<1>2. q \in [1 .. n -> Slots] /\ \A i, j \in DOMAIN q : q[i] = q[j] => i = j
  BY DEF Bijection, Injection, IsInjective, n
<1>3. QED BY <1>1, <1>2 DEF Once

(* What queue_rescue's test leaves of its caller.                          *)
LEMMA Tested ==
  ASSUME TaskTypes, NEW t \in Tasks, NEW then \in {"idle", "init", "kick"},
         NEW owes \in BOOLEAN, TestQueued(t, then, owes)
  PROVE  /\ TaskTypes'
         /\ task'[t].pc \in {then, "set"} /\ task'[t].then = then
         /\ task'[t].slot = task[t].slot
         /\ \A u \in Tasks \ {t} : task'[u] = task[u]
<1>1. CASE rescue_queued \/ ~Live
  BY <1>1, ZenonT(40) DEF TaskTypes, TaskRec, TaskPCs, TestQueued
<1>2. CASE ~(rescue_queued \/ ~Live)
  BY <1>2, ZenonT(40) DEF TaskTypes, TaskRec, TaskPCs, TestQueued
<1>3. QED BY <1>1, <1>2

(* The relay's task is one of the tasks.                                   *)
LEMMA DerpIsTask == Derp \in Tasks
BY DEF Tasks

(* Every step keeps the queues queues of slots and sentinels.              *)
LEMMA QueueTypesStep == ASSUME RingInv, [Next]_vars PROVE QueueTypes'
<1> USE DEF RingInv, RingTypes, QueueTypes, Holding
<1>1. ASSUME NEW t \in Tasks, SendClaim(t) PROVE QueueTypes'
  BY <1>1, TailFacts DEF SendClaim, At
<1>2. ASSUME NEW t \in Tasks, PathActs(t) PROVE QueueTypes'
  BY <1>2 DEF PathActs, TestQueued, queues, At
<1>3. ASSUME NEW t \in Tasks, InitBehind(t) PROVE QueueTypes'
  BY <1>3 DEF InitBehind, TestQueued, queues, At
<1>4. ASSUME NEW t \in Tasks, SealOk(t) PROVE QueueTypes'
  BY <1>4, AppendFacts DEF SealOk, SendReady, Idle, At, Sentinels
<1>5. ASSUME NEW t \in Tasks, SealFails(t) PROVE QueueTypes'
  BY <1>5, AppendFacts DEF SealFails, Idle, At
<1>6. ASSUME NEW t \in Tasks, SetQueued(t) PROVE QueueTypes'
  BY <1>6 DEF SetQueued, Go, queues, At
<1>7. ASSUME NEW t \in Tasks, QueueSentinel(t) PROVE QueueTypes'
  BY <1>7, AppendFacts DEF QueueSentinel, SendReady, Go, At, Sentinels
<1>8. ASSUME NEW t \in Tasks, InitClaim(t) PROVE QueueTypes'
  BY <1>8, TailFacts DEF InitClaim, At
<1>9. ASSUME NEW t \in Tasks, InitSkip(t) PROVE QueueTypes'
  BY <1>9 DEF InitSkip, Idle, queues, At
<1>10. ASSUME NEW t \in Tasks, InitQueue(t) PROVE QueueTypes'
  BY <1>10, AppendFacts DEF InitQueue, SendReady, Idle, At, Sentinels
<1>11. CASE Login
  BY <1>11 DEF Login, Go, queues, At
<1>12. CASE Kick
  BY <1>12 DEF Kick, TestQueued, Go, queues, At
<1>13. CASE KickNone
  BY <1>13 DEF KickNone, Go, queues, At
<1>14. CASE KickInit
  BY <1>14 DEF KickInit, TestQueued, Go, Idle, queues, At
<1>15. CASE RelayDown
  BY <1>15 DEF RelayDown, queues
<1>16. CASE TxTop
  BY <1>16 DEF TxTop, TxGo, queues
<1>17. CASE TxReceive
  BY <1>17, TailFacts DEF TxReceive
<1>18. CASE TxIdle
  BY <1>18 DEF TxIdle, TxGo, queues
<1>19. CASE TxSent
  BY <1>19, AppendFacts DEF TxSent
<1>20. CASE TxClear
  BY <1>20 DEF TxClear, TxGo, queues
<1>21. CASE TxOwed
  BY <1>21 DEF TxOwed, TxGo, queues
<1>22. CASE TxExit
  BY <1>22 DEF TxExit, TxGo, queues
<1>23. CASE Stop
  BY <1>23, AppendFacts DEF Stop, SendReady, Sentinels
<1>24. CASE StopJoin
  BY <1>24 DEF StopJoin, queues
<1>25. CASE StopTimeout
  BY <1>25 DEF StopTimeout, queues
<1>26. CASE StopFree
  <2>1. CASE stop = "joined"
    BY <1>26, <2>1 DEF StopFree
  <2>2. CASE stop # "joined"
    BY <1>26, <2>2 DEF StopFree
  <2>3. QED BY <2>1, <2>2
<1>27. ASSUME NEW kept \in BOOLEAN, TxFlush(kept) PROVE QueueTypes'
  BY <1>27 DEF TxFlush
<1>28. CASE UNCHANGED vars
  BY <1>28 DEF vars, queues
<1> HIDE DEF RingInv, RingTypes, QueueTypes, Holding
<1>29. QED
  BY <1>1, <1>2, <1>3, <1>4, <1>5, <1>6, <1>7, <1>8, <1>9, <1>10, <1>11, <1>12, <1>13,
     <1>14, <1>15, <1>16, <1>17, <1>18, <1>19, <1>20, <1>21, <1>22, <1>23, <1>24,
     <1>25, <1>26, <1>27, <1>28
     DEF Next, TaskStep, TxStep

(* Every step keeps the tasks typed.                                       *)
LEMMA TaskTypesStep == ASSUME RingInv, [Next]_vars PROVE TaskTypes'
<1> USE DEF RingInv, RingTypes, TaskTypes, TaskRec, TaskPCs, Owners
<1>1. ASSUME NEW t \in Tasks, SendClaim(t) PROVE TaskTypes'
  <2>1. Head(free_q) \in Slots
    BY <1>1, TailFacts DEF SendClaim, QueueTypes
  <2>2. QED
    BY <1>1, <2>1, ZenonT(40) DEF SendClaim
<1>2. ASSUME NEW t \in Tasks, PathActs(t) PROVE TaskTypes'
  BY <1>2, ZenonT(40) DEF PathActs, TestQueued, At
<1>3. ASSUME NEW t \in Tasks, InitBehind(t) PROVE TaskTypes'
  BY <1>3, ZenonT(40) DEF InitBehind, TestQueued, At
<1>4. ASSUME NEW t \in Tasks, SealOk(t) PROVE TaskTypes'
  BY <1>4 DEF SealOk, SendReady, Idle, At
<1>5. ASSUME NEW t \in Tasks, SealFails(t) PROVE TaskTypes'
  BY <1>5 DEF SealFails, Idle, At
<1>6. ASSUME NEW t \in Tasks, SetQueued(t) PROVE TaskTypes'
  BY <1>6 DEF SetQueued, Go, At
<1>7. ASSUME NEW t \in Tasks, QueueSentinel(t) PROVE TaskTypes'
  BY <1>7 DEF QueueSentinel, SendReady, Go, At
<1>8. ASSUME NEW t \in Tasks, InitClaim(t) PROVE TaskTypes'
  <2>1. Head(free_q) \in Slots
    BY <1>8, TailFacts DEF InitClaim, QueueTypes
  <2>2. QED
    BY <1>8, <2>1, ZenonT(40) DEF InitClaim
<1>9. ASSUME NEW t \in Tasks, InitSkip(t) PROVE TaskTypes'
  BY <1>9 DEF InitSkip, Idle, At
<1>10. ASSUME NEW t \in Tasks, InitQueue(t) PROVE TaskTypes'
  BY <1>10 DEF InitQueue, SendReady, Idle, At
<1>11. CASE Login
  BY <1>11, DerpIsTask DEF Login, Go, At
<1>12. CASE Kick
  <2>1. CASE rescue_owed
    <3>1. TestQueued(Derp, "kick", FALSE)
      BY <1>12, <2>1, ZenonT(40) DEF Kick
    <3> HIDE DEF TaskTypes
    <3>2. QED BY <3>1, DerpIsTask, Tested, ZenonT(40)
  <2>2. CASE ~rescue_owed
    BY <1>12, <2>2, DerpIsTask DEF Kick, Go, At
  <2>3. QED BY <2>1, <2>2
<1>13. CASE KickNone
  BY <1>13, DerpIsTask DEF KickNone, Go, At
<1>14. CASE KickInit
  <2>1. CASE Go(Derp, "init") /\ UNCHANGED hs_lock
    BY <1>14, <2>1, DerpIsTask DEF KickInit, Go, At
  <2>2. CASE TestQueued(Derp, "init", TRUE) /\ UNCHANGED hs_lock
    <3>1. TestQueued(Derp, "init", TRUE)
      BY <1>14, <2>2, ZenonT(40) DEF KickInit
    <3> HIDE DEF TaskTypes
    <3>2. QED BY <3>1, DerpIsTask, Tested, ZenonT(40)
  <2>3. CASE task' = [task EXCEPT ![Derp] = Idle] /\ hs_lock' = None
    BY <1>14, <2>3, DerpIsTask DEF KickInit, Idle, At
  <2>4. QED BY <1>14, <2>1, <2>2, <2>3, ZenonT(40) DEF KickInit
<1>15. CASE RelayDown
  BY <1>15 DEF RelayDown
<1>16. CASE TxTop
  BY <1>16 DEF TxTop, TxGo
<1>17. CASE TxReceive
  BY <1>17 DEF TxReceive
<1>18. CASE TxIdle
  BY <1>18 DEF TxIdle, TxGo
<1>19. CASE TxSent
  BY <1>19 DEF TxSent
<1>20. CASE TxClear
  BY <1>20 DEF TxClear, TxGo
<1>21. CASE TxOwed
  BY <1>21 DEF TxOwed, TxGo
<1>22. CASE TxExit
  BY <1>22 DEF TxExit, TxGo
<1>23. CASE Stop
  BY <1>23 DEF Stop, SendReady
<1>24. CASE StopJoin
  BY <1>24 DEF StopJoin
<1>25. CASE StopTimeout
  BY <1>25 DEF StopTimeout
<1>26. CASE StopFree
  BY <1>26 DEF StopFree
<1>27. ASSUME NEW kept \in BOOLEAN, TxFlush(kept) PROVE TaskTypes'
  BY <1>27, ZenonT(40) DEF TxFlush
<1>28. CASE UNCHANGED vars
  BY <1>28 DEF vars
<1> HIDE DEF RingInv, RingTypes, TaskTypes, TaskRec, TaskPCs, Owners
<1>29. QED
  BY <1>1, <1>2, <1>3, <1>4, <1>5, <1>6, <1>7, <1>8, <1>9, <1>10, <1>11, <1>12, <1>13,
     <1>14, <1>15, <1>16, <1>17, <1>18, <1>19, <1>20, <1>21, <1>22, <1>23, <1>24,
     <1>25, <1>26, <1>27, <1>28
     DEF Next, TaskStep, TxStep

(* Every step keeps the worker typed.                                      *)
LEMMA TxTypesStep == ASSUME RingInv, [Next]_vars PROVE TxTypes'
<1> USE DEF RingInv, RingTypes, TxTypes, TxRec, TxPCs, Owners
<1>1. ASSUME NEW t \in Tasks, SendClaim(t) PROVE TxTypes'
  BY <1>1 DEF SendClaim, At
<1>2. ASSUME NEW t \in Tasks, PathActs(t) PROVE TxTypes'
  BY <1>2 DEF PathActs, TestQueued, At
<1>3. ASSUME NEW t \in Tasks, InitBehind(t) PROVE TxTypes'
  BY <1>3 DEF InitBehind, TestQueued, At
<1>4. ASSUME NEW t \in Tasks, SealOk(t) PROVE TxTypes'
  BY <1>4 DEF SealOk, SendReady, Idle, At
<1>5. ASSUME NEW t \in Tasks, SealFails(t) PROVE TxTypes'
  BY <1>5 DEF SealFails, Idle, At
<1>6. ASSUME NEW t \in Tasks, SetQueued(t) PROVE TxTypes'
  BY <1>6 DEF SetQueued, Go, At
<1>7. ASSUME NEW t \in Tasks, QueueSentinel(t) PROVE TxTypes'
  BY <1>7 DEF QueueSentinel, SendReady, Go, At
<1>8. ASSUME NEW t \in Tasks, InitClaim(t) PROVE TxTypes'
  BY <1>8 DEF InitClaim, At
<1>9. ASSUME NEW t \in Tasks, InitSkip(t) PROVE TxTypes'
  BY <1>9 DEF InitSkip, Idle, At
<1>10. ASSUME NEW t \in Tasks, InitQueue(t) PROVE TxTypes'
  BY <1>10 DEF InitQueue, SendReady, Idle, At
<1>11. CASE Login
  BY <1>11 DEF Login, Go, At
<1>12. CASE Kick
  BY <1>12 DEF Kick, TestQueued, Go, At
<1>13. CASE KickNone
  BY <1>13 DEF KickNone, Go, At
<1>14. CASE KickInit
  BY <1>14 DEF KickInit, TestQueued, Go, Idle, At
<1>15. CASE RelayDown
  BY <1>15 DEF RelayDown
<1>16. CASE TxTop
  BY <1>16 DEF TxTop, TxGo
<1>17. CASE TxReceive
  <2>1. Head(ready_q) \in Slots \cup Sentinels
    BY <1>17, TailFacts DEF TxReceive, QueueTypes
  <2>2. CASE Head(ready_q) = "RESCUE"
    BY <1>17, <2>2 DEF TxReceive
  <2>3. CASE Head(ready_q) = "STOP"
    BY <1>17, <2>3 DEF TxReceive
  <2>4. CASE Head(ready_q) \notin Sentinels
    BY <1>17, <2>1, <2>4, ZenonT(40) DEF TxReceive, Sentinels
  <2>5. QED BY <2>2, <2>3, <2>4 DEF Sentinels
<1>18. CASE TxIdle
  BY <1>18 DEF TxIdle, TxGo
<1>19. CASE TxSent
  BY <1>19, ZenonT(40) DEF TxSent
<1>20. CASE TxClear
  BY <1>20 DEF TxClear, TxGo
<1>21. CASE TxOwed
  BY <1>21 DEF TxOwed, TxGo
<1>22. CASE TxExit
  BY <1>22 DEF TxExit, TxGo
<1>23. CASE Stop
  BY <1>23 DEF Stop, SendReady
<1>24. CASE StopJoin
  BY <1>24 DEF StopJoin
<1>25. CASE StopTimeout
  BY <1>25 DEF StopTimeout
<1>26. CASE StopFree
  BY <1>26 DEF StopFree
<1>27. ASSUME NEW kept \in BOOLEAN, TxFlush(kept) PROVE TxTypes'
  BY <1>27, ZenonT(40) DEF TxFlush
<1>28. CASE UNCHANGED vars
  BY <1>28 DEF vars
<1> HIDE DEF RingInv, RingTypes, TxTypes, TxRec, TxPCs, Owners
<1>29. QED
  BY <1>1, <1>2, <1>3, <1>4, <1>5, <1>6, <1>7, <1>8, <1>9, <1>10, <1>11, <1>12, <1>13,
     <1>14, <1>15, <1>16, <1>17, <1>18, <1>19, <1>20, <1>21, <1>22, <1>23, <1>24,
     <1>25, <1>26, <1>27, <1>28
     DEF Next, TaskStep, TxStep

(* Every step leaves a slot with whoever is about to pass it on.           *)
LEMMA HoldingStep == ASSUME RingInv, [Next]_vars PROVE Holding'
<1> USE DEF RingInv, RingTypes, QueueTypes, TaskTypes, TxTypes, Holding, TaskRec,
    TxRec, Owners
<1>1. ASSUME NEW t \in Tasks, SendClaim(t) PROVE Holding'
  BY <1>1, TailFacts DEF SendClaim, At
<1>2. ASSUME NEW t \in Tasks, PathActs(t) PROVE Holding'
  BY <1>2 DEF PathActs, TestQueued, queues, At
<1>3. ASSUME NEW t \in Tasks, InitBehind(t) PROVE Holding'
  BY <1>3 DEF InitBehind, TestQueued, queues, At
<1>4. ASSUME NEW t \in Tasks, SealOk(t) PROVE Holding'
  BY <1>4 DEF SealOk, SendReady, Idle, At, Sentinels
<1>5. ASSUME NEW t \in Tasks, SealFails(t) PROVE Holding'
  BY <1>5 DEF SealFails, Idle, At
<1>6. ASSUME NEW t \in Tasks, SetQueued(t) PROVE Holding'
  BY <1>6 DEF SetQueued, Go, queues, At
<1>7. ASSUME NEW t \in Tasks, QueueSentinel(t) PROVE Holding'
  BY <1>7 DEF QueueSentinel, SendReady, Go, At, Sentinels
<1>8. ASSUME NEW t \in Tasks, InitClaim(t) PROVE Holding'
  BY <1>8, TailFacts DEF InitClaim, At
<1>9. ASSUME NEW t \in Tasks, InitSkip(t) PROVE Holding'
  BY <1>9 DEF InitSkip, Idle, queues, At
<1>10. ASSUME NEW t \in Tasks, InitQueue(t) PROVE Holding'
  BY <1>10 DEF InitQueue, SendReady, Idle, At, Sentinels
<1>11. CASE Login
  BY <1>11, DerpIsTask DEF Login, Go, queues, At
<1>12. CASE Kick
  <2>1. CASE rescue_owed
    <3>1. TestQueued(Derp, "kick", FALSE) /\ TaskTypes
      BY <1>12, <2>1, ZenonT(40) DEF Kick
    <3>2. /\ task'[Derp].pc \in {"kick", "set"} /\ task'[Derp].then = "kick"
          /\ task'[Derp].slot = task[Derp].slot
          /\ \A u \in Tasks \ {Derp} : task'[u] = task[u]
      <4> HIDE DEF TaskTypes
      <4>1. QED BY <3>1, DerpIsTask, Tested, ZenonT(40)
    <3>3. QED
      BY <1>12, <2>1, <3>2, DerpIsTask DEF Kick, At
  <2>2. CASE ~rescue_owed
    BY <1>12, <2>2, DerpIsTask, ZenonT(40) DEF Kick, Go, At
  <2>3. QED BY <2>1, <2>2
<1>13. CASE KickNone
  BY <1>13, DerpIsTask DEF KickNone, Go, queues, At
<1>14. CASE KickInit
  <2>1. CASE Go(Derp, "init") /\ UNCHANGED hs_lock
    BY <1>14, <2>1, DerpIsTask DEF KickInit, Go, At
  <2>2. CASE TestQueued(Derp, "init", TRUE) /\ UNCHANGED hs_lock
    <3>1. TestQueued(Derp, "init", TRUE) /\ TaskTypes
      BY <1>14, <2>2, ZenonT(40) DEF KickInit
    <3>2. /\ task'[Derp].pc \in {"init", "set"} /\ task'[Derp].then = "init"
          /\ task'[Derp].slot = task[Derp].slot
          /\ \A u \in Tasks \ {Derp} : task'[u] = task[u]
      <4> HIDE DEF TaskTypes
      <4>1. QED BY <3>1, DerpIsTask, Tested, ZenonT(40)
    <3>3. QED
      BY <1>14, <2>2, <3>2, DerpIsTask DEF KickInit, At
  <2>3. CASE task' = [task EXCEPT ![Derp] = Idle] /\ hs_lock' = None
    BY <1>14, <2>3, DerpIsTask DEF KickInit, Idle, At
  <2>4. QED BY <1>14, <2>1, <2>2, <2>3, ZenonT(40) DEF KickInit
<1>15. CASE RelayDown
  BY <1>15 DEF RelayDown, queues
<1>16. CASE TxTop
  BY <1>16 DEF TxTop, TxGo, queues
<1>17. CASE TxReceive
  <2>1. Head(ready_q) \in Slots \cup Sentinels /\ task' = task
    BY <1>17, TailFacts DEF TxReceive
  <2>2. wg_tx'.pc = "send" => wg_tx'.slot = Head(ready_q) /\ Head(ready_q) \notin Sentinels
    BY <1>17 DEF TxReceive, Sentinels
  <2>3. QED BY <2>1, <2>2
<1>18. CASE TxIdle
  BY <1>18 DEF TxIdle, TxGo, queues
<1>19. CASE TxSent
  BY <1>19 DEF TxSent
<1>20. CASE TxClear
  BY <1>20 DEF TxClear, TxGo, queues
<1>21. CASE TxOwed
  BY <1>21 DEF TxOwed, TxGo, queues
<1>22. CASE TxExit
  BY <1>22 DEF TxExit, TxGo, queues
<1>23. CASE Stop
  BY <1>23 DEF Stop, SendReady, Sentinels
<1>24. CASE StopJoin
  BY <1>24 DEF StopJoin, queues
<1>25. CASE StopTimeout
  BY <1>25 DEF StopTimeout, queues
<1>26. CASE StopFree
  BY <1>26 DEF StopFree
<1>27. ASSUME NEW kept \in BOOLEAN, TxFlush(kept) PROVE Holding'
  BY <1>27 DEF TxFlush
<1>28. CASE UNCHANGED vars
  BY <1>28 DEF vars, queues
<1> HIDE DEF RingInv, RingTypes, QueueTypes, TaskTypes, TxTypes, Holding, TaskRec,
    TxRec, Owners
<1>29. QED
  BY <1>1, <1>2, <1>3, <1>4, <1>5, <1>6, <1>7, <1>8, <1>9, <1>10, <1>11, <1>12, <1>13,
     <1>14, <1>15, <1>16, <1>17, <1>18, <1>19, <1>20, <1>21, <1>22, <1>23, <1>24,
     <1>25, <1>26, <1>27, <1>28
     DEF Next, TaskStep, TxStep

(* Every step leaves hs_lock with the task inside.                         *)
LEMMA LockingStep == ASSUME RingInv, [Next]_vars PROVE Locking'
<1> USE DEF RingInv, RingTypes, QueueTypes, TaskTypes, TxTypes, Locking, Inside,
    TaskRec, None
<1>1. ASSUME NEW t \in Tasks, SendClaim(t) PROVE Locking'
  BY <1>1 DEF SendClaim, At
<1>2. ASSUME NEW t \in Tasks, PathActs(t) PROVE Locking'
  BY <1>2 DEF PathActs, TestQueued, At
<1>3. ASSUME NEW t \in Tasks, InitBehind(t) PROVE Locking'
  BY <1>3, TxRingAssumption DEF InitBehind, TestQueued, At
<1>4. ASSUME NEW t \in Tasks, SealOk(t) PROVE Locking'
  BY <1>4 DEF SealOk, SendReady, Idle, At
<1>5. ASSUME NEW t \in Tasks, SealFails(t) PROVE Locking'
  BY <1>5 DEF SealFails, Idle, At
<1>6. ASSUME NEW t \in Tasks, SetQueued(t) PROVE Locking'
  BY <1>6 DEF SetQueued, Go, At
<1>7. ASSUME NEW t \in Tasks, QueueSentinel(t) PROVE Locking'
  BY <1>7 DEF QueueSentinel, SendReady, Go, At
<1>8. ASSUME NEW t \in Tasks, InitClaim(t) PROVE Locking'
  BY <1>8 DEF InitClaim, At
<1>9. ASSUME NEW t \in Tasks, InitSkip(t) PROVE Locking'
  BY <1>9, TxRingAssumption DEF InitSkip, Idle, At
<1>10. ASSUME NEW t \in Tasks, InitQueue(t) PROVE Locking'
  BY <1>10, TxRingAssumption DEF InitQueue, SendReady, Idle, At
<1>11. CASE Login
  BY <1>11, DerpIsTask DEF Login, Go, At
<1>12. CASE Kick
  <2>1. CASE rescue_owed
    <3>1. TestQueued(Derp, "kick", FALSE) /\ TaskTypes
      BY <1>12, <2>1, ZenonT(40) DEF Kick
    <3>2. /\ task'[Derp].pc \in {"kick", "set"} /\ task'[Derp].then = "kick"
          /\ task'[Derp].slot = task[Derp].slot
          /\ \A u \in Tasks \ {Derp} : task'[u] = task[u]
      <4> HIDE DEF TaskTypes
      <4>1. QED BY <3>1, DerpIsTask, Tested, ZenonT(40)
    <3>3. QED
      BY <1>12, <2>1, <3>2, DerpIsTask, TxRingAssumption DEF Kick, At
  <2>2. CASE ~rescue_owed
    BY <1>12, <2>2, TxRingAssumption, DerpIsTask DEF Kick, Go, At
  <2>3. QED BY <2>1, <2>2
<1>13. CASE KickNone
  BY <1>13, DerpIsTask DEF KickNone, Go, At
<1>14. CASE KickInit
  <2>1. CASE Go(Derp, "init") /\ UNCHANGED hs_lock
    BY <1>14, <2>1, TxRingAssumption, DerpIsTask DEF KickInit, Go, At
  <2>2. CASE TestQueued(Derp, "init", TRUE) /\ UNCHANGED hs_lock
    <3>1. TestQueued(Derp, "init", TRUE) /\ TaskTypes
      BY <1>14, <2>2, ZenonT(40) DEF KickInit
    <3>2. /\ task'[Derp].pc \in {"init", "set"} /\ task'[Derp].then = "init"
          /\ task'[Derp].slot = task[Derp].slot
          /\ \A u \in Tasks \ {Derp} : task'[u] = task[u]
      <4> HIDE DEF TaskTypes
      <4>1. QED BY <3>1, DerpIsTask, Tested, ZenonT(40)
    <3>3. QED
      BY <1>14, <2>2, <3>2, DerpIsTask, TxRingAssumption DEF KickInit, At
  <2>3. CASE task' = [task EXCEPT ![Derp] = Idle] /\ hs_lock' = None
    BY <1>14, <2>3, TxRingAssumption, DerpIsTask DEF KickInit, Idle, At
  <2>4. QED BY <1>14, <2>1, <2>2, <2>3, ZenonT(40) DEF KickInit
<1>15. CASE RelayDown
  BY <1>15 DEF RelayDown
<1>16. CASE TxTop
  BY <1>16 DEF TxTop, TxGo
<1>17. CASE TxReceive
  BY <1>17 DEF TxReceive
<1>18. CASE TxIdle
  BY <1>18 DEF TxIdle, TxGo
<1>19. CASE TxSent
  BY <1>19 DEF TxSent
<1>20. CASE TxClear
  BY <1>20 DEF TxClear, TxGo
<1>21. CASE TxOwed
  BY <1>21 DEF TxOwed, TxGo
<1>22. CASE TxExit
  BY <1>22 DEF TxExit, TxGo
<1>23. CASE Stop
  BY <1>23 DEF Stop, SendReady
<1>24. CASE StopJoin
  BY <1>24 DEF StopJoin
<1>25. CASE StopTimeout
  BY <1>25 DEF StopTimeout
<1>26. CASE StopFree
  BY <1>26, TxRingAssumption DEF StopFree
<1>27. ASSUME NEW kept \in BOOLEAN, TxFlush(kept) PROVE Locking'
  BY <1>27 DEF TxFlush
<1>28. CASE UNCHANGED vars
  BY <1>28 DEF vars
<1> HIDE DEF RingInv, RingTypes, QueueTypes, TaskTypes, TxTypes, Locking, Inside,
    TaskRec, None
<1>29. QED
  BY <1>1, <1>2, <1>3, <1>4, <1>5, <1>6, <1>7, <1>8, <1>9, <1>10, <1>11, <1>12, <1>13,
     <1>14, <1>15, <1>16, <1>17, <1>18, <1>19, <1>20, <1>21, <1>22, <1>23, <1>24,
     <1>25, <1>26, <1>27, <1>28
     DEF Next, TaskStep, TxStep

(* Every step keeps the ring until nobody uses it.                         *)
LEMMA TeardownStep == ASSUME RingInv, [Next]_vars PROVE Teardown'
<1> USE DEF RingInv, RingTypes, QueueTypes, TaskTypes, TxTypes, Teardown, Locking,
    Inside, TaskRec, TxRec
<1>1. ASSUME NEW t \in Tasks, SendClaim(t) PROVE Teardown'
  BY <1>1 DEF SendClaim, At, ends, Live
<1>2. ASSUME NEW t \in Tasks, PathActs(t) PROVE Teardown'
  BY <1>2 DEF PathActs, TestQueued, At, ends
<1>3. ASSUME NEW t \in Tasks, InitBehind(t) PROVE Teardown'
  BY <1>3, TxRingAssumption DEF InitBehind, TestQueued, At, ends
<1>4. ASSUME NEW t \in Tasks, SealOk(t) PROVE Teardown'
  BY <1>4 DEF SealOk, SendReady, Idle, At, ends, Live
<1>5. ASSUME NEW t \in Tasks, SealFails(t) PROVE Teardown'
  BY <1>5 DEF SealFails, Idle, At, ends, Live
<1>6. ASSUME NEW t \in Tasks, SetQueued(t) PROVE Teardown'
  BY <1>6 DEF SetQueued, Go, At, ends
<1>7. ASSUME NEW t \in Tasks, QueueSentinel(t) PROVE Teardown'
  BY <1>7 DEF QueueSentinel, SendReady, Go, At, ends, Live
<1>8. ASSUME NEW t \in Tasks, InitClaim(t) PROVE Teardown'
  BY <1>8 DEF InitClaim, At, ends, Live
<1>9. ASSUME NEW t \in Tasks, InitSkip(t) PROVE Teardown'
  BY <1>9, TxRingAssumption DEF InitSkip, Idle, At, ends, Live
<1>10. ASSUME NEW t \in Tasks, InitQueue(t) PROVE Teardown'
  BY <1>10, TxRingAssumption DEF InitQueue, SendReady, Idle, At, ends
<1>11. CASE Login
  BY <1>11, DerpIsTask DEF Login, Go, At, ends
<1>12. CASE Kick
  <2>1. CASE rescue_owed
    <3>1. TestQueued(Derp, "kick", FALSE) /\ TaskTypes
      BY <1>12, <2>1, ZenonT(40) DEF Kick
    <3>2. /\ task'[Derp].pc \in {"kick", "set"} /\ task'[Derp].then = "kick"
          /\ task'[Derp].slot = task[Derp].slot
          /\ \A u \in Tasks \ {Derp} : task'[u] = task[u]
      <4> HIDE DEF TaskTypes
      <4>1. QED BY <3>1, DerpIsTask, Tested, ZenonT(40)
    <3>3. QED
      BY <1>12, <2>1, <3>2, DerpIsTask DEF Kick, At, ends
  <2>2. CASE ~rescue_owed
    BY <1>12, <2>2, DerpIsTask, ZenonT(40) DEF Kick, Go, At, ends
  <2>3. QED BY <2>1, <2>2
<1>13. CASE KickNone
  BY <1>13, DerpIsTask DEF KickNone, Go, At, ends
<1>14. CASE KickInit
  <2>1. CASE Go(Derp, "init") /\ UNCHANGED hs_lock
    BY <1>14, <2>1, DerpIsTask DEF KickInit, Go, At, ends
  <2>2. CASE TestQueued(Derp, "init", TRUE) /\ UNCHANGED hs_lock
    <3>1. TestQueued(Derp, "init", TRUE) /\ TaskTypes
      BY <1>14, <2>2, ZenonT(40) DEF KickInit
    <3>2. /\ task'[Derp].pc \in {"init", "set"} /\ task'[Derp].then = "init"
          /\ task'[Derp].slot = task[Derp].slot
          /\ \A u \in Tasks \ {Derp} : task'[u] = task[u]
      <4> HIDE DEF TaskTypes
      <4>1. QED BY <3>1, DerpIsTask, Tested, ZenonT(40)
    <3>3. QED
      BY <1>14, <2>2, <3>2, DerpIsTask DEF KickInit, At, ends
  <2>3. CASE task' = [task EXCEPT ![Derp] = Idle] /\ hs_lock' = None
    BY <1>14, <2>3, DerpIsTask DEF KickInit, Idle, At, ends
  <2>4. QED BY <1>14, <2>1, <2>2, <2>3, ZenonT(40) DEF KickInit
<1>15. CASE RelayDown
  BY <1>15 DEF RelayDown, ends
<1>16. CASE TxTop
  BY <1>16 DEF TxTop, TxGo, ends
<1>17. CASE TxReceive
  BY <1>17 DEF TxReceive, ends
<1>18. CASE TxIdle
  BY <1>18 DEF TxIdle, TxGo, ends
<1>19. CASE TxSent
  BY <1>19 DEF TxSent, ends
<1>20. CASE TxClear
  BY <1>20 DEF TxClear, TxGo, ends
<1>21. CASE TxOwed
  BY <1>21 DEF TxOwed, TxGo, ends
<1>22. CASE TxExit
  BY <1>22 DEF TxExit, TxGo, ends
<1>23. CASE Stop
  BY <1>23 DEF Stop, SendReady
<1>24. CASE StopJoin
  BY <1>24 DEF StopJoin
<1>25. CASE StopTimeout
  BY <1>25 DEF StopTimeout
<1>26. CASE StopFree
  <2>1. hs_lock = None /\ task' = task /\ wg_tx' = wg_tx /\ stop' = "done"
    BY <1>26 DEF StopFree
  <2>2. \A t \in Tasks : task[t].pc # "copy"
    BY <2>1, TxRingAssumption DEF None
  <2>3. CASE stop = "joined"
    BY <2>1, <2>2, <2>3
  <2>4. CASE stop # "joined"
    <3>1. ring' = ring
      BY <1>26, <2>4 DEF StopFree
    <3>2. QED BY <2>1, <3>1
  <2>5. QED BY <2>3, <2>4
<1>27. ASSUME NEW kept \in BOOLEAN, TxFlush(kept) PROVE Teardown'
  BY <1>27 DEF TxFlush, ends
<1>28. CASE UNCHANGED vars
  BY <1>28 DEF vars, ends
<1> HIDE DEF RingInv, RingTypes, QueueTypes, TaskTypes, TxTypes, Teardown, Locking,
    Inside, TaskRec, TxRec
<1>29. QED
  BY <1>1, <1>2, <1>3, <1>4, <1>5, <1>6, <1>7, <1>8, <1>9, <1>10, <1>11, <1>12, <1>13,
     <1>14, <1>15, <1>16, <1>17, <1>18, <1>19, <1>20, <1>21, <1>22, <1>23, <1>24,
     <1>25, <1>26, <1>27, <1>28
     DEF Next, TaskStep, TxStep

(* SlotOwnedOnce survives a step in which nobody gains a slot.                 *)
LEMMA NobodyGains ==
  ASSUME SlotOwnedOnce,
         \A s \in Slots : Once(free_q, s) => Once(free_q', s),
         \A s \in Slots : In(free_q', s) => In(free_q, s),
         \A s \in Slots : Once(ready_q, s) => Once(ready_q', s),
         \A s \in Slots : In(ready_q', s) => In(ready_q, s),
         wg_tx'.slot \in {wg_tx.slot, None},
         \A t \in Tasks : task'[t].slot \in {task[t].slot, None}
  PROVE  SlotOwnedOnce'
<1>1. \A s \in Slots : s # None
  BY TxRingAssumption DEF None
<1>2. QED BY <1>1 DEF SlotOwnedOnce

(* A task takes the head of the free queue (send_plaintext,                *)
(* init_queue_relay).                                                      *)
LEMMA TaskClaims ==
  ASSUME SlotOwnedOnce, QueueTypes, NEW t \in Tasks, free_q # <<>>, free_q' = Tail(free_q),
         ready_q' = ready_q, wg_tx' = wg_tx, task'[t].slot = Head(free_q),
         \A u \in Tasks \ {t} : task'[u] = task[u]
  PROVE  SlotOwnedOnce'
<1> DEFINE x == Head(free_q)
<1>1. /\ x \in Slots /\ In(free_q, x)
      /\ \A s : In(free_q', s) => In(free_q, s)
      /\ \A s : Once(free_q, s) => Once(free_q', s)
      /\ Once(free_q, x) => ~In(free_q', x)
  BY TailFacts DEF QueueTypes
<1> HIDE DEF x
<1>2. task'[t].slot = x
  BY DEF x
<1>3. SUFFICES ASSUME NEW s \in Slots
      PROVE  /\ Once(free_q', s) /\ Once(ready_q', s) /\ ~(In(free_q', s) /\ In(ready_q', s))
             /\ In(free_q', s) \/ In(ready_q', s) =>
                  wg_tx'.slot # s /\ \A u \in Tasks : task'[u].slot # s
             /\ wg_tx'.slot = s => \A u \in Tasks : task'[u].slot # s
             /\ \A u, v \in Tasks : task'[u].slot = s /\ task'[v].slot = s => u = v
  BY DEF SlotOwnedOnce
<1>4. CASE s = x
  BY <1>1, <1>2, <1>4 DEF SlotOwnedOnce
<1>5. CASE s # x
  BY <1>1, <1>2, <1>5 DEF SlotOwnedOnce
<1>6. QED BY <1>4, <1>5

(* A task passes its slot on to one of the queues, or drops it.            *)
LEMMA TaskPasses ==
  ASSUME SlotOwnedOnce, QueueTypes, NEW t \in Tasks, NEW x \in Slots, task[t].slot = x,
         task'[t].slot = None, \A u \in Tasks \ {t} : task'[u] = task[u], wg_tx' = wg_tx,
         \/ free_q' = free_q /\ ready_q' \in {ready_q, Append(ready_q, x)}
         \/ ready_q' = ready_q /\ free_q' = Append(free_q, x)
  PROVE  SlotOwnedOnce'
<1>1. x # None /\ \A s \in Slots : s # None
  BY TxRingAssumption DEF None
<1>2. ~In(free_q, x) /\ ~In(ready_q, x) /\ wg_tx.slot # x
  BY DEF SlotOwnedOnce
<1>3. /\ \A s \in Slots : Once(free_q', s) /\ Once(ready_q', s)
      /\ \A s \in Slots \ {x} : /\ (In(free_q', s) => In(free_q, s))
                                /\ (In(ready_q', s) => In(ready_q, s))
      /\ ~(In(free_q', x) /\ In(ready_q', x))
  <2>1. CASE free_q' = free_q /\ ready_q' = ready_q
    BY <1>2, <2>1 DEF SlotOwnedOnce
  <2>2. CASE free_q' = free_q /\ ready_q' = Append(ready_q, x)
    BY <1>2, <2>2, AppendFacts DEF SlotOwnedOnce, QueueTypes
  <2>3. CASE ready_q' = ready_q /\ free_q' = Append(free_q, x)
    BY <1>2, <2>3, AppendFacts DEF SlotOwnedOnce, QueueTypes
  <2>4. QED BY <2>1, <2>2, <2>3
<1>4. SUFFICES ASSUME NEW s \in Slots
      PROVE  /\ Once(free_q', s) /\ Once(ready_q', s) /\ ~(In(free_q', s) /\ In(ready_q', s))
             /\ In(free_q', s) \/ In(ready_q', s) =>
                  wg_tx'.slot # s /\ \A u \in Tasks : task'[u].slot # s
             /\ wg_tx'.slot = s => \A u \in Tasks : task'[u].slot # s
             /\ \A u, v \in Tasks : task'[u].slot = s /\ task'[v].slot = s => u = v
  BY DEF SlotOwnedOnce
<1>5. CASE s = x
  BY <1>1, <1>2, <1>3, <1>5 DEF SlotOwnedOnce
<1>6. CASE s # x
  BY <1>1, <1>3, <1>6 DEF SlotOwnedOnce
<1>7. QED BY <1>5, <1>6

(* The worker takes a slot off the ready queue (tx_task_fn).               *)
LEMMA WorkerTakes ==
  ASSUME SlotOwnedOnce, QueueTypes, ready_q # <<>>, ready_q' = Tail(ready_q), free_q' = free_q,
         task' = task, wg_tx'.slot = Head(ready_q), Head(ready_q) \in Slots
  PROVE  SlotOwnedOnce'
<1> DEFINE x == Head(ready_q)
<1>1. /\ x \in Slots /\ In(ready_q, x)
      /\ \A s : In(ready_q', s) => In(ready_q, s)
      /\ \A s : Once(ready_q, s) => Once(ready_q', s)
      /\ Once(ready_q, x) => ~In(ready_q', x)
  BY TailFacts DEF QueueTypes
<1>2. wg_tx'.slot = x
  OBVIOUS
<1> HIDE DEF x
<1>3. SUFFICES ASSUME NEW s \in Slots
      PROVE  /\ Once(free_q', s) /\ Once(ready_q', s) /\ ~(In(free_q', s) /\ In(ready_q', s))
             /\ In(free_q', s) \/ In(ready_q', s) =>
                  wg_tx'.slot # s /\ \A u \in Tasks : task'[u].slot # s
             /\ wg_tx'.slot = s => \A u \in Tasks : task'[u].slot # s
             /\ \A u, v \in Tasks : task'[u].slot = s /\ task'[v].slot = s => u = v
  BY DEF SlotOwnedOnce
<1>4. CASE s = x
  BY <1>1, <1>2, <1>4 DEF SlotOwnedOnce
<1>5. CASE s # x
  BY <1>1, <1>2, <1>5 DEF SlotOwnedOnce
<1>6. QED BY <1>4, <1>5

(* The worker gives the slot it has sent back (tx_task_fn).                *)
LEMMA WorkerFrees ==
  ASSUME SlotOwnedOnce, QueueTypes, wg_tx.slot \in Slots, wg_tx'.slot = None, task' = task,
         ready_q' = ready_q, free_q' = Append(free_q, wg_tx.slot)
  PROVE  SlotOwnedOnce'
<1> DEFINE x == wg_tx.slot
<1>1. \A s \in Slots : s # None
  BY TxRingAssumption DEF None
<1>2. ~In(free_q, x) /\ ~In(ready_q, x) /\ \A t \in Tasks : task[t].slot # x
  BY DEF SlotOwnedOnce
<1>3. /\ \A s \in Slots : Once(free_q', s)
      /\ \A s \in Slots \ {x} : In(free_q', s) => In(free_q, s)
  BY <1>2, AppendFacts DEF SlotOwnedOnce, QueueTypes
<1> HIDE DEF x
<1>4. QED BY <1>1, <1>2, <1>3 DEF SlotOwnedOnce, x

(* A sentinel in the ready queue is no slot (queue_rescue, wg_netif_stop). *)
LEMMA SentinelQueued ==
  ASSUME QueueTypes, NEW x \in Sentinels, ready_q' = ready_q \/ ready_q' = Append(ready_q, x)
  PROVE  \A s \in Slots : /\ In(ready_q', s) => In(ready_q, s)
                          /\ Once(ready_q, s) => Once(ready_q', s)
<1>1. CASE ready_q' = ready_q
  BY <1>1
<1>2. CASE ready_q' = Append(ready_q, x)
  <2>1. x \in Slots \cup Sentinels /\ ready_q \in Seq(Slots \cup Sentinels)
    BY DEF QueueTypes
  <2>2. /\ \A y : In(ready_q', y) <=> In(ready_q, y) \/ y = x
        /\ \A y : Once(ready_q, y) /\ (y = x => ~In(ready_q, y)) => Once(ready_q', y)
    BY <1>2, <2>1, AppendFacts
  <2>3. \A s \in Slots : s # x
    BY TxRingAssumption
  <2>4. QED BY <2>2, <2>3
<1>3. QED BY <1>1, <1>2

(* Every step leaves a slot in one hand.                                   *)
LEMMA OwnershipStep == ASSUME RingInv, [Next]_vars PROVE SlotOwnedOnce'
<1> USE DEF RingInv, RingTypes
<1>1. ASSUME NEW t \in Tasks, SendClaim(t) PROVE SlotOwnedOnce'
  <2>1. /\ free_q # <<>> /\ free_q' = Tail(free_q) /\ ready_q' = ready_q /\ wg_tx' = wg_tx
        /\ task'[t].slot = Head(free_q) /\ \A u \in Tasks \ {t} : task'[u] = task[u]
    BY <1>1 DEF SendClaim, TaskTypes, TaskRec
  <2>2. QED BY <1>1, <2>1, TaskClaims
<1>2. ASSUME NEW t \in Tasks, PathActs(t) PROVE SlotOwnedOnce'
  <2>1. free_q' = free_q /\ ready_q' = ready_q /\ wg_tx'.slot = wg_tx.slot
    BY <1>2 DEF PathActs, queues, TxTypes, TxRec
  <2>2. \A u \in Tasks : task'[u].slot \in {task[u].slot, None}
    BY <1>2, Tested, ZenonT(40) DEF PathActs
  <2>3. QED BY <2>1, <2>2, NobodyGains
<1>3. ASSUME NEW t \in Tasks, InitBehind(t) PROVE SlotOwnedOnce'
  <2>1. free_q' = free_q /\ ready_q' = ready_q /\ wg_tx'.slot = wg_tx.slot
    BY <1>3 DEF InitBehind, queues, TxTypes, TxRec
  <2>2. \A u \in Tasks : task'[u].slot \in {task[u].slot, None}
    BY <1>3, Tested, ZenonT(40) DEF InitBehind
  <2>3. QED BY <2>1, <2>2, NobodyGains
<1>4. ASSUME NEW t \in Tasks, SealOk(t) PROVE SlotOwnedOnce'
  <2>1. task[t].slot \in Slots
    BY <1>4 DEF SealOk, At, Holding
  <2>2. task'[t].slot = None /\ \A u \in Tasks \ {t} : task'[u] = task[u]
    BY <1>4 DEF SealOk, Idle, TaskTypes
  <2>3. /\ wg_tx' = wg_tx
        /\ free_q' = free_q /\ ready_q' \in {ready_q, Append(ready_q, task[t].slot)}
    BY <1>4 DEF SealOk, SendReady
  <2>4. QED BY <1>4, <2>1, <2>2, <2>3, TaskPasses
<1>5. ASSUME NEW t \in Tasks, SealFails(t) PROVE SlotOwnedOnce'
  <2>1. task[t].slot \in Slots
    BY <1>5 DEF SealFails, At, Holding
  <2>2. task'[t].slot = None /\ \A u \in Tasks \ {t} : task'[u] = task[u]
    BY <1>5 DEF SealFails, Idle, TaskTypes
  <2>3. /\ wg_tx' = wg_tx
        /\ ready_q' = ready_q /\ free_q' = Append(free_q, task[t].slot)
    BY <1>5 DEF SealFails
  <2>4. QED BY <1>5, <2>1, <2>2, <2>3, TaskPasses
<1>6. ASSUME NEW t \in Tasks, SetQueued(t) PROVE SlotOwnedOnce'
  <2>1. free_q' = free_q /\ ready_q' = ready_q /\ wg_tx'.slot = wg_tx.slot
    BY <1>6 DEF SetQueued, queues, TxTypes, TxRec
  <2>2. \A u \in Tasks : task'[u].slot \in {task[u].slot, None}
    BY <1>6 DEF SetQueued, Go, TaskTypes, TaskRec
  <2>3. QED BY <2>1, <2>2, NobodyGains
<1>7. ASSUME NEW t \in Tasks, QueueSentinel(t) PROVE SlotOwnedOnce'
  <2>1. free_q' = free_q /\ wg_tx' = wg_tx
    BY <1>7 DEF QueueSentinel
  <2>2. \A u \in Tasks : task'[u].slot = task[u].slot
    BY <1>7 DEF QueueSentinel, Go, TaskTypes, TaskRec
  <2>3. /\ \A s \in Slots : In(ready_q', s) => In(ready_q, s)
        /\ \A s \in Slots : Once(ready_q, s) => Once(ready_q', s)
    <3>1. ready_q' = ready_q \/ ready_q' = Append(ready_q, "RESCUE")
      BY <1>7 DEF QueueSentinel, SendReady
    <3>2. "RESCUE" \in Sentinels
      BY DEF Sentinels
    <3>3. QED BY <3>1, <3>2, SentinelQueued
  <2>4. QED BY <2>1, <2>2, <2>3, NobodyGains
<1>8. ASSUME NEW t \in Tasks, InitClaim(t) PROVE SlotOwnedOnce'
  <2>1. /\ free_q # <<>> /\ free_q' = Tail(free_q) /\ ready_q' = ready_q /\ wg_tx' = wg_tx
        /\ task'[t].slot = Head(free_q) /\ \A u \in Tasks \ {t} : task'[u] = task[u]
    BY <1>8 DEF InitClaim, TaskTypes, TaskRec
  <2>2. QED BY <1>8, <2>1, TaskClaims
<1>9. ASSUME NEW t \in Tasks, InitSkip(t) PROVE SlotOwnedOnce'
  <2>1. free_q' = free_q /\ ready_q' = ready_q /\ wg_tx'.slot = wg_tx.slot
    BY <1>9 DEF InitSkip, queues, TxTypes, TxRec
  <2>2. \A u \in Tasks : task'[u].slot \in {task[u].slot, None}
    BY <1>9 DEF InitSkip, Idle, TaskTypes, TaskRec
  <2>3. QED BY <2>1, <2>2, NobodyGains
<1>10. ASSUME NEW t \in Tasks, InitQueue(t) PROVE SlotOwnedOnce'
  <2>1. task[t].slot \in Slots
    BY <1>10 DEF InitQueue, At, Holding
  <2>2. task'[t].slot = None /\ \A u \in Tasks \ {t} : task'[u] = task[u]
    BY <1>10 DEF InitQueue, Idle, TaskTypes
  <2>3. /\ wg_tx' = wg_tx
        /\ free_q' = free_q /\ ready_q' \in {ready_q, Append(ready_q, task[t].slot)}
    BY <1>10 DEF InitQueue, SendReady
  <2>4. QED BY <1>10, <2>1, <2>2, <2>3, TaskPasses
<1>11. CASE Login
  <2>1. free_q' = free_q /\ ready_q' = ready_q /\ wg_tx'.slot = wg_tx.slot
    BY <1>11 DEF Login, queues, TxTypes, TxRec
  <2>2. \A u \in Tasks : task'[u].slot \in {task[u].slot, None}
    BY <1>11, DerpIsTask DEF Login, Go, TaskTypes, TaskRec
  <2>3. QED BY <2>1, <2>2, NobodyGains
<1>12. CASE Kick
  <2>1. free_q' = free_q /\ ready_q' = ready_q /\ wg_tx'.slot = wg_tx.slot
    BY <1>12 DEF Kick, queues, TxTypes, TxRec
  <2>2. \A u \in Tasks : task'[u].slot \in {task[u].slot, None}
    <3>1. CASE rescue_owed
      BY <1>12, <3>1, DerpIsTask, Tested, ZenonT(40) DEF Kick
    <3>2. CASE ~rescue_owed
      BY <1>12, <3>2, DerpIsTask DEF Kick, Go, TaskTypes, TaskRec
    <3>3. QED BY <3>1, <3>2
  <2>3. QED BY <2>1, <2>2, NobodyGains
<1>13. CASE KickNone
  <2>1. free_q' = free_q /\ ready_q' = ready_q /\ wg_tx'.slot = wg_tx.slot
    BY <1>13 DEF KickNone, queues, TxTypes, TxRec
  <2>2. \A u \in Tasks : task'[u].slot \in {task[u].slot, None}
    BY <1>13, DerpIsTask DEF KickNone, Go, TaskTypes, TaskRec
  <2>3. QED BY <2>1, <2>2, NobodyGains
<1>14. CASE KickInit
  <2>1. free_q' = free_q /\ ready_q' = ready_q /\ wg_tx'.slot = wg_tx.slot
    BY <1>14 DEF KickInit, queues, TxTypes, TxRec
  <2>2. \A u \in Tasks : task'[u].slot \in {task[u].slot, None}
    <3>1. CASE Go(Derp, "init")
      BY <1>14, <3>1, DerpIsTask DEF Go, TaskTypes, TaskRec
    <3>2. CASE TestQueued(Derp, "init", TRUE)
      BY <1>14, <3>2, DerpIsTask, Tested, ZenonT(40)
    <3>3. CASE task' = [task EXCEPT ![Derp] = Idle]
      BY <1>14, <3>3, DerpIsTask DEF Idle, TaskTypes, TaskRec
    <3>4. QED BY <1>14, <3>1, <3>2, <3>3, ZenonT(40) DEF KickInit
  <2>3. QED BY <2>1, <2>2, NobodyGains
<1>15. CASE RelayDown
  <2>1. free_q' = free_q /\ ready_q' = ready_q /\ wg_tx'.slot = wg_tx.slot
    BY <1>15 DEF RelayDown, queues, TxTypes, TxRec
  <2>2. \A u \in Tasks : task'[u].slot \in {task[u].slot, None}
    BY <1>15 DEF RelayDown
  <2>3. QED BY <2>1, <2>2, NobodyGains
<1>16. CASE TxTop
  <2>1. free_q' = free_q /\ ready_q' = ready_q /\ wg_tx'.slot = wg_tx.slot
    BY <1>16 DEF TxTop, TxGo, queues, TxTypes, TxRec
  <2>2. \A u \in Tasks : task'[u].slot \in {task[u].slot, None}
    BY <1>16 DEF TxTop
  <2>3. QED BY <2>1, <2>2, NobodyGains
<1>17. CASE TxReceive
  <2>1. /\ ready_q # <<>> /\ ready_q' = Tail(ready_q) /\ free_q' = free_q /\ task' = task
    BY <1>17 DEF TxReceive
  <2>2. CASE Head(ready_q) \in Sentinels
    <3>1. wg_tx'.slot = wg_tx.slot
      BY <1>17, <2>2 DEF TxReceive, Sentinels, TxTypes, TxRec
    <3>2. QED BY <2>1, <3>1, NobodyGains, TailFacts DEF QueueTypes
  <2>3. CASE Head(ready_q) \notin Sentinels
    <3>1. Head(ready_q) \in Slots
      BY <2>1, <2>3, TailFacts DEF QueueTypes
    <3>2. wg_tx'.slot = Head(ready_q)
      BY <1>17, <2>3 DEF TxReceive, Sentinels, TxTypes, TxRec
    <3>3. QED BY <2>1, <3>1, <3>2, WorkerTakes
  <2>4. QED BY <2>2, <2>3
<1>18. CASE TxIdle
  <2>1. free_q' = free_q /\ ready_q' = ready_q /\ wg_tx'.slot = wg_tx.slot
    BY <1>18 DEF TxIdle, TxGo, queues, TxTypes, TxRec
  <2>2. \A u \in Tasks : task'[u].slot \in {task[u].slot, None}
    BY <1>18 DEF TxIdle
  <2>3. QED BY <2>1, <2>2, NobodyGains
<1>19. CASE TxSent
  <2>1. /\ wg_tx.slot \in Slots /\ wg_tx'.slot = None /\ task' = task
        /\ ready_q' = ready_q /\ free_q' = Append(free_q, wg_tx.slot)
    BY <1>19 DEF TxSent, Holding, TxTypes, TxRec
  <2>2. QED BY <2>1, WorkerFrees
<1>20. CASE TxClear
  <2>1. free_q' = free_q /\ ready_q' = ready_q /\ wg_tx'.slot = wg_tx.slot
    BY <1>20 DEF TxClear, TxGo, queues, TxTypes, TxRec
  <2>2. \A u \in Tasks : task'[u].slot \in {task[u].slot, None}
    BY <1>20 DEF TxClear
  <2>3. QED BY <2>1, <2>2, NobodyGains
<1>21. CASE TxOwed
  <2>1. free_q' = free_q /\ ready_q' = ready_q /\ wg_tx'.slot = wg_tx.slot
    BY <1>21 DEF TxOwed, TxGo, queues, TxTypes, TxRec
  <2>2. \A u \in Tasks : task'[u].slot \in {task[u].slot, None}
    BY <1>21 DEF TxOwed
  <2>3. QED BY <2>1, <2>2, NobodyGains
<1>22. CASE TxExit
  <2>1. free_q' = free_q /\ ready_q' = ready_q /\ wg_tx'.slot = wg_tx.slot
    BY <1>22 DEF TxExit, TxGo, queues, TxTypes, TxRec
  <2>2. \A u \in Tasks : task'[u].slot \in {task[u].slot, None}
    BY <1>22 DEF TxExit
  <2>3. QED BY <2>1, <2>2, NobodyGains
<1>23. CASE Stop
  <2>1. free_q' = free_q /\ wg_tx' = wg_tx /\ task' = task
    BY <1>23 DEF Stop
  <2>2. /\ \A s \in Slots : In(ready_q', s) => In(ready_q, s)
        /\ \A s \in Slots : Once(ready_q, s) => Once(ready_q', s)
    <3>1. ready_q' = ready_q \/ ready_q' = Append(ready_q, "STOP")
      BY <1>23 DEF Stop, SendReady
    <3>2. "STOP" \in Sentinels
      BY DEF Sentinels
    <3>3. QED BY <3>1, <3>2, SentinelQueued
  <2>3. QED BY <2>1, <2>2, NobodyGains
<1>24. CASE StopJoin
  <2>1. free_q' = free_q /\ ready_q' = ready_q /\ wg_tx'.slot = wg_tx.slot
    BY <1>24 DEF StopJoin, queues, TxTypes, TxRec
  <2>2. \A u \in Tasks : task'[u].slot \in {task[u].slot, None}
    BY <1>24 DEF StopJoin
  <2>3. QED BY <2>1, <2>2, NobodyGains
<1>25. CASE StopTimeout
  <2>1. free_q' = free_q /\ ready_q' = ready_q /\ wg_tx'.slot = wg_tx.slot
    BY <1>25 DEF StopTimeout, queues, TxTypes, TxRec
  <2>2. \A u \in Tasks : task'[u].slot \in {task[u].slot, None}
    BY <1>25 DEF StopTimeout
  <2>3. QED BY <2>1, <2>2, NobodyGains
<1>26. CASE StopFree
  <2>1. task' = task /\ wg_tx' = wg_tx
    BY <1>26 DEF StopFree
  <2>2. CASE stop = "joined"
    <3>1. free_q' = <<>> /\ ready_q' = <<>>
      BY <1>26, <2>2 DEF StopFree
    <3>2. \A s : ~In(free_q', s) /\ ~In(ready_q', s) /\ Once(free_q', s) /\ Once(ready_q', s)
      BY <3>1 DEF In, Once
    <3>3. QED BY <2>1, <3>2, NobodyGains
  <2>3. CASE stop # "joined"
    <3>1. free_q' = free_q /\ ready_q' = ready_q
      BY <1>26, <2>3 DEF StopFree
    <3>2. QED BY <2>1, <3>1, NobodyGains
  <2>4. QED BY <2>2, <2>3
<1>27. ASSUME NEW kept \in BOOLEAN, TxFlush(kept) PROVE SlotOwnedOnce'
  <2>1. free_q' = free_q /\ ready_q' = ready_q /\ wg_tx'.slot = wg_tx.slot
    BY <1>27 DEF TxFlush, queues, TxTypes, TxRec
  <2>2. \A u \in Tasks : task'[u].slot \in {task[u].slot, None}
    BY <1>27 DEF TxFlush, TaskTypes, TaskRec
  <2>3. QED BY <2>1, <2>2, NobodyGains
<1>28. CASE UNCHANGED vars
  <2>1. free_q' = free_q /\ ready_q' = ready_q /\ wg_tx'.slot = wg_tx.slot
    BY <1>28 DEF vars, queues, TxTypes, TxRec
  <2>2. \A u \in Tasks : task'[u].slot \in {task[u].slot, None}
    BY <1>28 DEF vars
  <2>3. QED BY <2>1, <2>2, NobodyGains
<1> HIDE DEF RingInv, RingTypes
<1>29. QED
  BY <1>1, <1>2, <1>3, <1>4, <1>5, <1>6, <1>7, <1>8, <1>9, <1>10, <1>11, <1>12, <1>13,
     <1>14, <1>15, <1>16, <1>17, <1>18, <1>19, <1>20, <1>21, <1>22, <1>23, <1>24,
     <1>25, <1>26, <1>27, <1>28
     DEF Next, TaskStep, TxStep

(* An idle worker, idle tasks and every slot in the free queue.            *)
LEMMA RingStart == ASSUME Init PROVE RingInv
<1>1. \A t \in Tasks : task[t] = Idle
  BY DEF Init
<1>2. \A s \in Slots : s # None
  BY TxRingAssumption DEF None
<1>3. RingTypes
  BY AllFree DEF Init, Idle, RingTypes, QueueTypes, TaskTypes, TxTypes, TaskRec, TxRec,
     TaskPCs, TxPCs, Owners
<1>4. Holding
  BY <1>1 DEF Init, Idle, Holding
<1>5. SlotOwnedOnce
  <2>1. \A s : ~In(ready_q, s) /\ Once(ready_q, s) /\ Once(free_q, s)
    <3>1. ready_q = <<>> /\ free_q \in Bijection(1 .. Cardinality(Slots), Slots)
      BY DEF Init
    <3>2. \A s : ~In(ready_q, s) /\ Once(ready_q, s)
      BY <3>1 DEF In, Once
    <3>3. QED BY <3>1, <3>2, AllFree
  <2>2. wg_tx.slot = None /\ \A t \in Tasks : task[t].slot = None
    BY <1>1 DEF Init, Idle
  <2>3. QED BY <1>2, <2>1, <2>2 DEF SlotOwnedOnce
<1>6. Locking
  BY <1>1 DEF Idle, Locking, Inside
<1>7. Teardown
  BY DEF Init, Teardown
<1>8. QED BY <1>3, <1>4, <1>5, <1>6, <1>7 DEF RingInv

(* send_plaintext, init_queue_relay, tx_task_fn and tx_ring_destroy: for   *)
(* any number of slots and of tasks, a frame slot is in one hand at a      *)
(* time, and the ring is freed only when the worker is gone and no INIT    *)
(* is being copied into it.                                                *)
THEOREM RingAlwaysSound == Spec => []RingSound
<1>1. Init => RingInv
  BY RingStart
<1>2. RingInv /\ [Next]_vars => RingInv'
  BY QueueTypesStep, TaskTypesStep, TxTypesStep, HoldingStep, OwnershipStep, LockingStep,
     TeardownStep DEF RingInv, RingTypes
<1>3. RingInv => RingSound
  BY DEF RingInv, Teardown, RingSound, FreedRingUnused, At
<1>4. QED
  BY <1>1, <1>2, <1>3, PTL DEF Spec
=============================================================================
