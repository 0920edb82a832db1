------------------------------ MODULE WgRescue ------------------------------
(***************************************************************************)
(* The rescue ring (wg_rescue.h): copies of the last data frames that went *)
(* by the direct path only, re-sent via the relay when that path is found  *)
(* dead.  wg_tx owns the ring and publishes a summary of it (rescue_sum);  *)
(* the task that sends a handshake INIT asks the summary whether the INIT  *)
(* would make the peer delete a keypair that still seals such a frame.     *)
(***************************************************************************)
EXTENDS Integers, Sequences, FiniteSets, SequencesExt

CONSTANTS
  RescueSlots, \* WG_RESCUE_SLOTS
  MaxAge,      \* WG_PATH_RESCUE_MAX_MS
  Transit,     \* WG_RESCUE_TRANSIT_MS
  MaxGen,      \* bound: keypair generations
  MaxTime      \* bound: the clock

VARIABLES
  now,
  cur_gen,   \* g.transport.gen
  from,      \* wg_path_rescue_from: frames sent before were delivered
  ring,      \* the slots, oldest first
  sent,      \* sent_gen and sent_us: the two newest keypairs re-sent
  sum,       \* g.rescue_sum
  flush,     \* wg_rescue_flush: pc, i, left, now, from
  kept_gen,  \* history: keypair of the last frame kept
  kept_at,   \* history: when it was sent
  handed,    \* history: when a frame of each keypair last left for the relay
  order      \* history: when the last frame handed over had been sent

vars == <<now, cur_gen, from, ring, sent, sum, flush, kept_gen, kept_at, handed, order>>
session == <<cur_gen, from>>
history == <<kept_gen, kept_at, handed, order>>

Gens == 1 .. MaxGen
Time == 0 .. MaxTime
Empty == [at |-> 0, gen |-> 0, owed |-> FALSE]
NoSent == [gen |-> 0, at |-> 0]
NoGen == [gen |-> 0, newest |-> 0, owed |-> 0]
NoFlush == [pc |-> "idle", i |-> 0, left |-> 0, now |-> 0, from |-> 0, sent |-> 0]

(* wg_timer_due: more than `period` since `since`.                         *)
Due(t, since, period) == t - since > period

-----------------------------------------------------------------------------
AddToSum(s, f) ==
  IF f.at = 0 THEN s
  ELSE LET new == s[1].gen # f.gen
           top == IF new THEN [NoGen EXCEPT !.gen = f.gen] ELSE s[1]
       IN <<[top EXCEPT !.newest = f.at, !.owed = IF f.owed THEN f.at ELSE @],
            IF new THEN s[1] ELSE s[2]>>

Summary(r, st) == [of |-> FoldLeft(AddToSum, <<NoGen, NoGen>>, r), sent |-> st]

(* wg_rescue_pending_: owed, or sent since the last proof; and not too old.*)
Pending(f, t, since) ==
  f.at # 0 /\ (f.owed \/ f.at >= since) /\ ~Due(t, f.at, MaxAge)

(* wg_rescue_gen_at_risk_: keypairs a new INIT makes the peer delete.      *)
GenAtRisk(g, confirmed) == g # 0 /\ (g = cur_gen - 1 \/ (~confirmed /\ g = cur_gen))

(* wg_rescue_init_risk, on the summary alone.                              *)
InitRisk(s, confirmed) ==
  \E i \in 1 .. 2 :
    \/ GenAtRisk(s.sent[i].gen, confirmed) /\ ~Due(now, s.sent[i].at, Transit)
    \/ LET g == s.of[i]
           last == IF g.owed # 0 /\ g.newest < from THEN g.owed ELSE g.newest
       IN /\ GenAtRisk(g.gen, confirmed)
          /\ g.owed # 0 \/ g.newest >= from
          /\ ~Due(now, last, MaxAge)

-----------------------------------------------------------------------------
Init ==
  /\ now = 1 /\ cur_gen = 1 /\ from = 0
  /\ ring = [i \in 1 .. RescueSlots |-> Empty]
  /\ sent = <<NoSent, NoSent>> /\ sum = Summary(ring, sent)
  /\ flush = NoFlush
  /\ kept_gen = 0 /\ kept_at = 0 /\ handed = [g \in Gens |-> -Transit - 1] /\ order = 0

Tick ==
  /\ now < MaxTime
  /\ now' = now + 1
  /\ UNCHANGED <<session, ring, sent, sum, flush, history>>

(* A handshake installs the next keypair.                                  *)
Rekey ==
  /\ cur_gen < MaxGen
  /\ cur_gen' = cur_gen + 1
  /\ UNCHANGED <<now, from, ring, sent, sum, flush, history>>

(* A proof of delivery: wg_path's delivered_us moves on.                   *)
Proof(t) ==
  /\ from < t /\ t < now
  /\ from' = t
  /\ UNCHANGED <<now, cur_gen, ring, sent, sum, flush, history>>

(* rescue_keep, rescue_publish: a frame went direct only.  It was sealed   *)
(* under the present keypair or just before the rekey.  Data frames leave  *)
(* in the order they were sealed: lwIP's core lock is held over the seal   *)
(* and the queueing.  One frame an instant.                                *)
Keep(g) ==
  /\ flush.pc = "idle" /\ kept_at < now
  /\ g \in {cur_gen - 1, cur_gen} \ {0} /\ g >= kept_gen
  /\ ring' = Append(Tail(ring), [at |-> now, gen |-> g, owed |-> FALSE])
  /\ sum' = Summary(ring', sent)
  /\ kept_gen' = g /\ kept_at' = now
  /\ UNCHANGED <<now, session, sent, flush, handed, order>>

(* tx_rescue: the clock and the proof are read once ...                    *)
FlushBegin ==
  /\ flush.pc = "idle" /\ \E i \in DOMAIN ring : ring[i].at # 0
  /\ flush' = [NoFlush EXCEPT !.pc = "pass", !.i = 1, !.now = now, !.from = from]
  /\ UNCHANGED <<now, session, ring, sent, sum, history>>

NextSlot == flush' = [flush EXCEPT !.i = @ + 1]
Frame == ring[flush.i]
InPass == flush.pc = "pass" /\ flush.i <= RescueSlots

(* ... an empty slot, or a frame delivered or too old to matter ...        *)
FlushDrop ==
  /\ InPass /\ ~Pending(Frame, flush.now, flush.from)
  /\ ring' = [ring EXCEPT ![flush.i] = Empty]
  /\ NextSlot
  /\ UNCHANGED <<now, session, sent, sum, history>>

\* Mutant: a pass goes on after a refusal.
FlushSendOn ==
  /\ InPass /\ Pending(Frame, flush.now, flush.from)
  /\ ring' = [ring EXCEPT ![flush.i] = Empty]
  /\ sent' = <<[gen |-> Frame.gen, at |-> flush.now],
               IF Frame.gen # sent[1].gen THEN sent[1] ELSE sent[2]>>
  /\ flush' = [flush EXCEPT !.i = @ + 1, !.sent = 1]
  /\ handed' = [handed EXCEPT ![Frame.gen] = now]
  /\ order' = Frame.at
  /\ UNCHANGED <<now, session, sum, kept_gen, kept_at>>

(* ... a frame the relay takes, after a wait ...                           *)
FlushSend ==
  /\ InPass /\ Pending(Frame, flush.now, flush.from) /\ flush.left = 0
  /\ ring' = [ring EXCEPT ![flush.i] = Empty]
  /\ sent' = <<[gen |-> Frame.gen, at |-> flush.now],
               IF Frame.gen # sent[1].gen THEN sent[1] ELSE sent[2]>>
  /\ flush' = [flush EXCEPT !.i = @ + 1, !.sent = 1]
  /\ handed' = [handed EXCEPT ![Frame.gen] = now]
  /\ order' = Frame.at
  /\ UNCHANGED <<now, session, sum, kept_gen, kept_at>>

(* ... or refuses, and then the rest is kept, owed ...                     *)
FlushRefused ==
  /\ InPass /\ Pending(Frame, flush.now, flush.from)
  /\ ring' = [ring EXCEPT ![flush.i].owed = TRUE]
  /\ flush' = [flush EXCEPT !.i = @ + 1, !.left = 1]
  /\ UNCHANGED <<now, session, sent, sum, history>>

\* Mutant: wg_rescue_sent_by is left out.
SentByNone(st) == st

(* wg_rescue_sent_by: what this pass handed over left by now.              *)
SentBy(st) ==
  [i \in 1 .. 2 |-> IF st[i].gen # 0 /\ st[i].at = flush.now THEN [st[i] EXCEPT !.at = now]
                    ELSE st[i]]

(* ... and the summary published.                                          *)
FlushEnd ==
  /\ flush.pc = "pass" /\ flush.i > RescueSlots
  /\ sent' = IF flush.sent = 1 THEN SentBy(sent) ELSE sent
  /\ sum' = Summary(ring, sent')
  /\ flush' = NoFlush
  /\ UNCHANGED <<now, session, ring, history>>

Next ==
  \/ Tick \/ Rekey \/ FlushBegin \/ FlushDrop \/ FlushSend \/ FlushRefused \/ FlushEnd
  \/ \E t \in Time : Proof(t)
  \/ \E g \in Gens : Keep(g)

Spec == Init /\ [][Next]_vars

-----------------------------------------------------------------------------
Frames == [at : Time, gen : Gens \cup {0}, owed : BOOLEAN]

TypeOK ==
  /\ now \in Time /\ cur_gen \in Gens /\ from \in Time
  /\ ring \in Seq(Frames) /\ Len(ring) = RescueSlots
  /\ sent \in Seq([gen : Gens \cup {0}, at : Time]) /\ Len(sent) = 2
  /\ flush.i \in 0 .. RescueSlots + 1

\* What the INIT's deletions endanger: a frame of such a keypair still to be
\* re-sent, or handed to the relay at most a transit ago.
Endangered(confirmed) ==
  \E g \in Gens :
    /\ GenAtRisk(g, confirmed)
    /\ \/ \E i \in DOMAIN ring : ring[i].gen = g /\ Pending(ring[i], now, from)
       \/ ~Due(now, handed[g], Transit)

\* wg_rescue_init_risk judges the whole ring from two instants of two
\* keypairs.  It never misses a frame the INIT endangers (between passes).
RiskSeen == \A c \in BOOLEAN : flush.pc = "idle" /\ Endangered(c) => InitRisk(sum, c)

\* Nor does it hold an INIT back without a frame: a risk is a pending frame
\* or one handed over in a pass that ended at most a transit ago.
RiskReal ==
  \A c \in BOOLEAN : flush.pc = "idle" /\ InitRisk(sum, c) =>
    \E g \in Gens : GenAtRisk(g, c) /\
      \/ \E i \in DOMAIN ring : ring[i].gen = g /\ Pending(ring[i], now, from)
      \/ \E i \in 1 .. 2 : sent[i].gen = g /\ ~Due(now, sent[i].at, Transit)

\* wg_rescue_init_risk on the summary answers as one on the ring would.
RiskExact == RiskSeen /\ RiskReal

\* wg_rescue_flush: over refusals, later frames and later passes, frames
\* reach the relay in the order they were sent, and none twice.
ResentInOrder == [][order' # order => order' > order]_vars
=============================================================================
