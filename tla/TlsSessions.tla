---------------------------- MODULE TlsSessions ----------------------------
(***************************************************************************)
(* TLS sessions kept for resumption (tls_resume.c), their copies in RTC    *)
(* memory over warm resets (tls_rtc.h) and the cipher-suite offer with its *)
(* fallback and memo (tls_offer.c), as the DERP supervisor and the control *)
(* connection use them: take and offer a session, dial, perhaps dial again *)
(* with the full offer, keep what the handshake left.                      *)
(*                                                                         *)
(* A master secret is known by a number; `secret` remembers when and with  *)
(* whom it was made.  Three clocks: true time, the RTC timer (which a cold *)
(* reset may restart) and esp_timer (which every reset restarts).          *)
(***************************************************************************)
EXTENDS Integers, Sequences, FiniteSets, FiniteSetsExt

CONSTANTS DerpHosts,   \* nodes the DERP client may be sent to
          CtlHost,     \* the control host
          Recs,        \* 0 .. TLS_RTC_RECS - 1
          MaxAge,      \* TLS_RESUME_MAX_AGE_S
          MemoFor,     \* TLS_OFFER_MEMO_S
          MaxTime,     \* bound on true time
          MaxSecrets,  \* bound on full handshakes
          MaxFaults    \* bound on resets and on failures at a healthy server

\* Control and the relays are different servers: the records are "the DERP
\* client, the control conn" (TLS_RTC_RECS).
ASSUME TlsConstants ==
    /\ Recs \subseteq Nat /\ {MaxAge, MemoFor, MaxTime, MaxSecrets, MaxFaults} \subseteq Nat
    /\ CtlHost \notin DerpHosts

VARIABLES clock,   \* true time; the boot; the RTC timer's zero
          srtc,    \* s_rtc
          tried,   \* s_rtc_tried
          slot,    \* each client's RAM entry
          cl,      \* each client's connect in progress
          memo,    \* each client's tls_offer_memo_t
          secret,  \* history: host and true birth of every master secret
          dead,    \* history: secrets a failed connect had offered
          rsaOff,  \* hosts whose server refuses the RSA offer
          faults   \* budget

tlsVars == <<clock, srtc, tried, slot, cl, memo, secret, dead, rsaOff, faults>>

Clients == {"derp", "ctl"}
HostsOf(c) == IF c = "ctl" THEN {CtlHost} ELSE DerpHosts
NoSession == [host |-> "none"]
Bad == [host |-> "bad"]                   \* fails tls_rtc_valid
Idle == [pc |-> "idle"]
NoMemo == [host |-> "none", until |-> 0]

TlsInit ==
    /\ clock = [now |-> 0, boot |-> 0, rtc0 |-> 0]
    /\ srtc = [i \in Recs |-> NoSession] /\ tried = [i \in Recs |-> FALSE]
    /\ slot = [c \in Clients |-> NoSession] /\ cl = [c \in Clients |-> Idle]
    /\ memo = [c \in Clients |-> NoMemo]
    /\ secret = <<>> /\ dead = {} /\ faults = MaxFaults
    /\ rsaOff \in {{}, {CtlHost}}

rtc_now == clock.now - clock.rtc0
timer_now == clock.now - clock.boot

-----------------------------------------------------------------------------
(* tls_rtc.h                                                               *)

valid(r) == r \notin {NoSession, Bad}

fresh(r, at) == valid(r) /\ at >= r.saved /\ at >= r.born /\ at - r.born <= MaxAge

\* tls_rtc_sweep: every boot, before anything else, and every save.
sweep(recs, warm, at) ==
    [i \in Recs |-> IF warm /\ fresh(recs[i], at) THEN recs[i] ELSE NoSession]

holding(recs, h) == {i \in Recs : valid(recs[i]) /\ recs[i].host = h}

\* tls_rtc_pick: its own, an unused one, the oldest secret's.
pick(recs, h) ==
    LET spare == {i \in Recs : ~valid(recs[i])}
        eldest == {i \in Recs : \A j \in Recs : recs[i].born <= recs[j].born}
    IN  IF holding(recs, h) # {} THEN Min(holding(recs, h))
        ELSE IF spare # {} THEN Min(spare) ELSE Min(eldest)

drop_Kept(recs, h) == recs

\* rtc_drop: nothing of this host is offered again, nor after a reset.
drop(recs, h) ==
    IF holding(recs, h) = {} THEN recs
    ELSE [recs EXCEPT ![Min(holding(recs, h))] = NoSession]

\* tls_rtc_seal.
Sealed(e, age) == [host |-> e.host, born |-> rtc_now - age, saved |-> rtc_now,
                   ms |-> e.ms, suite |-> e.suite]

\* rtc_save, with the age carried from one clock to the other.  A session that
\* does not serialize into a record leaves the one picked empty.
save(recs, e, fits) ==
    LET swept == sweep(recs, TRUE, rtc_now)
        age   == timer_now - e.born
        i     == pick(swept, e.host)
    IN  IF age < 0 \/ age > rtc_now THEN drop(swept, e.host)
        ELSE [swept EXCEPT ![i] = IF fits THEN Sealed(e, age) ELSE NoSession]

-----------------------------------------------------------------------------
(* tls_resume_take, tls_offer_apply                                        *)

\* rtc_restore, once per boot and record: "load", or the session does not
\* load, or there is no memory for it.
Restore(h, how) ==
    LET i == Min(holding(srtc, h))
    IN  IF holding(srtc, h) = {} \/ tried[i]
        THEN [e |-> NoSession, recs |-> srtc, tried |-> tried]
        ELSE [tried |-> [tried EXCEPT ![i] = TRUE],
              recs |-> IF ~fresh(srtc[i], rtc_now) \/ how = "bad"
                       THEN [srtc EXCEPT ![i] = NoSession] ELSE srtc,
              e |-> IF fresh(srtc[i], rtc_now) /\ how = "load"
                    THEN [host |-> h, ms |-> srtc[i].ms, suite |-> srtc[i].suite,
                          born |-> timer_now - (rtc_now - srtc[i].born)]
                    ELSE NoSession]

offer_pick(m, h, e) ==
    IF e # NoSession /\ e.suite # "rsa" THEN "full"
    ELSE IF m.host = h /\ timer_now < m.until THEN "full" ELSE "rsa"

Take(c, h, how) ==
    /\ cl[c] = Idle
    /\ LET r == IF slot[c] # NoSession THEN [e |-> slot[c], recs |-> srtc, tried |-> tried]
                ELSE Restore(h, how)
           mine == r.e # NoSession /\ r.e.host = h
           old  == r.e # NoSession /\ timer_now - r.e.born > MaxAge
           e    == IF mine /\ ~old THEN r.e ELSE NoSession
       IN  /\ cl' = [cl EXCEPT ![c] = [pc |-> "dial", host |-> h, taken |-> e, offered |-> e,
                                       age |-> IF e = NoSession THEN 0
                                               ELSE clock.now - secret[e.ms].born,
                                       offer |-> offer_pick(memo[c], h, e)]]
           /\ srtc' = IF mine /\ old THEN drop(r.recs, h) ELSE r.recs
           /\ tried' = r.tried
    /\ slot' = [slot EXCEPT ![c] = NoSession]
    /\ UNCHANGED <<clock, memo, secret, dead, rsaOff, faults>>

-----------------------------------------------------------------------------
(* The handshake (the server is external)                                  *)

\* Abbreviated: the offered master secret again.
Resumes(c) ==
    /\ cl[c].pc = "dial" /\ cl[c].offered # NoSession
    /\ cl' = [cl EXCEPT ![c] = [pc |-> "up", host |-> @.host, taken |-> @.taken,
                                ms |-> @.offered.ms, suite |-> @.offered.suite]]
    /\ UNCHANGED <<clock, srtc, tried, slot, memo, secret, dead, rsaOff, faults>>

Suits(c) == cl[c].offer = "full" \/ cl[c].host \notin rsaOff

\* tls_offer_note, after the second dial.
noted(c) == IF cl[c].pc = "again"
            THEN [memo EXCEPT ![c] = [host |-> cl[c].host, until |-> timer_now + MemoFor]]
            ELSE memo

\* Full: a new secret, under a suite of the offer.
Full(c) ==
    /\ cl[c].pc \in {"dial", "again"} /\ Suits(c) /\ Len(secret) < MaxSecrets
    /\ LET ms == Len(secret) + 1
       IN  /\ secret' = Append(secret, [host |-> cl[c].host, born |-> clock.now])
           /\ cl' = [cl EXCEPT ![c] = [pc |-> "up", host |-> @.host, taken |-> @.taken, ms |-> ms,
                                       suite |-> IF @.offer = "rsa" THEN "rsa" ELSE "ecdsa"]]
    /\ memo' = noted(c)
    /\ UNCHANGED <<clock, srtc, tried, slot, dead, rsaOff, faults>>

\* tls_offer_fallback: the handshake itself failed under the RSA offer, and
\* not over the server's name: once more, the full offer and no session.
FallsBack(c) ==
    /\ cl[c].pc = "dial" /\ cl[c].offer = "rsa"
    /\ ~Suits(c) \/ faults > 0
    /\ faults' = IF Suits(c) THEN faults - 1 ELSE faults
    /\ cl' = [cl EXCEPT ![c] = [@ EXCEPT !.pc = "again", !.offered = NoSession, !.offer = "full"]]
    /\ UNCHANGED <<clock, srtc, tried, slot, memo, secret, dead, rsaOff>>

\* Anything else: no connection, a timeout, another server's certificate.
DialFails(c) ==
    /\ cl[c].pc \in {"dial", "again"} /\ faults > 0
    /\ faults' = faults - 1
    /\ cl' = [cl EXCEPT ![c] = [pc |-> "failed", host |-> @.host, taken |-> @.taken]]
    /\ UNCHANGED <<clock, srtc, tried, slot, memo, secret, dead, rsaOff>>

-----------------------------------------------------------------------------
(* tls_resume_keep                                                         *)

\* No session to keep: the one taken is freed and its record goes.
KeepsNone(c) ==
    /\ cl[c].pc \in {"failed", "up"}         \* "up": the server issued no ticket
    /\ srtc' = drop(srtc, cl[c].host)
    /\ dead' = IF cl[c].taken # NoSession THEN dead \cup {cl[c].taken.ms} ELSE dead
    /\ cl' = [cl EXCEPT ![c] = Idle]
    /\ UNCHANGED <<clock, tried, slot, memo, secret, rsaOff, faults>>

\* A resumed session keeps the birth of its secret.
born(k) == IF k.taken # NoSession /\ k.taken.ms = k.ms THEN k.taken.born ELSE timer_now

Keeps(c, fits) ==
    /\ cl[c].pc = "up"
    /\ LET k == cl[c]
           e == [host |-> k.host, ms |-> k.ms, suite |-> k.suite, born |-> born(k)]
       IN  /\ srtc' = save(srtc, e, fits)
           /\ slot' = [slot EXCEPT ![c] = e]
           /\ dead' = IF k.taken # NoSession /\ k.taken.ms # k.ms
                      THEN dead \cup {k.taken.ms} ELSE dead
    /\ cl' = [cl EXCEPT ![c] = Idle]
    /\ UNCHANGED <<clock, tried, memo, secret, rsaOff, faults>>

\* No entry was taken and there is no memory for a new one.
NoEntry(c) ==
    /\ cl[c].pc = "up" /\ cl[c].taken = NoSession
    /\ cl' = [cl EXCEPT ![c] = Idle]
    /\ UNCHANGED <<clock, srtc, tried, slot, memo, secret, dead, rsaOff, faults>>

-----------------------------------------------------------------------------
(* Resets and time                                                         *)

\* A reset, and the boot's sweep (tinylink_bootstat_record).  A warm one keeps
\* RTC memory and its timer; a save cut in two leaves its record invalid.  Of
\* a cold one neither, either or both may survive.
Reset(warm) ==
    /\ faults > 0 /\ faults' = faults - 1
    /\ clock' \in [now : {clock.now}, boot : {clock.now},
                   rtc0 : IF warm THEN {clock.rtc0} ELSE {clock.rtc0, clock.now}]
    /\ \E torn \in SUBSET Recs :
          /\ warm => /\ Cardinality(torn) <= 1
                     /\ torn \subseteq
                          {pick(srtc, cl[c].host) : c \in {d \in Clients : cl[d].pc = "up"}}
          /\ srtc' = sweep([i \in Recs |-> IF i \in torn THEN Bad ELSE srtc[i]], warm, rtc_now')
    /\ tried' = [i \in Recs |-> FALSE]
    /\ slot' = [c \in Clients |-> NoSession] /\ cl' = [c \in Clients |-> Idle]
    /\ memo' = [c \in Clients |-> NoMemo]
    /\ UNCHANGED <<secret, dead, rsaOff>>

\* tls_resume_keep follows the handshake at once.
Tick ==
    /\ clock.now < MaxTime /\ \A c \in Clients : cl[c].pc # "up"
    /\ clock' = [clock EXCEPT !.now = @ + 1]
    /\ UNCHANGED <<srtc, tried, slot, cl, memo, secret, dead, rsaOff, faults>>

TlsNext ==
    \/ \E c \in Clients :
          \/ \E h \in HostsOf(c), how \in {"load", "bad", "none"} : Take(c, h, how)
          \/ Resumes(c) \/ Full(c) \/ FallsBack(c) \/ DialFails(c)
          \/ KeepsNone(c) \/ NoEntry(c) \/ \E fits \in BOOLEAN : Keeps(c, fits)
    \/ \E warm \in BOOLEAN : Reset(warm)
    \/ Tick

TlsSpec == TlsInit /\ [][TlsNext]_tlsVars

-----------------------------------------------------------------------------
\* A session is offered only to the host it was made with, under an offer that
\* lists its suite, and while its master secret is within the age bound in
\* true time when it is taken: over resumptions (which do not renew it),
\* copies through RTC memory, resets of either kind and restarts of the RTC
\* timer.
OffersSound ==
    \A c \in Clients : cl[c].pc = "dial" /\ cl[c].offered # NoSession =>
        LET e == cl[c].offered
        IN  /\ secret[e.ms].host = cl[c].host
            /\ e.suite = "rsa" \/ cl[c].offer = "full"
            /\ cl[c].age <= MaxAge

\* A session that a failed connect had offered, or that a new one replaced, is
\* never offered again: no slot and no record still holds it.
DeadStaysDead ==
    /\ \A c \in Clients : slot[c] # NoSession => slot[c].ms \notin dead
    /\ \A i \in Recs : valid(srtc[i]) => srtc[i].ms \notin dead

\* Both: an offer is sound when it is made and never repeats a failed one.
TlsSound == OffersSound /\ DeadStaysDead
=============================================================================
