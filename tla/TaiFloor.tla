------------------------------ MODULE TaiFloor ------------------------------
(***************************************************************************)
(* The TAI64N stamps of the handshake initiations over resets (wg_proto.c, *)
(* tinylink_tai64n_floor_init): a responder takes only a stamp above every *)
(* one it has seen, the clock of a booting device restarts, and the floor  *)
(* in NVS is written a chunk ahead so that most stamps cost no write.      *)
(* A stamp is its seconds: they grow with every stamp of one boot.         *)
(***************************************************************************)
EXTENDS Integers, FiniteSetsExt

CONSTANTS Chunk,    \* WG_TAI64N_RESERVE_CHUNK_SECS
          Clocks,   \* what time() or the monotonic clock may read
          MaxSecs,  \* bound on the stamps and on the floor
          NvsFails  \* whether NVS accesses may fail

VARIABLES nvs,     \* the persisted floor
          tai,     \* s_emitted_high, s_reservation, s_persist_fn # NULL
          secs,    \* the stamp being made by wg_tai64n_now, or None
          stamped, \* the greatest stamp sent (what the responder compares with)
          doubt    \* an NVS access failed while the floor mattered

taiVars == <<nvs, tai, secs, stamped, doubt>>

None == -1
Off == [emitted_high |-> None, reservation |-> None, persist |-> FALSE]
Outcome == IF NvsFails THEN BOOLEAN ELSE {TRUE}

TaiInit == nvs = 0 /\ tai = Off /\ secs = None /\ stamped = 0 /\ doubt = FALSE

\* tinylink_tai64n_floor_init: read the floor, reserve a chunk past it.
FloorInit(read, wrote) ==
    /\ tai = Off /\ nvs + Chunk <= MaxSecs
    /\ tai' = IF ~read THEN [emitted_high |-> 0, reservation |-> 0, persist |-> FALSE]
              ELSE IF ~wrote THEN [emitted_high |-> nvs, reservation |-> nvs, persist |-> FALSE]
              ELSE [emitted_high |-> nvs, reservation |-> nvs + Chunk, persist |-> TRUE]
    /\ nvs' = IF read /\ wrote THEN nvs + Chunk ELSE nvs
    /\ doubt' = (~read \/ ~wrote \/ (doubt /\ nvs < stamped))
    /\ UNCHANGED <<secs, stamped>>

clamped_NotStrict(clock) == Max({clock, tai.emitted_high})

\* The stamp of a clock reading: above every earlier one.
clamped(clock) == Max({clock, tai.emitted_high + 1})

\* The reservation grows before a stamp that would reach it is sent.
reserve(s, wrote) ==
    IF ~tai.persist \/ s < tai.reservation THEN UNCHANGED <<nvs, tai, doubt>>
    ELSE /\ nvs' = IF wrote THEN s + Chunk ELSE nvs
         /\ tai' = [tai EXCEPT !.reservation = IF wrote THEN s + Chunk ELSE @]
         /\ doubt' = (doubt \/ ~wrote)

\* wg_tai64n_now, up to the write of the reservation ...
Stamp(clock, wrote) ==
    /\ tai # Off /\ secs = None /\ clamped(clock) + Chunk <= MaxSecs
    /\ secs' = clamped(clock)
    /\ reserve(clamped(clock), wrote)
    /\ UNCHANGED stamped

\* ... and the stamp on its way.
Emit ==
    /\ secs # None
    /\ tai' = [tai EXCEPT !.emitted_high = secs]
    /\ stamped' = Max({stamped, secs})
    /\ secs' = None
    /\ UNCHANGED <<nvs, doubt>>

\* A reset anywhere: RAM goes, NVS stays.
Reset ==
    /\ tai # Off
    /\ tai' = Off /\ secs' = None
    /\ UNCHANGED <<nvs, stamped, doubt>>

TaiNext ==
    \/ \E read, wrote \in Outcome : FloorInit(read, wrote)
    \/ \E clock \in Clocks, wrote \in Outcome : Stamp(clock, wrote)
    \/ Emit \/ Reset

TaiSpec == TaiInit /\ [][TaiNext]_taiVars

-----------------------------------------------------------------------------
\* Every stamp is above every earlier one, over any number of resets at any
\* point and whatever the clocks read, unless a read or a write of the floor
\* failed; after such a failure it is so again from the first boot that finds
\* a floor no lower than the stamps sent.
StampsIncrease == secs # None /\ ~doubt => secs > stamped
=============================================================================
