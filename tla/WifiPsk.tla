------------------------------ MODULE WifiPsk ------------------------------
(***************************************************************************)
(* The hand-over of the pre-computed Wi-Fi key (app_wifi.c psk_start,      *)
(* psk_task on CPU 1, psk_apply in the STA_START handler; wifi_psk.h's     *)
(* publish and claim): the derivation may finish before, during or after   *)
(* the bounded wait of the connect.                                        *)
(***************************************************************************)
EXTENDS Naturals

VARIABLES state,   \* s_psk.state
          pass,    \* s_psk.pass holds the passphrase
          hex,     \* s_psk.hex: "clear", "part" (being written), "whole"
          deriver, \* psk_task
          starter, \* app_wifi_start and the STA_START handler
          bit,     \* WIFI_PSK_BIT
          driver   \* what the driver's configuration holds as password

pskVars == <<state, pass, hex, deriver, starter, bit, driver>>

PskInit ==
    /\ state = "idle" /\ pass = FALSE /\ hex = "clear"
    /\ deriver = "none" /\ starter = "boot" /\ bit = FALSE /\ driver = "pass"

\* psk_start: not for inputs the driver would not run PBKDF2 on; a task that
\* cannot be created leaves the passphrase to the driver.
PskStart ==
    /\ starter = "boot"
    /\ starter' = "event"
    /\ \/ UNCHANGED <<state, pass, deriver>>
       \/ state' = "running" /\ pass' = TRUE /\ deriver' = "derive"
    /\ UNCHANGED <<hex, bit, driver>>

\* psk_task.
Derive ==
    /\ deriver = "derive"
    /\ deriver' = "hex" /\ pass' = FALSE /\ hex' = "part"
    /\ UNCHANGED <<state, starter, bit, driver>>

HexDone ==
    /\ deriver = "hex"
    /\ deriver' = "publish" /\ hex' = "whole"
    /\ UNCHANGED <<state, pass, starter, bit, driver>>

publish_Blindly ==
    state' = "ready" /\ deriver' = "signal"

\* tl_psk_publish: RUNNING to READY, or the connect went ahead.
publish ==
    IF state = "running" THEN state' = "ready" /\ deriver' = "signal"
    ELSE state' = state /\ deriver' = "scrub"

Publish ==
    /\ deriver = "publish"
    /\ publish
    /\ UNCHANGED <<pass, hex, starter, bit, driver>>

Scrub ==
    /\ deriver = "scrub"
    /\ deriver' = "signal" /\ hex' = "clear"
    /\ UNCHANGED <<state, pass, starter, bit, driver>>

Signal ==
    /\ deriver = "signal"
    /\ deriver' = "done" /\ bit' = TRUE
    /\ UNCHANGED <<state, pass, hex, starter, driver>>

\* psk_apply: nothing to wait for, the bit, or PSK_WAIT_MS.
Apply ==
    /\ starter = "event"
    /\ starter' = IF state \in {"running", "ready"} THEN "wait" ELSE "connect"
    /\ UNCHANGED <<state, pass, hex, deriver, bit, driver>>

WaitEnds ==
    /\ starter = "wait"
    /\ starter' = "claim" /\ bit' = FALSE
    /\ UNCHANGED <<state, pass, hex, deriver, driver>>

\* tl_psk_claim.
Claim ==
    /\ starter = "claim"
    /\ state' = "done"
    /\ starter' = IF state = "ready" THEN "config" ELSE "connect"
    /\ UNCHANGED <<pass, hex, deriver, bit, driver>>

\* psk_set_config, which may fail; the result is scrubbed either way.
SetConfig ==
    /\ starter = "config"
    /\ driver' \in {IF hex = "whole" THEN "psk" ELSE "torn", driver}
    /\ hex' = "clear" /\ starter' = "connect"
    /\ UNCHANGED <<state, pass, deriver, bit>>

PskNext == \/ PskStart \/ Derive \/ HexDone \/ Publish \/ Scrub \/ Signal
           \/ Apply \/ WaitEnds \/ Claim \/ SetConfig

PskSpec == PskInit /\ [][PskNext]_pskVars

-----------------------------------------------------------------------------
\* One side owns the derived key: the driver is never given a part of it or
\* what the other side has scrubbed, and when both are through neither the
\* passphrase nor the key is left in RAM, whoever was first.
PskHandedOver ==
    /\ driver # "torn"
    /\ starter = "config" => hex = "whole" /\ deriver \in {"signal", "done"}
    /\ starter = "connect" /\ deriver \in {"none", "done"} => hex = "clear" /\ ~pass
=============================================================================
