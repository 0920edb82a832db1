----------------------------- MODULE AddrCache -----------------------------
(***************************************************************************)
(* The last-known server addresses (tl_addr.h, tinylink.c): the home DERP  *)
(* node a netmap named and the control address that last answered, in RAM, *)
(* in NVS and in the RAM mirror of NVS, over boots of firmwares built for  *)
(* other regions and control hosts, and with NVS writes that fail.         *)
(*                                                                         *)
(* `host' stands for a host with its port, `addr' for an address with its  *)
(* STUN port; the blobs' encoding keeps every field, so a blob is the      *)
(* record itself.                                                          *)
(***************************************************************************)
EXTENDS Integers

CONSTANTS Firmwares,  \* [region, derp (Kconfig host), ctl (control host)]
          Nodes,      \* [host, addr] of the region's first node in a netmap
          CtlAddrs,   \* the addresses control answers at
          MaxGen,     \* bound on moves within a boot
          AddrFaults  \* bound on resets and failed writes

VARIABLES fw,         \* the running firmware
          home,       \* s_home_derp, s_home_derp_named, s_derp_host_gen
          ctlAddr,    \* s_ctl_addr
          addrNvs,    \* the two blobs in flash
          addrMirror, \* s_derp_nvs, s_ctl_nvs
          poll,       \* the telemetry task inside tinylink_addr_persist_poll
          sup,        \* the DERP supervisor's snapshot (home_derp_get)
          said,       \* history: what netmaps named and which control answered
          failed,     \* history: the keys whose last write of this boot failed
          addrLeft    \* budget

addrVars == <<fw, home, ctlAddr, addrNvs, addrMirror, poll, sup, said, failed, addrLeft>>

Nothing == [len |-> 0]
Named(r, h, a) == [region |-> r, host |-> h, addr |-> a]

boot_AnyRegion(f, b) == IF b # Nothing THEN b ELSE Named(f.region, f.derp, "none")

\* tl_derp_addr_boot: the stored record if it is of this firmware's region.
boot(f, b) ==
    IF b # Nothing /\ b.region = f.region THEN b ELSE Named(f.region, f.derp, "none")

\* tl_ctl_addr_decode: bound to the control host of the firmware.
ctl_boot(f, b) == IF b # Nothing /\ b.ctl = f.ctl THEN b.addr ELSE "none"

\* The poll before its first round.
PollIdle == [pc |-> "idle", derp |-> Nothing, ctl |-> Nothing]

\* addr_cache_load, in tinylink_init.
Loaded(f) ==
    /\ fw' = f
    /\ home' = [rec |-> boot(f, addrNvs.derp), named |-> FALSE, gen |-> 0]
    /\ ctlAddr' = ctl_boot(f, addrNvs.ctl)
    /\ addrMirror' = addrNvs
    /\ poll' = PollIdle /\ sup' = Nothing /\ failed' = {}

AddrInit ==
    /\ fw \in Firmwares
    /\ addrNvs = [derp |-> Nothing, ctl |-> Nothing] /\ addrMirror = addrNvs
    /\ home = [rec |-> boot(fw, Nothing), named |-> FALSE, gen |-> 0]
    /\ ctlAddr = "none" /\ poll = PollIdle /\ sup = Nothing
    /\ said = {} /\ failed = {} /\ addrLeft = AddrFaults

\* A reset, of this firmware or into another (an update).
AddrReset(f) ==
    /\ addrLeft > 0 /\ addrLeft' = addrLeft - 1
    /\ Loaded(f)
    /\ UNCHANGED <<addrNvs, said>>

-----------------------------------------------------------------------------
\* tl_derp_addr_diff's TL_DERP_MOVED.
moved(cur, next) == cur.host # next.host \/ cur.region # next.region

\* update_derp_host_from_netmap, of a netmap that has the region.
NetmapNames(n) ==
    LET next == Named(fw.region, n.host, n.addr)
    IN  /\ home.gen < MaxGen \/ ~moved(home.rec, next)
        /\ home' = [rec |-> next, named |-> TRUE,
                    gen |-> IF moved(home.rec, next) THEN home.gen + 1 ELSE home.gen]
        /\ said' = said \cup {next}
        /\ UNCHANGED <<fw, ctlAddr, addrNvs, addrMirror, poll, sup, failed, addrLeft>>

\* home_derp_get, for the supervisor's connect.
SupTakes ==
    /\ sup' = [rec |-> home.rec, gen |-> home.gen]
    /\ UNCHANGED <<fw, home, ctlAddr, addrNvs, addrMirror, poll, said, failed, addrLeft>>

\* A control record: the address, bound to the control host it answered for.
Control(c, a) == [ctl |-> c, addr |-> a]

\* A control connection came up at a.
CtlUp(a) ==
    /\ ctlAddr' = a
    /\ said' = said \cup {Control(fw.ctl, a)}
    /\ UNCHANGED <<fw, home, addrNvs, addrMirror, poll, sup, failed, addrLeft>>

-----------------------------------------------------------------------------
(* tinylink_addr_persist_poll: the home record is read under the lock, the *)
(* blobs are written outside it, one after the other.                      *)

PollReads ==
    /\ poll.pc = "idle"
    /\ poll' = [poll EXCEPT !.pc = "derp", !.derp = IF home.named THEN home.rec ELSE Nothing]
    /\ UNCHANGED <<fw, home, ctlAddr, addrNvs, addrMirror, sup, said, failed, addrLeft>>

\* tl_addr_store: only on change; the mirror takes the bytes either way.
store(key, b, ok) ==
    IF b = Nothing \/ addrMirror[key] = b
    THEN UNCHANGED <<addrMirror, addrNvs, failed, addrLeft>>
    ELSE /\ addrLeft' = (IF ok THEN addrLeft ELSE addrLeft - 1) /\ addrLeft' >= 0
         /\ addrMirror' = [addrMirror EXCEPT ![key] = b]
         /\ addrNvs' = IF ok THEN [addrNvs EXCEPT ![key] = b] ELSE addrNvs
         /\ failed' = IF ok THEN failed \ {key} ELSE failed \cup {key}

StoresDerp(ok) ==
    /\ poll.pc = "derp"
    /\ store("derp", poll.derp, ok)
    /\ poll' = [poll EXCEPT !.pc = "ctl"]
    /\ UNCHANGED <<fw, home, ctlAddr, sup, said>>

StoresCtl(ok) ==
    LET b == IF ctlAddr = "none" THEN Nothing ELSE Control(fw.ctl, ctlAddr)
    IN  /\ poll.pc = "ctl"
        /\ store("ctl", b, ok)
        /\ poll' = [poll EXCEPT !.pc = "idle", !.ctl = b]
        /\ UNCHANGED <<fw, home, ctlAddr, sup, said>>

AddrNext ==
    \/ \E f \in Firmwares : AddrReset(f)
    \/ \E n \in Nodes : NetmapNames(n)
    \/ SupTakes
    \/ \E a \in CtlAddrs : CtlUp(a)
    \/ PollReads
    \/ \E ok \in BOOLEAN : StoresDerp(ok) \/ StoresCtl(ok)

AddrSpec == AddrInit /\ [][AddrNext]_addrVars

-----------------------------------------------------------------------------
\* The node in use is one a netmap named for this firmware's region, host and
\* address together, or the Kconfig host without an address; what flash holds
\* was named by a netmap, never the default.
NodeNamed ==
    /\ home.rec \in said \cup {Named(fw.region, fw.derp, "none")}
    /\ home.rec.region = fw.region
    /\ addrNvs.derp \in said \cup {Nothing}

\* A supervisor whose generation is the current one is on the current node: no
\* move, and no move and back, goes unnoticed (derp_sup_event_cb compares
\* only the generation).
GenTells == sup # Nothing /\ sup.gen = home.gen => ~moved(sup.rec, home.rec)

\* The control address in use, and the one in flash, answered for the control
\* host it is bound to: a firmware built for another host does not dial it.
ControlBound ==
    /\ ctlAddr = "none" \/ Control(fw.ctl, ctlAddr) \in said
    /\ addrNvs.ctl \in said \cup {Nothing}

\* A poll's record is in flash when the poll is past it, a record that changed
\* and changed back and one after a failed write included, unless the last
\* write of this boot for that key failed: "written only on change" leaves no
\* change out.
FlashFollows ==
    /\ poll.pc # "derp" /\ poll.derp # Nothing /\ "derp" \notin failed
       => addrNvs.derp = poll.derp
    /\ poll.ctl # Nothing /\ "ctl" \notin failed => addrNvs.ctl = poll.ctl

\* The four together: what the address cache promises its readers.
AddrsSound == NodeNamed /\ GenTells /\ ControlBound /\ FlashFollows
=============================================================================
