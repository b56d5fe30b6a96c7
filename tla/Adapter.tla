------------------------------ MODULE Adapter -------------------------------
(***************************************************************************)
(* The life of one port: who brings it up and down, under which lock.      *)
(*                                                                         *)
(* Three threads meet here.  The user thread runs the stack's and          *)
(* ethtool's calls under the RTNL lock; the bus thread runs what the PCI   *)
(* core calls under the device lock (power management, error recovery,     *)
(* removal); the service task resets the adapter on request and, after a   *)
(* PCIe error, runs the error recovery itself.                             *)
(*                                                                         *)
(* An entry point is the sequence of the steps it takes that change shared *)
(* state; pc[t] is what thread t still has to do.  Ring contents, vectors  *)
(* and NAPI are the subject of TxRing and NapiIrq.                         *)
(***************************************************************************)
EXTENDS Integers, Sequences

CONSTANT Scenarios    \* the environments that are looked at

UserOps == {"open", "close", "reinit", "ringparam", "devreset", "setuptc", "test"}
BusOps  == {"suspend", "resume", "freeze", "thaw", "aer", "remove"}

\* What may be asked for (three kinds of reset, recovery from a PCIe error) and
\* that the adapter leaves the bus; what may fail ("save": pci_save_state in a
\* suspend, "perm": the PCI core reports a channel that is lost for good).
EventKinds   == {"pf", "global", "intr", "recover", "gone"}
FailureKinds == {"alloc", "irq", "queues", "scheme", "enable", "save", "perm"}

\* backplane: one of the KR devices; msix: the platform grants MSI-X vectors.
ASSUME AdapterAssumption ==
    Scenarios \subseteq [ops : SUBSET (UserOps \cup BusOps), events : SUBSET EventKinds,
                         failures : SUBSET FailureKinds, backplane : BOOLEAN, msix : BOOLEAN]

Threads == {"user", "bus", "svc"}
Nobody  == "nobody"

\* Bound on the enable count, which two recoveries at once keep raising.
MaxEnable == 2

VARIABLES
    env,        \* the scenario: entry points called, events and failures met
    pc,         \* per thread: the steps ahead
    err,        \* per thread: the call in progress has failed
    rtnl, dlock,            \* holders of the RTNL lock and of the device lock
    down, resetting, removing,         \* __TXGBE_DOWN, RESETTING, REMOVING
    sched, queued,          \* __TXGBE_SERVICE_SCHED; the work item is on the work queue
    reqs,       \* the reset requests in flags2
    kr,         \* TXGBE_FLAG2_KR_PRO_REINIT
    rings, scheme,          \* ring memory and q_vectors held
    irq,        \* the interrupt handlers requested: "none", "msix", "legacy" (or MSI)
    msix,       \* TXGBE_FLAG_MSIX_ENABLED, with the msix_entries
    live,       \* interrupts and the service timer run
    gone,       \* hw_addr is NULL
    disabled, enabled,      \* __TXGBE_DISABLED; the PCI core's enable count
    running, present,       \* netif_running, netif_device_present
    power       \* "on", "suspended", "frozen", "resuming", "gone" (unregistered)

lockVars == <<rtnl, dlock>>
svcVars  == <<sched, queued>>
bitVars  == <<down, resetting, removing, svcVars, reqs, kr>>
resVars  == <<rings, irq, msix, scheme, live, gone>>
pciVars  == <<disabled, enabled>>
netVars  == <<running, present, power>>
vars == <<env, pc, err, lockVars, bitVars, resVars, pciVars, netVars>>

\* After probe: q_vectors are there, the interface is closed.
Init ==
    /\ env \in Scenarios
    /\ pc = [t \in Threads |-> <<>>] /\ err = [t \in Threads |-> FALSE]
    /\ rtnl = Nobody /\ dlock = Nobody
    /\ down = TRUE /\ resetting = FALSE /\ removing = FALSE
    /\ sched = FALSE /\ queued = FALSE
    /\ reqs = {} /\ kr = FALSE
    /\ rings = FALSE /\ irq = "none" /\ msix = env.msix /\ scheme = TRUE
    /\ live = FALSE /\ gone = FALSE
    /\ disabled = FALSE /\ enabled = 1
    /\ running = FALSE /\ present = TRUE /\ power = "on"
-----------------------------------------------------------------------------
(* The entry points.                                                       *)

If(b, p) == IF b THEN p ELSE <<>>

txgbe_down == <<"setdown", "drop">>

txgbe_open == <<"alloc", "request", "setqueues", "up">>

txgbe_close == If(env.backplane, <<"protect">>) \o txgbe_down \o <<"freeirq", "freerings">>

txgbe_close_suspend == txgbe_down \o <<"freeirq", "freerings">>

txgbe_reinit_locked == <<"setresetting">> \o txgbe_down \o <<"up", "clearresetting", "clearkr">>

\* Calls under the RTNL lock.  The stack and ethtool refuse a detached device;
\* ndo_stop, tc and the DCB netlink calls do not look.  Also txgbe_do_reset.
txgbe_change_mtu == If(running /\ present /\ ~kr, txgbe_reinit_locked)

txgbe_set_ringparam ==
    If(present, <<"setresetting">> \o If(running, <<"temp">> \o txgbe_down \o <<"up">>)
                \o <<"clearresetting">>)

txgbe_dcbnl_devreset ==
    <<"setresetting">> \o If(running, txgbe_close) \o <<"clearscheme", "initscheme">>
    \o If(running, txgbe_open) \o <<"opened", "clearresetting">>

txgbe_setup_tc ==
    If(running, txgbe_close) \o <<"clearscheme", "initscheme">>
    \o If(running, txgbe_open) \o <<"opened">>

txgbe_diag_test == If(present /\ ~gone /\ running, txgbe_close \o txgbe_open \o <<"opened">>)

\* Power management: what leads up to the body, the body, and what follows it.

txgbe_shutdown ==
    <<"devlock", "detach", "lock", "suspend", "unlock", "clearscheme", "save", "disable",
      "devunlock">>

txgbe_shutdown_body == If(running, txgbe_close_suspend)

\* Fault: the interface is attached before it is up.
txgbe_resumeAttachFirst == <<"devlock", "enable", "attachok", "lock", "resume", "unlock", "devunlock">>

txgbe_resume == <<"devlock", "enable", "lock", "resume", "unlock", "attachok", "devunlock">>

txgbe_resume_body == <<"initscheme">> \o If(running, txgbe_open) \o <<"opened">>

\* Fault: the vectors are given back before their handlers.
txgbe_freezeCapFirst == <<"capoff">> \o If(running, txgbe_down \o <<"freeirq">>)

txgbe_freeze == If(running, txgbe_down \o <<"freeirq">>) \o <<"capoff">>

txgbe_thaw == <<"capon">> \o If(running, <<"rerequest", "up">>) \o <<"opened">>

\* Removal.  The PCI core holds the device lock.
txgbe_remove ==
    <<"devlock", "removing", "cancel", "lock", "unregister", "unlock", "clearscheme",
      "disable", "devunlock">>

\* Fault: txgbe_io_error_detected and txgbe_io_resume without the RTNL lock.
RecoveryUnlocked == <<"devlock", "detach", "channel", "error", "disable", "devunlock",
                      "devlock", "slotreset", "devunlock",
                      "devlock", "ioresume", "opened", "attach", "devunlock", "recovered">>

\* txgbe_io_error_detected, the reset of the bus, txgbe_io_slot_reset and
\* txgbe_io_resume, each callback under the device lock.
Recovery == <<"devlock", "lock", "detach", "channel", "error", "disable", "unlock", "devunlock",
              "devlock", "slotreset", "devunlock",
              "devlock", "lock", "ioresume", "opened", "attach", "unlock", "devunlock", "recovered">>

txgbe_io_error_detected == If(running, txgbe_close)

txgbe_io_resume == If(running, txgbe_open)

\* The service task's subtasks.
txgbe_check_pcie_subtask == If("recover" \in reqs, Recovery)

txgbe_reset_subtask ==
    If(/\ reqs \cap {"pf", "global", "intr"} # {}
       /\ ~down /\ ~removing, <<"lock", "take", "unlock">>)

\* What thread t does when it looks at the device.
Body(op) ==
    CASE op \in UserOps /\ power = "gone" -> <<>>
      [] op = "open"       -> If(~running /\ present, txgbe_open \o <<"opened", "openret">>)
      [] op = "close"      -> If(running, txgbe_close)
      [] op = "reinit"     -> txgbe_change_mtu
      [] op = "ringparam"  -> txgbe_set_ringparam
      [] op = "devreset"   -> txgbe_dcbnl_devreset
      [] op = "setuptc"    -> txgbe_setup_tc
      [] op = "test"       -> txgbe_diag_test
      [] op = "suspend"    -> txgbe_shutdown_body
      [] op = "resume"     -> txgbe_resume_body
      [] op = "freeze"     -> txgbe_freeze
      [] op = "thaw"       -> txgbe_thaw
      [] op = "error"      -> txgbe_io_error_detected
      [] op = "ioresume"   -> txgbe_io_resume
      [] op = "unregister" -> If(running, txgbe_close)
      [] op = "pcie"       -> txgbe_check_pcie_subtask
      [] op = "subtask"    -> txgbe_reset_subtask

Bodies == UserOps \cup {"suspend", "resume", "freeze", "thaw", "error", "ioresume",
                        "unregister", "pcie", "subtask"}

Program(op) ==
    CASE op \in UserOps -> <<"lock", op, "unlock">>
      [] op = "suspend" -> txgbe_shutdown
      [] op = "resume"  -> txgbe_resume
      [] op = "freeze"  -> <<"devlock", "detach", "freeze", "devunlock">>
      [] op = "thaw"    -> <<"devlock", "thaw", "attachok", "devunlock">>
      [] op = "aer"     -> Recovery
      [] op = "remove"  -> txgbe_remove
-----------------------------------------------------------------------------
At(t, s) == pc[t] # <<>> /\ Head(pc[t]) = s
Done(t) == pc' = [pc EXCEPT ![t] = Tail(@)]
Goto(t, p) == pc' = [pc EXCEPT ![t] = p]

\* The steps of p after the first s.
After(s, p) == LET i == CHOOSE j \in 1 .. Len(p) : p[j] = s /\ \A k \in 1 .. j - 1 : p[k] # s
               IN SubSeq(p, i + 1, Len(p))

\* The call fails: undo, and go on behind it.
Fail(t, undo) ==
    /\ Goto(t, undo \o After("opened", pc[t]))
    /\ err' = [err EXCEPT ![t] = TRUE]

\* A user thread makes a call.  Tasks are frozen while the system sleeps.
UserCall(op) ==
    /\ op \in env.ops /\ pc["user"] = <<>> /\ power = "on"
    /\ Goto("user", Program(op)) /\ err' = [err EXCEPT !["user"] = FALSE]
    /\ UNCHANGED <<env, pciVars, lockVars, bitVars, resVars, netVars>>

PowerNext(op) ==
    CASE op = "suspend" /\ power = "on" /\ ~removing -> "suspended"
      [] op = "resume" /\ power = "suspended" -> "resuming"
      [] op = "freeze" /\ power = "on" /\ ~removing  -> "frozen"
      [] op = "thaw" /\ power = "frozen"      -> "resuming"
      [] op = "aer" /\ power = "on" /\ ~removing    -> "on"
      [] op = "remove" /\ power = "on" /\ ~removing -> "on"
      [] OTHER                                -> "none"

BusCall(op) ==
    /\ op \in env.ops /\ pc["bus"] = <<>> /\ PowerNext(op) # "none"
    /\ op \in {"suspend", "freeze"} => pc["user"] = <<>>
    /\ power' = PowerNext(op)
    /\ Goto("bus", Program(op)) /\ err' = [err EXCEPT !["bus"] = FALSE]
    /\ UNCHANGED <<env, pciVars, lockVars, bitVars, resVars, running, present>>

\* Fault: the service task does not ask whether the adapter is gone.
ServiceTaskStaysUp ==
    /\ queued /\ pc["svc"] = <<>>
    /\ queued' = FALSE
    /\ Goto("svc", <<"pcie", "subtask", "watchdog", "complete">>)
    /\ err' = [err EXCEPT !["svc"] = FALSE]
    /\ UNCHANGED <<env, pciVars, lockVars, down, resetting, removing, sched, reqs, kr, resVars, netVars>>

\* The service task starts.  When the adapter is gone it only goes down.
ServiceTask ==
    /\ queued /\ pc["svc"] = <<>>
    /\ queued' = FALSE
    /\ Goto("svc", (IF gone THEN If(~down, <<"lock">> \o txgbe_down \o <<"unlock">>)
                            ELSE <<"pcie", "subtask", "watchdog">>) \o <<"complete">>)
    /\ err' = [err EXCEPT !["svc"] = FALSE]
    /\ UNCHANGED <<env, pciVars, lockVars, down, resetting, removing, sched, reqs, kr, resVars, netVars>>

\* The thread reaches the body of its operation.  The stack marks the
\* interface running in front of open, and stopped in front of close.
Enter(t) ==
    /\ pc[t] # <<>> /\ Head(pc[t]) \in Bodies
    /\ LET op == Head(pc[t]) IN
       /\ Goto(t, Body(op) \o Tail(pc[t]))
       /\ running' = CASE op = "open" -> running \/ (present /\ power # "gone")
                       [] op \in {"close", "unregister"} -> FALSE
                       [] OTHER -> running
       /\ kr' = (kr \/ (op = "reinit" /\ running /\ present /\ power # "gone"))
       /\ power' = IF op = "unregister" THEN "gone" ELSE power
    /\ UNCHANGED <<env, pciVars, err, lockVars, down, resetting, removing, svcVars, reqs,
                   resVars, present>>
-----------------------------------------------------------------------------
(* Locks.                                                                  *)

Lock(t) ==
    /\ At(t, "lock") /\ rtnl = Nobody
    /\ rtnl' = t /\ Done(t)
    /\ UNCHANGED <<env, pciVars, err, dlock, bitVars, resVars, netVars>>

Unlock(t) ==
    /\ At(t, "unlock")
    /\ rtnl' = Nobody /\ Done(t)
    /\ UNCHANGED <<env, pciVars, err, dlock, bitVars, resVars, netVars>>

DevLock(t) ==
    /\ At(t, "devlock") /\ dlock = Nobody
    /\ dlock' = t /\ Done(t)
    /\ UNCHANGED <<env, pciVars, err, rtnl, bitVars, resVars, netVars>>

DevUnlock(t) ==
    /\ At(t, "devunlock")
    /\ dlock' = Nobody /\ Done(t)
    /\ power' = IF power = "resuming" /\ t = "bus" THEN "on" ELSE power
    /\ UNCHANGED <<env, pciVars, err, rtnl, bitVars, resVars, running, present>>

\* while (test_and_set_bit(__TXGBE_RESETTING)) usleep_range(1000, 2000)
SetResetting(t) ==
    /\ At(t, "setresetting") /\ ~resetting
    /\ resetting' = TRUE /\ Done(t)
    /\ UNCHANGED <<env, pciVars, err, lockVars, down, removing, svcVars, reqs, kr, resVars, netVars>>

ClearResetting(t) ==
    /\ At(t, "clearresetting")
    /\ resetting' = FALSE /\ Done(t)
    /\ UNCHANGED <<env, pciVars, err, lockVars, down, removing, svcVars, reqs, kr, resVars, netVars>>

ClearKr(t) ==
    /\ At(t, "clearkr")
    /\ kr' = FALSE /\ Done(t)
    /\ UNCHANGED <<env, pciVars, err, lockVars, down, resetting, removing, svcVars, reqs,
                   resVars, netVars>>

\* txgbe_bp_close_protect waits for a reinit to end.
Protect(t) ==
    /\ At(t, "protect") /\ ~kr
    /\ Done(t)
    /\ UNCHANGED <<env, pciVars, err, lockVars, bitVars, resVars, netVars>>
-----------------------------------------------------------------------------
(* Down and up.                                                            *)

\* txgbe_disable_device: "do nothing if already down".
SetDown(t) ==
    /\ At(t, "setdown")
    /\ down' = TRUE
    /\ Goto(t, IF down THEN Tail(Tail(pc[t])) ELSE Tail(pc[t]))
    /\ UNCHANGED <<env, pciVars, err, lockVars, resetting, removing, svcVars, reqs, kr, resVars,
                   netVars>>

\* Fault: going down leaves the requests for a reset pending.
DropKeepsRequests(t) ==
    /\ At(t, "drop")
    /\ live' = FALSE /\ reqs' = reqs
    /\ Done(t)
    /\ UNCHANGED <<env, pciVars, err, lockVars, down, resetting, removing, svcVars, kr, rings,
                   irq, msix, scheme, gone, netVars>>

\* The rest of txgbe_disable_device: interrupts and timer are off, and the
\* requests for a reset, except RESET_INTR_RECEIVED, are dropped.
Drop(t) ==
    /\ At(t, "drop")
    /\ live' = FALSE /\ reqs' = reqs \ {"pf", "global"}
    /\ Done(t)
    /\ UNCHANGED <<env, pciVars, err, lockVars, down, resetting, removing, svcVars, kr, rings,
                   irq, msix, scheme, gone, netVars>>

\* txgbe_configure and txgbe_up_complete.
Up(t) ==
    /\ At(t, "up")
    /\ down' = FALSE /\ live' = TRUE
    /\ Done(t)
    /\ UNCHANGED <<env, pciVars, err, lockVars, resetting, removing, svcVars, reqs, kr, rings,
                   irq, msix, scheme, gone, netVars>>

\* txgbe_setup_all_tx_resources and _rx_resources, txgbe_setup_isb_resources.
Alloc(t) ==
    /\ At(t, "alloc")
    /\ \/ rings' = TRUE /\ Done(t) /\ UNCHANGED err
       \/ "alloc" \in env.failures /\ Fail(t, <<>>) /\ UNCHANGED rings
    /\ UNCHANGED <<env, pciVars, lockVars, bitVars, irq, msix, scheme, live, gone, netVars>>

\* What TXGBE_FLAG_MSIX_ENABLED says of the handlers.
Mode == IF msix THEN "msix" ELSE "legacy"

\* free_queue_irqs of txgbe_request_msix_irqs: the MSI-X vectors are given back.
FreeQueueIrqs == msix' = FALSE /\ UNCHANGED irq

\* Fault: an open without interrupts keeps its rings.
RequestLeaksRings(t) ==
    /\ At(t, "request") \/ At(t, "rerequest")
    /\ \/ irq = "none" /\ irq' = Mode /\ Done(t) /\ UNCHANGED <<err, msix>>
       \/ /\ irq # "none" \/ "irq" \in env.failures
          /\ Fail(t, <<>>) /\ FreeQueueIrqs
    /\ UNCHANGED <<env, pciVars, lockVars, bitVars, rings, scheme, live, gone, netVars>>

\* txgbe_request_irq, which fails on vectors that are still requested; a
\* failed open frees the rings again, txgbe_thaw does not.
Request(t) ==
    /\ At(t, "request") \/ At(t, "rerequest")
    /\ \/ irq = "none" /\ irq' = Mode /\ Done(t) /\ UNCHANGED <<err, msix>>
       \/ /\ irq # "none" \/ "irq" \in env.failures
          /\ Fail(t, If(At(t, "request"), <<"freerings">>)) /\ FreeQueueIrqs
    /\ UNCHANGED <<env, pciVars, lockVars, bitVars, rings, scheme, live, gone, netVars>>

\* netif_set_real_num_tx_queues and _rx_queues.
SetQueues(t) ==
    /\ At(t, "setqueues")
    /\ \/ Done(t) /\ UNCHANGED err
       \/ "queues" \in env.failures /\ Fail(t, <<"freeirq", "freerings">>)
    /\ UNCHANGED <<env, pciVars, lockVars, bitVars, resVars, netVars>>

\* txgbe_set_ringparam stays up when it has no memory for its temporary rings.
Temp(t) ==
    /\ At(t, "temp")
    /\ \/ Done(t)
       \/ "alloc" \in env.failures /\ Goto(t, After("up", pc[t]))
    /\ UNCHANGED <<env, pciVars, err, lockVars, bitVars, resVars, netVars>>

\* txgbe_free_irq goes by TXGBE_FLAG_MSIX_ENABLED.
FreeIrq(t) ==
    /\ At(t, "freeirq")
    /\ irq' = IF irq = Mode THEN "none" ELSE irq
    /\ Done(t)
    /\ UNCHANGED <<env, pciVars, err, lockVars, bitVars, rings, msix, scheme, live, gone, netVars>>

FreeRings(t) ==
    /\ At(t, "freerings")
    /\ rings' = FALSE /\ Done(t)
    /\ UNCHANGED <<env, pciVars, err, lockVars, bitVars, irq, msix, scheme, live, gone, netVars>>

ClearScheme(t) ==
    /\ At(t, "clearscheme")
    /\ scheme' = FALSE /\ msix' = FALSE /\ Done(t)
    /\ UNCHANGED <<env, pciVars, err, lockVars, bitVars, rings, irq, live, gone, netVars>>

\* txgbe_init_interrupt_scheme sets DOWN when it succeeds.  txgbe_resume
\* returns its error, txgbe_dcbnl_devreset does not look at it.
InitScheme(t) ==
    /\ At(t, "initscheme")
    /\ \/ /\ scheme' = TRUE /\ msix' = env.msix /\ down' = TRUE
          /\ Done(t) /\ UNCHANGED err
       \/ /\ "scheme" \in env.failures /\ msix' = FALSE /\ UNCHANGED <<scheme, down>>
          /\ IF t = "bus" THEN Fail(t, <<>>) ELSE Done(t) /\ UNCHANGED err
    /\ UNCHANGED <<env, pciVars, lockVars, resetting, removing, svcVars, reqs, kr, rings, irq,
                   live, gone, netVars>>

\* txgbe_reset_interrupt_capability and txgbe_set_interrupt_capability.
Capability(t) ==
    /\ At(t, "capoff") \/ At(t, "capon")
    /\ msix' = (env.msix /\ At(t, "capon"))
    /\ Done(t)
    /\ UNCHANGED <<env, pciVars, err, lockVars, bitVars, rings, irq, scheme, live, gone, netVars>>

Opened(t) ==
    /\ At(t, "opened")
    /\ Done(t)
    /\ UNCHANGED <<env, pciVars, err, lockVars, bitVars, resVars, netVars>>

\* The stack takes the running mark back when ndo_open fails.
OpenRet(t) ==
    /\ At(t, "openret")
    /\ running' = ~err[t] /\ Done(t)
    /\ UNCHANGED <<env, pciVars, err, lockVars, bitVars, resVars, present, power>>
-----------------------------------------------------------------------------
(* The bus thread's own steps.                                             *)

Detach(t) ==
    /\ At(t, "detach")
    /\ present' = FALSE /\ Done(t)
    /\ UNCHANGED <<env, pciVars, err, lockVars, bitVars, resVars, running, power>>

\* txgbe_io_resume attaches the interface whatever txgbe_open returned;
\* txgbe_resume and txgbe_thaw return the error first.
Attach(t) ==
    /\ At(t, "attach") \/ At(t, "attachok")
    /\ present' = (At(t, "attach") \/ ~err[t] \/ present)
    /\ Done(t)
    /\ UNCHANGED <<env, pciVars, err, lockVars, bitVars, resVars, running, power>>

\* pci_channel_io_perm_failure, which only the PCI core reports: there will be
\* no slot reset and no resume.
Channel(t) ==
    /\ At(t, "channel")
    /\ \/ Done(t)
       \/ t = "bus" /\ "perm" \in env.failures /\ Goto(t, <<"unlock", "devunlock">>)
    /\ UNCHANGED <<env, pciVars, err, lockVars, bitVars, resVars, netVars>>

\* pci_save_state; when it fails, the suspend is given up with the device
\* detached and without its q_vectors, but enabled.
SaveState(t) ==
    /\ At(t, "save")
    /\ \/ Done(t) /\ UNCHANGED power
       \/ "save" \in env.failures /\ Goto(t, <<"devunlock">>) /\ power' = "resuming"
    /\ UNCHANGED <<env, pciVars, err, lockVars, bitVars, resVars, running, present>>

\* Fault: the device is disabled whether or not it is already.
DisableAlways(t) ==
    /\ At(t, "disable")
    /\ disabled' = TRUE /\ enabled' = enabled - 1
    /\ Done(t)
    /\ UNCHANGED <<env, err, lockVars, bitVars, resVars, netVars>>

\* if (!test_and_set_bit(__TXGBE_DISABLED)) pci_disable_device(pdev)
Disable(t) ==
    /\ At(t, "disable")
    /\ disabled' = TRUE /\ enabled' = IF disabled THEN enabled ELSE enabled - 1
    /\ Done(t)
    /\ UNCHANGED <<env, err, lockVars, bitVars, resVars, netVars>>

\* txgbe_io_slot_reset and txgbe_resume enable the device and give the adapter
\* its registers back (txgbe_resume does that first).  When the device cannot
\* be enabled, nobody resumes it.
Enable(t) ==
    /\ At(t, "slotreset") \/ At(t, "enable")
    /\ enabled < MaxEnable
    /\ \/ /\ disabled' = FALSE /\ enabled' = enabled + 1
          /\ gone' = FALSE /\ Done(t)
       \/ /\ "enable" \in env.failures /\ UNCHANGED pciVars
          /\ gone' = (gone /\ At(t, "slotreset"))
          /\ Goto(t, <<"devunlock">> \o If(At(t, "slotreset"), <<"recovered">> \o After("recovered", pc[t])))
    /\ UNCHANGED <<env, err, lockVars, bitVars, rings, irq, msix, scheme, live, netVars>>

\* Fault: the recovery is tried again as long as the flag is set.
RecoveredRetries(t) ==
    /\ At(t, "recovered")
    /\ Goto(t, If(t = "svc" /\ "recover" \in reqs, Recovery) \o Tail(pc[t]))
    /\ UNCHANGED <<env, pciVars, err, lockVars, bitVars, resVars, netVars>>

\* The end of txgbe_check_pcie_subtask.
Recovered(t) ==
    /\ At(t, "recovered")
    /\ reqs' = IF t = "svc" THEN reqs \ {"recover"} ELSE reqs
    /\ Done(t)
    /\ UNCHANGED <<env, pciVars, err, lockVars, down, resetting, removing, svcVars, kr, resVars,
                   netVars>>

Removing(t) ==
    /\ At(t, "removing")
    /\ removing' = TRUE /\ Done(t)
    /\ UNCHANGED <<env, pciVars, err, lockVars, down, resetting, svcVars, reqs, kr, resVars, netVars>>

\* cancel_work_sync(&adapter->service_task), which leaves SERVICE_SCHED alone.
Cancel(t) ==
    /\ At(t, "cancel") /\ pc["svc"] = <<>>
    /\ queued' = FALSE /\ Done(t)
    /\ UNCHANGED <<env, pciVars, err, lockVars, down, resetting, removing, sched, reqs, kr,
                   resVars, netVars>>
-----------------------------------------------------------------------------
(* The service task's own steps, and what wakes it.                        *)

\* Fault: the request stays set.
TakeKeepsRequest(t) ==
    /\ At(t, "take")
    /\ Goto(t, Tail(pc[t]))
    /\ UNCHANGED <<env, pciVars, err, lockVars, down, resetting, removing, svcVars, reqs, kr,
                   resVars, netVars>>

\* txgbe_reset_subtask under the RTNL lock: a reset announced by the adapter
\* and a PF reset reinit; a global reset alone is only asked of the adapter.
Take(t) ==
    /\ At(t, "take")
    /\ Goto(t, If(reqs \cap {"pf", "intr"} # {} /\ ~kr,
                  txgbe_reinit_locked) \o Tail(pc[t]))
    /\ kr' = (kr \/ reqs \cap {"pf", "intr"} # {})
    /\ reqs' = reqs \ {"pf", "global", "intr"}
    /\ UNCHANGED <<env, pciVars, err, lockVars, down, resetting, removing, svcVars, resVars, netVars>>

Complete(t) ==
    /\ At(t, "complete")
    /\ sched' = FALSE /\ Done(t)
    /\ UNCHANGED <<env, pciVars, err, lockVars, down, resetting, removing, queued, reqs, kr,
                   resVars, netVars>>

\* txgbe_watchdog_subtask looks at the state once ...
Watchdog(t) ==
    /\ At(t, "watchdog")
    /\ Goto(t, If(~down /\ ~removing /\ ~resetting, <<"flush">>) \o Tail(pc[t]))
    /\ UNCHANGED <<env, pciVars, err, lockVars, bitVars, resVars, netVars>>

\* ... and, when the link is lost with frames pending, asks for a reset later.
\* The task does not schedule itself: the timer does.
FlushTx(t) ==
    /\ At(t, "flush")
    /\ reqs' \in {reqs, reqs \cup (env.events \cap {"pf"})}
    /\ Done(t)
    /\ UNCHANGED <<env, pciVars, err, lockVars, down, resetting, removing, svcVars, kr, resVars,
                   netVars>>

\* Only one who sets SERVICE_SCHED queues the work.
txgbe_service_event_schedule ==
    IF ~down /\ ~removing /\ ~sched THEN sched' = TRUE /\ queued' = TRUE ELSE UNCHANGED svcVars

\* What the "other" vector asks for: a reset after an ECC error or a stall, a
\* reset the adapter has begun itself, a recovery after an error on the bus.
\* The single vector knows neither stalls nor errors on the bus, and answers an
\* ECC error with a global reset.
MsixOtherAsks == {"pf", "intr", "recover"}
IntrAsks      == {"global", "intr"}

Interrupt(e) ==
    /\ live /\ e \in env.events
    /\ \/ irq = "msix" /\ e \in MsixOtherAsks
       \/ irq = "legacy" /\ e \in IntrAsks
    /\ reqs' = reqs \cup {e}
    /\ txgbe_service_event_schedule
    /\ UNCHANGED <<env, pciVars, pc, err, lockVars, down, resetting, removing, kr, resVars, netVars>>

\* The stack's watchdog finds a queue stopped for too long: a reset, or a
\* recovery when the bus does not answer any more.
TxTimeout(e) ==
    /\ live /\ e \in env.events
    /\ \/ e = "pf" /\ ~down /\ ~resetting /\ ~removing
       \/ e = "recover"
    /\ reqs' = reqs \cup {e}
    /\ txgbe_service_event_schedule
    /\ UNCHANGED <<env, pciVars, pc, err, lockVars, down, resetting, removing, kr, resVars, netVars>>

\* The timer also passes on the other port's wish for a recovery.
ServiceTimer ==
    /\ live
    /\ reqs' \in {reqs, reqs \cup (env.events \cap {"recover"})}
    /\ txgbe_service_event_schedule
    /\ UNCHANGED <<env, pciVars, pc, err, lockVars, down, resetting, removing, kr, resVars, netVars>>

\* txgbe_remove_adapter: a register read found all ones.
RemoveAdapter ==
    /\ "gone" \in env.events /\ ~gone
    /\ gone' = TRUE
    /\ txgbe_service_event_schedule
    /\ UNCHANGED <<env, pciVars, pc, err, lockVars, down, resetting, removing, reqs, kr, rings,
                   irq, msix, scheme, live, netVars>>
-----------------------------------------------------------------------------
Step(t) ==
    \/ Enter(t) \/ Lock(t) \/ Unlock(t) \/ DevLock(t) \/ DevUnlock(t)
    \/ SetResetting(t) \/ ClearResetting(t) \/ ClearKr(t) \/ Protect(t)
    \/ SetDown(t) \/ Drop(t) \/ Up(t) \/ Alloc(t) \/ Request(t) \/ SetQueues(t) \/ Temp(t)
    \/ FreeIrq(t) \/ FreeRings(t)
    \/ ClearScheme(t) \/ InitScheme(t) \/ Capability(t) \/ Opened(t) \/ OpenRet(t)
    \/ Detach(t) \/ Attach(t) \/ Channel(t) \/ SaveState(t) \/ Disable(t) \/ Enable(t)
    \/ Recovered(t) \/ Removing(t) \/ Cancel(t)
    \/ Take(t) \/ Watchdog(t) \/ FlushTx(t) \/ Complete(t)

Next ==
    \/ \E op \in UserOps : UserCall(op)
    \/ \E op \in BusOps : BusCall(op)
    \/ ServiceTask
    \/ \E t \in Threads : Step(t)
    \/ \E e \in env.events : Interrupt(e) \/ TxTimeout(e)
    \/ ServiceTimer \/ RemoveAdapter

Spec == Init /\ [][Next]_vars

\* Every thread goes on when it can, a lock is handed out fairly, a queued
\* service task runs and the timer fires again.
Fairness ==
    /\ \A t \in Threads : SF_vars(Lock(t)) /\ SF_vars(DevLock(t)) /\ WF_vars(Step(t))
    /\ WF_vars(ServiceTask) /\ WF_vars(ServiceTimer)

FairSpec == Spec /\ Fairness
-----------------------------------------------------------------------------
(* Properties.                                                             *)

TypeOK ==
    /\ env \in Scenarios
    /\ DOMAIN pc = Threads /\ err \in [Threads -> BOOLEAN]
    /\ {rtnl, dlock} \subseteq Threads \cup {Nobody}
    /\ {down, resetting, removing, sched, queued, kr, rings, msix, scheme, live, gone,
        disabled, running, present} \subseteq BOOLEAN
    /\ irq \in {"none", "msix", "legacy"}
    /\ reqs \subseteq env.events \ {"gone"}
    /\ enabled \in 0 .. MaxEnable
    /\ power \in {"on", "suspended", "frozen", "resuming", "gone"}

\* Whoever clears DOWN (txgbe_up_complete, from open, reinit, set_ringparam or
\* thaw) does it on an adapter that has its rings, its interrupt handlers and
\* its q_vectors, and nobody takes these away before DOWN is set again.
UpHasResources == ~down => rings /\ irq # "none" /\ scheme

\* txgbe_free_irq only ever runs on interrupts that are requested.
IrqFreedOnce == \A t \in Threads : At(t, "freeirq") => irq # "none"

\* Handlers are freed the way they were requested: whatever changes
\* TXGBE_FLAG_MSIX_ENABLED (freeze, suspend, a change of the queues, a failed
\* request) does it when no handler is left that it was requested under.
IrqFreedAsRequested ==
    \A t \in Threads : At(t, "freeirq") /\ irq # "none" => irq = Mode

\* __TXGBE_DISABLED pairs every pci_disable_device with one enable: suspend,
\* error recovery and remove never disable the device twice.
EnableBalanced == enabled = IF disabled THEN 0 ELSE 1

\* While nobody holds the RTNL lock, a stopped interface is down and holds
\* neither rings nor interrupt handlers.
StoppedHoldsNothing ==
    rtnl = Nobody /\ ~running => down /\ ~rings /\ irq = "none"

\* ... and one that is running, attached and still on the bus is up: a call
\* that took it down has brought it up again before it lets go of the lock.
RunningIsUp == rtnl = Nobody /\ running /\ present /\ ~gone => ~down

\* txgbe_reset_subtask, "If we're already down, just bail": the service task
\* never brings up an interface that has been stopped.
ResetKeepsDown ==
    [][down /\ ~down' /\ pc'["svc"] # pc["svc"] => running]_vars

\* txgbe_freeze "quiesce[s] the device (no IRQ's or DMA)": once it has
\* returned, and until thaw, nobody brings the device up.
FrozenIsQuiet == power = "frozen" /\ pc["bus"] = <<>> => down

\* Every call returns: the RTNL lock, the device lock, RESETTING, the wait
\* for a reinit and cancel_work_sync never wait on each other for ever.
CallsReturn == \A t \in Threads : []<>(pc[t] = <<>>)

\* A PF reset is carried out, or dropped by going down: a request that stays
\* pending for ever (the watchdog may set it behind a close) is one on an
\* interface that stays down.
ResetServed == <>[]("pf" \in reqs) => <>[]down

\* An adapter that left the bus while it was up is taken down by the service
\* task, whoever else holds the locks, unless it comes back.
GoneGoesDown == gone /\ ~down ~> down \/ ~gone
=============================================================================
