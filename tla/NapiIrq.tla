------------------------------ MODULE NapiIrq -------------------------------
(***************************************************************************)
(* Interrupt masking and NAPI polling of the driver under MSI-X, for one   *)
(* queue vector and the "other" vector, while the device is taken down and *)
(* brought up again: txgbe_msix_clean_rings, txgbe_poll, txgbe_msix_other, *)
(* txgbe_irq_enable, txgbe_irq_disable, txgbe_disable_device and           *)
(* txgbe_up_complete.                                                      *)
(*                                                                         *)
(* Delivering a vector masks it.  The driver unmasks it when the work is   *)
(* done, unless the device is going down or RESETTING; the test of those   *)
(* bits and the register write are two steps.                              *)
(***************************************************************************)
EXTENDS Naturals, FiniteSets

CONSTANTS CPUs,     \* where the poll function may run
          Cycles    \* how the device goes down: "close" (ndo_stop, then ndo_open),
                    \* "reinit" (txgbe_reinit_locked, under __TXGBE_RESETTING),
                    \* "recover" (PCIe recovery: txgbe_close, slot reset, txgbe_open)

ASSUME NapiIrqAssumption ==
    /\ CPUs # {} /\ IsFiniteSet(CPUs)
    /\ Cycles # {} /\ Cycles \subseteq {"close", "reinit", "recover"}

Vectors == {"queue", "other"}

VARIABLES
    mask,       \* PX_IMS: vector masked
    cause,      \* PX_IC: cause pending on the vector
    ien,        \* PX_MISC_IEN: the other vector's causes are enabled
    isr,        \* "idle", "run" or, in msix_other, "test" and "arm"
    napi,       \* "off", "idle" or "sched"
    missed,     \* scheduled again while scheduled
    poll,       \* per CPU: "none", "clean", "complete", "test", "arm"
    rx,         \* received descriptors wait on the ring
    tx,         \* finished Tx descriptors wait: "none", "some"; "full": the queue stopped
    link,       \* a link change the driver has not noted in NEED_LINK_UPDATE
    down, resetting,  \* __TXGBE_DOWN, __TXGBE_RESETTING
    request,    \* of TXGBE_FLAG2_PF_RESET_REQUESTED, _PCIE_NEED_RECOVER: those set
    life,       \* program counter of the down/up cycle
    cycle       \* which cycle it is

irqVars  == <<mask, cause, ien, isr>>
napiVars == <<napi, missed, poll>>
workVars == <<rx, tx, link>>
lifeVars == <<down, resetting, request, life, cycle>>
vars == <<irqVars, napiVars, workVars, lifeVars>>

Lives == {"up", "mask", "sync", "napi", "txoff", "config", "clear", "napion",
          "ack", "unmask", "finish"}

TypeOK ==
    /\ mask \in [Vectors -> BOOLEAN] /\ cause \in [Vectors -> BOOLEAN] /\ ien \in BOOLEAN
    /\ isr \in [Vectors -> {"idle", "run", "test", "arm"}] /\ isr["queue"] \in {"idle", "run"}
    /\ napi \in {"off", "idle", "sched"} /\ missed \in BOOLEAN
    /\ poll \in [CPUs -> {"none", "clean", "complete", "test", "arm"}]
    /\ rx \in BOOLEAN /\ tx \in {"none", "some", "full"} /\ link \in BOOLEAN
    /\ down \in BOOLEAN /\ resetting \in BOOLEAN /\ request \subseteq {"reset", "recover"}
    /\ life \in Lives /\ cycle \in Cycles
    /\ missed => napi = "sched"
    /\ (napi = "off") <=> life \in {"txoff", "config", "clear", "napion"}

Init ==
    /\ mask = [v \in Vectors |-> FALSE] /\ cause = [v \in Vectors |-> FALSE] /\ ien = TRUE
    /\ isr = [v \in Vectors |-> "idle"]
    /\ napi = "idle" /\ missed = FALSE /\ poll = [c \in CPUs |-> "none"]
    /\ rx = FALSE /\ tx = "none" /\ link = FALSE
    /\ down = FALSE /\ resetting = FALSE /\ request = {}
    /\ life = "up" /\ cycle \in Cycles

Halted == down \/ resetting

\* Between txgbe_close and the next txgbe_open: the rings are empty and no
\* handler is registered.
Closed == cycle \in {"close", "recover"} /\ life = "config"
-----------------------------------------------------------------------------
(* The adapter.  A cause is recorded whether or not its vector is masked.  *)

RxOn == life \in {"up", "clear", "napion", "ack", "unmask", "finish"}
TxOn == life \in {"up", "mask", "sync", "napi"}

HwReceive ==
    /\ RxOn
    /\ rx' = TRUE /\ cause' = [cause EXCEPT !["queue"] = TRUE]
    /\ UNCHANGED <<mask, ien, isr, napiVars, tx, link, lifeVars>>

\* A packet is sent; when the ring fills up meanwhile, the queue stops.
HwTransmit ==
    /\ TxOn
    /\ tx' \in (IF tx = "full" \/ life # "up" THEN {tx} \ {"none"} ELSE {"some", "full"})
    /\ cause' = [cause EXCEPT !["queue"] = TRUE]
    /\ UNCHANGED <<mask, ien, isr, napiVars, rx, link, lifeVars>>

HwLinkChange ==
    /\ link' = TRUE
    /\ cause' = [cause EXCEPT !["other"] = @ \/ ien]
    /\ UNCHANGED <<mask, ien, isr, napiVars, rx, tx, lifeVars>>

\* The vector is delivered and, by EIAM, masked.  free_irq leaves no handler
\* between close and open.
Deliver(v) ==
    /\ cause[v] /\ ~mask[v] /\ isr[v] = "idle"
    /\ ~Closed
    /\ cause' = [cause EXCEPT ![v] = FALSE]
    /\ mask' = [mask EXCEPT ![v] = TRUE]
    /\ isr' = [isr EXCEPT ![v] = "run"]
    /\ UNCHANGED <<ien, napiVars, workVars, lifeVars>>
-----------------------------------------------------------------------------
(* The handlers and the poll function.                                     *)

\* txgbe_msix_clean_rings: napi_schedule does nothing while NAPI is disabled
\* or being disabled.
MsixCleanRings ==
    /\ isr["queue"] = "run"
    /\ isr' = [isr EXCEPT !["queue"] = "idle"]
    /\ CASE napi = "idle" /\ life # "napi"  -> napi' = "sched" /\ UNCHANGED missed
         [] napi = "sched" /\ life # "napi" -> missed' = TRUE /\ UNCHANGED napi
         [] OTHER                           -> UNCHANGED <<napi, missed>>
    /\ UNCHANGED <<mask, cause, ien, poll, workVars, lifeVars>>

\* txgbe_msix_other up to its last test: txgbe_check_lsc notes the link change.
MsixOther ==
    /\ isr["other"] = "run"
    /\ link' = FALSE
    /\ isr' = [isr EXCEPT !["other"] = "test"]
    /\ UNCHANGED <<mask, cause, ien, napiVars, rx, tx, lifeVars>>

MsixOtherTest ==
    /\ isr["other"] = "test"
    /\ isr' = [isr EXCEPT !["other"] = IF Halted THEN "idle" ELSE "arm"]
    /\ UNCHANGED <<mask, cause, ien, napiVars, workVars, lifeVars>>

\* txgbe_irq_enable(adapter, false, false)
MsixOtherArm ==
    /\ isr["other"] = "arm"
    /\ ien' = TRUE /\ mask' = [mask EXCEPT !["other"] = FALSE]
    /\ isr' = [isr EXCEPT !["other"] = "idle"]
    /\ UNCHANGED <<cause, napiVars, workVars, lifeVars>>

\* NAPI calls txgbe_poll on one CPU at a time; what follows
\* napi_complete_done may overlap the next call.
Poll(c) ==
    /\ napi = "sched" /\ poll[c] = "none"
    /\ \A d \in CPUs : poll[d] \notin {"clean", "complete"}
    /\ poll' = [poll EXCEPT ![c] = "clean"]
    /\ UNCHANGED <<irqVars, napi, missed, workVars, lifeVars>>

\* txgbe_clean_tx_irq returns at once while the device is halted;
\* txgbe_clean_rx_irq does not look at the state bits.
PollClean(c) ==
    /\ poll[c] = "clean"
    /\ rx' = FALSE
    /\ tx' = IF Halted THEN tx ELSE "none"
    /\ poll' = [poll EXCEPT ![c] = "complete"]
    /\ UNCHANGED <<irqVars, napi, missed, link, lifeVars>>

\* The budget is used up.  NAPI polls again, or, when it is being disabled,
\* completes without the driver's code.
PollBudget(c) ==
    /\ poll[c] = "clean" /\ rx
    /\ poll' = [poll EXCEPT ![c] = "none"]
    /\ IF life = "napi" THEN napi' = "idle" /\ missed' = FALSE
                        ELSE UNCHANGED <<napi, missed>>
    /\ UNCHANGED <<irqVars, workVars, lifeVars>>

\* Fault: txgbe_poll leaves early on a halted device and keeps NAPI scheduled.
PollCompleteBails(c) ==
    /\ poll[c] = "complete"
    /\ missed' = (missed /\ Halted)
    /\ napi' = IF missed \/ Halted THEN "sched" ELSE "idle"
    /\ poll' = [poll EXCEPT ![c] = IF missed \/ Halted THEN "none" ELSE "test"]
    /\ UNCHANGED <<irqVars, workVars, lifeVars>>

\* napi_complete_done: false when an interrupt asked for another round.
PollComplete(c) ==
    /\ poll[c] = "complete"
    /\ missed' = FALSE
    /\ napi' = IF missed THEN "sched" ELSE "idle"
    /\ poll' = [poll EXCEPT ![c] = IF missed THEN "none" ELSE "test"]
    /\ UNCHANGED <<irqVars, workVars, lifeVars>>

PollTest(c) ==
    /\ poll[c] = "test"
    /\ poll' = [poll EXCEPT ![c] = IF Halted THEN "none" ELSE "arm"]
    /\ UNCHANGED <<irqVars, napi, missed, workVars, lifeVars>>

\* Fault: the wrong bit of the mask register.
PollArmWrongVector(c) ==
    /\ poll[c] = "arm"
    /\ mask' = [mask EXCEPT !["other"] = FALSE]
    /\ poll' = [poll EXCEPT ![c] = "none"]
    /\ UNCHANGED <<cause, ien, isr, napi, missed, workVars, lifeVars>>

\* txgbe_intr_enable(TXGBE_INTR_Q(v_idx))
PollArm(c) ==
    /\ poll[c] = "arm"
    /\ mask' = [mask EXCEPT !["queue"] = FALSE]
    /\ poll' = [poll EXCEPT ![c] = "none"]
    /\ UNCHANGED <<cause, ien, isr, napi, missed, workVars, lifeVars>>

\* Fault: nothing is done unless txgbe_check_tx_hang finds the ring hung,
\* which it is not once the descriptors are done.
TxTimeoutRealHangOnly ==
    /\ tx = "full" /\ life = "up" /\ "reinit" \in Cycles
    /\ UNCHANGED vars

\* txgbe_tx_timeout, of a queue stopped for too long: every masked vector is
\* raised and unmasked, and a reset is asked for.  When the vendor id reads as
\* failed the registers cannot be reached, and a PCIe recovery is asked for.
TxTimeout ==
    /\ tx = "full" /\ life = "up" /\ "reinit" \in Cycles
    /\ \/ /\ cause' = [v \in Vectors |-> cause[v] \/ mask[v]]
          /\ mask' = [v \in Vectors |-> FALSE]
          /\ request' = request \cup (IF Halted THEN {} ELSE {"reset"})
       \/ /\ "recover" \in Cycles
          /\ request' = request \cup {"recover"}
          /\ UNCHANGED <<cause, mask>>
    /\ UNCHANGED <<ien, isr, napiVars, workVars, down, resetting, life, cycle>>
-----------------------------------------------------------------------------
(* txgbe_down and txgbe_up_complete.                                       *)

\* RESETTING and DOWN are set, receives are off, the queues stopped, and
\* dev_watchdog can no longer call txgbe_tx_timeout.
DownBegin(k) ==
    /\ life = "up"
    /\ life' = "mask" /\ cycle' = k
    /\ down' = TRUE /\ resetting' = (k = "reinit")
    /\ UNCHANGED <<irqVars, napiVars, workVars, request>>

\* txgbe_irq_disable: the register writes.
IrqDisable ==
    /\ life = "mask" /\ life' = "sync"
    /\ ien' = FALSE /\ mask' = [v \in Vectors |-> TRUE]
    /\ UNCHANGED <<cause, isr, napiVars, workVars, down, resetting, request, cycle>>

\* txgbe_irq_disable: synchronize_irq on each vector.
IrqSync ==
    /\ life = "sync" /\ life' = "napi"
    /\ \A v \in Vectors : isr[v] = "idle"
    /\ UNCHANGED <<irqVars, napiVars, workVars, down, resetting, request, cycle>>

\* Fault: NAPI is switched off without waiting for the poll function.
NapiDisableNoWait ==
    /\ life = "napi" /\ life' = "txoff"
    /\ napi' = "off" /\ request' = request \ {"reset"}
    /\ UNCHANGED <<irqVars, missed, poll, workVars, down, resetting, cycle>>

\* txgbe_napi_disable_all waits until the vector is not scheduled, and the
\* pending reset requests are dropped; PCIE_NEED_RECOVER stays.
NapiDisable ==
    /\ life = "napi" /\ life' = "txoff"
    /\ napi = "idle" /\ napi' = "off"
    /\ request' = request \ {"reset"}
    /\ UNCHANGED <<irqVars, missed, poll, workVars, down, resetting, cycle>>

\* The rest of txgbe_down: txgbe_reset (which masks everything again), then
\* the rings are emptied.
DownReset ==
    /\ life = "txoff" /\ life' = "config"
    /\ mask' = [v \in Vectors |-> TRUE] /\ cause' = [v \in Vectors |-> FALSE]
    /\ rx' = FALSE /\ tx' = "none"
    /\ UNCHANGED <<ien, isr, napiVars, link, down, resetting, request, cycle>>

\* txgbe_configure: the rings run again.  After a close this is the user's next
\* open, in a recovery txgbe_io_resume, which a failed slot reset leaves out.
UpConfigure ==
    /\ life = "config" /\ life' = "clear"
    /\ UNCHANGED <<irqVars, napiVars, workVars, down, resetting, request, cycle>>

UpClearDown ==
    /\ life = "clear" /\ life' = "napion"
    /\ down' = FALSE
    /\ UNCHANGED <<irqVars, napiVars, workVars, resetting, request, cycle>>

\* Fault: the up path forgets NAPI.
NapiEnableForgotten ==
    /\ life = "napion" /\ life' = "ack"
    /\ UNCHANGED <<irqVars, napiVars, workVars, down, resetting, request, cycle>>

NapiEnable ==
    /\ life = "napion" /\ life' = "ack"
    /\ napi' = "idle"
    /\ UNCHANGED <<irqVars, missed, poll, workVars, down, resetting, request, cycle>>

\* "clear any pending interrupts, may auto mask"
UpAck ==
    /\ life = "ack" /\ life' = "unmask"
    /\ cause' = [v \in Vectors |-> FALSE]
    /\ UNCHANGED <<mask, ien, isr, napiVars, workVars, down, resetting, request, cycle>>

\* Fault: txgbe_irq_enable(adapter, false, true).
UpUnmaskNoQueues ==
    /\ life = "unmask" /\ life' = "finish"
    /\ ien' = TRUE /\ mask' = [mask EXCEPT !["other"] = FALSE]
    /\ UNCHANGED <<cause, isr, napiVars, workVars, down, resetting, request, cycle>>

\* txgbe_irq_enable(adapter, true, true)
UpUnmask ==
    /\ life = "unmask" /\ life' = "finish"
    /\ ien' = TRUE /\ mask' = [v \in Vectors |-> FALSE]
    /\ UNCHANGED <<cause, isr, napiVars, workVars, down, resetting, request, cycle>>

\* Fault: NEED_LINK_UPDATE is not set.
UpFinishNoLinkUpdate ==
    /\ life = "finish" /\ life' = "up"
    /\ resetting' = FALSE
    /\ UNCHANGED <<irqVars, napiVars, workVars, down, request, cycle>>

\* The queues start, NEED_LINK_UPDATE is set; RESETTING is cleared after
\* txgbe_up has returned, PCIE_NEED_RECOVER at the end of a recovery.
UpFinish ==
    /\ life = "finish" /\ life' = "up"
    /\ link' = FALSE /\ resetting' = FALSE
    /\ request' = request \ (IF cycle = "recover" THEN {"recover"} ELSE {})
    /\ UNCHANGED <<irqVars, napiVars, rx, tx, down, cycle>>
-----------------------------------------------------------------------------
OtherStep == MsixOther \/ MsixOtherTest \/ MsixOtherArm
PollStep(c) == Poll(c) \/ PollClean(c) \/ PollComplete(c) \/ PollTest(c) \/ PollArm(c)
LifeStep == IrqDisable \/ IrqSync \/ NapiDisable \/ DownReset \/ UpConfigure
                \/ UpClearDown \/ NapiEnable \/ UpAck \/ UpUnmask \/ UpFinish

Next ==
    \/ HwReceive \/ HwTransmit \/ HwLinkChange
    \/ \E v \in Vectors : Deliver(v)
    \/ MsixCleanRings \/ OtherStep
    \/ \E c \in CPUs : PollStep(c) \/ PollBudget(c)
    \/ TxTimeout
    \/ \E k \in Cycles : DownBegin(k)
    \/ LifeStep

Spec == Init /\ [][Next]_vars

\* txgbe_reset_subtask and txgbe_check_pcie_subtask.
Serve == \/ "reset" \in request /\ \E k \in Cycles \cap {"reinit"} : DownBegin(k)
         \/ "recover" \in request /\ \E k \in Cycles \cap {"recover"} : DownBegin(k)

\* Vectors are delivered, handlers and the softirq run to their end, a down or
\* an up once begun goes on, the service task serves a request.  A poll that
\* is always given work finishes a round at last.  Nothing makes the user open
\* a closed interface, or the slot come back in a recovery.
Fairness ==
    /\ \A v \in Vectors : WF_vars(Deliver(v))
    /\ WF_vars(MsixCleanRings) /\ WF_vars(OtherStep)
    /\ WF_vars(\E c \in CPUs : Poll(c))
    /\ \A c \in CPUs : SF_vars(PollClean(c)) /\ WF_vars(PollComplete(c))
                         /\ WF_vars(PollTest(c)) /\ WF_vars(PollArm(c))
    /\ WF_vars(TxTimeout)
    /\ WF_vars(Serve) /\ WF_vars(~Closed /\ LifeStep)

FairSpec == Spec /\ Fairness
-----------------------------------------------------------------------------
(* Properties.                                                             *)

\* Nobody is inside the rings when txgbe_down resets the adapter and empties
\* them, nor until NAPI is enabled again: txgbe_disable_device has waited for
\* the handlers and for the poll function.
RingsQuiet ==
    life \in {"txoff", "config", "clear", "napion"} =>
        napi # "sched" /\ \A c \in CPUs : poll[c] \notin {"clean", "complete"}

\* While the device is up and no handler or poll of it is under way, both
\* vectors are unmasked: txgbe_poll and txgbe_msix_other re-enable what the
\* delivery masked, and txgbe_up_complete what txgbe_irq_disable did.
VectorArmed ==
    (/\ life = "up" /\ napi = "idle"
     /\ \A v \in Vectors : isr[v] = "idle"
     /\ \A c \in CPUs : poll[c] = "none")
    => \A v \in Vectors : ~mask[v]

\* A receive interrupt that is pending on a running device leads to a poll
\* that empties the ring, or to the ring being emptied by a down.
ReceiveServed == (life = "up" /\ rx /\ cause["queue"]) ~> ~rx

\* Every link change is noted in NEED_LINK_UPDATE, by txgbe_check_lsc or, when
\* it happened with the interrupt off, by the next txgbe_up_complete: if one
\* is never noted, the interface is closed and never opened again.
LinkChangeNoted == <>[]link => <>[]Closed

\* The waits of txgbe_disable_device (synchronize_irq, napi_disable) end: no
\* handler re-arms or re-schedules its vector for ever, and a poll that sees
\* the device halted still gives NAPI back.
DownCompletes == (life = "mask") ~> (life = "txoff")

\* A transmit queue that has stopped is cleaned again at last, by the poll
\* function or by the reset that txgbe_tx_timeout asks for.
TransmitRecovers == (tx = "full") ~> (tx # "full")
=============================================================================
