# TLA+ verification of the txgbe driver

The modules in this directory model the concurrency core of the txgbe Linux
driver (`src/src/`). TLC checks them on small instances, and TLAPS proves the
central invariants of the transmit ring for rings of every size.
`PROJECT.json` lists components, runs, faults, hazards, findings and theorems,
and maps every definition to the source lines it stands for.

## 1. The system

txgbe drives a 10GbE PCIe adapter. Its parts, their state, and who meets
whom in them:

| Part | State | Operations | Meets |
|---|---|---|---|
| Transmit ring | cursors, `tx_buffer_info`, descriptors, queue-stopped bit | `txgbe_xmit_frame_ring`, `txgbe_tx_map`, `txgbe_clean_tx_irq` | stack, NAPI, adapter DMA, watchdog, reset |
| Receive ring, LRO, XDP/AF_XDP | cursors, pages, partial packets, pools | `txgbe_clean_rx_irq`, `txgbe_alloc_rx_buffers` | NAPI, adapter DMA, reset |
| Interrupts and NAPI | mask, causes, NAPI state | `txgbe_msix_*`, `txgbe_poll`, `txgbe_irq_enable/disable` | adapter, service task, down/up |
| Life cycle | `adapter->state` bits, `flags2`, rings, irqs, q_vectors | open, close, reinit, suspend, resume, freeze, thaw, remove, error recovery | RTNL lock, device lock, service task |
| Service task | SERVICE_SCHED, requests in `flags`/`flags2` | reset, PCIe, SFP, link, FDIR, hang and watchdog subtasks | interrupts, timer, RTNL lock |
| Link, SFP, backplane | NEED_LINK_UPDATE, IN_SFP_INIT, link state | `txgbe_watchdog_*`, `txgbe_sfp_*`, `txgbe_bp_*` | service task, interrupts, reset |
| SR-IOV, mailbox | mailbox buffer, ownership bits, `vfinfo` | `txgbe_rcv_msg_from_vf`, `txgbe_write/read_mbx` | VFs, interrupts, reset |
| Filters | MAC table, VLVF, VFTA, FDIR filters | `txgbe_add_mac_filter`, `txgbe_set_vfta`, FDIR calls | PF and VFs, reset |
| PTP | one transmit time stamp slot | `txgbe_ptp_tx_hwtstamp*` | transmit, work item, stop |
| DCB, queues, vectors | credits, queue counts | pure computations | device reset |
| FCoE | DDP contexts | `txgbe_fcoe_ddp_get/put` | receive path, stack |
| Firmware, EEPROM, flash | semaphore, host interface buffer | `txgbe_acquire_swfw_sync`, `txgbe_host_interface_command` | other port, firmware |

What makes it hard: cursors and bits shared without a common lock;
`__TXGBE_DOWN` and `__TXGBE_RESETTING` tested in one step and used in the next;
interrupts that mask themselves and must be re-armed; waits for each other
(RTNL, device lock, RESETTING, `cancel_work_sync`, `napi_disable`); and error
recovery that interrupts all of it. The `hazards` of `PROJECT.json` give the
lines.

## 2. The modules

### TxRing, TxQueue, MCTxRing, TxRing_proofs

`TxRing` is one ring. The transmitter (`x`) and the cleaner (`c`) are threads
whose every access to state the other writes is a step. On one side: room check,
stop, second look, test of DOWN/RESETTING and, in a step of its own, the restart
of the queue (`XmitCheck` to `XmitRestart`); context descriptor, data
descriptors, `next_to_watch`, `next_to_use`, doorbell. A packet may be rejected
before it is mapped (`XmitReject`), or a mapping may fail at any fragment
(`XmitMapFail`), after which `XmitUnwind` undoes what was mapped, from the last
slot back to the first. On the other side: test of DD, freeing, publication of
`next_to_clean`, space test, test of the state bits, wake (`CleanStart` to
`CleanRestart`). The adapter fetches and completes descriptors. The link
watchdog reads NEED_LINK_UPDATE (`need`) and the link in two steps, keeps what
it read in `link_up`, and stops and wakes the queue outside the queue's lock; a
change of the link is noted at once while interrupts are on. A down/up cycle
runs through the steps of `txgbe_disable_device`, `txgbe_clean_tx_ring`,
`txgbe_configure_tx_ring` and `txgbe_up_complete`. It is started by
`ResetSubtask` (under RESETTING), by `PcieSubtask` (the service task closes and
opens the interface itself) or by somebody else (`DownCall`). `TxTimeout` has
both branches of `txgbe_tx_timeout`.

`TxQueue` is the abstract queue the ring implements (`RingIsQueue`); it may be
flushed only during a reset (`reset`, mapped to the step that empties the ring).
Not in TxRing: the hang detection of `txgbe_clean_tx_irq`, and byte queue
limits (section 6).

### NapiIrq, MCNapiIrq

A queue vector and the "other" vector: mask and cause bits, delivery, handlers,
the NAPI states with the missed bit, polls on several CPUs, and the steps of
`txgbe_disable_device` and `txgbe_up_complete` between which they interleave.
The test of DOWN/RESETTING and the write of the mask register are two steps, as
in the code. A cycle is a close and open by the user, a reinit under RESETTING,
or the close and open of a PCIe recovery; `TxTimeout` asks for one of the last
two.

### Adapter, MCAdapter

A user thread (RTNL lock), the bus thread (device lock: power management, error
recovery, removal) and the service task. An entry point is the sequence of its
steps that change shared state; `pc[t]` is what remains. Bodies are expanded
when the thread looks at the device, with the conditions of the code. `env` is
the environment, chosen at the start: entry points, events, failures, whether
the device is one of the KR (backplane) ids, whether MSI-X is granted.

* `sched` is SERVICE_SCHED, `queued` the work item itself. `cancel_work_sync`
  takes the item off the queue and leaves the bit set.
* `irq` is the kind of handler requested, `msix` TXGBE_FLAG_MSIX_ENABLED. A
  failing MSI-X request gives the vectors back and clears the flag (`Request`),
  as does the end of the interrupt scheme; what `txgbe_free_irq` frees depends
  on the flag it finds.
* What an interrupt may ask for depends on the handler: the MSI-X handler a PF
  or INTR reset or a recovery, the legacy one a GLOBAL or INTR reset
  (`Interrupt`). The watchdog's own PF request for work left on a ring without
  link is `FlushTx`.
* `Channel` is the state of the PCI channel a recovery reports; on a permanent
  failure `txgbe_io_error_detected` only detaches. `SaveState` is
  `pci_save_state` in suspend and shutdown, which may fail. `Protect` is the
  KR branch of `txgbe_close`.

`running` and `present` are `netif_running` and `netif_device_present`; the
kernel's part (locks, IFF_UP, PCI core) is marked external in the map.
Abstracted: ring contents, vectors and NAPI (the two modules above), register
programming, `txgbe_reset`.

## 3. Runs

| Run | Shows | Bounds |
|---|---|---|
| `tx_data` | gap of two slots (`GapKept`), every packet freed once (`HeldOnce`), nothing unmapped fetched (`FetchedIsMapped`), no mapping left over by the cleaner or by a partial unwind (`MappingsOwned`), ring refines FIFO (`RingIsQueue`) | 14 slots, 2 packets of 2 or of 3+1 descriptors, one of which continues a fragment; batches, rejected packets, mapping failures at every fragment; the cursors wrap and the ring gets full |
| `tx_teardown` | the same across resets and link changes; teardown finds nobody in the ring (`QuietTeardown`) | 15 slots, packets of 4+1 descriptors, which fill the ring with two |
| `tx_batch` | with put-off doorbells the queue restarts and packets return, at worst through the Tx timeout; the FIFO is emptied only by a reset | 15 slots, 3 packets |
| `tx_flap` | a ring that fills up while the link goes and comes, with PCIe recoveries: no wake-up is lost (`QueueRestarts`), packets return (`PacketsReturn`) | 15 slots, 2 packets: the second stops the queue |
| `irq_close` | rings quiet when emptied (`RingsQuiet`), vectors armed (`VectorArmed`), receive interrupts served (`ReceiveServed`), a link change stays unnoted only on an interface that stays closed (`LinkChangeNoted`) | 2 CPUs: a poll can begin while the end of the last one runs |
| `irq_reinit` | across `txgbe_reinit_locked` and PCIe recovery: rings quiet, a stopped transmit queue recovers (`TransmitRecovers`), the waits of `txgbe_disable_device` end (`DownCompletes`) | 1 CPU |
| `life_calls` | up only with resources, stopped holds nothing, running is up, enable count balanced, handlers freed in the mode they were requested in (`IrqFreedAsRequested`), a reset leaves a closed interface down, every call returns, a PF reset is served unless the interface stays down (`ResetServed`), an adapter that left the bus is taken down (`GoneGoesDown`) | the five environments of `MCAdapter!Calls` |

The transmit runs have 145,000 to 430,000 distinct states, the interrupt runs
210,000 and 324,000, `life_calls` 33,000; each takes one to two and a half
minutes with two workers.

An environment of Adapter is a set of entry points, events and failures; its
calls are made in any order and any number of times, and the state stays
finite. `MaxEnable` bounds the enable count, which only two recoveries at once
can raise. The five environments: the stack and ethtool against resets and
surprise removal on a legacy interrupt; PCIe recovery with a slot that may not
come back; power management, bus errors and removal; the same calls without bus
errors, with every failure; hibernation. Deadlock is not checked in `life_calls` because a removed device
stops; `CallsReturn` covers threads that wait for each other.

Runs that TLC must refute, each with a line of the code (see `findings`):

* `irq_rearm`: an interrupt between `txgbe_irq_enable` in `txgbe_up_complete`
  and the clearing of RESETTING stays masked.
* `life_closed`: the reset subtask tests DOWN outside the RTNL lock;
  RESET_INTR_RECEIVED survives `txgbe_close`, and a closed interface comes up.
* `life_irqtwice`: a close between `txgbe_io_error_detected` and
  `txgbe_io_resume` frees the interrupts twice.
* `life_frozen`: `txgbe_freeze` has no lock against a reinit in progress, which
  brings the frozen device up (`FrozenIsQuiet`).
* `life_removal`: `txgbe_remove` and the PCIe recovery of the service task wait
  for each other.

These are results about the models; none was reproduced on hardware.

Not claimed, because the code does not give it (hazards with a note): packets
of a batch whose last packet is dropped; resources after `txgbe_io_resume`
ignored a failed open, or after any failed open on an interface that stays
marked running; two recoveries at once; `txgbe_dcbnl_devreset` when q_vectors
cannot be allocated (`InitScheme` models it, no run allows the failure there); an adapter that disappears
during suspend; DCB resets during recovery; interrupts masked throughout a down
(a poll that tested DOWN earlier can unmask its vector afterwards, which
`RingsQuiet` tolerates); interrupts pending before the causes are cleared in
`txgbe_up_complete`.

## 4. Fairness

* Transmitter, cleaner, handlers, polls and down/up steps run to their end once
  started (weak fairness): they are kernel code without unbounded waits.
* The stack hands over the packet it has at hand (the rest of a batch, or one
  that was put back) while the queue runs.
* The adapter sends what is posted if the link is up again and again (strong
  fairness: a link may go just before a fetch, not for ever), and delivers an
  unmasked pending interrupt.
* NAPI work is strongly fair: softirq may be delayed, not starved for ever.
* The RTNL and device locks are handed out fairly (strong fairness): both are
  kernel mutexes. The service timer fires again and a queued service task runs,
  so a request in `flags2` is looked at again.
* The Tx timeout fires while a queue stays stopped with carrier (`dev_watchdog`).
  This is used by `tx_batch` and `irq_reinit`; `tx_flap` does without it.

No fairness is assumed for users, link changes, errors or failures. A closed
interface need not be opened again, and a PCIe recovery need not find its slot
back: the step that leaves the closed state is fair only inside
`txgbe_reinit_locked`, which goes on by itself. The liveness properties are
stated accordingly: a closed interface is an allowed end for `LinkChangeNoted`,
`ResetServed` and the queue properties.

## 5. Proofs

`TxRing_proofs`, for every ring size, set of packets, packet shape and work
limit allowed by `TxRingAssumption` (the ring is larger than the wake threshold,
a packet has at most `MaxDesc` data descriptors):

* `RingInvariant`: `Spec => []RingInv`;
* `TypeCorrect`: `TypeOK`;
* `GapAlwaysKept`: `GapKept`, at least two slots stay unused;
* `TeardownIsQuiet`: `QuietTeardown`.

`GapKept` is not inductive: that cleaning never passes what was posted depends
on where the adapter and the packets are. `RingInv` counts slots from
`next_to_clean` and says: a successful room check stays valid through the second
look, the restart of the queue, the mapping and its unwinding (`RoomInv`); each
phase of a reset has stopped the threads it relies on (`LifeInv`); cleaner,
head, tail and the next packet follow in this order (`OrderInv`); watched
packets lie in that range, are done only behind head (`WatchInv`) and do not
overlap (`DisjointInv`). The proof has a lemma per group of actions over a few
lemmas on ring arithmetic (`DistAdd`, `DistShift`, `DistInj`).

Only model-checked: `HeldOnce`, `FetchedIsMapped`, `MappingsOwned`, the refinement, all of
NapiIrq and Adapter, and all liveness (TLAPS does not do fairness or ENABLED).

## 6. Not modelled

Module parameters, ethtool settings, sysfs, procfs, debugfs: values stored or
printed. The vendored MTD library and link training: register sequences. The
compatibility layer: replacements of kernel functions. Memory ordering weaker
than the barriers in the code provide.

Left out of the modelled functions:

* Byte queue limits (`netdev_tx_sent_queue`, `netdev_tx_completed_queue`,
  `netdev_tx_reset_queue`): a second stop bit that the kernel sets and clears by
  its own accounting of bytes. In the model the stack may pause at any time, and
  the driver's own stop bit is the one its wake-up protocol is about.
* The hang detection of `txgbe_clean_tx_irq`.
* The bonding variant of the link check (`BOND_CHECK_LINK_MODE`, 0 by default)
  with TXGBE_FLAG2_LINK_DOWN, and the `POLL_LINK_STATUS` build.
* TXGBE_FLAG2_KR_PRO_DOWN, which is set and cleared and never read.
* The gap between the test of REMOVING and the queueing of the service task in
  `txgbe_service_event_schedule`, and lost updates of `flags2`.

The remaining parts are planned:

## 7. Plan

1. `RxRing`: buffers, page reuse, multi-descriptor packets; then XDP/AF_XDP.
2. `Mailbox`, `Sriov`: ownership of the mailbox buffer, reset handshake.
3. `TxHang`: the two-in-a-row hang test and what it starts.
4. `Flags`: non-atomic updates of `flags` and `flags2`; the service event split
   into test and queueing.
5. `SfpLink`: SFP and link subtasks with the IN_SFP_INIT lock; backplane.
6. `Filters`: MAC table and VLVF slots. `Ptp`: the time stamp slot.
   `Fdir`: the reinit handshake. `Fcoe`: DDP contexts.
7. `SwFw`: semaphore and host interface command.
8. `Dcb`, `Queues`: computations as operators against their bounds.
9. Composition: TxRing and NapiIrq under the life cycle of Adapter.
10. Proofs: `HeldOnce`, `FetchedIsMapped` and the refinement of TxQueue from
    RingInv; `RingsQuiet` of NapiIrq; lock and resource invariants of Adapter.
