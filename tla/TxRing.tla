------------------------------- MODULE TxRing -------------------------------
(***************************************************************************)
(* One transmit ring of the driver: txgbe_xmit_frame_ring and txgbe_tx_map *)
(* on one side, txgbe_clean_tx_irq on the other, the adapter that fetches  *)
(* and completes descriptors, the link watchdog that stops and wakes the   *)
(* queue without the queue's lock, and a down/up cycle of the device.      *)
(*                                                                         *)
(* The transmit path runs under the stack's per-queue lock, so there is    *)
(* one transmitter; everything else runs beside it.  Each access of the    *)
(* transmitter and of the cleaner to state the other one writes is a step. *)
(***************************************************************************)
EXTENDS Integers, FiniteSets

CONSTANTS Packets,      \* the socket buffers the stack sends again and again
          NoSkb,        \* tx_buffer->skb == NULL
          Count,        \* ring->count
          MaxDesc,      \* most data descriptors of one packet
          WorkLimit,    \* q_vector->tx.work_limit
          Shapes,       \* of the packets: number of data descriptors, context
                        \* descriptor or not, which of them continue a fragment
          Features      \* what happens besides plain transmission: "more" batches,
                        \* "fail"ing mappings, "link" changes, "life" cycles, Tx "timeout"s
                        \* that ask for a reset, or for a "recover"y of the bus

\* DESC_NEEDED: the largest packet, its context descriptor, the two-slot gap.
DESC_NEEDED == MaxDesc + 3
TX_WAKE_THRESHOLD == DESC_NEEDED * 2

ASSUME TxRingAssumption ==
    /\ NoSkb \notin Packets
    /\ Count \in Nat /\ MaxDesc \in Nat \ {0} /\ WorkLimit \in Nat \ {0}
    /\ Count > TX_WAKE_THRESHOLD
    /\ Shapes \subseteq [n : 1 .. MaxDesc, ctx : BOOLEAN, cont : SUBSET (1 .. MaxDesc - 1)]
    /\ Features \subseteq {"more", "fail", "link", "life", "timeout", "recover"}

VARIABLES
    next_to_use, next_to_clean,   \* the ring's cursors, shared by both sides
    buf,        \* tx_buffer_info[]: skb, next_to_watch, dma length set
    desc,       \* descriptor memory: "eop" and "done" (DD) mark a last descriptor
    head, tail, \* the adapter's read and write pointers of the ring
    owner,      \* who has to free a socket buffer
    stopped,    \* the stack's queue-stopped bit
    carrier,    \* netif_carrier_ok
    down, resetting, \* __TXGBE_DOWN, __TXGBE_RESETTING
    napi,       \* napi_enable / napi_disable
    link,       \* the physical link
    need, link_up,   \* TXGBE_FLAG_NEED_LINK_UPDATE, adapter->link_up
    request,    \* TXGBE_FLAG2_PF_RESET_REQUESTED, _PCIE_NEED_RECOVER
    x,          \* the transmitter's locals
    c,          \* the cleaner's locals
    life,       \* program counter of the down/up cycle
    wd          \* program counter of the watchdog

ringVars == <<next_to_use, next_to_clean, buf, desc>>
hwVars   == <<head, tail>>
netVars  == <<stopped, carrier>>
stVars   == <<down, resetting, napi>>
lnkVars  == <<link, need, link_up>>
vars == <<ringVars, hwVars, owner, netVars, stVars, lnkVars, request, x, c, life, wd>>

Slots  == 0 .. Count - 1
NoSlot == Count                       \* next_to_watch == NULL

\* Fault: the wrap test comes one slot late.
AddLateWrap(i, k) == IF i + k > Count THEN i + k - Count ELSE i + k

Add(i, k)  == IF i + k >= Count THEN i + k - Count ELSE i + k
Dist(i, j) == IF j >= i THEN j - i ELSE j - i + Count

\* txgbe_desc_unused: one slot is always kept free.
txgbe_desc_unused(ntc, ntu) ==
    (IF ntc > ntu THEN 0 ELSE Count) + ntc - ntu - 1

Halted == down \/ resetting           \* the tests in front of wake and xmit

EmptyBuf == [skb |-> NoSkb, watch |-> NoSlot, len |-> FALSE]
IdleX == [pc |-> "idle", skb |-> NoSkb, first |-> 0, n |-> 0, ctx |-> FALSE,
          cont |-> {}, more |-> FALSE]
IdleC == [pc |-> "idle", i |-> 0, budget |-> 0, pkts |-> 0]

Init ==
    /\ next_to_use = 0 /\ next_to_clean = 0
    /\ buf = [s \in Slots |-> EmptyBuf]
    /\ desc = [s \in Slots |-> "open"]
    /\ head = 0 /\ tail = 0
    /\ owner = [p \in Packets |-> "stack"]
    /\ stopped = FALSE /\ carrier = ("link" \notin Features)
    /\ down = FALSE /\ resetting = FALSE /\ napi = TRUE
    /\ link = carrier /\ need = ("link" \in Features) /\ link_up = carrier
    /\ request = {}
    /\ x = IdleX /\ c = IdleC
    /\ life = "up" /\ wd = "idle"
-----------------------------------------------------------------------------
(* The transmitter.                                                        *)

XGoto(pc) == x' = [x EXCEPT !.pc = pc]

\* txgbe_xmit_frame: the stack calls only while the queue runs.  more says
\* that the stack holds another packet of this batch; between two calls x.more
\* says that the stack has a packet at hand, of the batch or put back.
XmitFrame(p, shape, more) ==
    /\ x.pc = "idle" /\ ~stopped /\ owner[p] = "stack"
    /\ ~Halted /\ carrier
    /\ more => "more" \in Features /\ \E q \in Packets \ {p} : owner[q] = "stack"
    /\ x' = [pc |-> "check", skb |-> p, first |-> next_to_use, n |-> shape.n,
             ctx |-> shape.ctx, cont |-> shape.cont, more |-> more]
    /\ UNCHANGED <<ringVars, hwVars, owner, netVars, stVars, lnkVars, request, c, life, wd>>

\* txgbe_xmit_frame while the device is halted or has no carrier: the packet
\* is freed at once, and with it ends the batch.
XmitDrop ==
    /\ x.pc = "idle" /\ ~stopped /\ x.more
    /\ Halted \/ ~carrier
    /\ x' = IdleX
    /\ UNCHANGED <<ringVars, hwVars, owner, netVars, stVars, lnkVars, request, c, life, wd>>

\* Fault: room is asked for the data descriptors alone.
XSizeNoGap == IF x.pc \in {"check", "recheck"} THEN x.n ELSE DESC_NEEDED

\* txgbe_maybe_stop_tx is called in front of the packet with count + 3 and
\* behind it with DESC_NEEDED.
XSize == IF x.pc \in {"check", "recheck"} THEN x.n + 3 ELSE DESC_NEEDED

HasRoom == txgbe_desc_unused(next_to_clean, next_to_use) >= XSize

XmitCheck ==
    /\ x.pc \in {"check", "tailcheck"}
    /\ XGoto(CASE x.pc = "check" -> IF HasRoom THEN "map" ELSE "stop"
               [] OTHER          -> IF HasRoom THEN "doorbell" ELSE "tailstop")
    /\ UNCHANGED <<ringVars, hwVars, owner, netVars, stVars, lnkVars, request, c, life, wd>>

\* __txgbe_maybe_stop_tx up to its barrier: netif_stop_subqueue.
XmitStop ==
    /\ x.pc \in {"stop", "tailstop"}
    /\ stopped' = TRUE
    /\ XGoto(IF x.pc = "stop" THEN "recheck" ELSE "tailrecheck")
    /\ UNCHANGED <<ringVars, hwVars, owner, carrier, stVars, lnkVars, request, c, life, wd>>

XmitBusy == x' = [IdleX EXCEPT !.more = TRUE]   \* NETDEV_TX_BUSY: the stack tries again

\* Fault: no second look after the stop.
XmitNoRecheck ==
    /\ x.pc \in {"recheck", "tailrecheck"}
    /\ IF x.pc = "recheck" THEN XmitBusy ELSE XGoto("doorbell")
    /\ UNCHANGED <<ringVars, hwVars, owner, netVars, stVars, lnkVars, request, c, life, wd>>

\* __txgbe_maybe_stop_tx after its barrier: look again ...
XmitRecheck ==
    /\ x.pc \in {"recheck", "tailrecheck"}
    /\ IF x.pc = "recheck"
         THEN IF HasRoom THEN XGoto("test") ELSE XmitBusy
         ELSE XGoto(IF HasRoom THEN "tailtest" ELSE "doorbell")
    /\ UNCHANGED <<ringVars, hwVars, owner, netVars, stVars, lnkVars, request, c, life, wd>>

\* ... no restart while the device goes down or is being reset ...
XmitTest ==
    /\ x.pc \in {"test", "tailtest"}
    /\ IF x.pc = "test"
         THEN IF Halted THEN XmitBusy ELSE XGoto("restart")
         ELSE XGoto(IF Halted THEN "doorbell" ELSE "tailrestart")
    /\ UNCHANGED <<ringVars, hwVars, owner, netVars, stVars, lnkVars, request, c, life, wd>>

\* ... "A reprieve!": netif_start_subqueue.
XmitRestart ==
    /\ x.pc \in {"restart", "tailrestart"}
    /\ stopped' = FALSE
    /\ XGoto(IF x.pc = "restart" THEN "map" ELSE "doorbell")
    /\ UNCHANGED <<ringVars, hwVars, owner, carrier, stVars, lnkVars, request, c, life, wd>>

\* out_drop of txgbe_xmit_frame_ring: the offload cannot be set up, and the
\* packet is freed before anything is written.
XmitReject ==
    /\ "fail" \in Features /\ x.pc = "map"
    /\ x' = [IdleX EXCEPT !.more = x.more]
    /\ UNCHANGED <<ringVars, hwVars, owner, netVars, stVars, lnkVars, request, c, life, wd>>

\* txgbe_tx_ctxtdesc: a context descriptor moves next_to_use on its own, ahead
\* of the data; first keeps pointing at the context descriptor.
XmitContext ==
    /\ x.pc = "map" /\ x.ctx
    /\ owner' = [owner EXCEPT ![x.skb] = "driver"]
    /\ buf' = [buf EXCEPT ![x.first].skb = x.skb]
    /\ desc' = [desc EXCEPT ![next_to_use] = "open"]
    /\ next_to_use' = Add(next_to_use, 1)
    /\ XGoto("data")
    /\ UNCHANGED <<next_to_clean, hwVars, netVars, stVars, lnkVars, request, c, life, wd>>

XDataReady == x.pc = "data" \/ (x.pc = "map" /\ ~x.ctx)
XLast == Add(next_to_use, x.n - 1)                 \* the descriptor with EOP

\* The slots of the first k data descriptors after the first one.
XFurther(k) == {Add(next_to_use, j) : j \in 1 .. k - 1}

\* txgbe_tx_map has gone through k data descriptors: first holds the mapping of
\* the linear part, a further slot that of its fragment unless the slot
\* continues a fragment larger than TXGBE_MAX_DATA_PER_TXD.
XMapped(k) ==
    [s \in Slots |->
        IF s = x.first THEN [skb |-> x.skb, watch |-> NoSlot, len |-> k > 0]
        ELSE IF s \in XFurther(k) /\ Dist(next_to_use, s) \notin x.cont
          THEN [buf[s] EXCEPT !.len = TRUE]
        ELSE buf[s]]

\* The loop over the fragments, to its end.  Rewriting a descriptor clears the
\* DD bit of its last use.
XmitData ==
    /\ XDataReady
    /\ buf' = XMapped(x.n)
    /\ desc' = [s \in Slots |->
                  IF s = XLast THEN "eop"
                  ELSE IF s = next_to_use \/ s \in XFurther(x.n) THEN "open"
                  ELSE desc[s]]
    /\ owner' = [owner EXCEPT ![x.skb] = "driver"]
    /\ XGoto("publish")
    /\ UNCHANGED <<next_to_use, next_to_clean, hwVars, netVars, stVars, lnkVars, request, c, life, wd>>

\* The loop up to a fragment, at descriptor k, whose mapping fails.  x.n keeps
\* the index i at which dma_error finds the loop.
XmitMapFail(k) ==
    /\ "fail" \in Features /\ XDataReady
    /\ k < x.n /\ k \notin x.cont
    /\ buf' = XMapped(k)
    /\ desc' = [s \in Slots |->
                  IF s = next_to_use \/ s \in XFurther(k + 1) THEN "open" ELSE desc[s]]
    /\ owner' = [owner EXCEPT ![x.skb] = "driver"]
    /\ x' = [x EXCEPT !.pc = "unwind", !.n = k]
    /\ UNCHANGED <<next_to_use, next_to_clean, hwVars, netVars, stVars, lnkVars, request, c, life, wd>>

\* What dma_error goes through, from the slot that failed back to first.
XUnwound == {s \in Slots : Dist(x.first, s) <= Dist(x.first, Add(next_to_use, x.n))}

\* Fault: the error path frees the packet and leaves it in its slot.
XmitUnwindKeepSkb ==
    /\ x.pc = "unwind"
    /\ buf' = [s \in Slots |-> IF s \in XUnwound THEN [buf[s] EXCEPT !.len = FALSE] ELSE buf[s]]
    /\ owner' = [owner EXCEPT ![x.skb] = "stack"]
    /\ next_to_use' = x.first
    /\ x' = [IdleX EXCEPT !.more = x.more]
    /\ UNCHANGED <<next_to_clean, desc, hwVars, netVars, stVars, lnkVars, request, c, life, wd>>

\* Fault: the unwinding ends before it has unmapped first.
XmitUnwindShort ==
    /\ x.pc = "unwind"
    /\ buf' = [s \in Slots |->
                 IF s = x.first THEN [buf[s] EXCEPT !.skb = NoSkb]
                 ELSE IF s \in XUnwound THEN [buf[s] EXCEPT !.len = FALSE]
                 ELSE buf[s]]
    /\ owner' = [owner EXCEPT ![x.skb] = "stack"]
    /\ next_to_use' = x.first
    /\ x' = [IdleX EXCEPT !.more = x.more]
    /\ UNCHANGED <<next_to_clean, desc, hwVars, netVars, stVars, lnkVars, request, c, life, wd>>

\* dma_error: undo the mappings made so far, free the packet, take next_to_use
\* back to first.  The descriptors written so far are written again before
\* they are next used.
XmitUnwind ==
    /\ x.pc = "unwind"
    /\ buf' = [s \in Slots |->
                 IF s = x.first THEN EmptyBuf
                 ELSE IF s \in XUnwound THEN [buf[s] EXCEPT !.len = FALSE]
                 ELSE buf[s]]
    /\ owner' = [owner EXCEPT ![x.skb] = "stack"]
    /\ next_to_use' = x.first
    /\ x' = [IdleX EXCEPT !.more = x.more]
    /\ UNCHANGED <<next_to_clean, desc, hwVars, netVars, stVars, lnkVars, request, c, life, wd>>

\* first->next_to_watch = tx_desc: from here on the cleaner sees the packet.
XmitPublish ==
    /\ x.pc = "publish"
    /\ buf' = [buf EXCEPT ![x.first].watch = XLast]
    /\ XGoto("advance")
    /\ UNCHANGED <<next_to_use, next_to_clean, desc, hwVars, owner, netVars, stVars, lnkVars,
                   request, c, life, wd>>

\* tx_ring->next_to_use = i.
XmitAdvance ==
    /\ x.pc = "advance"
    /\ next_to_use' = Add(next_to_use, x.n)
    /\ XGoto("tailcheck")
    /\ UNCHANGED <<next_to_clean, buf, desc, hwVars, owner, netVars, stVars, lnkVars, request, c,
                   life, wd>>

\* writel(i, tx_ring->tail), put off while more packets follow.
XmitDoorbell ==
    /\ x.pc = "doorbell"
    /\ tail' = IF stopped \/ ~x.more THEN next_to_use ELSE tail
    /\ x' = [IdleX EXCEPT !.more = x.more]
    /\ UNCHANGED <<ringVars, head, owner, netVars, stVars, lnkVars, request, c, life, wd>>
-----------------------------------------------------------------------------
(* The adapter: fetches the descriptors between head and tail and, with    *)
(* the link up, sends a packet and writes DD back into its last one.       *)

HwTransmit ==
    /\ head # tail /\ link
    /\ \E k \in 0 .. MaxDesc :
         LET e == Add(head, k) IN
         /\ k < Dist(head, tail) /\ desc[e] = "eop"
         /\ \A j \in 0 .. k - 1 : desc[Add(head, j)] # "eop"
         /\ desc' = [desc EXCEPT ![e] = "done"]
         /\ head' = Add(e, 1)
    /\ UNCHANGED <<next_to_use, next_to_clean, buf, tail, owner, netVars, stVars, lnkVars,
                   request, x, c, life, wd>>

\* The link changes, and while interrupts are on txgbe_check_lsc hears of it.
LinkChange ==
    /\ "link" \in Features
    /\ link' = ~link /\ need' = (need \/ napi)
    /\ UNCHANGED <<ringVars, hwVars, owner, netVars, stVars, link_up, request, x, c, life, wd>>
-----------------------------------------------------------------------------
(* The cleaner: txgbe_clean_tx_irq, run by the NAPI poll of the vector.    *)

CGoto(pc) == c' = [c EXCEPT !.pc = pc]

\* txgbe_poll enters the cleaner only when the device is neither down nor
\* being reset.
CleanStart ==
    /\ c.pc = "idle" /\ napi /\ ~Halted
    /\ c' = [pc |-> "loop", i |-> next_to_clean, budget |-> WorkLimit, pkts |-> 0]
    /\ UNCHANGED <<ringVars, hwVars, owner, netVars, stVars, lnkVars, request, x, life, wd>>

\* Fault: a watched packet counts as finished without a look at DD.
FinishedNoDD(i) == buf[i].watch # NoSlot

\* The packet at i is finished when its last descriptor carries DD.
Finished(i) == buf[i].watch # NoSlot /\ desc[buf[i].watch] = "done"

\* Fault: the loop ends at an unwatched slot only.
CleanPacketNoDD ==
    /\ c.pc = "loop" /\ c.budget > 0 /\ buf[c.i].watch # NoSlot
    /\ LET e == buf[c.i].watch IN
       /\ owner' = [owner EXCEPT ![buf[c.i].skb] = "stack"]
       /\ buf' = [s \in Slots |->
                    IF s = c.i THEN EmptyBuf
                    ELSE IF Dist(c.i, s) <= Dist(c.i, e) THEN [buf[s] EXCEPT !.len = FALSE]
                    ELSE buf[s]]
       /\ c' = [c EXCEPT !.i = Add(e, 1), !.budget = @ - 1, !.pkts = @ + 1]
    /\ UNCHANGED <<next_to_use, next_to_clean, desc, hwVars, netVars, stVars, lnkVars, request,
                   x, life, wd>>

\* One turn of the loop: free the packet, unmap its slots, step past it.
CleanPacket ==
    /\ c.pc = "loop" /\ c.budget > 0 /\ Finished(c.i)
    /\ LET e == buf[c.i].watch IN
       /\ owner' = [owner EXCEPT ![buf[c.i].skb] = "stack"]
       /\ buf' = [s \in Slots |->
                    IF s = c.i THEN EmptyBuf
                    ELSE IF Dist(c.i, s) <= Dist(c.i, e) THEN [buf[s] EXCEPT !.len = FALSE]
                    ELSE buf[s]]
       /\ c' = [c EXCEPT !.i = Add(e, 1), !.budget = @ - 1, !.pkts = @ + 1]
    /\ UNCHANGED <<next_to_use, next_to_clean, desc, hwVars, netVars, stVars, lnkVars, request,
                   x, life, wd>>

\* Nothing watched, DD not yet set, or the budget is used up: next_to_clean
\* becomes visible to the transmitter.
CleanPublish ==
    /\ c.pc = "loop" /\ (c.budget = 0 \/ ~Finished(c.i))
    /\ next_to_clean' = c.i
    /\ CGoto("space")
    /\ UNCHANGED <<next_to_use, buf, desc, hwVars, owner, netVars, stVars, lnkVars, request, x,
                   life, wd>>

\* if (total_packets && netif_carrier_ok() && unused >= TX_WAKE_THRESHOLD)
CleanSpace ==
    /\ c.pc = "space"
    /\ c' = IF /\ c.pkts > 0 /\ carrier
               /\ txgbe_desc_unused(next_to_clean, next_to_use) >= TX_WAKE_THRESHOLD
            THEN [c EXCEPT !.pc = "wake"] ELSE IdleC
    /\ UNCHANGED <<ringVars, hwVars, owner, netVars, stVars, lnkVars, request, x, life, wd>>

\* The queue is stopped and the device not halted ...
CleanWake ==
    /\ c.pc = "wake"
    /\ c' = IF stopped /\ ~Halted THEN [c EXCEPT !.pc = "start"] ELSE IdleC
    /\ UNCHANGED <<ringVars, hwVars, owner, netVars, stVars, lnkVars, request, x, life, wd>>

\* ... netif_wake_subqueue.
CleanRestart ==
    /\ c.pc = "start"
    /\ stopped' = FALSE
    /\ c' = IdleC
    /\ UNCHANGED <<ringVars, hwVars, owner, carrier, stVars, lnkVars, request, x, life, wd>>
-----------------------------------------------------------------------------
(* The link watchdog of the service task.  It looks at DOWN and RESETTING  *)
(* once, then acts; nothing keeps a down of the device from overtaking it. *)

WGoto(pc) == wd' = pc

\* txgbe_watchdog_subtask bails out when halted; txgbe_watchdog_update_link
\* looks at the link only when asked to, and is done with that once the link is
\* up or TXGBE_TRY_LINK_TIMEOUT is over.
WatchdogSample ==
    /\ "link" \in Features \/ ~carrier
    /\ wd = "idle" /\ ~Halted /\ request = {}
    /\ IF need
         THEN WGoto("read") /\ need' \in {FALSE, ~link}
         ELSE WGoto(IF link_up THEN "up" ELSE "down") /\ UNCHANGED need
    /\ UNCHANGED <<ringVars, hwVars, owner, netVars, stVars, link, link_up, request, x, c, life>>

\* It believes the last of its readings, made after that.
WatchdogRead ==
    /\ wd = "read"
    /\ link_up' = link
    /\ WGoto(IF link THEN "up" ELSE "down")
    /\ UNCHANGED <<ringVars, hwVars, owner, netVars, stVars, link, need, request, x, c, life>>

\* txgbe_watchdog_link_is_up: only when the carrier was off.
WatchdogUp ==
    /\ wd = "up"
    /\ carrier' = TRUE
    /\ WGoto(IF carrier THEN "flush" ELSE "wake")
    /\ UNCHANGED <<ringVars, hwVars, owner, stopped, stVars, lnkVars, request, x, c, life>>

\* netif_tx_wake_all_queues, whatever room the ring has.
WatchdogWake ==
    /\ wd = "wake"
    /\ stopped' = FALSE
    /\ WGoto("flush")
    /\ UNCHANGED <<ringVars, hwVars, owner, carrier, stVars, lnkVars, request, x, c, life>>

\* txgbe_watchdog_link_is_down: only when the carrier was on.
WatchdogDown ==
    /\ wd = "down"
    /\ link_up' = FALSE /\ carrier' = FALSE
    /\ WGoto(IF carrier THEN "stop" ELSE "flush")
    /\ UNCHANGED <<ringVars, hwVars, owner, stopped, stVars, link, need, request, x, c, life>>

WatchdogStop ==
    /\ wd = "stop"
    /\ stopped' = TRUE
    /\ WGoto("flush")
    /\ UNCHANGED <<ringVars, hwVars, owner, carrier, stVars, lnkVars, request, x, c, life>>

\* Fault: work left on a dead ring asks for nothing.
WatchdogNoFlush ==
    /\ wd = "flush"
    /\ WGoto("idle")
    /\ UNCHANGED <<ringVars, hwVars, owner, netVars, stVars, lnkVars, request, x, c, life>>

\* txgbe_watchdog_flush_tx: work left on a ring that lost its link asks for a
\* reset; the next run of the service task serves it before the watchdog.
WatchdogFlush ==
    /\ wd = "flush"
    /\ request' = request \cup (IF ~carrier /\ next_to_use # next_to_clean THEN {"reset"} ELSE {})
    /\ WGoto("idle")
    /\ UNCHANGED <<ringVars, hwVars, owner, netVars, stVars, lnkVars, x, c, life>>

\* Fault: the reset is asked for only when the device is already halted.
TxTimeoutInverted ==
    /\ stopped /\ carrier
    /\ \/ "timeout" \in Features /\ Halted /\ request' = request \cup {"reset"}
       \/ "recover" \in Features /\ request' = request \cup {"recover"}
    /\ UNCHANGED <<ringVars, hwVars, owner, netVars, stVars, lnkVars, x, c, life, wd>>

\* txgbe_tx_timeout, called by the stack when a queue has been stopped for too
\* long while the device has carrier: txgbe_tx_timeout_reset, or, when the
\* adapter's vendor id cannot be read, txgbe_tx_timeout_dorecovery.
TxTimeout ==
    /\ stopped /\ carrier
    /\ \/ "timeout" \in Features /\ ~Halted /\ request' = request \cup {"reset"}
       \/ "recover" \in Features /\ request' = request \cup {"recover"}
    /\ UNCHANGED <<ringVars, hwVars, owner, netVars, stVars, lnkVars, x, c, life, wd>>
-----------------------------------------------------------------------------
(* Down and up: txgbe_down and txgbe_up, inside txgbe_reinit_locked (with  *)
(* RESETTING set around both) or as txgbe_close and txgbe_open, by the user *)
(* or by a PCIe recovery of the service task.                              *)

DownSet(reinit) ==
    /\ life = "up"
    /\ resetting' = reinit /\ down' = TRUE
    /\ life' = "stop"
    /\ UNCHANGED <<ringVars, hwVars, owner, netVars, napi, lnkVars, request, x, c>>

\* txgbe_disable_device: netif_tx_stop_all_queues, netif_carrier_off.
DownStop ==
    /\ life = "stop"
    /\ stopped' = TRUE /\ carrier' = FALSE
    /\ life' = "txdisable"
    /\ UNCHANGED <<ringVars, hwVars, owner, stVars, lnkVars, request, x, c, wd>>

\* Fault: the queues are stopped without waiting for the transmitter.
DownTxNoWait ==
    /\ life = "txdisable"
    /\ stopped' = TRUE
    /\ life' = "napi"
    /\ UNCHANGED <<ringVars, hwVars, owner, carrier, stVars, lnkVars, request, x, c, wd>>

\* netif_tx_disable takes the queue's lock: it waits for the transmitter.
DownTxDisable ==
    /\ life = "txdisable" /\ x.pc = "idle"
    /\ stopped' = TRUE
    /\ life' = "napi"
    /\ UNCHANGED <<ringVars, hwVars, owner, carrier, stVars, lnkVars, request, x, c, wd>>

\* txgbe_napi_disable_all waits for the cleaner; then the requests are dropped.
DownNapi ==
    /\ life = "napi" /\ c.pc = "idle"
    /\ napi' = FALSE
    /\ request' = request \ {"reset"} /\ need' = FALSE
    /\ life' = "reset"
    /\ UNCHANGED <<ringVars, hwVars, owner, netVars, down, resetting, link, link_up, x, c, wd>>

\* Fault: the buffers are forgotten, not freed.
DownResetLeak ==
    /\ life = "reset"
    /\ buf' = [s \in Slots |-> EmptyBuf]
    /\ desc' = [s \in Slots |-> "open"]
    /\ head' = 0 /\ tail' = 0
    /\ life' = "down"
    /\ UNCHANGED <<next_to_use, next_to_clean, owner, netVars, stVars, lnkVars, request, x, c, wd>>

\* Fault: the rings are cleaned while the adapter keeps its pointers.
DownResetKeepTail ==
    /\ life = "reset"
    /\ owner' = [p \in Packets |->
                   IF \E s \in Slots : buf[s].skb = p THEN "stack" ELSE owner[p]]
    /\ buf' = [s \in Slots |-> EmptyBuf]
    /\ desc' = [s \in Slots |-> "open"]
    /\ life' = "down"
    /\ UNCHANGED <<next_to_use, next_to_clean, hwVars, netVars, stVars, lnkVars, request, x, c, wd>>

\* txgbe_reset stops the adapter, txgbe_clean_tx_ring frees what is left.
DownReset ==
    /\ life = "reset"
    /\ owner' = [p \in Packets |->
                   IF \E s \in Slots : buf[s].skb = p THEN "stack" ELSE owner[p]]
    /\ buf' = [s \in Slots |-> EmptyBuf]
    /\ desc' = [s \in Slots |-> "open"]
    /\ head' = 0 /\ tail' = 0
    /\ life' = "down"
    /\ UNCHANGED <<next_to_use, next_to_clean, netVars, stVars, lnkVars, request, x, c, wd>>

\* txgbe_configure_tx_ring: both cursors and both pointers start at zero.
UpConfigure ==
    /\ life = "down"
    /\ next_to_use' = 0 /\ next_to_clean' = 0
    /\ life' = "configured"
    /\ UNCHANGED <<buf, desc, hwVars, owner, netVars, stVars, lnkVars, request, x, c, wd>>

\* txgbe_up_complete: DOWN is cleared, then NAPI enabled.
UpComplete ==
    /\ life = "configured"
    /\ down' = FALSE /\ napi' = TRUE
    /\ life' = "starting"
    /\ UNCHANGED <<ringVars, hwVars, owner, netVars, resetting, lnkVars, request, x, c, wd>>

\* netif_tx_start_all_queues, and the watchdog is told to look at the link;
\* RESETTING, if set, is still set.
UpStart ==
    /\ life = "starting"
    /\ stopped' = FALSE /\ need' = TRUE
    /\ life' = IF resetting \/ wd = "recover" THEN "started" ELSE "up"
    /\ UNCHANGED <<ringVars, hwVars, owner, carrier, stVars, link, link_up, request, x, c, wd>>

\* The end of txgbe_reinit_locked or of txgbe_check_pcie_subtask.
CycleDone ==
    /\ life = "started"
    /\ resetting' = FALSE
    /\ request' = IF wd = "recover" THEN request \ {"recover"} ELSE request
    /\ wd' = IF wd = "recover" THEN "idle" ELSE wd
    /\ life' = "up"
    /\ UNCHANGED <<ringVars, hwVars, owner, netVars, down, napi, lnkVars, x, c>>
-----------------------------------------------------------------------------
XmitCall == \E p \in Packets, shape \in Shapes, more \in BOOLEAN :
                XmitFrame(p, shape, more)

XmitStep == \/ XmitCheck \/ XmitStop \/ XmitRecheck \/ XmitTest \/ XmitRestart
            \/ XmitReject \/ XmitContext \/ XmitData
            \/ (\E k \in 0 .. MaxDesc - 1 : XmitMapFail(k)) \/ XmitUnwind
            \/ XmitPublish \/ XmitAdvance \/ XmitDoorbell

CleanStep == \/ CleanStart \/ CleanPacket \/ CleanPublish \/ CleanSpace
             \/ CleanWake \/ CleanRestart

WatchdogStep == \/ WatchdogSample \/ WatchdogRead \/ WatchdogUp \/ WatchdogWake \/ WatchdogDown
                \/ WatchdogStop \/ WatchdogFlush

LifeStep == \/ DownStop \/ DownTxDisable \/ DownNapi \/ DownReset
            \/ UpConfigure \/ UpComplete \/ UpStart \/ CycleDone

\* txgbe_reset_subtask serving PF_RESET_REQUESTED.
ResetSubtask == "reset" \in request /\ wd = "idle" /\ DownSet(TRUE) /\ UNCHANGED wd

\* txgbe_check_pcie_subtask serving PCIE_NEED_RECOVER: the service task closes
\* the interface and is busy until it is open again.
PcieSubtask == "recover" \in request /\ wd = "idle" /\ DownSet(FALSE) /\ wd' = "recover"

\* Somebody else closes the interface or reinitialises it.
DownCall == "life" \in Features /\ (\E reinit \in BOOLEAN : DownSet(reinit)) /\ UNCHANGED wd

Next == \/ XmitCall \/ XmitDrop \/ XmitStep
        \/ HwTransmit \/ LinkChange
        \/ CleanStep \/ WatchdogStep \/ TxTimeout
        \/ ResetSubtask \/ PcieSubtask \/ DownCall \/ LifeStep

Spec == Init /\ [][Next]_vars

\* The scheduling the kernel gives: a transmit call, a poll, the service task
\* and a down/up cycle go on once begun; the stack sends the rest of a batch;
\* the service task runs again and again; the adapter sends while it has link.
\* Nobody has to open a closed interface again.
Fairness ==
    /\ WF_vars(x.more /\ XmitCall) /\ WF_vars(XmitDrop) /\ WF_vars(XmitStep)
    /\ SF_vars(HwTransmit)
    /\ WF_vars(CleanStep) /\ WF_vars(WatchdogStep)
    /\ WF_vars("timeout" \in Features /\ TxTimeout) /\ WF_vars(ResetSubtask) /\ WF_vars(PcieSubtask)
    /\ WF_vars((life = "down" => resetting) /\ LifeStep)

FairSpec == Spec /\ Fairness
-----------------------------------------------------------------------------
(* Properties.                                                             *)

XPcs == {"idle", "check", "stop", "recheck", "test", "restart", "map", "data", "unwind",
         "publish", "advance", "tailcheck", "tailstop", "tailrecheck", "tailtest",
         "tailrestart", "doorbell"}
Lives == {"up", "stop", "txdisable", "napi", "reset", "down", "configured",
          "starting", "started"}

BufRec == [skb : Packets \cup {NoSkb}, watch : 0 .. Count, len : BOOLEAN]
XRec == [pc : XPcs, skb : Packets \cup {NoSkb}, first : Slots, n : 0 .. MaxDesc,
         ctx : BOOLEAN, cont : SUBSET (1 .. MaxDesc - 1), more : BOOLEAN]
CRec == [pc : {"idle", "loop", "space", "wake", "start"}, i : Slots,
         budget : 0 .. WorkLimit, pkts : Nat]

\* Every variable has the shape the ring and the threads give it.
TypeOK ==
    /\ next_to_use \in Slots /\ next_to_clean \in Slots
    /\ buf \in [Slots -> BufRec]
    /\ desc \in [Slots -> {"open", "eop", "done"}]
    /\ head \in Slots /\ tail \in Slots
    /\ owner \in [Packets -> {"stack", "driver"}]
    /\ stopped \in BOOLEAN /\ carrier \in BOOLEAN
    /\ down \in BOOLEAN /\ resetting \in BOOLEAN /\ napi \in BOOLEAN
    /\ link \in BOOLEAN /\ need \in BOOLEAN /\ link_up \in BOOLEAN
    /\ request \subseteq {"reset", "recover"}
    /\ x \in XRec /\ c \in CRec
    /\ life \in Lives
    /\ wd \in {"idle", "read", "recover", "up", "wake", "down", "stop", "flush"}

\* "2 desc gap to keep tail from touching head" (txgbe_xmit_frame_ring): both
\* the early move of next_to_use by a context descriptor and the late move of
\* next_to_clean by the cleaner leave at least two slots unused.
GapKept == txgbe_desc_unused(next_to_clean, next_to_use) >= 2

\* A socket buffer the driver has taken is in exactly one slot, one it has
\* given back in none: nothing is freed twice and nothing is lost, on the
\* cleaner's path, on the error paths and across a reset.
HeldOnce ==
    /\ \A s \in Slots : buf[s].skb # NoSkb => owner[buf[s].skb] = "driver"
    /\ \A s, t \in Slots : buf[s].skb = buf[t].skb /\ buf[s].skb # NoSkb => s = t
    /\ \A p \in Packets : owner[p] = "driver" => \E s \in Slots : buf[s].skb = p

\* The packet that starts at slot f covers slot s.
Covers(f, s) ==
    buf[f].watch # NoSlot /\ Dist(f, s) <= Dist(f, buf[f].watch)

\* Whatever the adapter may still fetch (head up to tail) belongs to a packet
\* the driver has neither freed nor unmapped: txgbe_clean_tx_irq never takes a
\* DD bit of an earlier lap for this packet's.
FetchedIsMapped ==
    \A s \in Slots :
        Dist(head, s) < Dist(head, tail) =>
            \E f \in Slots : Covers(f, s) /\ buf[f].skb # NoSkb /\ buf[f].len

\* The other way round: a mapping the ring remembers is one of a packet that is
\* posted, or of the one txgbe_tx_map is working on.  Neither the cleaner nor
\* the unwinding of a packet that could be mapped only in part leaves one over.
MappingsOwned ==
    \A s \in Slots : buf[s].len =>
        \/ \E f \in Slots : Covers(f, s) /\ buf[f].skb # NoSkb
        \/ x.pc \in {"unwind", "publish"} /\ s \in XUnwound

\* "Drop early to avoid touching rings in transitional states" (txgbe_xmit_frame):
\* while the ring is torn down and set up again nobody is inside it, although
\* the watchdog may wake the queue in the middle.
QuietTeardown ==
    life \in {"reset", "down", "configured"} => x.pc = "idle" /\ c.pc = "idle"

\* A stopped queue is started again while the link is up and the device runs:
\* the stop, barrier, look-again of __txgbe_maybe_stop_tx and the publish,
\* barrier, look of txgbe_clean_tx_irq cannot miss each other.
QueueRestarts == []<>(~stopped \/ ~carrier \/ Halted)

\* A packet the driver has taken is given back in the end: it is sent and
\* cleaned, or the link is lost and the reset asked for by
\* txgbe_watchdog_flush_tx frees it; a doorbell put off for more packets rings.
PacketsReturn == \A p \in Packets : []<>(owner[p] = "stack")
-----------------------------------------------------------------------------
(* The inductive invariant behind GapKept and QuietTeardown.               *)

\* Where the next packet starts once the current transmit call is over, or was
\* never there.
XBase == IF x.pc \in {"data", "unwind", "publish", "advance"} THEN x.first ELSE next_to_use

Pos(s) == Dist(next_to_clean, s)      \* slots counted from next_to_clean

\* Between a successful room check and the move of next_to_use the room is
\* there: the cleaner can only add to it.
RoomInv ==
    /\ Pos(next_to_use) <= Count - 3
    /\ x.pc \in {"check", "stop", "recheck", "test", "restart", "map", "data", "unwind",
                "publish", "advance"} => x.skb \in Packets /\ (x.n >= 1 \/ x.pc = "unwind")
    /\ x.pc \in {"check", "stop", "recheck", "test", "restart", "map"} => x.first = next_to_use
    /\ x.pc \in {"test", "restart", "map"} => Pos(next_to_use) + x.n + 4 <= Count
    /\ x.pc \in {"data", "unwind", "publish", "advance"} =>
           /\ Pos(next_to_use) + x.n + 3 <= Count
           /\ \/ x.first = next_to_use /\ x.pc # "data"
              \/ Pos(next_to_use) >= 1 /\ next_to_use = Add(x.first, 1)
    /\ x.pc \in {"publish", "advance"} => desc[XLast] = "eop"

\* The bits and the thread states each phase of a down/up cycle relies on.
LifeInv ==
    /\ life \in {"stop", "txdisable", "napi", "reset", "down", "configured"} => down
    /\ life \in {"napi", "reset", "down", "configured"} => x.pc = "idle"
    /\ life \in {"reset", "down", "configured"} => c.pc = "idle"
    /\ life \in {"down", "configured"} => head = 0 /\ tail = 0
    /\ life = "down" => \A s \in Slots : buf[s].watch = NoSlot

\* From next_to_clean on come, in this order: the cleaner, the adapter's head,
\* its tail, the next packet's first slot.
OrderInv ==
    /\ life # "down" => Pos(head) <= Pos(tail) /\ Pos(tail) <= Pos(XBase)
    /\ c.pc = "loop" => Pos(c.i) <= Pos(head)

\* A watched packet lies between the cleaner and the next packet's first slot,
\* and behind head once DD is set; one not yet covered by next_to_use has no DD.
PacketInv(f) ==
    LET e == buf[f].watch IN
    /\ IF x.pc = "advance" /\ f = x.first
         THEN e = XLast
         ELSE Pos(f) <= Pos(e) /\ Pos(e) < Pos(XBase)
    /\ desc[e] = "done" => Pos(e) < Pos(head)
    /\ c.pc = "loop" => Pos(c.i) <= Pos(f)

WatchInv == \A f \in Slots : buf[f].watch # NoSlot => PacketInv(f)

\* Watched packets do not overlap.
DisjointInv ==
    \A f, g \in Slots :
        buf[f].watch # NoSlot /\ buf[g].watch # NoSlot /\ Pos(f) < Pos(g) =>
            Pos(buf[f].watch) < Pos(g)

RingInv == TypeOK /\ RoomInv /\ LifeInv /\ OrderInv /\ WatchInv /\ DisjointInv
-----------------------------------------------------------------------------
(* The queue this ring implements: the watched packets in ring order, and  *)
(* how many of them the adapter has sent.                                  *)

Watched == {s \in Slots : buf[s].watch # NoSlot}

queueBar ==
    LET W == Watched
        rank(s) == Cardinality({t \in W : Dist(next_to_clean, t) <= Dist(next_to_clean, s)})
    IN  [k \in 1 .. Cardinality(W) |-> buf[CHOOSE s \in W : rank(s) = k].skb]

sentBar == Cardinality({s \in Watched : Finished(s)})

Queue == INSTANCE TxQueue WITH queue <- queueBar, sent <- sentBar, reset <- (life = "reset")

\* The ring is a queue: packets are completed in the order in which they were
\* posted, each only after the adapter has sent it, unless a reset drops all.
RingIsQueue == Queue!Spec
=============================================================================
