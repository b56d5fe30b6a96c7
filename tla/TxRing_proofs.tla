--------------------------- MODULE TxRing_proofs ---------------------------
(***************************************************************************)
(* Proofs about TxRing, for every ring size, packet size, set of packets,  *)
(* shapes and features: RingInv is an inductive invariant, and GapKept and *)
(* QuietTeardown follow from it.                                           *)
(***************************************************************************)
EXTENDS TxRing, TLAPS

(* Arithmetic of the ring.                                                 *)

\* The ring is larger than any packet with its gap.
LEMMA CountBig == Count \in Nat /\ MaxDesc \in Nat /\ MaxDesc >= 1 /\ Count > MaxDesc + MaxDesc + 6
  BY TxRingAssumption DEF TxRingAssumption, TX_WAKE_THRESHOLD, DESC_NEEDED

\* Adding to a slot wraps back into the ring.
LEMMA AddType ==
  ASSUME NEW i \in Slots, NEW k \in 0 .. Count PROVE Add(i, k) \in Slots
  BY CountBig DEF Slots, Add

\* The distance between two slots is less than the ring's size.
LEMMA DistType ==
  ASSUME NEW i \in Slots, NEW j \in Slots PROVE Dist(i, j) \in 0 .. Count - 1
  BY CountBig DEF Slots, Dist

\* txgbe_desc_unused counts what the used slots leave, less one.
LEMMA UnusedDist ==
  ASSUME NEW i \in Slots, NEW j \in Slots
  PROVE  txgbe_desc_unused(i, j) = Count - 1 - Dist(i, j)
  BY CountBig DEF Slots, Dist, txgbe_desc_unused

\* Walking k slots on from j moves k further away from i, short of a full lap.
LEMMA DistAdd ==
  ASSUME NEW i \in Slots, NEW j \in Slots, NEW k \in Nat, Dist(i, j) + k < Count
  PROVE  Add(j, k) \in Slots /\ Dist(i, Add(j, k)) = Dist(i, j) + k
  BY CountBig DEF Slots, Dist, Add

\* Moving the origin to a slot on the way shortens every distance alike.
LEMMA DistShift ==
  ASSUME NEW i \in Slots, NEW j \in Slots, NEW s \in Slots, Dist(i, j) <= Dist(i, s)
  PROVE  Dist(j, s) = Dist(i, s) - Dist(i, j)
  BY CountBig DEF Slots, Dist

\* A slot is determined by its distance.
LEMMA DistInj ==
  ASSUME NEW i \in Slots, NEW s \in Slots, NEW t \in Slots, Dist(i, s) = Dist(i, t)
  PROVE  s = t
  BY CountBig DEF Slots, Dist

\* A slot is at distance zero from itself.
LEMMA DistSelf == ASSUME NEW i \in Slots PROVE Dist(i, i) = 0
  BY CountBig DEF Slots, Dist

\* The zero slot exists.
LEMMA ZeroSlot == 0 \in Slots
  BY CountBig DEF Slots
-----------------------------------------------------------------------------
(* The type invariant is inductive by itself.                              *)

\* The idle records and the empty buffer are well typed.
LEMMA IdleTypes == IdleX \in XRec /\ IdleC \in CRec /\ EmptyBuf \in BufRec
<1>1. IdleX \in XRec
  BY ZeroSlot, CountBig DEF IdleX, XRec, XPcs
<1>2. IdleC \in CRec
  BY ZeroSlot, TxRingAssumption DEF IdleC, CRec, TxRingAssumption
<1>3. EmptyBuf \in BufRec
  BY CountBig DEF EmptyBuf, BufRec, NoSlot
<1> QED
  BY Zenon, <1>1, <1>2, <1>3

\* The initial state is well typed.
LEMMA InitType == Init => TypeOK
<1> SUFFICES ASSUME Init PROVE TypeOK
  BY Zenon
<1>1. carrier \in BOOLEAN /\ link \in BOOLEAN /\ need \in BOOLEAN /\ link_up \in BOOLEAN
  BY DEF Init
<1> QED
  BY Zenon, <1>1, IdleTypes, ZeroSlot DEF Init, TypeOK, Lives

\* Every step of the transmitter keeps the types.
LEMMA TypeXmit == TypeOK /\ RoomInv /\ (XmitCall \/ XmitDrop \/ XmitStep) => TypeOK'
<1> SUFFICES ASSUME TypeOK, RoomInv, XmitCall \/ XmitDrop \/ XmitStep PROVE TypeOK'
  BY Zenon
<1> USE CountBig, IdleTypes DEF TypeOK
<1>0. /\ x.pc \in XPcs /\ x.skb \in Packets \cup {NoSkb} /\ x.first \in Slots
      /\ x.n \in 0 .. MaxDesc /\ x.more \in BOOLEAN
  BY Zenon DEF XRec
<1>a. \A pc \in XPcs : [x EXCEPT !.pc = pc] \in XRec
  BY Zenon DEF XRec
<1>b. [IdleX EXCEPT !.more = x.more] \in XRec /\ [IdleX EXCEPT !.more = TRUE] \in XRec
  BY Zenon, <1>0 DEF XRec
<1>1. CASE XmitCall
  <2>1. x' \in XRec
    BY <1>1, TxRingAssumption
    DEF XmitCall, XmitFrame, TxRingAssumption, XRec, XPcs
  <2> QED
    BY <1>1, <2>1 DEF XmitCall, XmitFrame, ringVars, hwVars, netVars, stVars, lnkVars
<1>2. CASE XmitDrop
  BY <1>2 DEF XmitDrop, ringVars, hwVars, netVars, stVars, lnkVars
<1>3. CASE XmitCheck
  BY <1>3, <1>a DEF XmitCheck, XGoto, XPcs, ringVars, hwVars, netVars, stVars, lnkVars
<1>4. CASE XmitStop
  BY <1>4, <1>a DEF XmitStop, XGoto, XPcs, ringVars, hwVars, stVars, lnkVars
<1>5. CASE XmitRecheck \/ XmitTest \/ XmitRestart
  <2>1. CASE XmitRecheck
    <3>1. x' \in XRec
      BY Zenon, <2>1, <1>a, <1>b DEF XmitRecheck, XmitBusy, XGoto, XPcs
    <3> QED
      BY ZenonT(60), <2>1, <3>1 DEF XmitRecheck, ringVars, hwVars, netVars, stVars, lnkVars
  <2>2. CASE XmitTest
    <3>1. x' \in XRec
      BY Zenon, <2>2, <1>a, <1>b DEF XmitTest, XmitBusy, XGoto, XPcs
    <3> QED
      BY ZenonT(60), <2>2, <3>1 DEF XmitTest, ringVars, hwVars, netVars, stVars, lnkVars
  <2>3. CASE XmitRestart
    <3>1. x' \in XRec
      BY Zenon, <2>3, <1>a DEF XmitRestart, XGoto, XPcs
    <3> QED
      BY ZenonT(60), <2>3, <3>1 DEF XmitRestart, ringVars, hwVars, stVars, lnkVars
  <2> QED
    BY Zenon, <1>5, <2>1, <2>2, <2>3
<1>6. CASE XmitContext
  <2>1. Add(next_to_use, 1) \in Slots
    BY AddType
  <2>2. x' \in XRec
    BY Zenon, <1>6, <1>a DEF XmitContext, XGoto, XPcs
  <2>3. buf' \in [Slots -> BufRec]
    BY <1>6, <1>0 DEF XmitContext, BufRec
  <2> QED
    BY ZenonT(60), <1>6, <2>1, <2>2, <2>3 DEF XmitContext, hwVars, netVars, stVars, lnkVars
<1>c. ASSUME NEW k \in 0 .. MaxDesc PROVE XMapped(k) \in [Slots -> BufRec]
  <2>1. [skb |-> x.skb, watch |-> NoSlot, len |-> k > 0] \in BufRec
    BY <1>0 DEF BufRec, NoSlot
  <2>2. \A s \in Slots : [buf[s] EXCEPT !.len = TRUE] \in BufRec
    BY Zenon DEF BufRec
  <2> QED
    BY Zenon, <2>1, <2>2 DEF XMapped
<1>7. CASE XmitData
  <2>1. x' \in XRec
    BY Zenon, <1>7, <1>a DEF XmitData, XGoto, XPcs
  <2>2. buf' \in [Slots -> BufRec]
    BY Zenon, <1>7, <1>0, <1>c DEF XmitData
  <2>3. desc' \in [Slots -> {"open", "eop", "done"}]
    BY Zenon, <1>7 DEF XmitData
  <2> QED
    BY ZenonT(60), <1>7, <2>1, <2>2, <2>3 DEF XmitData, hwVars, netVars, stVars, lnkVars
<1>8. CASE (\E k \in 0 .. MaxDesc - 1 : XmitMapFail(k)) \/ XmitUnwind \/ XmitReject
  <2>1. CASE \E k \in 0 .. MaxDesc - 1 : XmitMapFail(k)
    <3>1. PICK k \in 0 .. MaxDesc - 1 : XmitMapFail(k)
      BY Zenon, <2>1
    <3>2. k \in 0 .. MaxDesc
      OBVIOUS
    <3>3. x' \in XRec
      BY Zenon, <3>1, <3>2, <1>0 DEF XmitMapFail, XRec, XPcs
    <3>4. buf' \in [Slots -> BufRec]
      BY Zenon, <3>1, <3>2, <1>c DEF XmitMapFail
    <3>5. desc' \in [Slots -> {"open", "eop", "done"}]
      BY Zenon, <3>1 DEF XmitMapFail
    <3> QED
      BY ZenonT(60), <3>1, <3>3, <3>4, <3>5 DEF XmitMapFail, hwVars, netVars, stVars, lnkVars
  <2>2. CASE XmitUnwind
    <3>1. \A s \in Slots : [buf[s] EXCEPT !.len = FALSE] \in BufRec
      BY Zenon DEF BufRec
    <3>2. buf' \in [Slots -> BufRec]
      BY Zenon, <2>2, <3>1 DEF XmitUnwind
    <3> QED
      BY ZenonT(60), <2>2, <3>2, <1>0, <1>b DEF XmitUnwind, hwVars, netVars, stVars, lnkVars
  <2>3. CASE XmitReject
    BY ZenonT(60), <2>3, <1>b DEF XmitReject, ringVars, hwVars, netVars, stVars, lnkVars
  <2> QED
    BY Zenon, <1>8, <2>1, <2>2, <2>3
<1>9. CASE XmitPublish
  <2>1. XLast \in 0 .. Count
    <3>1. x.n >= 1
      BY Zenon, <1>9 DEF RoomInv, XmitPublish
    <3>2. x.n - 1 \in 0 .. Count
      BY <1>0, <3>1
    <3> QED
      BY <3>2, AddType DEF XLast, Slots
  <2>2. x' \in XRec
    BY Zenon, <1>9, <1>a DEF XmitPublish, XGoto, XPcs
  <2>3. buf' \in [Slots -> BufRec]
    BY ZenonT(60), <1>9, <2>1 DEF XmitPublish, BufRec
  <2> QED
    BY <1>9, <2>2, <2>3 DEF XmitPublish, hwVars, netVars, stVars, lnkVars
<1>10. CASE XmitAdvance
  <2>1. Add(next_to_use, x.n) \in Slots
    BY <1>0, AddType
  <2> QED
    BY <1>10, <1>a, <2>1 DEF XmitAdvance, XGoto, XPcs, hwVars, netVars, stVars, lnkVars
<1>11. CASE XmitDoorbell
  BY <1>11, <1>b DEF XmitDoorbell, ringVars, netVars, stVars, lnkVars
<1> QED
  BY Zenon, <1>1, <1>2, <1>3, <1>4, <1>5, <1>6, <1>7, <1>8, <1>9, <1>10, <1>11 DEF XmitStep

\* Every other step keeps the types.
LEMMA TypeRest ==
  TypeOK /\ (HwTransmit \/ LinkChange \/ CleanStep \/ WatchdogStep \/ TxTimeout \/ LifeStep
             \/ ResetSubtask \/ PcieSubtask \/ DownCall \/ UNCHANGED vars) => TypeOK'
<1> SUFFICES ASSUME TypeOK,
                    HwTransmit \/ LinkChange \/ CleanStep \/ WatchdogStep \/ TxTimeout \/ LifeStep
                    \/ ResetSubtask \/ PcieSubtask \/ DownCall \/ UNCHANGED vars
             PROVE  TypeOK'
  BY Zenon
<1> USE CountBig, IdleTypes DEF TypeOK, ringVars, hwVars, netVars, stVars, lnkVars
<1>0. /\ c.pc \in {"idle", "loop", "space", "wake", "start"} /\ c.i \in Slots
      /\ c.budget \in 0 .. WorkLimit /\ c.pkts \in Nat
  BY Zenon DEF CRec
<1>1. CASE HwTransmit
  <2>1. PICK k \in 0 .. MaxDesc :
           /\ desc' = [desc EXCEPT ![Add(head, k)] = "done"]
           /\ head' = Add(Add(head, k), 1)
    BY Zenon, <1>1 DEF HwTransmit
  <2>2. Add(Add(head, k), 1) \in Slots
    BY AddType
  <2> QED
    BY ZenonT(60), <1>1, <2>1, <2>2 DEF HwTransmit
<1>2. CASE LinkChange
  BY ZenonT(60), <1>2 DEF LinkChange
<1>3. CASE CleanStart
  BY <1>3, TxRingAssumption DEF CleanStart, CRec, TxRingAssumption
<1>4. CASE CleanPacket
  <2>1. buf[c.i].watch \in Slots
    BY SMTT(30), <1>0, <1>4 DEF CleanPacket, Finished, BufRec, NoSlot, Slots
  <2>2. Add(buf[c.i].watch, 1) \in Slots
    BY <2>1, AddType
  <2>3. c' \in CRec
    <3>1. WorkLimit \in Nat /\ c.budget > 0
      BY Zenon, <1>4, TxRingAssumption DEF CleanPacket, TxRingAssumption
    <3>2. c.budget - 1 \in 0 .. WorkLimit /\ c.pkts + 1 \in Nat
      BY <1>0, <3>1
    <3>3. c' = [c EXCEPT !.i = Add(buf[c.i].watch, 1), !.budget = c.budget - 1, !.pkts = c.pkts + 1]
      BY Zenon, <1>4 DEF CleanPacket
    <3> QED
      BY Zenon, <2>2, <3>2, <3>3 DEF CRec
  <2>4. buf' \in [Slots -> BufRec]
    <3>1. \A s \in Slots : [buf[s] EXCEPT !.len = FALSE] \in BufRec
      BY Zenon DEF BufRec
    <3> QED
      BY Zenon, <1>4, <3>1 DEF CleanPacket
  <2> QED
    BY ZenonT(60), <1>4, <2>3, <2>4 DEF CleanPacket
<1>5. CASE CleanPublish
  BY <1>0, <1>5 DEF CleanPublish, CGoto, CRec
<1>6. CASE CleanSpace
  <2>1. [c EXCEPT !.pc = "wake"] \in CRec
    BY Zenon DEF CRec
  <2> QED
    BY <1>6, <2>1 DEF CleanSpace
<1>7. CASE CleanWake \/ CleanRestart
  <2>1. [c EXCEPT !.pc = "start"] \in CRec
    BY Zenon DEF CRec
  <2>2. CASE CleanWake
    BY ZenonT(60), <2>1, <2>2 DEF CleanWake
  <2>3. CASE CleanRestart
    BY ZenonT(60), <2>3 DEF CleanRestart
  <2> QED
    BY Zenon, <1>7, <2>2, <2>3
<1>8. CASE WatchdogStep
  <2>1. CASE WatchdogSample
    BY Zenon, <2>1 DEF WatchdogSample, WGoto
  <2>2. CASE WatchdogFlush
    BY Zenon, <2>2 DEF WatchdogFlush, WGoto
  <2>3. CASE WatchdogRead \/ WatchdogUp \/ WatchdogWake \/ WatchdogDown \/ WatchdogStop
    BY ZenonT(60), <2>3 DEF WatchdogRead, WatchdogUp, WatchdogWake, WatchdogDown, WatchdogStop, WGoto
  <2> QED
    BY Zenon, <1>8, <2>1, <2>2, <2>3 DEF WatchdogStep
<1>9. CASE TxTimeout
  BY ZenonT(60), <1>9 DEF TxTimeout
<1>10. CASE LifeStep
  <2> USE DEF Lives
  <2>1. CASE DownReset
    <3>1. owner' \in [Packets -> {"stack", "driver"}]
      BY Zenon, <2>1 DEF DownReset
    <3> QED
      BY <2>1, <3>1, ZeroSlot DEF DownReset
  <2>2. CASE DownStop
    BY ZenonT(60), <2>2 DEF DownStop
  <2>3. CASE DownTxDisable
    BY <2>3 DEF DownTxDisable
  <2>4. CASE DownNapi
    BY ZenonT(60), <2>4 DEF DownNapi
  <2>5. CASE UpConfigure
    BY <2>5, ZeroSlot DEF UpConfigure
  <2>6. CASE UpComplete
    BY ZenonT(60), <2>6 DEF UpComplete
  <2>7. CASE UpStart
    BY ZenonT(60), <2>7 DEF UpStart
  <2>8. CASE CycleDone
    BY Zenon, <2>8 DEF CycleDone
  <2> QED
    BY Zenon, <1>10, <2>1, <2>2, <2>3, <2>4, <2>5, <2>6, <2>7, <2>8 DEF LifeStep
<1>11. CASE ResetSubtask \/ PcieSubtask \/ DownCall
  <2>1. /\ \E reinit \in BOOLEAN : DownSet(reinit)
        /\ wd' = wd \/ wd' = "recover"
    BY Zenon, <1>11 DEF ResetSubtask, PcieSubtask, DownCall
  <2>2. PICK reinit \in BOOLEAN : DownSet(reinit)
    BY Zenon, <2>1
  <2> QED
    BY ZenonT(60), <2>1, <2>2 DEF DownSet, Lives
<1>12. CASE UNCHANGED vars
  BY <1>12 DEF vars
<1> QED
  BY Zenon, <1>1, <1>2, <1>3, <1>4, <1>5, <1>6, <1>7, <1>8, <1>9, <1>10, <1>11, <1>12 DEF CleanStep

-----------------------------------------------------------------------------
(* The ring part of the invariant, action by action.                       *)

Threads == {"data", "unwind", "publish", "advance"}

\* What the type invariant says of the positions.
LEMMA Positions ==
  ASSUME TypeOK, RoomInv
  PROVE  /\ next_to_clean \in Slots /\ next_to_use \in Slots /\ head \in Slots /\ tail \in Slots
         /\ x.first \in Slots /\ XBase \in Slots /\ c.i \in Slots /\ x.n \in 0 .. MaxDesc
         /\ x.pc \in XPcs
         /\ \A s \in Slots : Pos(s) \in 0 .. Count - 1
         /\ \A f \in Slots : buf[f].watch # NoSlot => buf[f].watch \in Slots
<1> USE DEF TypeOK
<1>1. x.first \in Slots /\ c.i \in Slots /\ x.n \in 0 .. MaxDesc /\ x.pc \in XPcs
  BY Zenon DEF XRec, CRec
<1>2. \A s \in Slots : Pos(s) \in 0 .. Count - 1
  BY Zenon, DistType DEF Pos
<1>3. \A f \in Slots : buf[f].watch # NoSlot => buf[f].watch \in Slots
  BY CountBig DEF BufRec, NoSlot, Slots
<1> QED
  BY Zenon, <1>1, <1>2, <1>3 DEF XBase

\* A step that leaves the ring, the adapter, the transmitter and the cleaner
\* alone, and is not the moment between txgbe_clean_tx_ring and
\* txgbe_configure_tx_ring, keeps the ring part.
LEMMA FrameKept ==
  ASSUME RingInv, UNCHANGED <<ringVars, hwVars, x, c>>, (life' = "down") = (life = "down")
  PROVE  RoomInv' /\ OrderInv' /\ WatchInv' /\ DisjointInv'
<1> USE DEF RingInv, ringVars, hwVars
<1>1. RoomInv'
  BY Zenon DEF RoomInv, Pos, XLast
<1>2. OrderInv'
  BY Zenon DEF OrderInv, Pos, XBase
<1>3. WatchInv'
  BY Zenon DEF WatchInv, PacketInv, Pos, XBase, XLast
<1>4. DisjointInv'
  BY Zenon DEF DisjointInv, Pos
<1> QED
  BY Zenon, <1>1, <1>2, <1>3, <1>4

\* A step of the transmitter outside its critical stretch moves at most tail,
\* and that to next_to_use.
LEMMA OutsideKept ==
  ASSUME RingInv, UNCHANGED <<ringVars, head, c, life>>, tail' = tail \/ tail' = next_to_use,
         x.pc \notin Threads, x'.pc \notin Threads
  PROVE  OrderInv' /\ WatchInv' /\ DisjointInv'
<1> USE DEF RingInv, ringVars, Threads
<1>0. XBase = next_to_use /\ XBase' = next_to_use
  BY Zenon DEF XBase
<1>1. OrderInv'
  BY <1>0, Positions DEF OrderInv, Pos
<1>3. WatchInv'
  <2> SUFFICES ASSUME NEW f \in Slots, buf[f].watch # NoSlot PROVE PacketInv(f)'
    BY Zenon DEF WatchInv, NoSlot
  <2>1. PacketInv(f)
    BY Zenon DEF WatchInv
  <2> QED
    BY Zenon, <1>0, <2>1 DEF PacketInv, Pos
<1>4. DisjointInv'
  BY Zenon DEF DisjointInv, Pos
<1> QED
  BY Zenon, <1>1, <1>3, <1>4

\* The transmitter's steps outside the critical stretch keep the invariant.
LEMMA OutsideInv ==
  ASSUME RingInv,
         XmitCall \/ XmitDrop \/ XmitCheck \/ XmitStop \/ XmitRecheck \/ XmitTest
         \/ XmitRestart \/ XmitReject \/ XmitDoorbell
  PROVE  RoomInv' /\ LifeInv' /\ OrderInv' /\ WatchInv' /\ DisjointInv'
<1> USE DEF RingInv, ringVars, hwVars, netVars, stVars, lnkVars
<1>p. /\ next_to_clean \in Slots /\ next_to_use \in Slots /\ x.n \in 0 .. MaxDesc
      /\ x.pc \in XPcs /\ Pos(next_to_use) \in 0 .. Count - 1
  BY Zenon, Positions
<1>q. x \in XRec
  BY Zenon DEF TypeOK
<1>r. HasRoom => Pos(next_to_use) + XSize + 1 <= Count
  <2>1. txgbe_desc_unused(next_to_clean, next_to_use) = Count - 1 - Pos(next_to_use)
    BY Zenon, <1>p, UnusedDist DEF Pos
  <2>2. XSize \in Nat
    BY <1>p, CountBig DEF XSize, DESC_NEEDED
  <2> QED
    BY <2>1, <2>2, <1>p, CountBig DEF HasRoom
<1>1. CASE XmitCall
  <2>1. PICK p \in Packets, shape \in Shapes, more \in BOOLEAN : XmitFrame(p, shape, more)
    BY Zenon, <1>1 DEF XmitCall
  <2>2. /\ x'.pc = "check" /\ x'.skb = p /\ x'.first = next_to_use /\ x'.n = shape.n
        /\ x.pc = "idle" /\ ~down
    BY Zenon, <2>1 DEF XmitFrame, Halted
  <2>3. shape.n >= 1
    BY TxRingAssumption, CountBig DEF TxRingAssumption
  <2>4. RoomInv'
    BY Zenon, <2>1, <2>2, <2>3 DEF RoomInv, Pos, XmitFrame
  <2>5. LifeInv'
    BY Zenon, <2>1, <2>2 DEF LifeInv, XmitFrame
  <2> QED
    BY Zenon, <2>1, <2>2, <2>4, <2>5, OutsideKept DEF XmitFrame, Threads
<1>2. CASE XmitDrop
  <2>1. x.pc = "idle" /\ x'.pc = "idle"
    BY Zenon, <1>2 DEF XmitDrop, IdleX
  <2> QED
    BY Zenon, SMTT(30), <1>2, <2>1, OutsideKept DEF XmitDrop, RoomInv, LifeInv, Pos, Threads
<1>3. CASE XmitCheck
  <2>1. /\ x.pc \in {"check", "tailcheck"}
        /\ x'.pc \in {"map", "stop", "doorbell", "tailstop"}
        /\ x'.pc \in {"map", "stop"} => x.pc = "check"
        /\ x'.pc = "map" => HasRoom
        /\ x'.first = x.first /\ x'.n = x.n /\ x'.skb = x.skb
    BY Zenon, <1>3, <1>q DEF XmitCheck, XGoto, XRec
  <2>2. x'.pc = "map" => Pos(next_to_use) + x.n + 4 <= Count
    BY <2>1, <1>r, <1>p, CountBig DEF XSize
  <2>3. RoomInv'
    BY Zenon, <1>3, <2>1, <2>2 DEF XmitCheck, RoomInv, Pos
  <2>4. LifeInv'
    BY Zenon, <1>3, <2>1 DEF XmitCheck, LifeInv
  <2> QED
    BY Zenon, <1>3, <2>1, <2>3, <2>4, OutsideKept DEF XmitCheck, Threads
<1>4. CASE XmitStop
  <2>1. /\ x.pc \in {"stop", "tailstop"}
        /\ x'.pc \in {"recheck", "tailrecheck"}
        /\ x'.pc = "recheck" => x.pc = "stop"
        /\ x'.first = x.first /\ x'.n = x.n /\ x'.skb = x.skb
    BY Zenon, <1>4, <1>q DEF XmitStop, XGoto, XRec
  <2>3. RoomInv'
    BY Zenon, SMTT(30), <1>4, <2>1 DEF XmitStop, RoomInv, Pos
  <2>4. LifeInv'
    BY Zenon, <1>4, <2>1 DEF XmitStop, LifeInv
  <2> QED
    BY Zenon, <1>4, <2>1, <2>3, <2>4, OutsideKept DEF XmitStop, Threads
<1>5. CASE XmitRecheck
  <2>1. /\ x.pc \in {"recheck", "tailrecheck"}
        /\ x'.pc \in {"test", "idle", "tailtest", "doorbell"}
        /\ x'.pc = "test" => /\ x.pc = "recheck" /\ HasRoom
                             /\ x'.first = x.first /\ x'.n = x.n /\ x'.skb = x.skb
    BY Zenon, <1>5, <1>q DEF XmitRecheck, XmitBusy, XGoto, XRec, IdleX
  <2>2. x'.pc = "test" => Pos(next_to_use) + x.n + 4 <= Count
    BY <2>1, <1>r, <1>p, CountBig DEF XSize
  <2>3. RoomInv'
    BY Zenon, <1>5, <2>1, <2>2 DEF XmitRecheck, RoomInv, Pos
  <2>4. LifeInv'
    BY Zenon, <1>5, <2>1 DEF XmitRecheck, LifeInv
  <2> QED
    BY Zenon, <1>5, <2>1, <2>3, <2>4, OutsideKept DEF XmitRecheck, Threads
<1>6. CASE XmitDoorbell
  <2>1. x.pc = "doorbell" /\ x'.pc = "idle" /\ (tail' = tail \/ tail' = next_to_use)
    BY Zenon, <1>6 DEF XmitDoorbell, IdleX
  <2>3. RoomInv'
    BY Zenon, <1>6, <2>1 DEF XmitDoorbell, RoomInv, Pos
  <2>4. LifeInv'
    BY Zenon, <1>6, <2>1 DEF XmitDoorbell, LifeInv
  <2> QED
    BY Zenon, <1>6, <2>1, <2>3, <2>4, OutsideKept DEF XmitDoorbell, Threads
<1>7. CASE XmitTest
  <2>1. /\ x.pc \in {"test", "tailtest"}
        /\ x'.pc \in {"restart", "idle", "tailrestart", "doorbell"}
        /\ x'.pc = "restart" => /\ x.pc = "test"
                                /\ x'.first = x.first /\ x'.n = x.n /\ x'.skb = x.skb
    BY Zenon, <1>7, <1>q DEF XmitTest, XmitBusy, XGoto, XRec, IdleX
  <2>3. RoomInv'
    BY Zenon, <1>7, <2>1 DEF XmitTest, RoomInv, Pos
  <2>4. LifeInv'
    BY Zenon, <1>7, <2>1 DEF XmitTest, LifeInv
  <2> QED
    BY Zenon, <1>7, <2>1, <2>3, <2>4, OutsideKept DEF XmitTest, Threads
<1>8. CASE XmitRestart
  <2>1. /\ x.pc \in {"restart", "tailrestart"}
        /\ x'.pc \in {"map", "doorbell"}
        /\ x'.pc = "map" => /\ x.pc = "restart"
                            /\ x'.first = x.first /\ x'.n = x.n /\ x'.skb = x.skb
    BY Zenon, <1>8, <1>q DEF XmitRestart, XGoto, XRec
  <2>3. RoomInv'
    BY Zenon, <1>8, <2>1 DEF XmitRestart, RoomInv, Pos
  <2>4. LifeInv'
    BY Zenon, <1>8, <2>1 DEF XmitRestart, LifeInv
  <2> QED
    BY Zenon, <1>8, <2>1, <2>3, <2>4, OutsideKept DEF XmitRestart, Threads
<1>9. CASE XmitReject
  <2>1. x.pc = "map" /\ x'.pc = "idle"
    BY Zenon, <1>9 DEF XmitReject, IdleX
  <2>3. RoomInv'
    BY Zenon, <1>9, <2>1 DEF XmitReject, RoomInv, Pos
  <2>4. LifeInv'
    BY Zenon, <1>9, <2>1 DEF XmitReject, LifeInv
  <2> QED
    BY Zenon, <1>9, <2>1, <2>3, <2>4, OutsideKept DEF XmitReject, Threads
<1> QED
  BY Zenon, <1>1, <1>2, <1>3, <1>4, <1>5, <1>6, <1>7, <1>8, <1>9

\* Inside the critical stretch first is next_to_use or the slot before it.
LEMMA FirstPos ==
  ASSUME TypeOK, RoomInv, x.pc \in Threads
  PROVE  Pos(x.first) <= Pos(next_to_use)
<1>1. /\ next_to_clean \in Slots /\ next_to_use \in Slots /\ x.first \in Slots
  BY Zenon, Positions
<1>2. CASE x.first = next_to_use
  BY <1>1, <1>2, Positions
<1>3. CASE Pos(next_to_use) >= 1 /\ next_to_use = Add(x.first, 1)
  BY <1>1, <1>3, CountBig DEF Pos, Dist, Add, Slots
<1> QED
  BY Zenon, <1>2, <1>3 DEF RoomInv, Threads

\* A step that keeps the base, the watched packets and the thread outside
\* "advance" keeps order, watch and disjointness: it may clear DD bits and drop
\* packets, and move next_to_use behind the base.
LEMMA BaseKept ==
  ASSUME RingInv, UNCHANGED <<next_to_clean, hwVars, c, life>>, XBase' = XBase,
         x.pc # "advance", x'.pc # "advance",
         \A f \in Slots : buf'[f].watch = buf[f].watch \/ buf'[f].watch = NoSlot,
         \A s \in Slots : desc'[s] = "done" => desc[s] = "done"
  PROVE  OrderInv' /\ WatchInv' /\ DisjointInv'
<1> USE DEF RingInv, hwVars
<1>1. OrderInv'
  BY Zenon DEF OrderInv, Pos
<1>2. WatchInv'
  <2> SUFFICES ASSUME NEW f \in Slots, buf'[f].watch # NoSlot PROVE PacketInv(f)'
    BY Zenon DEF WatchInv, NoSlot
  <2>1. PacketInv(f) /\ buf'[f].watch = buf[f].watch /\ buf[f].watch \in Slots
    BY Zenon, SMTT(30), Positions DEF WatchInv
  <2> QED
    BY Zenon, <2>1 DEF PacketInv, Pos
<1>3. DisjointInv'
  BY Zenon DEF DisjointInv, Pos, NoSlot
<1> QED
  BY Zenon, <1>1, <1>2, <1>3

\* Context descriptor, data descriptors and the error path keep the invariant.
LEMMA MapInv ==
  ASSUME RingInv,
         \/ XmitContext \/ XmitData \/ XmitUnwind
         \/ \E k \in 0 .. MaxDesc - 1 : XmitMapFail(k)
  PROVE  RoomInv' /\ LifeInv' /\ OrderInv' /\ WatchInv' /\ DisjointInv'
<1> USE DEF RingInv
<1>p. /\ next_to_clean \in Slots /\ next_to_use \in Slots /\ x.n \in 0 .. MaxDesc /\ x.first \in Slots
      /\ Pos(next_to_use) \in 0 .. Count - 1
  BY Zenon, Positions
<1>q. x \in XRec /\ buf \in [Slots -> BufRec] /\ desc \in [Slots -> {"open", "eop", "done"}]
  BY Zenon DEF TypeOK
<1>r. \A k, f : f \in Slots => \/ XMapped(k)[f].watch = buf[f].watch
                                 \/ XMapped(k)[f].watch = NoSlot
  <2> SUFFICES ASSUME NEW k, NEW f \in Slots
               PROVE  XMapped(k)[f].watch = buf[f].watch \/ XMapped(k)[f].watch = NoSlot
    BY Zenon
  <2> DEFINE mapped == f \in XFurther(k) /\ Dist(next_to_use, f) \notin x.cont
  <2>1. XMapped(k)[f] = IF f = x.first THEN [skb |-> x.skb, watch |-> NoSlot, len |-> k > 0]
                        ELSE IF mapped THEN [buf[f] EXCEPT !.len = TRUE] ELSE buf[f]
    BY Zenon DEF XMapped
  <2>2. [buf[f] EXCEPT !.len = TRUE].watch = buf[f].watch
    <3>1. buf[f] \in BufRec
      BY Zenon, <1>q
    <3> QED
      BY Zenon, <3>1 DEF BufRec
  <2> HIDE DEF mapped
  <2> QED
    BY <2>1, <2>2
<1>1. CASE XmitContext
  <2>1. x.pc = "map" /\ x'.pc = "data" /\ x'.first = x.first /\ x'.n = x.n /\ x'.skb = x.skb
    BY Zenon, <1>1, <1>q DEF XmitContext, XGoto, XRec
  <2>2. x.first = next_to_use /\ x.n >= 1 /\ x.skb \in Packets /\ Pos(next_to_use) + x.n + 4 <= Count
    BY Zenon, <2>1 DEF RoomInv
  <2>3. next_to_use' = Add(next_to_use, 1) /\ next_to_clean' = next_to_clean
    BY Zenon, <1>1 DEF XmitContext
  <2>4. Pos(next_to_use)' = Pos(next_to_use) + 1
    BY <1>p, <2>2, <2>3, DistAdd, CountBig DEF Pos
  <2>5. RoomInv'
    BY <1>p, <2>1, <2>2, <2>3, <2>4, CountBig DEF RoomInv
  <2>6. LifeInv'
    BY Zenon, <1>1, <2>1 DEF LifeInv, XmitContext, hwVars, stVars
  <2>7. XBase' = XBase
    BY Zenon, <2>1, <2>2 DEF XBase
  <2>8. /\ \A f \in Slots : buf'[f].watch = buf[f].watch
        /\ \A s \in Slots : desc'[s] = "done" => desc[s] = "done"
    BY Zenon, <1>1, <1>q, <1>p DEF XmitContext, BufRec
  <2> QED
    BY Zenon, <1>1, <2>1, <2>5, <2>6, <2>7, <2>8, BaseKept DEF XmitContext
<1>2. CASE XmitData
  <2>1. /\ x.pc \in {"map", "data"} /\ x'.pc = "publish"
        /\ x'.first = x.first /\ x'.n = x.n /\ x'.skb = x.skb
    BY Zenon, <1>2, <1>q DEF XmitData, XDataReady, XGoto, XRec
  <2>2. /\ x.n >= 1 /\ x.skb \in Packets /\ Pos(next_to_use) + x.n + 3 <= Count
        /\ x.first = next_to_use \/ (Pos(next_to_use) >= 1 /\ next_to_use = Add(x.first, 1))
    BY <1>p, <2>1, CountBig DEF RoomInv
  <2>3. next_to_use' = next_to_use /\ next_to_clean' = next_to_clean
    BY Zenon, <1>2 DEF XmitData
  <2>4. XLast \in Slots /\ XLast' = XLast
    <3>1. x.n - 1 \in Nat
      BY <1>p, <2>2
    <3>2. Dist(next_to_clean, next_to_use) + (x.n - 1) < Count
      BY <1>p, <2>2, CountBig DEF Pos
    <3>3. Add(next_to_use, x.n - 1) \in Slots
      BY Zenon, <1>p, <3>1, <3>2, DistAdd
    <3> QED
      BY Zenon, <2>1, <2>3, <3>3 DEF XLast
  <2>5. desc'[XLast] = "eop" /\ \A s \in Slots : desc'[s] = "done" => desc[s] = "done"
    BY Zenon, <1>2, <2>4 DEF XmitData
  <2>6. RoomInv'
    BY Zenon, <1>p, <2>1, <2>2, <2>3, <2>4, <2>5 DEF RoomInv, Pos
  <2>7. LifeInv'
    BY Zenon, <1>2, <2>1 DEF LifeInv, XmitData, hwVars, stVars
  <2>8. XBase' = XBase
    BY Zenon, <2>1, <2>3 DEF XBase, RoomInv
  <2>9. \A f \in Slots : buf'[f].watch = buf[f].watch \/ buf'[f].watch = NoSlot
    BY Zenon, <1>2, <1>r DEF XmitData
  <2> QED
    BY Zenon, <1>2, <2>1, <2>5, <2>6, <2>7, <2>8, <2>9, BaseKept DEF XmitData
<1>3. CASE XmitUnwind
  <2>1. x.pc = "unwind" /\ x'.pc = "idle" /\ next_to_use' = x.first
    BY Zenon, <1>3 DEF XmitUnwind, IdleX
  <2>2. Pos(x.first) <= Pos(next_to_use)
    BY Zenon, <1>p, <2>1, FirstPos DEF RoomInv, Threads
  <2>3. RoomInv'
    <3>1. Pos(next_to_use)' = Pos(x.first)
      BY Zenon, <1>3, <2>1 DEF XmitUnwind, Pos
    <3>2. Pos(next_to_use) <= Count - 3 /\ Pos(x.first) \in 0 .. Count - 1
      BY Zenon, Positions DEF RoomInv
    <3> QED
      BY <1>p, <2>1, <2>2, <3>1, <3>2, CountBig DEF RoomInv
  <2>4. LifeInv'
    BY Zenon, <1>3, <2>1 DEF LifeInv, XmitUnwind, hwVars, stVars
  <2>5. XBase' = XBase
    BY Zenon, <2>1 DEF XBase, RoomInv
  <2>6. /\ \A f \in Slots : buf'[f].watch = buf[f].watch \/ buf'[f].watch = NoSlot
        /\ \A s \in Slots : desc'[s] = "done" => desc[s] = "done"
    BY Zenon, <1>3, <1>q, <1>p DEF XmitUnwind, EmptyBuf, BufRec
  <2> QED
    BY Zenon, <1>3, <2>1, <2>3, <2>4, <2>5, <2>6, BaseKept DEF XmitUnwind
<1>4. CASE \E k \in 0 .. MaxDesc - 1 : XmitMapFail(k)
  <2>0. PICK k \in 0 .. MaxDesc - 1 : XmitMapFail(k)
    BY Zenon, <1>4
  <2>1. /\ x.pc \in {"map", "data"} /\ x'.pc = "unwind"
        /\ x'.first = x.first /\ x'.n = k /\ x'.skb = x.skb /\ k < x.n
    BY Zenon, <2>0, <1>q DEF XmitMapFail, XDataReady, XRec
  <2>2. /\ x.skb \in Packets /\ Pos(next_to_use) + x.n + 3 <= Count
        /\ x.first = next_to_use \/ (Pos(next_to_use) >= 1 /\ next_to_use = Add(x.first, 1))
    BY <1>p, <2>1, CountBig DEF RoomInv
  <2>3. next_to_use' = next_to_use /\ next_to_clean' = next_to_clean
    BY Zenon, <2>0 DEF XmitMapFail
  <2>4. Pos(next_to_use) + k + 3 <= Count
    BY <1>p, <2>1, <2>2, CountBig
  <2>5. RoomInv'
    BY Zenon, <1>p, <2>1, <2>2, <2>3, <2>4 DEF RoomInv, Pos
  <2>6. LifeInv'
    BY Zenon, <2>0, <2>1 DEF LifeInv, XmitMapFail, hwVars, stVars
  <2>7. XBase' = XBase
    BY Zenon, <2>1, <2>3 DEF XBase, RoomInv
  <2>8. \A f \in Slots : buf'[f].watch = buf[f].watch \/ buf'[f].watch = NoSlot
    BY Zenon, <2>0, <1>r DEF XmitMapFail
  <2>9. \A s \in Slots : desc'[s] = "done" => desc[s] = "done"
    BY Zenon, <2>0 DEF XmitMapFail
  <2> QED
    BY Zenon, <2>0, <2>1, <2>5, <2>6, <2>7, <2>8, <2>9, BaseKept DEF XmitMapFail
<1> QED
  BY Zenon, <1>1, <1>2, <1>3, <1>4

\* Publishing a packet keeps the invariant.
LEMMA PublishInv ==
  ASSUME RingInv, XmitPublish
  PROVE  RoomInv' /\ LifeInv' /\ OrderInv' /\ WatchInv' /\ DisjointInv'
<1> USE DEF RingInv
<1>p. /\ next_to_clean \in Slots /\ next_to_use \in Slots /\ x.n \in 0 .. MaxDesc /\ x.first \in Slots
      /\ head \in Slots /\ tail \in Slots /\ c.i \in Slots
      /\ \A s \in Slots : Pos(s) \in 0 .. Count - 1
      /\ \A f \in Slots : buf[f].watch # NoSlot => buf[f].watch \in Slots
  BY Zenon, Positions
<1>q. x \in XRec /\ buf \in [Slots -> BufRec]
  BY Zenon DEF TypeOK
<1>1. /\ x.pc = "publish" /\ x'.pc = "advance" /\ x'.first = x.first /\ x'.n = x.n /\ x'.skb = x.skb
      /\ UNCHANGED <<next_to_use, next_to_clean, desc, head, tail, c, life, down>>
  BY Zenon, <1>q DEF XmitPublish, XGoto, XRec, hwVars, stVars
<1>2. /\ buf'[x.first].watch = XLast
      /\ \A f \in Slots \ {x.first} : buf'[f].watch = buf[f].watch
  BY Zenon, <1>p, <1>q DEF XmitPublish, BufRec
<1>3. XLast' = XLast /\ XBase' = x.first /\ XBase = x.first /\ desc[XLast] = "eop"
  BY Zenon, <1>1 DEF XLast, XBase, RoomInv
<1>4. life # "down"
  BY Zenon, <1>1 DEF LifeInv
<1>5. RoomInv'
  BY Zenon, <1>1, <1>3 DEF RoomInv, Pos
<1>6. LifeInv'
  BY Zenon, <1>1, <1>4 DEF LifeInv
<1>7. OrderInv'
  BY Zenon, <1>1, <1>3 DEF OrderInv, Pos
<1>8. WatchInv'
  <2> SUFFICES ASSUME NEW f \in Slots, buf'[f].watch # NoSlot PROVE PacketInv(f)'
    BY Zenon DEF WatchInv, NoSlot
  <2>1. CASE f = x.first
    <3>1. c.pc = "loop" => Pos(c.i) <= Pos(f)
      BY SMTT(30), <1>3, <1>4, <1>p, <2>1 DEF OrderInv
    <3> QED
      BY Zenon, <1>1, <1>2, <1>3, <2>1, <3>1 DEF PacketInv, Pos
  <2>2. CASE f # x.first
    <3>1. PacketInv(f) /\ buf'[f].watch = buf[f].watch
      BY Zenon, <1>2, <2>2 DEF WatchInv
    <3> QED
      BY Zenon, <1>1, <1>3, <2>2, <3>1 DEF PacketInv, Pos
  <2> QED
    BY Zenon, <2>1, <2>2
<1>9. DisjointInv'
  <2> SUFFICES ASSUME NEW f \in Slots, NEW g \in Slots, buf'[f].watch # NoSlot,
                      buf'[g].watch # NoSlot, Pos(f) < Pos(g)
               PROVE  Pos(buf'[f].watch) < Pos(g)
    BY Zenon, <1>1 DEF DisjointInv, Pos, NoSlot
  <2>0. \A h \in Slots \ {x.first} : buf[h].watch # NoSlot =>
            Pos(h) <= Pos(buf[h].watch) /\ Pos(buf[h].watch) < Pos(x.first)
    BY Zenon, <1>1, <1>3 DEF WatchInv, PacketInv
  <2>1. CASE f = x.first
    BY <1>2, <1>p, <2>0, <2>1
  <2>2. CASE f # x.first /\ g = x.first
    BY Zenon, <1>2, <2>0, <2>2
  <2>3. CASE f # x.first /\ g # x.first
    BY Zenon, <1>2, <2>3 DEF DisjointInv
  <2> QED
    BY Zenon, <2>1, <2>2, <2>3
<1> QED
  BY Zenon, <1>5, <1>6, <1>7, <1>8, <1>9

\* Moving next_to_use behind the published packet keeps the invariant.
LEMMA AdvanceInv ==
  ASSUME RingInv, XmitAdvance
  PROVE  RoomInv' /\ LifeInv' /\ OrderInv' /\ WatchInv' /\ DisjointInv'
<1> USE DEF RingInv
<1>p. /\ next_to_clean \in Slots /\ next_to_use \in Slots /\ x.n \in 0 .. MaxDesc /\ x.first \in Slots
      /\ head \in Slots /\ tail \in Slots /\ c.i \in Slots
      /\ \A s \in Slots : Pos(s) \in 0 .. Count - 1
      /\ \A f \in Slots : buf[f].watch # NoSlot => buf[f].watch \in Slots
  BY Positions
<1>1. /\ x.pc = "advance" /\ x'.pc = "tailcheck" /\ next_to_use' = Add(next_to_use, x.n)
      /\ UNCHANGED <<next_to_clean, buf, desc, head, tail, c, life, down>>
  <2>1. x \in XRec
    BY Zenon DEF TypeOK
  <2> QED
    BY Zenon, <2>1 DEF XmitAdvance, XGoto, XRec, hwVars, stVars
<1>2. x.n >= 1 /\ Pos(next_to_use) + x.n + 3 <= Count /\ desc[XLast] = "eop"
  BY Zenon, <1>1 DEF RoomInv
<1>3. Pos(x.first) <= Pos(next_to_use)
  BY Zenon, <1>1, FirstPos DEF Threads
<1>4. Pos(next_to_use)' = Pos(next_to_use) + x.n
  BY <1>p, <1>1, <1>2, DistAdd, CountBig DEF Pos
<1>5. Pos(XLast) = Pos(next_to_use) + x.n - 1
  <2>1. x.n - 1 \in Nat /\ Dist(next_to_clean, next_to_use) + (x.n - 1) < Count
    BY <1>p, <1>2, CountBig DEF Pos
  <2> QED
    BY <1>p, <2>1, DistAdd DEF Pos, XLast
<1>6. Pos(XBase)' = Pos(next_to_use)' /\ XBase = x.first
  BY Zenon, <1>1 DEF XBase, Pos
<1>7. RoomInv'
  BY <1>p, <1>1, <1>2, <1>4, CountBig DEF RoomInv
<1>8. LifeInv'
  BY Zenon, <1>1 DEF LifeInv
<1>9. OrderInv'
  BY SMTT(30), <1>p, <1>1, <1>3, <1>4, <1>6 DEF OrderInv, Pos
<1>10. WatchInv'
  <2> SUFFICES ASSUME NEW f \in Slots, buf[f].watch # NoSlot PROVE PacketInv(f)'
    BY Zenon, <1>1 DEF WatchInv, NoSlot
  <2>1. PacketInv(f)
    BY Zenon, SMTT(30) DEF WatchInv
  <2>2. Pos(f) <= Pos(buf[f].watch) /\ Pos(buf[f].watch) < Pos(next_to_use)'
    BY SMTT(30), <1>p, <1>1, <1>2, <1>3, <1>4, <1>5, <1>6, <2>1 DEF PacketInv
  <2> QED
    BY Zenon, <1>1, <1>6, <2>1, <2>2 DEF PacketInv, Pos
<1>11. DisjointInv'
  BY Zenon, <1>1 DEF DisjointInv, Pos
<1> QED
  BY <1>7, <1>8, <1>9, <1>10, <1>11

\* The adapter's progress keeps the invariant.
LEMMA HwInv ==
  ASSUME RingInv, HwTransmit
  PROVE  RoomInv' /\ LifeInv' /\ OrderInv' /\ WatchInv' /\ DisjointInv'
<1> USE DEF RingInv
<1>p. /\ next_to_clean \in Slots /\ next_to_use \in Slots /\ x.n \in 0 .. MaxDesc /\ x.first \in Slots
      /\ head \in Slots /\ tail \in Slots /\ c.i \in Slots /\ XBase \in Slots
      /\ \A s \in Slots : Pos(s) \in 0 .. Count - 1
      /\ \A f \in Slots : buf[f].watch # NoSlot => buf[f].watch \in Slots
  BY Zenon, Positions
<1>1. PICK k \in 0 .. MaxDesc :
         /\ k < Dist(head, tail)
         /\ desc' = [desc EXCEPT ![Add(head, k)] = "done"]
         /\ head' = Add(Add(head, k), 1)
  BY Zenon DEF HwTransmit
<1>2. /\ head # tail
      /\ UNCHANGED <<next_to_use, next_to_clean, buf, tail, x, c, life, down>>
  BY Zenon DEF HwTransmit, stVars
<1>3. life \notin {"down", "configured"}
  BY Zenon, <1>2 DEF LifeInv
<1>4. Pos(head) <= Pos(tail) /\ Pos(tail) <= Pos(XBase)
  BY Zenon, <1>3 DEF OrderInv
<1>5. Dist(head, tail) = Pos(tail) - Pos(head)
  BY Zenon, <1>p, <1>4, DistShift DEF Pos
<1> DEFINE e == Add(head, k)
<1>6. e \in Slots /\ Pos(e) = Pos(head) + k
  BY <1>p, <1>1, <1>5, DistAdd, CountBig DEF Pos
<1>7. Pos(head)' = Pos(head) + k + 1
  BY <1>p, <1>1, <1>2, <1>5, <1>6, DistAdd, CountBig DEF Pos
<1>8. Pos(e) < Pos(XBase)
  BY <1>p, <1>1, <1>4, <1>5, <1>6
<1>9. \A s \in Slots : desc'[s] = IF s = e THEN "done" ELSE desc[s]
  BY Zenon, <1>1 DEF TypeOK
<1>10. x.pc \in {"publish", "advance"} => XLast \in Slots /\ Pos(XLast) >= Pos(XBase) /\ XLast # e
  <2> SUFFICES ASSUME x.pc \in {"publish", "advance"}
               PROVE  XLast \in Slots /\ Pos(XLast) >= Pos(XBase) /\ XLast # e
    BY Zenon
  <2>1. x.n - 1 \in Nat /\ Dist(next_to_clean, next_to_use) + (x.n - 1) < Count
    BY <1>p, CountBig DEF Pos, RoomInv
  <2>2. XLast \in Slots /\ Pos(XLast) = Pos(next_to_use) + (x.n - 1)
    BY <1>p, <2>1, DistAdd DEF Pos, XLast
  <2>3. Pos(x.first) <= Pos(next_to_use) /\ XBase = x.first
    BY Zenon, SMTT(30), FirstPos DEF Threads, XBase
  <2> QED
    BY <1>p, <1>8, <2>1, <2>2, <2>3
<1>11. RoomInv'
  BY Zenon, <1>2, <1>9, <1>10 DEF RoomInv, Pos, XLast
<1>12. LifeInv'
  BY Zenon, <1>2, <1>3 DEF LifeInv
<1>13. OrderInv'
  <2>1. Pos(head)' <= Pos(tail) /\ Pos(head) <= Pos(head)'
    BY <1>p, <1>1, <1>5, <1>7
  <2>2. Pos(tail)' = Pos(tail) /\ Pos(XBase)' = Pos(XBase) /\ Pos(c.i)' = Pos(c.i)
    BY Zenon, SMTT(30), <1>2 DEF Pos, XBase
  <2> QED
    BY <1>2, <1>4, <1>p, <1>7, <2>1, <2>2 DEF OrderInv
<1>14. WatchInv'
  <2> SUFFICES ASSUME NEW f \in Slots, buf[f].watch # NoSlot PROVE PacketInv(f)'
    BY Zenon, <1>2 DEF WatchInv, NoSlot
  <2>1. PacketInv(f)
    BY Zenon DEF WatchInv
  <2>2. desc'[buf[f].watch] = "done" => Pos(buf[f].watch) < Pos(head)'
    BY <1>p, <1>6, <1>7, <1>9, <2>1 DEF PacketInv
  <2> QED
    BY Zenon, <1>2, <2>1, <2>2 DEF PacketInv, Pos, XBase, XLast
<1>15. DisjointInv'
  BY Zenon, <1>2 DEF DisjointInv, Pos
<1> QED
  BY Zenon, <1>11, <1>12, <1>13, <1>14, <1>15

\* Freeing a finished packet keeps the invariant.
LEMMA CleanPacketInv ==
  ASSUME RingInv, CleanPacket
  PROVE  RoomInv' /\ LifeInv' /\ OrderInv' /\ WatchInv' /\ DisjointInv'
<1> USE DEF RingInv
<1>p. /\ next_to_clean \in Slots /\ head \in Slots /\ c.i \in Slots
      /\ \A s \in Slots : Pos(s) \in 0 .. Count - 1
      /\ \A f \in Slots : buf[f].watch # NoSlot => buf[f].watch \in Slots
  BY Zenon, Positions
<1>1. /\ c.pc = "loop" /\ buf[c.i].watch # NoSlot /\ desc[buf[c.i].watch] = "done"
      /\ UNCHANGED <<next_to_use, next_to_clean, desc, head, tail, x, life, down>>
  BY Zenon DEF CleanPacket, Finished, hwVars, stVars
<1> DEFINE e == buf[c.i].watch
<1>2. c'.pc = "loop" /\ c'.i = Add(e, 1)
  <2>1. c \in CRec
    BY Zenon DEF TypeOK
  <2> QED
    BY Zenon, <1>1, <2>1 DEF CleanPacket, CRec
<1>3. /\ buf'[c.i].watch = NoSlot
      /\ \A f \in Slots \ {c.i} : buf'[f].watch = buf[f].watch
  <2>1. buf \in [Slots -> BufRec]
    BY Zenon DEF TypeOK
  <2> QED
    BY Zenon, <1>p, <2>1 DEF CleanPacket, EmptyBuf, BufRec
<1>4. PacketInv(c.i)
  BY Zenon, <1>1, <1>p DEF WatchInv
<1>5. Pos(e) < Pos(head) /\ e \in Slots
  BY Zenon, <1>1, <1>4, <1>p DEF PacketInv
<1>6. Pos(c.i)' = Pos(e) + 1
  BY SMTT(30), <1>1, <1>2, <1>5, <1>p, DistAdd, CountBig DEF Pos
<1>7. RoomInv'
  BY Zenon, SMTT(30), <1>1 DEF RoomInv, Pos, XLast
<1>8. LifeInv'
  BY Zenon, <1>1 DEF LifeInv
<1>9. OrderInv'
  BY SMTT(30), <1>1, <1>2, <1>5, <1>6, <1>p DEF OrderInv, Pos, XBase
<1>10. WatchInv'
  <2> SUFFICES ASSUME NEW f \in Slots, buf'[f].watch # NoSlot PROVE PacketInv(f)'
    BY DEF WatchInv, NoSlot
  <2>1. f # c.i /\ buf'[f].watch = buf[f].watch /\ buf[f].watch # NoSlot
    BY Zenon, <1>3
  <2>2. PacketInv(f)
    BY Zenon, <2>1 DEF WatchInv
  <2>3. Pos(c.i) < Pos(f)
    <3>1. Pos(c.i) <= Pos(f)
      BY Zenon, <1>1, <2>2 DEF PacketInv
    <3>2. Pos(c.i) # Pos(f)
      BY Zenon, <1>p, <2>1, DistInj DEF Pos
    <3> QED
      BY SMTT(30), <1>p, <3>1, <3>2
  <2>4. Pos(e) < Pos(f)
    BY Zenon, <1>1, <1>p, <2>1, <2>3 DEF DisjointInv
  <2>5. Pos(c.i)' <= Pos(f)
    BY <1>5, <1>6, <1>p, <2>4
  <2> QED
    BY Zenon, <1>1, <2>1, <2>2, <2>5 DEF PacketInv, Pos, XBase, XLast
<1>11. DisjointInv'
  BY Zenon, <1>1, <1>3 DEF DisjointInv, Pos, NoSlot
<1> QED
  BY <1>7, <1>8, <1>9, <1>10, <1>11

\* Moving next_to_clean up to the cleaner's cursor only adds room and shifts
\* every position alike.
LEMMA CleanPublishInv ==
  ASSUME RingInv, CleanPublish
  PROVE  RoomInv' /\ LifeInv' /\ OrderInv' /\ WatchInv' /\ DisjointInv'
<1> USE DEF RingInv
<1>p. /\ next_to_clean \in Slots /\ next_to_use \in Slots /\ x.n \in 0 .. MaxDesc /\ x.first \in Slots
      /\ head \in Slots /\ tail \in Slots /\ c.i \in Slots /\ XBase \in Slots
      /\ \A s \in Slots : Pos(s) \in 0 .. Count - 1
      /\ \A f \in Slots : buf[f].watch # NoSlot => buf[f].watch \in Slots
  BY Positions
<1>1. /\ c.pc = "loop" /\ c'.pc = "space" /\ next_to_clean' = c.i
      /\ UNCHANGED <<next_to_use, buf, desc, head, tail, x, life, down>>
  <2>1. c \in CRec
    BY DEF TypeOK
  <2> QED
    BY Zenon, <2>1 DEF CleanPublish, CGoto, CRec, hwVars, stVars
<1>2. life # "down"
  BY Zenon, <1>1 DEF LifeInv
<1>3. Pos(c.i) <= Pos(head) /\ Pos(head) <= Pos(tail) /\ Pos(tail) <= Pos(XBase)
  BY Zenon, <1>1, <1>2 DEF OrderInv
<1>4. Pos(XBase) <= Pos(next_to_use)
  BY <1>p, FirstPos DEF XBase, Threads
<1>5. \A s \in Slots : Pos(c.i) <= Pos(s) => Dist(c.i, s) = Pos(s) - Pos(c.i)
  BY Zenon, SMTT(30), <1>p, DistShift DEF Pos
<1>6. /\ Pos(head)' = Pos(head) - Pos(c.i) /\ Pos(tail)' = Pos(tail) - Pos(c.i)
      /\ Pos(next_to_use)' = Pos(next_to_use) - Pos(c.i) /\ Pos(XBase)' = Pos(XBase) - Pos(c.i)
  <2>1. Pos(c.i) <= Pos(tail) /\ Pos(c.i) <= Pos(XBase) /\ Pos(c.i) <= Pos(next_to_use)
    BY <1>p, <1>3, <1>4
  <2>2. XBase' = XBase
    BY Zenon, SMTT(30), <1>1 DEF XBase
  <2> QED
    BY Zenon, SMTT(30), <1>1, <1>3, <1>5, <1>p, <2>1, <2>2 DEF Pos
<1>7. RoomInv'
  <2>1. x.pc \in Threads /\ x.first # next_to_use => Pos(next_to_use)' >= 1
    <3> SUFFICES ASSUME x.pc \in Threads, x.first # next_to_use PROVE Pos(next_to_use)' >= 1
      BY Zenon
    <3>1. XBase = x.first
      BY Zenon DEF Threads, XBase
    <3>2. Pos(x.first) # Pos(next_to_use)
      BY Zenon, <1>p, DistInj DEF Pos
    <3> QED
      BY <1>p, <1>3, <1>4, <1>6, <3>1, <3>2
  <2>2. XLast' = XLast
    BY Zenon, <1>1 DEF XLast
  <2>3. Pos(next_to_use)' <= Pos(next_to_use)
    BY <1>p, <1>6
  <2>4. Pos(next_to_use)' \in Int
    BY <1>p, <1>6
  <2>5. next_to_use = Add(x.first, 1) => x.first # next_to_use
    BY <1>p, CountBig DEF Add, Slots
  <2> QED
    BY SMTT(30), <1>1, <1>p, <2>1, <2>2, <2>3, <2>4, <2>5, CountBig DEF RoomInv, Threads
<1>8. LifeInv'
  BY Zenon, SMTT(30), <1>1, <1>2 DEF LifeInv
<1>9. OrderInv'
  BY <1>1, <1>3, <1>6, <1>p DEF OrderInv
<1>10. WatchInv'
  <2> SUFFICES ASSUME NEW f \in Slots, buf[f].watch # NoSlot PROVE PacketInv(f)'
    BY Zenon, <1>1 DEF WatchInv, NoSlot
  <2>1. PacketInv(f) /\ buf[f].watch \in Slots
    BY Zenon, <1>p DEF WatchInv
  <2>2. Pos(c.i) <= Pos(f)
    BY Zenon, <1>1, <2>1 DEF PacketInv
  <2>3. CASE x.pc = "advance" /\ f = x.first
    <3>1. desc[buf[f].watch] # "done" /\ buf[f].watch = XLast
      BY Zenon, <2>1, <2>3 DEF PacketInv, RoomInv
    <3> QED
      BY Zenon, SMTT(30), <1>1, <2>3, <3>1 DEF PacketInv, XLast
  <2>4. CASE ~(x.pc = "advance" /\ f = x.first)
    <3>1. Pos(f) <= Pos(buf[f].watch) /\ Pos(buf[f].watch) < Pos(XBase)
      BY Zenon, SMTT(30), <2>1, <2>4 DEF PacketInv
    <3>2. Dist(c.i, f) = Pos(f) - Pos(c.i) /\ Dist(c.i, buf[f].watch) = Pos(buf[f].watch) - Pos(c.i)
      BY SMTT(30), <1>5, <1>p, <2>1, <2>2, <3>1
    <3>3. Pos(f)' = Dist(c.i, f) /\ Pos(buf[f].watch)' = Dist(c.i, buf[f].watch)
      BY Zenon, SMTT(30), <1>1 DEF Pos
    <3>4. Pos(f)' <= Pos(buf[f].watch)' /\ Pos(buf[f].watch)' < Pos(XBase)'
      BY SMTT(30), <1>6, <1>p, <2>1, <3>1, <3>2, <3>3
    <3>5. desc[buf[f].watch] = "done" => Pos(buf[f].watch)' < Pos(head)'
      <4>1. desc[buf[f].watch] = "done" => Pos(buf[f].watch) < Pos(head)
        BY Zenon, SMTT(30), <2>1 DEF PacketInv
      <4> QED
        BY SMTT(30), <1>6, <1>p, <2>1, <3>2, <3>3, <4>1
    <3> QED
      BY Zenon, SMTT(30), <1>1, <2>4, <3>4, <3>5 DEF PacketInv
  <2> QED
    BY Zenon, <2>3, <2>4
<1>11. DisjointInv'
  <2> SUFFICES ASSUME NEW f \in Slots, NEW g \in Slots, buf[f].watch # NoSlot,
                      buf[g].watch # NoSlot, Dist(c.i, f) < Dist(c.i, g)
               PROVE  Dist(c.i, buf[f].watch) < Dist(c.i, g)
    BY Zenon, <1>1 DEF DisjointInv, Pos, NoSlot
  <2>1. PacketInv(f) /\ PacketInv(g) /\ buf[f].watch \in Slots
    BY Zenon, SMTT(30), <1>p DEF WatchInv
  <2>2. Pos(c.i) <= Pos(f) /\ Pos(c.i) <= Pos(g)
    BY Zenon, <1>1, <2>1 DEF PacketInv
  <2>3. Dist(c.i, f) = Pos(f) - Pos(c.i) /\ Dist(c.i, g) = Pos(g) - Pos(c.i)
    BY Zenon, <1>5, <2>2
  <2>4. Pos(f) < Pos(g)
    BY <1>p, <2>3
  <2>5. Pos(buf[f].watch) < Pos(g)
    BY Zenon, <2>4 DEF DisjointInv
  <2>6. Pos(f) <= Pos(buf[f].watch)
    <3>1. CASE x.pc = "advance" /\ f = x.first
      <4>1. Pos(XBase) = Pos(f)
        BY Zenon, SMTT(30), <3>1 DEF XBase
      <4>2. g # f /\ Pos(g) < Pos(XBase)
        BY SMTT(30), <1>p, <2>1, <2>4, <3>1 DEF PacketInv
      <4> QED
        BY <1>p, <2>4, <4>1, <4>2
    <3>2. CASE ~(x.pc = "advance" /\ f = x.first)
      BY Zenon, SMTT(30), <2>1, <3>2 DEF PacketInv
    <3> QED
      BY Zenon, <3>1, <3>2
  <2>7. Dist(c.i, buf[f].watch) = Pos(buf[f].watch) - Pos(c.i)
    BY <1>5, <1>p, <2>1, <2>2, <2>6
  <2> QED
    BY <1>p, <2>1, <2>3, <2>5, <2>7
<1> QED
  BY <1>7, <1>8, <1>9, <1>10, <1>11

\* The cleaner's remaining steps keep the invariant.
LEMMA CleanRestInv ==
  ASSUME RingInv, CleanStart \/ CleanSpace \/ CleanWake \/ CleanRestart
  PROVE  RoomInv' /\ LifeInv' /\ OrderInv' /\ WatchInv' /\ DisjointInv'
<1> USE DEF RingInv
<1>p. /\ next_to_clean \in Slots /\ head \in Slots
      /\ \A s \in Slots : Pos(s) \in 0 .. Count - 1
  BY Zenon, Positions
<1>1. /\ c'.pc # "loop" \/ (c'.pc = "loop" /\ c'.i = next_to_clean /\ ~down)
      /\ UNCHANGED <<ringVars, hwVars, x, life, down>>
  <2>1. c \in CRec
    BY Zenon DEF TypeOK
  <2>2. CASE CleanStart
    BY Zenon, <2>2 DEF CleanStart, Halted, stVars
  <2>3. CASE CleanSpace
    BY Zenon, <2>1, <2>3 DEF CleanSpace, IdleC, CRec, stVars
  <2>4. CASE CleanWake
    BY Zenon, <2>1, <2>4 DEF CleanWake, IdleC, CRec, stVars
  <2>5. CASE CleanRestart
    BY Zenon, <2>5 DEF CleanRestart, IdleC, stVars
  <2> QED
    BY Zenon, <2>2, <2>3, <2>4, <2>5
<1>2. Pos(next_to_clean) = 0
  BY Zenon, SMTT(30), <1>p, DistSelf DEF Pos
<1>3. RoomInv'
  BY Zenon, <1>1 DEF RoomInv, Pos, XLast, ringVars
<1>4. LifeInv'
  <2>1. c.pc # "idle" \/ ~down
    BY Zenon DEF CleanStart, CleanSpace, CleanWake, CleanRestart, Halted
  <2> QED
    BY Zenon, <1>1, <2>1 DEF LifeInv, ringVars, hwVars
<1>5. OrderInv'
  BY <1>1, <1>2, <1>p DEF OrderInv, Pos, XBase, ringVars, hwVars
<1>6. WatchInv'
  <2> SUFFICES ASSUME NEW f \in Slots, buf[f].watch # NoSlot PROVE PacketInv(f)'
    BY Zenon, <1>1 DEF WatchInv, NoSlot, ringVars
  <2>1. PacketInv(f)
    BY Zenon DEF WatchInv
  <2> QED
    BY <1>1, <1>2, <1>p, <2>1 DEF PacketInv, Pos, XBase, XLast, ringVars, hwVars
<1>7. DisjointInv'
  BY Zenon, <1>1 DEF DisjointInv, Pos, ringVars
<1> QED
  BY Zenon, <1>3, <1>4, <1>5, <1>6, <1>7

\* The down/up cycle keeps the invariant.
LEMMA LifeStepInv ==
  ASSUME RingInv, LifeStep \/ (\E reinit \in BOOLEAN : DownSet(reinit))
  PROVE  RoomInv' /\ LifeInv' /\ OrderInv' /\ WatchInv' /\ DisjointInv'
<1> USE DEF RingInv
<1>1. CASE \E reinit \in BOOLEAN : DownSet(reinit)
  <2>1. LifeInv'
    BY Zenon, SMTT(30), <1>1 DEF DownSet, LifeInv
  <2> QED
    BY Zenon, SMTT(30), <1>1, <2>1, FrameKept DEF DownSet
<1>2. CASE DownStop
  BY Zenon, SMTT(30), <1>2, FrameKept DEF DownStop, LifeInv, stVars
<1>3. CASE DownTxDisable
  BY Zenon, SMTT(30), <1>3, FrameKept DEF DownTxDisable, LifeInv, stVars
<1>4. CASE DownNapi
  BY Zenon, SMTT(30), <1>4, FrameKept DEF DownNapi, LifeInv
<1>5. CASE DownReset
  <2>1. /\ life = "reset" /\ life' = "down" /\ head' = 0 /\ tail' = 0
        /\ \A s \in Slots : buf'[s].watch = NoSlot
        /\ UNCHANGED <<next_to_use, next_to_clean, x, c, down>>
    BY Zenon, <1>5 DEF DownReset, EmptyBuf, stVars
  <2>2. x.pc = "idle" /\ c.pc = "idle"
    BY Zenon, <2>1 DEF LifeInv
  <2>3. RoomInv'
    BY Zenon, SMTT(30), <2>1, <2>2 DEF RoomInv, Pos
  <2>4. LifeInv'
    BY Zenon, SMTT(30), <2>1, <2>2 DEF LifeInv, NoSlot
  <2> QED
    BY Zenon, SMTT(30), <2>1, <2>2, <2>3, <2>4 DEF OrderInv, WatchInv, DisjointInv, NoSlot
<1>6. CASE UpConfigure
  <2>1. /\ life = "down" /\ life' = "configured" /\ next_to_use' = 0 /\ next_to_clean' = 0
        /\ UNCHANGED <<buf, desc, head, tail, x, c, down>>
    BY Zenon, <1>6 DEF UpConfigure, hwVars, stVars
  <2>2. /\ x.pc = "idle" /\ c.pc = "idle" /\ down /\ head = 0 /\ tail = 0
        /\ \A s \in Slots : buf[s].watch = NoSlot
    BY Zenon, <2>1 DEF LifeInv
  <2>3. XBase' = 0 /\ Dist(0, 0) = 0
    BY Zenon, SMTT(30), <2>1, <2>2, DistSelf, ZeroSlot DEF XBase
  <2>4. RoomInv'
    BY <2>1, <2>2, <2>3, CountBig DEF RoomInv, Pos
  <2>5. LifeInv'
    BY Zenon, <2>1, <2>2 DEF LifeInv
  <2>6. OrderInv'
    BY SMTT(30), <2>1, <2>2, <2>3 DEF OrderInv, Pos
  <2> QED
    BY Zenon, <2>1, <2>2, <2>4, <2>5, <2>6 DEF WatchInv, DisjointInv, NoSlot
<1>7. CASE UpComplete
  BY Zenon, SMTT(30), <1>7, FrameKept DEF UpComplete, LifeInv
<1>8. CASE UpStart
  BY Zenon, SMTT(30), <1>8, FrameKept DEF UpStart, LifeInv
<1>9. CASE CycleDone
  BY Zenon, <1>9, FrameKept DEF CycleDone, LifeInv
<1> QED
  BY Zenon, <1>1, <1>2, <1>3, <1>4, <1>5, <1>6, <1>7, <1>8, <1>9 DEF LifeStep

\* Initially everything is at slot zero.
LEMMA InitInv == Init => RingInv
<1> SUFFICES ASSUME Init PROVE RingInv
  OBVIOUS
<1>1. /\ next_to_use = 0 /\ next_to_clean = 0 /\ head = 0 /\ tail = 0 /\ life = "up"
      /\ x.pc = "idle" /\ c.pc = "idle" /\ \A s \in Slots : buf[s].watch = NoSlot
  BY Zenon DEF Init, EmptyBuf, IdleX, IdleC
<1>2. Dist(0, 0) = 0
  BY Zenon, DistSelf, ZeroSlot
<1>3. RoomInv
  BY <1>1, <1>2, CountBig DEF RoomInv, Pos
<1>4. LifeInv /\ OrderInv /\ WatchInv /\ DisjointInv
  BY <1>1, <1>2 DEF LifeInv, OrderInv, WatchInv, DisjointInv, Pos, XBase
<1> QED
  BY Zenon, SMTT(30), <1>3, <1>4, InitType DEF RingInv

\* The invariant holds throughout: from the types on, everything the ring, the
\* adapter, the transmitter, the cleaner and the down/up cycle agree on.
THEOREM RingInvariant == Spec => []RingInv
<1>1. RingInv /\ [Next]_vars => RingInv'
  <2> SUFFICES ASSUME RingInv, [Next]_vars PROVE RingInv'
    BY Zenon
  <2>1. CASE XmitCall \/ XmitDrop \/ XmitStep
    <3>1. TypeOK'
      BY Zenon, <2>1, TypeXmit DEF RingInv
    <3> QED
      BY Zenon, <2>1, <3>1, OutsideInv, MapInv, PublishInv, AdvanceInv DEF XmitStep, RingInv
  <2>2. CASE HwTransmit
    BY Zenon, <2>2, HwInv, TypeRest DEF RingInv
  <2>3. CASE CleanStep
    <3>1. TypeOK'
      BY Zenon, <2>3, TypeRest DEF RingInv
    <3> QED
      BY Zenon, <2>3, <3>1, CleanPacketInv, CleanPublishInv, CleanRestInv DEF CleanStep, RingInv
  <2>4. CASE LinkChange \/ WatchdogStep \/ TxTimeout \/ UNCHANGED vars
    <3>1. TypeOK'
      BY Zenon, SMTT(30), <2>4, TypeRest DEF RingInv
    <3>2. UNCHANGED <<ringVars, hwVars, x, c, life, down>>
      BY Zenon, <2>4 DEF LinkChange, TxTimeout, WatchdogStep, WatchdogSample, WatchdogRead, WatchdogUp,
                  WatchdogWake, WatchdogDown, WatchdogStop, WatchdogFlush, vars, stVars
    <3>3. LifeInv'
      BY Zenon, <3>2 DEF RingInv, LifeInv, ringVars, hwVars
    <3> QED
      BY Zenon, <3>1, <3>2, <3>3, FrameKept DEF RingInv
  <2>5. CASE ResetSubtask \/ PcieSubtask \/ DownCall \/ LifeStep
    <3>1. TypeOK'
      BY Zenon, <2>5, TypeRest DEF RingInv
    <3>2. LifeStep \/ (\E reinit \in BOOLEAN : DownSet(reinit))
      BY Zenon, <2>5 DEF ResetSubtask, PcieSubtask, DownCall
    <3> QED
      BY Zenon, <3>1, <3>2, LifeStepInv DEF RingInv
  <2> QED
    BY Zenon, <2>1, <2>2, <2>3, <2>4, <2>5 DEF Next
<1> QED
  BY <1>1, InitInv, PTL DEF Spec

\* The variables keep their types on a ring of any size.
THEOREM TypeCorrect == Spec => []TypeOK
<1>1. RingInv => TypeOK
  BY Zenon DEF RingInv
<1> QED
  BY <1>1, RingInvariant, PTL

\* The two-descriptor gap of txgbe_xmit_frame_ring holds on every ring that is
\* larger than the wake threshold, whatever the sizes of the packets.
THEOREM GapAlwaysKept == Spec => []GapKept
<1>1. RingInv => GapKept
  <2> SUFFICES ASSUME RingInv PROVE GapKept
    BY Zenon
  <2>1. next_to_clean \in Slots /\ next_to_use \in Slots /\ Pos(next_to_use) \in 0 .. Count - 1
    BY Zenon, Positions DEF RingInv
  <2>2. txgbe_desc_unused(next_to_clean, next_to_use) = Count - 1 - Pos(next_to_use)
    BY Zenon, <2>1, UnusedDist DEF Pos
  <2>3. Pos(next_to_use) <= Count - 3
    BY Zenon DEF RingInv, RoomInv
  <2> QED
    BY <2>1, <2>2, <2>3, CountBig DEF GapKept
<1> QED
  BY <1>1, RingInvariant, PTL

\* Nobody is inside the ring while it is torn down and set up again.
THEOREM TeardownIsQuiet == Spec => []QuietTeardown
<1>1. RingInv => QuietTeardown
  BY Zenon DEF RingInv, LifeInv, QuietTeardown
<1> QED
  BY <1>1, RingInvariant, PTL
=============================================================================
