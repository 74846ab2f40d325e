------------------------------- MODULE UsbIo -------------------------------
(***************************************************************************)
(* The I/O thread of a tethering session: UsbIo::run of usb_io.rs, the two *)
(* USB bulk endpoints it owns, and the device behind them.                 *)
(*                                                                         *)
(* The thread keeps NUM_RX_BUFS transfers ("URBs") submitted on the IN     *)
(* endpoint, hands each Ethernet frame it receives to the utun interface   *)
(* or answers it (ARP), and moves packets from the bounded channel of the  *)
(* TX path to the OUT endpoint.  It counts the IN transfers it has lost;   *)
(* when none is left it declares the device gone and stops the session.    *)
(*                                                                         *)
(* Data is abstracted to what the control tells apart: a packet of the TX  *)
(* path is its position in the order in which packets entered the channel, *)
(* an ARP reply on the OUT endpoint is ArpUrb, an incoming frame is its    *)
(* source address and the branch of on_frame it takes.                     *)
(***************************************************************************)
EXTENDS Naturals, Sequences, FiniteSets, SequencesExt

CONSTANTS
  NumRxBufs,    \* NUM_RX_BUFS: IN transfers kept submitted
  MaxOutUrbs,   \* MAX_OUT_URBS: OUT transfers the refill aims at
  TxCapacity,   \* capacity of the sync_channel of the TX path
  Macs,         \* unicast source addresses the device may use
  Broadcast,    \* an address that starts with 0xFF
  Transfers,    \* frame sequences the device may put into one IN transfer
  MaxTx,        \* bound: packets that ever enter the channel
  MaxRx         \* bound: IN transfers the device ever fills

\* The branches of on_frame: too short, ARP request for our address, other
\* ARP, IPv4/IPv6 (copied to utun), anything eth_to_utun refuses.
FrameTypes == {"runt", "arpReq", "arp", "ip", "other"}

Frame == [src : Macs \cup {Broadcast}, type : FrameTypes]

ASSUME UsbIoAssumption ==
  /\ NumRxBufs \in Nat \ {0}
  /\ MaxOutUrbs \in Nat \ {0}
  /\ TxCapacity \in Nat \ {0}
  /\ MaxTx \in Nat
  /\ MaxRx \in Nat
  /\ Broadcast \notin Macs
  /\ Transfers \subseteq Seq(Frame)

VARIABLES
  ioPc,        \* where the I/O thread is
  activeRx,    \* active_rx: IN transfers not yet lost
  inFlight,    \* IN transfers the device still owns
  inDone,      \* finished IN transfers not yet reaped, oldest first
  frames,      \* frames of the reaped transfer still to be processed
  arpReplies,  \* ARP replies collected from that transfer
  out,         \* OUT transfers not yet reaped, oldest first
  outDone,     \* how many of them, from the front, are finished
  txChan,      \* the sync_channel from the TX path
  enqueued,    \* packets that ever entered txChan
  txPkts,      \* stats.tx_pkts: packets handed to the OUT endpoint
  rxPkts,      \* stats.rx_pkts: frames written to utun
  gatewayMac,  \* the shared gateway address
  bridge,      \* running_bridge
  deviceGone,  \* device_gone
  plugged,     \* the phone is attached
  arpAsked,    \* ARP requests for us that the device delivered
  arpSent,     \* ARP replies handed to the OUT endpoint
  ipArrived,   \* IP frames the device delivered
  delivered    \* IN transfers the device filled

inVars   == <<inFlight, inDone>>
outVars  == <<out, outDone>>
rxVars   == <<frames, arpReplies, rxPkts, gatewayMac>>
askVars  == <<arpAsked, ipArrived, delivered>>
flagVars == <<bridge, deviceGone, plugged>>
ioVars   == <<ioPc, activeRx, inFlight, inDone, frames, arpReplies, out,
              outDone, txChan, enqueued, txPkts, rxPkts, gatewayMac, bridge,
              deviceGone, plugged, arpAsked, arpSent, ipArrived,
              delivered>>

\* An OUT transfer that carries an ARP reply; packets are numbered from 1.
ArpUrb == 0

Completion == [ok : BOOLEAN, frames : Seq(Frame)]

\* Endpoint::pending() counts what was submitted and not yet reaped.
InPending  == inFlight + Len(inDone)
OutPending == Len(out)

\* Where s holds frames of type t, and how many
Positions(s, t) == {i \in DOMAIN s : s[i].type = t}
Count(s, t)     == Cardinality(Positions(s, t))

\* n ARP replies, one after the other
ArpUrbs(n) == [i \in 1..n |-> ArpUrb]

IoPcs == {"start", "loop", "wait", "frame", "drainIn", "checkRx", "gone",
          "drainOut", "refill", "done"}

IoInit ==
  /\ ioPc = "start"
  /\ activeRx = NumRxBufs
  /\ inFlight = 0
  /\ inDone = <<>>
  /\ frames = <<>>
  /\ arpReplies = 0
  /\ out = <<>>
  /\ outDone = 0
  /\ txChan = <<>>
  /\ enqueued = 0
  /\ txPkts = 0
  /\ rxPkts = 0
  /\ gatewayMac = Broadcast
  /\ bridge = TRUE
  /\ deviceGone = FALSE
  /\ plugged = TRUE
  /\ arpAsked = 0
  /\ arpSent = 0
  /\ ipArrived = 0
  /\ delivered = 0

-----------------------------------------------------------------------------
(* The I/O thread. *)

\* Seeded fault: 0..=NUM_RX_BUFS
FirstSubmitsInclusive == NumRxBufs + 1

\* for _ in 0..NUM_RX_BUFS
FirstSubmits == NumRxBufs

\* Submit every IN buffer, then fill the OUT endpoint for the first time.
Start ==
  /\ ioPc = "start"
  /\ inFlight' = FirstSubmits
  /\ ioPc' = "refill"
  /\ UNCHANGED <<activeRx, inDone, rxVars, outVars, txChan, enqueued, txPkts,
                 flagVars, askVars, arpSent>>

\* Seeded fault: the loop goes on while packets are queued.
KeepRunningToFlush == bridge \/ txChan # <<>>

\* while running.load()
KeepRunning == bridge

\* The loop condition.  A thread that leaves the loop drops the receiving end
\* of the channel with what is still in it, and both endpoints with theirs.
LoopTest ==
  /\ ioPc = "loop"
  /\ IF KeepRunning
     THEN /\ ioPc' = "wait"
          /\ UNCHANGED <<inVars, outVars, txChan>>
     ELSE /\ ioPc' = "done"
          /\ inFlight' = 0
          /\ inDone' = <<>>
          /\ out' = <<>>
          /\ outDone' = 0
          /\ txChan' = <<>>
  /\ UNCHANGED <<activeRx, rxVars, enqueued, txPkts, flagVars, askVars,
                 arpSent>>

\* Seeded fault: a failed transfer is not counted.
RxLostUncounted(n) == n

\* active_rx.saturating_sub(1)
RxLost(n) == IF n = 0 THEN 0 ELSE n - 1

\* process_rx_completion starts on the oldest finished transfer: a failed one
\* is lost with its buffer, any other is unwrapped into its frames.
Reap ==
  /\ inDone # <<>>
  /\ inDone' = Tail(inDone)
  /\ IF Head(inDone).ok
     THEN /\ frames' = Head(inDone).frames
          /\ ioPc' = "frame"
          /\ UNCHANGED activeRx
     ELSE /\ activeRx' = RxLost(activeRx)
          /\ ioPc' = "drainIn"
          /\ UNCHANGED frames
  /\ UNCHANGED <<inFlight, arpReplies, rxPkts, gatewayMac, outVars, txChan,
                 enqueued, txPkts, flagVars, askVars, arpSent>>

\* wait_next_complete(1 ms) returns a transfer ...
WaitReap ==
  /\ ioPc = "wait"
  /\ Reap

\* ... or times out.
WaitTimeout ==
  /\ ioPc = "wait"
  /\ inDone = <<>>
  /\ ioPc' = "checkRx"
  /\ UNCHANGED <<activeRx, inVars, rxVars, outVars, txChan, enqueued, txPkts,
                 flagVars, askVars, arpSent>>

\* The gateway address after a frame: the source of every long enough frame
\* that is not broadcast.
Learned(f) ==
  IF f.type # "runt" /\ f.src # Broadcast THEN f.src ELSE gatewayMac

\* Seeded fault: only frames of the known gateway reach utun.
ToUtunFromGateway(f) == f.type = "ip" /\ f.src = gatewayMac

\* eth_to_utun accepts the frame
ToUtun(f) == f.type = "ip"

\* on_frame
OnFrame ==
  /\ ioPc = "frame"
  /\ frames # <<>>
  /\ LET f == Head(frames)
     IN  /\ gatewayMac' = Learned(f)
         /\ arpReplies' = arpReplies + (IF f.type = "arpReq" THEN 1 ELSE 0)
         /\ rxPkts' = rxPkts + (IF ToUtun(f) THEN 1 ELSE 0)
  /\ frames' = Tail(frames)
  /\ UNCHANGED <<ioPc, activeRx, inVars, outVars, txChan, enqueued, txPkts,
                 flagVars, askVars, arpSent>>

\* The end of process_rx_completion: send the replies, without regard to the
\* number of OUT transfers already pending, and submit the buffer again.
RxDone ==
  /\ ioPc = "frame"
  /\ frames = <<>>
  /\ out' = out \o ArpUrbs(arpReplies)
  /\ arpSent' = arpSent + arpReplies
  /\ arpReplies' = 0
  /\ inFlight' = inFlight + 1
  /\ UNCHANGED inDone
  /\ activeRx' = IF InPending' > InPending THEN activeRx ELSE RxLost(activeRx)
  /\ ioPc' = "drainIn"
  /\ UNCHANGED <<frames, rxPkts, gatewayMac, outDone, txChan, enqueued,
                 txPkts, flagVars, askVars>>

\* The inner loop that takes every transfer already finished ...
DrainInReap ==
  /\ ioPc = "drainIn"
  /\ InPending > 0
  /\ Reap

\* ... and ends when nothing is pending or nothing is finished.
DrainInEnd ==
  /\ ioPc = "drainIn"
  /\ InPending = 0 \/ inDone = <<>>
  /\ ioPc' = "checkRx"
  /\ UNCHANGED <<activeRx, inVars, rxVars, outVars, txChan, enqueued, txPkts,
                 flagVars, askVars, arpSent>>

\* Seeded fault: the loss of the last transfer goes unnoticed.
AllRxLostNever == FALSE

\* active_rx == 0
AllRxLost == activeRx = 0

\* Seeded fault: device_gone is not set.
GoneStoredNot == FALSE

\* device_gone.store(true)
GoneStored == TRUE

\* A device with no transfer left is given up: device_gone is stored first, ...
CheckRx ==
  /\ ioPc = "checkRx"
  /\ IF AllRxLost
     THEN ioPc' = "gone" /\ deviceGone' = GoneStored
     ELSE ioPc' = "drainOut" /\ UNCHANGED deviceGone
  /\ UNCHANGED <<activeRx, inVars, rxVars, outVars, txChan, enqueued, txPkts,
                 bridge, plugged, askVars, arpSent>>

\* ... then running, and the thread ends.
Gone ==
  /\ ioPc = "gone"
  /\ bridge' = FALSE
  /\ ioPc' = "done"
  /\ inFlight' = 0
  /\ inDone' = <<>>
  /\ out' = <<>>
  /\ outDone' = 0
  /\ txChan' = <<>>
  /\ UNCHANGED <<activeRx, rxVars, enqueued, txPkts, deviceGone, plugged,
                 askVars, arpSent>>

\* Seeded fault: the newest packet is sent first.
SubmitNewest(pending) ==
  /\ out' = Append(pending, Last(txChan))
  /\ txChan' = Front(txChan)
  /\ txPkts' = txPkts + 1

\* The packet at the head of the channel is handed to the OUT endpoint.
SubmitNext(pending) ==
  /\ out' = Append(pending, Head(txChan))
  /\ txChan' = Tail(txChan)
  /\ txPkts' = txPkts + 1

\* drain_out_and_refill: reap a finished OUT transfer, whatever its status,
\* and put the next packet, if there is one, in its place.
DrainOut ==
  /\ ioPc = "drainOut"
  /\ outDone > 0
  /\ outDone' = outDone - 1
  /\ \/ txChan # <<>> /\ SubmitNext(Tail(out))
     \/ txChan = <<>> /\ out' = Tail(out) /\ UNCHANGED <<txChan, txPkts>>
  /\ UNCHANGED <<ioPc, activeRx, inVars, rxVars, enqueued, flagVars, askVars,
                 arpSent>>

DrainOutEnd ==
  /\ ioPc = "drainOut"
  /\ outDone = 0
  /\ ioPc' = "refill"
  /\ UNCHANGED <<activeRx, inVars, rxVars, outVars, txChan, enqueued, txPkts,
                 flagVars, askVars, arpSent>>

\* Seeded fault: one transfer too many.
OutRoomOffByOne == OutPending <= MaxOutUrbs

\* while ep_out.pending() < MAX_OUT_URBS
OutRoom == OutPending < MaxOutUrbs

\* refill_tx
Refill ==
  /\ ioPc = "refill"
  /\ OutRoom
  /\ txChan # <<>>
  /\ SubmitNext(out)
  /\ UNCHANGED <<ioPc, activeRx, inVars, rxVars, outDone, enqueued, flagVars,
                 askVars, arpSent>>

RefillEnd ==
  /\ ioPc = "refill"
  /\ ~OutRoom \/ txChan = <<>>
  /\ ioPc' = "loop"
  /\ UNCHANGED <<activeRx, inVars, rxVars, outVars, txChan, enqueued, txPkts,
                 flagVars, askVars, arpSent>>

IoThread ==
  \/ Start \/ LoopTest \/ WaitReap \/ WaitTimeout \/ OnFrame \/ RxDone
  \/ DrainInReap \/ DrainInEnd \/ CheckRx \/ Gone \/ DrainOut \/ DrainOutEnd
  \/ Refill \/ RefillEnd

-----------------------------------------------------------------------------
(* The USB stack and the phone: outside the repository, as its code uses them. *)

\* The oldest IN transfer the device owns finishes with c.
FinishIn(c) ==
  /\ inFlight > 0
  /\ inFlight' = inFlight - 1
  /\ inDone' = Append(inDone, c)

\* The phone fills a transfer with zero, one or several frames.
DeviceSends(t) ==
  /\ plugged
  /\ delivered < MaxRx
  /\ FinishIn([ok |-> TRUE, frames |-> t])
  /\ delivered' = delivered + 1
  /\ arpAsked' = arpAsked + Count(t, "arpReq")
  /\ ipArrived' = ipArrived + Count(t, "ip")
  /\ UNCHANGED <<ioPc, activeRx, rxVars, outVars, txChan, enqueued, txPkts,
                 flagVars, arpSent>>

\* A transfer fails: a transient fault, or the cancellation of everything that
\* is pending once the phone is unplugged.
DeviceFails ==
  /\ FinishIn([ok |-> FALSE, frames |-> <<>>])
  /\ UNCHANGED <<ioPc, activeRx, rxVars, outVars, txChan, enqueued, txPkts,
                 flagVars, askVars, arpSent>>

DeviceCancels == ~plugged /\ DeviceFails

\* The oldest unfinished OUT transfer finishes.
OutCompletes ==
  /\ outDone < Len(out)
  /\ outDone' = outDone + 1
  /\ UNCHANGED <<ioPc, activeRx, inVars, rxVars, out, txChan, enqueued, txPkts,
                 flagVars, askVars, arpSent>>

Unplug ==
  /\ plugged
  /\ plugged' = FALSE
  /\ UNCHANGED <<ioPc, activeRx, inVars, rxVars, outVars, txChan, enqueued,
                 txPkts, bridge, deviceGone, askVars, arpSent>>

Device ==
  \/ \E t \in Transfers : DeviceSends(t)
  \/ DeviceFails
  \/ OutCompletes
  \/ Unplug

-----------------------------------------------------------------------------
(* The rest of the session, as far as this thread sees it. *)

\* The channel takes one more packet: SyncSender::send and try_send succeed
\* while there is room and the receiver is alive.
Enqueue ==
  /\ ioPc # "done"
  /\ Len(txChan) < TxCapacity
  /\ enqueued < MaxTx
  /\ txChan' = Append(txChan, enqueued + 1)
  /\ enqueued' = enqueued + 1
  /\ UNCHANGED <<ioPc, activeRx, inVars, rxVars, outVars, txPkts, flagVars,
                 askVars, arpSent>>

\* The main loop of the session ends it.
StopBridge ==
  /\ bridge
  /\ bridge' = FALSE
  /\ UNCHANGED <<ioPc, activeRx, inVars, rxVars, outVars, txChan, enqueued,
                 txPkts, deviceGone, plugged, askVars, arpSent>>

IoNext == IoThread \/ Device \/ Enqueue \/ StopBridge

IoSpec == IoInit /\ [][IoNext]_ioVars

\* The thread is scheduled, and the USB stack cancels the transfers of an
\* unplugged device.  Nothing is assumed of the phone or of the TX path.
IoFairness == WF_ioVars(IoThread) /\ WF_ioVars(DeviceCancels)

IoLiveSpec == IoSpec /\ IoFairness

-----------------------------------------------------------------------------
(* Properties *)

\* Every variable has the type of its counterpart in UsbIo::run.
IoTypeOK ==
  /\ ioPc \in IoPcs
  /\ activeRx \in 0..NumRxBufs
  /\ inFlight \in 0..NumRxBufs
  /\ inDone \in Seq(Completion)
  /\ frames \in Seq(Frame)
  /\ arpReplies \in Nat
  /\ out \in Seq(Nat)
  /\ outDone \in Nat
  /\ txChan \in Seq(Nat \ {ArpUrb})
  /\ enqueued \in Nat
  /\ txPkts \in Nat
  /\ rxPkts \in Nat
  /\ gatewayMac \in Macs \cup {Broadcast}
  /\ bridge \in BOOLEAN
  /\ deviceGone \in BOOLEAN
  /\ plugged \in BOOLEAN
  /\ arpAsked \in Nat
  /\ arpSent \in Nat
  /\ ipArrived \in Nat
  /\ delivered \in Nat

\* active_rx is exactly the number of IN transfers that can still complete,
\* plus the one being processed: the counter kept by hand at usb_io.rs:48-86
\* never drifts from what the endpoint has pending.
RxAccounting ==
  ioPc \notin {"start", "done"} =>
     activeRx = InPending + (IF ioPc = "frame" THEN 1 ELSE 0)

\* The thread never blocks in wait_next_complete (usb_io.rs:54) with no
\* transfer pending, where the endpoint panics: whatever mix of failures and
\* data arrived, the last loss is noticed at usb_io.rs:93 first.
NoWaitOnEmpty == ioPc \in {"loop", "wait", "drainOut", "refill"} => InPending > 0

\* device_gone (usb_io.rs:95), which makes the caller treat the end of the
\* session as a disconnection, is never set while a transfer is alive.
GoneOnlyWhenAllLost == deviceGone => ioPc \in {"gone", "done"} /\ InPending = 0

\* The OUT endpoint holds at most MAX_OUT_URBS transfers beyond the ARP replies
\* that bypass the refill bound (usb_io.rs:116, 139-146, 241-247): replacing
\* each finished transfer never lets the queue creep up.
OutBounded == OutPending <= MaxOutUrbs + arpSent

\* The channel holds exactly the packets not yet counted in tx_pkts, in order.
ChanFifo == txChan = [i \in 1..(enqueued - txPkts) |-> txPkts + i]

\* The packets of s, ARP replies left out, are the last ones up to number n, in
\* order.
LastInOrder(s, n) ==
  /\ \A i, j \in DOMAIN s :
        i < j /\ s[i] # ArpUrb /\ s[j] # ArpUrb => s[i] < s[j]
  /\ \E oldest \in 0..n :
        {s[i] : i \in DOMAIN s} \ {ArpUrb} = (oldest + 1)..n

\* Packets leave in the order they entered, none lost, none sent twice, across
\* the two places that take from the channel (usb_io.rs:117, 139), up to the
\* end of the thread, which drops what is left.
TxFifo == ioPc # "done" => ChanFifo /\ LastInOrder(out, txPkts)

\* Where finished transfers hold frames of type t: the transfer, the frame
Held(done, t) ==
  UNION {{k} \X Positions(done[k].frames, t) : k \in DOMAIN done}

\* Frames of type t delivered and not yet processed
Backlog(t) == Count(frames, t) + Cardinality(Held(inDone, t))

\* While the thread runs, every ARP request for our address is answered once
\* and every IP frame written to utun once, whatever shares its transfer
\* (usb_io.rs:183-247).
RxConserved ==
  ioPc # "done" =>
    /\ arpAsked = arpSent + arpReplies + Backlog("arpReq")
    /\ ipArrived = rxPkts + Backlog("ip")

\* An unplugged phone ends the thread: the failures of its pending transfers
\* are all reaped and counted (usb_io.rs:67-98).
UnplugEndsThread == ~plugged ~> ioPc = "done"

\* A cleared running flag (usb_io.rs:53) ends the thread, even with packets
\* queued and an OUT endpoint that completes nothing.
StopEndsThread == ~bridge ~> ioPc = "done"

\* What the session may rely on: IoContract, with this thread's position
\* reduced to running, device given up, and ended.
Contract == INSTANCE IoContract
  WITH io <- IF ioPc \in {"gone", "done"} THEN ioPc ELSE "run"

\* Every step of the thread, of the device and of the channel is one the
\* contract allows: a packet taken in order, an end that was asked for, a
\* device given up with device_gone set first (usb_io.rs:53, 93-98, 117, 139).
ImplementsContract == Contract!ContractSpec
=============================================================================
