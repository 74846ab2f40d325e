----------------------------- MODULE IoContract -----------------------------
(***************************************************************************)
(* What the I/O thread promises the rest of a session: it takes packets    *)
(* from the channel in order, ends when the session is stopped, and when   *)
(* the device is lost sets device_gone before it clears running_bridge.    *)
(* Ending drops the receiving end of the channel with what is left in it.  *)
(*                                                                         *)
(* UsbIo implements this module; Bridge is built on it.                    *)
(***************************************************************************)
EXTENDS Naturals, Sequences

CONSTANTS
  TxCapacity,   \* capacity of the sync_channel of the TX path
  MaxTx         \* bound: packets that ever enter the channel

VARIABLES
  io,          \* "run", "gone" (device_gone is set), "done"
  txChan,      \* the sync_channel from the TX path
  enqueued,    \* packets that ever entered txChan
  txPkts,      \* packets taken from it
  bridge,      \* running_bridge
  deviceGone,  \* device_gone
  plugged      \* the phone is attached

contractVars == <<io, txChan, enqueued, txPkts, bridge, deviceGone, plugged>>

ContractInit ==
  /\ io = "run"
  /\ txChan = <<>>
  /\ enqueued = 0
  /\ txPkts = 0
  /\ bridge = TRUE
  /\ deviceGone = FALSE
  /\ plugged = TRUE

Take ==
  /\ io = "run"
  /\ txChan # <<>>
  /\ txChan' = Tail(txChan)
  /\ txPkts' = txPkts + 1
  /\ UNCHANGED <<io, enqueued, bridge, deviceGone, plugged>>

Quit ==
  /\ io = "run"
  /\ ~bridge
  /\ io' = "done"
  /\ txChan' = <<>>
  /\ UNCHANGED <<enqueued, txPkts, bridge, deviceGone, plugged>>

\* Seeded fault: device_gone is not set.
GoneFlagForgotten == FALSE

GoneFlag == TRUE

\* The device is given up: always when it was unplugged, and possibly when its
\* transfers failed one by one.
GiveUp ==
  /\ io = "run"
  /\ io' = "gone"
  /\ deviceGone' = GoneFlag
  /\ UNCHANGED <<txChan, enqueued, txPkts, bridge, plugged>>

QuitGone ==
  /\ io = "gone"
  /\ io' = "done"
  /\ bridge' = FALSE
  /\ txChan' = <<>>
  /\ UNCHANGED <<enqueued, txPkts, deviceGone, plugged>>

Io == Take \/ Quit \/ GiveUp \/ QuitGone

PullPlug ==
  /\ plugged
  /\ plugged' = FALSE
  /\ UNCHANGED <<io, txChan, enqueued, txPkts, bridge, deviceGone>>

\* SyncSender::send and try_send succeed while there is room and a receiver.
CanPut == io # "done" /\ Len(txChan) < TxCapacity

Put ==
  /\ CanPut
  /\ enqueued < MaxTx
  /\ txChan' = Append(txChan, enqueued + 1)
  /\ enqueued' = enqueued + 1
  /\ UNCHANGED <<io, txPkts, bridge, deviceGone, plugged>>

\* running_bridge.store(false), by the main loop
Stop ==
  /\ bridge' = FALSE
  /\ UNCHANGED <<io, txChan, enqueued, txPkts, deviceGone, plugged>>

ContractNext == Io \/ PullPlug \/ Put \/ Stop

ContractSpec == ContractInit /\ [][ContractNext]_contractVars
=============================================================================
