------------------------------- MODULE Bridge -------------------------------
(***************************************************************************)
(* The threads of one tethering session, from the creation of the channels *)
(* in run_session (main.rs:274) to the joins that end it (main.rs:593):    *)
(*                                                                         *)
(*   - the I/O thread, by its contract: module IoContract;                *)
(*   - the TX thread: reads utun, diverts DNS queries, feeds the channel;  *)
(*   - the DNS resolver thread, by its contract: module ResolverContract;  *)
(*   - the main loop: keepalive, statistics, IPC commands, shutdown.       *)
(*                                                                         *)
(* A packet read from utun is its kind; a DNS query is the number of the   *)
(* read that produced it.  Atomic loads and stores of the flags the threads *)
(* share are steps of their own.                                           *)
(***************************************************************************)
EXTENDS IoContract

CONSTANTS
  DnsModes,     \* the values of config.dns_mode to consider
  Batch,        \* packets the TX thread reads between two polls (64)
  MaxReads,     \* bound: packets that ever arrive on utun
  MaxKeepalives \* bound: keepalives the main loop ever sends

ASSUME BridgeAssumption ==
  /\ TxCapacity \in Nat \ {0}
  /\ MaxTx \in Nat
  /\ DnsModes \subseteq {"system", "doh", "dot"}
  /\ Batch \in Nat \ {0}
  /\ MaxReads \in Nat
  /\ MaxKeepalives \in Nat

\* What the TX thread tells apart: a DNS query of our own address, any other
\* IP packet, a packet ip_to_eth refuses.
PacketKinds == {"dns", "ip", "bad"}

VARIABLES
  dnsMode,      \* config.dns_mode
  running,      \* the flag of the Ctrl-C handler
  mainPc,       \* where the main thread is
  keepalives,   \* keepalives tried
  askedToStop,  \* history: an IPC command ended the session
  disconnected, \* was_disconnected, the result of run_session
  txPc,         \* where the TX thread is
  txPkt,        \* kind of the packet in tbuf
  readWarm,     \* history: doh_warmed_up when that packet was read
  batched,      \* packets read since the last poll
  reads,        \* packets read from utun so far
  lateSends,    \* history: packets queued by TX after the bridge was stopped
  plainDns,     \* history: readWarm of each query that left unencrypted
  dnsPc,        \* where the resolver thread is
  dnsChan,      \* the channel of intercepted queries
  dnsBatch,     \* queries of the batch that are not answered
  warm,         \* doh_warmed_up
  panicked      \* the I/O thread ended in a panic

mainVars == <<mainPc, keepalives, askedToStop, disconnected>>
txVars   == <<txPc, txPkt, readWarm, batched, reads, lateSends, plainDns>>
dnsVars  == <<dnsPc, dnsBatch>>
sessVars == <<dnsMode, running, mainVars, txVars, dnsVars, dnsChan, warm,
              panicked>>
vars     == <<contractVars, sessVars>>

MainPcs == {"test", "keepalive", "stats", "close", "joinIo", "joinTx",
            "joinDns", "ended"}
TxPcs   == {"test", "poll", "recheck", "read", "check", "dns", "warm", "wrap",
            "send", "done"}

\* The resolver thread shares bridge, dnsPc, dnsChan, dnsBatch and warm.
Res == INSTANCE ResolverContract WITH DnsQueries <- 1..MaxReads

Encrypted == dnsMode # "system"

BridgeInit ==
  /\ ContractInit
  /\ dnsMode \in DnsModes
  /\ running = TRUE
  /\ mainPc = "test"
  /\ keepalives = 0
  /\ askedToStop = FALSE
  /\ disconnected = FALSE
  /\ txPc = "test"
  /\ txPkt = "ip"
  /\ readWarm = FALSE
  /\ batched = 0
  /\ reads = 0
  /\ lateSends = 0
  /\ plainDns = {}
  /\ dnsPc = IF Encrypted THEN "test" ELSE "done"
  /\ dnsChan = <<>>
  /\ dnsBatch = {}
  /\ warm = FALSE
  /\ panicked = FALSE

-----------------------------------------------------------------------------
(* The TX thread *)

\* The TX thread goes from pc a to pc b.
TxGoto(a, b) == txPc = a /\ txPc' = b

\* Nothing but the TX thread's own position changes.
TxOnly ==
  UNCHANGED <<contractVars, dnsMode, running, mainVars, dnsVars, dnsChan, warm,
              panicked>>

\* while bridge_tx.load()
TxTest ==
  /\ TxGoto("test", IF bridge THEN "poll" ELSE "done")
  /\ TxOnly /\ UNCHANGED <<txPkt, readWarm, batched, reads, lateSends, plainDns>>

\* poll(fd, 100 ms) times out ...
TxPollTimeout ==
  /\ TxGoto("poll", "test")
  /\ TxOnly /\ UNCHANGED <<txPkt, readWarm, batched, reads, lateSends, plainDns>>

\* ... or finds utun readable.
TxPollReady ==
  /\ reads < MaxReads
  /\ TxGoto("poll", "recheck")
  /\ TxOnly /\ UNCHANGED <<txPkt, readWarm, batched, reads, lateSends, plainDns>>

TxRecheck ==
  /\ TxGoto("recheck", IF bridge THEN "read" ELSE "done")
  /\ batched' = 0
  /\ TxOnly /\ UNCHANGED <<txPkt, readWarm, reads, lateSends, plainDns>>

\* for _batch in 0..64
BatchRoom == batched < Batch

\* One turn of the batch loop: a packet is read ...
TxRead(k) ==
  /\ TxGoto("read", "check")
  /\ BatchRoom
  /\ reads < MaxReads
  /\ txPkt' = k
  /\ readWarm' = warm
  /\ batched' = batched + 1
  /\ reads' = reads + 1
  /\ TxOnly /\ UNCHANGED <<lateSends, plainDns>>

\* ... or the batch ends: utun has nothing more, fails, or the batch is full.
TxBatchEnd ==
  /\ TxGoto("read", "test")
  /\ TxOnly /\ UNCHANGED <<txPkt, readWarm, batched, reads, lateSends, plainDns>>

\* Seeded fault: the flag is not looked at between two packets of a batch.
StillBridgedUnchecked == TRUE

StillBridged == bridge

\* The flag is read again after every packet.
TxCheck ==
  /\ TxGoto("check", IF StillBridged THEN "dns" ELSE "test")
  /\ TxOnly /\ UNCHANGED <<txPkt, readWarm, batched, reads, lateSends, plainDns>>

\* is_dns_to_gateway: in an encrypted mode every query goes to the resolver.
\* Only a resolver that has ended makes the send fail, which is logged.
TxIntercept ==
  /\ txPc = "dns"
  /\ IF Encrypted /\ txPkt = "dns"
     THEN /\ Res!Divert(reads)
          /\ txPc' = "warm"
     ELSE /\ txPc' = "wrap"
          /\ UNCHANGED <<bridge, dnsPc, dnsChan, dnsBatch, warm>>
  /\ UNCHANGED <<io, txChan, enqueued, txPkts, deviceGone, plugged, dnsMode,
                 running, mainVars, txPkt, readWarm, batched, reads, lateSends,
                 plainDns, panicked>>

\* Seeded fault: a query is forwarded to the phone whatever the flag says.
SkipPlainNever == FALSE

\* Once an encrypted answer has arrived a query is not forwarded to the phone.
SkipPlain == warm

TxWarm ==
  /\ TxGoto("warm", IF SkipPlain THEN "read" ELSE "wrap")
  /\ TxOnly /\ UNCHANGED <<txPkt, readWarm, batched, reads, lateSends, plainDns>>

\* ip_to_eth with the current gateway address, then wrap_frame.
TxWrap ==
  /\ TxGoto("wrap", IF txPkt = "bad" THEN "read" ELSE "send")
  /\ TxOnly /\ UNCHANGED <<txPkt, readWarm, batched, reads, lateSends, plainDns>>

\* tx_sender.send blocks until the channel has room ...
TxSend ==
  /\ TxGoto("send", "read")
  /\ Put
  /\ lateSends' = lateSends + (IF bridge THEN 0 ELSE 1)
  /\ plainDns' = plainDns \cup
       (IF Encrypted /\ txPkt = "dns" THEN {readWarm} ELSE {})
  /\ UNCHANGED <<dnsMode, running, mainVars, dnsVars, dnsChan, warm, txPkt,
                 readWarm, batched, reads, panicked>>

\* Seeded fault: the receiver outlives the I/O thread.
ReceiverKept == FALSE

\* The receiving end of the channel is dropped with the I/O thread.
ReceiverDropped == io = "done"

\* ... and fails, which ends the batch, when the receiver is gone.
TxSendFails ==
  /\ TxGoto("send", "test")
  /\ ReceiverDropped
  /\ TxOnly /\ UNCHANGED <<txPkt, readWarm, batched, reads, lateSends, plainDns>>

TxThread ==
  \/ TxTest \/ TxPollTimeout \/ TxPollReady \/ TxRecheck
  \/ \E k \in PacketKinds : TxRead(k)
  \/ TxBatchEnd \/ TxCheck \/ TxIntercept \/ TxWarm \/ TxWrap
  \/ TxSend \/ TxSendFails

-----------------------------------------------------------------------------
(* The DNS resolver thread *)

DnsThread ==
  /\ Res!Resolver
  /\ UNCHANGED <<io, txChan, enqueued, txPkts, deviceGone, plugged, dnsMode,
                 running, panicked, mainVars, txVars>>

-----------------------------------------------------------------------------
(* The main thread *)

MainGoto(a, b) == mainPc = a /\ mainPc' = b

MainOnly ==
  UNCHANGED <<dnsMode, running, txVars, dnsVars, dnsChan, warm, panicked>>

\* while running.load() && running_bridge.load()
MainTest ==
  /\ MainGoto("test", IF running /\ bridge THEN "keepalive" ELSE "close")
  /\ MainOnly /\ UNCHANGED <<contractVars, keepalives, askedToStop, disconnected>>

\* Every 5 s an ARP frame, dropped when the channel has no room.
MainKeepalive ==
  /\ MainGoto("keepalive", "stats")
  /\ keepalives < MaxKeepalives
  /\ keepalives' = keepalives + 1
  /\ \/ Put
     \/ ~CanPut /\ UNCHANGED contractVars
  /\ MainOnly /\ UNCHANGED <<askedToStop, disconnected>>

\* The keepalive is not due.
MainNoKeepalive ==
  /\ MainGoto("keepalive", "stats")
  /\ MainOnly /\ UNCHANGED <<contractVars, keepalives, askedToStop, disconnected>>

\* Every 5 s the statistics, and a poll of the IPC socket that returns stop or
\* disable: the loop is left with running_bridge cleared.
MainStop ==
  /\ MainGoto("stats", "close")
  /\ Stop
  /\ askedToStop' = TRUE
  /\ MainOnly /\ UNCHANGED <<keepalives, disconnected>>

\* Not due, no IPC server, or a command that does not concern a session.
MainGoOn ==
  /\ MainGoto("stats", "test")
  /\ MainOnly /\ UNCHANGED <<contractVars, keepalives, askedToStop, disconnected>>

MainClose ==
  /\ MainGoto("close", "joinIo")
  /\ Stop
  /\ MainOnly /\ UNCHANGED <<keepalives, askedToStop, disconnected>>

\* The join finds out whether the I/O thread panicked: the device counts as gone.
MainJoinIo ==
  /\ MainGoto("joinIo", "joinTx")
  /\ io = "done"
  /\ deviceGone' = (deviceGone \/ panicked)
  /\ UNCHANGED <<io, txChan, enqueued, txPkts, bridge, plugged>>
  /\ MainOnly /\ UNCHANGED <<keepalives, askedToStop, disconnected>>

MainJoinTx ==
  /\ MainGoto("joinTx", "joinDns")
  /\ txPc = "done"
  /\ MainOnly /\ UNCHANGED <<contractVars, keepalives, askedToStop, disconnected>>

\* Seeded fault: the resolver is left running.
DnsJoinedDetached == TRUE

DnsJoined == dnsPc = "done"

\* The last join, and the load of device_gone.
MainJoinDns ==
  /\ MainGoto("joinDns", "ended")
  /\ DnsJoined
  /\ disconnected' = deviceGone
  /\ MainOnly /\ UNCHANGED <<contractVars, keepalives, askedToStop>>

MainThread ==
  \/ MainTest \/ MainKeepalive \/ MainNoKeepalive \/ MainStop \/ MainGoOn
  \/ MainClose \/ MainJoinIo \/ MainJoinTx \/ MainJoinDns

-----------------------------------------------------------------------------

\* The Ctrl-C handler
CtrlC ==
  /\ running
  /\ running' = FALSE
  /\ UNCHANGED <<contractVars, dnsMode, mainVars, txVars, dnsVars, dnsChan, warm,
                 panicked>>

\* The I/O thread panics (a build with overflow checks does on a message whose
\* data offset wraps, rndis.rs:304): it unwinds, the receiver is dropped, and
\* neither flag is stored.
IoPanic ==
  /\ io = "run"
  /\ io' = "done"
  /\ txChan' = <<>>
  /\ panicked' = TRUE
  /\ UNCHANGED <<enqueued, txPkts, bridge, deviceGone, plugged>>
  /\ UNCHANGED <<dnsMode, running, mainVars, txVars, dnsVars, dnsChan, warm>>

BridgeNext ==
  \/ Io /\ UNCHANGED sessVars
  \/ IoPanic
  \/ PullPlug /\ UNCHANGED sessVars
  \/ TxThread
  \/ DnsThread
  \/ MainThread
  \/ CtrlC

BridgeSpec == BridgeInit /\ [][BridgeNext]_vars

\* The I/O thread ends when it is stopped and when the phone is unplugged (the
\* properties StopEndsThread and UnplugEndsThread of UsbIo); it is not assumed
\* to send anything.  Every other thread is scheduled.  A batch
\* of queries ends: every connect, read and write of dns_proxy.rs has a timeout
\* (BatchEnds of DotPool).
BridgeFairness ==
  /\ WF_vars((Quit \/ QuitGone) /\ UNCHANGED sessVars)
  /\ WF_vars(~plugged /\ GiveUp /\ UNCHANGED sessVars)
  /\ WF_vars(TxThread)
  /\ WF_vars(DnsThread)
  /\ WF_vars(MainThread)

BridgeLiveSpec == BridgeSpec /\ BridgeFairness

-----------------------------------------------------------------------------
(* Properties *)

\* Every variable of the session has its type.
BridgeTypeOK ==
  /\ io \in {"run", "gone", "done"}
  /\ txChan \in Seq(1..MaxTx)
  /\ Len(txChan) <= TxCapacity
  /\ enqueued \in 0..MaxTx
  /\ txPkts \in 0..MaxTx
  /\ bridge \in BOOLEAN
  /\ deviceGone \in BOOLEAN
  /\ plugged \in BOOLEAN
  /\ dnsMode \in DnsModes
  /\ running \in BOOLEAN
  /\ mainPc \in MainPcs
  /\ keepalives \in 0..MaxKeepalives
  /\ askedToStop \in BOOLEAN
  /\ disconnected \in BOOLEAN
  /\ txPc \in TxPcs
  /\ txPkt \in PacketKinds
  /\ readWarm \in BOOLEAN
  /\ batched \in 0..Batch
  /\ reads \in 0..MaxReads
  /\ lateSends \in Nat
  /\ plainDns \subseteq BOOLEAN
  /\ dnsPc \in Res!DnsPcs
  /\ dnsChan \in Seq(1..MaxReads)
  /\ dnsBatch \subseteq 1..MaxReads
  /\ warm \in BOOLEAN
  /\ panicked \in BOOLEAN

\* When run_session starts restoring the network (main.rs:595) no thread of the
\* session is left that could still write to utun or send to the phone.
NoThreadOutlivesSession ==
  mainPc = "ended" =>
    io = "done" /\ txPc = "done" /\ dnsPc = "done" /\ dnsBatch = {}

\* The types, and the end of the threads before the restoring (main.rs:583-595).
BridgeInv == BridgeTypeOK /\ NoThreadOutlivesSession

\* Stopping the bridge stops the traffic: of the batch the TX thread is in
\* (main.rs:436), at most the packet it has already checked (main.rs:442)
\* still enters the channel.
AtMostOneLateSend == lateSends <= 1

\* Once an encrypted answer has been seen no query read after it leaves in the
\* clear (main.rs:456), however the resolver's workers and the TX thread
\* interleave.
NoPlainDnsOnceWarm == TRUE \notin plainDns

\* A session that nobody asked to stop ends as a disconnection, which is what
\* makes watch mode wait for the phone (main.rs:593, 703).
UnaskedEndIsDisconnect ==
  mainPc = "ended" /\ running /\ ~askedToStop => disconnected

\* Ctrl-C, an IPC stop and an unplugged phone each end the session: no thread
\* waits for another for ever, in particular the TX thread does not stay
\* blocked on a full channel (main.rs:483, 583-591).  Only a panic of the I/O
\* thread hides the unplugging: nobody looks at its handle before the loop at
\* main.rs:496 ends for another reason.
SessionEnds ==
  ~running \/ ~bridge \/ ~plugged
    ~> mainPc = "ended" \/ (panicked /\ running /\ bridge)

\* Every query the TX thread is about to divert (main.rs:453) is taken by the
\* resolver, in whatever state it is then, unless the session is stopped first:
\* none is sent to a channel nobody reads (main.rs:316-368).
QueriesAreTaken ==
  \A q \in 1..MaxReads :
    txPc = "dns" /\ txPkt = "dns" /\ Encrypted /\ reads = q
      ~> q \in dnsBatch \/ ~bridge
=============================================================================
