---------------------------- MODULE BridgeProofs ----------------------------
(***************************************************************************)
(* Proofs about Bridge, for every capacity of the channel, batch size, set *)
(* of DNS modes and number of packets.                                     *)
(*                                                                         *)
(* SessionInv is the inductive invariant.  Its parts say what the threads  *)
(* know of each other at each of their positions: which threads the main   *)
(* thread has joined, what the TX thread has checked of the packet in its  *)
(* hands, and why the bridge was stopped.                                  *)
(***************************************************************************)
EXTENDS Bridge, SequenceTheorems, TLAPS

\* The groups of variables an UNCHANGED may name.
USE DEF contractVars, mainVars, txVars, dnsVars, sessVars

\* Packets taken from the channel and packets in it have entered it, and a
\* packet in hand has been read.
CountInv ==
  /\ txPkts + Len(txChan) <= enqueued
  /\ txPc \in {"check", "dns", "warm", "wrap", "send"} => reads > 0

\* The main thread is behind a join only when the thread has ended, and the
\* resolver has a batch only while it works on it.
JoinInv ==
  /\ mainPc \in {"joinTx", "joinDns", "ended"} => io = "done"
  /\ mainPc \in {"joinDns", "ended"} => txPc = "done"
  /\ mainPc = "ended" => dnsPc = "done"
  /\ dnsPc # "resolve" => dnsBatch = {}

\* The TX thread has checked the flag for the packet in its hands.
Checked == txPc \in {"dns", "warm", "wrap", "send"}

\* No packet was sent late while one is checked: the late one is that one.
LateInv ==
  /\ lateSends <= 1
  /\ bridge \/ Checked => lateSends = 0

\* The flag is never cleared, and a query on its way to the phone was read
\* before it was set.
PlainInv ==
  /\ readWarm => warm
  /\ txPc \in {"wrap", "send"} /\ Encrypted /\ txPkt = "dns" => ~readWarm
  /\ TRUE \notin plainDns

\* Before the main thread stops the bridge itself only the loss of the device
\* or a command has stopped it; from there on it knows.
EndInv ==
  /\ io = "gone" => deviceGone
  /\ mainPc \in {"test", "keepalive", "stats", "close"} /\ ~askedToStop /\ ~bridge
       => deviceGone
  /\ mainPc = "close" /\ running /\ ~askedToStop => ~bridge
  /\ mainPc \in {"joinIo", "joinTx", "joinDns"} /\ running /\ ~askedToStop
       => deviceGone
  /\ UnaskedEndIsDisconnect

SessionInv ==
  BridgeTypeOK /\ CountInv /\ JoinInv /\ LateInv /\ PlainInv /\ EndInv

-----------------------------------------------------------------------------
(* The types, thread by thread *)

ContractTypes ==
  /\ io \in {"run", "gone", "done"}
  /\ txChan \in Seq(1..MaxTx)
  /\ Len(txChan) <= TxCapacity
  /\ enqueued \in 0..MaxTx
  /\ txPkts \in 0..MaxTx
  /\ bridge \in BOOLEAN
  /\ deviceGone \in BOOLEAN
  /\ plugged \in BOOLEAN

MainTypes ==
  /\ mainPc \in MainPcs
  /\ keepalives \in 0..MaxKeepalives
  /\ askedToStop \in BOOLEAN
  /\ disconnected \in BOOLEAN

TxTypes ==
  /\ txPc \in TxPcs
  /\ txPkt \in PacketKinds
  /\ readWarm \in BOOLEAN
  /\ batched \in 0..Batch
  /\ reads \in 0..MaxReads
  /\ lateSends \in Nat
  /\ plainDns \subseteq BOOLEAN

DnsTypes ==
  /\ dnsPc \in Res!DnsPcs
  /\ dnsChan \in Seq(1..MaxReads)
  /\ dnsBatch \subseteq 1..MaxReads
  /\ warm \in BOOLEAN

\* The types of the session are those of its threads and what never belongs to one.
LEMMA TypesByThread ==
  BridgeTypeOK <=>
    /\ ContractTypes /\ MainTypes /\ TxTypes /\ DnsTypes
    /\ dnsMode \in DnsModes /\ running \in BOOLEAN /\ panicked \in BOOLEAN
BY DEF BridgeTypeOK, ContractTypes, MainTypes, TxTypes, DnsTypes

-----------------------------------------------------------------------------
(* The initial states *)

\* run_session starts the threads in SessionInv (main.rs:274-490).
LEMMA InitSession == BridgeInit => SessionInv
<1> SUFFICES ASSUME BridgeInit PROVE SessionInv
  OBVIOUS
<1> USE BridgeAssumption DEF BridgeInit, ContractInit
<1>1. BridgeTypeOK
  <2>1. <<>> \in Seq(1..MaxTx) /\ <<>> \in Seq(1..MaxReads) /\ Len(<<>>) = 0
    OBVIOUS
  <2>b. /\ bridge \in BOOLEAN /\ deviceGone \in BOOLEAN /\ plugged \in BOOLEAN
        /\ askedToStop \in BOOLEAN /\ disconnected \in BOOLEAN
        /\ readWarm \in BOOLEAN /\ warm \in BOOLEAN
    OBVIOUS
  <2>2. ContractTypes
    BY <2>1, <2>b DEF ContractTypes
  <2>3. MainTypes /\ TxTypes
    BY <2>b DEF MainTypes, TxTypes, MainPcs, TxPcs, PacketKinds
  <2>4. DnsTypes
    BY <2>1, <2>b DEF DnsTypes, Res!DnsPcs
  <2>5. dnsMode \in DnsModes /\ running \in BOOLEAN /\ panicked \in BOOLEAN
    OBVIOUS
  <2> QED
    BY <2>2, <2>3, <2>4, <2>5, TypesByThread
<1>2. CountInv /\ JoinInv /\ LateInv /\ PlainInv /\ EndInv
  BY DEF CountInv, JoinInv, LateInv, Checked, PlainInv, EndInv,
         UnaskedEndIsDisconnect
<1> QED
  BY <1>1, <1>2 DEF SessionInv

-----------------------------------------------------------------------------
(* The types and the counts *)

\* What a packet put into the channel does to it.
LEMMA PutTypes ==
  ASSUME ContractTypes, CountInv, Put
  PROVE  /\ txChan' \in Seq(1..MaxTx)
         /\ Len(txChan') = Len(txChan) + 1
         /\ Len(txChan') <= TxCapacity
         /\ enqueued' \in 0..MaxTx
         /\ enqueued' = enqueued + 1
<1>1. txChan \in Seq(1..MaxTx) /\ enqueued \in 0..MaxTx /\ enqueued < MaxTx
      /\ txChan' = Append(txChan, enqueued + 1) /\ enqueued' = enqueued + 1
  BY DEF ContractTypes, Put
<1>2. enqueued + 1 \in 1..MaxTx
  BY <1>1, BridgeAssumption
<1>3. Len(txChan) < TxCapacity
  BY DEF Put, CanPut
<1> QED
  BY <1>1, <1>2, <1>3, AppendProperties, LenProperties, BridgeAssumption

\* What a packet taken from the channel does to it.
LEMMA TakeTypes ==
  ASSUME ContractTypes, CountInv, Take
  PROVE  /\ txChan' \in Seq(1..MaxTx)
         /\ Len(txChan') = Len(txChan) - 1
         /\ txPkts' \in 0..MaxTx
         /\ txPkts' + Len(txChan') <= enqueued
<1>1. txChan \in Seq(1..MaxTx) /\ txChan # <<>> /\ txPkts \in 0..MaxTx
      /\ txChan' = Tail(txChan) /\ txPkts' = txPkts + 1
      /\ enqueued \in 0..MaxTx /\ txPkts + Len(txChan) <= enqueued
  BY DEF ContractTypes, Take, CountInv
<1>2. Len(txChan) \in Nat /\ Len(txChan) > 0
  BY <1>1, LenProperties, EmptySeq
<1>3. txChan' \in Seq(1..MaxTx) /\ Len(txChan') = Len(txChan) - 1
  BY <1>1, HeadTailProperties
<1> QED
  BY <1>1, <1>2, <1>3, BridgeAssumption

\* The elements of a channel of queries are queries.
LEMMA BatchTypes ==
  ASSUME NEW s \in Seq(1..MaxReads)
  PROVE  {s[i] : i \in DOMAIN s} \subseteq 1..MaxReads
<1>1. \A i \in DOMAIN s : s[i] \in 1..MaxReads
  BY ElementOfSeq, LenProperties
<1> QED
  BY <1>1

\* What the channel and the flags are when the I/O thread has moved or the bridge
\* was stopped.
LEMMA IoTypes ==
  ASSUME ContractTypes, CountInv,
         \/ Io \/ IoPanic \/ PullPlug \/ Stop
  PROVE  /\ ContractTypes'
         /\ txPkts' + Len(txChan') <= enqueued'
<1>e. <<>> \in Seq(1..MaxTx) /\ Len(<<>>) = 0
  OBVIOUS
<1>c. txPkts \in Nat /\ enqueued \in Nat /\ Len(txChan) \in Nat
      /\ txPkts + Len(txChan) <= enqueued
  BY BridgeAssumption, LenProperties DEF ContractTypes, CountInv
<1>1. CASE Take
  <2>1. UNCHANGED <<io, enqueued>>
    BY <1>1 DEF Take
  <2>2. bridge' \in BOOLEAN /\ deviceGone' \in BOOLEAN /\ plugged' \in BOOLEAN
    BY <1>1 DEF Take, ContractTypes
  <2>3. /\ txChan' \in Seq(1..MaxTx)
        /\ Len(txChan') = Len(txChan) - 1
        /\ txPkts' \in 0..MaxTx
        /\ txPkts' + Len(txChan') <= enqueued
    BY <1>1, TakeTypes
  <2>4. Len(txChan') <= TxCapacity
    BY <1>c, <2>3, BridgeAssumption DEF ContractTypes
  <2> QED
    BY <2>1, <2>2, <2>3, <2>4 DEF ContractTypes
<1>2. ASSUME io' = "done", txChan' = <<>>, UNCHANGED <<enqueued, txPkts, plugged>>,
             bridge' \in BOOLEAN, UNCHANGED deviceGone
      PROVE  ContractTypes' /\ txPkts' + Len(txChan') <= enqueued'
  BY <1>2, <1>e, <1>c, BridgeAssumption DEF ContractTypes
<1>3. CASE Quit \/ IoPanic
  BY <1>2, <1>3 DEF Quit, IoPanic, ContractTypes
<1>4. CASE QuitGone
  BY <1>2, <1>4 DEF QuitGone
<1>5. ASSUME io' \in {"run", "gone", "done"},
             UNCHANGED <<txChan, enqueued, txPkts>>,
             bridge' \in BOOLEAN, deviceGone' \in BOOLEAN, plugged' \in BOOLEAN
      PROVE  ContractTypes' /\ txPkts' + Len(txChan') <= enqueued'
  BY <1>5, <1>c DEF ContractTypes
<1>6. CASE GiveUp
  <2>1. bridge' \in BOOLEAN /\ deviceGone' \in BOOLEAN /\ plugged' \in BOOLEAN
    BY <1>6 DEF GiveUp, GoneFlag, ContractTypes
  <2> QED
    BY <1>5, <1>6, <2>1 DEF GiveUp
<1>7. CASE PullPlug
  <2>1. bridge' \in BOOLEAN /\ deviceGone' \in BOOLEAN /\ plugged' \in BOOLEAN
    BY <1>7 DEF PullPlug, ContractTypes
  <2> QED
    BY <1>5, <1>7, <2>1 DEF PullPlug, ContractTypes
<1>8. CASE Stop
  <2>1. bridge' \in BOOLEAN /\ deviceGone' \in BOOLEAN /\ plugged' \in BOOLEAN
    BY <1>8 DEF Stop, ContractTypes
  <2> QED
    BY <1>5, <1>8, <2>1 DEF Stop, ContractTypes
<1> QED
  BY <1>1, <1>3, <1>4, <1>6, <1>7, <1>8 DEF Io

\* What the TX thread's own variables are when it has moved.
LEMMA TxTypesStep ==
  ASSUME TxTypes, warm \in BOOLEAN, CountInv, TxThread
  PROVE  /\ TxTypes'
         /\ txPc' \in {"check", "dns", "warm", "wrap", "send"} => reads' > 0
<1> USE BridgeAssumption DEF TxTypes, TxPcs, TxGoto, CountInv
<1>1. CASE TxTest \/ TxPollTimeout \/ TxPollReady \/ TxBatchEnd
  BY <1>1 DEF TxTest, TxPollTimeout, TxPollReady, TxBatchEnd
<1>2. CASE TxRecheck
  BY <1>2 DEF TxRecheck
<1>3. CASE \E k \in PacketKinds : TxRead(k)
  BY <1>3 DEF TxRead, BatchRoom
<1>4. CASE TxCheck \/ TxWarm \/ TxWrap \/ TxSendFails
  BY <1>4 DEF TxCheck, TxWarm, TxWrap, TxSendFails
<1>5. CASE TxIntercept
  BY <1>5 DEF TxIntercept
<1>6. CASE TxSend
  BY <1>6 DEF TxSend
<1> QED
  BY <1>1, <1>2, <1>3, <1>4, <1>5, <1>6 DEF TxThread

\* What the resolver's variables are when it has moved.
LEMMA DnsTypesStep ==
  ASSUME DnsTypes, Res!Resolver
  PROVE  DnsTypes' /\ UNCHANGED bridge
<1> USE DEF DnsTypes, Res!DnsPcs
<1>1. CASE Res!DnsTest \/ Res!DnsTimeout
  BY <1>1 DEF Res!DnsTest, Res!DnsTimeout, Res!AfterIdle
<1>2. CASE Res!DnsTake
  BY <1>2, BatchTypes DEF Res!DnsTake
<1>3. CASE \E q \in dnsBatch : Res!DnsAnswer(q)
  BY <1>3 DEF Res!DnsAnswer
<1>4. CASE Res!DnsBatchEnd
  BY <1>4 DEF Res!DnsBatchEnd
<1> QED
  BY <1>1, <1>2, <1>3, <1>4 DEF Res!Resolver

\* What the main thread's own variables are when it has moved.
LEMMA MainTypesStep ==
  ASSUME MainTypes, deviceGone \in BOOLEAN, MainThread
  PROVE  MainTypes'
<1> USE BridgeAssumption DEF MainTypes, MainPcs, MainGoto
<1>1. CASE MainTest \/ MainNoKeepalive \/ MainGoOn \/ MainClose \/ MainJoinTx
  BY <1>1 DEF MainTest, MainNoKeepalive, MainGoOn, MainClose, MainJoinTx
<1>2. CASE MainStop
  BY <1>2 DEF MainStop
<1>3. CASE MainKeepalive
  BY <1>3 DEF MainKeepalive
<1>4. CASE MainJoinIo
  BY <1>4 DEF MainJoinIo
<1>5. CASE MainJoinDns
  BY <1>5 DEF MainJoinDns
<1> QED
  BY <1>1, <1>2, <1>3, <1>4, <1>5 DEF MainThread

\* Every step of the session keeps the types and the counts.
LEMMA TypesStep ==
  BridgeTypeOK /\ CountInv /\ [BridgeNext]_vars => (BridgeTypeOK /\ CountInv)'
<1> SUFFICES ASSUME BridgeTypeOK, CountInv, [BridgeNext]_vars
             PROVE  BridgeTypeOK' /\ CountInv'
  OBVIOUS
<1>t. /\ ContractTypes /\ MainTypes /\ TxTypes /\ DnsTypes
      /\ dnsMode \in DnsModes /\ running \in BOOLEAN /\ panicked \in BOOLEAN
  BY TypesByThread
<1>q. ASSUME ContractTypes', MainTypes', TxTypes', DnsTypes',
             dnsMode' \in DnsModes, running' \in BOOLEAN, panicked' \in BOOLEAN
      PROVE  BridgeTypeOK'
  BY <1>q DEF BridgeTypeOK, ContractTypes, MainTypes, TxTypes, DnsTypes
<1>f. warm \in BOOLEAN /\ deviceGone \in BOOLEAN
  BY <1>t DEF DnsTypes, ContractTypes
<1>c. /\ txPkts \in Nat /\ enqueued \in Nat /\ Len(txChan) \in Nat
      /\ txPkts + Len(txChan) <= enqueued
  BY <1>t, BridgeAssumption, LenProperties DEF ContractTypes, CountInv
<1>k. ASSUME UNCHANGED contractVars
      PROVE  ContractTypes' /\ txPkts' + Len(txChan') <= enqueued'
  BY <1>k, <1>t DEF ContractTypes, CountInv
<1>p. ASSUME Put
      PROVE  ContractTypes' /\ txPkts' + Len(txChan') <= enqueued'
  <2>1. /\ txChan' \in Seq(1..MaxTx)
        /\ Len(txChan') = Len(txChan) + 1
        /\ Len(txChan') <= TxCapacity
        /\ enqueued' \in 0..MaxTx
        /\ enqueued' = enqueued + 1
    BY <1>t, <1>p, PutTypes
  <2>2. UNCHANGED <<io, txPkts, bridge, deviceGone, plugged>>
    BY <1>p DEF Put
  <2> QED
    BY <2>1, <2>2, <1>t, <1>c DEF ContractTypes
<1>r. UNCHANGED <<txPc, reads>> => (txPc' \in {"check", "dns", "warm", "wrap",
                                               "send"} => reads' > 0)
  BY DEF CountInv
<1>1. CASE /\ Io \/ PullPlug
           /\ UNCHANGED sessVars
  <2>1. ContractTypes' /\ txPkts' + Len(txChan') <= enqueued'
    BY <1>1, <1>t, IoTypes
  <2>2. MainTypes' /\ TxTypes' /\ dnsMode' = dnsMode /\ running' = running
        /\ panicked' = panicked
    BY <1>1, <1>t DEF MainTypes, TxTypes
  <2>3. DnsTypes'
    BY <1>1, <1>t DEF DnsTypes
  <2> QED
    BY <1>1, <2>1, <2>2, <2>3, <1>t, <1>q, <1>r DEF CountInv
<1>2. CASE IoPanic
  <2>1. ContractTypes' /\ txPkts' + Len(txChan') <= enqueued'
    BY <1>2, <1>t, IoTypes
  <2>2. MainTypes' /\ TxTypes' /\ dnsMode' = dnsMode /\ running' = running
    BY <1>2, <1>t DEF IoPanic, MainTypes, TxTypes
  <2>3. DnsTypes'
    BY <1>2, <1>t DEF IoPanic, DnsTypes
  <2>4. panicked' \in BOOLEAN
    BY <1>2 DEF IoPanic
  <2>5. UNCHANGED <<txPc, reads>>
    BY <1>2 DEF IoPanic
  <2> QED
    BY <2>1, <2>2, <2>3, <2>4, <2>5, <1>t, <1>q, <1>r DEF CountInv
<1>3. CASE TxThread
  <2>1. /\ TxTypes'
        /\ txPc' \in {"check", "dns", "warm", "wrap", "send"} => reads' > 0
    BY <1>3, <1>t, <1>f, TxTypesStep
  <2>2. UNCHANGED <<dnsMode, running, panicked, mainVars>>
    BY <1>3 DEF TxThread, TxTest, TxPollTimeout, TxPollReady, TxRecheck, TxRead,
                TxBatchEnd, TxCheck, TxIntercept, TxWarm, TxWrap, TxSend,
                TxSendFails, TxOnly
  <2>3. ContractTypes' /\ txPkts' + Len(txChan') <= enqueued'
    <3>1. CASE TxSend
      BY <3>1, <1>p DEF TxSend
    <3>2. CASE ~TxSend
      <4>1. UNCHANGED contractVars
        BY <1>3, <3>2 DEF TxThread, TxTest, TxPollTimeout, TxPollReady,
              TxRecheck, TxRead, TxBatchEnd, TxCheck, TxIntercept, TxWarm,
              TxWrap, TxSendFails, TxOnly, Res!Divert
      <4> QED
        BY <4>1, <1>k
    <3> QED
      BY <3>1, <3>2
  <2>4. DnsTypes'
    <3>1. CASE TxIntercept
      <4>1. CASE UNCHANGED <<dnsPc, dnsChan, dnsBatch, warm>>
        BY <4>1, <1>t DEF DnsTypes
      <4>2. CASE Res!Divert(reads)
        <5>1. reads \in 1..MaxReads
          BY <3>1, <1>t, BridgeAssumption DEF TxIntercept, CountInv, TxTypes
        <5>2. dnsChan \in Seq(1..MaxReads)
          BY <1>t DEF DnsTypes
        <5>3. Append(dnsChan, reads) \in Seq(1..MaxReads)
          BY <5>1, <5>2, AppendProperties
        <5>4. dnsChan' \in Seq(1..MaxReads)
          BY <4>2, <5>2, <5>3 DEF Res!Divert
        <5>5. UNCHANGED <<dnsPc, dnsBatch, warm>>
          BY <4>2 DEF Res!Divert
        <5> QED
          BY <5>4, <5>5, <1>t DEF DnsTypes
      <4> QED
        BY <3>1, <4>1, <4>2 DEF TxIntercept
    <3>2. CASE ~TxIntercept
      <4>1. UNCHANGED <<dnsPc, dnsChan, dnsBatch, warm>>
        BY <1>3, <3>2 DEF TxThread, TxTest, TxPollTimeout, TxPollReady,
              TxRecheck, TxRead, TxBatchEnd, TxCheck, TxWarm, TxWrap, TxSend,
              TxSendFails, TxOnly
      <4> QED
        BY <4>1, <1>t DEF DnsTypes
    <3> QED
      BY <3>1, <3>2
  <2>5. MainTypes'
    BY <2>2, <1>t DEF MainTypes
  <2> QED
    BY <2>1, <2>2, <2>3, <2>4, <2>5, <1>t, <1>q DEF CountInv
<1>4. CASE DnsThread
  <2>1. DnsTypes' /\ UNCHANGED bridge
    BY <1>4, <1>t, DnsTypesStep DEF DnsThread
  <2>2. UNCHANGED <<io, txChan, enqueued, txPkts, deviceGone, plugged, dnsMode,
                    running, panicked, mainVars, txVars>>
    BY <1>4 DEF DnsThread
  <2>3. ContractTypes' /\ txPkts' + Len(txChan') <= enqueued'
    BY <2>1, <2>2, <1>k
  <2>4. MainTypes' /\ TxTypes'
    BY <2>2, <1>t DEF MainTypes, TxTypes
  <2> QED
    BY <2>1, <2>2, <2>3, <2>4, <1>t, <1>q, <1>r DEF CountInv
<1>5. CASE MainThread
  <2>1. MainTypes'
    BY <1>5, <1>t, <1>f, MainTypesStep
  <2>2. MainOnly
    BY <1>5 DEF MainThread, MainTest, MainKeepalive, MainNoKeepalive, MainStop,
                MainGoOn, MainClose, MainJoinIo, MainJoinTx, MainJoinDns
  <2>3. TxTypes' /\ dnsMode' = dnsMode /\ running' = running
        /\ panicked' = panicked /\ UNCHANGED <<txPc, reads>>
    BY <2>2, <1>t DEF MainOnly, TxTypes
  <2>4. DnsTypes'
    BY <2>2, <1>t DEF MainOnly, DnsTypes
  <2>5. ContractTypes' /\ txPkts' + Len(txChan') <= enqueued'
    <3>1. CASE UNCHANGED contractVars
      BY <3>1, <1>k
    <3>2. CASE Put
      BY <3>2, <1>p
    <3>3. CASE Stop
      BY <3>3, <1>t, IoTypes
    <3>4. CASE MainJoinIo
      <4>1. deviceGone' \in BOOLEAN
        BY <3>4 DEF MainJoinIo
      <4>2. UNCHANGED <<io, txChan, enqueued, txPkts, bridge, plugged>>
        BY <3>4 DEF MainJoinIo
      <4> QED
        BY <4>1, <4>2, <1>t, <1>c DEF ContractTypes
    <3> QED
      BY <1>5, <3>1, <3>2, <3>3, <3>4 DEF MainThread, MainTest, MainKeepalive,
           MainNoKeepalive, MainStop, MainGoOn, MainClose, MainJoinTx,
           MainJoinDns
  <2> QED
    BY <2>1, <2>3, <2>4, <2>5, <1>t, <1>q, <1>r DEF CountInv
<1>6. CASE CtrlC
  <2>1. UNCHANGED <<contractVars, dnsMode, mainVars, txVars, dnsVars, dnsChan,
                    warm, panicked>>
    BY <1>6 DEF CtrlC
  <2>2. running' \in BOOLEAN
    BY <1>6 DEF CtrlC
  <2>3. ContractTypes' /\ txPkts' + Len(txChan') <= enqueued'
    BY <2>1, <1>k
  <2>4. MainTypes' /\ TxTypes'
    BY <2>1, <1>t DEF MainTypes, TxTypes
  <2>5. DnsTypes'
    BY <2>1, <1>t DEF DnsTypes
  <2> QED
    BY <2>1, <2>2, <2>3, <2>4, <2>5, <1>t, <1>q, <1>r DEF CountInv
<1>7. CASE UNCHANGED vars
  BY <1>7 DEF vars, BridgeTypeOK, CountInv
<1> QED
  BY <1>1, <1>2, <1>3, <1>4, <1>5, <1>6, <1>7 DEF BridgeNext

-----------------------------------------------------------------------------
(* What the threads know of each other *)

\* A thread that has ended stays ended and the main thread joins the threads one
\* after the other (main.rs:583-591); the resolver leaves a batch only when it is
\* over.
LEMMA JoinStep == JoinInv /\ [BridgeNext]_vars => JoinInv'
<1> SUFFICES ASSUME JoinInv, [BridgeNext]_vars PROVE JoinInv'
  OBVIOUS
<1> USE DEF JoinInv
<1>1. CASE \/ Io /\ UNCHANGED sessVars
           \/ PullPlug /\ UNCHANGED sessVars
           \/ IoPanic
           \/ CtrlC
  BY <1>1 DEF Io, Take, Quit, GiveUp, QuitGone, PullPlug, IoPanic, CtrlC
<1>2. CASE TxThread
  <2>1. txPc # "done" /\ UNCHANGED <<io, mainPc, dnsPc, dnsBatch>>
    BY <1>2 DEF TxThread, TxTest, TxPollTimeout, TxPollReady, TxRecheck, TxRead,
                TxBatchEnd, TxCheck, TxIntercept, Res!Divert, TxWarm, TxWrap,
                TxSend, Put, TxSendFails, TxOnly, TxGoto
  <2> QED
    BY <2>1
<1>3. CASE DnsThread
  <2>1. /\ dnsPc # "done"
        /\ UNCHANGED <<io, mainPc, txPc>>
        /\ dnsPc' # "resolve" => dnsBatch' = {}
    BY <1>3 DEF DnsThread, Res!Resolver, Res!DnsTest, Res!DnsTake, Res!DnsTimeout,
                Res!DnsAnswer, Res!DnsBatchEnd
  <2> QED
    BY <2>1
<1>4. CASE MainThread
  <2>1. UNCHANGED <<io, txPc, dnsPc, dnsBatch>>
    BY <1>4 DEF MainThread, MainTest, MainKeepalive, MainNoKeepalive, MainStop,
                MainGoOn, MainClose, MainJoinIo, MainJoinTx, MainJoinDns,
                MainOnly, Put, Stop
  <2>2. /\ mainPc' = "joinTx" => io = "done"
        /\ mainPc' = "joinDns" => io = "done" /\ txPc = "done"
        /\ mainPc' = "ended" => io = "done" /\ txPc = "done" /\ dnsPc = "done"
    BY <1>4 DEF MainThread, MainTest, MainKeepalive, MainNoKeepalive, MainStop,
                MainGoOn, MainClose, MainJoinIo, MainJoinTx, MainJoinDns,
                MainGoto, DnsJoined
  <2> QED
    BY <2>1, <2>2
<1>5. CASE UNCHANGED vars
  BY <1>5 DEF vars
<1> QED
  BY <1>1, <1>2, <1>3, <1>4, <1>5 DEF BridgeNext

\* The TX thread goes on with a packet only when it finds the flag set
\* (main.rs:442), and the flag is never set again: at most one packet is in
\* its hands when the flag is cleared.
LEMMA LateStep ==
  BridgeTypeOK /\ LateInv /\ [BridgeNext]_vars => LateInv'
<1> SUFFICES ASSUME BridgeTypeOK, LateInv, [BridgeNext]_vars PROVE LateInv'
  OBVIOUS
<1> USE DEF LateInv, Checked
<1>t. lateSends \in Nat /\ bridge \in BOOLEAN
  BY DEF BridgeTypeOK
<1>b. bridge' => bridge
  BY DEF BridgeNext, Io, Take, Quit, GiveUp, QuitGone, sessVars, IoPanic,
         PullPlug, TxThread, TxTest, TxPollTimeout, TxPollReady, TxRecheck,
         TxRead, TxBatchEnd, TxCheck, TxIntercept, Res!Divert, TxWarm, TxWrap,
         TxSend, Put, TxSendFails, TxOnly, DnsThread, Res!Resolver, Res!DnsTest,
         Res!DnsTake, Res!DnsTimeout, Res!DnsAnswer, Res!DnsBatchEnd, MainThread,
         MainTest, MainKeepalive, MainNoKeepalive, MainStop, MainGoOn, MainClose,
         MainJoinIo, MainJoinTx, MainJoinDns, Stop, CtrlC, vars
<1>1. ASSUME UNCHANGED <<txPc, lateSends>>
      PROVE  LateInv'
  BY <1>1, <1>b
<1>2. CASE \/ Io /\ UNCHANGED sessVars
           \/ PullPlug /\ UNCHANGED sessVars
           \/ IoPanic
           \/ CtrlC
           \/ DnsThread
           \/ UNCHANGED vars
  BY <1>1, <1>2 DEF IoPanic, CtrlC, DnsThread, vars
<1>3. CASE MainThread
  BY <1>1, <1>3 DEF MainThread, MainTest, MainKeepalive, MainNoKeepalive,
                    MainStop, MainGoOn, MainClose, MainJoinIo, MainJoinTx,
                    MainJoinDns, MainOnly
<1>4. CASE TxThread
  <2>1. CASE TxSend
    <3>1. /\ lateSends = 0
          /\ txPc' = "read"
          /\ bridge' = bridge
          /\ lateSends' = lateSends + (IF bridge THEN 0 ELSE 1)
      BY <2>1 DEF TxSend, TxGoto, Put
    <3> QED
      BY <3>1, <1>t
  <2>2. CASE TxCheck
    <3>1. lateSends' = lateSends /\ ((txPc' = "dns" /\ bridge) \/ txPc' = "test")
      BY <2>2 DEF TxCheck, TxGoto, StillBridged
    <3> QED
      BY <3>1, <1>b
  <2>3. CASE \/ TxTest \/ TxPollTimeout \/ TxPollReady \/ TxRecheck \/ TxBatchEnd
             \/ \E k \in PacketKinds : TxRead(k)
    BY <2>3, <1>b DEF TxTest, TxPollTimeout, TxPollReady, TxRecheck, TxBatchEnd,
                      TxRead, TxGoto
  <2>4. CASE TxIntercept \/ TxWarm \/ TxWrap \/ TxSendFails
    BY <2>4, <1>b DEF TxIntercept, TxWarm, TxWrap, TxSendFails, TxGoto
  <2> QED
    BY <1>4, <2>1, <2>2, <2>3, <2>4 DEF TxThread
<1> QED
  BY <1>2, <1>3, <1>4 DEF BridgeNext

\* warm is only ever set, and the TX thread lets a query through to the phone
\* only when it finds it clear after having read the query (main.rs:456).
LEMMA PlainStep ==
  BridgeTypeOK /\ PlainInv /\ [BridgeNext]_vars => PlainInv'
<1> SUFFICES ASSUME BridgeTypeOK, PlainInv, [BridgeNext]_vars PROVE PlainInv'
  OBVIOUS
<1> USE DEF PlainInv, Encrypted
<1>t. warm \in BOOLEAN /\ readWarm \in BOOLEAN /\ plainDns \subseteq BOOLEAN
  BY DEF BridgeTypeOK
<1>1. ASSUME UNCHANGED <<dnsMode, txVars>>, warm => warm'
      PROVE  PlainInv'
  BY <1>1
<1>2. CASE \/ Io /\ UNCHANGED sessVars
           \/ PullPlug /\ UNCHANGED sessVars
           \/ IoPanic
           \/ CtrlC
           \/ UNCHANGED vars
  BY <1>1, <1>2 DEF IoPanic, CtrlC, vars
<1>3. CASE DnsThread
  <2>1. warm => warm'
    BY <1>3 DEF DnsThread, Res!Resolver, Res!DnsTest, Res!DnsTake,
                Res!DnsTimeout, Res!DnsAnswer, Res!DnsBatchEnd
  <2> QED
    BY <1>1, <1>3, <2>1 DEF DnsThread
<1>4. CASE MainThread
  BY <1>1, <1>4 DEF MainThread, MainTest, MainKeepalive, MainNoKeepalive,
                    MainStop, MainGoOn, MainClose, MainJoinIo, MainJoinTx,
                    MainJoinDns, MainOnly
<1>5. CASE TxThread
  <2>1. CASE TxTest \/ TxPollTimeout \/ TxPollReady \/ TxRecheck \/ TxBatchEnd
             \/ TxCheck \/ TxSendFails
    <3>1. /\ UNCHANGED <<dnsMode, readWarm, plainDns, warm>>
          /\ txPc' \notin {"wrap", "send"}
      BY <2>1 DEF TxTest, TxPollTimeout, TxPollReady, TxRecheck, TxBatchEnd,
                  TxCheck, TxSendFails, TxGoto, TxOnly
    <3> QED
      BY <3>1
  <2>2. CASE \E k \in PacketKinds : TxRead(k)
    <3>1. /\ readWarm' = warm
          /\ UNCHANGED <<plainDns, warm>>
          /\ txPc' = "check"
      BY <2>2 DEF TxRead, TxGoto, TxOnly
    <3>2. readWarm' => warm'
      BY <3>1
    <3> QED
      BY <3>1, <3>2
  <2>3. CASE TxIntercept
    <3>1. /\ UNCHANGED <<dnsMode, txPkt, readWarm, plainDns, warm>>
          /\ txPc' = "wrap" => ~(dnsMode # "system" /\ txPkt = "dns")
          /\ txPc' # "send"
      BY <2>3 DEF TxIntercept, Res!Divert
    <3> QED
      BY <3>1
  <2>4. CASE TxWarm
    <3>1. /\ UNCHANGED <<dnsMode, txPkt, readWarm, plainDns, warm>>
          /\ txPc' = "wrap" => ~warm
          /\ txPc' # "send"
      BY <2>4 DEF TxWarm, SkipPlain, TxGoto, TxOnly
    <3> QED
      BY <3>1
  <2>5. CASE TxWrap
    BY <2>5 DEF TxWrap, TxGoto, TxOnly
  <2>6. CASE TxSend
    <3>1. /\ txPc = "send" /\ txPc' = "read"
          /\ UNCHANGED <<dnsMode, txPkt, readWarm, warm>>
          /\ plainDns' = plainDns \cup
               (IF dnsMode # "system" /\ txPkt = "dns" THEN {readWarm} ELSE {})
      BY <2>6 DEF TxSend, TxGoto
    <3>2. dnsMode # "system" /\ txPkt = "dns" => readWarm = FALSE
      BY <3>1, <1>t
    <3>3. TRUE \notin plainDns'
      <4>1. CASE dnsMode # "system" /\ txPkt = "dns"
        BY <4>1, <3>1, <3>2
      <4>2. CASE ~(dnsMode # "system" /\ txPkt = "dns")
        BY <4>2, <3>1
      <4> QED
        BY <4>1, <4>2
    <3> QED
      BY <3>1, <3>3
  <2> QED
    BY <1>5, <2>1, <2>2, <2>3, <2>4, <2>5, <2>6 DEF TxThread
<1> QED
  BY <1>2, <1>3, <1>4, <1>5 DEF BridgeNext

\* Before the session is asked to end, the flag is cleared only by the I/O thread
\* that has lost the device, or by the main thread on its way out.
LEMMA EndStep ==
  BridgeTypeOK /\ EndInv /\ [BridgeNext]_vars => EndInv'
<1> SUFFICES ASSUME BridgeTypeOK, EndInv, [BridgeNext]_vars PROVE EndInv'
  OBVIOUS
<1> USE DEF EndInv, UnaskedEndIsDisconnect
<1>t. /\ bridge \in BOOLEAN /\ deviceGone \in BOOLEAN /\ running \in BOOLEAN
      /\ askedToStop \in BOOLEAN /\ disconnected \in BOOLEAN
  BY DEF BridgeTypeOK
<1>1. ASSUME UNCHANGED <<mainPc, askedToStop, disconnected>>,
             running' => running, deviceGone => deviceGone',
             bridge' => bridge, bridge /\ ~bridge' => deviceGone',
             io' = "gone" => deviceGone'
      PROVE  EndInv'
  BY <1>1
<1>2. CASE \/ Take /\ UNCHANGED sessVars
           \/ Quit /\ UNCHANGED sessVars
           \/ PullPlug /\ UNCHANGED sessVars
           \/ IoPanic
  BY <1>1, <1>2 DEF Take, Quit, PullPlug, IoPanic
<1>3. CASE GiveUp /\ UNCHANGED sessVars
  <2>1. deviceGone'
    BY <1>3 DEF GiveUp, GoneFlag
  <2>2. UNCHANGED <<mainPc, askedToStop, disconnected, running, bridge>>
    BY <1>3 DEF GiveUp
  <2> QED
    BY <2>1, <2>2, <1>1
<1>4. CASE QuitGone /\ UNCHANGED sessVars
  <2>1. deviceGone /\ deviceGone' /\ ~bridge' /\ io' = "done"
    BY <1>4 DEF QuitGone
  <2>2. UNCHANGED <<mainPc, askedToStop, disconnected, running>>
    BY <1>4 DEF QuitGone
  <2> QED
    BY <2>1, <2>2, <1>1
<1>5. CASE TxThread
  <2>1. UNCHANGED <<io, bridge, deviceGone, running, mainPc, askedToStop,
                    disconnected>>
    BY <1>5 DEF TxThread, TxTest, TxPollTimeout, TxPollReady, TxRecheck, TxRead,
                TxBatchEnd, TxCheck, TxIntercept, Res!Divert, TxWarm, TxWrap,
                TxSend, Put, TxSendFails, TxOnly
  <2> QED
    BY <2>1
<1>6. CASE DnsThread
  <2>1. UNCHANGED <<io, bridge, deviceGone, running, mainPc, askedToStop,
                    disconnected>>
    BY <1>6 DEF DnsThread, Res!Resolver, Res!DnsTest, Res!DnsTake,
                Res!DnsTimeout, Res!DnsAnswer, Res!DnsBatchEnd
  <2> QED
    BY <2>1
<1>7. CASE MainThread
  <2>1. UNCHANGED <<io, running>>
    BY <1>7 DEF MainThread, MainTest, MainKeepalive, MainNoKeepalive, MainStop,
                MainGoOn, MainClose, MainJoinIo, MainJoinTx, MainJoinDns,
                MainOnly, Put, Stop
  <2>2. CASE MainTest
    <3>1. /\ mainPc = "test"
          /\ mainPc' = "keepalive" \/ (mainPc' = "close" /\ ~(running /\ bridge))
          /\ UNCHANGED <<bridge, deviceGone, askedToStop, disconnected>>
      BY <2>2 DEF MainTest, MainGoto
    <3> QED
      BY <2>1, <3>1
  <2>3. CASE MainKeepalive \/ MainNoKeepalive \/ MainGoOn
    <3>1. /\ mainPc \in {"keepalive", "stats"}
          /\ mainPc' \in {"stats", "test"}
          /\ UNCHANGED <<bridge, deviceGone, askedToStop, disconnected>>
      BY <2>3 DEF MainKeepalive, MainNoKeepalive, MainGoOn, MainGoto, Put
    <3> QED
      BY <2>1, <3>1
  <2>4. CASE MainStop
    <3>1. /\ mainPc' = "close" /\ askedToStop'
          /\ UNCHANGED deviceGone
      BY <2>4 DEF MainStop, MainGoto, Stop
    <3> QED
      BY <2>1, <3>1
  <2>5. CASE MainClose
    <3>1. /\ mainPc = "close" /\ mainPc' = "joinIo" /\ ~bridge'
          /\ UNCHANGED <<deviceGone, askedToStop, disconnected>>
      BY <2>5 DEF MainClose, MainGoto, Stop
    <3> QED
      BY <2>1, <3>1
  <2>6. CASE MainJoinIo
    <3>1. /\ mainPc = "joinIo" /\ mainPc' = "joinTx" /\ io = "done"
          /\ deviceGone' = (deviceGone \/ panicked)
          /\ UNCHANGED <<askedToStop, disconnected>>
      BY <2>6 DEF MainJoinIo, MainGoto
    <3>2. deviceGone => deviceGone'
      BY <3>1
    <3>3. /\ mainPc = "joinIo" /\ mainPc' = "joinTx" /\ io = "done"
          /\ UNCHANGED <<askedToStop, disconnected>>
      BY <3>1
    <3> QED
      BY <2>1, <3>2, <3>3
  <2>7. CASE MainJoinTx
    <3>1. /\ mainPc = "joinTx" /\ mainPc' = "joinDns"
          /\ UNCHANGED <<deviceGone, askedToStop, disconnected>>
      BY <2>7 DEF MainJoinTx, MainGoto
    <3> QED
      BY <2>1, <3>1
  <2>8. CASE MainJoinDns
    <3>1. /\ mainPc = "joinDns" /\ mainPc' = "ended"
          /\ disconnected' = deviceGone
          /\ UNCHANGED <<deviceGone, askedToStop>>
      BY <2>8 DEF MainJoinDns, MainGoto
    <3>2. running' /\ ~askedToStop' => disconnected'
      BY <2>1, <3>1
    <3> QED
      BY <2>1, <3>1, <3>2
  <2> QED
    BY <1>7, <2>2, <2>3, <2>4, <2>5, <2>6, <2>7, <2>8 DEF MainThread
<1>8. CASE CtrlC
  <2>1. /\ ~running'
        /\ UNCHANGED <<io, bridge, deviceGone, mainPc, askedToStop, disconnected>>
    BY <1>8 DEF CtrlC
  <2> QED
    BY <2>1
<1>9. CASE UNCHANGED vars
  BY <1>9 DEF vars
<1> QED
  BY <1>2, <1>3, <1>4, <1>5, <1>6, <1>7, <1>8, <1>9 DEF BridgeNext, Io

-----------------------------------------------------------------------------
(* The theorems *)

\* What the threads of run_session know of each other holds in every state of a
\* session (main.rs:274-593).
LEMMA SessionInvariant == BridgeSpec => []SessionInv
<1>1. BridgeInit => SessionInv
  BY InitSession
<1>2. SessionInv /\ [BridgeNext]_vars => SessionInv'
  BY TypesStep, JoinStep, LateStep, PlainStep, EndStep DEF SessionInv
<1> QED
  BY <1>1, <1>2, PTL DEF BridgeSpec

\* Every variable of a session keeps its type, and when run_session starts to
\* restore the network (main.rs:595) no thread of the session is left and no
\* query is in work.
THEOREM ThreadsEndFirst == BridgeSpec => []BridgeInv
<1>1. SessionInv => BridgeInv
  BY DEF SessionInv, BridgeInv, NoThreadOutlivesSession, JoinInv
<1> QED
  BY <1>1, SessionInvariant, PTL

\* Whatever the batch size (main.rs:436) and the capacity of the channel, at most
\* one packet is sent after running_bridge was cleared.
THEOREM StopLetsOnePacketThrough == BridgeSpec => []AtMostOneLateSend
<1>1. SessionInv => AtMostOneLateSend
  BY DEF SessionInv, LateInv, AtMostOneLateSend
<1> QED
  BY <1>1, SessionInvariant, PTL

\* A query read after the first encrypted answer never leaves in the clear
\* (main.rs:456).
THEOREM WarmMeansEncrypted == BridgeSpec => []NoPlainDnsOnceWarm
<1>1. SessionInv => NoPlainDnsOnceWarm
  BY DEF SessionInv, PlainInv, NoPlainDnsOnceWarm
<1> QED
  BY <1>1, SessionInvariant, PTL

\* A session that neither Ctrl-C nor a command ended reports a disconnection, also
\* after a panic of the I/O thread (main.rs:583-593).
THEOREM UnaskedEndReported == BridgeSpec => []UnaskedEndIsDisconnect
<1>1. SessionInv => UnaskedEndIsDisconnect
  BY DEF SessionInv, EndInv
<1> QED
  BY <1>1, SessionInvariant, PTL
=============================================================================
