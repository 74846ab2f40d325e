---------------------------- MODULE UsbIoProofs ----------------------------
(***************************************************************************)
(* Proofs about UsbIo, for every number of buffers, channel capacity,      *)
(* address set and set of transfers.                                       *)
(*                                                                         *)
(* RxInv is the inductive strengthening behind RxAccounting,               *)
(* NoWaitOnEmpty and GoneOnlyWhenAllLost, TxInv the one behind OutBounded  *)
(* and TxFifo, ConservedInv the one behind RxConserved.                    *)
(***************************************************************************)
EXTENDS UsbIo, FiniteSetTheorems, FunctionTheorems, SequenceTheorems, TLAPS

\* The groups of variables an UNCHANGED may name.
USE DEF inVars, outVars, rxVars, askVars, flagVars

-----------------------------------------------------------------------------
(* Facts about the operators *)

\* Positions are finitely many, and a count is a number (used by DeviceSends).
LEMMA CountIsNat ==
  ASSUME NEW s \in Seq(Frame), NEW t
  PROVE  IsFiniteSet(Positions(s, t)) /\ Count(s, t) \in Nat
<1>1. DOMAIN s = 1..Len(s) /\ Len(s) \in Nat
  BY LenProperties
<1>2. IsFiniteSet(1..Len(s))
  BY <1>1, FS_Interval
<1>3. Positions(s, t) \in SUBSET (1..Len(s))
  BY <1>1 DEF Positions
<1> QED
  BY <1>2, <1>3, FS_Subset, FS_CardinalityType DEF Count

\* The empty sequence has every type of sequence the module uses.
LEMMA EmptyIsSeq ==
  /\ <<>> \in Seq(Completion)
  /\ <<>> \in Seq(Frame)
  /\ <<>> \in Seq(Nat)
  /\ <<>> \in Seq(Nat \ {ArpUrb})
  OBVIOUS

\* Replacing the oldest transfer keeps the length of the queue.
LEMMA TailAppend ==
  ASSUME NEW s \in Seq(Nat), s # <<>>, NEW e \in Nat
  PROVE  /\ Append(Tail(s), e) \in Seq(Nat)
         /\ Len(Append(Tail(s), e)) = Len(s)
  OBVIOUS

\* n ARP replies are a sequence of length n.
LEMMA ArpUrbsSeq ==
  ASSUME NEW n \in Nat
  PROVE  /\ ArpUrbs(n) \in Seq(Nat)
         /\ Len(ArpUrbs(n)) = n
         /\ DOMAIN ArpUrbs(n) = 1..n
         /\ \A i \in 1..n : ArpUrbs(n)[i] = ArpUrb
  BY DEF ArpUrbs, ArpUrb

-----------------------------------------------------------------------------
(* The IN endpoint *)

\* Ties the hand-kept counter to the endpoint at every point of the thread.
RxInv ==
  /\ ioPc = "start" => activeRx = NumRxBufs /\ inFlight = 0 /\ inDone = <<>>
  /\ RxAccounting
  /\ ioPc \in {"loop", "wait", "drainOut", "refill"} => activeRx > 0
  /\ ioPc = "gone" => activeRx = 0
  /\ ioPc = "done" => inFlight = 0 /\ inDone = <<>>
  /\ deviceGone => ioPc \in {"gone", "done"}
  /\ outDone <= Len(out)

\* UsbIo::run starts with the types right and the counter equal to the buffers it
\* is about to submit.
LEMMA InitRx == IoInit => IoTypeOK /\ RxInv
<1> SUFFICES ASSUME IoInit PROVE IoTypeOK /\ RxInv
  OBVIOUS
<1> USE UsbIoAssumption, EmptyIsSeq DEF IoInit
<1>1. IoTypeOK
  <2>1. bridge \in BOOLEAN /\ deviceGone \in BOOLEAN /\ plugged \in BOOLEAN
    OBVIOUS
  <2>2. /\ ioPc \in IoPcs
        /\ activeRx \in 0..NumRxBufs
        /\ inFlight \in 0..NumRxBufs
    BY DEF IoPcs
  <2> QED
    BY <2>1, <2>2 DEF IoTypeOK
<1>2. RxInv
  BY DEF RxInv, RxAccounting
<1> QED
  BY <1>1, <1>2

\* Every step keeps the types and the accounting; neither does so alone.
LEMMA NextRx ==
  IoTypeOK /\ RxInv /\ [IoNext]_ioVars => IoTypeOK' /\ RxInv'
<1> SUFFICES ASSUME IoTypeOK, RxInv, [IoNext]_ioVars
             PROVE  IoTypeOK' /\ RxInv'
  OBVIOUS
<1> USE UsbIoAssumption, EmptyIsSeq
    DEF IoTypeOK, RxInv, RxAccounting, InPending, IoPcs
<1>1. CASE Start
  BY <1>1 DEF Start, FirstSubmits
<1>2. CASE LoopTest
  <2>1. CASE KeepRunning
    BY <1>2, <2>1 DEF LoopTest
  <2>2. CASE ~KeepRunning
    <3>1. IoTypeOK'
      BY <1>2, <2>2 DEF LoopTest
    <3>2. RxInv'
      BY <1>2, <2>2 DEF LoopTest
    <3> QED
      BY <3>1, <3>2
  <2> QED
    BY <2>1, <2>2
<1>3. ASSUME Reap, ioPc \in {"wait", "drainIn"} PROVE IoTypeOK' /\ RxInv'
  <2>1. /\ Head(inDone) \in Completion
        /\ Tail(inDone) \in Seq(Completion)
        /\ Len(Tail(inDone)) = Len(inDone) - 1
        /\ Len(inDone) \in Nat
    BY <1>3, HeadTailProperties, LenProperties DEF Reap
  <2>2. /\ inDone' = Tail(inDone)
        /\ UNCHANGED <<inFlight, arpReplies, rxPkts, gatewayMac, outVars, txChan,
                       enqueued, txPkts, flagVars, askVars, arpSent>>
    BY <1>3 DEF Reap
  <2> DEFINE n == Len(inDone)
  <2>3. n \in Nat /\ Len(inDone') = n - 1 /\ inFlight' = inFlight
    BY <2>1, <2>2
  <2>4. activeRx = inFlight + n
    BY <1>3
  <2> HIDE DEF n
  <2>5. CASE Head(inDone).ok
    <3>1. Head(inDone).frames \in Seq(Frame)
      BY <2>1 DEF Completion
    <3>2. /\ frames' = Head(inDone).frames
          /\ ioPc' = "frame"
          /\ activeRx' = activeRx
      BY <1>3, <2>5 DEF Reap
    <3>3. IoTypeOK'
      BY <2>1, <2>2, <3>1, <3>2
    <3>4. RxInv'
      <4>1. activeRx' = InPending' + 1
        BY <2>3, <2>4, <3>2
      <4>2. ~deviceGone' /\ outDone' <= Len(out')
        BY <1>3, <2>2
      <4> QED
        BY <3>2, <4>1, <4>2
    <3> QED
      BY <3>3, <3>4
  <2>6. CASE ~Head(inDone).ok
    <3>1. /\ frames' = frames
          /\ ioPc' = "drainIn"
          /\ activeRx' = activeRx - 1
      BY <1>3, <2>1, <2>6 DEF Reap, RxLost
    <3>2. IoTypeOK'
      BY <1>3, <2>1, <2>2, <3>1
    <3>3. RxInv'
      <4>1. activeRx' = InPending'
        BY <2>3, <2>4, <3>1
      <4>2. ~deviceGone' /\ outDone' <= Len(out')
        BY <1>3, <2>2
      <4> QED
        BY <3>1, <4>1, <4>2
    <3> QED
      BY <3>2, <3>3
  <2> QED
    BY <2>5, <2>6
<1>4. CASE WaitReap
  BY <1>3, <1>4 DEF WaitReap
<1>5. CASE WaitTimeout
  BY <1>5 DEF WaitTimeout
<1>6. CASE OnFrame
  <2> USE <1>6 DEF OnFrame
  <2>1. Head(frames) \in Frame /\ Tail(frames) \in Seq(Frame)
    BY HeadTailProperties
  <2>2. gatewayMac' \in Macs \cup {Broadcast}
    BY <2>1 DEF Learned, Frame
  <2>3. IoTypeOK'
    BY <2>1, <2>2
  <2>4. RxInv'
    OBVIOUS
  <2> QED
    BY <2>3, <2>4
<1>7. CASE RxDone
  <2> USE <1>7 DEF RxDone
  <2>1. /\ out' \in Seq(Nat)
        /\ Len(out') = Len(out) + arpReplies
    <3>1. ArpUrbs(arpReplies) \in Seq(Nat) /\ Len(ArpUrbs(arpReplies)) = arpReplies
      BY ArpUrbsSeq
    <3> QED
      BY <3>1, ConcatProperties
  <2>2. InPending' = InPending + 1 /\ InPending \in Nat
    BY LenProperties
  <2>3. activeRx' = activeRx
    BY <2>2
  <2>4. IoTypeOK'
    BY <2>1, <2>2, <2>3
  <2>5. RxInv'
    BY <2>1, <2>2, <2>3
  <2> QED
    BY <2>4, <2>5
<1>8. CASE DrainInReap
  BY <1>3, <1>8 DEF DrainInReap
<1>9. CASE DrainInEnd
  BY <1>9 DEF DrainInEnd
<1>10. CASE CheckRx
  <2>1. CASE AllRxLost
    <3>1. ioPc' = "gone" /\ deviceGone' = TRUE /\ activeRx = 0
      BY <1>10, <2>1 DEF CheckRx, AllRxLost, GoneStored
    <3>2. IoTypeOK'
      BY <1>10, <3>1 DEF CheckRx
    <3>3. RxInv'
      BY <1>10, <3>1 DEF CheckRx
    <3> QED
      BY <3>2, <3>3
  <2>2. CASE ~AllRxLost
    BY <1>10, <2>2 DEF CheckRx, AllRxLost
  <2> QED
    BY <2>1, <2>2
<1>11. CASE Gone
  <2>1. IoTypeOK'
    BY <1>11 DEF Gone
  <2>2. RxInv'
    BY <1>11 DEF Gone
  <2> QED
    BY <2>1, <2>2
<1>12. CASE DrainOut
  <2> USE <1>12 DEF DrainOut
  <2>1. /\ Tail(out) \in Seq(Nat)
        /\ Len(Tail(out)) = Len(out) - 1
    BY HeadTailProperties, EmptySeq
  <2>2. out # <<>>
    BY EmptySeq
  <2>3. CASE txChan # <<>> /\ SubmitNext(Tail(out))
    <3>1. Head(txChan) \in Nat /\ Tail(txChan) \in Seq(Nat \ {ArpUrb})
      BY <2>3, HeadTailProperties
    <3>2. out' \in Seq(Nat) /\ Len(out') = Len(out)
      BY <2>2, <2>3, <3>1, TailAppend DEF SubmitNext
    <3>3. outDone' \in Nat /\ outDone' <= Len(out')
      BY <3>2
    <3>4. txChan' \in Seq(Nat \ {ArpUrb}) /\ txPkts' \in Nat
      BY <2>3, <3>1 DEF SubmitNext
    <3>5. IoTypeOK'
      BY <3>2, <3>3, <3>4
    <3>6. RxInv'
      BY <2>3, <3>2, <3>3
    <3> QED
      BY <3>5, <3>6
  <2>4. CASE txChan = <<>> /\ out' = Tail(out) /\ UNCHANGED <<txChan, txPkts>>
    BY <2>1, <2>4
  <2> QED
    BY <2>3, <2>4
<1>13. CASE DrainOutEnd
  BY <1>13 DEF DrainOutEnd
<1>14. CASE Refill
  <2> USE <1>14 DEF Refill, SubmitNext
  <2>1. Head(txChan) \in Nat /\ Tail(txChan) \in Seq(Nat \ {ArpUrb})
    BY HeadTailProperties
  <2>2. out' \in Seq(Nat) /\ Len(out') = Len(out) + 1
    BY <2>1, AppendProperties
  <2> QED
    BY <2>1, <2>2
<1>15. CASE RefillEnd
  BY <1>15 DEF RefillEnd
<1>16. CASE \E t \in Transfers : DeviceSends(t)
  <2>1. PICK t \in Transfers : DeviceSends(t)
    BY <1>16
  <2> DEFINE c == [ok |-> TRUE, frames |-> t]
  <2>2. c \in Completion
    BY DEF Completion
  <2>3. /\ inFlight > 0 /\ inFlight' = inFlight - 1
        /\ inDone' = Append(inDone, c)
        /\ arpAsked' = arpAsked + Count(t, "arpReq")
        /\ ipArrived' = ipArrived + Count(t, "ip")
        /\ UNCHANGED <<ioPc, activeRx, rxVars, outVars, txChan, enqueued, txPkts,
                       flagVars, arpSent>>
    BY <2>1 DEF DeviceSends, FinishIn
  <2> HIDE DEF c
  <2>4. Count(t, "arpReq") \in Nat /\ Count(t, "ip") \in Nat
    BY CountIsNat
  <2>5. arpAsked' \in Nat /\ ipArrived' \in Nat /\ delivered' \in Nat
    BY <2>1, <2>3, <2>4 DEF DeviceSends
  <2>6. inDone' \in Seq(Completion) /\ Len(inDone') = Len(inDone) + 1
    BY <2>2, <2>3, AppendProperties
  <2>7. inFlight' \in 0..NumRxBufs /\ InPending' = InPending
    BY <2>3, <2>6
  <2>8. IoTypeOK'
    BY <2>3, <2>5, <2>6, <2>7
  <2>9. ioPc # "start" /\ ioPc # "done"
    BY <2>3
  <2>10. RxInv'
    BY <2>3, <2>7, <2>9
  <2> QED
    BY <2>8, <2>10
<1>17. CASE DeviceFails
  BY <1>17 DEF DeviceFails, FinishIn, Completion
<1>18. CASE OutCompletes
  BY <1>18 DEF OutCompletes
<1>19. CASE Unplug
  BY <1>19 DEF Unplug
<1>20. CASE Enqueue
  BY <1>20 DEF Enqueue, ArpUrb
<1>21. CASE StopBridge
  BY <1>21 DEF StopBridge
<1>22. CASE UNCHANGED ioVars
  BY <1>22 DEF ioVars
<1> QED
  BY <1>1, <1>2, <1>4, <1>5, <1>6, <1>7, <1>8, <1>9, <1>10, <1>11, <1>12,
     <1>13, <1>14, <1>15, <1>16, <1>17, <1>18, <1>19, <1>20, <1>21, <1>22
     DEF IoNext, IoThread, Device

\* The types and the accounting hold in every reachable state.
LEMMA RxInvariant == IoSpec => [](IoTypeOK /\ RxInv)
  BY InitRx, NextRx, PTL DEF IoSpec

\* Every variable of the I/O thread keeps its type.
THEOREM IoTypeCorrect == IoSpec => []IoTypeOK
  BY RxInvariant, PTL

\* The counter of UsbIo::run never drifts from what the endpoint has pending.
THEOREM RxAccountingCorrect == IoSpec => []RxAccounting
<1>1. RxInv => RxAccounting
  BY DEF RxInv
<1> QED
  BY <1>1, RxInvariant, PTL

\* UsbIo::run never waits on an IN endpoint with nothing pending.
THEOREM NeverWaitsOnEmpty == IoSpec => []NoWaitOnEmpty
<1>1. IoTypeOK /\ RxInv => NoWaitOnEmpty
  BY DEF IoTypeOK, RxInv, RxAccounting, NoWaitOnEmpty, InPending
<1> QED
  BY <1>1, RxInvariant, PTL

\* UsbIo::run declares the device gone only when every IN transfer is lost.
THEOREM GoneIsAllLost == IoSpec => []GoneOnlyWhenAllLost
<1>1. IoTypeOK /\ RxInv => GoneOnlyWhenAllLost
  <2> SUFFICES ASSUME IoTypeOK, RxInv, deviceGone
               PROVE  ioPc \in {"gone", "done"} /\ InPending = 0
    BY DEF GoneOnlyWhenAllLost
  <2>1. CASE ioPc = "gone"
    BY <2>1 DEF IoTypeOK, RxInv, RxAccounting, InPending
  <2>2. CASE ioPc = "done"
    BY <2>2 DEF RxInv, InPending
  <2> QED
    BY <2>1, <2>2 DEF RxInv
<1> QED
  BY <1>1, RxInvariant, PTL

-----------------------------------------------------------------------------
(* The OUT endpoint and the channel *)

\* Submitting the next packet keeps the order.
LEMMA AppendInOrder ==
  ASSUME NEW s \in Seq(Nat), NEW n \in Nat, LastInOrder(s, n)
  PROVE  LastInOrder(Append(s, n + 1), n + 1)
<1> DEFINE t == Append(s, n + 1)
<1>1. /\ Len(s) \in Nat
      /\ DOMAIN s = 1..Len(s)
      /\ DOMAIN t = 1..(Len(s) + 1)
      /\ \A i \in 1..Len(s) : t[i] = s[i] /\ s[i] \in Nat
      /\ t[Len(s) + 1] = n + 1
  OBVIOUS
<1> HIDE DEF t
<1>2. PICK oldest \in 0..n :
         {s[i] : i \in DOMAIN s} \ {ArpUrb} = (oldest + 1)..n
  BY DEF LastInOrder
<1>3. \A i \in DOMAIN s : s[i] # ArpUrb => s[i] <= n
  BY <1>2
<1>4. \A i, j \in DOMAIN t :
         i < j /\ t[i] # ArpUrb /\ t[j] # ArpUrb => t[i] < t[j]
  BY <1>1, <1>3 DEF LastInOrder
<1>5. {t[i] : i \in DOMAIN t} = {s[i] : i \in DOMAIN s} \cup {n + 1}
  BY <1>1
<1>6. {t[i] : i \in DOMAIN t} \ {ArpUrb} = (oldest + 1)..(n + 1)
  <2> DEFINE S == {s[i] : i \in DOMAIN s}
  <2>1. S \ {ArpUrb} = (oldest + 1)..n
    BY <1>2
  <2> HIDE DEF S
  <2>2. (S \cup {n + 1}) \ {ArpUrb} = (S \ {ArpUrb}) \cup {n + 1}
    BY DEF ArpUrb
  <2>3. ((oldest + 1)..n) \cup {n + 1} = (oldest + 1)..(n + 1)
    BY <1>2
  <2> QED
    BY <1>5, <2>1, <2>2, <2>3 DEF S
<1>7. oldest \in 0..(n + 1)
  BY <1>2
<1> QED
  BY <1>4, <1>6, <1>7 DEF LastInOrder, t

\* Reaping the oldest transfer keeps the order.
LEMMA TailInOrder ==
  ASSUME NEW s \in Seq(Nat), s # <<>>, NEW n \in Nat, LastInOrder(s, n)
  PROVE  LastInOrder(Tail(s), n)
<1> DEFINE t == Tail(s)
<1>1. /\ Len(s) \in Nat \ {0}
      /\ DOMAIN s = 1..Len(s)
      /\ DOMAIN t = 1..(Len(s) - 1)
      /\ \A i \in DOMAIN s : s[i] \in Nat
      /\ \A i \in DOMAIN t : t[i] = s[i + 1]
  OBVIOUS
<1> HIDE DEF t
<1>2. PICK oldest \in 0..n :
         {s[i] : i \in DOMAIN s} \ {ArpUrb} = (oldest + 1)..n
  BY DEF LastInOrder
<1>3. \A i, j \in DOMAIN t :
         i < j /\ t[i] # ArpUrb /\ t[j] # ArpUrb => t[i] < t[j]
  <2> SUFFICES ASSUME NEW i \in DOMAIN t, NEW j \in DOMAIN t, i < j,
                      t[i] # ArpUrb, t[j] # ArpUrb
               PROVE  t[i] < t[j]
    OBVIOUS
  <2>1. i + 1 \in DOMAIN s /\ j + 1 \in DOMAIN s /\ i + 1 < j + 1
    BY <1>1
  <2> QED
    BY <1>1, <2>1 DEF LastInOrder
<1>4. {s[i] : i \in DOMAIN s} = {t[i] : i \in DOMAIN t} \cup {s[1]}
  <2>1. \A i \in DOMAIN s : i = 1 \/ (i - 1 \in DOMAIN t /\ t[i - 1] = s[i])
    BY <1>1
  <2>2. \A i \in DOMAIN t : i + 1 \in DOMAIN s /\ t[i] = s[i + 1]
    BY <1>1
  <2>3. 1 \in DOMAIN s
    BY <1>1
  <2> QED
    BY <2>1, <2>2, <2>3
<1>5. CASE s[1] = ArpUrb
  <2>1. {t[i] : i \in DOMAIN t} \ {ArpUrb} = (oldest + 1)..n
    BY <1>2, <1>4, <1>5
  <2> QED
    BY <1>3, <2>1 DEF LastInOrder, t
<1>6. CASE s[1] # ArpUrb
  <2>1. s[1] \in (oldest + 1)..n
    BY <1>1, <1>2, <1>6
  <2>2. PICK j \in DOMAIN s : s[j] = oldest + 1
    <3>1. oldest + 1 \in (oldest + 1)..n
      BY <1>2, <2>1
    <3>2. oldest + 1 \in {s[i] : i \in DOMAIN s}
      BY <1>2, <3>1
    <3> QED
      BY <3>2
  <2>3. oldest + 1 # ArpUrb
    BY <1>2 DEF ArpUrb
  <2>4. s[1] = oldest + 1
    BY <1>1, <1>6, <2>1, <2>2, <2>3 DEF LastInOrder
  <2>5. \A i \in DOMAIN t : t[i] # ArpUrb => t[i] > s[1]
    <3> SUFFICES ASSUME NEW i \in DOMAIN t, t[i] # ArpUrb PROVE t[i] > s[1]
      OBVIOUS
    <3>1. i + 1 \in DOMAIN s /\ 1 \in DOMAIN s /\ 1 < i + 1 /\ t[i] = s[i + 1]
      BY <1>1
    <3>2. s[1] < s[i + 1]
      BY <1>6, <3>1 DEF LastInOrder
    <3> QED
      BY <1>1, <3>1, <3>2
  <2>6. {t[i] : i \in DOMAIN t} \ {ArpUrb} = (oldest + 2)..n
    <3> DEFINE S == {s[i] : i \in DOMAIN s}
               T == {t[i] : i \in DOMAIN t}
    <3>1. S = T \cup {oldest + 1} /\ S \ {ArpUrb} = (oldest + 1)..n
      BY <1>2, <1>4, <2>4
    <3>2. \A x \in T : x # ArpUrb => x # oldest + 1
      BY <1>1, <2>4, <2>5
    <3> HIDE DEF S, T
    <3>3. T \ {ArpUrb} = (S \ {ArpUrb}) \ {oldest + 1}
      BY <3>1, <3>2
    <3>4. T \ {ArpUrb} = (oldest + 2)..n
      BY <1>2, <3>1, <3>3
    <3> QED
      BY <3>4 DEF T
  <2>7. oldest + 1 \in 0..n /\ (oldest + 1) + 1 = oldest + 2
    BY <1>2, <2>1
  <2> QED
    BY <1>3, <2>6, <2>7 DEF LastInOrder, t
<1> QED
  BY <1>5, <1>6

\* ARP replies between the packets do not disturb their order.
LEMMA ArpInOrder ==
  ASSUME NEW s \in Seq(Nat), NEW n \in Nat, NEW k \in Nat, LastInOrder(s, n)
  PROVE  LastInOrder(s \o ArpUrbs(k), n)
<1> DEFINE a == ArpUrbs(k)
           t == s \o a
<1>1. /\ a \in Seq(Nat)
      /\ Len(a) = k
      /\ \A i \in 1..k : a[i] = ArpUrb
  BY ArpUrbsSeq
<1> HIDE DEF a
<1>2. /\ t \in Seq(Nat)
      /\ Len(t) = Len(s) + k
      /\ \A i \in 1..(Len(s) + k) :
            t[i] = IF i <= Len(s) THEN s[i] ELSE a[i - Len(s)]
  BY <1>1, ConcatProperties
<1> HIDE DEF t
<1>3. /\ Len(s) \in Nat
      /\ DOMAIN s = 1..Len(s)
      /\ DOMAIN t = 1..(Len(s) + k)
      /\ DOMAIN s \subseteq DOMAIN t
  BY <1>2
<1>4. \A i \in DOMAIN t : (i \in DOMAIN s /\ t[i] = s[i]) \/ t[i] = ArpUrb
  <2> SUFFICES ASSUME NEW i \in 1..(Len(s) + k)
               PROVE  (i \in DOMAIN s /\ t[i] = s[i]) \/ t[i] = ArpUrb
    BY <1>3
  <2>1. CASE i <= Len(s)
    BY <1>2, <1>3, <2>1
  <2>2. CASE ~(i <= Len(s))
    <3>1. t[i] = a[i - Len(s)] /\ i - Len(s) \in 1..k
      BY <1>2, <1>3, <2>2
    <3> QED
      BY <1>1, <3>1
  <2> QED
    BY <2>1, <2>2
<1>5. \A i \in DOMAIN s : t[i] = s[i]
  BY <1>2, <1>3
<1>6. {t[i] : i \in DOMAIN t} \ {ArpUrb} = {s[i] : i \in DOMAIN s} \ {ArpUrb}
  BY <1>3, <1>4, <1>5
<1>7. \A i, j \in DOMAIN t :
         i < j /\ t[i] # ArpUrb /\ t[j] # ArpUrb => t[i] < t[j]
  BY <1>4 DEF LastInOrder
<1> QED
  BY <1>6, <1>7 DEF LastInOrder, t, a

\* The channel after try_recv takes its head.
LEMMA ConsecutiveTail ==
  ASSUME NEW n \in Nat \ {0}, NEW k \in Nat
  PROVE  LET c == [i \in 1..n |-> k + i]
         IN  /\ Head(c) = k + 1
             /\ Tail(c) = [i \in 1..(n - 1) |-> (k + 1) + i]
  OBVIOUS

\* The channel after one more packet is sent to it.
LEMMA ConsecutiveAppend ==
  ASSUME NEW n \in Nat, NEW k \in Nat
  PROVE  Append([i \in 1..n |-> k + i], k + n + 1) = [i \in 1..(n + 1) |-> k + i]
  OBVIOUS

\* OutBounded and TxFifo, with the one fact they lack: the counter of the
\* packets sent never passes the counter of the packets that came.
TxInv ==
  /\ OutBounded
  /\ TxFifo
  /\ txPkts <= enqueued

\* Taking the head of the channel keeps it consecutive.
LEMMA SubmitKeepsChannel ==
  ASSUME IoTypeOK, TxInv, ioPc # "done", txChan # <<>>, UNCHANGED enqueued,
         txChan' = Tail(txChan), txPkts' = txPkts + 1
  PROVE  /\ Head(txChan) = txPkts + 1
         /\ ChanFifo'
         /\ txPkts' <= enqueued'
<1> DEFINE n == enqueued - txPkts
<1>1. /\ txChan = [i \in 1..n |-> txPkts + i]
      /\ n \in Nat
      /\ txPkts \in Nat
      /\ enqueued \in Nat
  BY DEF TxInv, TxFifo, ChanFifo, IoTypeOK
<1>2. n # 0
  BY <1>1
<1>3. enqueued' - txPkts' = n - 1
  BY <1>1
<1> HIDE DEF n
<1>4. /\ Head(txChan) = txPkts + 1
      /\ Tail(txChan) = [i \in 1..(n - 1) |-> (txPkts + 1) + i]
  BY <1>1, <1>2, ConsecutiveTail
<1>5. ChanFifo'
  BY <1>3, <1>4 DEF ChanFifo
<1> QED
  BY <1>1, <1>2, <1>4, <1>5 DEF n

\* The channel and the OUT endpoint start empty, which is in order.
LEMMA InitTx == IoInit => TxInv
<1> SUFFICES ASSUME IoInit PROVE TxInv
  OBVIOUS
<1>1. OutBounded /\ txPkts <= enqueued
  BY UsbIoAssumption DEF IoInit, OutBounded, OutPending
<1>2. ChanFifo
  BY DEF IoInit, ChanFifo
<1>3. LastInOrder(out, txPkts)
  BY DEF IoInit, LastInOrder
<1> QED
  BY <1>1, <1>2, <1>3 DEF TxInv, TxFifo

\* Every step keeps the bound and the order.
LEMMA NextTx ==
  IoTypeOK /\ RxInv /\ TxInv /\ [IoNext]_ioVars => TxInv'
<1> SUFFICES ASSUME IoTypeOK, RxInv, TxInv, [IoNext]_ioVars
             PROVE  TxInv'
  OBVIOUS
<1>1. ASSUME UNCHANGED <<out, txChan, enqueued, txPkts, arpSent>>,
             ioPc' = "done" <=> ioPc = "done"
      PROVE  TxInv'
  BY <1>1 DEF TxInv, TxFifo, ChanFifo, LastInOrder, OutBounded, OutPending
<1>2. ASSUME ioPc' = "done", out' = <<>>, UNCHANGED <<enqueued, txPkts, arpSent>>
      PROVE  TxInv'
  BY <1>2, UsbIoAssumption
     DEF TxInv, TxFifo, OutBounded, OutPending, IoTypeOK
<1>3. CASE LoopTest
  <2>1. CASE KeepRunning
    BY <1>1, <1>3, <2>1 DEF LoopTest
  <2>2. CASE ~KeepRunning
    BY <1>2, <1>3, <2>2 DEF LoopTest
  <2> QED
    BY <2>1, <2>2
<1>4. CASE Gone
  BY <1>2, <1>4 DEF Gone
<1>5. CASE RxDone
  <2>1. /\ out \in Seq(Nat) /\ Len(out) \in Nat
        /\ txPkts \in Nat /\ arpReplies \in Nat /\ arpSent \in Nat
    BY LenProperties DEF IoTypeOK
  <2>2. /\ out' = out \o ArpUrbs(arpReplies)
        /\ arpSent' = arpSent + arpReplies
        /\ UNCHANGED <<txChan, enqueued, txPkts>>
        /\ ioPc # "done" /\ ioPc' # "done"
    BY <1>5 DEF RxDone
  <2>3. LastInOrder(out', txPkts')
    BY <2>1, <2>2, ArpInOrder DEF TxInv, TxFifo
  <2>4. Len(out') = Len(out) + arpReplies
    <3>1. ArpUrbs(arpReplies) \in Seq(Nat) /\ Len(ArpUrbs(arpReplies)) = arpReplies
      BY <2>1, ArpUrbsSeq
    <3> QED
      BY <2>1, <2>2, <3>1, ConcatProperties
  <2>5. OutBounded'
    BY <2>1, <2>2, <2>4, UsbIoAssumption DEF TxInv, OutBounded, OutPending
  <2> QED
    BY <2>2, <2>3, <2>5 DEF TxInv, TxFifo, ChanFifo
<1>6. CASE DrainOut
  <2>1. /\ out \in Seq(Nat) /\ Len(out) \in Nat /\ out # <<>>
        /\ txPkts \in Nat /\ arpSent \in Nat
    BY <1>6, LenProperties, EmptySeq DEF IoTypeOK, RxInv, DrainOut
  <2>2. /\ UNCHANGED <<enqueued, arpSent>>
        /\ ioPc # "done" /\ ioPc' # "done"
    BY <1>6 DEF DrainOut
  <2>3. /\ Tail(out) \in Seq(Nat)
        /\ Len(Tail(out)) = Len(out) - 1
        /\ LastInOrder(Tail(out), txPkts)
    BY <2>1, <2>2, TailInOrder DEF TxInv, TxFifo
  <2>4. CASE txChan # <<>> /\ SubmitNext(Tail(out))
    <3>1. /\ Head(txChan) = txPkts + 1
          /\ ChanFifo'
          /\ txPkts' <= enqueued'
          /\ txPkts' = txPkts + 1
      BY <2>2, <2>4, SubmitKeepsChannel DEF SubmitNext
    <3>2. out' = Append(Tail(out), txPkts + 1)
      BY <2>4, <3>1 DEF SubmitNext
    <3>3. LastInOrder(out', txPkts')
      BY <2>1, <2>3, <3>1, <3>2, AppendInOrder
    <3>4. Len(out') = Len(out)
      BY <2>1, <3>2, TailAppend
    <3> QED
      BY <2>2, <3>1, <3>3, <3>4 DEF TxInv, TxFifo, OutBounded, OutPending
  <2>5. CASE txChan = <<>> /\ out' = Tail(out) /\ UNCHANGED <<txChan, txPkts>>
    <3>1. ChanFifo' /\ txPkts' <= enqueued' /\ LastInOrder(out', txPkts')
      BY <2>2, <2>3, <2>5 DEF TxInv, TxFifo, ChanFifo
    <3>2. OutBounded'
      BY <2>1, <2>2, <2>3, <2>5, UsbIoAssumption
         DEF TxInv, OutBounded, OutPending
    <3> QED
      BY <3>1, <3>2 DEF TxInv, TxFifo
  <2> QED
    BY <1>6, <2>4, <2>5 DEF DrainOut
<1>7. CASE Refill
  <2>1. /\ out \in Seq(Nat) /\ Len(out) \in Nat
        /\ txPkts \in Nat /\ arpSent \in Nat
    BY LenProperties DEF IoTypeOK
  <2>2. /\ UNCHANGED <<enqueued, arpSent>>
        /\ ioPc # "done" /\ ioPc' # "done"
        /\ Len(out) < MaxOutUrbs
        /\ SubmitNext(out) /\ txChan # <<>>
    BY <1>7 DEF Refill, OutRoom, OutPending
  <2>3. /\ Head(txChan) = txPkts + 1
        /\ ChanFifo'
        /\ txPkts' <= enqueued'
        /\ txPkts' = txPkts + 1
    BY <2>2, SubmitKeepsChannel DEF SubmitNext
  <2>4. out' = Append(out, txPkts + 1)
    BY <2>2, <2>3 DEF SubmitNext
  <2>5. LastInOrder(out', txPkts')
    BY <2>1, <2>2, <2>3, <2>4, AppendInOrder DEF TxInv, TxFifo
  <2>6. Len(out') = Len(out) + 1
    BY <2>1, <2>4, AppendProperties
  <2>7. OutBounded'
    BY <2>1, <2>2, <2>6, UsbIoAssumption DEF OutBounded, OutPending
  <2> QED
    BY <2>2, <2>3, <2>5, <2>7 DEF TxInv, TxFifo
<1>8. CASE Enqueue
  <2>1. /\ UNCHANGED <<out, txPkts, arpSent, ioPc>>
        /\ ioPc # "done"
        /\ txChan' = Append(txChan, enqueued + 1)
        /\ enqueued' = enqueued + 1
        /\ txPkts \in Nat /\ enqueued \in Nat /\ txPkts <= enqueued
    BY <1>8 DEF Enqueue, IoTypeOK, TxInv
  <2> DEFINE n == enqueued - txPkts
  <2>2. /\ n \in Nat
        /\ txPkts + n + 1 = enqueued + 1
        /\ enqueued' - txPkts' = n + 1
        /\ txChan = [i \in 1..n |-> txPkts + i]
    BY <2>1 DEF TxInv, TxFifo, ChanFifo
  <2> HIDE DEF n
  <2>3. txChan' = [i \in 1..(n + 1) |-> txPkts + i]
    BY <2>1, <2>2, ConsecutiveAppend
  <2>4. ChanFifo'
    BY <2>1, <2>2, <2>3 DEF ChanFifo
  <2> QED
    BY <2>1, <2>4 DEF TxInv, TxFifo, LastInOrder, OutBounded, OutPending
<1>9. CASE \/ Start \/ WaitTimeout \/ OnFrame \/ DrainInEnd \/ CheckRx
           \/ DrainOutEnd \/ RefillEnd
  BY <1>1, <1>9
     DEF Start, WaitTimeout, OnFrame, DrainInEnd, CheckRx, DrainOutEnd, RefillEnd
<1>10. CASE WaitReap \/ DrainInReap
  BY <1>1, <1>10 DEF WaitReap, DrainInReap, Reap
<1>11. CASE Device
  BY <1>1, <1>11
     DEF Device, DeviceSends, DeviceFails, FinishIn, OutCompletes, Unplug
<1>12. CASE StopBridge
  BY <1>1, <1>12 DEF StopBridge
<1>13. CASE UNCHANGED ioVars
  BY <1>1, <1>13 DEF ioVars
<1> QED
  BY <1>3, <1>4, <1>5, <1>6, <1>7, <1>8, <1>9, <1>10, <1>11, <1>12, <1>13
     DEF IoNext, IoThread

\* The bound and the order hold in every reachable state.
LEMMA TxInvariant == IoSpec => []TxInv
<1>1. IoInit => IoTypeOK /\ RxInv /\ TxInv
  BY InitRx, InitTx
<1>2. /\ IoTypeOK /\ RxInv /\ TxInv
      /\ [IoNext]_ioVars
      => (IoTypeOK /\ RxInv /\ TxInv)'
  BY NextRx, NextTx
<1> QED
  BY <1>1, <1>2, PTL DEF IoSpec

\* The OUT endpoint never holds more than MAX_OUT_URBS transfers beyond the ARP
\* replies sent.
THEOREM OutIsBounded == IoSpec => []OutBounded
<1>1. TxInv => OutBounded
  BY DEF TxInv
<1> QED
  BY <1>1, TxInvariant, PTL

\* Packets cross the channel and the endpoint in order, without loss or
\* duplication, as long as the thread runs.
THEOREM TxIsFifo == IoSpec => []TxFifo
<1>1. TxInv => TxFifo
  BY DEF TxInv
<1> QED
  BY <1>1, TxInvariant, PTL

-----------------------------------------------------------------------------
(* Frames and replies *)

\* Every position above the first is one of the tail, moved by one.
LEMMA TailCount ==
  ASSUME NEW s \in Seq(Frame), s # <<>>, NEW t
  PROVE  Count(s, t) = Count(Tail(s), t) + (IF Head(s).type = t THEN 1 ELSE 0)
<1> DEFINE A == Positions(Tail(s), t)
           B == Positions(s, t) \ {1}
           f == [i \in A |-> i + 1]
<1>1. /\ Tail(s) \in Seq(Frame) /\ Len(s) \in Nat \ {0}
      /\ DOMAIN s = 1..Len(s) /\ DOMAIN Tail(s) = 1..(Len(s) - 1)
      /\ \A i \in 1..(Len(s) - 1) : Tail(s)[i] = s[i + 1]
      /\ Head(s) = s[1]
  OBVIOUS
<1>2. f \in Bijection(A, B)
  <2>1. A \subseteq Nat /\ \A i \in A : i + 1 \in B
    BY <1>1 DEF Positions
  <2>2. f \in [A -> B] /\ \A i, j \in A : f[i] = f[j] => i = j
    BY <2>1
  <2>3. ASSUME NEW k \in B
        PROVE  \E i \in A : f[i] = k
    <3>1. k - 1 \in A /\ f[k - 1] = k
      BY <1>1 DEF Positions
    <3> QED
      BY <3>1
  <2> HIDE DEF f
  <2> QED
    BY <2>2, <2>3, Fun_IsBij
<1>3. IsFiniteSet(A) /\ IsFiniteSet(Positions(s, t))
  BY <1>1, CountIsNat
<1>4. Cardinality(B) = Cardinality(A)
  BY <1>2, <1>3, FS_Bijection DEF ExistsBijection
<1>5. Cardinality(B) = IF 1 \in Positions(s, t) THEN Count(s, t) - 1 ELSE Count(s, t)
  BY <1>3, FS_RemoveElement DEF Count
<1>6. 1 \in Positions(s, t) <=> Head(s).type = t
  BY <1>1 DEF Positions
<1>7. Count(s, t) \in Nat /\ Count(Tail(s), t) \in Nat
  BY <1>1, CountIsNat
<1> QED
  BY <1>4, <1>5, <1>6, <1>7 DEF Count

\* Nothing holds no frame.
LEMMA NothingHeld ==
  ASSUME NEW t
  PROVE  /\ Count(<<>>, t) = 0
         /\ Held(<<>>, t) = {}
<1>1. Positions(<<>>, t) = {} /\ Held(<<>>, t) = {}
  BY DEF Positions, Held
<1> QED
  BY <1>1, FS_EmptySet DEF Count

\* The frames of one transfer, as places of the queue
FramesAt(k, s, t) == {k} \X Positions(s, t)

LEMMA FramesAtCount ==
  ASSUME NEW s \in Seq(Frame), NEW k, NEW t
  PROVE  /\ IsFiniteSet(FramesAt(k, s, t))
         /\ Cardinality(FramesAt(k, s, t)) = Count(s, t)
<1>1. IsFiniteSet({k}) /\ Cardinality({k}) = 1
  BY FS_Singleton
<1>2. IsFiniteSet(Positions(s, t)) /\ Count(s, t) \in Nat
  BY CountIsNat
<1>3. /\ IsFiniteSet(FramesAt(k, s, t))
      /\ Cardinality(FramesAt(k, s, t)) = Cardinality({k}) * Cardinality(Positions(s, t))
  BY <1>1, <1>2, FS_Product DEF FramesAt
<1> QED
  BY <1>1, <1>2, <1>3 DEF Count

\* Places apart from each other add up.
LEMMA Apart ==
  ASSUME NEW A, NEW B, IsFiniteSet(A), IsFiniteSet(B), A \cap B = {}
  PROVE  /\ IsFiniteSet(A \cup B)
         /\ Cardinality(A \cup B) = Cardinality(A) + Cardinality(B)
<1>1. /\ IsFiniteSet(A \cup B)
      /\ Cardinality(A \cup B)
           = Cardinality(A) + Cardinality(B) - Cardinality(A \cap B)
  BY FS_Union
<1>2. Cardinality(A \cap B) = 0
  BY FS_EmptySet
<1>3. Cardinality(A) \in Nat /\ Cardinality(B) \in Nat
  BY FS_CardinalityType
<1> QED
  BY <1>1, <1>2, <1>3

\* A transfer that finishes adds its frames to those held.
LEMMA AppendHeld ==
  ASSUME NEW s \in Seq(Completion), NEW c \in Completion, NEW t,
         IsFiniteSet(Held(s, t))
  PROVE  /\ IsFiniteSet(Held(Append(s, c), t))
         /\ Cardinality(Held(Append(s, c), t))
              = Cardinality(Held(s, t)) + Count(c.frames, t)
<1> DEFINE k == Len(s) + 1
           H == FramesAt(k, c.frames, t)
<1>1. /\ c.frames \in Seq(Frame)
      /\ DOMAIN s = 1..Len(s) /\ Len(s) \in Nat
      /\ DOMAIN Append(s, c) = (DOMAIN s) \cup {k}
      /\ k \notin DOMAIN s
      /\ \A i \in DOMAIN s : Append(s, c)[i] = s[i]
      /\ Append(s, c)[k] = c
  BY DEF Completion
<1>2. Held(Append(s, c), t) = Held(s, t) \cup H
  BY <1>1 DEF Held, FramesAt
<1>3. Held(s, t) \cap H = {}
  BY <1>1 DEF Held, FramesAt
<1>4. IsFiniteSet(H) /\ Cardinality(H) = Count(c.frames, t)
  BY <1>1, FramesAtCount
<1> HIDE DEF H
<1> QED
  BY <1>2, <1>3, <1>4, Apart

\* A transfer that is reaped takes its frames out of those held; all others move
\* up by one transfer.
LEMMA TailHeld ==
  ASSUME NEW s \in Seq(Completion), s # <<>>, NEW t, IsFiniteSet(Held(s, t))
  PROVE  /\ IsFiniteSet(Held(Tail(s), t))
         /\ Cardinality(Held(s, t))
              = Cardinality(Held(Tail(s), t)) + Count(Head(s).frames, t)
<1> DEFINE H == FramesAt(1, Head(s).frames, t)
           R == {p \in Held(s, t) : p[1] # 1}
           f == [p \in R |-> <<p[1] - 1, p[2]>>]
<1>1. /\ Head(s) = s[1] /\ Head(s) \in Completion
      /\ Tail(s) \in Seq(Completion) /\ Len(s) \in Nat \ {0}
      /\ DOMAIN s = 1..Len(s) /\ DOMAIN Tail(s) = 1..(Len(s) - 1)
      /\ \A i \in 1..(Len(s) - 1) : Tail(s)[i] = s[i + 1]
  OBVIOUS
<1>2. Head(s).frames \in Seq(Frame)
  BY <1>1 DEF Completion
<1>3. \A p : p \in Held(s, t)
        <=> \E k \in 1..Len(s) : \E i \in Positions(s[k].frames, t) : p = <<k, i>>
  BY <1>1 DEF Held
<1>4. \A p : p \in Held(Tail(s), t)
        <=> \E k \in 1..(Len(s) - 1) :
              \E i \in Positions(s[k + 1].frames, t) : p = <<k, i>>
  BY <1>1 DEF Held
<1>5. Held(s, t) = R \cup H /\ R \cap H = {}
  BY <1>1, <1>3 DEF FramesAt
<1>6. f \in Bijection(R, Held(Tail(s), t))
  <2>1. ASSUME NEW p \in R
        PROVE  p = <<p[1], p[2]>> /\ p[1] \in Nat /\ f[p] \in Held(Tail(s), t)
    <3>0. PICK k \in 1..Len(s) : \E i \in Positions(s[k].frames, t) : p = <<k, i>>
      BY <1>3
    <3>1. PICK i \in Positions(s[k].frames, t) : p = <<k, i>>
      BY <3>0
    <3>2. k # 1 /\ k - 1 \in 1..(Len(s) - 1) /\ (k - 1) + 1 = k
      BY <1>1, <3>1
    <3>3. f[p] = <<k - 1, i>>
      BY <3>1
    <3> QED
      BY <1>1, <1>4, <3>1, <3>2, <3>3
  <2>2. f \in [R -> Held(Tail(s), t)]
    BY <2>1
  <2>3. ASSUME NEW p \in R, NEW q \in R, f[p] = f[q]
        PROVE  p = q
    <3>1. <<p[1] - 1, p[2]>> = <<q[1] - 1, q[2]>>
      BY <2>3
    <3>2. p[1] - 1 = q[1] - 1 /\ p[2] = q[2]
      BY <3>1
    <3>3. /\ p = <<p[1], p[2]>> /\ p[1] \in Nat
          /\ q = <<q[1], q[2]>> /\ q[1] \in Nat
      BY <2>1
    <3>4. p[1] = q[1]
      BY <3>2, <3>3
    <3> QED
      BY <3>2, <3>3, <3>4
  <2>4. ASSUME NEW q \in Held(Tail(s), t)
        PROVE  \E p \in R : f[p] = q
    <3>0. PICK k \in 1..(Len(s) - 1) :
             \E i \in Positions(s[k + 1].frames, t) : q = <<k, i>>
      BY <1>4
    <3>1. PICK i \in Positions(s[k + 1].frames, t) : q = <<k, i>>
      BY <3>0
    <3>2. k + 1 \in 1..Len(s) /\ k + 1 # 1 /\ (k + 1) - 1 = k
      BY <1>1
    <3>3. <<k + 1, i>> \in R
      BY <1>3, <3>1, <3>2
    <3>4. f[<<k + 1, i>>] = q
      BY <3>1, <3>2, <3>3
    <3> QED
      BY <3>3, <3>4
  <2> HIDE DEF f, R
  <2> QED
    BY <2>2, <2>3, <2>4, Fun_IsBij
<1>7. IsFiniteSet(R)
  BY FS_Subset
<1>8. IsFiniteSet(H) /\ Cardinality(H) = Count(Head(s).frames, t)
  BY <1>2, FramesAtCount
<1> HIDE DEF H, R, f
<1>9. /\ IsFiniteSet(Held(Tail(s), t))
      /\ Cardinality(Held(Tail(s), t)) = Cardinality(R)
  BY <1>6, <1>7, FS_Bijection DEF ExistsBijection
<1>10. Cardinality(Held(s, t)) = Cardinality(R) + Cardinality(H)
  BY <1>5, <1>7, <1>8, Apart
<1> QED
  BY <1>8, <1>9, <1>10

\* A failed transfer carries no frames.
FailedIsEmpty == \A i \in DOMAIN inDone : ~inDone[i].ok => inDone[i].frames = <<>>

HeldIsFinite == \A t : IsFiniteSet(Held(inDone, t))

\* Frames are in hand only while they are processed, and none goes with a
\* transfer that is given up, so nothing leaves the backlog unseen.
ConservedInv ==
  /\ ioPc \notin {"frame", "done"} => frames = <<>>
  /\ FailedIsEmpty
  /\ HeldIsFinite
  /\ RxConserved

LEMMA InitConserved == IoInit => ConservedInv
<1> SUFFICES ASSUME IoInit PROVE ConservedInv
  OBVIOUS
<1>1. frames = <<>> /\ inDone = <<>> /\ DOMAIN inDone = {}
  BY DEF IoInit
<1>2. \A t : Backlog(t) = 0 /\ IsFiniteSet(Held(inDone, t))
  BY <1>1, NothingHeld, FS_EmptySet DEF Backlog
<1>3. /\ arpAsked = 0 /\ arpSent = 0 /\ arpReplies = 0
      /\ ipArrived = 0 /\ rxPkts = 0
  BY DEF IoInit
<1> QED
  BY <1>1, <1>2, <1>3 DEF ConservedInv, FailedIsEmpty, HeldIsFinite, RxConserved

\* The backlog is a number.
LEMMA BacklogIsNat ==
  ASSUME IoTypeOK, HeldIsFinite, NEW t
  PROVE  /\ Count(frames, t) \in Nat
         /\ Cardinality(Held(inDone, t)) \in Nat
         /\ Backlog(t) \in Nat
  BY CountIsNat, FS_CardinalityType DEF IoTypeOK, HeldIsFinite, Backlog

\* Reaping moves the frames of a transfer into the thread's hands.
LEMMA ReapConserves ==
  ASSUME IoTypeOK, ConservedInv, Reap, ioPc \notin {"frame", "done"}
  PROVE  ConservedInv'
<1>1. /\ inDone \in Seq(Completion) /\ inDone # <<>> /\ inDone' = Tail(inDone)
      /\ frames = <<>>
  BY DEF IoTypeOK, ConservedInv, Reap
<1>2. /\ Head(inDone) = inDone[1] /\ 1 \in DOMAIN inDone
      /\ Head(inDone) \in Completion
      /\ \A i \in DOMAIN Tail(inDone) :
           i + 1 \in DOMAIN inDone /\ Tail(inDone)[i] = inDone[i + 1]
  BY <1>1
<1>3. frames' = Head(inDone).frames /\ ioPc' \in {"frame", "drainIn"}
      /\ (ioPc' # "frame" => frames' = <<>>)
  BY <1>1, <1>2 DEF Reap, ConservedInv, FailedIsEmpty
<1>4. FailedIsEmpty'
  BY <1>1, <1>2 DEF ConservedInv, FailedIsEmpty
<1>5. \A t : /\ IsFiniteSet(Held(inDone', t))
             /\ Cardinality(Held(inDone, t))
                  = Cardinality(Held(inDone', t)) + Count(frames', t)
  BY <1>1, <1>3, TailHeld DEF ConservedInv, HeldIsFinite
<1>6. HeldIsFinite'
  BY <1>5 DEF HeldIsFinite
<1>7. ASSUME NEW t
      PROVE  Backlog(t)' = Backlog(t)
  <2>1. Count(frames, t) = 0
    BY <1>1, NothingHeld
  <2>2. Cardinality(Held(inDone', t)) \in Nat
    BY <1>5, FS_CardinalityType
  <2>3. frames' \in Seq(Frame)
    BY <1>2, <1>3 DEF Completion
  <2>4. Count(frames', t) \in Nat
    BY <2>3, CountIsNat
  <2> QED
    BY <1>5, <2>1, <2>2, <2>4 DEF Backlog
<1>8. RxConserved'
  BY <1>7 DEF Reap, ConservedInv, RxConserved
<1> QED
  BY <1>3, <1>4, <1>6, <1>8 DEF ConservedInv

\* A transfer that finishes with c adds the frames of c to the backlog.
LEMMA FinishConserves ==
  ASSUME IoTypeOK, ConservedInv, NEW c \in Completion, FinishIn(c),
         ~c.ok => c.frames = <<>>, UNCHANGED frames
  PROVE  /\ FailedIsEmpty' /\ HeldIsFinite'
         /\ \A t : Backlog(t)' = Backlog(t) + Count(c.frames, t)
<1>1. inDone \in Seq(Completion) /\ inDone' = Append(inDone, c)
  BY DEF IoTypeOK, FinishIn
<1>2. \A i \in DOMAIN inDone' :
        (i \in DOMAIN inDone /\ inDone'[i] = inDone[i]) \/ inDone'[i] = c
  BY <1>1
<1>3. FailedIsEmpty'
  BY <1>2 DEF ConservedInv, FailedIsEmpty
<1>4. \A t : /\ IsFiniteSet(Held(inDone', t))
             /\ Cardinality(Held(inDone', t))
                  = Cardinality(Held(inDone, t)) + Count(c.frames, t)
  BY <1>1, AppendHeld DEF ConservedInv, HeldIsFinite
<1>5. HeldIsFinite'
  BY <1>4 DEF HeldIsFinite
<1>6. ASSUME NEW t
      PROVE  Backlog(t)' = Backlog(t) + Count(c.frames, t)
  <2>1. Count(frames, t) \in Nat /\ Cardinality(Held(inDone, t)) \in Nat
    BY BacklogIsNat DEF ConservedInv
  <2>2. Count(c.frames, t) \in Nat
    BY CountIsNat DEF Completion
  <2> QED
    BY <1>4, <2>1, <2>2 DEF Backlog
<1> QED
  BY <1>3, <1>5, <1>6

\* Every step of the thread and of the device keeps the balance.
LEMMA NextConserved ==
  IoTypeOK /\ RxInv /\ ConservedInv /\ [IoNext]_ioVars => ConservedInv'
<1> SUFFICES ASSUME IoTypeOK, RxInv, ConservedInv, [IoNext]_ioVars
             PROVE  ConservedInv'
  OBVIOUS
<1>1. \A t : Backlog(t) \in Nat
  BY BacklogIsNat DEF ConservedInv
<1>2. /\ arpAsked \in Nat /\ arpSent \in Nat /\ arpReplies \in Nat
      /\ ipArrived \in Nat /\ rxPkts \in Nat
  BY DEF IoTypeOK
<1>3. ASSUME UNCHANGED <<frames, inDone, arpAsked, arpSent, arpReplies,
                         ipArrived, rxPkts>>,
             ioPc' = ioPc \/ ioPc \notin {"frame", "done"}
      PROVE  ConservedInv'
  BY <1>3 DEF ConservedInv, FailedIsEmpty, HeldIsFinite, RxConserved, Backlog
<1>4. ASSUME ioPc' = "done", inDone' = <<>>
      PROVE  ConservedInv'
  <2>1. DOMAIN inDone' = {}
    BY <1>4
  <2>2. FailedIsEmpty' /\ HeldIsFinite'
    BY <1>4, <2>1, NothingHeld, FS_EmptySet DEF FailedIsEmpty, HeldIsFinite
  <2> QED
    BY <1>4, <2>2 DEF ConservedInv, RxConserved
<1>5. CASE \/ Start \/ WaitTimeout \/ DrainInEnd \/ CheckRx \/ DrainOut
           \/ DrainOutEnd \/ Refill \/ RefillEnd
  BY <1>3, <1>5 DEF Start, WaitTimeout, DrainInEnd, CheckRx, DrainOut,
                    DrainOutEnd, Refill, RefillEnd
<1>6. CASE OutCompletes \/ Unplug \/ Enqueue \/ StopBridge
  BY <1>3, <1>6 DEF OutCompletes, Unplug, Enqueue, StopBridge
<1>7. CASE UNCHANGED ioVars
  BY <1>3, <1>7 DEF ioVars
<1>8. CASE LoopTest
  <2>1. CASE ioPc' = "done" /\ inDone' = <<>>
    BY <1>4, <2>1
  <2>2. CASE ~ (ioPc' = "done" /\ inDone' = <<>>)
    BY <1>3, <1>8, <2>2 DEF LoopTest
  <2> QED
    BY <2>1, <2>2
<1>9. CASE Gone
  BY <1>4, <1>9 DEF Gone
<1>10. CASE WaitReap \/ DrainInReap
  BY <1>10, ReapConserves DEF WaitReap, DrainInReap
<1>11. CASE OnFrame
  <2>1. /\ frames \in Seq(Frame) /\ frames # <<>> /\ frames' = Tail(frames)
        /\ ioPc' = "frame" /\ ioPc = "frame" /\ inDone' = inDone
        /\ arpAsked' = arpAsked /\ arpSent' = arpSent /\ ipArrived' = ipArrived
        /\ arpReplies' = arpReplies + (IF Head(frames).type = "arpReq" THEN 1 ELSE 0)
        /\ rxPkts' = rxPkts + (IF Head(frames).type = "ip" THEN 1 ELSE 0)
    BY <1>11 DEF OnFrame, IoTypeOK, ToUtun
  <2>2. \A t : /\ Backlog(t)' \in Nat
               /\ Backlog(t) = Backlog(t)'
                    + (IF Head(frames).type = t THEN 1 ELSE 0)
    <3> TAKE t
    <3>1. Tail(frames) \in Seq(Frame)
      BY <2>1
    <3>2. Count(Tail(frames), t) \in Nat /\ Cardinality(Held(inDone, t)) \in Nat
      BY <3>1, CountIsNat, BacklogIsNat DEF ConservedInv
    <3>3. Count(frames, t)
            = Count(Tail(frames), t) + (IF Head(frames).type = t THEN 1 ELSE 0)
      BY <2>1, TailCount
    <3> QED
      BY <2>1, <3>2, <3>3 DEF Backlog
  <2>3. /\ arpAsked = arpSent + arpReplies + Backlog("arpReq")
        /\ ipArrived = rxPkts + Backlog("ip")
    BY <2>1 DEF ConservedInv, RxConserved
  <2>4. RxConserved'
    BY <1>2, <2>1, <2>2, <2>3 DEF RxConserved
  <2> QED
    BY <2>1, <2>4 DEF ConservedInv, FailedIsEmpty, HeldIsFinite
<1>12. CASE RxDone
  <2>1. /\ UNCHANGED <<frames, inDone, arpAsked, ipArrived, rxPkts>>
        /\ frames = <<>> /\ ioPc = "frame" /\ ioPc' = "drainIn"
        /\ arpSent' = arpSent + arpReplies /\ arpReplies' = 0
    BY <1>12 DEF RxDone
  <2>2. \A t : Backlog(t)' = Backlog(t)
    BY <2>1 DEF Backlog
  <2>3. RxConserved'
    BY <1>2, <2>1, <2>2 DEF ConservedInv, RxConserved
  <2> QED
    BY <2>1, <2>3 DEF ConservedInv, FailedIsEmpty, HeldIsFinite
<1>13. CASE \E t \in Transfers : DeviceSends(t)
  <2>1. PICK t \in Transfers : DeviceSends(t)
    BY <1>13
  <2> DEFINE c == [ok |-> TRUE, frames |-> t]
  <2>2. c \in Completion /\ c.frames = t /\ c.ok /\ t \in Seq(Frame)
    BY UsbIoAssumption DEF Completion
  <2>3. /\ FinishIn(c)
        /\ UNCHANGED <<ioPc, frames, arpReplies, rxPkts, arpSent>>
        /\ arpAsked' = arpAsked + Count(t, "arpReq")
        /\ ipArrived' = ipArrived + Count(t, "ip")
    BY <2>1 DEF DeviceSends
  <2>4. ioPc # "done"
    BY <2>3 DEF FinishIn, RxInv
  <2> HIDE DEF c
  <2>5. /\ FailedIsEmpty' /\ HeldIsFinite'
        /\ \A u : Backlog(u)' = Backlog(u) + Count(t, u)
    BY <2>2, <2>3, FinishConserves
  <2>6. Count(t, "arpReq") \in Nat /\ Count(t, "ip") \in Nat
    BY <2>2, CountIsNat
  <2>7. RxConserved'
    BY <1>1, <1>2, <2>3, <2>4, <2>5, <2>6 DEF ConservedInv, RxConserved
  <2> QED
    BY <2>3, <2>5, <2>7 DEF ConservedInv
<1>14. CASE DeviceFails
  <2> DEFINE c == [ok |-> FALSE, frames |-> <<>>]
  <2>1. c \in Completion /\ c.frames = <<>>
    BY EmptyIsSeq DEF Completion
  <2>2. /\ FinishIn(c)
        /\ UNCHANGED <<ioPc, frames, arpReplies, rxPkts, arpSent, arpAsked,
                       ipArrived>>
    BY <1>14 DEF DeviceFails
  <2> HIDE DEF c
  <2>3. /\ FailedIsEmpty' /\ HeldIsFinite'
        /\ \A u : Backlog(u)' = Backlog(u) + Count(<<>>, u)
    BY <2>1, <2>2, FinishConserves
  <2>4. \A u : Backlog(u)' = Backlog(u)
    BY <1>1, <2>3, NothingHeld
  <2>5. RxConserved'
    BY <2>2, <2>4 DEF ConservedInv, RxConserved
  <2> QED
    BY <2>2, <2>3, <2>5 DEF ConservedInv
<1> QED
  BY <1>5, <1>6, <1>7, <1>8, <1>9, <1>10, <1>11, <1>12, <1>13, <1>14
     DEF IoNext, IoThread, Device

\* Every ARP request for our address is answered once and every IP frame reaches
\* utun once, or is still in the backlog, whatever shares its transfer.
THEOREM FramesAreConserved == IoSpec => []RxConserved
<1>1. IoInit => IoTypeOK /\ RxInv /\ ConservedInv
  BY InitRx, InitConserved
<1>2. /\ IoTypeOK /\ RxInv /\ ConservedInv
      /\ [IoNext]_ioVars
      => (IoTypeOK /\ RxInv /\ ConservedInv)'
  BY NextRx, NextConserved
<1>3. ConservedInv => RxConserved
  BY DEF ConservedInv
<1> QED
  BY <1>1, <1>2, <1>3, PTL DEF IoSpec

-----------------------------------------------------------------------------
(* The contract *)

\* The thread's position, as the session sees it
Io == IF ioPc \in {"gone", "done"} THEN ioPc ELSE "run"

\* A step that leaves what the contract names alone is a stutter.
LEMMA ContractStutter ==
  ASSUME Io' = Io,
         UNCHANGED <<txChan, enqueued, txPkts, bridge, deviceGone, plugged>>
  PROVE  UNCHANGED Contract!contractVars
  BY DEF Contract!contractVars, Io

\* Every step of UsbIo is a step of the contract or a stutter.
LEMMA StepOfContract ==
  ASSUME IoTypeOK, RxInv, [IoNext]_ioVars
  PROVE  [Contract!ContractNext]_(Contract!contractVars)
<1> USE DEF Contract!ContractNext, Contract!Io
<1>1. CASE LoopTest
  <2>1. CASE KeepRunning
    BY <1>1, <2>1, ContractStutter DEF LoopTest, Io
  <2>2. CASE ~KeepRunning
    <3>1. Contract!Quit
      BY <1>1, <2>2 DEF LoopTest, KeepRunning, Contract!Quit
    <3> QED
      BY <3>1
  <2> QED
    BY <2>1, <2>2
<1>2. CASE CheckRx
  <2>1. CASE AllRxLost
    <3>1. Contract!GiveUp
      BY <1>2, <2>1
         DEF CheckRx, GoneStored, Contract!GiveUp, Contract!GoneFlag
    <3> QED
      BY <3>1
  <2>2. CASE ~AllRxLost
    BY <1>2, <2>2, ContractStutter DEF CheckRx, Io
  <2> QED
    BY <2>1, <2>2
<1>3. CASE Gone
  <2>1. Contract!QuitGone
    BY <1>3 DEF Gone, Contract!QuitGone
  <2> QED
    BY <2>1
<1>4. CASE DrainOut
  <2>1. CASE txChan # <<>> /\ SubmitNext(Tail(out))
    <3>1. Contract!Take
      BY <1>4, <2>1 DEF DrainOut, SubmitNext, Contract!Take
    <3> QED
      BY <3>1
  <2>2. CASE txChan = <<>> /\ out' = Tail(out) /\ UNCHANGED <<txChan, txPkts>>
    BY <1>4, <2>2, ContractStutter DEF DrainOut, Io
  <2> QED
    BY <1>4, <2>1, <2>2 DEF DrainOut
<1>5. CASE Refill
  <2>1. Contract!Take
    BY <1>5 DEF Refill, SubmitNext, Contract!Take
  <2> QED
    BY <2>1
<1>6. CASE Enqueue
  <2>1. Contract!Put
    BY <1>6 DEF Enqueue, Contract!Put, Contract!CanPut
  <2> QED
    BY <2>1
<1>7. CASE StopBridge
  <2>1. Contract!Stop
    BY <1>7 DEF StopBridge, Contract!Stop
  <2> QED
    BY <2>1
<1>8. CASE Unplug
  <2>1. Contract!PullPlug
    BY <1>8 DEF Unplug, Contract!PullPlug
  <2> QED
    BY <2>1
<1>9. CASE \/ Start \/ WaitTimeout \/ OnFrame \/ RxDone \/ DrainInEnd
           \/ DrainOutEnd \/ RefillEnd
  BY <1>9, ContractStutter
     DEF Start, WaitTimeout, OnFrame, RxDone, DrainInEnd, DrainOutEnd, RefillEnd,
         Io
<1>10. CASE WaitReap \/ DrainInReap
  BY <1>10, ContractStutter DEF WaitReap, DrainInReap, Reap, Io
<1>11. CASE (\E t \in Transfers : DeviceSends(t)) \/ DeviceFails \/ OutCompletes
  BY <1>11, ContractStutter DEF DeviceSends, DeviceFails, FinishIn, OutCompletes, Io
<1>12. CASE UNCHANGED ioVars
  BY <1>12, ContractStutter DEF ioVars, Io
<1> QED
  BY <1>1, <1>2, <1>3, <1>4, <1>5, <1>6, <1>7, <1>8, <1>9, <1>10, <1>11, <1>12
     DEF IoNext, IoThread, Device

\* UsbIo::run and the device implement the contract the session is built on.
THEOREM IoImplementsContract == IoSpec => ImplementsContract
<1>1. IoInit => Contract!ContractInit
  BY DEF IoInit, Contract!ContractInit
<1>2. /\ IoTypeOK /\ RxInv
      /\ [IoNext]_ioVars
      => [Contract!ContractNext]_(Contract!contractVars)
  BY StepOfContract
<1> QED
  BY <1>1, <1>2, RxInvariant, PTL DEF IoSpec, ImplementsContract,
     Contract!ContractSpec
=============================================================================
