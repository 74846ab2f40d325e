-------------------------- MODULE LinkSetupProofs ---------------------------
(***************************************************************************)
(* Theorems about LinkSetup: for any set of servers and any bound on       *)
(* faults, sessions, attempts and messages in a transfer.                  *)
(*                                                                         *)
(* The two protocols meet only in the position of the session, so each has *)
(* an inductive invariant of its own: HandshakeInv for the requests of the *)
(* driver, LeaseInv for DHCP, and PlaceInv for where the two stand to each *)
(* other.                                                                  *)
(***************************************************************************)
EXTENDS LinkSetup, SequenceTheorems, WellFoundedInduction, TLAPS

-----------------------------------------------------------------------------
(* The inductive invariants *)

\* A request is on its way only while init makes it.
SentInv == sent => step \in Requests

\* Nothing is missed without a fault.
MissedInv == missed <= faults

\* What the phone holds while it keeps up: nothing, the request being made, or
\* its answer.
Clear    == Len(asked) = 0 /\ Len(ready) = 0
Asking   == Len(asked) = 1 /\ asked[1] = step /\ Len(ready) = 0
Answered == /\ Len(asked) = 0 /\ Len(ready) = 1
            /\ ready[1].to = step /\ ready[1].result = said[step]

MacOfCurrent == IF said["current"] = "ok" THEN "current" ELSE "zero"

MacOfBoth ==
  IF said["permanent"] # "error"
  THEN IF said["permanent"] = "ok" THEN "permanent" ELSE "zero"
  ELSE MacOfCurrent

\* Request and answer go in step, and the address is that of the queries made.
InStepInv ==
  inStep =>
    /\ step \in Requests /\ ~sent => Clear
    /\ step \in Requests /\ sent => Asking \/ Answered
    /\ step = "up" => Clear
    /\ step \in {"init", "current"} => mac = "zero"
    /\ step = "permanent" => mac = MacOfCurrent
    /\ step \in {"set", "up"} => mac = MacOfBoth

HandshakeInv == RndisTypeOK /\ BehindByMissed /\ SentInv /\ MissedInv /\ InStepInv

\* The steps of the driver, of the phone and of its user
HandshakeStep ==
  \/ NewDriver \/ Send \/ UsbError \/ Receive \/ ReceiveNothing
  \/ \E r \in Results : Complete(r)
  \/ Replug \/ DropDriver \/ UNCHANGED rndisVars

-----------------------------------------------------------------------------
(* The handshake *)

LEMMA HandshakeInit == RndisInit0 => HandshakeInv
<1> SUFFICES ASSUME RndisInit0 PROVE HandshakeInv
  OBVIOUS
<1>1. Len(asked) = 0 /\ Len(ready) = 0
  BY DEF RndisInit0
<1>2. asked \in Seq(Requests) /\ ready \in Seq(Completions)
  BY DEF RndisInit0
<1>3. said \in [Requests -> Results]
  BY DEF RndisInit0, Results
<1>4. RndisTypeOK
  <2>1. sent \in BOOLEAN /\ inStep \in BOOLEAN
    BY DEF RndisInit0
  <2>2. faults \in 0..MaxFaults /\ missed \in 0..MaxFaults
    BY RndisAssumption DEF RndisInit0
  <2>3. mac \in Macs /\ step \in Requests \cup {"off", "failed", "up"}
    BY DEF RndisInit0, Macs
  <2> QED
    BY <1>2, <1>3, <2>1, <2>2, <2>3 DEF RndisTypeOK
<1> QED
  BY <1>1, <1>4 DEF RndisInit0, HandshakeInv, BehindByMissed, SentInv, MissedInv,
                    InStepInv, Requests, Oids

\* A new driver finds the phone as far behind as the last one left it.
LEMMA HandshakeNewDriver == HandshakeInv /\ NewDriver => HandshakeInv'
<1> SUFFICES ASSUME HandshakeInv, NewDriver PROVE HandshakeInv'
  OBVIOUS
<1>1. /\ step' = "init" /\ sent' = FALSE /\ mac' = "zero"
      /\ asked' = asked /\ ready' = ready /\ faults' = faults /\ missed' = missed
      /\ said' = [r \in Requests |-> "error"]
  BY Zenon DEF NewDriver
<1>2. inStep' \in BOOLEAN /\ (inStep' => asked = <<>> /\ ready = <<>>)
  BY DEF NewDriver
<1>3. inStep' => Len(asked') = 0 /\ Len(ready') = 0
  BY <1>1, <1>2
<1>4. ~sent
  BY DEF NewDriver, HandshakeInv, SentInv, Requests, Oids
<1>5. RndisTypeOK'
  <2>1. said' \in [Requests -> Results]
    BY <1>1 DEF Results
  <2> QED
    BY <1>1, <1>2, <2>1 DEF HandshakeInv, RndisTypeOK, Requests, Macs
<1> QED
  BY <1>1, <1>3, <1>4, <1>5 DEF HandshakeInv, BehindByMissed, SentInv, MissedInv,
     InStepInv, Clear, Requests, Oids

\* One more request is with the phone, and its answer is due.
LEMMA HandshakeSend == HandshakeInv /\ Send => HandshakeInv'
<1> SUFFICES ASSUME HandshakeInv, Send PROVE HandshakeInv'
  OBVIOUS
<1>1. /\ step \in Requests /\ ~sent /\ sent' = TRUE
      /\ asked' = Append(asked, step)
      /\ step' = step /\ mac' = mac /\ ready' = ready /\ faults' = faults
      /\ missed' = missed /\ inStep' = inStep /\ said' = said
  BY Zenon DEF Send
<1>2. asked \in Seq(Requests)
  BY DEF HandshakeInv, RndisTypeOK
<1>3. /\ asked' \in Seq(Requests) /\ Len(asked') = Len(asked) + 1
      /\ asked'[Len(asked) + 1] = step
  BY <1>1, <1>2, AppendProperties
<1>4. RndisTypeOK'
  BY <1>1, <1>3 DEF HandshakeInv, RndisTypeOK
<1>5. BehindByMissed'
  BY <1>1, <1>2, <1>3 DEF HandshakeInv, RndisTypeOK, BehindByMissed
<1>6. InStepInv'
  <2>1. inStep => Len(asked) = 0 /\ Len(ready) = 0
    BY <1>1 DEF HandshakeInv, InStepInv, Clear
  <2>2. inStep => Asking'
    BY <1>1, <1>3, <2>1 DEF Asking
  <2> QED
    BY <1>1, <2>2 DEF HandshakeInv, InStepInv, MacOfCurrent, MacOfBoth, Requests, Oids
<1> QED
  BY <1>1, <1>4, <1>5, <1>6 DEF HandshakeInv, SentInv, MissedInv

\* An error ends init; the answer that was due is missed, or was consumed.
LEMMA HandshakeUsbError == HandshakeInv /\ UsbError => HandshakeInv'
<1> SUFFICES ASSUME HandshakeInv, UsbError PROVE HandshakeInv'
  OBVIOUS
<1>1. /\ step' = "failed" /\ sent' = FALSE
      /\ mac' = mac /\ asked' = asked /\ inStep' = inStep /\ said' = said
      /\ faults < MaxFaults /\ faults' = faults + 1
  BY Zenon DEF UsbError, Fault
<1>2. /\ asked \in Seq(Requests) /\ ready \in Seq(Completions)
      /\ Len(asked) \in Nat /\ Len(ready) \in Nat
      /\ missed \in Nat /\ missed <= faults /\ faults \in Nat
      /\ Len(asked) + Len(ready) = missed + (IF sent THEN 1 ELSE 0)
      /\ sent \in BOOLEAN
  BY RndisAssumption DEF HandshakeInv, RndisTypeOK, MissedInv, BehindByMissed
<1>3. /\ ready' \in Seq(Completions)
      /\ missed' \in 0..(faults + 1)
      /\ Len(asked) + Len(ready') = missed'
  <2>1. CASE missed' = missed + (IF sent THEN 1 ELSE 0) /\ ready' = ready
    BY <1>2, <2>1
  <2>2. CASE sent /\ ready # <<>> /\ ready' = Tail(ready) /\ missed' = missed
    <3>1. ready' \in Seq(Completions) /\ Len(ready') = Len(ready) - 1
      BY <1>2, <2>2, HeadTailProperties
    <3> QED
      BY <1>2, <2>2, <3>1
  <2> QED
    BY <2>1, <2>2 DEF UsbError
<1>4. RndisTypeOK'
  <2>1. faults' \in 0..MaxFaults /\ missed' \in 0..MaxFaults
    BY <1>1, <1>2, <1>3, RndisAssumption
  <2>2. sent' \in BOOLEAN /\ step' \in Requests \cup {"off", "failed", "up"}
    BY <1>1
  <2> QED
    BY <1>1, <1>3, <2>1, <2>2 DEF HandshakeInv, RndisTypeOK
<1> QED
  BY <1>1, <1>2, <1>3, <1>4 DEF HandshakeInv, BehindByMissed, SentInv, MissedInv,
     InStepInv, Requests, Oids

\* The oldest answer is read, whatever it answers (proto_rndis.rs:33-70).
LEMMA HandshakeReceive == HandshakeInv /\ Receive => HandshakeInv'
<1> SUFFICES ASSUME HandshakeInv, Receive PROVE HandshakeInv'
  OBVIOUS
<1> DEFINE c == Head(ready)
<1>1. /\ sent /\ ready # <<>> /\ ready' = Tail(ready)
      /\ mac' = NewMac(c) /\ step' = After(c) /\ sent' = FALSE
      /\ asked' = asked /\ faults' = faults /\ missed' = missed
      /\ inStep' = inStep /\ said' = said
  BY Zenon DEF Receive, Unread
<1>2. step \in Requests
  BY <1>1 DEF HandshakeInv, SentInv
<1>3. asked \in Seq(Requests) /\ ready \in Seq(Completions) /\ mac \in Macs
  BY DEF HandshakeInv, RndisTypeOK
<1>4. /\ c \in Completions /\ c = ready[1]
      /\ ready' \in Seq(Completions) /\ Len(ready') = Len(ready) - 1
  BY <1>1, <1>3, HeadTailProperties
<1> HIDE DEF c
<1>5. step' \in {"failed", "current", "permanent", "set", "up"}
  BY <1>1, <1>2 DEF After, Following, Requests, Oids
<1>6. mac' \in Macs
  BY <1>1, <1>3 DEF NewMac, Macs
<1>7. RndisTypeOK'
  BY <1>1, <1>4, <1>5, <1>6 DEF HandshakeInv, RndisTypeOK, Requests, Oids
<1>8. BehindByMissed'
  BY <1>1, <1>3, <1>4 DEF HandshakeInv, RndisTypeOK, BehindByMissed
<1>9. InStepInv'
  <2> SUFFICES ASSUME inStep PROVE InStepInv'
    BY <1>1 DEF InStepInv
  <2>1. Asking \/ Answered
    BY <1>1, <1>2 DEF HandshakeInv, InStepInv
  <2>2. Len(ready) # 0
    BY <1>1, <1>3
  <2>3. /\ Len(asked) = 0 /\ Len(ready) = 1
        /\ c.to = step /\ c.result = said[step]
    BY <1>4, <2>1, <2>2 DEF Asking, Answered
  <2>4. Clear'
    BY <1>1, <1>4, <2>3 DEF Clear
  <2>5. c.result \in Results
    BY <1>4 DEF Completions
  <2>6. CASE step = "init"
    <3>1. mac' = "zero" /\ step' \in {"failed", "current"}
      BY <1>1, <2>6 DEF HandshakeInv, InStepInv, NewMac, After, Following, Oids
    <3> QED
      BY <1>1, <2>4, <3>1 DEF InStepInv, Requests, Oids
  <2>7. CASE step = "current"
    <3>1. mac' = MacOfCurrent' /\ step' = "permanent"
      BY <1>1, <2>3, <2>5, <2>7
         DEF HandshakeInv, InStepInv, NewMac, After, Following, Oids, MacOfCurrent,
             Results
    <3> QED
      BY <1>1, <2>4, <3>1 DEF InStepInv, Requests, Oids
  <2>8. CASE step = "permanent"
    <3>1. mac' = MacOfBoth' /\ step' = "set"
      BY <1>1, <2>3, <2>5, <2>8
         DEF HandshakeInv, InStepInv, NewMac, After, Following, Oids, MacOfCurrent,
             MacOfBoth, Results
    <3> QED
      BY <1>1, <2>4, <3>1 DEF InStepInv, Requests, Oids
  <2>9. CASE step = "set"
    <3>1. mac' = MacOfBoth' /\ step' = "up"
      BY <1>1, <2>9
         DEF HandshakeInv, InStepInv, NewMac, After, Following, Oids, MacOfCurrent,
             MacOfBoth
    <3> QED
      BY <1>1, <2>4, <3>1 DEF InStepInv, Requests, Oids
  <2> QED
    BY <1>2, <2>6, <2>7, <2>8, <2>9 DEF Requests, Oids
<1> QED
  BY <1>1, <1>7, <1>8, <1>9 DEF HandshakeInv, SentInv, MissedInv

\* Nothing is read, and the answer will be one too many (proto_rndis.rs:33-70).
LEMMA HandshakeReceiveNothing == HandshakeInv /\ ReceiveNothing => HandshakeInv'
<1> SUFFICES ASSUME HandshakeInv, ReceiveNothing PROVE HandshakeInv'
  OBVIOUS
<1>1. /\ sent /\ step' = After(Nothing) /\ sent' = FALSE /\ inStep' = FALSE
      /\ faults < MaxFaults /\ faults' = faults + 1 /\ missed' = missed + 1
      /\ mac' = mac /\ asked' = asked /\ ready' = ready /\ said' = said
  BY Zenon DEF ReceiveNothing, Fault
<1>2. step \in Requests
  BY <1>1 DEF HandshakeInv, SentInv
<1>3. step' \in {"failed", "current", "permanent", "set", "up"}
  BY <1>1, <1>2 DEF After, Following, Requests, Oids
<1>4. /\ Len(asked) \in Nat /\ Len(ready) \in Nat
      /\ missed \in Nat /\ missed <= faults /\ faults \in Nat
      /\ Len(asked) + Len(ready) = missed + 1
  BY <1>1, RndisAssumption DEF HandshakeInv, RndisTypeOK, MissedInv, BehindByMissed
<1>5. RndisTypeOK'
  <2>1. faults' \in 0..MaxFaults /\ missed' \in 0..MaxFaults
    BY <1>1, <1>4, RndisAssumption
  <2>2. sent' \in BOOLEAN /\ inStep' \in BOOLEAN
    BY <1>1
  <2>3. step' \in Requests \cup {"off", "failed", "up"}
    BY <1>3 DEF Requests, Oids
  <2> QED
    BY <1>1, <2>1, <2>2, <2>3 DEF HandshakeInv, RndisTypeOK
<1> QED
  BY <1>1, <1>4, <1>5 DEF HandshakeInv, BehindByMissed, SentInv, MissedInv, InStepInv

\* The phone answers its oldest request.
LEMMA HandshakeComplete ==
  ASSUME HandshakeInv, NEW r \in Results, Complete(r)
  PROVE  HandshakeInv'
<1> DEFINE a == Head(asked)
           answer == [to |-> a, result |-> r]
<1>1. /\ asked # <<>> /\ asked' = Tail(asked) /\ ready' = Append(ready, answer)
      /\ faults' = faults \/ (faults < MaxFaults /\ faults' = faults + 1)
      /\ said' = [said EXCEPT ![a] = r]
      /\ step' = step /\ sent' = sent /\ mac' = mac /\ missed' = missed
      /\ inStep' = inStep
  BY DEF Complete, Fault
<1>2. asked \in Seq(Requests) /\ ready \in Seq(Completions)
  BY DEF HandshakeInv, RndisTypeOK
<1>3. /\ a \in Requests /\ a = asked[1]
      /\ asked' \in Seq(Requests) /\ Len(asked') = Len(asked) - 1
  BY <1>1, <1>2, HeadTailProperties
<1> HIDE DEF a
<1>4. answer \in Completions /\ answer.to = a /\ answer.result = r
  BY <1>3 DEF Completions
<1> HIDE DEF answer
<1>5. /\ ready' \in Seq(Completions) /\ Len(ready') = Len(ready) + 1
      /\ ready'[Len(ready) + 1] = answer
  BY <1>1, <1>2, <1>4, AppendProperties
<1>6. /\ said' \in [Requests -> Results] /\ said'[a] = r
      /\ \A q \in Requests : q # a => said'[q] = said[q]
  BY <1>1, <1>3 DEF HandshakeInv, RndisTypeOK
<1>7. faults \in Nat /\ faults' \in 0..MaxFaults /\ faults <= faults'
  BY <1>1, RndisAssumption DEF HandshakeInv, RndisTypeOK
<1>8. RndisTypeOK'
  BY <1>1, <1>3, <1>5, <1>6, <1>7 DEF HandshakeInv, RndisTypeOK
<1>9. BehindByMissed' /\ MissedInv'
  <2>1. /\ missed \in Nat /\ Len(asked) \in Nat /\ Len(ready) \in Nat
        /\ missed <= faults
    BY <1>2, RndisAssumption DEF HandshakeInv, RndisTypeOK, MissedInv
  <2>2. Len(asked') + Len(ready') = Len(asked) + Len(ready)
    BY <1>3, <1>5, <2>1
  <2>3. BehindByMissed'
    BY <1>1, <2>2 DEF HandshakeInv, BehindByMissed
  <2>4. missed' <= faults'
    BY <1>1, <1>7, <2>1
  <2> QED
    BY <2>3, <2>4 DEF MissedInv
<1>10. InStepInv'
  <2> SUFFICES ASSUME inStep PROVE InStepInv'
    BY <1>1 DEF InStepInv
  <2>1. Len(asked) # 0
    BY <1>1, <1>2
  <2>2. CASE step \in Requests /\ sent
    <3>1. Len(asked) = 1 /\ asked[1] = step /\ Len(ready) = 0
      BY <2>1, <2>2 DEF HandshakeInv, InStepInv, Asking, Answered
    <3>2. Answered'
      BY <1>1, <1>3, <1>4, <1>5, <1>6, <3>1 DEF Answered
    <3>3. \A q \in Requests : q # step => said'[q] = said[q]
      BY <1>3, <1>6, <3>1
    <3>4. /\ step = "permanent" => MacOfCurrent' = MacOfCurrent
          /\ step = "set" => MacOfBoth' = MacOfBoth
      BY <3>3 DEF MacOfCurrent, MacOfBoth, Requests, Oids
    <3> QED
      BY <1>1, <2>2, <3>2, <3>4 DEF HandshakeInv, InStepInv, Requests, Oids
  <2>3. CASE step \in {"off", "failed"}
    BY <1>1, <2>3 DEF InStepInv, Requests, Oids
  <2>4. step \in Requests /\ ~sent => FALSE
    BY <2>1 DEF HandshakeInv, InStepInv, Clear
  <2>5. step # "up"
    BY <2>1 DEF HandshakeInv, InStepInv, Clear
  <2> QED
    BY <2>2, <2>3, <2>4, <2>5 DEF HandshakeInv, RndisTypeOK
<1> QED
  BY <1>1, <1>8, <1>9, <1>10 DEF HandshakeInv, SentInv

\* A phone that is plugged in again has forgotten what it owed, and one that is
\* not keeps it when the session drops its driver.
LEMMA HandshakeReplug == HandshakeInv /\ (Replug \/ DropDriver) => HandshakeInv'
<1> SUFFICES ASSUME HandshakeInv, Replug \/ DropDriver PROVE HandshakeInv'
  OBVIOUS
<1>1. CASE Replug
  <2>1. /\ step \in {"off", "failed"} /\ step' = step /\ sent' = sent /\ mac' = mac
        /\ faults' = faults /\ inStep' = inStep /\ said' = said /\ missed' = 0
    BY <1>1 DEF Replug
  <2>2. ~sent
    BY <2>1 DEF HandshakeInv, SentInv, Requests, Oids
  <2>3. /\ asked' \in Seq(Requests) /\ ready' \in Seq(Completions)
        /\ Len(asked') = 0 /\ Len(ready') = 0
    BY <1>1 DEF Replug
  <2>4. missed' \in 0..MaxFaults /\ missed' <= faults'
    BY <2>1, RndisAssumption DEF HandshakeInv, RndisTypeOK
  <2>5. RndisTypeOK'
    BY <2>1, <2>3, <2>4 DEF HandshakeInv, RndisTypeOK
  <2> QED
    BY <2>1, <2>2, <2>3, <2>4, <2>5 DEF HandshakeInv, BehindByMissed, SentInv,
       MissedInv, InStepInv, Requests, Oids
<1>2. CASE DropDriver
  <2>1. /\ step = "up" /\ step' = "off" /\ sent' = sent /\ mac' = mac
        /\ faults' = faults /\ inStep' = inStep /\ said' = said
        /\ missed' = missed /\ asked' = asked /\ ready' = ready
    BY <1>2 DEF DropDriver
  <2>2. ~sent
    BY <2>1 DEF HandshakeInv, SentInv, Requests, Oids
  <2>3. RndisTypeOK'
    BY <2>1 DEF HandshakeInv, RndisTypeOK
  <2> QED
    BY <2>1, <2>2, <2>3 DEF HandshakeInv, BehindByMissed, SentInv, MissedInv,
       InStepInv, Requests, Oids
<1> QED
  BY <1>1, <1>2

LEMMA HandshakeIdle == HandshakeInv /\ UNCHANGED rndisVars => HandshakeInv'
BY DEF rndisVars, HandshakeInv, RndisTypeOK, BehindByMissed, SentInv, MissedInv,
       InStepInv, Clear, Asking, Answered, MacOfCurrent, MacOfBoth

LEMMA HandshakeKept == HandshakeInv /\ HandshakeStep => HandshakeInv'
BY HandshakeNewDriver, HandshakeSend, HandshakeUsbError, HandshakeReceive,
   HandshakeReceiveNothing, HandshakeComplete, HandshakeReplug, HandshakeIdle
   DEF HandshakeStep

-----------------------------------------------------------------------------
(* DHCP: the inductive invariant *)

DiscoversHeard == [kind : {"discover"}, run : Runs]

RequestsHeard ==
  [kind : {"request"}, run : Runs, server : Servers, ip : Addresses]

HeardOK == heard \in [Servers -> {None} \cup DiscoversHeard \cup RequestsHeard]

\* What the client knows by its position
ClientInv ==
  /\ phase \in {"discover", "offer", "request", "ack"} => run \in Runs
  /\ phase \in {"request", "ack"} => offered \in Addresses /\ server \in Servers

\* An ACK on its way was sent when its address was acknowledged.
AckInv ==
  /\ \A i \in DOMAIN inq : inq[i].type = "ack" => inq[i].ip \in acked
  /\ LeaseWasAcknowledged

\* In a run without left-overs: what is on its way, what servers have heard, and
\* what was taken
OffersOnly ==
  \A i \in DOMAIN inq :
    /\ inq[i].type = "offer"
    /\ inq[i].ip.by = inq[i].server
    /\ inq[i].ip.run = run

OnlyDiscoverHeard ==
  \A s \in Servers :
    heard[s] # None => heard[s].kind = "discover" /\ heard[s].run = run

OnlyRequestHeard ==
  \A s \in Servers :
    heard[s] # None =>
      /\ heard[s].kind = "request"
      /\ heard[s].server = server
      /\ heard[s].ip = offered

OfferTaken ==
  /\ offered \in Addresses
  /\ offered.by = server
  /\ offered.run = run

AcksAreOurs ==
  \A i \in DOMAIN inq :
    inq[i].type = "ack" => inq[i].ip = offered /\ bound[server] = offered

CleanInv ==
  clean =>
    /\ phase = "discover" => Len(inq) = 0 /\ \A s \in Servers : heard[s] = None
    /\ phase = "offer" => OffersOnly /\ OnlyDiscoverHeard
    /\ phase = "request" => OffersOnly /\ OnlyDiscoverHeard /\ OfferTaken
    /\ phase = "ack" => OnlyRequestHeard /\ OfferTaken /\ AcksAreOurs
    /\ phase = "done" /\ lease \in Addresses =>
         /\ OnlyRequestHeard /\ OfferTaken
         /\ lease = offered /\ bound[server] = offered

LeaseInv ==
  DhcpTypeOK /\ HeardOK /\ ClientInv /\ AckInv /\ CleanInv
  /\ (phase # "done" => lease = None)

-----------------------------------------------------------------------------
(* Transfers *)

\* A set of numbers that is not empty has a least one.
LEMMA LeastElement ==
  ASSUME NEW I \in SUBSET Nat, I # {}
  PROVE  \E x \in I : \A y \in I : x <= y
<1> DEFINE Less == OpToRel(<, Nat)
<1>1. IsWellFoundedOn(Less, Nat)
  BY NatLessThanWellFounded
<1>2. \A x, y \in Nat : x < y => <<x, y>> \in Less
  BY DEF OpToRel
<1> HIDE DEF Less
<1>3. PICK x \in I : \A y \in I : ~ (<<y, x>> \in Less)
  BY <1>1, WFMin
<1>4. ASSUME NEW y \in I PROVE x <= y
  <2>1. ~ (y < x)
    BY <1>2, <1>3
  <2> QED
    BY <2>1
<1> QED
  BY <1>4

\* Min and Max, where the code looks for the first or the last message of its
\* kind.
LEMMA MinOf ==
  ASSUME NEW I \in SUBSET Nat, I # {}
  PROVE  Min(I) \in I /\ \A i \in I : Min(I) <= i
<1>1. \E x \in I : \A y \in I : x <= y
  BY LeastElement
<1> QED
  BY <1>1 DEF Min

LEMMA MaxOf ==
  ASSUME NEW n \in Nat, NEW I \in SUBSET (1..n), I # {}
  PROVE  Max(I) \in I /\ \A i \in I : Max(I) >= i
<1> DEFINE J == {n - i : i \in I}
<1>1. \A i \in I : n - i \in J /\ n - i \in Nat
  OBVIOUS
<1>2. J \in SUBSET Nat /\ J # {}
  BY <1>1
<1>3. PICK x \in J : \A y \in J : x <= y
  <2> HIDE DEF J
  <2> QED
    BY <1>2, LeastElement
<1>4. PICK m \in I : x = n - m
  OBVIOUS
<1>5. ASSUME NEW i \in I PROVE m >= i
  <2>1. x <= n - i
    BY <1>1, <1>3
  <2>2. m \in 1..n /\ i \in 1..n
    OBVIOUS
  <2> HIDE DEF J
  <2> QED
    BY <1>4, <2>1, <2>2
<1> QED
  BY <1>4, <1>5 DEF Max

\* A transfer is the front of what is on its way, and the rest stays
\* (dhcp.rs:195-197, 275-277).
LEMMA TransferIsFront ==
  ASSUME inq \in Seq(Messages), NEW t \in Transfers
  PROVE  /\ t \in Seq(Messages)
         /\ \A i \in DOMAIN t : i \in DOMAIN inq /\ t[i] = inq[i]
         /\ LET rest == SubSeq(inq, Len(t) + 1, Len(inq))
            IN /\ rest \in Seq(Messages)
               /\ \A i \in DOMAIN rest :
                    \E j \in DOMAIN inq : rest[i] = inq[j]
<1>1. PICK n \in 0..Min({MaxFrames, Len(inq)}) : t = SubSeq(inq, 1, n)
  BY DEF Transfers
<1>2. Len(inq) \in Nat /\ DOMAIN inq = 1..Len(inq)
  OBVIOUS
<1>3. n \in Nat /\ n <= Len(inq)
  <2>1. {MaxFrames, Len(inq)} \in SUBSET Nat
    BY <1>2, DhcpAssumption
  <2>2. /\ Min({MaxFrames, Len(inq)}) \in Nat
        /\ Min({MaxFrames, Len(inq)}) <= Len(inq)
    BY <2>1, MinOf
  <2> QED
    BY <1>2, <2>2
<1>4. t \in Seq(Messages) /\ Len(t) = n /\ \A i \in 1..n : t[i] = inq[i]
  BY <1>1, <1>2, <1>3
<1> DEFINE rest == SubSeq(inq, n + 1, Len(inq))
<1>5. /\ rest \in Seq(Messages) /\ Len(rest) = Len(inq) - n
      /\ \A i \in 1..Len(rest) : rest[i] = inq[n + i]
  <2> DEFINE m == n + 1
             k == Len(inq)
  <2>1. m \in Int /\ k \in Int /\ \A i \in m..k : inq[i] \in Messages
    BY <1>2, <1>3
  <2>2. k \in Nat /\ m = n + 1 /\ m <= k + 1
    BY <1>2, <1>3
  <2>3. rest = SubSeq(inq, m, k)
    OBVIOUS
  <2> HIDE DEF rest, m, k
  <2>4. /\ rest \in Seq(Messages)
        /\ Len(rest) = IF m <= k THEN k - m + 1 ELSE 0
        /\ \A i \in 1..(k - m + 1) : rest[i] = inq[m + i - 1]
    BY ONLY <2>1, <2>3, SubSeqProperties
  <2>5. Len(rest) = k - n /\ k - m + 1 = k - n
    BY ONLY <1>3, <2>2, <2>4
  <2>6. ASSUME NEW i \in 1..Len(rest) PROVE rest[i] = inq[n + i]
    <3>1. m + i - 1 = n + i
      BY ONLY <1>3, <2>2, <2>5, <2>6
    <3> QED
      BY ONLY <2>4, <2>5, <2>6, <3>1
  <2> QED
    BY ONLY <2>4, <2>5, <2>6, Zenon DEF k
<1> HIDE DEF rest
<1>6. \A i \in DOMAIN rest : n + i \in DOMAIN inq /\ rest[i] = inq[n + i]
  BY <1>2, <1>3, <1>5
<1>7. \A i \in DOMAIN t : i \in DOMAIN inq /\ t[i] = inq[i]
  BY <1>2, <1>3, <1>4
<1> QED
  BY <1>4, <1>5, <1>6, <1>7 DEF rest

\* Addresses are not the marks for none and for the built-in lease.
LEMMA AddressesAreReal == None \notin Addresses /\ Default \notin Addresses
BY DEF None, Default, Addresses

LEMMA MessagesAreReal == \A m \in Messages : m.ip \in Addresses /\ m.server \in Servers
BY DEF Messages

\* What a server has heard is told apart by its kind.
LEMMA HeardByKind ==
  ASSUME HeardOK, NEW s \in Servers, heard[s] # None
  PROVE  /\ heard[s].kind = "discover" => heard[s].run \in Runs
         /\ heard[s].kind = "request" =>
              heard[s].ip \in Addresses /\ heard[s].server \in Servers
BY DEF HeardOK, DiscoversHeard, RequestsHeard

-----------------------------------------------------------------------------
(* DHCP: the steps *)

LEMMA LeaseInit == DhcpInit => LeaseInv
<1> SUFFICES ASSUME DhcpInit PROVE LeaseInv
  OBVIOUS
<1>1. inq \in Seq(Messages) /\ DOMAIN inq = {}
  BY DEF DhcpInit
<1>2. \A s \in Servers : heard[s] = None /\ bound[s] = None
  BY DEF DhcpInit, Quiet
<1>3. DhcpTypeOK
  <2>1. bound \in [Servers -> Addresses \cup {None}]
    BY DEF DhcpInit, Quiet
  <2>2. clean \in BOOLEAN /\ acked \subseteq Addresses
    BY DEF DhcpInit
  <2> QED
    BY <1>1, <2>1, <2>2, DhcpAssumption DEF DhcpInit, DhcpTypeOK
<1>4. HeardOK
  BY DEF DhcpInit, Quiet, HeardOK
<1>5. AckInv
  BY <1>1, AddressesAreReal DEF DhcpInit, AckInv, LeaseWasAcknowledged
<1> QED
  BY <1>3, <1>4, <1>5 DEF DhcpInit, LeaseInv, ClientInv, CleanInv

\* A call of discover() starts with what earlier ones left (dhcp.rs:177-194).
LEMMA LeaseCall == LeaseInv /\ Call => LeaseInv'
<1> SUFFICES ASSUME LeaseInv, Call PROVE LeaseInv'
  OBVIOUS
<1>1. /\ phase' = "discover" /\ run' = run + 1 /\ run < MaxRuns
      /\ attempt' = 0 /\ offered' = None /\ server' = None
      /\ phase = "idle" /\ lease' = lease /\ inq' = inq /\ heard' = heard
      /\ bound' = bound /\ acked' = acked
  BY Zenon DEF Call
<1>2. clean' \in BOOLEAN /\ (clean' => inq = <<>> /\ heard = Quiet)
  BY DEF Call
<1>3. clean' => Len(inq) = 0 /\ \A s \in Servers : heard[s] = None
  BY <1>2 DEF Quiet
<1>4. run' \in Runs /\ run' \in 0..MaxRuns
  BY <1>1, DhcpAssumption DEF LeaseInv, DhcpTypeOK, Runs
<1>5. DhcpTypeOK'
  BY <1>1, <1>2, <1>4, DhcpAssumption DEF LeaseInv, DhcpTypeOK
<1> QED
  BY <1>1, <1>3, <1>4, <1>5 DEF LeaseInv, HeardOK, ClientInv, AckInv, CleanInv,
     LeaseWasAcknowledged

\* The discover reaches servers that have heard nothing else of this run.
LEMMA LeaseSendDiscover == LeaseInv /\ SendDiscover => LeaseInv'
<1> SUFFICES ASSUME LeaseInv, SendDiscover PROVE LeaseInv'
  OBVIOUS
<1> DEFINE m == [kind |-> "discover", run |-> run]
<1>1. /\ phase = "discover" /\ phase' = "offer" /\ heard' = [s \in Servers |-> m]
      /\ run' = run /\ attempt' = attempt /\ offered' = offered
      /\ server' = server /\ lease' = lease /\ inq' = inq /\ bound' = bound
      /\ acked' = acked /\ clean' = clean
  BY Zenon DEF SendDiscover, ToAll
<1>2. run \in Runs
  BY <1>1 DEF LeaseInv, ClientInv
<1>3. m \in DiscoversHeard /\ m.kind = "discover" /\ m.run = run
  BY <1>2 DEF DiscoversHeard
<1> HIDE DEF m
<1>4. HeardOK' /\ OnlyDiscoverHeard'
  BY <1>1, <1>3 DEF HeardOK, OnlyDiscoverHeard
<1>5. clean => OffersOnly'
  <2> SUFFICES ASSUME clean PROVE DOMAIN inq = {}
    BY <1>1 DEF OffersOnly
  <2>1. inq \in Seq(Messages) /\ Len(inq) = 0
    BY <1>1 DEF LeaseInv, CleanInv, DhcpTypeOK
  <2> QED
    BY <2>1
<1>6. DhcpTypeOK'
  BY <1>1 DEF LeaseInv, DhcpTypeOK
<1> QED
  BY <1>1, <1>2, <1>4, <1>5, <1>6 DEF LeaseInv, ClientInv, AckInv, CleanInv,
     LeaseWasAcknowledged

\* The request names what was taken, and every server hears it instead of what it
\* heard before (dhcp.rs:269-273).
LEMMA LeaseSendRequest == LeaseInv /\ SendRequest => LeaseInv'
<1> SUFFICES ASSUME LeaseInv, SendRequest PROVE LeaseInv'
  OBVIOUS
<1> DEFINE m == Request
<1>1. /\ phase = "request" /\ phase' = "ack" /\ heard' = [s \in Servers |-> m]
      /\ run' = run /\ attempt' = attempt /\ offered' = offered
      /\ server' = server /\ lease' = lease /\ inq' = inq /\ bound' = bound
      /\ acked' = acked /\ clean' = clean
  BY Zenon DEF SendRequest, ToAll
<1>2. run \in Runs /\ offered \in Addresses /\ server \in Servers
  BY <1>1 DEF LeaseInv, ClientInv
<1>3. /\ m \in RequestsHeard /\ m.kind = "request"
      /\ m.server = server /\ m.ip = offered
  BY <1>2 DEF RequestsHeard, Request
<1> HIDE DEF m
<1>4. HeardOK' /\ OnlyRequestHeard'
  BY <1>1, <1>3 DEF HeardOK, OnlyRequestHeard
<1>5. clean => AcksAreOurs'
  BY <1>1 DEF LeaseInv, CleanInv, OffersOnly, AcksAreOurs
<1>6. clean => OfferTaken'
  BY <1>1 DEF LeaseInv, CleanInv, OfferTaken
<1>7. DhcpTypeOK'
  BY <1>1 DEF LeaseInv, DhcpTypeOK
<1> QED
  BY <1>1, <1>2, <1>4, <1>5, <1>6, <1>7 DEF LeaseInv, ClientInv, AckInv, CleanInv,
     LeaseWasAcknowledged

\* The built-in lease asks for nothing.
LEMMA LeaseDefault == LeaseInv /\ (BulkError \/ NoMore) => LeaseInv'
<1> SUFFICES ASSUME LeaseInv, BulkError \/ NoMore PROVE LeaseInv'
  OBVIOUS
<1>1. /\ phase' = "done" /\ lease' = Default
      /\ run' = run /\ attempt' = attempt /\ offered' = offered
      /\ server' = server /\ inq' = inq /\ heard' = heard /\ bound' = bound
      /\ acked' = acked /\ clean' = clean
  BY DEF BulkError, NoMore, UseDefault
<1>2. DhcpTypeOK'
  BY <1>1 DEF LeaseInv, DhcpTypeOK
<1>3. lease' \notin Addresses
  BY <1>1, AddressesAreReal
<1> QED
  BY <1>1, <1>2, <1>3 DEF LeaseInv, HeardOK, ClientInv, AckInv, CleanInv,
     LeaseWasAcknowledged

\* The last offer of a transfer is an address a server gave, and None otherwise.
LEMMA LastOfferIs ==
  ASSUME NEW t \in Seq(Messages)
  PROVE  \/ LastOffer(t) = None /\ \A i \in DOMAIN t : t[i].type # "offer"
         \/ \E i \in DOMAIN t : /\ LastOffer(t) = t[i] /\ t[i].type = "offer"
                                /\ \A j \in DOMAIN t : j > i => t[j].type # "offer"
<1> DEFINE I == {i \in DOMAIN t : t[i].type = "offer"}
<1>1. CASE I = {}
  BY <1>1, Zenon DEF LastOffer
<1>2. CASE I # {}
  <2>1. Len(t) \in Nat /\ DOMAIN t = 1..Len(t) /\ I \in SUBSET (1..Len(t))
    OBVIOUS
  <2>2. Max(I) \in I /\ \A i \in I : Max(I) >= i
    BY <1>2, <2>1, MaxOf
  <2>3. LastOffer(t) = t[Max(I)]
    BY <1>2, Zenon DEF LastOffer
  <2>4. ASSUME NEW j \in DOMAIN t, j > Max(I) PROVE t[j].type # "offer"
    <3>1. Max(I) \in Nat /\ j \in Nat /\ ~ (Max(I) >= j)
      BY <2>1, <2>2, <2>4
    <3>2. j \notin I
      BY <2>2, <3>1, Zenon
    <3> QED
      BY <3>2
  <2> QED
    BY <2>2, <2>3, <2>4
<1> QED
  BY <1>1, <1>2

LEMMA MessagesAreSomething == None \notin Messages
BY DEF None, Messages

\* The address of the last offer is taken with the server that was named last; in
\* a run without left-overs they belong together (dhcp.rs:241-264).
LEMMA LeaseReadOffer ==
  ASSUME LeaseInv, NEW t \in Transfers, ReadOffer(t)
  PROVE  LeaseInv'
<1> DEFINE o == LastOffer(t)
<1>1. /\ phase = "offer" /\ attempt < MaxAttempts
      /\ inq' = SubSeq(inq, Len(t) + 1, Len(inq))
      /\ offered' = IF o = None THEN offered ELSE o.ip
      /\ phase' = IF o = None THEN "offer" ELSE "request"
      /\ attempt' = IF o = None THEN attempt + 1 ELSE 0
      /\ server' = ServerNamed(t)
      /\ lease' = lease /\ run' = run /\ heard' = heard /\ bound' = bound
      /\ acked' = acked /\ clean' = clean
  BY Zenon DEF ReadOffer, AttemptLeft, Read, NextAttempt
<1>2. inq \in Seq(Messages)
  BY DEF LeaseInv, DhcpTypeOK
<1>3. /\ t \in Seq(Messages)
      /\ \A i \in DOMAIN t : i \in DOMAIN inq /\ t[i] = inq[i]
      /\ inq' \in Seq(Messages)
      /\ \A i \in DOMAIN inq' : \E j \in DOMAIN inq : inq'[i] = inq[j]
  BY <1>1, <1>2, TransferIsFront
<1>4. \/ o = None /\ \A i \in DOMAIN t : t[i].type # "offer"
      \/ \E i \in DOMAIN t : /\ o = t[i] /\ t[i].type = "offer"
                             /\ \A j \in DOMAIN t : j > i => t[j].type # "offer"
  BY <1>3, LastOfferIs
<1> HIDE DEF o
<1>5. Len(t) \in Nat /\ DOMAIN t = 1..Len(t)
  BY <1>3
<1>6. \/ server' = server /\ Len(t) = 0
      \/ server' = t[Len(t)].server /\ Len(t) \in DOMAIN t
  BY <1>1, <1>3, <1>5 DEF ServerNamed
<1>7. server' \in Servers \cup {None} /\ (Len(t) # 0 => server' \in Servers)
  BY <1>3, <1>6, MessagesAreReal DEF LeaseInv, DhcpTypeOK
<1>8. o # None => o \in Messages /\ o.ip \in Addresses /\ Len(t) # 0
  BY <1>3, <1>4, <1>5, MessagesAreReal
<1>9. DhcpTypeOK'
  <2>1. attempt' \in 0..MaxAttempts
    BY <1>1, DhcpAssumption DEF LeaseInv, DhcpTypeOK
  <2>2. offered' \in Addresses \cup {None}
    BY <1>1, <1>8 DEF LeaseInv, DhcpTypeOK
  <2>3. phase' \in {"offer", "request"}
    BY <1>1
  <2> QED
    BY <1>1, <1>3, <1>7, <2>1, <2>2, <2>3 DEF LeaseInv, DhcpTypeOK
<1>10. ClientInv'
  BY <1>1, <1>7, <1>8 DEF LeaseInv, ClientInv
<1>11. AckInv'
  BY <1>1, <1>3 DEF LeaseInv, AckInv, LeaseWasAcknowledged
<1>12. CleanInv'
  <2> SUFFICES ASSUME clean PROVE CleanInv'
    BY <1>1 DEF CleanInv
  <2>1. OffersOnly /\ OnlyDiscoverHeard
    BY <1>1 DEF LeaseInv, CleanInv
  <2>2. OffersOnly' /\ OnlyDiscoverHeard'
    BY <1>1, <1>3, <2>1 DEF OffersOnly, OnlyDiscoverHeard
  <2>3. ASSUME o # None PROVE OfferTaken'
    <3>1. PICK i \in DOMAIN t : /\ o = t[i]
                                /\ \A j \in DOMAIN t : j > i => t[j].type # "offer"
      BY <1>4, <2>3
    <3>2. \A j \in DOMAIN t : /\ t[j].type = "offer"
                              /\ t[j].ip.by = t[j].server /\ t[j].ip.run = run
      BY <1>3, <2>1 DEF OffersOnly
    <3>3. i = Len(t)
      <4>1. i \in Nat /\ i <= Len(t) /\ Len(t) \in DOMAIN t
        BY <1>5
      <4>2. ~ (Len(t) > i)
        BY <3>1, <3>2, <4>1
      <4> QED
        BY <1>5, <4>1, <4>2
    <3>4. server' = t[i].server
      BY <1>5, <1>6, <3>3
    <3>5. offered' = t[i].ip /\ offered' \in Addresses
      BY <1>1, <1>8, <2>3, <3>1
    <3> QED
      BY <1>1, <3>2, <3>4, <3>5 DEF OfferTaken
  <2> QED
    BY <1>1, <2>2, <2>3 DEF CleanInv
<1> QED
  BY <1>1, <1>9, <1>10, <1>11, <1>12 DEF LeaseInv, HeardOK

\* The first ACK gives the lease (dhcp.rs:330-346).
LEMMA LeaseReadAck ==
  ASSUME LeaseInv, NEW t \in Transfers, ReadAck(t)
  PROVE  LeaseInv'
<1> DEFINE I == {i \in DOMAIN t : IsAck(t[i])}
<1>1. /\ phase = "ack" /\ attempt < MaxAttempts
      /\ inq' = SubSeq(inq, Len(t) + 1, Len(inq))
      /\ offered' = offered /\ server' = server
      /\ run' = run /\ heard' = heard /\ bound' = bound
      /\ acked' = acked /\ clean' = clean
  BY DEF ReadAck, AttemptLeft, Read
<1>2. inq \in Seq(Messages)
  BY DEF LeaseInv, DhcpTypeOK
<1>3. /\ t \in Seq(Messages)
      /\ \A i \in DOMAIN t : i \in DOMAIN inq /\ t[i] = inq[i]
      /\ inq' \in Seq(Messages)
      /\ \A i \in DOMAIN inq' : \E j \in DOMAIN inq : inq'[i] = inq[j]
  BY <1>1, <1>2, TransferIsFront
<1>4. \/ phase' = "ack" /\ lease' = lease /\ attempt' = attempt + 1
      \/ /\ phase' = "done" /\ attempt' = attempt
         /\ \E i \in DOMAIN t : t[i].type = "ack" /\ lease' = t[i].ip
  <2>1. CASE I = {}
    BY <1>1, <2>1, Zenon DEF ReadAck, NextAttempt
  <2>2. CASE I # {}
    <3>1. I \in SUBSET Nat
      BY <1>3
    <3>2. Min(I) \in I
      BY <2>2, <3>1, MinOf
    <3>3. /\ phase' = "done" /\ attempt' = attempt
          /\ lease' = t[Min(I)].ip
      BY <2>2, Zenon DEF ReadAck
    <3> QED
      BY <3>2, <3>3 DEF IsAck
  <2> QED
    BY <2>1, <2>2
<1> HIDE DEF I
<1>5. \/ phase' = "ack" /\ lease' = lease
      \/ /\ phase' = "done"
         /\ \E i \in DOMAIN inq : inq[i].type = "ack" /\ lease' = inq[i].ip
  BY <1>3, <1>4
<1>6. lease = None
  BY <1>1 DEF LeaseInv
<1>7. phase' = "done" =>
        /\ lease' \in Addresses /\ lease' \in acked
        /\ clean => lease' = offered /\ bound[server] = offered
  <2>1. \A i \in DOMAIN inq : inq[i] \in Messages
    BY <1>2
  <2>2. clean => AcksAreOurs
    BY <1>1 DEF LeaseInv, CleanInv
  <2> QED
    BY <1>5, <2>1, <2>2, MessagesAreReal DEF LeaseInv, AckInv, AcksAreOurs
<1>8. DhcpTypeOK'
  <2>1. attempt' \in 0..MaxAttempts
    BY <1>1, <1>4, DhcpAssumption DEF LeaseInv, DhcpTypeOK
  <2>2. lease' \in Addresses \cup {None, Default}
    BY <1>5, <1>6, <1>7
  <2>3. phase' \in {"ack", "done"}
    BY <1>5
  <2> QED
    BY <1>1, <1>3, <2>1, <2>2, <2>3 DEF LeaseInv, DhcpTypeOK
<1>9. ClientInv'
  BY <1>1, <1>5 DEF LeaseInv, ClientInv
<1>10. AckInv'
  BY <1>1, <1>3, <1>5, <1>6, <1>7, AddressesAreReal
     DEF LeaseInv, AckInv, LeaseWasAcknowledged
<1>11. CleanInv'
  <2> SUFFICES ASSUME clean PROVE CleanInv'
    BY <1>1 DEF CleanInv
  <2>1. OnlyRequestHeard /\ OfferTaken /\ AcksAreOurs
    BY <1>1 DEF LeaseInv, CleanInv
  <2>2. OnlyRequestHeard' /\ OfferTaken' /\ AcksAreOurs'
    BY <1>1, <1>3, <2>1 DEF OnlyRequestHeard, OfferTaken, AcksAreOurs
  <2> QED
    BY <1>1, <1>5, <1>7, <2>2 DEF CleanInv
<1> QED
  BY <1>1, <1>5, <1>6, <1>8, <1>9, <1>10, <1>11 DEF LeaseInv, HeardOK

\* What every step of a server leaves alone, and what it says
LEMMA ServerSays ==
  ASSUME LeaseInv, NEW s \in Servers, NEW m \in Messages,
         inq' = Append(inq, m), heard' = [heard EXCEPT ![s] = None]
  PROVE  /\ inq' \in Seq(Messages)
         /\ \A i \in DOMAIN inq' : inq'[i] = m \/ \E j \in DOMAIN inq : inq'[i] = inq[j]
         /\ HeardOK'
         /\ \A r \in Servers : heard'[r] # None => heard'[r] = heard[r]
<1>1. inq \in Seq(Messages)
  BY DEF LeaseInv, DhcpTypeOK
<1>2. /\ inq' \in Seq(Messages) /\ Len(inq') = Len(inq) + 1
      /\ \A i \in 1..Len(inq) : inq'[i] = inq[i]
      /\ inq'[Len(inq) + 1] = m
  BY <1>1, AppendProperties
<1>3. DOMAIN inq' = 1..(Len(inq) + 1) /\ DOMAIN inq = 1..Len(inq) /\ Len(inq) \in Nat
  BY <1>1, <1>2
<1>4. \A i \in DOMAIN inq' : i = Len(inq) + 1 \/ i \in DOMAIN inq
  BY <1>3
<1> QED
  BY <1>2, <1>3, <1>4 DEF LeaseInv, HeardOK

\* An offer answers a discover, with an address of the server that makes it.
LEMMA LeaseOffer ==
  ASSUME LeaseInv, NEW s \in Servers, Offer(s)
  PROVE  LeaseInv'
<1> DEFINE ip == [by |-> s, run |-> heard[s].run]
           m == [type |-> "offer", server |-> s, ip |-> ip]
<1>1. /\ heard[s] # None /\ heard[s].kind = "discover"
      /\ inq' = Append(inq, m) /\ heard' = [heard EXCEPT ![s] = None]
      /\ bound' = bound /\ acked' = acked /\ phase' = phase /\ run' = run
      /\ attempt' = attempt /\ offered' = offered /\ server' = server
      /\ lease' = lease /\ clean' = clean
  BY Zenon DEF Offer, Say, ClientUnchanged
<1>2. ip \in Addresses /\ ip.by = s /\ ip.run = heard[s].run
  BY <1>1, HeardByKind DEF LeaseInv, Addresses
<1> HIDE DEF ip
<1>3. m \in Messages /\ m.type = "offer" /\ m.server = s /\ m.ip = ip
  BY <1>2 DEF Messages
<1> HIDE DEF m
<1>4. /\ inq' \in Seq(Messages)
      /\ \A i \in DOMAIN inq' : inq'[i] = m \/ \E j \in DOMAIN inq : inq'[i] = inq[j]
      /\ HeardOK'
      /\ \A r \in Servers : heard'[r] # None => heard'[r] = heard[r]
  BY <1>1, <1>3, ServerSays
<1>5. DhcpTypeOK'
  BY <1>1, <1>4 DEF LeaseInv, DhcpTypeOK
<1>6. AckInv'
  BY <1>1, <1>3, <1>4 DEF LeaseInv, AckInv, LeaseWasAcknowledged
<1>7. CleanInv'
  <2> SUFFICES ASSUME clean PROVE CleanInv'
    BY <1>1 DEF CleanInv
  <2>1. /\ OnlyDiscoverHeard => OnlyDiscoverHeard'
        /\ OnlyRequestHeard => OnlyRequestHeard'
        /\ OfferTaken => OfferTaken'
    BY <1>1, <1>4 DEF OnlyDiscoverHeard, OnlyRequestHeard, OfferTaken
  <2>2. AcksAreOurs => AcksAreOurs'
    BY <1>1, <1>3, <1>4 DEF AcksAreOurs
  <2>3. OffersOnly /\ OnlyDiscoverHeard => OffersOnly'
    BY <1>1, <1>2, <1>3, <1>4 DEF OffersOnly, OnlyDiscoverHeard
  <2>4. phase # "discover"
    BY <1>1 DEF LeaseInv, CleanInv
  <2> QED
    BY <1>1, <2>1, <2>2, <2>3, <2>4 DEF LeaseInv, CleanInv
<1> QED
  BY <1>1, <1>4, <1>5, <1>6, <1>7 DEF LeaseInv, ClientInv

\* An ACK answers a request that names the server, for the address requested.
LEMMA LeaseGrant ==
  ASSUME LeaseInv, NEW s \in Servers, Grant(s)
  PROVE  LeaseInv'
<1> DEFINE ip == heard[s].ip
           m == [type |-> "ack", server |-> s, ip |-> ip]
<1>1. /\ heard[s] # None /\ heard[s].kind = "request"
      /\ heard[s].server = s /\ ip.by = s
      /\ inq' = Append(inq, m) /\ heard' = [heard EXCEPT ![s] = None]
      /\ bound' = [bound EXCEPT ![s] = ip] /\ acked' = acked \cup {ip}
      /\ phase' = phase /\ run' = run /\ attempt' = attempt
      /\ offered' = offered /\ server' = server
      /\ lease' = lease /\ clean' = clean
  BY Zenon DEF Grant, Say, ClientUnchanged
<1>2. ip \in Addresses
  BY <1>1, HeardByKind DEF LeaseInv
<1>3. OnlyRequestHeard => ip = offered /\ s = server
  BY <1>1 DEF OnlyRequestHeard
<1>4. ~ OnlyDiscoverHeard
  BY <1>1 DEF OnlyDiscoverHeard
<1> HIDE DEF ip
<1>5. m \in Messages /\ m.type = "ack" /\ m.ip = ip
  BY <1>2 DEF Messages
<1> HIDE DEF m
<1>6. /\ inq' \in Seq(Messages)
      /\ \A i \in DOMAIN inq' : inq'[i] = m \/ \E j \in DOMAIN inq : inq'[i] = inq[j]
      /\ HeardOK'
      /\ \A r \in Servers : heard'[r] # None => heard'[r] = heard[r]
  BY <1>1, <1>5, ServerSays
<1>7. /\ bound' \in [Servers -> Addresses \cup {None}] /\ bound'[s] = ip
      /\ acked' \subseteq Addresses
  BY <1>1, <1>2 DEF LeaseInv, DhcpTypeOK
<1>8. DhcpTypeOK'
  BY <1>1, <1>6, <1>7 DEF LeaseInv, DhcpTypeOK
<1>9. AckInv'
  BY <1>1, <1>5, <1>6 DEF LeaseInv, AckInv, LeaseWasAcknowledged
<1>10. CleanInv'
  <2> SUFFICES ASSUME clean PROVE CleanInv'
    BY <1>1 DEF CleanInv
  <2>1. phase \notin {"discover", "offer", "request"}
    BY <1>1, <1>4 DEF LeaseInv, CleanInv
  <2>2. OnlyRequestHeard => OnlyRequestHeard' /\ bound'[server] = offered
    BY <1>1, <1>3, <1>6, <1>7 DEF OnlyRequestHeard
  <2>3. OfferTaken => OfferTaken'
    BY <1>1 DEF OfferTaken
  <2>4. OnlyRequestHeard /\ AcksAreOurs => AcksAreOurs'
    BY <1>1, <1>3, <1>5, <1>6, <2>2 DEF AcksAreOurs
  <2> QED
    BY <1>1, <2>1, <2>2, <2>3, <2>4 DEF LeaseInv, CleanInv
<1> QED
  BY <1>1, <1>6, <1>8, <1>9, <1>10 DEF LeaseInv, ClientInv

\* A NAK says nothing that the client listens to.
LEMMA LeaseRefuse ==
  ASSUME LeaseInv, NEW s \in Servers, Refuse(s)
  PROVE  LeaseInv'
<1> DEFINE m == [type |-> "nak", server |-> s, ip |-> heard[s].ip]
<1>1. /\ heard[s] # None /\ heard[s].kind = "request"
      /\ inq' = Append(inq, m) /\ heard' = [heard EXCEPT ![s] = None]
      /\ bound' = bound /\ acked' = acked /\ phase' = phase /\ run' = run
      /\ attempt' = attempt /\ offered' = offered /\ server' = server
      /\ lease' = lease /\ clean' = clean
  BY Zenon DEF Refuse, Say, ClientUnchanged
<1>2. heard[s].ip \in Addresses /\ ~ OnlyDiscoverHeard
  BY <1>1, HeardByKind DEF LeaseInv, OnlyDiscoverHeard
<1>3. m \in Messages /\ m.type = "nak"
  BY <1>2 DEF Messages
<1> HIDE DEF m
<1>4. /\ inq' \in Seq(Messages)
      /\ \A i \in DOMAIN inq' : inq'[i] = m \/ \E j \in DOMAIN inq : inq'[i] = inq[j]
      /\ HeardOK'
      /\ \A r \in Servers : heard'[r] # None => heard'[r] = heard[r]
  BY <1>1, <1>3, ServerSays
<1>5. DhcpTypeOK'
  BY <1>1, <1>4 DEF LeaseInv, DhcpTypeOK
<1>6. AckInv'
  BY <1>1, <1>3, <1>4 DEF LeaseInv, AckInv, LeaseWasAcknowledged
<1>7. CleanInv'
  <2> SUFFICES ASSUME clean PROVE CleanInv'
    BY <1>1 DEF CleanInv
  <2>1. phase \notin {"discover", "offer", "request"}
    BY <1>1, <1>2 DEF LeaseInv, CleanInv
  <2>2. /\ OnlyRequestHeard => OnlyRequestHeard'
        /\ OfferTaken => OfferTaken'
    BY <1>1, <1>4 DEF OnlyRequestHeard, OfferTaken
  <2>3. AcksAreOurs => AcksAreOurs'
    BY <1>1, <1>3, <1>4 DEF AcksAreOurs
  <2> QED
    BY <1>1, <2>1, <2>2, <2>3 DEF LeaseInv, CleanInv
<1> QED
  BY <1>1, <1>4, <1>5, <1>6, <1>7 DEF LeaseInv, ClientInv

\* The session with a static address, and what the end of a session is to DHCP
\* (main.rs:199-224)
Skipped ==
  /\ phase = "idle" /\ phase' = "done"
  /\ UNCHANGED <<run, attempt, offered, server, lease, inq, heard, bound, acked,
                 clean>>

Released ==
  /\ phase = "done" /\ phase' = "idle"
  /\ inq' \in {inq, <<>>}
  /\ lease' = None
  /\ UNCHANGED <<run, attempt, offered, server, heard, bound, acked, clean>>

LEMMA LeaseOutside ==
  LeaseInv /\ (Skipped \/ Released \/ UNCHANGED dhcpVars) => LeaseInv'
<1> SUFFICES ASSUME LeaseInv, Skipped \/ Released \/ UNCHANGED dhcpVars
             PROVE  LeaseInv'
  OBVIOUS
<1>1. CASE Skipped
  <2>1. lease = None /\ lease' \notin Addresses
    BY <1>1, AddressesAreReal DEF Skipped, LeaseInv
  <2> QED
    BY <1>1, <2>1 DEF Skipped, LeaseInv, DhcpTypeOK, HeardOK, ClientInv, AckInv,
       CleanInv, LeaseWasAcknowledged
<1>2. CASE Released
  <2>1. /\ inq' \in Seq(Messages)
        /\ inq' = inq \/ DOMAIN inq' = {}
    <3>1. inq' = inq \/ inq' = <<>>
      BY <1>2, Zenon DEF Released
    <3>2. inq \in Seq(Messages)
      BY DEF LeaseInv, DhcpTypeOK
    <3>3. <<>> \in Seq(Messages) /\ DOMAIN <<>> = {}
      OBVIOUS
    <3> QED
      BY <3>1, <3>2, <3>3, Zenon
  <2>2. \A i \in DOMAIN inq' : inq'[i].type = "ack" => inq'[i].ip \in acked
    BY <2>1 DEF LeaseInv, AckInv
  <2> QED
    BY <1>2, <2>1, <2>2, AddressesAreReal DEF Released, LeaseInv, DhcpTypeOK, HeardOK,
       ClientInv, AckInv, CleanInv, LeaseWasAcknowledged
<1>3. CASE UNCHANGED dhcpVars
  BY <1>3 DEF dhcpVars, LeaseInv, DhcpTypeOK, HeardOK, ClientInv, AckInv, CleanInv,
     LeaseWasAcknowledged, OffersOnly, OnlyDiscoverHeard, OnlyRequestHeard,
     OfferTaken, AcksAreOurs
<1> QED
  BY <1>1, <1>2, <1>3

\* The steps of the client, of the servers and of the session around them
LeaseStep ==
  \/ Call \/ Discover \/ BulkError
  \/ \E s \in Servers : Server(s)
  \/ Skipped \/ Released \/ UNCHANGED dhcpVars

LEMMA LeaseKept == LeaseInv /\ LeaseStep => LeaseInv'
BY LeaseCall, LeaseSendDiscover, LeaseSendRequest, LeaseDefault, LeaseReadOffer,
   LeaseReadAck, LeaseOffer, LeaseGrant, LeaseRefuse, LeaseOutside
   DEF LeaseStep, Discover, Server

-----------------------------------------------------------------------------
(* The session around the two *)

\* DHCP runs only while the link is up, and a session that is under way has not
\* been counted.
PlaceInv ==
  /\ static \in BOOLEAN
  /\ configd \in 0..MaxRuns
  /\ step \in Requests \cup {"up"} => configd < MaxRuns
  /\ phase # "idle" => step = "up"

LinkInv == HandshakeInv /\ LeaseInv /\ PlaceInv

SetupNext == HostStep \/ PhoneStep \/ Environment

LEMMA StepsOfTheParts ==
  [SetupNext]_vars => HandshakeStep /\ LeaseStep
<1> SUFFICES ASSUME [SetupNext]_vars PROVE HandshakeStep /\ LeaseStep
  OBVIOUS
<1>1. CASE HostStep
  <2>1. CASE Begin
    BY <2>1 DEF Begin, HandshakeStep, LeaseStep
  <2>2. CASE InitDriver
    BY <2>2 DEF InitDriver, HandshakeStep, LeaseStep
  <2>3. CASE UseStatic
    BY <2>3 DEF UseStatic, HandshakeStep, LeaseStep, Skipped
  <2>4. CASE CallDhcp
    BY <2>4 DEF CallDhcp, HandshakeStep, LeaseStep
  <2>5. CASE DiscoverStep
    BY <2>5 DEF DiscoverStep, HandshakeStep, LeaseStep
  <2>6. CASE EndSession
    BY <2>6 DEF EndSession, HandshakeStep, LeaseStep, Released
  <2> QED
    BY <1>1, <2>1, <2>2, <2>3, <2>4, <2>5, <2>6 DEF HostStep
<1>2. CASE PhoneStep
  BY <1>2 DEF PhoneStep, HandshakeStep, LeaseStep
<1>3. CASE Environment
  BY <1>3 DEF Environment, HandshakeStep, LeaseStep
<1>4. CASE UNCHANGED vars
  BY <1>4 DEF vars, HandshakeStep, LeaseStep
<1> QED
  BY <1>1, <1>2, <1>3, <1>4 DEF SetupNext

LEMMA PlaceKept == LinkInv /\ [SetupNext]_vars => PlaceInv'
<1> SUFFICES ASSUME HandshakeInv, LeaseInv, PlaceInv, [SetupNext]_vars
             PROVE  PlaceInv'
  BY DEF LinkInv
<1> USE DEF PlaceInv
<1>1. sent => step \in Requests
  BY DEF HandshakeInv, SentInv
<1>2. "up" \notin Requests /\ "off" \notin Requests /\ "failed" \notin Requests
  BY DEF Requests, Oids
<1>3. CASE Begin
  BY <1>3 DEF Begin, NewDriver, dhcpVars
<1>4. CASE InitDriver
  <2>1. step \in Requests
    BY <1>1, <1>4 DEF InitDriver, Send, Receive
  <2> QED
    BY <1>2, <1>4, <2>1 DEF InitDriver, dhcpVars
<1>5. CASE UseStatic
  BY <1>5 DEF UseStatic, linkUp, rndisVars
<1>6. CASE CallDhcp
  BY <1>6 DEF CallDhcp, linkUp, rndisVars
<1>7. CASE DiscoverStep
  <2>1. phase # "idle"
    BY <1>7 DEF DiscoverStep, Discover, SendDiscover, SendRequest, NoMore, ReadOffer,
       ReadAck
  <2> QED
    BY <1>7, <2>1 DEF DiscoverStep, rndisVars
<1>8. CASE EndSession
  <2>1. /\ step = "up" /\ step' = "off" /\ phase' = "idle"
        /\ configd' = configd + 1 /\ static' = static
    BY <1>8 DEF EndSession, DropDriver
  <2> QED
    BY <1>2, <2>1, DhcpAssumption
<1>9. CASE PhoneStep
  BY <1>9 DEF PhoneStep, Complete, dhcpVars
<1>10. CASE Environment
  <2>1. CASE (UsbError \/ ReceiveNothing) /\ UNCHANGED <<dhcpVars, static, configd>>
    <3>1. step \in Requests
      BY <1>1, <2>1 DEF UsbError, ReceiveNothing
    <3> QED
      BY <1>2, <2>1, <3>1 DEF dhcpVars
  <2>2. CASE Replug /\ UNCHANGED <<dhcpVars, static, configd>>
    BY <2>2 DEF Replug, dhcpVars
  <2>3. CASE BulkError /\ UNCHANGED <<rndisVars, static, configd>>
    BY <2>3 DEF BulkError, rndisVars
  <2>4. ASSUME NEW s \in Servers, Server(s), UNCHANGED <<rndisVars, static, configd>>
        PROVE  PlaceInv'
    BY <2>4 DEF Server, Offer, Grant, Refuse, ClientUnchanged, rndisVars
  <2> QED
    BY <1>10, <2>1, <2>2, <2>3, <2>4 DEF Environment
<1>11. CASE UNCHANGED vars
  BY <1>11 DEF vars, rndisVars, dhcpVars
<1> QED
  BY <1>3, <1>4, <1>5, <1>6, <1>7, <1>8, <1>9, <1>10, <1>11 DEF SetupNext, HostStep

LEMMA LinkInvariant == SetupSpec => []LinkInv
<1>1. SetupInit => LinkInv
  <2> SUFFICES ASSUME SetupInit PROVE LinkInv
    OBVIOUS
  <2>1. HandshakeInv /\ LeaseInv
    BY HandshakeInit, LeaseInit DEF SetupInit
  <2>2. static \in BOOLEAN /\ configd = 0
    BY DEF SetupInit
  <2>3. step = "off" /\ phase = "idle"
    BY DEF SetupInit, RndisInit0, DhcpInit
  <2> QED
    BY <2>1, <2>2, <2>3, DhcpAssumption DEF LinkInv, PlaceInv, Requests, Oids
<1>2. LinkInv /\ [SetupNext]_vars => LinkInv'
  <2>1. LinkInv /\ [SetupNext]_vars => HandshakeInv' /\ LeaseInv'
    BY StepsOfTheParts, HandshakeKept, LeaseKept DEF LinkInv
  <2> QED
    BY <2>1, PlaceKept DEF LinkInv
<1> QED
  BY <1>1, <1>2, PTL DEF SetupSpec, SetupNext

-----------------------------------------------------------------------------
(* What follows *)

\* The phone stays behind by exactly the answers that were missed, whatever is
\* refused, late or lost and however often a session starts over
\* (proto_rndis.rs:33-70); and the types of both protocols.
THEOREM PhoneIsBehindByMissed == SetupSpec => []SetupInv
<1>1. LinkInv => SetupInv
  BY DEF LinkInv, HandshakeInv, LeaseInv, PlaceInv, SetupInv, SetupTypeOK
<1> QED
  BY <1>1, LinkInvariant, PTL

\* A phone that kept up is known by its own address (proto_rndis.rs:36-60).
THEOREM AddressIsPhones == SetupSpec => []MacWhenInStep
<1>1. LinkInv => MacWhenInStep
  BY DEF LinkInv, HandshakeInv, InStepInv, MacWhenInStep, MacOfBoth, MacOfCurrent,
         linkUp
<1> QED
  BY <1>1, LinkInvariant, PTL

\* No address is used that no server acknowledged, and without left-overs the
\* server that offered it holds it for us (dhcp.rs:178, 330).
THEOREM LeaseIsHeld == SetupSpec => []LeaseIsGood
<1>1. LinkInv => LeaseIsGood
  BY DEF LinkInv, LeaseInv, AckInv, CleanInv, OfferTaken, LeaseIsGood,
         CleanLeaseIsHeld
<1> QED
  BY <1>1, LinkInvariant, PTL

\* However offers share a transfer, the request of a run without left-overs names
\* the server of the offer it accepts (dhcp.rs:241-273).
THEOREM RequestNamesItsServer == SetupSpec => []CleanRequestMatchesOffer
<1>1. LinkInv => CleanRequestMatchesOffer
  BY DEF LinkInv, LeaseInv, CleanInv, OfferTaken, CleanRequestMatchesOffer
<1> QED
  BY <1>1, LinkInvariant, PTL
=============================================================================
