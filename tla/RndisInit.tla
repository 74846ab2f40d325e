----------------------------- MODULE RndisInit -----------------------------
(***************************************************************************)
(* RndisDriver::init (proto_rndis.rs:25): four requests over the control   *)
(* endpoint, each followed by a pause and one read of an answer.           *)
(*                                                                         *)
(* The phone handles requests in order and keeps its answers in order      *)
(* until they are read.  The program takes whatever it reads for the       *)
(* answer to its last request: the request id is written and never         *)
(* compared, and it starts again with every driver.  An answer that is not *)
(* there after the pause stays in the phone for a later read, of this      *)
(* driver or of the next one.                                              *)
(***************************************************************************)
EXTENDS Naturals, Sequences

CONSTANT MaxFaults  \* bound: late answers, USB errors and refused requests

ASSUME RndisAssumption == MaxFaults \in Nat

\* OID_802_3_CURRENT_ADDRESS and OID_802_3_PERMANENT_ADDRESS
Oids == {"current", "permanent"}
Requests == {"init", "set"} \cup Oids

\* What a completion says: success, success without data, an error status.
Results == {"ok", "empty", "error"}

Completions == [to : Requests, result : Results]

\* mac_addr: all zero, or the address reported for an OID.
Macs == {"zero"} \cup Oids

VARIABLES
  step,    \* the request being made; "off", "failed" and "up" around them
  sent,    \* that request was sent and its answer is to be read
  mac,     \* state.mac_addr
  asked,   \* requests the phone has not handled
  ready,   \* completions nobody has read
  faults,  \* faults so far
  missed,  \* history: requests since the last plug-in for which nothing was read
  inStep,  \* history: nothing was left over when this driver started
  said     \* history: the result of each request of this driver

rndisVars == <<step, sent, mac, asked, ready, faults, missed, inStep, said>>

linkUp == step = "up"

RndisInit0 ==
  /\ step = "off"
  /\ sent = FALSE
  /\ mac = "zero"
  /\ asked = <<>>
  /\ ready = <<>>
  /\ faults = 0
  /\ missed = 0
  /\ inStep = TRUE
  /\ said = [r \in Requests |-> "error"]

Fault == faults < MaxFaults /\ faults' = faults + 1

\* RndisDriver::new, with the first request to come.
NewDriver ==
  /\ step \in {"off", "failed"}
  /\ step' = "init"
  /\ sent' = FALSE
  /\ mac' = "zero"
  /\ inStep' = (asked = <<>> /\ ready = <<>>)
  /\ said' = [r \in Requests |-> "error"]
  /\ UNCHANGED <<asked, ready, faults, missed>>

\* send_ctrl
Send ==
  /\ step \in Requests
  /\ ~sent
  /\ sent' = TRUE
  /\ asked' = Append(asked, step)
  /\ UNCHANGED <<step, mac, ready, faults, missed, inStep, said>>

\* An error of send_ctrl or recv_ctrl ends init.  The answer to a request that
\* was sent stays with the phone, or the failed read has taken one.
UsbError ==
  /\ step \in Requests
  /\ Fault
  /\ step' = "failed"
  /\ sent' = FALSE
  /\ \/ /\ missed' = missed + (IF sent THEN 1 ELSE 0)
        /\ UNCHANGED ready
     \/ /\ sent /\ ready # <<>>
        /\ ready' = Tail(ready)
        /\ UNCHANGED missed
  /\ UNCHANGED <<mac, asked, inStep, said>>

\* An empty answer, too short for every parser.
Nothing == [to |-> "none", result |-> "error"]

\* The request that follows request r.
Following(r) ==
  CASE r = "init"      -> "current"
    [] r = "current"   -> "permanent"
    [] r = "permanent" -> "set"
    [] r = "set"       -> "up"

\* Seeded fault: any answer that is not to the request ends init.
AfterStrict(c) ==
  IF c.to = step \/ {c.to, step} \subseteq Oids THEN Following(step) ELSE "failed"

\* Where init goes on with answer c: parse_init_cmplt must succeed, the results
\* of the other parsers do not stop it.
After(c) ==
  IF step = "init" /\ (c.to # "init" \/ c.result # "ok")
  THEN "failed"
  ELSE Following(step)

\* Seeded fault: the address is not taken from the second query.
NewMacFirst(c) ==
  IF step = "current" /\ c.to \in Oids /\ c.result = "ok" THEN c.to ELSE mac

\* parse_query_cmplt: a completion of either query gives an address, and one
\* without data gives zeros.
NewMac(c) ==
  IF step \in Oids /\ c.to \in Oids /\ c.result # "error"
  THEN IF c.result = "ok" THEN c.to ELSE "zero"
  ELSE mac

\* Seeded fault: an unexpected completion is left to be read again.
UnreadKept == IF Head(ready).to = step THEN Tail(ready) ELSE ready

Unread == Tail(ready)

\* recv_ctrl returns the oldest completion.
Receive ==
  LET c == Head(ready)
  IN /\ sent
     /\ ready # <<>>
     /\ ready' = Unread
     /\ mac' = NewMac(c)
     /\ step' = After(c)
     /\ sent' = FALSE
     /\ UNCHANGED <<asked, faults, missed, inStep, said>>

\* There is none yet.
ReceiveNothing ==
  /\ sent
  /\ ready = <<>>
  /\ Fault
  /\ step' = After(Nothing)
  /\ sent' = FALSE
  /\ missed' = missed + 1
  /\ inStep' = FALSE
  /\ UNCHANGED <<mac, asked, ready, said>>

\* The phone handles a request; one it does not grant counts as a fault.
Complete(r) ==
  /\ asked # <<>>
  /\ asked' = Tail(asked)
  /\ r = "empty" => Head(asked) \in Oids
  /\ ready' = Append(ready, [to |-> Head(asked), result |-> r])
  /\ IF r = "ok" THEN UNCHANGED faults ELSE Fault
  /\ said' = [said EXCEPT ![Head(asked)] = r]
  /\ UNCHANGED <<step, sent, mac, missed, inStep>>

\* The phone is unplugged between two sessions and plugged in again: it has
\* forgotten everything.
Replug ==
  /\ step \in {"off", "failed"}
  /\ asked \o ready # <<>>
  /\ asked' = <<>>
  /\ ready' = <<>>
  /\ missed' = 0
  /\ UNCHANGED <<step, sent, mac, faults, inStep, said>>

\* The session is over, and the driver with it.
DropDriver ==
  /\ step = "up"
  /\ step' = "off"
  /\ UNCHANGED <<sent, mac, asked, ready, faults, missed, inStep, said>>

-----------------------------------------------------------------------------
(* Properties *)

RndisTypeOK ==
  /\ step \in Requests \cup {"off", "failed", "up"}
  /\ sent \in BOOLEAN
  /\ mac \in Macs
  /\ asked \in Seq(Requests)
  /\ ready \in Seq(Completions)
  /\ faults \in 0..MaxFaults
  /\ missed \in 0..MaxFaults
  /\ inStep \in BOOLEAN
  /\ said \in [Requests -> Results]

\* The phone stays behind by exactly the answers that were missed: answers are
\* read one for one (proto_rndis.rs:33-70), so neither a failed init nor a new
\* driver ever makes up for a late answer, and nothing but a late answer or a
\* USB error makes the phone fall behind.
BehindByMissed ==
  Len(asked) + Len(ready) = missed + (IF sent THEN 1 ELSE 0)

\* The address of a phone that kept up is its permanent address; the current
\* one if the permanent one was refused; zeros if it gave neither, or claimed
\* success without an address (proto_rndis.rs:42).
MacWhenInStep ==
  linkUp /\ inStep =>
    mac = IF said["permanent"] # "error"
          THEN IF said["permanent"] = "ok" THEN "permanent" ELSE "zero"
          ELSE IF said["current"] = "ok" THEN "current" ELSE "zero"
=============================================================================
