------------------------------- MODULE Dhcp --------------------------------
(***************************************************************************)
(* dhcp::discover (dhcp.rs:177) with the servers behind the phone.         *)
(*                                                                         *)
(* A discover is sent once and up to MaxAttempts transfers are read for an *)
(* offer; a request is sent once and up to MaxAttempts transfers are read  *)
(* for an ACK.  The transaction id is a constant: a message is not told    *)
(* from one of an earlier run, and messages left unread are found by the   *)
(* next run.  A frame that fails the checks of lines 201-225 is no message *)
(* and is left out: a transfer with nothing else reads like an empty one.  *)
(***************************************************************************)
EXTENDS Naturals, Sequences, FiniteSetsExt

CONSTANTS
  Servers,      \* the DHCP servers that may hear us
  MaxRuns,      \* bound: calls of discover
  MaxAttempts,  \* receive attempts of each loop (50)
  MaxFrames     \* bound: DHCP messages in one transfer

ASSUME DhcpAssumption ==
  /\ MaxRuns \in Nat \ {0}
  /\ MaxAttempts \in Nat \ {0}
  /\ MaxFrames \in Nat \ {0}

Runs == 1..MaxRuns

\* The address a server offers in a run; servers need not offer the same one
\* twice.
Addresses == [by : Servers, run : Runs]

\* option 53 and 54, and yiaddr
Messages == [type : {"offer", "ack", "nak"}, server : Servers, ip : Addresses]

None == [none |-> TRUE]

\* 192.168.42.100 and the rest of the built-in lease
Default == [default |-> TRUE]

VARIABLES
  phase,     \* "idle", "discover", "offer", "request", "ack", "done"
  run,       \* history: the number of the call
  attempt,   \* _attempt
  offered,   \* offered_addr
  server,    \* server_addr
  lease,     \* the lease run_session goes on with
  inq,       \* messages on their way to the host, in order
  heard,     \* what each server has heard and not acted on
  bound,     \* the address each server holds for us
  acked,     \* history: addresses that were ever acknowledged
  clean      \* history: nothing of an earlier run was left when this one began

dhcpVars == <<phase, run, attempt, offered, server, lease, inq, heard, bound,
              acked, clean>>

Quiet == [s \in Servers |-> None]

DhcpInit ==
  /\ phase = "idle"
  /\ run = 0
  /\ attempt = 0
  /\ offered = None
  /\ server = None
  /\ lease = None
  /\ inq = <<>>
  /\ heard = Quiet
  /\ bound = Quiet
  /\ acked = {}
  /\ clean = TRUE

-----------------------------------------------------------------------------
(* The client *)

Call ==
  /\ phase = "idle"
  /\ run < MaxRuns
  /\ run' = run + 1
  /\ phase' = "discover"
  /\ attempt' = 0
  /\ offered' = None
  /\ server' = None
  /\ clean' = (inq = <<>> /\ heard = Quiet)
  /\ UNCHANGED <<lease, inq, heard, bound, acked>>

\* What we send goes to the broadcast address, the request too: every server
\* hears it, and forgets what it heard before.
ToAll(m) == [s \in Servers |-> m]

SendDiscover ==
  /\ phase = "discover"
  /\ phase' = "offer"
  /\ heard' = ToAll([kind |-> "discover", run |-> run])
  /\ UNCHANGED <<run, attempt, offered, server, lease, inq, bound, acked, clean>>

\* Every failure of discover(), and every transfer read in vain, ends with the
\* built-in lease (dhcp.rs:355, 267, main.rs:213).
UseDefault ==
  /\ lease' = Default
  /\ phase' = "done"

\* An error of send_bulk or recv_bulk
BulkError ==
  /\ phase \in {"discover", "offer", "request", "ack"}
  /\ UseDefault
  /\ UNCHANGED <<run, attempt, offered, server, inq, heard, bound, acked, clean>>

\* recv_bulk: up to MaxFrames messages in one transfer; none within 200 ms.
Transfers == {SubSeq(inq, 1, n) : n \in 0..Min({MaxFrames, Len(inq)})}

Read(t) ==
  /\ inq' = SubSeq(inq, Len(t) + 1, Len(inq))
  /\ UNCHANGED <<run, heard, bound, acked, clean>>

\* The last offer in t, or none.
LastOffer(t) ==
  LET I == {i \in DOMAIN t : t[i].type = "offer"}
  IN IF I = {} THEN None ELSE t[Max(I)]

\* for _attempt in 0..50
AttemptLeft == attempt < MaxAttempts

\* Seeded fault: an empty transfer does not count.
NextAttemptKept == attempt

NextAttempt == attempt + 1

\* Seeded fault: the first server heard of is kept.
ServerNamedFirst(t) ==
  IF server # None \/ t = <<>> THEN server ELSE t[1].server

ServerNamed(t) == IF t = <<>> THEN server ELSE t[Len(t)].server

\* One turn of the first loop: all messages of a transfer are looked at, the
\* last offer counts, and any of them may name the server.
ReadOffer(t) ==
  /\ phase = "offer"
  /\ AttemptLeft
  /\ Read(t)
  /\ LET o == LastOffer(t)
     IN /\ offered' = IF o = None THEN offered ELSE o.ip
        /\ phase' = IF o = None THEN "offer" ELSE "request"
        /\ attempt' = IF o = None THEN NextAttempt ELSE 0
  /\ server' = ServerNamed(t)
  /\ UNCHANGED lease

NoMore ==
  /\ phase \in {"offer", "ack"}
  /\ attempt = MaxAttempts
  /\ UseDefault
  /\ UNCHANGED <<run, attempt, offered, server, inq, heard, bound, acked, clean>>

\* build_request carries the address and the server.
Request == [kind |-> "request", run |-> run, server |-> server, ip |-> offered]

SendRequest ==
  /\ phase = "request"
  /\ phase' = "ack"
  /\ heard' = ToAll(Request)
  /\ UNCHANGED <<run, attempt, offered, server, lease, inq, bound, acked, clean>>

\* Seeded fault: a late offer is taken for the ACK.
IsAckOrOffer(m) == m.type \in {"ack", "offer"}

IsAck(m) == m.type = "ack"

\* One turn of the second loop: the first ACK of a transfer gives the lease,
\* whoever sent it and whatever its address; everything else is ignored.
ReadAck(t) ==
  /\ phase = "ack"
  /\ AttemptLeft
  /\ Read(t)
  /\ LET I == {i \in DOMAIN t : IsAck(t[i])}
     IN IF I = {}
        THEN /\ attempt' = NextAttempt
             /\ UNCHANGED <<phase, lease>>
        ELSE /\ lease' = t[Min(I)].ip
             /\ phase' = "done"
             /\ UNCHANGED attempt
  /\ UNCHANGED <<offered, server>>

Discover ==
  \/ SendDiscover \/ SendRequest \/ NoMore
  \/ \E t \in Transfers : ReadOffer(t) \/ ReadAck(t)

-----------------------------------------------------------------------------
(* A server.  Whatever it does not do is a message lost or late.           *)

Say(s, type, ip) ==
  inq' = Append(inq, [type |-> type, server |-> s, ip |-> ip])

ClientUnchanged ==
  UNCHANGED <<phase, run, attempt, offered, server, lease, clean>>

Offer(s) ==
  /\ heard[s] # None
  /\ heard[s].kind = "discover"
  /\ Say(s, "offer", [by |-> s, run |-> heard[s].run])
  /\ heard' = [heard EXCEPT ![s] = None]
  /\ UNCHANGED <<bound, acked>> /\ ClientUnchanged

\* A request that names the server and an address of its own is granted ...
Grant(s) ==
  /\ heard[s] # None
  /\ heard[s].kind = "request"
  /\ heard[s].server = s /\ heard[s].ip.by = s
  /\ Say(s, "ack", heard[s].ip)
  /\ bound' = [bound EXCEPT ![s] = heard[s].ip]
  /\ acked' = acked \cup {heard[s].ip}
  /\ heard' = [heard EXCEPT ![s] = None]
  /\ ClientUnchanged

\* ... or refused, and one that does not is refused or ignored.
Refuse(s) ==
  /\ heard[s] # None
  /\ heard[s].kind = "request"
  /\ heard[s].server = s
  /\ Say(s, "nak", heard[s].ip)
  /\ heard' = [heard EXCEPT ![s] = None]
  /\ UNCHANGED <<bound, acked>> /\ ClientUnchanged

Server(s) == Offer(s) \/ Grant(s) \/ Refuse(s)

-----------------------------------------------------------------------------
(* Properties *)

DhcpTypeOK ==
  /\ phase \in {"idle", "discover", "offer", "request", "ack", "done"}
  /\ run \in 0..MaxRuns
  /\ attempt \in 0..MaxAttempts
  /\ offered \in Addresses \cup {None}
  /\ server \in Servers \cup {None}
  /\ lease \in Addresses \cup {None, Default}
  /\ inq \in Seq(Messages)
  /\ bound \in [Servers -> Addresses \cup {None}]
  /\ acked \subseteq Addresses
  /\ clean \in BOOLEAN

\* The host never takes an address no server has acknowledged, whichever offers
\* it saw (dhcp.rs:330): it has an acknowledged one or the built-in one.
LeaseWasAcknowledged == lease \in Addresses => lease \in acked

\* In a run that began with nothing left over from an earlier one the lease is
\* the address asked for, and the server that offered it holds it for us, also
\* when another server answers late.  (The constant transaction id at
\* dhcp.rs:178 is why the condition is needed.)
CleanLeaseIsHeld ==
  phase = "done" /\ clean /\ lease \in Addresses =>
    lease = offered /\ server = lease.by /\ bound[lease.by] = lease

\* What a lease is worth: in every run, and in one without left-overs
\* (dhcp.rs:178, 330).
LeaseIsGood == LeaseWasAcknowledged /\ CleanLeaseIsHeld

\* In such a run the request names the server whose offer it accepts, however
\* offers share a transfer (dhcp.rs:241, 249).
CleanRequestMatchesOffer ==
  clean /\ phase = "request" => offered.by = server /\ offered.run = run
=============================================================================
