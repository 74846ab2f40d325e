----------------------------- MODULE LinkSetup ------------------------------
(***************************************************************************)
(* How run_session brings the link up (main.rs:186-224), session after     *)
(* session: driver initialisation (RndisInit), then a static address or    *)
(* DHCP (Dhcp).  What the phone and the servers did not get rid of in one  *)
(* session is there in the next.                                           *)
(***************************************************************************)
EXTENDS RndisInit, Dhcp

VARIABLES
  static,   \* config.static_ip is set
  configd   \* history: sessions that reached the configuration of utun

vars == <<rndisVars, dhcpVars, static, configd>>

SetupInit ==
  /\ RndisInit0
  /\ DhcpInit
  /\ static \in BOOLEAN
  /\ configd = 0

\* A session starts, and starts over when init failed.
Begin ==
  /\ phase = "idle"
  /\ configd < MaxRuns
  /\ NewDriver
  /\ UNCHANGED <<dhcpVars, static, configd>>

InitDriver == (Send \/ Receive) /\ UNCHANGED <<dhcpVars, static, configd>>

\* With a static address DHCP is skipped ...
UseStatic ==
  /\ linkUp
  /\ phase = "idle"
  /\ static
  /\ phase' = "done"
  /\ UNCHANGED <<rndisVars, run, attempt, offered, server, lease, inq, heard,
                 bound, acked, clean, static, configd>>

\* ... and without one it is called once the link is up.
CallDhcp ==
  /\ linkUp
  /\ ~static
  /\ Call
  /\ UNCHANGED <<rndisVars, static, configd>>

DiscoverStep == Discover /\ UNCHANGED <<rndisVars, static, configd>>

\* The rest of the session (module Tether).  The I/O thread reads what is on
\* its way to the host, unless the session ends before it is started.
EndSession ==
  /\ phase = "done"
  /\ phase' = "idle"
  /\ configd' = configd + 1
  /\ DropDriver
  /\ inq' \in {inq, <<>>}
  /\ lease' = None
  /\ UNCHANGED <<run, attempt, offered, server, heard, bound, acked, clean,
                 static>>

HostStep ==
  Begin \/ InitDriver \/ UseStatic \/ CallDhcp \/ DiscoverStep \/ EndSession

PhoneStep ==
  (\E r \in Results : Complete(r)) /\ UNCHANGED <<dhcpVars, static, configd>>

\* What may happen and need not.
Environment ==
  \/ (UsbError \/ ReceiveNothing \/ Replug) /\ UNCHANGED <<dhcpVars, static, configd>>
  \/ BulkError /\ UNCHANGED <<rndisVars, static, configd>>
  \/ (\E s \in Servers : Server(s)) /\ UNCHANGED <<rndisVars, static, configd>>

SetupSpec == SetupInit /\ [][HostStep \/ PhoneStep \/ Environment]_vars

\* The main thread runs, in watch mode, and the phone handles the requests it
\* gets; nothing is assumed of the servers.
SetupLiveSpec == SetupSpec /\ WF_vars(HostStep) /\ WF_vars(PhoneStep)

-----------------------------------------------------------------------------
(* Properties *)

\* The link and the lease have their types.
SetupTypeOK ==
  /\ RndisTypeOK
  /\ DhcpTypeOK
  /\ static \in BOOLEAN
  /\ configd \in 0..MaxRuns

\* The types, and how far the phone is behind (proto_rndis.rs:33-70).
SetupInv == SetupTypeOK /\ BehindByMissed

\* However far a phone has fallen behind, trying again brings the link up: every
\* failed init uses up one left-over answer and leaves an INIT_C behind it, so
\* after finitely many an INIT_C is read (proto_rndis.rs:34, main.rs:702).
LinkComesUp == step = "failed" ~> linkUp

\* Once the link is up the session gets an address, or goes on with the
\* built-in one, whatever the servers do (dhcp.rs:195, 275, 355).
AddressIsSettled == linkUp /\ phase = "idle" ~> phase = "done"
=============================================================================
