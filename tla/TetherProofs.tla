---------------------------- MODULE TetherProofs ----------------------------
(***************************************************************************)
(* Proofs about Tether, for any number of plugs, failures and commands.    *)
(*                                                                         *)
(* HostInv follows the host's network configuration through run_session:   *)
(* at every position of the main thread it says which of the four changes  *)
(* are in place and which are not.  ToldInv says to whom "connected" was   *)
(* announced.  Together with the types they are inductive.                 *)
(***************************************************************************)
EXTENDS Tether, TLAPS

USE DEF config, signals, sessVars, hostVars, phone, ipcVars

\* Where utun does not exist.
WithoutUtun == OutsidePcs \cup {"find", "init", "utun"}

\* Where our routes are not, or not any more, in the routing table.
WithoutRoutes ==
  WithoutUtun \cup {"configure", "dns", "register", "route", "unregister",
                    "undns", "report"}

\* Where all of them are, unless the options forbid them.
WithRoutes == {"announce", "unroute"} \cup SessionPcs

\* Where the network service has no key of ours.
WithoutService ==
  WithoutUtun \cup {"configure", "dns", "register", "undns", "report"}

\* Where the global DNS key is not ours.
WithoutDns == WithoutUtun \cup {"configure", "dns", "report"}

\* Where it is, unless the options forbid it.
WithDns ==
  {"register", "route", "announce", "unroute", "unregister", "undns"}
    \cup SessionPcs

HostInv ==
  /\ utun <=> pc \notin WithoutUtun
  /\ pc \in WithoutRoutes \/ noRoute => routes = {}
  /\ pc \in WithRoutes /\ ~noRoute => routes = Halves
  /\ pc \in WithoutService => service = {}
  /\ pc \in WithoutDns \/ noDns => globalDns # "ours"
  /\ pc \in WithDns /\ ~noDns => globalDns = "ours"

\* Only watch mode goes round the watch loop and has clients to tell, and they
\* are told of the end.
ToldInv ==
  /\ pc \in {"watch", "poll", "nap"} => watch
  /\ ~watch => state = "none"
  /\ state = "connected" => pc \in SessionPcs \cup TearDownPcs

LifeInv == TetherTypeOK /\ HostInv /\ ToldInv

Pcs == OutsidePcs \cup SetUpPcs \cup SessionPcs \cup TearDownPcs

\* The sets of positions, spelled out.
USE DEF OutsidePcs, SetUpPcs, SessionPcs, TearDownPcs

-----------------------------------------------------------------------------
(* The types *)

\* The pairs of flags of the type invariant, one by one.
LEMMA FlagTypes ==
  TetherTypeOK <=>
    /\ watch \in BOOLEAN /\ noRoute \in BOOLEAN /\ noDns \in BOOLEAN
    /\ pc \in Pcs
    /\ running \in BOOLEAN /\ globalRunning \in BOOLEAN
    /\ bridge \in BOOLEAN /\ gone \in BOOLEAN
    /\ routes \subseteq Halves /\ service \subseteq Keys
    /\ globalDns \in {"host", "ours", "removed"}
    /\ utun \in BOOLEAN
    /\ state \in {"none", "idle", "watching", "connected", "disconnected"}
    /\ present \in BOOLEAN /\ attached \in BOOLEAN
    /\ plugs \in 0..MaxPlugs /\ failures \in 0..MaxFailures
    /\ commands \in 0..MaxCommands
    /\ disabled \in BOOLEAN
BY DEF TetherTypeOK, Pcs

\* main starts with the host's own network configuration (main.rs:630-683).
LEMMA InitLife == TetherInit => LifeInv
<1> SUFFICES ASSUME TetherInit PROVE LifeInv
  OBVIOUS
<1> USE TetherAssumption DEF TetherInit
<1>1. /\ running \in BOOLEAN /\ globalRunning \in BOOLEAN /\ bridge \in BOOLEAN
      /\ gone \in BOOLEAN /\ utun \in BOOLEAN /\ attached \in BOOLEAN
      /\ disabled \in BOOLEAN
  OBVIOUS
<1>2. TetherTypeOK
  BY <1>1, FlagTypes DEF Pcs
<1>3. HostInv
  BY DEF HostInv, WithoutUtun, WithoutRoutes, WithRoutes, WithoutService,
         WithoutDns, WithDns
<1>4. ToldInv
  BY DEF ToldInv
<1> QED
  BY <1>2, <1>3, <1>4 DEF LifeInv

\* Every step of the program, of a signal handler or of the phone keeps the types
\* and, except for the main thread's steps and a lost device, where the main
\* thread is.
LEMMA TypesStep == TetherTypeOK /\ [TetherNext]_vars => TetherTypeOK'
<1> SUFFICES ASSUME TetherTypeOK, [TetherNext]_vars PROVE TetherTypeOK'
  OBVIOUS
<1> USE TetherAssumption
<1> DEFINE Flags ==
      /\ watch \in BOOLEAN /\ noRoute \in BOOLEAN /\ noDns \in BOOLEAN
      /\ running \in BOOLEAN /\ globalRunning \in BOOLEAN
      /\ bridge \in BOOLEAN /\ gone \in BOOLEAN /\ utun \in BOOLEAN
      /\ present \in BOOLEAN /\ attached \in BOOLEAN /\ disabled \in BOOLEAN
    Data ==
      /\ pc \in Pcs
      /\ routes \subseteq Halves /\ service \subseteq Keys
      /\ globalDns \in {"host", "ours", "removed"}
      /\ state \in {"none", "idle", "watching", "connected", "disconnected"}
      /\ plugs \in 0..MaxPlugs /\ failures \in 0..MaxFailures
      /\ commands \in 0..MaxCommands
<1>t. Flags /\ Data
  BY FlagTypes
<1>q. ASSUME Flags', Data' PROVE TetherTypeOK'
  BY <1>q DEF TetherTypeOK, Pcs
<1>1. Flags'
  <2>1. CASE MainStep
    <3>1. CASE \/ Start \/ WatchTest \/ AfterSession \/ Nap \/ IdleEnd
               \/ InitDriver \/ ConfigureUtun \/ SetDns \/ Register \/ AddRoutes
               \/ SessionTest \/ RemoveRoutes \/ Unregister \/ RemoveDns
      BY <1>t, <3>1 DEF Start, WatchTest, AfterSession, Nap, IdleEnd, InitDriver,
           ConfigureUtun, SetDns, Register, AddRoutes, SessionTest, RemoveRoutes,
           Unregister, RemoveDns
    <3>2. CASE \E cmd \in IpcCommands : WatchPoll(cmd) \/ SessionTick(cmd)
      <4>1. PICK cmd \in IpcCommands : WatchPoll(cmd) \/ SessionTick(cmd)
        BY <3>2
      <4>2. disabled' \in BOOLEAN
        <5>1. /\ cmd = "Disable" => disabled' = TRUE
              /\ cmd = "Enable" => disabled' = FALSE
              /\ cmd \notin {"Disable", "Enable"} => disabled' = disabled
          BY <4>1 DEF WatchPoll, SessionTick
        <5>2. disabled' = TRUE \/ disabled' = FALSE \/ disabled' = disabled
          BY <5>1
        <5> QED
          BY <5>2, <1>t
      <4>3. bridge' \in BOOLEAN
        BY <4>1, <1>t DEF WatchPoll, SessionTick
      <4>4. UNCHANGED <<watch, noRoute, noDns, running, globalRunning, gone,
                        utun, present, attached>>
        BY <4>1 DEF WatchPoll, SessionTick
      <4> QED
        BY <4>2, <4>3, <4>4, <1>t
    <3>3. CASE SetUpFails \/ FindPhone \/ CreateUtun \/ Announce \/ Join \/ Report
      <4>1. /\ bridge' \in BOOLEAN /\ gone' \in BOOLEAN /\ utun' \in BOOLEAN
            /\ attached' \in BOOLEAN
        BY <3>3, <1>t DEF SetUpFails, FindPhone, CreateUtun, Announce, Join,
                          Report
      <4>2. UNCHANGED <<watch, noRoute, noDns, running, globalRunning, present,
                        disabled>>
        BY <3>3 DEF SetUpFails, FindPhone, CreateUtun, Announce, Join, Report
      <4> QED
        BY <4>1, <4>2, <1>t
    <3> QED
      BY <2>1, <3>1, <3>2, <3>3 DEF MainStep
  <2>2. CASE LoseDevice \/ CtrlC \/ SigTerm \/ Plug \/ Unplug
    <3>1. /\ bridge' \in BOOLEAN /\ gone' \in BOOLEAN /\ running' \in BOOLEAN
          /\ globalRunning' \in BOOLEAN /\ present' \in BOOLEAN
          /\ attached' \in BOOLEAN
      BY <2>2, <1>t DEF LoseDevice, CtrlC, SigTerm, Plug, Unplug
    <3>2. UNCHANGED <<watch, noRoute, noDns, utun, disabled>>
      BY <2>2 DEF LoseDevice, CtrlC, SigTerm, Plug, Unplug
    <3> QED
      BY <3>1, <3>2, <1>t
  <2>3. CASE UNCHANGED vars
    BY <2>3, <1>t DEF vars
  <2> QED
    BY <2>1, <2>2, <2>3 DEF TetherNext
<1>2. Data'
  <2>1. CASE MainStep
    <3>1. CASE Start \/ WatchTest \/ AfterSession \/ Nap \/ IdleEnd
      BY <1>t, <3>1 DEF Start, SendState, WatchTest, AfterSession, NextAfterLoss,
                        Nap, IdleEnd, Goto, Pcs
    <3>2. CASE \E cmd \in IpcCommands : WatchPoll(cmd) \/ SessionTick(cmd)
      <4>1. PICK cmd \in IpcCommands : WatchPoll(cmd) \/ SessionTick(cmd)
        BY <3>2
      <4>2. pc' \in Pcs /\ UNCHANGED <<hostVars, plugs, failures>>
        BY <4>1 DEF WatchPoll, SessionTick, Pcs
      <4>3. state' \in {"idle", "watching", state}
        BY <4>1 DEF WatchPoll, SessionTick
      <4>4. \/ commands' = commands
            \/ commands < MaxCommands /\ commands' = commands + 1
        BY <4>1 DEF WatchPoll, SessionTick
      <4>5. commands' \in 0..MaxCommands
        BY <4>4, <1>t
      <4> QED
        BY <4>2, <4>3, <4>5, <1>t
    <3>3. CASE SetUpFails \/ FindPhone \/ InitDriver \/ CreateUtun
               \/ ConfigureUtun \/ SetDns
      BY <1>t, <3>3 DEF SetUpFails, FindPhone, InitDriver, CreateUtun,
                        ConfigureUtun, SetDns, Goto, Pcs
    <3>4. CASE Register \/ AddRoutes \/ Announce
      BY <1>t, <3>4 DEF Register, AddRoutes, Announce, SendState, Goto, Pcs
    <3>5. CASE SessionTest \/ Join \/ RemoveRoutes \/ Unregister
      BY <1>t, <3>5 DEF SessionTest, Join, RemoveRoutes, Unregister,
                        RemainingKeys, Goto, Pcs
    <3>6. CASE RemoveDns \/ Report
      BY <1>t, <3>6 DEF RemoveDns, Report, SendState, EndState, Goto, Pcs
    <3> QED
      BY <2>1, <3>1, <3>2, <3>3, <3>4, <3>5, <3>6 DEF MainStep
  <2>2. CASE LoseDevice \/ CtrlC \/ SigTerm \/ Plug \/ Unplug
    BY <1>t, <2>2 DEF LoseDevice, CtrlC, SigTerm, Plug, Unplug
  <2>3. CASE UNCHANGED vars
    BY <2>3, <1>t DEF vars
  <2> QED
    BY <2>1, <2>2, <2>3 DEF TetherNext
<1> QED
  BY <1>1, <1>2, <1>q

-----------------------------------------------------------------------------
(* The network configuration and what the clients are told *)

\* Each change of the host's network configuration is made at one position of
\* run_session and undone at one (main.rs:189-270, 595-613), whatever way leads
\* from the one to the other.
LEMMA HostStep == LifeInv /\ [TetherNext]_vars => HostInv'
<1> SUFFICES ASSUME LifeInv, [TetherNext]_vars PROVE HostInv'
  OBVIOUS
<1> USE DEF HostInv, WithoutUtun, WithoutRoutes, WithRoutes, WithoutService,
            WithoutDns, WithDns, Goto
<1>h. HostInv
  BY DEF LifeInv
<1>t. /\ utun \in BOOLEAN /\ noRoute \in BOOLEAN /\ noDns \in BOOLEAN
      /\ pc \in Pcs
  BY FlagTypes DEF LifeInv
<1>1. CASE \/ Start \/ WatchTest \/ AfterSession \/ Nap \/ IdleEnd
           \/ FindPhone \/ InitDriver
           \/ \E cmd \in IpcCommands : WatchPoll(cmd)
  <2>1. /\ pc \in WithoutUtun /\ pc' \in WithoutUtun
        /\ UNCHANGED <<noRoute, noDns, hostVars>>
    BY <1>1 DEF Start, WatchTest, WatchPoll, AfterSession, NextAfterLoss, Nap,
                IdleEnd, FindPhone, InitDriver
  <2> QED
    BY <2>1, <1>h
<1>2. CASE SetUpFails
  <2>1. /\ pc \in {"find", "init", "utun", "configure"} /\ pc' = "ended"
        /\ ~utun'
        /\ UNCHANGED <<noRoute, noDns, routes, service, globalDns>>
    BY <1>2 DEF SetUpFails
  <2> QED
    BY <2>1, <1>h
<1>3. CASE CreateUtun
  <2>1. /\ pc = "utun" /\ pc' = "configure"
        /\ utun'
        /\ UNCHANGED <<noRoute, noDns, routes, service, globalDns>>
    BY <1>3 DEF CreateUtun
  <2> QED
    BY <2>1, <1>h
<1>4. CASE ConfigureUtun
  BY <1>4, <1>h DEF ConfigureUtun
<1>5. CASE SetDns
  BY <1>5, <1>h, <1>t DEF SetDns
<1>6. CASE Register
  <2>1. /\ pc = "register" /\ pc' = "route"
        /\ UNCHANGED <<noRoute, noDns, routes, globalDns, utun>>
    BY <1>6 DEF Register
  <2> QED
    BY <2>1, <1>h
<1>7. CASE AddRoutes
  <2>1. /\ pc = "route" /\ pc' = "announce"
        /\ routes' = IF noRoute THEN routes ELSE Halves
        /\ UNCHANGED <<noRoute, noDns, service, globalDns, utun>>
    BY <1>7 DEF AddRoutes
  <2> QED
    BY <2>1, <1>h, <1>t
<1>8. CASE \/ Announce \/ LoseDevice \/ SessionTest \/ Join
           \/ \E cmd \in IpcCommands : SessionTick(cmd)
  <2>1. /\ pc \in WithRoutes /\ pc' \in WithRoutes
        /\ UNCHANGED <<noRoute, noDns, hostVars>>
    BY <1>8 DEF Announce, LoseDevice, SessionTest, Join, SessionTick
  <2> QED
    BY <2>1, <1>h
<1>9. CASE RemoveRoutes
  <2>1. /\ pc = "unroute" /\ pc' = "unregister"
        /\ routes' = IF noRoute THEN routes ELSE {}
        /\ UNCHANGED <<noRoute, noDns, service, globalDns, utun>>
    BY <1>9 DEF RemoveRoutes
  <2> QED
    BY <2>1, <1>h, <1>t
<1>10. CASE Unregister
  <2>1. /\ pc = "unregister" /\ pc' = "undns"
        /\ service' = {}
        /\ UNCHANGED <<noRoute, noDns, routes, globalDns, utun>>
    BY <1>10 DEF Unregister, RemainingKeys
  <2> QED
    BY <2>1, <1>h
<1>11. CASE RemoveDns
  <2>1. /\ pc = "undns" /\ pc' = "report"
        /\ globalDns' = IF noDns THEN globalDns ELSE "removed"
        /\ UNCHANGED <<noRoute, noDns, routes, service, utun>>
    BY <1>11 DEF RemoveDns
  <2> QED
    BY <2>1, <1>h, <1>t
<1>12. CASE Report
  <2>1. /\ pc = "report" /\ pc' = "ended"
        /\ ~utun'
        /\ UNCHANGED <<noRoute, noDns, routes, service, globalDns>>
    BY <1>12 DEF Report
  <2> QED
    BY <2>1, <1>h
<1>13. CASE CtrlC \/ SigTerm \/ Plug \/ Unplug \/ UNCHANGED vars
  <2>1. UNCHANGED <<pc, noRoute, noDns, hostVars>>
    BY <1>13 DEF CtrlC, SigTerm, Plug, Unplug, vars
  <2> QED
    BY <2>1, <1>h
<1> QED
  BY <1>1, <1>2, <1>3, <1>4, <1>5, <1>6, <1>7, <1>8, <1>9, <1>10, <1>11, <1>12,
     <1>13 DEF TetherNext, MainStep

\* The clients are told "connected" on entering the session and something else
\* when it has ended (main.rs:271, 612); an IPC command in between changes
\* nothing of it.
LEMMA ToldStep == LifeInv /\ [TetherNext]_vars => ToldInv'
<1> SUFFICES ASSUME LifeInv, [TetherNext]_vars PROVE ToldInv'
  OBVIOUS
<1> USE DEF ToldInv, SendState, Goto
<1>i. ToldInv /\ watch \in BOOLEAN /\ pc \in Pcs
  BY FlagTypes DEF LifeInv
<1>w. watch' = watch
  BY DEF TetherNext, MainStep, Start, WatchTest, WatchPoll, AfterSession, Nap,
         IdleEnd, SetUpFails, FindPhone, InitDriver, CreateUtun, ConfigureUtun,
         SetDns, Register, AddRoutes, Announce, LoseDevice, SessionTest,
         SessionTick, Join, RemoveRoutes, Unregister, RemoveDns, Report, CtrlC,
         SigTerm, Plug, Unplug, vars
<1>1. CASE Start \/ Report
  <2>1. /\ ~watch => state' = state
        /\ watch => state' \in {"idle", "disconnected"}
        /\ pc' \in {"watch", "find", "ended"}
        /\ pc' = "watch" => watch
    BY <1>1 DEF Start, Report, EndState
  <2> QED
    BY <1>i, <1>w, <2>1
<1>2. CASE Announce
  <2>1. pc' = "session" /\ (~watch => state' = state)
    BY <1>2 DEF Announce
  <2> QED
    BY <1>i, <1>w, <2>1
<1>3. CASE \E cmd \in IpcCommands : WatchPoll(cmd)
  <2>1. PICK cmd \in IpcCommands : WatchPoll(cmd)
    BY <1>3
  <2>2. pc = "poll" /\ pc' \in {"watch", "find"}
    BY <2>1 DEF WatchPoll
  <2>3. state' \in {"idle", "watching", state}
    BY <2>1 DEF WatchPoll
  <2>4. watch /\ state # "connected"
    BY <1>i, <2>2
  <2> QED
    BY <1>w, <2>2, <2>3, <2>4
<1>4. CASE AfterSession
  <2>1. /\ pc = "ended"
        /\ pc' \in {"watch", "nap", "idle"}
        /\ pc' \in {"watch", "nap"} => watch
    BY <1>4 DEF AfterSession, NextAfterLoss
  <2>2. state' = state \/ (watch /\ state' = "watching")
    BY <1>4 DEF AfterSession
  <2> QED
    BY <1>i, <1>w, <2>1, <2>2
<1>5. CASE \/ WatchTest \/ Nap \/ IdleEnd \/ SetUpFails \/ FindPhone
           \/ InitDriver \/ CreateUtun \/ ConfigureUtun \/ SetDns
           \/ Register \/ AddRoutes
  <2>1. /\ state' = state
        /\ pc \notin SessionPcs \cup TearDownPcs
        /\ pc' \in {"watch", "poll"} => pc \in {"watch", "nap"}
        /\ pc' # "nap"
    BY <1>5 DEF WatchTest, Nap, IdleEnd, SetUpFails, FindPhone, InitDriver,
                CreateUtun, ConfigureUtun, SetDns, Register, AddRoutes
  <2> QED
    BY <1>i, <1>w, <2>1
<1>6. CASE \/ SessionTest \/ Join \/ RemoveRoutes \/ Unregister \/ RemoveDns
           \/ LoseDevice \/ \E cmd \in IpcCommands : SessionTick(cmd)
  <2>1. state' = state /\ pc' \in SessionPcs \cup TearDownPcs
    BY <1>6 DEF SessionTest, Join, RemoveRoutes, Unregister, RemoveDns,
                LoseDevice, SessionTick
  <2> QED
    BY <1>i, <1>w, <2>1
<1>7. CASE CtrlC \/ SigTerm \/ Plug \/ Unplug \/ UNCHANGED vars
  <2>1. UNCHANGED <<pc, state>>
    BY <1>7 DEF CtrlC, SigTerm, Plug, Unplug, vars
  <2> QED
    BY <1>i, <1>w, <2>1
<1> QED
  BY <1>1, <1>2, <1>3, <1>4, <1>5, <1>6, <1>7 DEF TetherNext, MainStep

-----------------------------------------------------------------------------
(* The theorems *)

\* Where the main thread is decides what the host's network configuration and
\* the clients hold, in every state of the process.
LEMMA LifeInvariant == TetherSpec => []LifeInv
<1>1. TetherInit => LifeInv
  BY InitLife
<1>2. LifeInv /\ [TetherNext]_vars => LifeInv'
  BY TypesStep, HostStep, ToldStep DEF LifeInv
<1> QED
  BY <1>1, <1>2, PTL DEF TetherSpec

\* Outside run_session the host's routes, DNS and service keys hold nothing of
\* ours and utun is closed, however the sessions before went and ended
\* (main.rs:189-236, 595-613).
THEOREM HostIsLeftClean == TetherSpec => []TetherInv
<1>1. LifeInv => TetherInv
  <2> SUFFICES ASSUME LifeInv PROVE TetherInv
    OBVIOUS
  <2>1. pc \in OutsidePcs =>
          routes = {} /\ service = {} /\ globalDns # "ours" /\ ~utun
    BY DEF LifeInv, HostInv, WithoutUtun, WithoutRoutes, WithoutService,
           WithoutDns
  <2> QED
    BY <2>1 DEF LifeInv, TetherInv, CleanOutsideSession
<1> QED
  BY <1>1, LifeInvariant, PTL

\* A client that is told "connected" (main.rs:271) is told the truth until it is
\* told otherwise (main.rs:612): until then the session is on or being torn
\* down, and while it is on routes, DNS and utun are in place.
THEOREM ConnectedIsTold == TetherSpec => []ConnectedIsTrue
<1>1. LifeInv => ConnectedIsTrue
  BY DEF LifeInv, HostInv, ToldInv, ConnectedIsTrue, WithoutUtun, WithRoutes,
         WithDns
<1> QED
  BY <1>1, LifeInvariant, PTL
=============================================================================
