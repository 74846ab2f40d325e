------------------------------- MODULE Tether -------------------------------
(***************************************************************************)
(* The life of the process: main() with its watch loop and signal          *)
(* handlers, and run_session around the threads of module Bridge: finding  *)
(* and initialising the phone, changing the network configuration of the   *)
(* host, waiting for the end of the session, and undoing the changes.      *)
(*                                                                         *)
(* The threads of a session are reduced to the two flags they leave to     *)
(* run_session, the IPC server to the command a poll returns.  Of the host *)
(* the model keeps what the program changes: the two halves of the default *)
(* route, the keys of the network service, the global DNS key, utun.  The  *)
(* commands that change them (route, scutil) are taken to succeed: the     *)
(* program ignores their status.                                           *)
(***************************************************************************)
EXTENDS Naturals, FiniteSets

CONSTANTS
  MaxPlugs,      \* bound: times the phone is plugged in
  MaxFailures,   \* bound: failures with the phone plugged in
  MaxCommands    \* bound: IPC commands received

ASSUME TetherAssumption ==
  MaxPlugs \in Nat /\ MaxFailures \in Nat /\ MaxCommands \in Nat

VARIABLES
  watch, noRoute, noDns,  \* config.watch_mode, no_route, no_dns
  pc,             \* where the main thread is
  running,        \* the flag of the Ctrl-C handler
  globalRunning,  \* GLOBAL_RUNNING
  bridge,         \* running_bridge
  gone,           \* device_gone, and was_disconnected after the session
  routes,         \* routes of ours
  service,        \* keys under State:/Network/Service/android-tether
  globalDns,      \* State:/Network/Global/DNS: "host", "ours", "removed"
  utun,           \* the utun interface exists
  state,          \* the state last sent to IPC clients
  present,        \* the phone is plugged in
  attached,       \* the phone has not been unplugged since it was opened
  plugs, failures, commands,
  disabled        \* history: the last enable/disable command was disable

config   == <<watch, noRoute, noDns>>
signals  == <<running, globalRunning>>
sessVars == <<bridge, gone>>
hostVars == <<routes, service, globalDns, utun>>
phone    == <<present, attached, plugs>>
ipcVars  == <<state, commands, disabled>>
vars     == <<config, pc, signals, sessVars, hostVars, phone, ipcVars, failures>>

\* What IpcServer::poll returns
IpcCommands == {"None", "Stop", "Disable", "Enable"}

Halves == {"0.0.0.0/1", "128.0.0.0/1"}
Keys   == {"IPv4", "Interface", "DNS"}

SetUpPcs    == {"find", "init", "utun", "configure", "dns", "register", "route",
                "announce"}
SessionPcs  == {"session", "tick", "join"}
TearDownPcs == {"unroute", "unregister", "undns", "report"}
OutsidePcs  == {"start", "watch", "poll", "ended", "nap", "idle", "exit"}

TetherInit ==
  /\ watch \in BOOLEAN /\ noRoute \in BOOLEAN /\ noDns \in BOOLEAN
  /\ pc = "start"
  /\ running = TRUE /\ globalRunning = TRUE
  /\ bridge = FALSE /\ gone = FALSE
  /\ routes = {} /\ service = {} /\ globalDns = "host" /\ utun = FALSE
  /\ state = "none"
  /\ present \in BOOLEAN /\ attached = FALSE
  /\ plugs = 0 /\ failures = 0 /\ commands = 0
  /\ disabled = FALSE

\* is_running
IsRunning == running /\ globalRunning

Goto(a, b) == pc = a /\ pc' = b

\* send_state reaches anyone only in watch mode.
SendState(s) == state' = IF watch THEN s ELSE state

-----------------------------------------------------------------------------
(* main *)

Start ==
  /\ Goto("start", IF watch THEN "watch" ELSE "find")
  /\ SendState("idle")
  /\ UNCHANGED <<config, signals, sessVars, hostVars, phone, commands, disabled,
                 failures>>

WatchTest ==
  /\ Goto("watch", IF IsRunning THEN "poll" ELSE "exit")
  /\ UNCHANGED <<config, signals, sessVars, hostVars, phone, ipcVars, failures>>

\* The poll at the top of the watch loop: disable goes round the loop again,
\* every other result, none included, starts a session.
WatchPoll(cmd) ==
  /\ pc = "poll"
  /\ IF cmd = "None" THEN UNCHANGED commands
     ELSE commands < MaxCommands /\ commands' = commands + 1
  /\ pc' = IF cmd = "Disable" THEN "watch" ELSE "find"
  /\ state' = CASE cmd = "Disable" -> "idle"
                [] cmd = "Enable"  -> "watching"
                [] OTHER           -> state
  /\ disabled' = CASE cmd = "Disable" -> TRUE
                   [] cmd = "Enable"  -> FALSE
                   [] OTHER           -> disabled
  /\ UNCHANGED <<config, signals, sessVars, hostVars, phone, failures>>

\* Seeded fault: a lost device ends the watch loop.
NextAfterLossQuit == "exit"

NextAfterLoss == "nap"

\* run_session has returned: a lost device is announced and waited for, any
\* other end goes back to the loop after a second.  Without watch mode the
\* process stays until a signal arrives.
AfterSession ==
  /\ pc = "ended"
  /\ pc' = CASE ~watch -> "idle"
             [] watch /\ gone /\ IsRunning -> NextAfterLoss
             [] OTHER -> "watch"
  /\ state' = IF watch /\ gone /\ IsRunning THEN "watching" ELSE state
  /\ UNCHANGED <<config, signals, sessVars, hostVars, phone, commands, disabled,
                 failures>>

\* Six naps of half a second, cut short by a signal.
Nap ==
  /\ Goto("nap", "watch")
  /\ UNCHANGED <<config, signals, sessVars, hostVars, phone, ipcVars, failures>>

IdleEnd ==
  /\ Goto("idle", "exit")
  /\ ~IsRunning
  /\ UNCHANGED <<config, signals, sessVars, hostVars, phone, ipcVars, failures>>

-----------------------------------------------------------------------------
(* run_session: set-up *)

\* A step fails: run_session returns false, and closes utun if it was created.
SetUpFails ==
  /\ pc \in {"find", "init", "utun", "configure"}
  /\ \/ failures < MaxFailures /\ failures' = failures + 1
     \/ pc = "find" /\ ~present /\ UNCHANGED failures
     \/ pc = "init" /\ ~attached /\ UNCHANGED failures
  /\ pc' = "ended"
  /\ gone' = FALSE
  /\ utun' = FALSE
  /\ UNCHANGED <<config, signals, bridge, routes, service, globalDns, phone,
                 ipcVars>>

\* UsbDevice::find_rndis, then drv.init; the address comes from the options,
\* from DHCP or from defaults.
FindPhone ==
  /\ Goto("find", "init")
  /\ present
  /\ attached' = TRUE
  /\ UNCHANGED <<config, signals, sessVars, hostVars, present, plugs, ipcVars,
                 failures>>

InitDriver ==
  /\ Goto("init", "utun")
  /\ attached
  /\ UNCHANGED <<config, signals, sessVars, hostVars, phone, ipcVars, failures>>

CreateUtun ==
  /\ Goto("utun", "configure")
  /\ utun' = TRUE
  /\ UNCHANGED <<config, signals, sessVars, routes, service, globalDns, phone,
                 ipcVars, failures>>

ConfigureUtun ==
  /\ Goto("configure", "dns")
  /\ UNCHANGED <<config, signals, sessVars, hostVars, phone, ipcVars, failures>>

SetDns ==
  /\ Goto("dns", "register")
  /\ globalDns' = IF noDns THEN globalDns ELSE "ours"
  /\ UNCHANGED <<config, signals, sessVars, routes, service, utun, phone, ipcVars,
                 failures>>

\* register_service writes the DNS key only when it is given servers.
Register ==
  /\ Goto("register", "route")
  /\ service' = CASE ~noDns -> Keys
                  [] noDns /\ ~noRoute -> Keys \ {"DNS"}
                  [] OTHER -> service
  /\ UNCHANGED <<config, signals, sessVars, routes, globalDns, utun, phone,
                 ipcVars, failures>>

\* set_default_route: one half after the other
AddRoutes ==
  /\ Goto("route", "announce")
  /\ routes' = IF noRoute THEN routes ELSE Halves
  /\ UNCHANGED <<config, signals, sessVars, service, globalDns, utun, phone,
                 ipcVars, failures>>

\* The gratuitous ARP, the connected state, and the start of the threads
Announce ==
  /\ Goto("announce", "session")
  /\ SendState("connected")
  /\ bridge' = TRUE
  /\ gone' = FALSE
  /\ UNCHANGED <<config, signals, hostVars, phone, commands, disabled, failures>>

-----------------------------------------------------------------------------
(* run_session: the session and its end *)

\* The I/O thread has lost its transfers: always once the phone was unplugged,
\* even if it is back, and possibly while it is plugged in; up to the join.
LoseDevice ==
  /\ pc \in SessionPcs
  /\ ~gone
  /\ \/ ~attached /\ UNCHANGED failures
     \/ attached /\ failures < MaxFailures /\ failures' = failures + 1
  /\ gone' = TRUE
  /\ bridge' = FALSE
  /\ UNCHANGED <<config, pc, signals, hostVars, phone, ipcVars>>

\* Seeded fault: only the threads of the session end it.
SessionOverBridge == ~bridge

\* while running && running_bridge: GLOBAL_RUNNING is not part of it.
SessionOver == ~running \/ ~bridge

SessionTest ==
  /\ Goto("session", IF SessionOver THEN "join" ELSE "tick")
  /\ UNCHANGED <<config, signals, sessVars, hostVars, phone, ipcVars, failures>>

\* The rest of the loop's body: keepalive, statistics and, in watch mode, the
\* poll, whose stop and disable leave the loop.
SessionTick(cmd) ==
  /\ pc = "tick"
  /\ IF cmd = "None" THEN UNCHANGED commands
     ELSE watch /\ commands < MaxCommands /\ commands' = commands + 1
  /\ IF cmd \in {"Stop", "Disable"}
     THEN pc' = "join" /\ bridge' = FALSE
     ELSE pc' = "session" /\ UNCHANGED bridge
  /\ disabled' = CASE cmd = "Disable" -> TRUE
                   [] cmd = "Enable"  -> FALSE
                   [] OTHER           -> disabled
  /\ UNCHANGED <<config, signals, gone, hostVars, phone, state, failures>>

\* The bridge is stopped and the threads are joined.
Join ==
  /\ Goto("join", "unroute")
  /\ bridge' = FALSE
  /\ UNCHANGED <<config, signals, gone, hostVars, phone, ipcVars, failures>>

RemoveRoutes ==
  /\ Goto("unroute", "unregister")
  /\ routes' = IF noRoute THEN routes ELSE {}
  /\ UNCHANGED <<config, signals, sessVars, service, globalDns, utun, phone,
                 ipcVars, failures>>

\* Seeded fault: the service is only removed by those who set DNS.
RemainingKeysWithDns == IF noDns THEN service ELSE {}

\* Utun::unregister_service removes the three keys, whatever was registered.
RemainingKeys == {}

Unregister ==
  /\ Goto("unregister", "undns")
  /\ service' = RemainingKeys
  /\ UNCHANGED <<config, signals, sessVars, routes, globalDns, utun, phone,
                 ipcVars, failures>>

RemoveDns ==
  /\ Goto("undns", "report")
  /\ globalDns' = IF noDns THEN globalDns ELSE "removed"
  /\ UNCHANGED <<config, signals, sessVars, routes, service, utun, phone, ipcVars,
                 failures>>

\* Seeded fault: the end of a session is not announced.
EndStateSilent == state

\* The state sent at the end of a session
EndState == "disconnected"

\* The last message; utun is closed when run_session returns.
Report ==
  /\ Goto("report", "ended")
  /\ SendState(EndState)
  /\ utun' = FALSE
  /\ UNCHANGED <<config, signals, sessVars, routes, service, globalDns, phone,
                 commands, disabled, failures>>

MainStep ==
  \/ Start \/ WatchTest
  \/ \E cmd \in IpcCommands : WatchPoll(cmd) \/ SessionTick(cmd)
  \/ AfterSession \/ Nap \/ IdleEnd
  \/ SetUpFails \/ FindPhone \/ InitDriver \/ CreateUtun \/ ConfigureUtun
  \/ SetDns \/ Register \/ AddRoutes \/ Announce
  \/ SessionTest \/ Join \/ RemoveRoutes \/ Unregister \/ RemoveDns \/ Report

-----------------------------------------------------------------------------
(* Signals and the phone *)

\* The Ctrl-C handler clears both flags ...
CtrlC ==
  /\ running
  /\ running' = FALSE
  /\ globalRunning' = FALSE
  /\ UNCHANGED <<config, pc, sessVars, hostVars, phone, ipcVars, failures>>

\* ... sigterm_handler only the global one.
SigTerm ==
  /\ globalRunning
  /\ globalRunning' = FALSE
  /\ UNCHANGED <<config, pc, running, sessVars, hostVars, phone, ipcVars, failures>>

Plug ==
  /\ ~present
  /\ plugs < MaxPlugs
  /\ present' = TRUE
  /\ plugs' = plugs + 1
  /\ UNCHANGED <<config, pc, signals, sessVars, hostVars, attached, ipcVars,
                 failures>>

Unplug ==
  /\ present
  /\ present' = FALSE
  /\ attached' = FALSE
  /\ UNCHANGED <<config, pc, signals, sessVars, hostVars, plugs, ipcVars, failures>>

TetherNext ==
  \/ MainStep
  \/ LoseDevice
  \/ CtrlC \/ SigTerm \/ Plug \/ Unplug

TetherSpec == TetherInit /\ [][TetherNext]_vars

\* The main thread runs, and a session notices that its phone is gone
\* (SessionEnds of Bridge).  No signal, command or plug is assumed.
TetherLiveSpec == TetherSpec /\ WF_vars(MainStep) /\ WF_vars(~attached /\ LoseDevice)

-----------------------------------------------------------------------------
(* Properties *)

\* Every variable has its type, and the state sent to the clients is one of the
\* five main.rs names.
TetherTypeOK ==
  /\ <<watch, noRoute, noDns>> \in BOOLEAN \X BOOLEAN \X BOOLEAN
  /\ pc \in OutsidePcs \cup SetUpPcs \cup SessionPcs \cup TearDownPcs
  /\ <<running, globalRunning>> \in BOOLEAN \X BOOLEAN
  /\ <<bridge, gone>> \in BOOLEAN \X BOOLEAN
  /\ routes \subseteq Halves
  /\ service \subseteq Keys
  /\ globalDns \in {"host", "ours", "removed"}
  /\ utun \in BOOLEAN
  /\ state \in {"none", "idle", "watching", "connected", "disconnected"}
  /\ <<present, attached>> \in BOOLEAN \X BOOLEAN
  /\ plugs \in 0..MaxPlugs
  /\ failures \in 0..MaxFailures
  /\ commands \in 0..MaxCommands
  /\ disabled \in BOOLEAN

\* Whatever the options, and however a session was left (set-up that fails half
\* way at main.rs:189-236, unplugged, stopped, interrupted), nothing of ours
\* stays in the host's network configuration (main.rs:595-609).
CleanOutsideSession ==
  pc \in OutsidePcs =>
    routes = {} /\ service = {} /\ globalDns # "ours" /\ ~utun

\* The types, and what a session leaves behind (main.rs:595-609).
TetherInv == TetherTypeOK /\ CleanOutsideSession

\* IPC clients are told "connected" (main.rs:271) only about a session whose
\* network set-up is complete, and never go on believing it after the session
\* has returned (main.rs:612).
ConnectedIsTrue ==
  state = "connected" =>
    /\ pc \in SessionPcs \cup TearDownPcs
    /\ pc \in SessionPcs =>
         utun /\ (~noRoute => routes = Halves) /\ (~noDns => globalDns = "ours")

\* Ctrl-C ends the process from wherever it is, after the network was restored
\* (main.rs:663-666, 496, 684-717).
CtrlCExits == ~running ~> pc = "exit"

\* In watch mode a phone that is plugged in and stays gets a session, also after
\* it was removed from an earlier one (main.rs:684-717).
WatchReconnects ==
  watch /\ present ~> pc = "session" \/ ~present \/ ~IsRunning

\* What the comment at main.rs:669 says: SIGTERM shuts the daemon down.
SigTermExits == ~globalRunning ~> pc = "exit"

\* What the message at main.rs:688 says: after a disable command auto-connect is
\* disabled, until it is enabled again.
DisableSticks == disabled => pc # "find"
=============================================================================
