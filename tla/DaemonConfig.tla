---------------------------- MODULE DaemonConfig ----------------------------
(***************************************************************************)
(* Where the settings of a session come from: the command line and the     *)
(* configuration file (TetherConfig::from_cli, config.rs:100), directly or *)
(* through the launchd daemon that --install sets up (daemon.rs:32): it is *)
(* started with a command line written at install time, and reads the file *)
(* again.                                                                  *)
(*                                                                         *)
(* An address is a name; "bad" is one that does not parse.  A file is what *)
(* its lines amount to: for each key the last value that counts, "none" if *)
(* there is none.  The DNS provider goes the way of the DNS mode and is     *)
(* left out.  launchd is modelled from the calls of launchctl.             *)
(***************************************************************************)
CONSTANTS
  Names,         \* addresses and DNS modes
  CommandLines,  \* the command lines that are used
  Files          \* contents of a configuration file; a missing one is NoFile

NoFile == [noRoute |-> "none", noDns |-> "none", static |-> "none",
           gateway |-> "none", netmask |-> "none", level |-> "none",
           mode |-> "none"]

\* The options of a command line; an address may be one that does not parse.
Arguments ==
  [noRoute : BOOLEAN, noDns : BOOLEAN, static : Names, gateway : Names,
   netmask : Names, mode : Names, verbose : BOOLEAN, config : BOOLEAN]

\* A flag other than "true" is "off", a level other than "debug" is "other", and
\* an address that does not parse does not count.
Contents ==
  [noRoute : {"none", "true", "off"}, noDns : {"none", "true", "off"},
   static : Names \ {"bad"}, gateway : Names \ {"bad"},
   netmask : Names \ {"bad"}, level : {"none", "debug", "other"},
   mode : Names]

ASSUME DaemonAssumption ==
  /\ {"none", "bad", "system", "192.168.42.129", "255.255.255.0"} \subseteq Names
  /\ NoFile \in Files
  /\ Files \subseteq Contents
  /\ CommandLines \subseteq Arguments
  /\ \A a \in CommandLines : a.mode # "none"

Nobody == [nobody |-> TRUE]

VARIABLES
  file,    \* the file at the default path
  other,   \* the file a user may name with --config
  plist,   \* the launchd job: its command line, and the install it is from
  loaded,  \* the job as launchd has it
  pc,      \* where a running --install or --uninstall is
  job,     \* the job it installs
  session, \* a session just started: command line, file, settings and job
  trouble  \* history: the last install or uninstall was interrupted, or
           \* launchctl failed it

vars == <<file, other, plist, loaded, pc, job, session, trouble>>

DaemonInit ==
  /\ file \in Files
  /\ other \in Files
  /\ plist = Nobody
  /\ loaded = Nobody
  /\ pc = "idle"
  /\ job = Nobody
  /\ session = Nobody
  /\ trouble = FALSE

-----------------------------------------------------------------------------
(* from_cli *)

\* Value x if it is given, otherwise y.
Or(x, y) == IF x = "none" THEN y ELSE x

\* Seeded fault: a missing key counts as false.
FlagReset(v, default) == v = "true"

\* merge_ini: a key of the file replaces what is there; a value other than
\* "true" is false.
Flag(v, default) == IF v = "none" THEN default ELSE v = "true"

Merge(c, f) ==
  [noRoute |-> Flag(f.noRoute, c.noRoute),
   noDns   |-> Flag(f.noDns, c.noDns),
   static  |-> Or(f.static, c.static),
   gateway |-> Or(f.gateway, c.gateway),
   netmask |-> Or(f.netmask, c.netmask),
   debug   |-> IF f.level = "none" THEN c.debug ELSE f.level = "debug",
   mode    |-> Or(f.mode, c.mode)]

\* The flags go in before the file is merged, and the addresses after it.
Defaults(a) ==
  [noRoute |-> a.noRoute, noDns |-> a.noDns, static |-> "none",
   gateway |-> "none", netmask |-> "255.255.255.0", debug |-> a.verbose,
   mode |-> "system"]

\* A static address needs a gateway.
GatewayFor(static, gateway) ==
  IF static # "none" /\ gateway = "none" THEN "192.168.42.129" ELSE gateway

Override(given, merged) == Or(given, merged)

\* The DNS mode of the file is replaced by the option, given or default.
FromCli(a, f) ==
  LET c == Merge(Defaults(a), f)
      static == Override(a.static, c.static)
  IN [c EXCEPT !.static  = static,
               !.gateway = GatewayFor(static, Override(a.gateway, @)),
               !.netmask = IF a.netmask = "none" THEN @ ELSE a.netmask,
               !.mode    = a.mode]

\* An address that does not parse ends the program.
Accepted(a) == "bad" \notin {a.static, a.gateway, a.netmask}

FileOf(a) == IF a.config THEN other ELSE file

Started(a, from) ==
  [args |-> a, file |-> FileOf(a), config |-> FromCli(a, FileOf(a)), job |-> from]

-----------------------------------------------------------------------------
(* The program, started by a user *)

\* A session is started by hand.
Run(a) ==
  /\ Accepted(a)
  /\ session' = Started(a, Nobody)
  /\ UNCHANGED <<file, other, plist, loaded, pc, job, trouble>>

\* Seeded fault: the gateway is not passed on.
PlistArgsNoGateway(c) ==
  [noRoute |-> TRUE, noDns |-> FALSE, static |-> c.static, gateway |-> "none",
   netmask |-> "none", mode |-> c.mode, verbose |-> c.debug, config |-> FALSE]

\* The arguments of the daemon; --daemon and --watch are always there.
PlistArgs(c) ==
  [noRoute |-> TRUE, noDns |-> FALSE, static |-> c.static, gateway |-> c.gateway,
   netmask |-> "none", mode |-> c.mode, verbose |-> c.debug, config |-> FALSE]

Install(a) ==
  /\ pc = "idle"
  /\ Accepted(a)
  /\ LET c == FromCli(a, FileOf(a))
     IN job' = [args |-> PlistArgs(c), config |-> c, file |-> FileOf(a)]
  /\ pc' = "write"
  /\ trouble' = FALSE
  /\ session' = Nobody
  /\ UNCHANGED <<file, other, plist, loaded>>

WritePlist ==
  /\ pc = "write"
  /\ plist' = job
  /\ job' = Nobody
  /\ pc' = "unload"
  /\ session' = Nobody
  /\ UNCHANGED <<file, other, loaded, trouble>>

\* Seeded fault: the installer does not unload the previous job.
UnloadedForRemoval == IF pc = "unloadLast" THEN Nobody ELSE loaded

Unloaded == Nobody

\* launchctl unload, of the installer and of the uninstaller; its result is not
\* looked at.
Unload ==
  /\ pc \in {"unload", "unloadLast"}
  /\ pc' = IF pc = "unload" THEN "load" ELSE "remove"
  /\ \/ loaded' = Unloaded /\ UNCHANGED trouble
     \/ trouble' = TRUE /\ UNCHANGED loaded
  /\ session' = Nobody
  /\ UNCHANGED <<file, other, plist, job>>

\* launchctl load -w; a job that is loaded already is left as it is.
Load ==
  /\ pc = "load"
  /\ pc' = "idle"
  /\ \/ loaded' = (IF loaded = Nobody THEN plist ELSE loaded) /\ UNCHANGED trouble
     \/ trouble' = TRUE /\ UNCHANGED loaded
  /\ session' = Nobody
  /\ UNCHANGED <<file, other, plist, job>>

Uninstall ==
  /\ pc = "idle"
  /\ pc' = "unloadLast"
  /\ trouble' = FALSE
  /\ session' = Nobody
  /\ UNCHANGED <<file, other, plist, loaded, job>>

RemovePlist ==
  /\ pc = "remove"
  /\ plist' = Nobody
  /\ pc' = "idle"
  /\ session' = Nobody
  /\ UNCHANGED <<file, other, loaded, job, trouble>>

\* The installer or the uninstaller is killed, or cannot write or remove the
\* plist.
GiveUp ==
  /\ pc # "idle"
  /\ pc' = "idle"
  /\ trouble' = TRUE
  /\ job' = Nobody
  /\ session' = Nobody
  /\ UNCHANGED <<file, other, plist, loaded>>

-----------------------------------------------------------------------------
(* launchd and the user's files *)

\* A phone is attached: the daemon starts.
Attach ==
  /\ loaded # Nobody
  /\ session' = Started(loaded.args, loaded)
  /\ UNCHANGED <<file, other, plist, loaded, pc, job, trouble>>

\* After a restart launchd has what is on disk; a running installer is gone.
Reboot ==
  /\ loaded' = plist
  /\ pc' = "idle"
  /\ trouble' = (trouble \/ pc # "idle")
  /\ job' = Nobody
  /\ session' = Nobody
  /\ UNCHANGED <<file, other, plist>>

EditFile(f) ==
  /\ file' = f
  /\ session' = Nobody
  /\ UNCHANGED <<other, plist, loaded, pc, job, trouble>>

DaemonNext ==
  \/ \E a \in CommandLines : Run(a) \/ Install(a)
  \/ WritePlist \/ Unload \/ Load \/ Uninstall \/ RemovePlist \/ GiveUp
  \/ Attach \/ Reboot
  \/ \E f \in Files : EditFile(f)

DaemonSpec == DaemonInit /\ [][DaemonNext]_vars

-----------------------------------------------------------------------------
(* Properties *)

Settings ==
  [noRoute : BOOLEAN, noDns : BOOLEAN, static : Names, gateway : Names,
   netmask : Names, debug : BOOLEAN, mode : Names]

Jobs == [args : Arguments, config : Settings, file : Files]

\* Settings, jobs and positions have their types; an address has been parsed.
DaemonTypeOK ==
  /\ file \in Files /\ other \in Files
  /\ {plist, loaded, job} \subseteq Jobs \cup {Nobody}
  /\ pc \in {"idle", "write", "unload", "load", "unloadLast", "remove"}
  /\ session # Nobody =>
       session.config \in Settings /\ session.config.gateway # "bad"
  /\ trouble \in BOOLEAN

InstalledSession == session # Nobody /\ session.job # Nobody

\* A daemon has the address, the gateway and the DNS mode of the install it is
\* from, whatever became of the configuration file since (daemon.rs:43-59).
DaemonKeepsAddresses ==
  InstalledSession =>
    LET wanted == session.job.config
    IN /\ session.config.mode = wanted.mode
       /\ wanted.static # "none" =>
            /\ session.config.static = wanted.static
            /\ session.config.gateway = wanted.gateway

\* With the file it was installed with, a daemon differs from the install in
\* nothing but what daemon.rs:43 leaves out: routes are not set unless the file
\* says so, and --no-dns and --netmask are not passed on.
DaemonLosesOnlyThree ==
  InstalledSession /\ session.file = session.job.file =>
    \A k \in {"static", "gateway", "debug", "mode"} :
      session.config[k] = session.job.config[k]

\* What of an install reaches the sessions of the daemon (daemon.rs:43-59).
DaemonKeepsSettings == DaemonKeepsAddresses /\ DaemonLosesOnlyThree

\* A flag given on the command line, by the user or in the plist, is only ever
\* switched off by the file (config.rs:139, 187-188).
FlagUndoneOnlyByFile ==
  session # Nobody =>
    /\ session.args.noRoute /\ ~session.config.noRoute => session.file.noRoute = "off"
    /\ session.args.noDns /\ ~session.config.noDns => session.file.noDns = "off"

\* Every address that is given on the command line holds (config.rs:144-167),
\* and a static address never comes without a gateway.
CommandLineAddressesHold ==
  session # Nobody =>
    /\ \A k \in {"static", "gateway", "netmask"} :
         session.args[k] # "none" => session.config[k] = session.args[k]
    /\ session.config.static # "none" => session.config.gateway # "none"

\* What holds of the command line once the file is merged (config.rs:124-167).
CommandLineHolds == FlagUndoneOnlyByFile /\ CommandLineAddressesHold

\* Outside an install or uninstall, and if launchctl did what it was asked, the
\* daemon that would start is the one on disk: of the last install, or none
\* after an uninstall (daemon.rs:137-145, 161-166).
LoadedIsOnDisk == pc = "idle" /\ ~trouble => loaded = plist

\* The types, and the job launchd holds (daemon.rs:137-145, 161-166).
DaemonInv == DaemonTypeOK /\ LoadedIsOnDisk
=============================================================================
