------------------------- MODULE DaemonConfigProofs -------------------------
(***************************************************************************)
(* Theorems about DaemonConfig, for every set of command lines and of      *)
(* files.                                                                  *)
(*                                                                         *)
(* The invariants speak of settings only; to be inductive they need where  *)
(* the settings come from: every job, whether in the installer's hands, on *)
(* disk or in launchd, was computed from an accepted command line and a    *)
(* file (JobsInv), every session from one or from such a job (SessionsInv),*)
(* and an untroubled installer has an empty launchd when it loads          *)
(* (LaunchdInv).                                                           *)
(***************************************************************************)
EXTENDS DaemonConfig, TLAPS

AcceptedLines == {a \in CommandLines : Accepted(a)}

\* What --install computes from a command line and a file
InstalledJob(a, f) ==
  [args |-> PlistArgs(FromCli(a, f)), config |-> FromCli(a, f), file |-> f]

InstalledJobs == {InstalledJob(a, f) : a \in AcceptedLines, f \in Files}

\* What a session started with arguments a has, if the file it reads is f
StartedWith(a, f, from) ==
  [args |-> a, file |-> f, config |-> FromCli(a, f), job |-> from]

StartedSessions ==
  {StartedWith(a, f, Nobody) : a \in AcceptedLines, f \in Files}
  \cup {StartedWith(j.args, f, j) : j \in InstalledJobs, f \in Files}

PositionsOK ==
  /\ file \in Files /\ other \in Files
  /\ pc \in {"idle", "write", "unload", "load", "unloadLast", "remove"}
  /\ trouble \in BOOLEAN

JobsInv ==
  /\ plist \in InstalledJobs \cup {Nobody}
  /\ loaded \in InstalledJobs \cup {Nobody}
  /\ job \in InstalledJobs \cup {Nobody}

SessionsInv == session \in StartedSessions \cup {Nobody}

LaunchdInv ==
  /\ pc \in {"load", "remove"} /\ ~trouble => loaded = Nobody
  /\ LoadedIsOnDisk

InstallInv == PositionsOK /\ JobsInv /\ SessionsInv /\ LaunchdInv

-----------------------------------------------------------------------------
(* What from_cli computes *)

\* Every setting that from_cli (config.rs:100-170) returns, from the option and
\* the key of the file it depends on.
LEMMA SettingsOf ==
  ASSUME NEW a \in Arguments, NEW f \in Contents
  PROVE  FromCli(a, f) =
           [noRoute |-> Flag(f.noRoute, a.noRoute),
            noDns   |-> Flag(f.noDns, a.noDns),
            static  |-> Or(a.static, Or(f.static, "none")),
            gateway |-> GatewayFor(Or(a.static, Or(f.static, "none")),
                                   Or(a.gateway, Or(f.gateway, "none"))),
            netmask |-> Or(a.netmask, Or(f.netmask, "255.255.255.0")),
            debug   |-> IF f.level = "none" THEN a.verbose
                        ELSE f.level = "debug",
            mode    |-> a.mode]
<1> DEFINE d == Defaults(a)
           m == Merge(d, f)
           nr == Flag(f.noRoute, a.noRoute)
           nd == Flag(f.noDns, a.noDns)
           db == IF f.level = "none" THEN a.verbose ELSE f.level = "debug"
           st == Or(f.static, "none")
           gw == Or(f.gateway, "none")
           nm == Or(f.netmask, "255.255.255.0")
           md == Or(f.mode, "system")
<1>1. /\ d.noRoute = a.noRoute
      /\ d.noDns = a.noDns
      /\ d.debug = a.verbose
  BY DEF Defaults, Arguments
<1>2. /\ d.static = "none" /\ d.gateway = "none" /\ d.mode = "system"
      /\ d.netmask = "255.255.255.0"
  BY DEF Defaults
<1>3. m = [noRoute |-> nr, noDns |-> nd, static |-> st, gateway |-> gw,
           netmask |-> nm, debug |-> db, mode |-> md]
  <2> HIDE DEF d
  <2> QED
    BY <1>1, <1>2, Zenon DEF Merge
<1>4. FromCli(a, f) =
        [m EXCEPT !.static  = Or(a.static, m.static),
                  !.gateway = GatewayFor(Or(a.static, m.static), Or(a.gateway, @)),
                  !.netmask = IF a.netmask = "none" THEN @ ELSE a.netmask,
                  !.mode    = a.mode]
  BY Zenon DEF FromCli, Override
<1> HIDE DEF m, nr, nd, db, st, gw, nm, md
<1>5. FromCli(a, f) =
        [noRoute |-> nr, noDns |-> nd, static |-> Or(a.static, st),
         gateway |-> GatewayFor(Or(a.static, st), Or(a.gateway, gw)),
         netmask |-> Or(a.netmask, nm), debug |-> db, mode |-> a.mode]
  BY <1>3, <1>4 DEF Or
<1> QED
  BY <1>5, Zenon DEF nr, nd, db, st, gw, nm, md

\* Each of them by itself
LEMMA SettingByKey ==
  ASSUME NEW a \in Arguments, NEW f \in Contents
  PROVE  LET c == FromCli(a, f)
             static == Or(a.static, f.static)
         IN /\ c.noRoute = Flag(f.noRoute, a.noRoute)
            /\ c.noDns = Flag(f.noDns, a.noDns)
            /\ c.static = static
            /\ c.gateway = GatewayFor(static, Or(a.gateway, f.gateway))
            /\ c.netmask = Or(a.netmask, Or(f.netmask, "255.255.255.0"))
            /\ c.debug = IF f.level = "none" THEN a.verbose ELSE f.level = "debug"
            /\ c.mode = a.mode
<1> DEFINE nr == Flag(f.noRoute, a.noRoute)
           nd == Flag(f.noDns, a.noDns)
           db == IF f.level = "none" THEN a.verbose ELSE f.level = "debug"
<1>1. Or(f.static, "none") = f.static /\ Or(f.gateway, "none") = f.gateway
  BY DEF Or
<1>2. FromCli(a, f) =
        [noRoute |-> nr, noDns |-> nd, static |-> Or(a.static, f.static),
         gateway |-> GatewayFor(Or(a.static, f.static), Or(a.gateway, f.gateway)),
         netmask |-> Or(a.netmask, Or(f.netmask, "255.255.255.0")),
         debug |-> db, mode |-> a.mode]
  BY ONLY SettingsOf, <1>1, Zenon, a \in Arguments, f \in Contents
<1>3. /\ FromCli(a, f).noRoute = nr
      /\ FromCli(a, f).noDns = nd
      /\ FromCli(a, f).debug = db
  <2> HIDE DEF nr, nd, db
  <2> QED
    BY ONLY <1>2
<1>4. /\ FromCli(a, f).static = Or(a.static, f.static)
      /\ FromCli(a, f).gateway
           = GatewayFor(Or(a.static, f.static), Or(a.gateway, f.gateway))
      /\ FromCli(a, f).netmask = Or(a.netmask, Or(f.netmask, "255.255.255.0"))
      /\ FromCli(a, f).mode = a.mode
  <2> HIDE DEF nr, nd, db
  <2> QED
    BY ONLY <1>2
<1> QED
  BY ONLY <1>3, <1>4, Zenon

\* The settings have their types, and with addresses that parse the gateway is
\* one (config.rs:144-167).
LEMMA SettingsAreTyped ==
  ASSUME NEW a \in Arguments, NEW f \in Contents, a.gateway # "bad"
  PROVE  FromCli(a, f) \in Settings /\ FromCli(a, f).gateway # "bad"
<1> DEFINE nr == Flag(f.noRoute, a.noRoute)
           nd == Flag(f.noDns, a.noDns)
           db == IF f.level = "none" THEN a.verbose ELSE f.level = "debug"
           st == Or(a.static, Or(f.static, "none"))
           gw == GatewayFor(st, Or(a.gateway, Or(f.gateway, "none")))
           nm == Or(a.netmask, Or(f.netmask, "255.255.255.0"))
<1>0. /\ a.static \in Names /\ a.gateway \in Names
      /\ a.netmask \in Names /\ a.mode \in Names
      /\ f.static \in Names /\ f.netmask \in Names
      /\ f.gateway \in Names /\ f.gateway # "bad"
  BY DEF Arguments, Contents
<1>1. gw \in Names /\ gw # "bad"
  BY <1>0, DaemonAssumption DEF Or, GatewayFor
<1>2. st \in Names /\ nm \in Names /\ a.mode \in Names
  BY <1>0, DaemonAssumption DEF Or
<1>3. nr \in BOOLEAN
  BY DEF Flag, Arguments, Contents
<1>4. nd \in BOOLEAN
  BY DEF Flag, Arguments, Contents
<1>5. db \in BOOLEAN
  BY DEF Arguments, Contents
<1>6. FromCli(a, f) =
        [noRoute |-> nr, noDns |-> nd, static |-> st, gateway |-> gw,
         netmask |-> nm, debug |-> db, mode |-> a.mode]
  BY SettingsOf, Zenon
<1> HIDE DEF nr, nd, db, st, gw, nm
<1> QED
  BY <1>1, <1>2, <1>3, <1>4, <1>5, <1>6 DEF Settings

\* The arguments that the installer writes into the plist (daemon.rs:43-59),
\* from the settings it has.
LEMMA ArgsOfSettings ==
  ASSUME NEW c \in Settings
  PROVE  /\ PlistArgs(c) \in Arguments
         /\ PlistArgs(c).noRoute = TRUE
         /\ PlistArgs(c).noDns = FALSE
         /\ PlistArgs(c).static = c.static
         /\ PlistArgs(c).gateway = c.gateway
         /\ PlistArgs(c).netmask = "none"
         /\ PlistArgs(c).mode = c.mode
         /\ PlistArgs(c).verbose = c.debug
<1>1. c.debug \in BOOLEAN
  BY DEF Settings
<1>2. c.static \in Names /\ c.gateway \in Names /\ c.mode \in Names
  BY DEF Settings
<1> DEFINE db == c.debug
           yes == TRUE
           no == FALSE
<1>3. PlistArgs(c) =
        [noRoute |-> yes, noDns |-> no, static |-> c.static,
         gateway |-> c.gateway, netmask |-> "none", mode |-> c.mode,
         verbose |-> db, config |-> no]
  BY Zenon DEF PlistArgs
<1>4. db \in BOOLEAN /\ yes \in BOOLEAN /\ no \in BOOLEAN
  BY <1>1
<1> HIDE DEF db, yes, no
<1>5. PlistArgs(c) \in Arguments
  BY ONLY <1>2, <1>3, <1>4, DaemonAssumption DEF Arguments
<1>6. /\ PlistArgs(c).noRoute = yes
      /\ PlistArgs(c).noDns = no
      /\ PlistArgs(c).static = c.static
      /\ PlistArgs(c).gateway = c.gateway
      /\ PlistArgs(c).netmask = "none"
      /\ PlistArgs(c).mode = c.mode
      /\ PlistArgs(c).verbose = db
  BY ONLY <1>3
<1> QED
  BY <1>5, <1>6, Zenon DEF db, yes, no

-----------------------------------------------------------------------------
(* Jobs and sessions *)

\* A job has its types, and its gateway and mode are usable: the second time
\* from_cli sees them (daemon.rs:43-59, config.rs:144-163).
LEMMA JobsAreTyped ==
  ASSUME NEW j \in InstalledJobs
  PROVE  j \in Jobs /\ j.args.gateway # "bad"
<1>1. PICK a \in AcceptedLines, f \in Files : j = InstalledJob(a, f)
  BY DEF InstalledJobs
<1>2. a \in Arguments /\ f \in Contents /\ a.gateway # "bad"
  BY DaemonAssumption DEF AcceptedLines, Accepted
<1>3. FromCli(a, f) \in Settings /\ FromCli(a, f).gateway # "bad"
  BY <1>2, SettingsAreTyped
<1>4. /\ PlistArgs(FromCli(a, f)) \in Arguments
      /\ PlistArgs(FromCli(a, f)).gateway = FromCli(a, f).gateway
  BY <1>3, ArgsOfSettings
<1> HIDE DEF FromCli
<1> QED
  BY <1>1, <1>3, <1>4 DEF InstalledJob, Jobs

\* A job is told from none.
LEMMA JobIsSomebody == Nobody \notin InstalledJobs
<1>1. Nobody \notin Jobs
  BY DEF Nobody, Jobs
<1> QED
  BY <1>1, JobsAreTyped

\* A session was started by hand, from an accepted command line, or from a job,
\* with its arguments; either way its settings are what from_cli makes of them
\* and of the file (main.rs:619, daemon.rs:43-59).
LEMMA SessionOrigin ==
  ASSUME NEW s \in StartedSessions
  PROVE  /\ s.args \in Arguments /\ s.args.gateway # "bad"
         /\ s.file \in Files
         /\ s.config = FromCli(s.args, s.file)
         /\ s.job \in InstalledJobs \cup {Nobody}
         /\ s.job # Nobody => s.args = s.job.args
<1>1. CASE \E a \in AcceptedLines, f \in Files : s = StartedWith(a, f, Nobody)
  <2>1. PICK a \in AcceptedLines, f \in Files : s = StartedWith(a, f, Nobody)
    BY <1>1
  <2>2. a \in Arguments /\ a.gateway # "bad"
    BY DaemonAssumption DEF AcceptedLines, Accepted
  <2>3. /\ s.args = a /\ s.file = f /\ s.config = FromCli(a, f)
        /\ s.job = Nobody
    BY ONLY <2>1 DEF StartedWith
  <2> QED
    BY <2>2, <2>3
<1>2. CASE \E j \in InstalledJobs, f \in Files : s = StartedWith(j.args, f, j)
  <2>1. PICK j \in InstalledJobs, f \in Files : s = StartedWith(j.args, f, j)
    BY <1>2
  <2>2. j.args \in Arguments /\ j.args.gateway # "bad"
    BY JobsAreTyped DEF Jobs
  <2>3. /\ s.args = j.args /\ s.file = f /\ s.config = FromCli(j.args, f)
        /\ s.job = j
    BY ONLY <2>1 DEF StartedWith
  <2> QED
    BY <2>2, <2>3
<1> QED
  BY <1>1, <1>2 DEF StartedSessions

\* What a user or launchd starts is one of the sessions above.
LEMMA StartedIsStarted ==
  ASSUME PositionsOK
  PROVE  /\ \A a \in AcceptedLines : Started(a, Nobody) \in StartedSessions
         /\ \A j \in InstalledJobs : Started(j.args, j) \in StartedSessions
         /\ \A a \in AcceptedLines :
              [args |-> PlistArgs(FromCli(a, FileOf(a))),
               config |-> FromCli(a, FileOf(a)), file |-> FileOf(a)]
                \in InstalledJobs
<1>1. \A a : FileOf(a) \in Files
  BY Zenon DEF PositionsOK, FileOf
<1>2. \A a, from : Started(a, from) = StartedWith(a, FileOf(a), from)
  BY Zenon DEF Started, StartedWith
<1> HIDE DEF FileOf
<1>3. \A a \in AcceptedLines : InstalledJob(a, FileOf(a)) \in InstalledJobs
  BY <1>1 DEF InstalledJobs
<1>4. \A a \in AcceptedLines :
        StartedWith(a, FileOf(a), Nobody) \in StartedSessions
  BY <1>1 DEF StartedSessions
<1>5. \A j \in InstalledJobs :
        StartedWith(j.args, FileOf(j.args), j) \in StartedSessions
  BY <1>1 DEF StartedSessions
<1> QED
  BY <1>2, <1>3, <1>4, <1>5, Zenon DEF InstalledJob

-----------------------------------------------------------------------------
(* The invariant *)

LEMMA InstallInit == DaemonInit => InstallInv
BY DEF DaemonInit, InstallInv, PositionsOK, JobsInv, SessionsInv, LaunchdInv,
       LoadedIsOnDisk

\* Every step of the program, launchd or the user keeps InstallInv.
LEMMA InstallStep == InstallInv /\ [DaemonNext]_vars => InstallInv'
<1> SUFFICES ASSUME InstallInv, [DaemonNext]_vars
             PROVE  InstallInv'
  OBVIOUS
<1> USE DEF InstallInv, PositionsOK, JobsInv, SessionsInv, LaunchdInv,
            LoadedIsOnDisk
<1>1. ASSUME NEW a \in CommandLines, Run(a)
      PROVE  InstallInv'
  <2>1. Started(a, Nobody) \in StartedSessions
    BY <1>1, StartedIsStarted DEF Run, AcceptedLines
  <2> QED
    BY <1>1, <2>1 DEF Run
<1>2. ASSUME NEW a \in CommandLines, Install(a)
      PROVE  InstallInv'
  <2>1. job' \in InstalledJobs
    BY <1>2, StartedIsStarted DEF Install, AcceptedLines
  <2> QED
    BY <1>2, <2>1 DEF Install
<1>3. CASE WritePlist
  BY <1>3 DEF WritePlist
<1>4. CASE Unload
  BY <1>4 DEF Unload, Unloaded
<1>5. CASE Load
  BY <1>5 DEF Load
<1>6. CASE Uninstall
  BY <1>6 DEF Uninstall
<1>7. CASE RemovePlist
  BY <1>7 DEF RemovePlist
<1>8. CASE GiveUp
  BY <1>8 DEF GiveUp
<1>9. CASE Attach
  <2>1. Started(loaded.args, loaded) \in StartedSessions
    BY <1>9, StartedIsStarted DEF Attach
  <2> QED
    BY <1>9, <2>1 DEF Attach
<1>10. CASE Reboot
  <2>1. trouble' \in BOOLEAN
    BY <1>10 DEF Reboot
  <2>2. ~trouble' => pc = "idle" /\ ~trouble
    BY <1>10 DEF Reboot
  <2> QED
    BY <1>10, <2>1, <2>2 DEF Reboot
<1>11. ASSUME NEW f \in Files, EditFile(f)
       PROVE  InstallInv'
  BY <1>11 DEF EditFile
<1>12. CASE UNCHANGED vars
  BY <1>12 DEF vars
<1> QED
  BY <1>1, <1>2, <1>3, <1>4, <1>5, <1>6, <1>7, <1>8, <1>9, <1>10, <1>11, <1>12
     DEF DaemonNext

LEMMA InstallInvariant == DaemonSpec => []InstallInv
BY InstallInit, InstallStep, PTL DEF DaemonSpec

-----------------------------------------------------------------------------
(* What follows *)

\* What launchd has loaded is what is on disk, outside an install and unless
\* launchctl failed (daemon.rs:137-145, 161-166); and the types of every
\* variable.
THEOREM LaunchdFollowsDisk == DaemonSpec => []DaemonInv
<1>1. ASSUME InstallInv PROVE DaemonInv
  <2>1. {plist, loaded, job} \subseteq Jobs \cup {Nobody}
    BY <1>1, JobsAreTyped DEF InstallInv, JobsInv
  <2>2. session # Nobody =>
          session.config \in Settings /\ session.config.gateway # "bad"
    <3> SUFFICES ASSUME session \in StartedSessions
                 PROVE  /\ session.config \in Settings
                        /\ session.config.gateway # "bad"
      BY <1>1 DEF InstallInv, SessionsInv
    <3>1. session.file \in Contents
      BY SessionOrigin, DaemonAssumption
    <3> QED
      BY <3>1, SessionOrigin, SettingsAreTyped
  <2> QED
    BY <1>1, <2>1, <2>2
       DEF InstallInv, PositionsOK, LaunchdInv, DaemonInv, DaemonTypeOK
<1> QED
  BY <1>1, InstallInvariant, PTL

\* Whatever the user puts in the file after the install, a daemon has the
\* address, the gateway and the mode of its install, and with the same file it
\* loses only what daemon.rs:43 leaves out.
THEOREM DaemonIsAsInstalled == DaemonSpec => []DaemonKeepsSettings
<1>1. ASSUME InstallInv PROVE DaemonKeepsSettings
  <2> SUFFICES ASSUME InstalledSession
               PROVE  DaemonKeepsSettings
    BY DEF DaemonKeepsSettings, DaemonKeepsAddresses, DaemonLosesOnlyThree
  <2> DEFINE s == session
             j == session.job
  <2>1. s \in StartedSessions /\ j \in InstalledJobs
    BY <1>1, SessionOrigin DEF InstallInv, SessionsInv, InstalledSession
  <2>2. /\ s.args = j.args
        /\ s.config = FromCli(j.args, s.file)
        /\ s.file \in Contents
    BY <2>1, SessionOrigin, DaemonAssumption DEF InstalledSession
  <2>3. PICK a \in AcceptedLines, f \in Files : j = InstalledJob(a, f)
    BY <2>1 DEF InstalledJobs
  <2>4. a \in Arguments /\ f \in Contents /\ a.gateway # "bad" /\ a.mode # "none"
    BY DaemonAssumption DEF AcceptedLines, Accepted
  <2> DEFINE c == FromCli(a, f)
             b == PlistArgs(c)
             d == FromCli(b, s.file)
  <2>5. j.args = b /\ j.config = c /\ j.file = f
    BY <2>3 DEF InstalledJob
  <2>6. c \in Settings
    BY <2>4, SettingsAreTyped
  <2>7. b \in Arguments
    BY <2>6, ArgsOfSettings
  <2>8. s.config = d
    BY <2>2, <2>5
  <2>9. /\ c.static = Or(a.static, f.static)
        /\ c.gateway = GatewayFor(c.static, Or(a.gateway, f.gateway))
        /\ c.debug = IF f.level = "none" THEN a.verbose ELSE f.level = "debug"
        /\ c.mode = a.mode
    BY <2>4, SettingByKey
  <2>10. /\ b.static = c.static /\ b.gateway = c.gateway
         /\ b.verbose = c.debug /\ b.mode = c.mode
    BY <2>6, ArgsOfSettings
  <2>11. /\ d.static = Or(b.static, s.file.static)
         /\ d.gateway = GatewayFor(d.static, Or(b.gateway, s.file.gateway))
         /\ d.debug = IF s.file.level = "none" THEN b.verbose
                      ELSE s.file.level = "debug"
         /\ d.mode = b.mode
    BY <2>2, <2>7, SettingByKey
  <2> HIDE DEF s, j, c, b, d
  <2>12. d.mode = c.mode /\ (c.static # "none" =>
                              d.static = c.static /\ d.gateway = c.gateway)
    BY <2>9, <2>10, <2>11 DEF Or, GatewayFor
  <2>13. ASSUME s.file = f
         PROVE  /\ d.static = c.static /\ d.gateway = c.gateway
                /\ d.debug = c.debug /\ d.mode = c.mode
    <3>1. d.static = c.static /\ d.gateway = c.gateway /\ d.mode = c.mode
      BY <2>9, <2>10, <2>11, <2>13 DEF Or, GatewayFor
    <3>2. d.debug = c.debug
      BY <2>9, <2>10, <2>11, <2>13, Zenon
    <3> QED
      BY <3>1, <3>2
  <2>14. DaemonKeepsAddresses
    BY <2>5, <2>8, <2>12, Zenon DEF DaemonKeepsAddresses, s, j
  <2>15. DaemonLosesOnlyThree
    <3> SUFFICES ASSUME s.file = f, NEW k \in {"static", "gateway", "debug", "mode"}
                 PROVE  d[k] = c[k]
      BY <2>5, <2>8, Zenon DEF DaemonLosesOnlyThree, s, j
    <3> QED
      BY <2>13
  <2> QED
    BY <2>14, <2>15 DEF DaemonKeepsSettings
<1> QED
  BY <1>1, InstallInvariant, PTL

\* An address of the command line holds, a static address has a gateway, and a
\* flag that was given is switched off by the file only (config.rs:124-167).
THEOREM OptionsHold == DaemonSpec => []CommandLineHolds
<1>1. ASSUME InstallInv PROVE CommandLineHolds
  <2> SUFFICES ASSUME session # Nobody
               PROVE  CommandLineHolds
    BY DEF CommandLineHolds, FlagUndoneOnlyByFile, CommandLineAddressesHold
  <2> DEFINE a == session.args
             f == session.file
             c == session.config
  <2>1. a \in Arguments /\ f \in Contents /\ c = FromCli(a, f)
    BY <1>1, SessionOrigin, DaemonAssumption DEF InstallInv, SessionsInv
  <2>2. /\ c.noRoute = Flag(f.noRoute, a.noRoute)
        /\ c.noDns = Flag(f.noDns, a.noDns)
        /\ c.static = Or(a.static, f.static)
        /\ c.gateway = GatewayFor(c.static, Or(a.gateway, f.gateway))
        /\ c.netmask = Or(a.netmask, Or(f.netmask, "255.255.255.0"))
    BY <2>1, SettingByKey
  <2>3. /\ f.noRoute \in {"none", "true", "off"}
        /\ f.noDns \in {"none", "true", "off"}
    BY <2>1 DEF Contents
  <2> HIDE DEF a, f, c
  <2>4. /\ a.noRoute /\ ~c.noRoute => f.noRoute = "off"
        /\ a.noDns /\ ~c.noDns => f.noDns = "off"
    BY <2>2, <2>3 DEF Flag
  <2>5. /\ a.static # "none" => c.static = a.static
        /\ a.gateway # "none" => c.gateway = a.gateway
        /\ a.netmask # "none" => c.netmask = a.netmask
        /\ c.static # "none" => c.gateway # "none"
    BY <2>2 DEF Or, GatewayFor
  <2>6. FlagUndoneOnlyByFile
    BY <2>4, Zenon DEF FlagUndoneOnlyByFile, a, f, c
  <2>7. CommandLineAddressesHold
    <3>1. \A k \in {"static", "gateway", "netmask"} :
            a[k] # "none" => c[k] = a[k]
      BY <2>5
    <3> QED
      BY <2>5, <3>1, Zenon DEF CommandLineAddressesHold, a, c
  <2> QED
    BY <2>6, <2>7 DEF CommandLineHolds
<1> QED
  BY <1>1, InstallInvariant, PTL
=============================================================================
