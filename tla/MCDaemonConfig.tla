--------------------------- MODULE MCDaemonConfig ---------------------------
(***************************************************************************)
(* DaemonConfig for TLC: command lines and files that disagree with each   *)
(* other on every key.                                                     *)
(***************************************************************************)
EXTENDS DaemonConfig

MCNames ==
  {"none", "bad", "system", "dot", "doh", "192.168.42.129", "255.255.255.0",
   "255.255.0.0", "255.0.0.0", "10.0.0.1", "10.0.0.2", "172.16.0.1",
   "172.16.0.2", "172.16.0.3"}

Plain == [noRoute |-> FALSE, noDns |-> FALSE, static |-> "none",
          gateway |-> "none", netmask |-> "none", mode |-> "system",
          verbose |-> FALSE, config |-> FALSE]

MCCommandLines ==
  {Plain,
   [Plain EXCEPT !.static = "10.0.0.2"],
   [Plain EXCEPT !.static = "10.0.0.2", !.gateway = "10.0.0.1", !.mode = "dot"],
   [Plain EXCEPT !.gateway = "10.0.0.1", !.netmask = "255.0.0.0", !.verbose = TRUE],
   [Plain EXCEPT !.noRoute = TRUE, !.noDns = TRUE, !.mode = "doh", !.config = TRUE],
   [Plain EXCEPT !.gateway = "bad"]}

MCFiles ==
  {NoFile,
   [NoFile EXCEPT !.noRoute = "off", !.noDns = "off", !.level = "debug"],
   [NoFile EXCEPT !.noRoute = "true", !.static = "172.16.0.2",
                  !.netmask = "255.255.0.0", !.mode = "dot"],
   [NoFile EXCEPT !.static = "172.16.0.3", !.gateway = "172.16.0.1",
                  !.noDns = "true", !.level = "other"]}
=============================================================================
