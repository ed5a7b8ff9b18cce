-------------------------- MODULE MCStartupLogging --------------------------
(***************************************************************************)
(* Started from a desktop, a terminal or a script with all three streams     *)
(* open, or on Windows without them; and started by a POSIX parent that      *)
(* closed some of them.                                                      *)
(***************************************************************************)
EXTENDS StartupLogging

MaxFd == 6
LaunchesWith(platform, targets) ==
  {[platform |-> platform,
    fds |-> [f \in 0..MaxFd |-> IF f \in 0..2 THEN s[f] ELSE "closed"]] :
     s \in [0..2 -> targets]}
OpenStreams ==
  LaunchesWith("posix", {"tty", "pipe", "null"})
    \cup LaunchesWith("windows", {"tty", "pipe", "none"})
AnyStreams == LaunchesWith("posix", {"tty", "file", "closed"})
=============================================================================
