------------------------------ MODULE MCDaemon ------------------------------
(* Instances of Daemon. *)
EXTENDS Daemon, TLC
CONSTANTS i1, i2, i3, a1, a2, w1

DaemonUnix == [mode |-> "daemon", ipcs |-> {"tcp", "unix"}, addr |-> <<a1>>]
DaemonTcp == [mode |-> "daemon", ipcs |-> {}, addr |-> <<a2>>]
Foreground == [mode |-> "front", ipcs |-> {"unix", "http"}, addr |-> <<a2, a1>>]
Kill == [mode |-> "kill", ipcs |-> {}, addr |-> <<a1>>]

\* A daemon, and whatever else may be started beside it.
Pairs == (i1 :> {DaemonUnix}) @@ (i2 :> {DaemonUnix, DaemonTcp, Foreground, Kill})

\* Two daemons that do not share an address, and a kill.
KillAndStart == (i1 :> {DaemonUnix}) @@ (i2 :> {DaemonTcp}) @@ (i3 :> {Kill})
=============================================================================
