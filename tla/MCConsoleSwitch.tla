-------------------------- MODULE MCConsoleSwitch --------------------------
(* ConsoleSwitch with three processes, two of them killed, and a device that *)
(* prints twice on its own account.                                         *)
EXTENDS ConsoleSwitch
=============================================================================
