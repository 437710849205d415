--------------------------- MODULE AlertManagerMC ---------------------------
(***************************************************************************)
(* Two devices, a threshold of two polls, three notifiers.                 *)
(***************************************************************************)
EXTENDS AlertManager, TLC
CONSTANTS router, firewall
MCDevices == {router, firewall}
NoMail == {}
MailFirst == {1}
============================================================================
