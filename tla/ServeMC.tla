------------------------------ MODULE ServeMC ------------------------------
(***************************************************************************)
(* A router polled over its session and a firewall polled by datagrams.    *)
(***************************************************************************)
EXTENDS Serve, TLC
CONSTANTS router, firewall
MCDevices == {router, firewall}
MCSessions == {router}
MCNone == {}
MCFirstMails == {1}
MCPages == {"status", "dashboard"}
============================================================================
