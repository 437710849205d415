---------------------------- MODULE SnmpWalkMC ----------------------------
(***************************************************************************)
(* Instances of SnmpWalk for TLC: more rows than a walk may find, with     *)
(* numbers of one, two and three bytes, and names that make the lengths    *)
(* around them go past 127 and past 255.                                   *)
(***************************************************************************)
EXTENDS SnmpWalk

SomeRows == {<<1>>, <<128>>, <<16384>>}
Sizes == (<<1>> :> 4) @@ (<<128>> :> 100) @@ (<<16384>> :> 128)
             @@ (<< >> :> 240)
SomeOctets == {0, 40000}
SomeIds == {0, 127, 128, 32768, 1000000}
Public == <<112, 117, 98, 108, 105, 99>>
============================================================================
