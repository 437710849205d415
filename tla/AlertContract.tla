--------------------------- MODULE AlertContract ---------------------------
(***************************************************************************)
(* What alerting promises, without thresholds, locks or loops: a device    *)
(* is down or it is not; each change of that owes every notifier exactly   *)
(* one message, and every message owed is handed over exactly once, in the *)
(* order of the changes.                                                   *)
(* This is the package comment of internal/notify: "exactly one            *)
(* notification per transition (down, then later recovered)".              *)
(***************************************************************************)
CONSTANTS Devices,    \* the monitored devices
          Notifiers   \* where alerts are delivered

VARIABLES isDown,  \* isDown[d]: the state of d that the alerts report
          owed,    \* messages <<n, d, s>> decided but not yet handed over
          told     \* told[n][d]: what notifier n last heard about d

contractVars == <<isDown, owed, told>>

Init ==
    /\ isDown = [d \in Devices |-> FALSE]
    /\ owed = {}
    /\ told = [n \in Notifiers |-> [d \in Devices |-> "none"]]

\* A transition owes every notifier one message. The next transition of the
\* same device waits until all of them have been handed over.
Transition(d) ==
    /\ \A m \in owed : m[2] # d
    /\ isDown' = [isDown EXCEPT ![d] = ~@]
    /\ owed' = owed \cup
           {<<n, d, IF isDown[d] THEN "up" ELSE "down">> : n \in Notifiers}
    /\ UNCHANGED told

HandOver(n, d, s) ==
    /\ <<n, d, s>> \in owed
    /\ owed' = owed \ {<<n, d, s>>}
    /\ told' = [told EXCEPT ![n][d] = s]
    /\ UNCHANGED isDown

Next ==
    \/ \E d \in Devices : Transition(d)
    \/ \E n \in Notifiers, d \in Devices, s \in {"up", "down"} :
          HandOver(n, d, s)

Spec == Init /\ [][Next]_contractVars

\* No message stays owed for ever.
FairSpec ==
    /\ Spec
    /\ \A n \in Notifiers, d \in Devices, s \in {"up", "down"} :
          WF_contractVars(HandOver(n, d, s))
============================================================================
