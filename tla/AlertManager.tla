---------------------------- MODULE AlertManager ----------------------------
(***************************************************************************)
(* internal/notify/manager.go: the per-device failure streaks and the      *)
(* alerts fired when one reaches the threshold and when the device answers *)
(* again.                                                                  *)
(*                                                                         *)
(* What Manager does under its mutex is one step. fire runs after the      *)
(* mutex is released, in the goroutine that recorded the poll: it calls    *)
(* the notifiers one after the other and waits for each. That goroutine is *)
(* the only caller of RecordSuccess and RecordFailure (pollAllInto,        *)
(* pollAllOnce), so a poll is recorded only when no fire is under way,     *)
(* while Status is read by request handlers at any moment.                 *)
(***************************************************************************)
EXTENDS Integers

CONSTANTS Devices,          \* names of the polled devices
          NotifierCount,    \* length of Manager.notifiers
          Emails,           \* the indexes of those that send mail
          NotifyThreshold,  \* notify_threshold of the config file
          MaxStreak,        \* bound: streaks longer than this count the same
          Horizon           \* bound: the clock stops here

\* NewManager: a threshold below one means one.
threshold == IF NotifyThreshold < 1 THEN 1 ELSE NotifyThreshold

ASSUME AlertAssumption ==
    /\ NotifierCount \in Nat
    /\ Emails \subseteq 1..NotifierCount
    /\ NotifyThreshold \in Int
    /\ MaxStreak \in Nat /\ MaxStreak > threshold
    /\ Horizon \in Nat

Notifiers == 1..NotifierCount

VARIABLES
    states,   \* Manager.states: an absent entry reads as the zero deviceState
    event,    \* the Event fire is delivering, or NoEvent
    next,     \* the notifier fire has reached, NotifierCount + 1 when idle
    calling,  \* is fire inside notifiers[next].Notify?
    now,      \* time.Now()
    told,     \* history: told[n][d], what notifier n was last handed about d
    recent    \* history: recent[d][i], how the i-th last poll of d went

managerVars == <<states, event, next, calling, now, told, recent>>

NoEvent == [device |-> "none", status |-> "none"]
ZeroState == [status |-> "unknown", consecutiveFailures |-> 0, lastChange |-> 0]

Init ==
    /\ states = [d \in Devices |-> ZeroState]
    /\ event = NoEvent
    /\ next = NotifierCount + 1
    /\ calling = FALSE
    /\ now = 1
    /\ told = [n \in Notifiers |-> [d \in Devices |-> "none"]]
    /\ recent = [d \in Devices |-> [i \in 1..threshold |-> "none"]]
----------------------------------------------------------------------------
Firing == next <= NotifierCount

\* The range loop of fire reaches its i-th notifier, or ends.
FireFrom(e, i) ==
    /\ next' = i
    /\ event' = IF i <= NotifierCount THEN e ELSE NoEvent

\* Seeded faults: an error ends the loop, or the call is repeated until it
\* succeeds, or the index is moved twice.
AfterNotifyStopping(ok) == IF ok THEN next + 1 ELSE NotifierCount + 1
AfterNotifyRetrying(ok) == IF ok THEN next + 1 ELSE next
AfterNotifySkipping(ok) == next + 2

\* Where the loop goes once Notify returned: an error is only logged.
AfterNotify(ok) == next + 1

Remember(d, outcome) ==
    recent' = [recent EXCEPT ![d] =
        [i \in 1..threshold |-> IF i = 1 THEN outcome ELSE recent[d][i - 1]]]

\* Seeded faults: anything but "up" counts as down; wasDown is read after the
\* status was overwritten.
WasNotUp(s) == s.status # "up"
WasDownTooLate(s) == FALSE

WasDown(s) == s.status = "down"

RecordSuccess(d) ==
    /\ ~Firing
    /\ states' = [states EXCEPT ![d] =
          [status |-> "up", consecutiveFailures |-> 0, lastChange |-> now]]
    /\ IF WasDown(states[d])
         THEN FireFrom([device |-> d, status |-> "up"], 1)
         ELSE UNCHANGED <<next, event>>
    /\ Remember(d, "ok")
    /\ UNCHANGED <<calling, now, told>>

\* The streak is only ever compared with the threshold, so all the streaks
\* from MaxStreak on are one.
LongerStreak(k) == IF k < MaxStreak THEN k + 1 ELSE k

\* Seeded faults: one poll too late; on every further failure; only for a
\* device that has been seen up.
ShouldNotifyLate(s) ==
    s.consecutiveFailures > threshold /\ s.status # "down"
ShouldNotifyAgain(s) == s.consecutiveFailures >= threshold
ShouldNotifyFromUp(s) ==
    s.consecutiveFailures = threshold /\ s.status = "up"

ShouldNotify(s) ==
    /\ s.consecutiveFailures = threshold
    /\ s.status # "down"

RecordFailure(d) ==
    /\ ~Firing
    /\ LET counted == [states[d] EXCEPT !.consecutiveFailures = LongerStreak(@)]
       IN  IF ShouldNotify(counted)
             THEN /\ states' = [states EXCEPT ![d] =
                        [counted EXCEPT !.status = "down", !.lastChange = now]]
                  /\ FireFrom([device |-> d, status |-> "down"], 1)
             ELSE /\ states' = [states EXCEPT ![d] = counted]
                  /\ UNCHANGED <<next, event>>
    /\ Remember(d, "fail")
    /\ UNCHANGED <<calling, now, told>>

\* fire hands the event to a notifier ...
CallNotifier ==
    /\ Firing /\ ~calling
    /\ calling' = TRUE
    /\ told' = [told EXCEPT ![next][event.device] = event.status]
    /\ UNCHANGED <<states, event, next, now, recent>>

\* ... and goes on when Notify returns, with an error or without.
NotifierReturns(ok) ==
    /\ calling
    /\ calling' = FALSE
    /\ FireFrom(event, AfterNotify(ok))
    /\ UNCHANGED <<states, now, told, recent>>

Tick ==
    /\ now < Horizon
    /\ now' = now + 1
    /\ UNCHANGED <<states, event, next, calling, told, recent>>

Fire == CallNotifier \/ \E ok \in BOOLEAN : NotifierReturns(ok)

Next ==
    \/ \E d \in Devices : RecordSuccess(d) \/ RecordFailure(d)
    \/ Fire
    \/ Tick

Spec == Init /\ [][Next]_managerVars

\* The goroutine inside fire keeps running. Telegram and webhook notifiers
\* give up after ten seconds; mail is sent without any deadline, so nothing
\* is assumed of when a mail notifier returns.
Fairness ==
    /\ WF_managerVars(CallNotifier)
    /\ \A n \in Notifiers \ Emails :
          WF_managerVars(next = n /\ \E ok \in BOOLEAN : NotifierReturns(ok))

FairSpec == Spec /\ Fairness
----------------------------------------------------------------------------
DeviceStates ==
    [status : {"unknown", "up", "down"}, consecutiveFailures : 0..MaxStreak,
     lastChange : Nat]

\* The variables keep their types; the event in delivery is about a device,
\* and there is one exactly while fire is at some notifier.
TypeOK ==
    /\ states \in [Devices -> DeviceStates]
    /\ next \in 1..(NotifierCount + 1)
    /\ event \in IF Firing THEN [device : Devices, status : {"up", "down"}]
                           ELSE {NoEvent}
    /\ calling \in BOOLEAN
    /\ calling => Firing
    /\ now \in Nat
    /\ told \in [Notifiers -> [Devices -> {"none", "up", "down"}]]
    /\ recent \in [Devices -> [1..threshold -> {"none", "ok", "fail"}]]

\* A device counts as down exactly when the last `threshold` polls of it, with
\* no answer between them, all failed: what the counter and the equality test
\* of RecordFailure have to amount to, over any sequence of polls.
DownExactlyAfterStreak ==
    \A d \in Devices :
        states[d].status = "down"
            <=> \A i \in 1..threshold : recent[d][i] = "fail"

\* Has fire decided on a message to n about d that n was not handed yet?
Pending(n, d) == Firing /\ event.device = d
                    /\ (next < n \/ (next = n /\ ~calling))

\* Every notifier last heard what the Manager holds, or is about to hear it
\* from the fire under way: a transition is never missed or told twice by any
\* notifier, whether or not an earlier notifier in the list returned an error.
ToldTheTransitions ==
    \A n \in Notifiers, d \in Devices :
        (Pending(n, d) <=> ((told[n][d] = "down") # (states[d].status = "down")))

\* While a device is down, the time its status page shows is the time of the
\* failure that took it down, however many more polls fail.
DownSinceIsKept ==
    [][\A d \in Devices :
          states[d].status = "down" /\ states'[d].status = "down"
              => states'[d].lastChange = states[d].lastChange]_managerVars

\* The transitions of the Manager and the calls of fire are the transitions
\* and the messages of the contract, and every owed message gets delivered.
Contract == INSTANCE AlertContract WITH
    isDown <- [d \in Devices |-> states[d].status = "down"],
    owed <- {<<n, event.device, event.status>> :
                n \in IF calling THEN (next + 1)..NotifierCount
                                 ELSE next..NotifierCount}
ImplementsContract == Contract!FairSpec

\* manager.go:138 says that one notifier's failure "must not stop the others
\* from getting the alert": whatever is decided reaches every notifier that
\* itself answers.
OthersGetTheAlert ==
    \A n \in Notifiers \ Emails, d \in Devices :
        Pending(n, d) ~> ~Pending(n, d)
============================================================================
