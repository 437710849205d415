------------------------ MODULE AlertManager_proofs ------------------------
(***************************************************************************)
(* What holds of AlertManager for any devices, any number of notifiers and *)
(* any threshold: its types, that a device is down exactly after a streak, *)
(* that no notifier misses a transition or hears it twice, and that it     *)
(* implements AlertContract.                                               *)
(***************************************************************************)
EXTENDS AlertManager, TLAPS

\* The threshold is positive whatever the config file says.
LEMMA ThresholdPositive == threshold \in Nat /\ threshold >= 1
  BY AlertAssumption DEF threshold

\* Manager and fire keep the types of the state.
LEMMA TypingInit == Init => TypeOK
<1> SUFFICES ASSUME Init PROVE TypeOK
  OBVIOUS
<1>1. states \in [Devices -> DeviceStates]
  <2>1. ZeroState \in DeviceStates
    BY AlertAssumption, ThresholdPositive DEF ZeroState, DeviceStates
  <2> QED
    BY <2>1 DEF Init
<1>2. recent \in [Devices -> [1..threshold -> {"none", "ok", "fail"}]]
  BY DEF Init
<1>3. told \in [Notifiers -> [Devices -> {"none", "up", "down"}]]
  BY DEF Init
<1>4. next \in 1..(NotifierCount + 1) /\ ~Firing
  BY AlertAssumption DEF Init, Firing
<1> QED
  BY <1>1, <1>2, <1>3, <1>4 DEF Init, TypeOK

\* Any step keeps the types of the state.
LEMMA TypingStep == TypeOK /\ [Next]_managerVars => TypeOK'
<1> SUFFICES ASSUME TypeOK, [Next]_managerVars PROVE TypeOK'
  OBVIOUS
<1> USE AlertAssumption, ThresholdPositive
<1>1. ASSUME NEW d \in Devices, RecordSuccess(d) PROVE TypeOK'
  <2>1. states' \in [Devices -> DeviceStates]
    BY <1>1 DEF TypeOK, RecordSuccess, DeviceStates
  <2>2. recent' \in [Devices -> [1..threshold -> {"none", "ok", "fail"}]]
    BY <1>1 DEF TypeOK, RecordSuccess, Remember
  <2>3. /\ next' \in 1..(NotifierCount + 1)
        /\ event' \in IF Firing' THEN [device : Devices, status : {"up", "down"}]
                                ELSE {NoEvent}
    BY <1>1 DEF TypeOK, RecordSuccess, FireFrom, Firing
  <2>4. calling' = FALSE
    BY <1>1 DEF TypeOK, RecordSuccess
  <2> QED
    BY <1>1, <2>1, <2>2, <2>3, <2>4 DEF TypeOK, RecordSuccess
<1>2. ASSUME NEW d \in Devices, RecordFailure(d) PROVE TypeOK'
  <2>1. states' \in [Devices -> DeviceStates]
    <3> DEFINE k == LongerStreak(states[d].consecutiveFailures)
    <3>1. states[d] \in DeviceStates
      BY DEF TypeOK
    <3>2. k \in 0..MaxStreak
      BY <3>1 DEF LongerStreak, DeviceStates
    <3>3. \/ states' = [states EXCEPT ![d] =
                  [[states[d] EXCEPT !.consecutiveFailures = k]
                      EXCEPT !.status = "down", !.lastChange = now]]
          \/ states' = [states EXCEPT ![d] =
                  [states[d] EXCEPT !.consecutiveFailures = k]]
      BY <1>2 DEF RecordFailure
    <3> HIDE DEF k
    <3>4. now \in Nat /\ states \in [Devices -> DeviceStates]
      BY DEF TypeOK
    <3>5. /\ [states[d] EXCEPT !.consecutiveFailures = k] \in DeviceStates
          /\ [[states[d] EXCEPT !.consecutiveFailures = k]
                 EXCEPT !.status = "down", !.lastChange = now] \in DeviceStates
      BY <3>1, <3>2, <3>4 DEF DeviceStates
    <3> QED
      BY <3>3, <3>4, <3>5
  <2>2. recent' \in [Devices -> [1..threshold -> {"none", "ok", "fail"}]]
    <3>1. recent' = [recent EXCEPT ![d] = [i \in 1..threshold |->
                        IF i = 1 THEN "fail" ELSE recent[d][i - 1]]]
      BY <1>2 DEF RecordFailure, Remember
    <3> QED
      BY <3>1 DEF TypeOK
  <2>3. /\ next' \in 1..(NotifierCount + 1)
        /\ event' \in IF Firing' THEN [device : Devices, status : {"up", "down"}]
                                ELSE {NoEvent}
    BY <1>2 DEF TypeOK, RecordFailure, FireFrom, Firing
  <2>4. calling' = FALSE
    BY <1>2 DEF TypeOK, RecordFailure
  <2> QED
    BY <1>2, <2>1, <2>2, <2>3, <2>4 DEF TypeOK, RecordFailure
<1>3. CASE CallNotifier
  <2>1. next \in Notifiers /\ event.device \in Devices
                           /\ event.status \in {"none", "up", "down"}
    BY <1>3 DEF CallNotifier, TypeOK, Firing, Notifiers
  <2>2. told' \in [Notifiers -> [Devices -> {"none", "up", "down"}]]
    BY <1>3, <2>1 DEF CallNotifier, TypeOK
  <2> QED
    BY <1>3, <2>2 DEF CallNotifier, TypeOK, Firing
<1>4. ASSUME NEW ok \in BOOLEAN, NotifierReturns(ok) PROVE TypeOK'
  <2>1. /\ next' = next + 1 /\ next <= NotifierCount
        /\ event' = IF next + 1 <= NotifierCount THEN event ELSE NoEvent
        /\ UNCHANGED <<states, now, told, recent>> /\ calling' = FALSE
    BY <1>4 DEF NotifierReturns, TypeOK, FireFrom, AfterNotify, Firing
  <2>2. next' \in 1..(NotifierCount + 1)
    BY <2>1 DEF TypeOK
  <2>3. event' \in IF Firing' THEN [device : Devices, status : {"up", "down"}]
                              ELSE {NoEvent}
    BY <2>1 DEF TypeOK, Firing
  <2> QED
    BY <2>1, <2>2, <2>3 DEF TypeOK
<1>5. CASE Tick
  BY <1>5 DEF Tick, TypeOK, Firing
<1>6. CASE UNCHANGED managerVars
  BY <1>6 DEF managerVars, TypeOK, Firing
<1> QED
  BY <1>1, <1>2, <1>3, <1>4, <1>5, <1>6 DEF Next, Fire

\* Type correctness of notify.Manager, for every configuration of it.
THEOREM Typing == Spec => []TypeOK
  BY TypingInit, TypingStep, PTL DEF Spec
----------------------------------------------------------------------------
(* The counter against the polls it counts.                                *)

\* What the counter stands for: the last k polls failed and, while k is below
\* the threshold, the one before them did not; and the status follows it.
StreakCounts(d) ==
    LET k == states[d].consecutiveFailures IN
    /\ \A i \in 1..threshold : i <= k => recent[d][i] = "fail"
    /\ k < threshold => recent[d][k + 1] # "fail"
    /\ states[d].status = "down" <=> k >= threshold

StreakInv == \A d \in Devices : StreakCounts(d)

\* Counting right is enough for the status to be right.
LEMMA StreakInvSuffices == TypeOK /\ StreakInv => DownExactlyAfterStreak
<1> SUFFICES ASSUME TypeOK, StreakInv, NEW d \in Devices
             PROVE states[d].status = "down"
                     <=> \A i \in 1..threshold : recent[d][i] = "fail"
  BY DEF DownExactlyAfterStreak
<1> DEFINE k == states[d].consecutiveFailures
<1>1. k \in Nat
  BY DEF TypeOK, DeviceStates
<1>2. StreakCounts(d)
  BY DEF StreakInv
<1>3. CASE k >= threshold
  BY <1>1, <1>2, <1>3, ThresholdPositive DEF StreakCounts
<1>4. CASE k < threshold
  <2>1. k + 1 \in 1..threshold
    BY <1>1, <1>4, ThresholdPositive
  <2> QED
    BY <1>1, <1>2, <1>4, <2>1, ThresholdPositive DEF StreakCounts
<1> QED
  BY <1>1, <1>3, <1>4, ThresholdPositive

\* A new poll result moves the earlier ones back by one.
LEMMA Remembered ==
    ASSUME TypeOK, NEW d \in Devices, NEW outcome, Remember(d, outcome)
    PROVE  /\ recent'[d] = [i \in 1..threshold |->
                               IF i = 1 THEN outcome ELSE recent[d][i - 1]]
           /\ \A x \in Devices \ {d} : recent'[x] = recent[x]
  BY DEF Remember, TypeOK

\* What RecordFailure does to the state of a device, and when it alerts.
LEMMA FailureEffect ==
    ASSUME TypeOK, NEW d \in Devices, RecordFailure(d)
    PROVE  LET k == states[d].consecutiveFailures
               kk == states'[d].consecutiveFailures
               crossing == kk = threshold /\ states[d].status # "down"
           IN  /\ kk = IF k < MaxStreak THEN k + 1 ELSE k
               /\ states'[d].status =
                     IF crossing THEN "down" ELSE states[d].status
               /\ states'[d].lastChange =
                     IF crossing THEN now ELSE states[d].lastChange
               /\ \A x \in Devices \ {d} : states'[x] = states[x]
               /\ IF crossing
                    THEN FireFrom([device |-> d, status |-> "down"], 1)
                    ELSE UNCHANGED <<next, event>>
               /\ UNCHANGED <<calling, now, told>>
<1> DEFINE k == states[d].consecutiveFailures
           kk == states'[d].consecutiveFailures
           counted == [states[d] EXCEPT !.consecutiveFailures = LongerStreak(k)]
<1>0. states[d] \in DeviceStates
  BY DEF TypeOK
<1>1. /\ counted.consecutiveFailures = IF k < MaxStreak THEN k + 1 ELSE k
      /\ counted.status = states[d].status
      /\ counted.lastChange = states[d].lastChange
  BY <1>0 DEF LongerStreak, DeviceStates
<1>2. /\ states' = [states EXCEPT ![d] =
            IF ShouldNotify(counted)
              THEN [counted EXCEPT !.status = "down", !.lastChange = now]
              ELSE counted]
      /\ IF ShouldNotify(counted)
            THEN FireFrom([device |-> d, status |-> "down"], 1)
            ELSE UNCHANGED <<next, event>>
      /\ UNCHANGED <<calling, now, told>>
  BY DEF RecordFailure
<1>3. /\ states'[d] = IF ShouldNotify(counted)
            THEN [counted EXCEPT !.status = "down", !.lastChange = now]
            ELSE counted
      /\ \A x \in Devices \ {d} : states'[x] = states[x]
  BY <1>2 DEF TypeOK
<1>4. /\ kk = counted.consecutiveFailures
      /\ states'[d].status =
            IF ShouldNotify(counted) THEN "down" ELSE counted.status
      /\ states'[d].lastChange =
            IF ShouldNotify(counted) THEN now ELSE counted.lastChange
  BY <1>0, <1>3 DEF DeviceStates
<1> HIDE DEF counted
<1> QED
  BY <1>1, <1>2, <1>3, <1>4 DEF ShouldNotify

\* Every step keeps the counters right.
LEMMA StreakStep == TypeOK /\ StreakInv /\ [Next]_managerVars => StreakInv'
<1> SUFFICES ASSUME TypeOK, StreakInv, [Next]_managerVars PROVE StreakInv'
  OBVIOUS
<1> USE AlertAssumption, ThresholdPositive
<1>1. ASSUME NEW d \in Devices, RecordSuccess(d) PROVE StreakInv'
  <2>1. /\ states'[d].status = "up" /\ states'[d].consecutiveFailures = 0
        /\ \A x \in Devices \ {d} : states'[x] = states[x]
    BY <1>1 DEF RecordSuccess, TypeOK
  <2>2. /\ recent'[d][1] = "ok"
        /\ \A x \in Devices \ {d} : recent'[x] = recent[x]
    <3>1. Remember(d, "ok")
      BY <1>1 DEF RecordSuccess
    <3>2. /\ recent'[d] = [i \in 1..threshold |->
                              IF i = 1 THEN "ok" ELSE recent[d][i - 1]]
          /\ \A x \in Devices \ {d} : recent'[x] = recent[x]
      BY <3>1, Remembered
    <3> QED
      BY <3>2
  <2>3. StreakCounts(d)'
    <3>1. ~(states'[d].status = "down") /\ ~(0 >= threshold)
      BY <2>1
    <3>2. \A i \in 1..threshold : ~(i <= 0)
      OBVIOUS
    <3>3. recent'[d][0 + 1] # "fail"
      BY <2>2
    <3> QED
      BY <2>1, <3>1, <3>2, <3>3 DEF StreakCounts
  <2>4. ASSUME NEW x \in Devices \ {d} PROVE StreakCounts(x)'
    BY <2>1, <2>2 DEF StreakCounts, StreakInv
  <2> QED
    BY <2>3, <2>4 DEF StreakInv
<1>2. ASSUME NEW d \in Devices, RecordFailure(d) PROVE StreakInv'
  <2> DEFINE k == states[d].consecutiveFailures
             kk == states'[d].consecutiveFailures
  <2>1. k \in 0..MaxStreak /\ StreakCounts(d)
    BY DEF TypeOK, DeviceStates, StreakInv
  <2>2. /\ recent'[d] = [i \in 1..threshold |->
                            IF i = 1 THEN "fail" ELSE recent[d][i - 1]]
        /\ \A x \in Devices \ {d} : recent'[x] = recent[x]
    BY <1>2, Remembered DEF RecordFailure
  <2>4. /\ kk = IF k < MaxStreak THEN k + 1 ELSE k
        /\ states'[d].status = IF kk = threshold /\ states[d].status # "down"
                                 THEN "down" ELSE states[d].status
        /\ \A x \in Devices \ {d} : states'[x] = states[x]
    BY <1>2, FailureEffect
  <2> HIDE DEF k, kk
  <2>5. ASSUME NEW i \in 1..threshold, i <= kk PROVE recent'[d][i] = "fail"
    <3>1. CASE i = 1
      BY <2>2, <3>1
    <3>2. CASE i # 1
      <4>1. i - 1 \in 1..threshold /\ i - 1 <= k
        BY <2>1, <2>4, <2>5, <3>2
      <4>2. recent[d][i - 1] = "fail"
        BY <2>1, <4>1 DEF StreakCounts, k
      <4> QED
        BY <2>2, <3>2, <4>2
    <3> QED
      BY <3>1, <3>2
  <2>6. ASSUME kk < threshold PROVE recent'[d][kk + 1] # "fail"
    <3>1. kk = k + 1 /\ k < threshold
      BY <2>1, <2>4, <2>6
    <3>2. recent[d][k + 1] # "fail"
      BY <2>1, <3>1 DEF StreakCounts, k
    <3>3. kk + 1 \in 1..threshold /\ kk + 1 # 1 /\ (kk + 1) - 1 = k + 1
      BY <2>1, <2>6, <3>1
    <3> QED
      BY <2>2, <3>2, <3>3
  <2>7. states'[d].status = "down" <=> kk >= threshold
    <3>1. states[d].status = "down" <=> k >= threshold
      BY <2>1 DEF StreakCounts, k
    <3> QED
      BY <2>1, <2>4, <3>1
  <2>8. StreakCounts(d)'
    BY <2>5, <2>6, <2>7 DEF StreakCounts, kk
  <2>9. ASSUME NEW x \in Devices \ {d} PROVE StreakCounts(x)'
    BY <2>2, <2>4 DEF StreakCounts, StreakInv
  <2> QED
    BY <2>8, <2>9 DEF StreakInv
<1>3. CASE UNCHANGED <<states, recent>>
  BY <1>3 DEF StreakInv, StreakCounts
<1> QED
  BY <1>1, <1>2, <1>3
  DEF Next, Fire, CallNotifier, NotifierReturns, Tick, managerVars

LEMMA StreakInit == Init => StreakInv
<1> SUFFICES ASSUME Init, NEW d \in Devices PROVE StreakCounts(d)
  BY DEF StreakInv
<1>1. states[d].status = "unknown" /\ states[d].consecutiveFailures = 0
  BY DEF Init, ZeroState
<1>2. recent[d][0 + 1] = "none"
  BY ThresholdPositive DEF Init
<1> QED
  BY <1>1, <1>2, ThresholdPositive DEF StreakCounts

\* RecordFailure's counter and its test for equality come to what the package
\* promises: down is the state after `threshold` failed polls in a row.
THEOREM DownExactly == Spec => []DownExactlyAfterStreak
  BY StreakInit, TypingInit, TypingStep, StreakStep, StreakInvSuffices, PTL
  DEF Spec
----------------------------------------------------------------------------
(* The transitions against what the notifiers are told.                    *)

\* The event in delivery is the state its device is in.
EventIsCurrent ==
    Firing => (event.status = "down" <=> states[event.device].status = "down")

FireInv == EventIsCurrent /\ ToldTheTransitions

\* At the start no one was told anything and nothing is down.
LEMMA FireInit == Init => FireInv
  BY AlertAssumption
  DEF Init, FireInv, EventIsCurrent, ToldTheTransitions, Pending, Firing,
      ZeroState

\* A poll that brings a transition starts fire, for every notifier.
LEMMA FireStarts ==
    ASSUME TypeOK, FireInv, ~Firing,
           NEW d \in Devices, NEW s \in {"up", "down"},
           states'[d].status = s,
           s = "up" <=> states[d].status = "down",
           \A x \in Devices \ {d} : states'[x] = states[x],
           FireFrom([device |-> d, status |-> s], 1),
           UNCHANGED <<calling, told>>
    PROVE  FireInv'
<1> USE AlertAssumption
<1>1. next' = 1 /\ ~calling'
  BY DEF FireFrom, TypeOK
<1>2. CASE NotifierCount = 0
  BY <1>1, <1>2
  DEF FireInv, EventIsCurrent, ToldTheTransitions, Firing, Notifiers
<1>3. CASE NotifierCount > 0
  <2>1. Firing' /\ event' = [device |-> d, status |-> s]
    BY <1>1, <1>3 DEF FireFrom, Firing
  <2>2. EventIsCurrent'
    BY <2>1 DEF EventIsCurrent
  <2>3. ASSUME NEW n \in Notifiers, NEW x \in Devices
        PROVE  /\ Pending(n, x)' <=> x = d
               /\ told'[n][x] = "down" <=> states[x].status = "down"
    <3>1. Pending(n, x)' <=> x = d
      BY <1>1, <2>1 DEF Pending, Notifiers
    <3>2. told[n][x] = "down" <=> states[x].status = "down"
      BY DEF FireInv, ToldTheTransitions, Pending
    <3> QED
      BY <3>1, <3>2
  <2>4. ToldTheTransitions'
    BY <2>3 DEF ToldTheTransitions
  <2> QED
    BY <2>2, <2>4 DEF FireInv
<1> QED
  BY <1>2, <1>3

\* A poll that brings none leaves the notifiers in agreement.
LEMMA FireStaysIdle ==
    ASSUME FireInv, ~Firing, UNCHANGED <<next, event, calling, told>>,
           \A x \in Devices :
              states'[x].status = "down" <=> states[x].status = "down"
    PROVE  FireInv'
<1>1. ~Firing'
  BY DEF Firing
<1>2. \A n \in Notifiers, x \in Devices : ~Pending(n, x) /\ ~Pending(n, x)'
  BY <1>1 DEF Pending
<1> QED
  BY <1>1, <1>2 DEF FireInv, EventIsCurrent, ToldTheTransitions

\* The call of a notifier settles what was pending for it, and only that.
LEMMA FireCalls ==
    ASSUME TypeOK, FireInv, CallNotifier
    PROVE  FireInv'
<1>1. /\ Firing /\ ~calling /\ calling' = TRUE
      /\ UNCHANGED <<states, event, next>>
      /\ next \in Notifiers /\ event.device \in Devices
  BY AlertAssumption DEF CallNotifier, TypeOK, Firing, Notifiers
<1>2. \A n \in Notifiers, x \in Devices :
         told'[n][x] = IF n = next /\ x = event.device THEN event.status
                                                       ELSE told[n][x]
  BY <1>1 DEF CallNotifier, TypeOK
<1>3. EventIsCurrent'
  BY <1>1 DEF FireInv, EventIsCurrent, Firing
<1>4. ASSUME NEW n \in Notifiers, NEW x \in Devices
      PROVE  Pending(n, x)'
               <=> ((told'[n][x] = "down") # (states'[x].status = "down"))
  <2>1. CASE n = next /\ x = event.device
    <3>1. ~Pending(n, x)'
      BY <1>1, <2>1 DEF Pending, Notifiers
    <3>2. told'[n][x] = "down" <=> states'[x].status = "down"
      BY <1>1, <1>2, <2>1 DEF FireInv, EventIsCurrent
    <3> QED
      BY <3>1, <3>2
  <2>2. CASE ~(n = next /\ x = event.device)
    <3>1. Pending(n, x)' <=> Pending(n, x)
      BY <1>1, <2>2 DEF Pending, Firing
    <3>2. told'[n][x] = told[n][x] /\ states'[x] = states[x]
      BY <1>1, <1>2, <2>2
    <3> QED
      BY <3>1, <3>2 DEF FireInv, ToldTheTransitions
  <2> QED
    BY <2>1, <2>2
<1> QED
  BY <1>3, <1>4 DEF FireInv, ToldTheTransitions

\* A notifier that returns moves fire on, whatever it returned.
LEMMA FireMovesOn ==
    ASSUME TypeOK, FireInv, NEW ok \in BOOLEAN, NotifierReturns(ok)
    PROVE  FireInv'
<1>1. /\ calling /\ calling' = FALSE /\ next' = next + 1
      /\ event' = IF next + 1 <= NotifierCount THEN event ELSE NoEvent
      /\ UNCHANGED <<states, told>> /\ Firing /\ next \in Nat
  BY AlertAssumption DEF NotifierReturns, FireFrom, AfterNotify, TypeOK
<1>2. EventIsCurrent'
  BY <1>1, AlertAssumption DEF FireInv, EventIsCurrent, Firing
<1>3. ASSUME NEW n \in Notifiers, NEW x \in Devices
      PROVE  Pending(n, x)' <=> Pending(n, x)
  BY <1>1, AlertAssumption DEF Pending, Firing, Notifiers
<1> QED
  BY <1>1, <1>2, <1>3 DEF FireInv, ToldTheTransitions

\* Every step keeps the notifiers and the Manager in agreement.
LEMMA FireStep == TypeOK /\ FireInv /\ [Next]_managerVars => FireInv'
<1> SUFFICES ASSUME TypeOK, FireInv, [Next]_managerVars PROVE FireInv'
  OBVIOUS
<1>1. ASSUME NEW d \in Devices, RecordSuccess(d) PROVE FireInv'
  <2>1. /\ ~Firing /\ states'[d].status = "up" /\ UNCHANGED <<calling, told>>
        /\ \A x \in Devices \ {d} : states'[x] = states[x]
    BY <1>1 DEF RecordSuccess, TypeOK
  <2>2. CASE WasDown(states[d])
    <3>1. FireFrom([device |-> d, status |-> "up"], 1)
      BY <1>1, <2>2 DEF RecordSuccess
    <3> QED
      BY <2>1, <2>2, <3>1, FireStarts DEF WasDown
  <2>3. CASE ~WasDown(states[d])
    <3>1. UNCHANGED <<next, event>>
      BY <1>1, <2>3 DEF RecordSuccess
    <3> QED
      BY <2>1, <2>3, <3>1, FireStaysIdle DEF WasDown
  <2> QED
    BY <2>2, <2>3
<1>2. ASSUME NEW d \in Devices, RecordFailure(d) PROVE FireInv'
  <2>1. ~Firing /\ UNCHANGED <<calling, told>>
    BY <1>2 DEF RecordFailure
  <2>2. \A x \in Devices \ {d} : states'[x] = states[x]
    BY <1>2, FailureEffect
  <2>3. CASE /\ states[d].status # "down" /\ states'[d].status = "down"
             /\ FireFrom([device |-> d, status |-> "down"], 1)
    BY <2>1, <2>2, <2>3, FireStarts
  <2>4. CASE states'[d].status = states[d].status /\ UNCHANGED <<next, event>>
    BY <2>1, <2>2, <2>4, FireStaysIdle
  <2> QED
    BY <1>2, <2>3, <2>4, FailureEffect
<1>3. CASE UNCHANGED <<states, event, next, calling, told>>
  BY <1>3 DEF FireInv, EventIsCurrent, ToldTheTransitions, Pending, Firing
<1> QED
  BY <1>1, <1>2, <1>3, FireCalls, FireMovesOn
  DEF Next, Fire, Tick, managerVars

\* No notifier misses a transition of a device, or is told one twice, whatever
\* errors the notifiers return.
THEOREM ToldOnce == Spec => []ToldTheTransitions
<1>1. FireInv => ToldTheTransitions
  BY DEF FireInv
<1> QED
  BY <1>1, FireInit, TypingInit, TypingStep, FireStep, PTL DEF Spec

\* A step from down to down leaves the time of the transition.
LEMMA DownSinceStep ==
    ASSUME TypeOK, [Next]_managerVars, NEW d \in Devices,
           states[d].status = "down", states'[d].status = "down"
    PROVE  states'[d].lastChange = states[d].lastChange
<1>1. ASSUME NEW x \in Devices, RecordSuccess(x)
      PROVE  states'[d].lastChange = states[d].lastChange
  <2>1. x # d /\ states'[d] = states[d]
    BY <1>1 DEF RecordSuccess, TypeOK
  <2> QED
    BY <2>1
<1>2. ASSUME NEW x \in Devices, RecordFailure(x)
      PROVE  states'[d].lastChange = states[d].lastChange
  <2>1. CASE x = d
    BY <1>2, <2>1, FailureEffect
  <2>2. CASE x # d
    BY <1>2, <2>2, FailureEffect
  <2> QED
    BY <2>1, <2>2
<1> QED
  BY <1>1, <1>2
  DEF Next, Fire, CallNotifier, NotifierReturns, Tick, managerVars

\* The time shown for a device that is down is that of the failure that took
\* it down.
THEOREM DownSince == Spec => DownSinceIsKept
<1> DEFINE Kept == \A d \in Devices :
          states[d].status = "down" /\ states'[d].status = "down"
              => states'[d].lastChange = states[d].lastChange
<1>1. TypeOK /\ [Next]_managerVars => [Kept]_managerVars
  BY DownSinceStep
<1> QED
  BY <1>1, TypingInit, TypingStep, PTL DEF Spec, DownSinceIsKept
----------------------------------------------------------------------------
(* The refinement of the contract (its safety part).                       *)

\* The messages AlertContract calls owed.
OwedNow == {<<n, event.device, event.status>> :
               n \in IF calling THEN (next + 1)..NotifierCount
                                ELSE next..NotifierCount}

\* While fire is idle nothing is owed.
LEMMA IdleOwesNothing == ASSUME TypeOK, ~Firing PROVE OwedNow = {}
<1>1. next = NotifierCount + 1 /\ ~calling
  BY AlertAssumption DEF TypeOK, Firing
<1>2. (NotifierCount + 1)..NotifierCount = {}
  BY AlertAssumption
<1> QED
  BY <1>1, <1>2 DEF OwedNow

\* The state of the contract, in the terms of the Manager.
DownNow == [d \in Devices |-> states[d].status = "down"]

\* A poll that brings a transition is the contract's transition.
LEMMA TransitionRefines ==
    ASSUME TypeOK, ~Firing,
           NEW d \in Devices, NEW s \in {"up", "down"},
           states'[d].status = s,
           s = "up" <=> states[d].status = "down",
           \A x \in Devices \ {d} : states'[x] = states[x],
           FireFrom([device |-> d, status |-> s], 1),
           UNCHANGED <<calling, told>>
    PROVE  Contract!Transition(d)
<1> USE AlertAssumption
<1>1. OwedNow = {}
  BY IdleOwesNothing
<1>2. DownNow' = [DownNow EXCEPT ![d] = ~@]
  BY DEF DownNow
<1>3. OwedNow' = {<<n, d, s>> : n \in Notifiers}
  <2>1. next' = 1 /\ ~calling'
    BY DEF FireFrom, TypeOK
  <2>2. CASE NotifierCount = 0
    BY <2>1, <2>2 DEF OwedNow, Notifiers
  <2>3. CASE NotifierCount > 0
    <3>1. event' = [device |-> d, status |-> s]
      BY <2>3 DEF FireFrom
    <3> QED
      BY <2>1, <3>1 DEF OwedNow, Notifiers
  <2> QED
    BY <2>2, <2>3
<1>4. s = IF DownNow[d] THEN "up" ELSE "down"
  BY DEF DownNow
<1>5. OwedNow' = OwedNow \cup
         {<<n, d, IF DownNow[d] THEN "up" ELSE "down">> : n \in Notifiers}
  BY <1>1, <1>3, <1>4
<1> QED
  BY <1>1, <1>2, <1>5 DEF Contract!Transition, OwedNow, DownNow

\* A poll that brings none changes nothing the contract speaks of.
LEMMA NoTransitionRefines ==
    ASSUME UNCHANGED <<next, event, calling, told>>,
           \A x \in Devices :
              (states'[x].status = "down") = (states[x].status = "down")
    PROVE  UNCHANGED Contract!contractVars
  BY DEF Contract!contractVars

\* Every step of the Manager is one of the contract, or none.
LEMMA ContractStep ==
    ASSUME TypeOK, [Next]_managerVars
    PROVE  [Contract!Next]_(Contract!contractVars)
<1> USE AlertAssumption
<1>1. ASSUME NEW d \in Devices, RecordSuccess(d)
      PROVE  [Contract!Next]_(Contract!contractVars)
  <2>1. /\ ~Firing /\ states'[d].status = "up" /\ UNCHANGED <<calling, told>>
        /\ \A x \in Devices \ {d} : states'[x] = states[x]
    BY <1>1 DEF RecordSuccess, TypeOK
  <2>2. CASE WasDown(states[d])
    <3>1. FireFrom([device |-> d, status |-> "up"], 1)
      BY <1>1, <2>2 DEF RecordSuccess
    <3>2. Contract!Transition(d)
      BY <2>1, <2>2, <3>1, TransitionRefines DEF WasDown
    <3> QED
      BY <3>2 DEF Contract!Next
  <2>3. CASE ~WasDown(states[d])
    <3>1. UNCHANGED <<next, event>>
      BY <1>1, <2>3 DEF RecordSuccess
    <3>2. \A x \in Devices :
             (states'[x].status = "down") = (states[x].status = "down")
      BY <2>1, <2>3 DEF WasDown
    <3> QED
      BY <2>1, <3>1, <3>2, NoTransitionRefines
  <2> QED
    BY <2>2, <2>3
<1>2. ASSUME NEW d \in Devices, RecordFailure(d)
      PROVE  [Contract!Next]_(Contract!contractVars)
  <2>1. ~Firing /\ UNCHANGED <<calling, told>>
    BY <1>2 DEF RecordFailure
  <2>2. \A x \in Devices \ {d} : states'[x] = states[x]
    BY <1>2, FailureEffect
  <2>3. CASE /\ states[d].status # "down" /\ states'[d].status = "down"
             /\ FireFrom([device |-> d, status |-> "down"], 1)
    <3>1. Contract!Transition(d)
      BY <2>1, <2>2, <2>3, TransitionRefines
    <3> QED
      BY <3>1 DEF Contract!Next
  <2>4. CASE states'[d].status = states[d].status /\ UNCHANGED <<next, event>>
    <3>1. \A x \in Devices :
             (states'[x].status = "down") = (states[x].status = "down")
      BY <2>2, <2>4
    <3> QED
      BY <2>1, <2>4, <3>1, NoTransitionRefines
  <2> QED
    BY <1>2, <2>3, <2>4, FailureEffect
<1>3. CASE CallNotifier
  <2>1. /\ next \in Notifiers /\ event.device \in Devices
        /\ event.status \in {"up", "down"} /\ ~calling /\ calling'
        /\ UNCHANGED <<states, event, next>>
        /\ told' = [told EXCEPT ![next][event.device] = event.status]
    BY <1>3 DEF CallNotifier, TypeOK, Firing, Notifiers
  <2>2. PICK n \in Notifiers, d \in Devices, s \in {"up", "down"} :
              n = next /\ d = event.device /\ s = event.status
    BY <2>1
  <2>3. <<n, d, s>> \in OwedNow
    BY <2>1, <2>2 DEF OwedNow, Notifiers
  <2>4. OwedNow' = OwedNow \ {<<n, d, s>>}
    BY <2>1, <2>2 DEF OwedNow, Notifiers
  <2>5. Contract!HandOver(n, d, s)
    BY <2>1, <2>2, <2>3, <2>4 DEF Contract!HandOver, OwedNow
  <2> QED
    BY <2>5 DEF Contract!Next
<1>4. ASSUME NEW ok \in BOOLEAN, NotifierReturns(ok)
      PROVE  [Contract!Next]_(Contract!contractVars)
  <2>1. /\ calling /\ ~calling' /\ next' = next + 1 /\ next \in Nat
        /\ event' = IF next + 1 <= NotifierCount THEN event ELSE NoEvent
        /\ UNCHANGED <<states, told>>
    BY <1>4 DEF NotifierReturns, FireFrom, AfterNotify, TypeOK
  <2>2. OwedNow' = OwedNow
    <3>1. CASE next + 1 <= NotifierCount
      BY <2>1, <3>1 DEF OwedNow
    <3>2. CASE next + 1 > NotifierCount
      <4>1. (next + 1)..NotifierCount = {}
        BY <2>1, <3>2
      <4> QED
        BY <2>1, <4>1 DEF OwedNow
    <3> QED
      BY <2>1, <3>1, <3>2
  <2> QED
    BY <2>1, <2>2 DEF Contract!contractVars, OwedNow
<1>5. CASE UNCHANGED <<states, event, next, calling, told>>
  BY <1>5, NoTransitionRefines
<1> QED
  BY <1>1, <1>2, <1>3, <1>4, <1>5 DEF Next, Fire, Tick, managerVars

\* The Manager with its fire loop implements the safety of the contract: each
\* transition owes every notifier one message, handed over once and in order.
THEOREM Refinement == Spec => Contract!Spec
<1>1. Init => Contract!Init
  <2> SUFFICES ASSUME Init PROVE Contract!Init
    OBVIOUS
  <2>1. OwedNow = {}
    BY TypingInit, IdleOwesNothing, AlertAssumption DEF Init, Firing
  <2> QED
    BY <2>1 DEF Init, Contract!Init, OwedNow, ZeroState
<1> QED
  BY <1>1, TypingInit, TypingStep, ContractStep, PTL DEF Spec, Contract!Spec
============================================================================
