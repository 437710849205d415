---------------------------- MODULE Serve_proofs ----------------------------
(***************************************************************************)
(* What holds of Serve for any devices, notifiers, threshold and capacity. *)
(* The steps of AlertManager are taken over from AlertManager_proofs.      *)
(***************************************************************************)
EXTENDS Serve, AlertManager_proofs, SequenceTheorems

\* The capacity is positive whatever the config file says.
LEMMA CapacityPositive == capacity \in Nat /\ capacity >= 1
  BY StoreAssumption DEF capacity

\* What t is to be, if it holds the newest of s with x after it.
KeepsNewest(S, s, x, t) ==
    /\ t \in Seq(S)
    /\ Len(t) = IF Len(s) < capacity THEN Len(s) + 1 ELSE capacity
    /\ Len(t) \in 1..capacity
    /\ t[Len(t)] = x
    /\ \A i \in 1..(Len(t) - 1) :
          t[i] = IF Len(s) < capacity THEN s[i] ELSE s[i + 1]

\* Appending to a history keeps the newest `capacity` snapshots in order.
LEMMA NewestOfAppend ==
    ASSUME NEW S, NEW s \in Seq(S), Len(s) <= capacity, NEW x \in S
    PROVE  KeepsNewest(S, s, x, Newest(Append(s, x)))
<1> DEFINE a == Append(s, x)
           t == Newest(a)
<1> SUFFICES KeepsNewest(S, s, x, t)
  OBVIOUS
<1>1. /\ a \in Seq(S) /\ Len(a) = Len(s) + 1 /\ a[Len(s) + 1] = x
      /\ \A i \in 1..Len(s) : a[i] = s[i]
      /\ Len(s) \in Nat
  OBVIOUS
<1>2. CASE Len(s) < capacity
  <2>1. t = a
    BY <1>1, <1>2, CapacityPositive DEF Newest
  <2> HIDE DEF a, t
  <2> QED
    BY <1>1, <1>2, <2>1, CapacityPositive DEF KeepsNewest
<1>3. CASE Len(s) = capacity
  <2>1. t = SubSeq(a, 2, capacity + 1)
    BY <1>1, <1>3, CapacityPositive DEF Newest
  <2> HIDE DEF a
  <2>2. /\ t \in Seq(S) /\ Len(t) = capacity
        /\ \A i \in 1..capacity : t[i] = a[2 + i - 1]
    BY <1>1, <1>3, <2>1, CapacityPositive, SubSeqProperties
  <2> HIDE DEF t
  <2>3. t[capacity] = x
    BY <1>1, <1>3, <2>2, CapacityPositive
  <2>4. \A i \in 1..(capacity - 1) : t[i] = s[i + 1]
    BY <1>1, <1>3, <2>2, CapacityPositive
  <2> QED
    BY <1>3, <2>2, <2>3, <2>4, CapacityPositive DEF KeepsNewest
<1> QED
  BY <1>1, <1>2, <1>3, CapacityPositive
----------------------------------------------------------------------------
(* The history.                                                            *)

StoreTypeOK ==
    /\ DOMAIN byDevice \subseteq Devices
    /\ \A d \in DOMAIN byDevice :
          byDevice[d] \in Seq(1..Stamps) /\ Len(byDevice[d]) \in 1..capacity

\* What a device's history is, with or without an entry in the map.
LEMMA EntriesTyped ==
    ASSUME StoreTypeOK, NEW d \in Devices
    PROVE  /\ Entries(d) \in Seq(1..Stamps)
           /\ Len(Entries(d)) \in 0..capacity
           /\ HasLatest(d) <=> Len(Entries(d)) > 0
           /\ HasLatest(d) <=> d \in DOMAIN byDevice
           /\ HasLatest(d) => Latest(d) \in 1..Stamps
<1> USE CapacityPositive
<1>1. CASE d \in DOMAIN byDevice
  <2>1. Entries(d) = byDevice[d]
    BY <1>1 DEF Entries
  <2>2. Entries(d) \in Seq(1..Stamps) /\ Len(Entries(d)) \in 1..capacity
    BY <1>1, <2>1 DEF StoreTypeOK
  <2>3. Entries(d) # << >> /\ Entries(d)[Len(Entries(d))] \in 1..Stamps
    <3> DEFINE e == Entries(d)
    <3>1. e \in Seq(1..Stamps) /\ Len(e) \in 1..capacity
      BY <2>2
    <3> HIDE DEF e
    <3>2. e # << >>
      BY <3>1
    <3>3. Len(e) \in 1..Len(e)
      BY <3>1
    <3>4. e[Len(e)] \in 1..Stamps
      BY <3>1, <3>3, ElementOfSeq
    <3> QED
      BY <3>2, <3>4 DEF e
  <2> QED
    BY <1>1, <2>2, <2>3 DEF HasLatest, Latest
<1>2. CASE d \notin DOMAIN byDevice
  BY <1>2 DEF Entries, HasLatest
<1> QED
  BY <1>1, <1>2

\* Add changes the history of its device as Newest says, and no other.
LEMMA AddEffect ==
    ASSUME StoreTypeOK, NEW d \in Devices, NEW snap \in 1..Stamps, Add(d, snap)
    PROVE  /\ StoreTypeOK'
           /\ DOMAIN byDevice' = DOMAIN byDevice \cup {d}
           /\ Entries(d)' = Newest(Append(Entries(d), snap))
           /\ \A x \in Devices \ {d} : Entries(x)' = Entries(x)
<1> DEFINE t == Newest(Append(Entries(d), snap))
<1>1. t \in Seq(1..Stamps) /\ Len(t) \in 1..capacity
  <2>1. Entries(d) \in Seq(1..Stamps) /\ Len(Entries(d)) <= capacity
    BY EntriesTyped, CapacityPositive
  <2> QED
    BY <2>1, NewestOfAppend DEF KeepsNewest
<1> HIDE DEF t
<1>2. byDevice' = [x \in DOMAIN byDevice \cup {d} |->
                      IF x = d THEN t ELSE byDevice[x]]
  BY DEF Add, t
<1>3. DOMAIN byDevice' = DOMAIN byDevice \cup {d}
  BY <1>2
<1>4. Entries(d)' = t
  BY <1>2, <1>3 DEF Entries
<1>5. \A x \in Devices \ {d} : Entries(x)' = Entries(x)
  BY <1>2, <1>3 DEF Entries
<1>6. StoreTypeOK'
  BY <1>1, <1>2, <1>3 DEF StoreTypeOK
<1> QED
  BY <1>3, <1>4, <1>5, <1>6 DEF t
----------------------------------------------------------------------------
(* Types.                                                                  *)

\* A page has the fields of a page.
PageShape ==
    page = [kind |-> page.kind, listed |-> page.listed, todo |-> page.todo,
            latest |-> page.latest, rows |-> page.rows]

Typed == ServeTypeOK /\ PageShape

\* The Manager's variables move by its own steps, or by a restart.
LEMMA ManagerMoves ==
    ASSUME ServeTypeOK, [ServeNext]_vars
    PROVE  [Next]_managerVars \/ Restart
<1>1. hand # NoPoll => hand.device \in Devices
  BY DEF ServeTypeOK, PollInHand
<1>2. ASSUME PollFailed PROVE Next
  BY <1>1, <1>2 DEF PollFailed, Failed, Next
<1>3. ASSUME PollSucceeded PROVE Next
  BY <1>1, <1>3 DEF PollSucceeded, Taken, Next
<1>4. ASSUME FireAlert PROVE Next
  BY <1>4 DEF FireAlert, Next
<1> QED
  BY <1>2, <1>3, <1>4
  DEF ServeNext, Poll, Page, Environment, BeginPass, TakeSnapshot,
      StoreSnapshot, BeginPage, PageLatest, PageStatus, DeviceComes,
      DeviceGoes, vars

\* A restart leaves the Manager as it starts.
LEMMA RestartTyped == ASSUME TypeOK, Restart PROVE TypeOK'
<1>1. ZeroState \in DeviceStates
  BY AlertAssumption, ThresholdPositive DEF ZeroState, DeviceStates
<1>2. next' \in 1..(NotifierCount + 1) /\ ~Firing'
  BY AlertAssumption DEF Restart, Firing
<1> QED
  BY <1>1, <1>2 DEF Restart, TypeOK

LEMMA ManagerTyped == ASSUME ServeTypeOK, [ServeNext]_vars PROVE TypeOK'
  BY ManagerMoves, RestartTyped, TypingStep DEF ServeTypeOK

LEMMA NextStampTyped ==
    ASSUME NEW s \in 0..Stamps
    PROVE  NextStamp(s) \in 1..Stamps
  BY ServeAssumption, CapacityPositive DEF NextStamp

\* Serve starts in its types.
LEMMA ServeTypingInit == ServeInit => Typed
<1> SUFFICES ASSUME ServeInit PROVE Typed
  OBVIOUS
<1>1. TypeOK
  BY TypingInit DEF ServeInit
<1>2. DOMAIN byDevice = {}
  BY DEF ServeInit, StoreInit
<1>3. ~Firing
  BY AlertAssumption DEF ServeInit, Init, Firing
<1>4. stamp \in [Devices -> 0..Stamps]
  BY ServeAssumption DEF ServeInit
<1> QED
  BY <1>1, <1>2, <1>3, <1>4
  DEF ServeInit, Typed, ServeTypeOK, PageShape, NoPage, NoPoll, Openable

\* Every step of serve keeps the types.
LEMMA ServeTypingStep == Typed /\ [ServeNext]_vars => Typed'
<1> SUFFICES ASSUME Typed, [ServeNext]_vars PROVE Typed'
  OBVIOUS
<1> USE ServeAssumption, CapacityPositive
<1>0. ServeTypeOK /\ PageShape /\ TypeOK'
  BY ManagerTyped DEF Typed
<1>1. CASE BeginPass
  BY <1>0, <1>1 DEF BeginPass, AtLoop, managerVars, Firing, Typed, ServeTypeOK,
                    PageShape
<1>2. ASSUME NEW d \in Devices, TakeSnapshot(d) PROVE Typed'
  <2>1. NextStamp(stamp[d]) \in 1..Stamps
    BY <1>0, NextStampTyped DEF ServeTypeOK
  <2>2. stamp' \in [Devices -> 0..Stamps]
    <3>1. stamp' \in {stamp, [stamp EXCEPT ![d] = NextStamp(stamp[d])]}
      BY <1>2 DEF TakeSnapshot
    <3> QED
      BY <1>0, <2>1, <3>1 DEF ServeTypeOK
  <2>3. hand' \in PollInHand /\ ~hand'.recorded
    <3>1. \/ hand' = [device |-> d, snap |-> NextStamp(stamp[d]),
                      recorded |-> FALSE]
          \/ hand' = [device |-> d, snap |-> 0, recorded |-> FALSE]
      BY <1>2 DEF TakeSnapshot
    <3>2. NextStamp(stamp[d]) \in 0..Stamps /\ 0 \in 0..Stamps
      BY <2>1
    <3>3. CASE hand' = [device |-> d, snap |-> NextStamp(stamp[d]),
                        recorded |-> FALSE]
      BY <3>2, <3>3 DEF PollInHand
    <3>4. CASE hand' = [device |-> d, snap |-> 0, recorded |-> FALSE]
      BY <3>2, <3>4 DEF PollInHand
    <3> QED
      BY <3>1, <3>3, <3>4
  <2>4. sessions' \subseteq SessionDevices /\ ~Firing'
    BY <1>0, <1>2
    DEF TakeSnapshot, ServeTypeOK, AtLoop, managerVars, Firing
  <2> QED
    BY <1>0, <1>2, <2>2, <2>3, <2>4
    DEF TakeSnapshot, managerVars, Typed, ServeTypeOK, PageShape
<1>3. CASE PollFailed
  BY <1>0, <1>3 DEF PollFailed, NoPoll, Typed, ServeTypeOK, PageShape
<1>4. CASE PollSucceeded
  <2>1. hand \in PollInHand /\ hand # NoPoll /\ hand.snap # 0
    BY <1>0, <1>4 DEF PollSucceeded, Taken, ServeTypeOK
  <2>2. /\ hand' \in PollInHand /\ hand'.snap # 0 /\ hand'.recorded
        /\ hand'.device = hand.device
    BY <1>4, <2>1 DEF PollSucceeded, PollInHand
  <2>3. Firing' => event'.device = hand.device
    BY <1>4 DEF PollSucceeded, RecordSuccess, FireFrom, Firing
  <2> QED
    BY <1>0, <1>4, <2>2, <2>3 DEF PollSucceeded, Typed, ServeTypeOK, PageShape
<1>5. CASE StoreSnapshot
  <2>1. hand \in PollInHand /\ hand.snap \in 1..Stamps
    BY <1>0, <1>5 DEF StoreSnapshot, Taken, ServeTypeOK, PollInHand
  <2>2. StoreTypeOK'
    BY <1>0, <1>5, <2>1, AddEffect
    DEF StoreSnapshot, ServeTypeOK, StoreTypeOK, PollInHand
  <2> QED
    BY <1>0, <1>5, <2>2
    DEF StoreSnapshot, NoPoll, managerVars, Firing, Typed, ServeTypeOK,
        StoreTypeOK, PageShape
<1>6. CASE FireAlert
  <2>1. Firing /\ (Firing' => event' = event)
    BY <1>0, <1>6
    DEF FireAlert, Fire, CallNotifier, NotifierReturns, FireFrom, Firing,
        ServeTypeOK, TypeOK
  <2> QED
    BY <1>0, <1>6, <2>1
    DEF FireAlert, serveVars, Typed, ServeTypeOK, PageShape
<1>7. ASSUME NEW kind \in PageKinds, BeginPage(kind) PROVE Typed'
  BY <1>0, <1>7
  DEF BeginPage, Listed, managerVars, Firing, Typed, ServeTypeOK, PageShape
<1>8. ASSUME NEW d \in Devices, NEW shown, page' = AddRow(d, shown),
             UNCHANGED <<managerVars, byDevice, reachable, sessions, pollers,
                         todo, hand, stamp>>
      PROVE  Typed'
  <2>1. /\ page'.listed = page.listed /\ page'.todo = page.todo \ {d}
        /\ page'.latest = "none"
        /\ DOMAIN page'.rows = DOMAIN page.rows \cup {d}
        /\ PageShape'
    BY <1>0, <1>8 DEF AddRow, PageShape
  <2> QED
    BY <1>0, <1>8, <2>1 DEF managerVars, Firing, Typed, ServeTypeOK
<1>9. ASSUME NEW d \in Devices, PageLatest(d) PROVE Typed'
  <2>1. CASE page' = [page EXCEPT !.todo = @ \ {d}]
    <3>1. /\ page'.listed = page.listed /\ page'.todo = page.todo \ {d}
          /\ page'.latest = "none" /\ page'.rows = page.rows /\ PageShape'
      BY <1>0, <1>9, <2>1 DEF PageLatest, PageShape
    <3> QED
      BY <1>0, <1>9, <3>1
      DEF PageLatest, managerVars, Firing, Typed, ServeTypeOK
  <2>2. CASE page' = AddRow(d, "snapshot")
    BY <1>8, <1>9, <2>2 DEF PageLatest
  <2>3. CASE page' = [page EXCEPT !.latest = d]
    <3>1. /\ page'.listed = page.listed /\ page'.todo = page.todo
          /\ page'.latest = d /\ page'.rows = page.rows /\ PageShape'
      BY <1>0, <2>3 DEF PageShape
    <3> QED
      BY <1>0, <1>9, <3>1
      DEF PageLatest, managerVars, Firing, Typed, ServeTypeOK
  <2> QED
    BY <1>9, <2>1, <2>2, <2>3 DEF PageLatest
<1>10. ASSUME NEW d \in Devices, PageStatus(d) PROVE Typed'
  BY <1>8, <1>10 DEF PageStatus
<1>11. ASSUME NEW d \in Devices, DeviceComes(d) \/ DeviceGoes(d) PROVE Typed'
  BY <1>0, <1>11
  DEF DeviceComes, DeviceGoes, managerVars, Firing, Typed, ServeTypeOK, PageShape
<1>12. CASE Restart
  <2>1. DOMAIN byDevice' = {} /\ ~Firing'
    BY <1>12, AlertAssumption DEF Restart, Firing
  <2>2. stamp' \in [Devices -> 0..Stamps]
    BY <1>12 DEF Restart
  <2> QED
    BY <1>0, <1>12, <2>1, <2>2
    DEF Restart, NoPoll, NoPage, Openable, Typed, ServeTypeOK, PageShape
<1>13. CASE UNCHANGED vars
  BY <1>0, <1>13
  DEF vars, serveVars, managerVars, Firing, Typed, ServeTypeOK, PageShape
<1> QED
  BY <1>1, <1>2, <1>3, <1>4, <1>5, <1>6, <1>7, <1>9, <1>10, <1>11, <1>12, <1>13
  DEF ServeNext, Poll, Page, Environment

\* Type correctness of the composition.
THEOREM ServeTyping == ServeSpec => []ServeTypeOK
<1>1. Typed => ServeTypeOK
  BY DEF Typed
<1> QED
  BY <1>1, ServeTypingInit, ServeTypingStep, PTL DEF ServeSpec
----------------------------------------------------------------------------
(* The pages.                                                              *)

\* Once polled with a result that counts, a device stays known.
LEMMA KnownStays ==
    ASSUME TypeOK, [Next]_managerVars, NEW d \in Devices,
           states[d].status # "unknown"
    PROVE  states'[d].status # "unknown"
<1>1. ASSUME NEW x \in Devices, RecordSuccess(x)
      PROVE  states'[d].status # "unknown"
  BY <1>1 DEF RecordSuccess, TypeOK
<1>2. ASSUME NEW x \in Devices, RecordFailure(x)
      PROVE  states'[d].status # "unknown"
  <2>1. CASE x = d
    BY <1>2, <2>1, FailureEffect
  <2>2. CASE x # d
    BY <1>2, <2>2, FailureEffect
  <2> QED
    BY <2>1, <2>2
<1> QED
  BY <1>1, <1>2
  DEF Next, Fire, CallNotifier, NotifierReturns, Tick, managerVars

\* A device with a stored snapshot, or one about to be stored, is known.
KnownInv ==
    /\ \A d \in Listed : states[d].status # "unknown"
    /\ hand.recorded => states[hand.device].status # "unknown"

\* What a page has still to show is listed, and what it has shown is not lost.
PageInv ==
    /\ page.todo \subseteq Listed
    /\ DOMAIN page.rows = page.listed \ page.todo
    /\ NoUnknownShown

\* Every step but those of the page keeps the stored devices known.
LEMMA KnownStep ==
    Typed /\ KnownInv /\ [ServeNext]_vars => KnownInv'
<1> SUFFICES ASSUME Typed, KnownInv, [ServeNext]_vars PROVE KnownInv'
  OBVIOUS
<1>0. /\ ServeTypeOK /\ TypeOK /\ StoreTypeOK /\ StoreTypeOK'
      /\ Listed \subseteq Devices
      /\ hand # NoPoll => hand \in PollInHand /\ hand.device \in Devices
      /\ hand.recorded => hand # NoPoll
  BY ServeTypingStep
  DEF Typed, ServeTypeOK, StoreTypeOK, Listed, PollInHand, NoPoll
<1>1. CASE Restart
  <2>1. Listed' = {} /\ ~hand'.recorded
    BY <1>1 DEF Restart, Listed, NoPoll
  <2> QED
    BY <2>1 DEF KnownInv
<1>2. CASE [Next]_managerVars
  <2>1. \A d \in Devices : states[d].status # "unknown"
                             => states'[d].status # "unknown"
    BY <1>0, <1>2, KnownStays
  <2>2. CASE StoreSnapshot
    <3>1. hand.device \in Devices /\ hand.snap \in 1..Stamps /\ hand.recorded
      BY <1>0, <2>2 DEF StoreSnapshot, Taken, PollInHand
    <3>2. Listed' = Listed \cup {hand.device} /\ ~hand'.recorded
      BY <1>0, <2>2, <3>1, AddEffect DEF StoreSnapshot, Listed, NoPoll
    <3> QED
      BY <1>0, <2>1, <3>1, <3>2 DEF KnownInv
  <2>3. CASE PollSucceeded
    <3>1. /\ hand.device \in Devices /\ Listed' = Listed
          /\ hand'.device = hand.device
          /\ states'[hand.device].status = "up"
      BY <1>0, <2>3
      DEF PollSucceeded, Taken, Listed, RecordSuccess, TypeOK, PollInHand
    <3> QED
      BY <1>0, <2>1, <3>1 DEF KnownInv
  <2>4. CASE UNCHANGED byDevice /\ ~hand'.recorded
    BY <1>0, <2>1, <2>4 DEF KnownInv, Listed
  <2>5. CASE UNCHANGED <<byDevice, hand>>
    BY <1>0, <2>1, <2>5 DEF KnownInv, Listed
  <2>6. ASSUME NEW d \in Devices, TakeSnapshot(d)
        PROVE  UNCHANGED byDevice /\ ~hand'.recorded
    BY <2>6 DEF TakeSnapshot
  <2>7. ASSUME PollFailed PROVE UNCHANGED byDevice /\ ~hand'.recorded
    BY <2>7 DEF PollFailed, NoPoll
  <2> QED
    BY <1>1, <2>2, <2>3, <2>4, <2>5, <2>6, <2>7
    DEF ServeNext, Poll, Page, Environment, BeginPass, FireAlert, serveVars,
        BeginPage, PageLatest, PageStatus, DeviceComes, DeviceGoes, vars
<1> QED
  BY <1>0, <1>1, <1>2, ManagerMoves

\* The history never forgets a device, but by a restart.
LEMMA ListedGrows ==
    ASSUME Typed, [ServeNext]_vars, ~Restart
    PROVE  Listed \subseteq Listed'
<1>1. ASSUME StoreSnapshot PROVE Listed \subseteq Listed'
  BY <1>1 DEF StoreSnapshot, Add, Listed
<1> QED
  BY <1>1
  DEF ServeNext, Poll, Page, Environment, BeginPass, TakeSnapshot, PollFailed,
      PollSucceeded, FireAlert, BeginPage, PageLatest, PageStatus,
      DeviceComes, DeviceGoes, vars, Listed

\* Every step keeps the pages right.
LEMMA PageStep ==
    Typed /\ KnownInv /\ PageInv /\ [ServeNext]_vars => PageInv'
<1> SUFFICES ASSUME Typed, KnownInv, PageInv, [ServeNext]_vars PROVE PageInv'
  OBVIOUS
<1>0. /\ ServeTypeOK /\ TypeOK /\ StoreTypeOK /\ PageShape
      /\ Listed \subseteq Devices /\ page.todo \subseteq page.listed
      /\ page.latest \in page.todo \cup {"none"}
      /\ DOMAIN page.rows \subseteq Devices
  BY DEF Typed, ServeTypeOK, StoreTypeOK, Listed
<1>1. CASE Restart
  BY <1>1 DEF Restart, NoPage, PageInv, NoUnknownShown
<1>2. CASE UNCHANGED page /\ ~Restart
  <2>1. Listed \subseteq Listed'
    BY <1>2, ListedGrows
  <2> QED
    BY <1>2, <2>1 DEF PageInv, NoUnknownShown
<1>3. ASSUME NEW kind \in PageKinds, BeginPage(kind) PROVE PageInv'
  BY <1>3 DEF BeginPage, Listed, PageInv, NoUnknownShown
<1>4. ASSUME NEW d \in Devices, NEW shown, page' = AddRow(d, shown),
             d \in page.todo, UNCHANGED byDevice,
             page.kind = "status" => shown \in {"up", "down"}
      PROVE  PageInv'
  <2>1. /\ page'.listed = page.listed /\ page'.todo = page.todo \ {d}
        /\ page'.kind = page.kind
        /\ page'.rows = [x \in DOMAIN page.rows \cup {d} |->
                            IF x = d THEN shown ELSE page.rows[x]]
    BY <1>0, <1>4 DEF AddRow, PageShape
  <2>2. DOMAIN page'.rows = DOMAIN page.rows \cup {d}
    BY <2>1
  <2>3. NoUnknownShown'
    BY <1>4, <2>1, <2>2 DEF PageInv, NoUnknownShown
  <2> QED
    BY <1>0, <1>4, <2>1, <2>2, <2>3 DEF PageInv, Listed
<1>5. ASSUME NEW d \in Devices, PageLatest(d) PROVE PageInv'
  <2>1. d \in page.todo /\ UNCHANGED byDevice /\ HasLatest(d)
    BY <1>0, <1>5, EntriesTyped DEF PageLatest, PageInv, Listed
  <2>2. CASE page.kind = "dashboard"
    BY <1>4, <1>5, <2>1, <2>2 DEF PageLatest
  <2>3. CASE page.kind # "dashboard"
    <3>1. page' = [page EXCEPT !.latest = d]
      BY <1>5, <2>1, <2>3 DEF PageLatest
    <3>2. /\ page'.listed = page.listed /\ page'.todo = page.todo
          /\ page'.kind = page.kind /\ page'.rows = page.rows
      BY <1>0, <3>1 DEF PageShape
    <3> QED
      BY <2>1, <3>2 DEF PageInv, NoUnknownShown, Listed
  <2> QED
    BY <2>2, <2>3
<1>6. ASSUME NEW d \in Devices, PageStatus(d) PROVE PageInv'
  <2>1. d \in page.todo /\ d \in Listed /\ UNCHANGED byDevice
    BY <1>0, <1>6, ServeAssumption DEF PageStatus, PageInv
  <2>2. states[d].status \in {"up", "down"}
    BY <1>0, <2>1 DEF KnownInv, TypeOK, DeviceStates
  <2> QED
    BY <1>4, <1>6, <2>1, <2>2 DEF PageStatus
<1> QED
  BY <1>1, <1>2, <1>3, <1>5, <1>6
  DEF ServeNext, Poll, Page, Environment, BeginPass, TakeSnapshot, PollFailed,
      PollSucceeded, StoreSnapshot, FireAlert, serveVars, DeviceComes,
      DeviceGoes, vars

LEMMA PageInit == ServeInit => KnownInv /\ PageInv
  BY DEF ServeInit, StoreInit, NoPoll, NoPage, Listed, KnownInv, PageInv,
         NoUnknownShown

\* The public page, which asks two components at different times, never shows a
\* device the Manager does not know.
THEOREM KnownOnPage == ServeSpec => []NoUnknownShown
<1>1. PageInv => NoUnknownShown
  BY DEF PageInv
<1> QED
  BY <1>1, PageInit, KnownStep, PageStep, ServeTypingInit, ServeTypingStep, PTL
  DEF ServeSpec

\* No device a page set out to show is lost on the way.
THEOREM PageComplete == ServeSpec => []PageIsComplete
<1>1. Typed /\ PageInv => PageIsComplete
  BY DEF Typed, ServeTypeOK, PageInv, PageIsComplete
<1> QED
  BY <1>1, PageInit, KnownStep, PageStep, ServeTypingInit, ServeTypingStep, PTL
  DEF ServeSpec
----------------------------------------------------------------------------
(* The alerts of a process that may have been killed in the middle of one. *)

\* Of a device that is down, every notifier was told so, by this process or by
\* one before it, unless fire has still to come to it.
DownTold ==
    \A n \in Notifiers, d \in Devices :
        states[d].status = "down" /\ ~Pending(n, d) => told[n][d] = "down"

RecoveryInv == EventIsCurrent /\ DownTold /\ RecoveryFollowsDown

\* A poll that brings a transition.
LEMMA RecoveryStarts ==
    ASSUME TypeOK, RecoveryInv, ~Firing,
           NEW d \in Devices, NEW s \in {"up", "down"},
           states'[d].status = s,
           s = "up" => states[d].status = "down",
           \A x \in Devices \ {d} : states'[x] = states[x],
           FireFrom([device |-> d, status |-> s], 1),
           UNCHANGED <<calling, told>>
    PROVE  RecoveryInv'
<1> USE AlertAssumption
<1>1. next' = 1 /\ ~calling'
  BY DEF FireFrom, TypeOK
<1>2. Firing' => event' = [device |-> d, status |-> s]
  BY <1>1 DEF FireFrom, Firing
<1>3. EventIsCurrent'
  BY <1>2 DEF EventIsCurrent
<1>4. ASSUME NEW n \in Notifiers, NEW x \in Devices
      PROVE  /\ Pending(n, x)' <=> x = d
             /\ event'.status = s
             /\ ~Pending(n, x)
  <2>1. Firing'
    BY <1>1 DEF Firing, Notifiers
  <2> QED
    BY <1>1, <1>2, <2>1 DEF Pending, Notifiers
<1>5. DownTold'
  BY <1>4 DEF RecoveryInv, DownTold
<1>6. RecoveryFollowsDown'
  <2> SUFFICES ASSUME NEW n \in Notifiers, NEW x \in Devices,
                      Pending(n, x)', event'.status = "up"
               PROVE  told'[n][x] = "down"
    BY DEF RecoveryFollowsDown
  <2> QED
    BY <1>4 DEF RecoveryInv, DownTold
<1> QED
  BY <1>3, <1>5, <1>6 DEF RecoveryInv

\* A poll that brings none, and the clock.
LEMMA RecoveryStays ==
    ASSUME RecoveryInv, UNCHANGED <<next, event, calling, told>>,
           \A x \in Devices :
              states'[x].status = "down" <=> states[x].status = "down",
           Firing => event.device \in Devices
    PROVE  RecoveryInv'
  BY DEF RecoveryInv, EventIsCurrent, DownTold, RecoveryFollowsDown, Pending,
         Firing

\* The call of a notifier.
LEMMA RecoveryCalls ==
    ASSUME TypeOK, RecoveryInv, CallNotifier
    PROVE  RecoveryInv'
<1>1. /\ Firing /\ ~calling /\ calling' = TRUE
      /\ UNCHANGED <<states, event, next>>
      /\ next \in Notifiers /\ event.device \in Devices
      /\ event.status \in {"up", "down"}
  BY AlertAssumption DEF CallNotifier, TypeOK, Firing, Notifiers
<1>2. \A n \in Notifiers, x \in Devices :
         told'[n][x] = IF n = next /\ x = event.device THEN event.status
                                                       ELSE told[n][x]
  BY <1>1 DEF CallNotifier, TypeOK
<1>3. \A n \in Notifiers, x \in Devices :
         Pending(n, x)' <=> /\ Pending(n, x)
                            /\ ~(n = next /\ x = event.device)
  BY <1>1, AlertAssumption DEF Pending, Firing, Notifiers
<1>4. EventIsCurrent'
  BY <1>1 DEF RecoveryInv, EventIsCurrent, Firing
<1>5. DownTold'
  <2> SUFFICES ASSUME NEW n \in Notifiers, NEW x \in Devices,
                      states'[x].status = "down", ~Pending(n, x)'
               PROVE  told'[n][x] = "down"
    BY DEF DownTold
  <2>1. CASE n = next /\ x = event.device
    BY <1>1, <1>2, <2>1 DEF RecoveryInv, EventIsCurrent
  <2>2. CASE ~(n = next /\ x = event.device)
    BY <1>1, <1>2, <1>3, <2>2 DEF RecoveryInv, DownTold
  <2> QED
    BY <2>1, <2>2
<1>6. RecoveryFollowsDown'
  BY <1>1, <1>2, <1>3 DEF RecoveryInv, RecoveryFollowsDown
<1> QED
  BY <1>4, <1>5, <1>6 DEF RecoveryInv

\* The return of a notifier.
LEMMA RecoveryMovesOn ==
    ASSUME TypeOK, RecoveryInv, NEW ok \in BOOLEAN, NotifierReturns(ok)
    PROVE  RecoveryInv'
<1>1. /\ calling /\ calling' = FALSE /\ next' = next + 1
      /\ event' = IF next + 1 <= NotifierCount THEN event ELSE NoEvent
      /\ UNCHANGED <<states, told>> /\ Firing /\ next \in Nat
  BY AlertAssumption DEF NotifierReturns, FireFrom, AfterNotify, TypeOK
<1>2. Firing' => event' = event
  BY <1>1, AlertAssumption DEF Firing
<1>3. EventIsCurrent'
  BY <1>1, <1>2 DEF RecoveryInv, EventIsCurrent
<1>4. \A n \in Notifiers, x \in Devices : Pending(n, x)' <=> Pending(n, x)
  BY <1>1, AlertAssumption DEF Pending, Firing, Notifiers
<1>5. \A n \in Notifiers, x \in Devices : Pending(n, x)' => event' = event
  BY <1>2 DEF Pending
<1> QED
  BY <1>1, <1>3, <1>4, <1>5 DEF RecoveryInv, DownTold, RecoveryFollowsDown

\* Every step of the Manager, and the end of the process.
LEMMA RecoveryStep ==
    ServeTypeOK /\ RecoveryInv /\ [ServeNext]_vars => RecoveryInv'
<1> SUFFICES ASSUME ServeTypeOK, RecoveryInv, [ServeNext]_vars
             PROVE  RecoveryInv'
  OBVIOUS
<1>0. TypeOK /\ (Firing => event.device \in Devices)
  BY DEF ServeTypeOK, TypeOK
<1>1. ASSUME NEW d \in Devices, RecordSuccess(d) PROVE RecoveryInv'
  <2>1. /\ ~Firing /\ states'[d].status = "up" /\ UNCHANGED <<calling, told>>
        /\ \A x \in Devices \ {d} : states'[x] = states[x]
    BY <1>0, <1>1 DEF RecordSuccess, TypeOK
  <2>2. CASE WasDown(states[d])
    <3>1. FireFrom([device |-> d, status |-> "up"], 1)
      BY <1>1, <2>2 DEF RecordSuccess
    <3> QED
      BY <1>0, <2>1, <2>2, <3>1, RecoveryStarts DEF WasDown
  <2>3. CASE ~WasDown(states[d])
    <3>1. UNCHANGED <<next, event>>
      BY <1>1, <2>3 DEF RecordSuccess
    <3> QED
      BY <2>1, <2>3, <3>1, RecoveryStays DEF WasDown
  <2> QED
    BY <2>2, <2>3
<1>2. ASSUME NEW d \in Devices, RecordFailure(d) PROVE RecoveryInv'
  <2>1. ~Firing /\ UNCHANGED <<calling, told>>
    BY <1>2 DEF RecordFailure
  <2>2. \A x \in Devices \ {d} : states'[x] = states[x]
    BY <1>0, <1>2, FailureEffect
  <2>3. CASE /\ states'[d].status = "down"
             /\ FireFrom([device |-> d, status |-> "down"], 1)
    BY <1>0, <2>1, <2>2, <2>3, RecoveryStarts
  <2>4. CASE states'[d].status = states[d].status /\ UNCHANGED <<next, event>>
    BY <2>1, <2>2, <2>4, RecoveryStays
  <2> QED
    BY <1>0, <1>2, <2>3, <2>4, FailureEffect
<1>3. CASE UNCHANGED <<states, event, next, calling, told>>
  BY <1>0, <1>3, RecoveryStays
<1>4. CASE Restart
  <2>1. ~Firing' /\ \A x \in Devices : states'[x].status = "unknown"
    BY <1>4, AlertAssumption DEF Restart, Firing, ZeroState
  <2> QED
    BY <2>1
    DEF RecoveryInv, EventIsCurrent, DownTold, RecoveryFollowsDown, Pending
<1> QED
  BY <1>0, <1>1, <1>2, <1>3, <1>4, RecoveryCalls, RecoveryMovesOn, ManagerMoves
  DEF Next, Fire, Tick, managerVars

LEMMA RecoveryInit == ServeInit => RecoveryInv
  BY AlertAssumption
  DEF ServeInit, Init, RecoveryInv, EventIsCurrent, DownTold,
      RecoveryFollowsDown, Pending, Firing, ZeroState

\* "Recovered" is only said to who last heard "down", across restarts too.
THEOREM RecoveryAfterDown == ServeSpec => []RecoveryFollowsDown
<1>1. Typed => ServeTypeOK
  BY DEF Typed
<1>2. RecoveryInv => RecoveryFollowsDown
  BY DEF RecoveryInv
<1> QED
  BY <1>1, <1>2, RecoveryInit, RecoveryStep, ServeTypingInit, ServeTypingStep,
     PTL DEF ServeSpec
----------------------------------------------------------------------------
(* The history against the polls.                                          *)

\* What the history of one device is to be.
HistoryOf(d) ==
    /\ stamp[d] = IF InHand(d) THEN NextStamp(LastStored(d)) ELSE LastStored(d)
    /\ \A i \in 1..(Len(Entries(d)) - 1) :
          Entries(d)[i + 1] = NextStamp(Entries(d)[i])
    /\ Len(Entries(d)) < capacity => LastStored(d) = Len(Entries(d))

LEMMA HistoryByDevice ==
    HistoryHoldsNewest <=> \A d \in Devices : HistoryOf(d)
  BY DEF HistoryHoldsNewest, HistoryOf, All

\* The stamp in hand is the one of the device's last poll.
HandInv == Taken => hand.snap = stamp[hand.device]

\* Storing the snapshot in hand.
LEMMA HistoryStored ==
    ASSUME Typed, HandInv, StoreSnapshot, NEW d \in Devices, d = hand.device,
           HistoryOf(d)
    PROVE  HistoryOf(d)'
<1> DEFINE e == Entries(d)
           f == Entries(d)'
           snap == hand.snap
<1> USE CapacityPositive
<1>0. StoreTypeOK /\ snap \in 1..Stamps /\ Taken /\ ~InHand(d)'
  BY DEF Typed, ServeTypeOK, StoreTypeOK, StoreSnapshot, Taken, PollInHand,
         NoPoll, InHand
<1>1. snap = NextStamp(LastStored(d)) /\ stamp' = stamp /\ stamp[d] = snap
  BY <1>0 DEF HandInv, HistoryOf, InHand, StoreSnapshot
<1>2. /\ e \in Seq(1..Stamps) /\ Len(e) \in 0..capacity
      /\ HasLatest(d) <=> Len(e) > 0
  BY <1>0, EntriesTyped
<1>3. f = Newest(Append(e, snap)) /\ StoreTypeOK'
  BY <1>0, AddEffect DEF StoreSnapshot
<1>3a. KeepsNewest(1..Stamps, e, snap, f)
  <2>1. Len(e) <= capacity
    BY <1>2
  <2>2. e \in Seq(1..Stamps) /\ snap \in 1..Stamps /\ f = Newest(Append(e, snap))
    BY <1>0, <1>2, <1>3
  <2> HIDE DEF e, f, snap
  <2>3. KeepsNewest(1..Stamps, e, snap, Newest(Append(e, snap)))
    BY <2>1, <2>2, NewestOfAppend
  <2> QED
    BY <2>2, <2>3
<1>4. /\ f \in Seq(1..Stamps)
      /\ Len(f) = IF Len(e) < capacity THEN Len(e) + 1 ELSE capacity
      /\ Len(f) \in 1..capacity
      /\ f[Len(f)] = snap
      /\ \A i \in 1..(Len(f) - 1) :
            f[i] = IF Len(e) < capacity THEN e[i] ELSE e[i + 1]
  <2> HIDE DEF e, f, snap
  <2> QED
    BY <1>3a DEF KeepsNewest
<1>5. LastStored(d)' = snap
  <2>1. f # << >>
    BY <1>4
  <2>2. HasLatest(d)' /\ Latest(d)' = snap
    BY <1>4, <2>1 DEF HasLatest, Latest
  <2> QED
    BY <2>2 DEF LastStored
<1>6. /\ \A i \in 1..(Len(e) - 1) : e[i + 1] = NextStamp(e[i])
      /\ Len(e) < capacity => LastStored(d) = Len(e)
      /\ Len(e) > 0 => LastStored(d) = e[Len(e)]
  BY <1>2 DEF HistoryOf, LastStored, Latest
<1> HIDE DEF e, f, snap
<1>7. ASSUME NEW i \in 1..(Len(f) - 1) PROVE f[i + 1] = NextStamp(f[i])
  <2>1. CASE i + 1 = Len(f)
    <3>1. f[i] = e[Len(e)] /\ Len(e) > 0
      BY <1>2, <1>4, <1>7, <2>1
    <3> QED
      BY <1>1, <1>4, <1>6, <2>1, <3>1
  <2>2. CASE i + 1 < Len(f)
    <3>1. CASE Len(e) < capacity
      <4>1. f[i] = e[i] /\ f[i + 1] = e[i + 1] /\ i \in 1..(Len(e) - 1)
        BY <1>2, <1>4, <1>7, <2>2, <3>1
      <4> QED
        BY <1>6, <4>1
    <3>2. CASE Len(e) = capacity
      <4>1. /\ f[i] = e[i + 1] /\ f[i + 1] = e[(i + 1) + 1]
            /\ i + 1 \in 1..(Len(e) - 1)
        BY <1>2, <1>4, <1>7, <2>2, <3>2
      <4> QED
        BY <1>6, <4>1
    <3> QED
      BY <1>2, <3>1, <3>2
  <2> QED
    BY <1>4, <1>7, <2>1, <2>2
<1>8. ASSUME Len(f) < capacity PROVE snap = Len(f)
  <2>1. Len(e) < capacity /\ Len(f) = Len(e) + 1 /\ LastStored(d) = Len(e)
    BY <1>2, <1>4, <1>6, <1>8
  <2>2. LastStored(d) # Stamps
    BY <1>2, <2>1, ServeAssumption
  <2> QED
    BY <1>1, <2>1, <2>2 DEF NextStamp
<1> QED
  BY <1>0, <1>1, <1>5, <1>7, <1>8 DEF HistoryOf, f, snap

\* What a step leaves alone.
LEMMA HistoryKept ==
    ASSUME NEW d \in Devices, HistoryOf(d), Entries(d)' = Entries(d),
           stamp'[d] = stamp[d], InHand(d)' <=> InHand(d)
    PROVE  HistoryOf(d)'
<1>1. LastStored(d)' = LastStored(d)
  BY DEF LastStored, HasLatest, Latest
<1> QED
  BY <1>1 DEF HistoryOf

\* Every step keeps every history the newest of its device's snapshots.
LEMMA HistoryStep ==
    /\ Typed /\ HandInv /\ HistoryHoldsNewest /\ [ServeNext]_vars
    => HandInv' /\ HistoryHoldsNewest'
<1> SUFFICES ASSUME Typed, HandInv, HistoryHoldsNewest, [ServeNext]_vars
             PROVE  HandInv' /\ HistoryHoldsNewest'
  OBVIOUS
<1>0. /\ ServeTypeOK /\ StoreTypeOK
      /\ \A d \in Devices : HistoryOf(d)
      /\ hand # NoPoll => hand \in PollInHand
      /\ stamp \in [Devices -> 0..Stamps]
  BY HistoryByDevice DEF Typed, ServeTypeOK, StoreTypeOK
<1>1. ASSUME NEW d \in Devices, TakeSnapshot(d)
      PROVE  HandInv' /\ HistoryHoldsNewest'
  <2>1. /\ hand = NoPoll /\ UNCHANGED byDevice
        /\ \A x \in Devices : ~InHand(x) /\ Entries(x)' = Entries(x)
    BY <1>1 DEF TakeSnapshot, AtLoop, InHand, Taken, Entries
  <2>2. CASE ~Answers(d)
    <3>1. ~Taken' /\ stamp' = stamp
      BY <1>1, <2>2 DEF TakeSnapshot, Taken
    <3>2. \A x \in Devices : HistoryOf(x)'
      BY <1>0, <2>1, <3>1, HistoryKept DEF InHand
    <3> QED
      BY <3>1, <3>2, HistoryByDevice DEF HandInv, HistoryHoldsNewest, HistoryOf, All
  <2>3. CASE Answers(d)
    <3>1. /\ stamp' = [stamp EXCEPT ![d] = NextStamp(stamp[d])]
          /\ hand' = [device |-> d, snap |-> NextStamp(stamp[d]),
                      recorded |-> FALSE]
      BY <1>1, <2>3 DEF TakeSnapshot
    <3>2. NextStamp(stamp[d]) \in 1..Stamps
      BY <1>0, NextStampTyped
    <3>3. /\ stamp'[d] = NextStamp(stamp[d])
          /\ \A x \in Devices \ {d} : stamp'[x] = stamp[x]
      BY <1>0, <3>1
    <3>4. Taken' /\ hand'.device = d /\ hand'.snap = stamp'[d]
      <4>1. hand' # NoPoll /\ hand'.snap # 0
        BY <3>1, <3>2, ServeAssumption, CapacityPositive DEF NoPoll
      <4> QED
        BY <3>1, <3>3, <4>1 DEF Taken, NoPoll
    <3>5. HistoryOf(d)'
      <4>1. LastStored(d)' = LastStored(d) /\ stamp[d] = LastStored(d)
        BY <1>0, <2>1 DEF LastStored, HasLatest, Latest, HistoryOf
      <4>2. InHand(d)'
        BY <3>4 DEF InHand
      <4> QED
        BY <1>0, <2>1, <3>3, <4>1, <4>2 DEF HistoryOf, NextStamp
    <3>6. ASSUME NEW x \in Devices \ {d} PROVE HistoryOf(x)'
      <4>1. ~InHand(x)'
        BY <3>4 DEF InHand
      <4> QED
        BY <1>0, <2>1, <3>3, <4>1, HistoryKept
    <3> QED
      BY <3>4, <3>5, <3>6 DEF HandInv, HistoryHoldsNewest, HistoryOf, All
  <2> QED
    BY <2>2, <2>3
<1>2. CASE StoreSnapshot
  <2>1. /\ hand \in PollInHand /\ hand.snap \in 1..Stamps /\ ~Taken'
        /\ hand.device \in Devices /\ stamp' = stamp
    BY <1>0, <1>2 DEF StoreSnapshot, Taken, PollInHand
  <2>2. \A x \in Devices \ {hand.device} : Entries(x)' = Entries(x)
    BY <1>0, <1>2, <2>1, AddEffect DEF StoreSnapshot
  <2>3. ASSUME NEW x \in Devices PROVE HistoryOf(x)'
    <3>1. CASE x = hand.device
      BY <1>0, <1>2, <3>1, HistoryStored
    <3>2. CASE x # hand.device
      <4>1. ~InHand(x) /\ ~InHand(x)'
        BY <2>1, <3>2 DEF InHand
      <4> QED
        BY <1>0, <2>1, <2>2, <3>2, <4>1, HistoryKept
    <3> QED
      BY <3>1, <3>2
  <2> QED
    BY <2>1, <2>3 DEF HandInv, HistoryHoldsNewest, HistoryOf, All
<1>3. CASE /\ UNCHANGED <<byDevice, stamp>>
           /\ hand'.device = hand.device /\ hand'.snap = hand.snap
           /\ Taken' <=> Taken
  <2>1. \A x \in Devices : Entries(x)' = Entries(x) /\ (InHand(x)' <=> InHand(x))
    BY <1>3 DEF Entries, InHand
  <2>2. \A x \in Devices : HistoryOf(x)'
    BY <1>0, <1>3, <2>1, HistoryKept
  <2> QED
    BY <1>3, <2>2 DEF HandInv, HistoryHoldsNewest, HistoryOf, All
<1>4. CASE /\ UNCHANGED <<byDevice, stamp>> /\ ~Taken /\ ~Taken'
  <2>1. \A x \in Devices : Entries(x)' = Entries(x) /\ (InHand(x)' <=> InHand(x))
    BY <1>4 DEF Entries, InHand
  <2>2. \A x \in Devices : HistoryOf(x)'
    BY <1>0, <1>4, <2>1, HistoryKept
  <2> QED
    BY <1>4, <2>2 DEF HandInv, HistoryHoldsNewest, HistoryOf, All
<1>5. CASE PollFailed
  BY <1>4, <1>5 DEF PollFailed, Failed, Taken
<1>6. CASE PollSucceeded
  <2>1. hand \in PollInHand /\ hand # NoPoll /\ hand.snap # 0
    BY <1>0, <1>6 DEF PollSucceeded, Taken
  <2>2. /\ hand'.device = hand.device /\ hand'.snap = hand.snap
        /\ hand'.recorded
    BY <1>6, <2>1 DEF PollSucceeded, PollInHand
  <2>3. Taken /\ Taken'
    BY <2>1, <2>2 DEF Taken, NoPoll
  <2> QED
    BY <1>3, <1>6, <2>2, <2>3 DEF PollSucceeded
<1>7. CASE Restart
  <2>1. /\ ~Taken' /\ \A x \in Devices : Entries(x)' = << >> /\ stamp'[x] = 0
    BY <1>7 DEF Restart, Taken, Entries
  <2>2. ASSUME NEW x \in Devices PROVE HistoryOf(x)'
    <3>1. ~InHand(x)' /\ LastStored(x)' = 0 /\ Len(Entries(x)') = 0
      BY <2>1 DEF InHand, LastStored, HasLatest
    <3> QED
      BY <2>1, <3>1 DEF HistoryOf
  <2> QED
    BY <2>1, <2>2 DEF HandInv, HistoryHoldsNewest, HistoryOf, All
<1>8. CASE UNCHANGED <<byDevice, stamp, hand>>
  BY <1>3, <1>8 DEF Taken
<1> QED
  BY <1>1, <1>2, <1>5, <1>6, <1>7, <1>8
  DEF ServeNext, Poll, Page, Environment, BeginPass, FireAlert, serveVars,
      BeginPage, PageLatest, PageStatus, DeviceComes, DeviceGoes, vars

LEMMA HistoryInit == ServeInit => HandInv /\ HistoryHoldsNewest
<1> SUFFICES ASSUME ServeInit PROVE HandInv /\ HistoryHoldsNewest
  OBVIOUS
<1>1. ~Taken /\ \A x \in Devices : Entries(x) = << >> /\ stamp[x] = 0
  BY DEF ServeInit, StoreInit, Taken, Entries
<1>2. ASSUME NEW x \in Devices PROVE HistoryOf(x)
  <2>1. ~InHand(x) /\ LastStored(x) = 0 /\ Len(Entries(x)) = 0
    BY <1>1 DEF InHand, LastStored, HasLatest
  <2> QED
    BY <1>1, <2>1 DEF HistoryOf
<1> QED
  BY <1>1, <1>2, HistoryByDevice DEF HandInv

\* The history of a device is the newest of its snapshots, in order, and no
\* other, for every capacity and any polls and restarts.
THEOREM HistoryNewest == ServeSpec => []HistoryHoldsNewest
  BY HistoryInit, HistoryStep, ServeTypingInit, ServeTypingStep, PTL
  DEF ServeSpec
----------------------------------------------------------------------------
(* The devices that are not on the pages.                                  *)

\* A device that is up and has no history is the one whose answer is in hand.
UpInv ==
    \A d \in Devices \ Listed :
        states[d].status = "up" => hand.recorded /\ hand.device = d

LEMMA UpStep == Typed /\ UpInv /\ [ServeNext]_vars => UpInv'
<1> SUFFICES ASSUME Typed, UpInv, [ServeNext]_vars,
                    NEW d \in Devices, d \notin Listed',
                    states'[d].status = "up"
             PROVE  hand'.recorded /\ hand'.device = d
  BY DEF UpInv, Listed
<1>0. /\ ServeTypeOK /\ TypeOK /\ StoreTypeOK
      /\ hand # NoPoll => hand \in PollInHand /\ hand.device \in Devices
      /\ hand.recorded => hand.snap # 0
  BY DEF Typed, ServeTypeOK, StoreTypeOK, PollInHand
<1>1. CASE Restart
  BY <1>1 DEF Restart, ZeroState
<1>2. CASE PollSucceeded
  <2>1. CASE hand.device = d
    BY <1>0, <1>2, <2>1 DEF PollSucceeded, Taken, PollInHand
  <2>2. CASE hand.device # d
    <3>1. states[d].status = "up" /\ d \notin Listed /\ ~hand.recorded
      BY <1>0, <1>2, <2>2 DEF PollSucceeded, RecordSuccess, TypeOK, Listed
    <3> QED
      BY <3>1 DEF UpInv
  <2> QED
    BY <2>1, <2>2
<1>3. CASE StoreSnapshot
  <2>1. hand.device \in Devices /\ hand.snap \in 1..Stamps /\ UNCHANGED states
    BY <1>0, <1>3 DEF StoreSnapshot, Taken, PollInHand, managerVars
  <2>2. Listed' = Listed \cup {hand.device}
    BY <1>0, <1>3, <2>1, AddEffect DEF StoreSnapshot, Listed
  <2> QED
    BY <2>1, <2>2 DEF UpInv
<1>4. CASE PollFailed
  <2>1. hand.device \in Devices /\ ~hand.recorded /\ Listed' = Listed
    BY <1>0, <1>4 DEF PollFailed, Failed, Listed
  <2>2. states[d].status = "up"
    BY <1>0, <1>4, <2>1, FailureEffect DEF PollFailed
  <2> QED
    BY <2>1, <2>2 DEF UpInv
<1>5. CASE UNCHANGED <<states, byDevice>> /\ (UNCHANGED hand \/ hand = NoPoll)
  BY <1>5 DEF UpInv, Listed, NoPoll
<1>6. ASSUME NEW x \in Devices, TakeSnapshot(x)
      PROVE  UNCHANGED <<states, byDevice>> /\ hand = NoPoll
  BY <1>6 DEF TakeSnapshot, AtLoop, managerVars
<1>7. ASSUME FireAlert PROVE UNCHANGED <<states, byDevice, hand>>
  BY <1>7 DEF FireAlert, Fire, CallNotifier, NotifierReturns, serveVars
<1> QED
  BY <1>1, <1>2, <1>3, <1>4, <1>5, <1>6, <1>7
  DEF ServeNext, Poll, Page, Environment, BeginPass, BeginPage, PageLatest,
      PageStatus, DeviceComes, DeviceGoes, vars, managerVars, serveVars

LEMMA UpInit == ServeInit => UpInv
  BY DEF ServeInit, Init, ZeroState, UpInv

\* The devices that the pages leave out are only those that never answered.
THEOREM MissingNeverAnswered == ServeSpec => []OnlyUnansweredMissing
<1>1. Typed /\ UpInv /\ HistoryHoldsNewest => OnlyUnansweredMissing
  <2> SUFFICES ASSUME Typed, UpInv, HistoryHoldsNewest,
                      NEW d \in Devices, d \notin Listed, ~InHand(d)
               PROVE  stamp[d] = 0 /\ states[d].status # "up"
    BY DEF OnlyUnansweredMissing
  <2>1. StoreTypeOK /\ (hand.recorded => Taken)
    BY DEF Typed, ServeTypeOK, StoreTypeOK, Taken, NoPoll
  <2>2. LastStored(d) = 0
    BY <2>1, EntriesTyped DEF LastStored, Listed
  <2>3. stamp[d] = 0
    BY <2>2, HistoryByDevice DEF HistoryOf
  <2> QED
    BY <2>1, <2>3 DEF UpInv, InHand
<1> QED
  BY <1>1, UpInit, UpStep, HistoryInit, HistoryStep, ServeTypingInit,
     ServeTypingStep, PTL DEF ServeSpec
============================================================================
