------------------------------- MODULE Serve -------------------------------
(***************************************************************************)
(* cmd/whatunga serve: the goroutine that polls the devices one after the  *)
(* other and feeds AlertManager and SnapshotStore, beside a request that   *)
(* reads them both, lock by lock, and a process that may be killed and     *)
(* started again. Requests only read, so one of them at a time shows what  *)
(* any number of them can see.                                             *)
(*                                                                         *)
(* A snapshot is a stamp: the number of its poll, counted round from 1 to  *)
(* Stamps, so that the order of the last Stamps - 1 snapshots is known.    *)
(***************************************************************************)
EXTENDS AlertManager, SnapshotStore

CONSTANTS SessionDevices,  \* those of type routeros: one TCP session per run
          Stamps,          \* bound: stamps after which they start again
          PageKinds,       \* the pages asked for, of {"status", "dashboard"}
          Restarts         \* may the process be killed and started again?

ASSUME ServeAssumption ==
    /\ "none" \notin Devices
    /\ SessionDevices \subseteq Devices
    /\ Stamps \in Nat /\ Stamps > capacity
    /\ PageKinds \subseteq {"status", "dashboard"}
    /\ Restarts \in BOOLEAN

VARIABLES
    reachable,  \* the devices on the network that answer as they should
    sessions,   \* the SessionDevices whose session still works
    pollers,    \* openPollers: the devices with a Poller
    todo,       \* the devices the pass of pollAllInto has still to poll
    hand,       \* the poll the pass is busy with, or NoPoll
    stamp,      \* history: the stamp of the last snapshot taken of a device
    page        \* the request being answered

serveVars == <<reachable, sessions, pollers, todo, hand, stamp, page>>
vars == <<managerVars, byDevice, serveVars>>

NoPoll == [device |-> "none", snap |-> 0, recorded |-> FALSE]
NoPage == [kind |-> "none", listed |-> {}, todo |-> {}, latest |-> "none",
           rows |-> << >>]

\* openPollers: a routeros poller dials and logs in, and a device whose poller
\* cannot be set up is left out for the whole run; the other pollers are made
\* without any traffic.
Openable == {d \in Devices : d \in SessionDevices => d \in reachable}

ServeInit ==
    /\ Init /\ StoreInit
    /\ reachable \in SUBSET Devices
    /\ pollers = Openable
    /\ sessions = SessionDevices \cap reachable
    /\ todo = {} /\ hand = NoPoll
    /\ stamp = [d \in Devices |-> 0]
    /\ page = NoPage
----------------------------------------------------------------------------
(* The goroutine that polls.                                               *)

AtLoop == hand = NoPoll /\ ~Firing

\* The ticker: another pass over all the pollers.
BeginPass ==
    /\ AtLoop /\ todo = {}
    /\ todo' = pollers
    /\ UNCHANGED <<managerVars, byDevice, reachable, sessions, pollers, hand,
                   stamp, page>>

Answers(d) == d \in reachable /\ (d \in SessionDevices => d \in sessions)
NextStamp(s) == IF s = Stamps THEN 1 ELSE s + 1

\* poller.Snapshot of any device the range over the map comes to next. A poll
\* that fails may leave the session as it was (a router that refuses the command)
\* or broken, and no poller reconnects: broken, it stays so.
TakeSnapshot(d) ==
    /\ AtLoop /\ d \in todo
    /\ todo' = todo \ {d}
    /\ IF Answers(d)
         THEN /\ stamp' = [stamp EXCEPT ![d] = NextStamp(@)]
              /\ hand' = [device |-> d, snap |-> NextStamp(stamp[d]),
                          recorded |-> FALSE]
              /\ UNCHANGED sessions
         ELSE /\ hand' = [device |-> d, snap |-> 0, recorded |-> FALSE]
              /\ sessions' \in {sessions, sessions \ {d}}
              /\ UNCHANGED stamp
    /\ UNCHANGED <<managerVars, byDevice, reachable, pollers, page>>

Failed == hand # NoPoll /\ hand.snap = 0
Taken == hand # NoPoll /\ hand.snap # 0

\* Seeded fault: the first failure ends the pass (return for continue).
PollFailedGivesUp ==
    /\ Failed
    /\ RecordFailure(hand.device)
    /\ hand' = NoPoll
    /\ todo' = {}
    /\ UNCHANGED <<byDevice, reachable, sessions, pollers, stamp, page>>

\* Seeded fault: a failure drops what the history has of the device.
PollFailedForgetting ==
    /\ Failed
    /\ RecordFailure(hand.device)
    /\ hand' = NoPoll
    /\ byDevice' = [x \in DOMAIN byDevice \ {hand.device} |-> byDevice[x]]
    /\ UNCHANGED <<reachable, sessions, pollers, todo, stamp, page>>

PollFailed ==
    /\ Failed
    /\ RecordFailure(hand.device)
    /\ hand' = NoPoll
    /\ UNCHANGED <<byDevice, reachable, sessions, pollers, todo, stamp, page>>

\* Seeded fault: the snapshot is stored before the success is recorded.
PollStoredFirst ==
    /\ Taken /\ ~hand.recorded
    /\ Add(hand.device, hand.snap)
    /\ hand' = [hand EXCEPT !.recorded = TRUE]
    /\ UNCHANGED <<managerVars, reachable, sessions, pollers, todo, stamp, page>>

PollSucceeded ==
    /\ Taken /\ ~hand.recorded
    /\ RecordSuccess(hand.device)
    /\ hand' = [hand EXCEPT !.recorded = TRUE]
    /\ UNCHANGED <<byDevice, reachable, sessions, pollers, todo, stamp, page>>

\* history.Add, once RecordSuccess has returned and so its alerts are out.
StoreSnapshot ==
    /\ Taken /\ hand.recorded /\ ~Firing
    /\ Add(hand.device, hand.snap)
    /\ hand' = NoPoll
    /\ UNCHANGED <<managerVars, reachable, sessions, pollers, todo, stamp, page>>

FireAlert == Fire /\ UNCHANGED <<byDevice, serveVars>>
----------------------------------------------------------------------------
(* A request for /status or for the dashboard. Each read of the history or *)
(* of the Manager takes its lock anew.                                     *)

BeginPage(kind) ==
    /\ page.todo = {}
    /\ page' = [kind |-> kind, listed |-> Listed, todo |-> Listed,
                latest |-> "none", rows |-> << >>]
    /\ UNCHANGED <<managerVars, byDevice, reachable, sessions, pollers, todo,
                   hand, stamp>>

AddRow(d, shown) ==
    [page EXCEPT !.todo = @ \ {d}, !.latest = "none",
                 !.rows = [x \in DOMAIN @ \cup {d} |->
                              IF x = d THEN shown ELSE @[x]]]

\* history.Latest: a device without data is left out of the page. The
\* dashboard shows the snapshot, whichever it is; /status asks the Manager.
PageLatest(d) ==
    /\ d \in page.todo /\ page.latest = "none"
    /\ page' = IF ~HasLatest(d) THEN [page EXCEPT !.todo = @ \ {d}]
               ELSE IF page.kind = "dashboard" THEN AddRow(d, "snapshot")
               ELSE [page EXCEPT !.latest = d]
    /\ UNCHANGED <<managerVars, byDevice, reachable, sessions, pollers, todo,
                   hand, stamp>>

\* manager.Status
PageStatus(d) ==
    /\ page.latest = d
    /\ page' = AddRow(d, states[d].status)
    /\ UNCHANGED <<managerVars, byDevice, reachable, sessions, pollers, todo,
                   hand, stamp>>
----------------------------------------------------------------------------
(* The devices, the network and the operating system.                      *)

DeviceComes(d) ==
    /\ d \notin reachable
    /\ reachable' = reachable \cup {d}
    /\ UNCHANGED <<managerVars, byDevice, sessions, pollers, todo, hand, stamp,
                   page>>

\* A device that goes away may take its session with it (a reboot) or not.
DeviceGoes(d) ==
    /\ d \in reachable
    /\ reachable' = reachable \ {d}
    /\ sessions' \in {sessions, sessions \ {d}}
    /\ UNCHANGED <<managerVars, byDevice, pollers, todo, hand, stamp, page>>

\* log.Fatalf in any goroutine, or the service manager: all that serve knows
\* is in memory and lost; what the notifiers were told is not.
Restart ==
    /\ Restarts
    /\ states' = [d \in Devices |-> ZeroState]
    /\ event' = NoEvent /\ next' = NotifierCount + 1 /\ calling' = FALSE
    /\ recent' = [d \in Devices |-> [i \in 1..threshold |-> "none"]]
    /\ byDevice' = << >>
    /\ pollers' = Openable
    /\ sessions' = SessionDevices \cap reachable
    /\ todo' = {} /\ hand' = NoPoll
    /\ stamp' = [d \in Devices |-> 0]
    /\ page' = NoPage
    /\ UNCHANGED <<now, told, reachable>>

Poll ==
    \/ BeginPass
    \/ \E d \in Devices : TakeSnapshot(d)
    \/ PollFailed
    \/ PollSucceeded
    \/ StoreSnapshot
    \/ FireAlert

Page ==
    \/ \E kind \in PageKinds : BeginPage(kind)
    \/ \E d \in Devices : PageLatest(d) \/ PageStatus(d)

Environment ==
    \/ \E d \in Devices : DeviceComes(d) \/ DeviceGoes(d)
    \/ Restart

ServeNext == Poll \/ Page \/ Environment

ServeSpec == ServeInit /\ [][ServeNext]_vars

\* The poll goroutine runs, the next tick comes, and a poll ends: each poller
\* bounds its requests with pollTimeout, but for the established session of a
\* router, where a dead peer is found out by the keep-alive of the connection.
\* Of fire, what AlertManager says. Nothing makes a device come or go.
PollStep ==
    \/ BeginPass
    \/ \E d \in Devices : TakeSnapshot(d)
    \/ PollFailed
    \/ PollSucceeded
    \/ StoreSnapshot

FairServeSpec ==
    /\ ServeSpec
    /\ WF_vars(PollStep)
    /\ WF_vars(CallNotifier /\ UNCHANGED <<byDevice, serveVars>>)
    /\ \A n \in Notifiers \ Emails :
          WF_vars(next = n /\ FireAlert)
----------------------------------------------------------------------------
PollInHand ==
    [device : Devices, snap : 0..Stamps, recorded : BOOLEAN]

\* The variables keep their types; a poll recorded but still in hand is one
\* that succeeded, and fire runs for the poll in hand or for a failed one.
ServeTypeOK ==
    /\ TypeOK
    /\ DOMAIN byDevice \subseteq Devices
    /\ \A d \in DOMAIN byDevice :
          byDevice[d] \in Seq(1..Stamps) /\ Len(byDevice[d]) \in 1..capacity
    /\ reachable \subseteq Devices
    /\ sessions \subseteq SessionDevices
    /\ pollers \subseteq Devices
    /\ todo \subseteq pollers
    /\ hand \in PollInHand \cup {NoPoll}
    /\ hand.recorded => hand.snap # 0
    /\ Firing /\ hand # NoPoll => hand.recorded /\ event.device = hand.device
    /\ stamp \in [Devices -> 0..Stamps]
    /\ page.listed \subseteq Devices
    /\ page.todo \subseteq page.listed
    /\ page.latest \in page.todo \cup {"none"}
    /\ DOMAIN page.rows \subseteq Devices

InHand(d) == Taken /\ hand.device = d
LastStored(d) == IF HasLatest(d) THEN Latest(d) ELSE 0

\* The history of a device is an unbroken run of its snapshots, oldest first,
\* up to the last one taken (the one in hand excepted), and none was dropped
\* from it before `capacity` were there.
HistoryHoldsNewest ==
    \A d \in Devices :
        LET kept == All(d) IN
        /\ stamp[d] = IF InHand(d) THEN NextStamp(LastStored(d))
                                  ELSE LastStored(d)
        /\ \A i \in 1..(Len(kept) - 1) : kept[i + 1] = NextStamp(kept[i])
        /\ Len(kept) < capacity => LastStored(d) = Len(kept)

\* /status takes the names from the history and the states from the Manager,
\* under other locks and at other times; still it never shows a device whose
\* state the Manager does not know, since a poll is recorded before its
\* snapshot is stored.
NoUnknownShown ==
    page.kind = "status"
        => \A d \in DOMAIN page.rows : page.rows[d] \in {"up", "down"}

\* Both pages take their devices from the history. One that they leave out has
\* not answered since the process started, the answer in hand excepted: it may
\* be down and everyone have been told so, but it is never one that is up.
OnlyUnansweredMissing ==
    \A d \in Devices \ Listed :
        ~InHand(d) => stamp[d] = 0 /\ states[d].status # "up"

\* A page that is complete has a row for every device it set out to show: no
\* device is lost between the read of the names and the reads of the data.
PageIsComplete ==
    page.todo = {} => DOMAIN page.rows = page.listed

\* "Recovered" is only ever said to a notifier that last heard "down" of the
\* device, also when the process was killed while it was telling them.
RecoveryFollowsDown ==
    \A n \in Notifiers, d \in Devices :
        Pending(n, d) /\ event.status = "up" => told[n][d] = "down"

\* A device with a poller that stops answering for good is in the end known
\* to be down by every notifier (README: "notify you when a device goes
\* down"), whatever the other devices do.
DownIsAlerted ==
    \A d \in Devices, n \in Notifiers :
        <>[](d \in pollers /\ ~Answers(d)) => <>[](told[n][d] = "down")

\* A device whose poller gets answers again is in the end known by every
\* notifier to have recovered.
AnswerIsAlerted ==
    \A d \in Devices, n \in Notifiers :
        <>[](d \in pollers /\ Answers(d)) => <>[](told[n][d] # "down")

\* Every device with a poller is polled over and over: one that fails does
\* not keep the goroutine from the rest.
EveryoneIsPolled ==
    \A d \in Devices : [](d \in pollers => <>(hand.device = d))

\* README: "notify you when a device goes down, and again when it recovers".
\* Recovered is being reachable again; the router's session is not reopened.
RecoveryIsAlerted ==
    \A d \in Devices, n \in Notifiers :
        <>[](d \in pollers /\ d \in reachable) => <>[](told[n][d] # "down")
============================================================================
