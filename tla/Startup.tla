------------------------------ MODULE Startup ------------------------------
(***************************************************************************)
(* cmd/whatunga: from the command line and the file that ConfigParser      *)
(* reads to the pollers and notifiers of a process. A device is known by   *)
(* its place in cfg.devices. What the polls of watch and serve then do is  *)
(* the module Serve.                                                       *)
(***************************************************************************)
EXTENDS ConfigParser

CONSTANTS
    Subcommands,  \* those given, of {"status", "watch", "serve", "help"}
    NotPositive,  \* the durations that are zero or negative
    StartLines    \* bound: only files with at most so many lines are started

ASSUME StartAssumption ==
    /\ Subcommands \subseteq {"status", "watch", "serve", "help"}
    /\ NotPositive \subseteq Durations
    /\ StartLines \in Nat

VARIABLES
    subcommand,
    stage,      \* "load", "open" (or, of status, the polls), "running", then
                \* "exited", "failed" (log.Fatalf) or "panicked"
    next,       \* the device to set up, or the one that status polls
    pollers,    \* the map: of each name the device polled and its kind
    live,       \* the devices whose poller was made and is not closed
    notifiers,  \* what buildNotifiers returned
    shown,      \* the devices whose snapshot status printed
    refused     \* history: the devices whose poller could not be made

startVars == <<subcommand, stage, next, pollers, live, notifiers, shown, refused>>

StartInit ==
    /\ ConfigInit
    /\ subcommand = "unread"
    /\ stage = "load" /\ next = 1
    /\ pollers = << >> /\ live = {} /\ notifiers = << >>
    /\ shown = << >> /\ refused = {}

LoadStep == stage = "load" /\ ConfigNext /\ UNCHANGED startVars
----------------------------------------------------------------------------
Types == {"routeros", "ilo", "windows", "snmp-firewall"}
NotifierTypes == {"telegram", "email", "webhook"}

\* What newPollerFor and deviceKind look at: the word as the file has it.
TypeOf(i) == cfg.devices[i].type

\* newPollerFor: a router is dialled and logged in to, and a WinRM client may
\* not be made of what the file says; the other two are made at once.
CanBeMade(i) == TypeOf(i) \in {Text(t) : t \in Types} \cup {Unset}
CanFail(i) == TypeOf(i) \notin {Text("ilo"), Text("snmp-firewall")}

deviceKind(i) == IF TypeOf(i) = Unset THEN "routeros" ELSE TypeOf(i).text

\* The entries of the list that the switch has a case for, in their order.
buildNotifiers ==
    At(cfg.notifiers,
       {i \in DOMAIN cfg.notifiers :
           cfg.notifiers[i].type \in {Text(t) : t \in NotifierTypes}})

\* The process is gone, and the system closes what it had open.
Ends(how) == stage' = how /\ live' = {}

\* main: the file is read before the subcommand is looked at. serve then opens
\* the database, which may fail, and only serve makes its notifiers first.
Dispatch ==
    /\ stage = "load" /\ outcome # "reading" /\ Len(file) <= StartLines
    /\ IF outcome # "loaded"
         THEN Ends("failed") /\ UNCHANGED <<subcommand, notifiers>>
         ELSE /\ subcommand' \in Subcommands
              /\ \/ /\ subcommand' \in {"help", "serve"}
                    /\ Ends("failed") /\ UNCHANGED notifiers
                 \/ /\ subcommand' # "help"
                    /\ stage' = "open" /\ UNCHANGED live
                    /\ notifiers' = IF subcommand' = "serve"
                                    THEN buildNotifiers ELSE << >>
    /\ UNCHANGED <<vars, next, pollers, shown, refused>>

ToSetUp(i) == stage = "open" /\ i = next /\ i \in DOMAIN cfg.devices
AllSetUp == stage = "open" /\ next > Len(cfg.devices)
NameOf(i) == cfg.devices[i].name

\* Seeded fault: a name that is there already keeps its poller.
PutFirst(i) ==
    pollers' = [n \in DOMAIN pollers \cup {NameOf(i)} |->
                   IF n \in DOMAIN pollers THEN pollers[n]
                   ELSE [device |-> i, kind |-> deviceKind(i)]]

Put(i) ==
    pollers' = [n \in DOMAIN pollers \cup {NameOf(i)} |->
                   IF n = NameOf(i) THEN [device |-> i, kind |-> deviceKind(i)]
                   ELSE pollers[n]]

\* openPollers, of watch and serve: an entry of the map is replaced without
\* its poller being closed, and a device that fails is skipped.
OpenPoller(i) ==
    /\ ToSetUp(i) /\ subcommand # "status"
    /\ next' = i + 1
    /\ \/ /\ CanBeMade(i)
          /\ live' = live \cup {i}
          /\ Put(i)
          /\ UNCHANGED refused
       \/ /\ CanFail(i)
          /\ refused' = refused \cup {i}
          /\ UNCHANGED <<live, pollers>>
    /\ UNCHANGED <<vars, subcommand, stage, notifiers, shown>>

\* time.NewTicker panics unless its interval is positive: in watch this ends
\* main, in serve the goroutine that polls and with it the process.
StartTicker ==
    /\ AllSetUp /\ subcommand # "status"
    /\ notifiers' = IF subcommand = "watch" THEN buildNotifiers ELSE notifiers
    /\ IF cfg.settings["poll_interval"].text \in NotPositive
         THEN Ends("panicked")
         ELSE stage' = "running" /\ UNCHANGED live
    /\ UNCHANGED <<vars, subcommand, next, pollers, shown, refused>>

\* Seeded fault: the poller is closed only if the poll succeeds.
StatusPollsHolding(i) ==
    /\ ToSetUp(i) /\ i \in live
    /\ next' = i + 1
    /\ \/ shown' = Append(shown, i) /\ live' = live \ {i}
       \/ UNCHANGED <<shown, live>>
    /\ UNCHANGED <<vars, subcommand, stage, pollers, notifiers, refused>>

\* pollOnce, which runStatus calls for one device after the other: the poller
\* is made, asked and closed, and a failure of it only logged.
StatusOpens(i) ==
    /\ ToSetUp(i) /\ subcommand = "status" /\ i \notin live
    /\ \/ CanBeMade(i) /\ live' = live \cup {i} /\ UNCHANGED <<next, refused>>
       \/ CanFail(i) /\ next' = i + 1 /\ refused' = refused \cup {i}
             /\ UNCHANGED live
    /\ UNCHANGED <<vars, subcommand, stage, pollers, notifiers, shown>>

StatusPolls(i) ==
    /\ ToSetUp(i) /\ i \in live /\ subcommand = "status"
    /\ next' = i + 1
    /\ live' = live \ {i}
    /\ shown' \in {shown, Append(shown, i)}
    /\ UNCHANGED <<vars, subcommand, stage, pollers, notifiers, refused>>

StatusEnds ==
    /\ AllSetUp /\ subcommand = "status"
    /\ stage' = "exited"
    /\ UNCHANGED <<vars, subcommand, next, pollers, live, notifiers, shown,
                   refused>>

\* A listener of serve that fails: log.Fatalf, which runs no deferred call.
ServeFails ==
    /\ stage = "running" /\ subcommand = "serve"
    /\ Ends("failed")
    /\ UNCHANGED <<vars, subcommand, next, pollers, notifiers, shown, refused>>

StartNext ==
    \/ LoadStep
    \/ Dispatch
    \/ \E i \in DOMAIN cfg.devices :
          OpenPoller(i) \/ StatusOpens(i) \/ StatusPolls(i)
    \/ StartTicker
    \/ StatusEnds
    \/ ServeFails

StartSpec == StartInit /\ [][StartNext]_<<vars, startVars>>
----------------------------------------------------------------------------
\* What the file says of its devices, and which of them were set up.
Wanted == Written(file, "devices", WrittenDevice)
Told == Written(file, "notifiers", WrittenNotifier)
SetUp == DOMAIN Wanted \ refused

\* A process that polls has one poller for each name that the file gives to a
\* device it could set up. It is that of the last of them (two devices of one
\* name hide one another, and which of them is polled is decided here), of the
\* kind the file says or of a router if it says none. A type with a comment
\* after it is of no kind. Those told are the notifiers of the file that have
\* a type the program knows, in its order.
PollsTheFile ==
    stage = "running" =>
        /\ DOMAIN pollers = {Wanted[i].name : i \in SetUp}
        /\ \A n \in DOMAIN pollers :
              LET i == Max({j \in SetUp : Wanted[j].name = n}) IN
              /\ pollers[n].device = i
              /\ pollers[n].kind \in Types
              /\ \/ pollers[n].kind = Wanted[i].type.text
                 \/ Wanted[i].type = Unset /\ pollers[n].kind = "routeros"
        /\ notifiers = At(Told, {i \in DOMAIN Told :
                                    /\ ~Told[i].type.comment
                                    /\ Told[i].type.text \in NotifierTypes})

\* A poller that is open is polled, unless a later device of its name took its
\* place: only then is a session with a router held that nobody uses. "status"
\* has one open at a time, whatever fails, and none when it is done.
OpenIsPolled ==
    /\ \A i \in live : subcommand # "status" =>
          /\ NameOf(i) \in DOMAIN pollers
          /\ pollers[NameOf(i)].device >= i
          /\ pollers[NameOf(i)].device \in live
    /\ subcommand = "status" => live \subseteq {next}
    /\ stage = "exited" => live = {}
============================================================================
