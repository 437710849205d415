--------------------------- MODULE Startup_proofs ---------------------------
(***************************************************************************)
(* Theorems about Startup, for files of any lines and any length: that the *)
(* pollers are those the file asks for, and that none that is open is      *)
(* forgotten.                                                              *)
(***************************************************************************)
EXTENDS Startup, ConfigParser_proofs

\* What the program does with a file begins with reading it.
LEMMA StartLoads == StartSpec => ConfigSpec
<1>1. StartInit => ConfigInit
  BY Zenon DEF StartInit
<1>2. [StartNext]_<<vars, startVars>> => [ConfigNext]_vars
  BY Zenon DEF StartNext, LoadStep, Dispatch, OpenPoller, StatusOpens,
     StatusPolls, StartTicker, StatusEnds, ServeFails
<1> QED
  BY <1>1, <1>2, PTL DEF StartSpec, ConfigSpec

\* The same of the process that starts: the settings it goes by are the file's.
THEOREM StartedAsWritten == StartSpec => []SettingsAsWritten
BY StartLoads, SettingsRead, PTL

\* Nothing is open while the file is read; of a name's pollers the last is in
\* the map, and one that is open comes before the device to set up next.
StartInv ==
    /\ next \in Nat
    /\ live \subseteq DOMAIN cfg.devices
    /\ stage = "load" => live = {} /\ subcommand = "unread"
    /\ subcommand # "status" =>
          /\ \A i \in live : i < next
          /\ \A i \in live : NameOf(i) \in DOMAIN pollers
          /\ \A i \in live : pollers[NameOf(i)].device >= i
          /\ \A i \in live : pollers[NameOf(i)].device \in live
    /\ subcommand = "status" => live \subseteq {next}
    /\ stage = "exited" => live = {}

LEMMA StartInvImplies == StartInv => OpenIsPolled
BY Zenon DEF StartInv, OpenIsPolled

LEMMA StartInitially == StartInit => StartInv
<1> SUFFICES ASSUME StartInit PROVE StartInv
  OBVIOUS
<1>1. next = 1 /\ live = {} /\ subcommand = "unread" /\ stage = "load"
  BY Zenon DEF StartInit
<1> QED
  BY <1>1 DEF StartInv

\* Where nothing is open, nothing is left to show but where the process is.
LEMMA NothingOpen ==
    ASSUME StartInv, next' = next, live' = {}, stage' # "load"
    PROVE  StartInv'
BY DEF StartInv

LEMMA StartStep ==
    ASSUME StartInv, IsSeq(cfg.devices), [StartNext]_<<vars, startVars>>
    PROVE  StartInv'
<1>1. CASE LoadStep
  <2>1. /\ stage = "load" /\ stage' = stage /\ live' = live /\ next' = next
        /\ subcommand' = subcommand
    BY <1>1, Zenon DEF LoadStep, startVars
  <2>2. live = {} /\ subcommand = "unread" /\ next \in Nat
    BY <2>1 DEF StartInv
  <2> QED
    BY <2>1, <2>2 DEF StartInv
<1>2. CASE Dispatch
  <2>1. /\ stage = "load" /\ next' = next /\ stage' \in {"failed", "open"}
        /\ (live' = {} \/ live' = live)
    BY <1>2 DEF Dispatch, Ends
  <2>2. live = {}
    BY <2>1 DEF StartInv
  <2>3. live' = {}
    BY <2>1, <2>2
  <2> QED
    BY <2>1, <2>3, NothingOpen
<1>3. ASSUME NEW i \in DOMAIN cfg.devices, OpenPoller(i)
      PROVE  StartInv'
  <2>1. /\ subcommand # "status" /\ subcommand' = subcommand
        /\ stage = "open" /\ stage' = stage /\ cfg' = cfg
        /\ i = next /\ next' = i + 1
    BY <1>3, Zenon DEF OpenPoller, ToSetUp, vars
  <2>2. CASE live' = live \cup {i} /\ Put(i)
    <3> DEFINE name == NameOf(i)
    <3>1. /\ DOMAIN pollers' = DOMAIN pollers \cup {name}
          /\ pollers'[name].device = i
          /\ \A n \in DOMAIN pollers : n # name => pollers'[n] = pollers[n]
      BY <2>2 DEF Put
    <3>2. \A j : NameOf(j)' = NameOf(j)
      BY <2>1 DEF NameOf
    <3> HIDE DEF name
    <3>3. /\ next \in Nat /\ live \subseteq DOMAIN cfg.devices
          /\ \A j \in live : j < next
          /\ \A j \in live : NameOf(j) \in DOMAIN pollers
          /\ \A j \in live : pollers[NameOf(j)].device >= j
          /\ \A j \in live : pollers[NameOf(j)].device \in live
      BY <2>1, Zenon DEF StartInv
    <3>4. DOMAIN cfg.devices = 1..Len(cfg.devices)
      BY SeqLength
    <3>5. \A j \in live' : j < next' /\ i >= j
      BY <2>1, <2>2, <3>3, <3>4
    <3>6. ASSUME NEW j \in live'
          PROVE  /\ NameOf(j)' \in DOMAIN pollers'
                 /\ pollers'[NameOf(j)'].device >= j
                 /\ pollers'[NameOf(j)'].device \in live'
      <4>1. CASE NameOf(j) = name
        BY <2>2, <3>1, <3>2, <3>5, <4>1
      <4>2. CASE NameOf(j) # name
        <5>1. j \in live
          BY <2>2, <4>2 DEF name
        <5> QED
          BY <2>2, <3>1, <3>2, <3>3, <4>2, <5>1
      <4> QED
        BY <4>1, <4>2
    <3>7. next' \in Nat /\ live' \subseteq DOMAIN cfg'.devices
      BY <2>1, <2>2, <3>3
    <3> QED
      BY <2>1, <3>5, <3>6, <3>7 DEF StartInv
  <2>3. CASE live' = live /\ pollers' = pollers
    <3>1. \A j : NameOf(j)' = NameOf(j)
      BY <2>1 DEF NameOf
    <3>2. DOMAIN cfg.devices = 1..Len(cfg.devices)
      BY SeqLength
    <3> QED
      BY <2>1, <2>3, <3>1, <3>2 DEF StartInv
  <2> QED
    BY <1>3, <2>2, <2>3, Zenon DEF OpenPoller
<1>4. ASSUME NEW i \in DOMAIN cfg.devices, StatusOpens(i)
      PROVE  StartInv'
  <2>1. /\ subcommand = "status" /\ subcommand' = subcommand
        /\ stage = "open" /\ stage' = stage /\ cfg' = cfg /\ i = next
        /\ i \notin live
    BY <1>4, Zenon DEF StatusOpens, ToSetUp, vars
  <2>2. \/ live' = live \cup {i} /\ next' = next
        \/ live' = live /\ next' = i + 1
    BY <1>4, Zenon DEF StatusOpens
  <2>3. next \in Nat /\ live \subseteq DOMAIN cfg.devices /\ live \subseteq {next}
    BY <2>1, Zenon DEF StartInv
  <2>4. /\ next' \in Nat /\ live' \subseteq DOMAIN cfg'.devices
        /\ live' \subseteq {next'}
    BY <2>1, <2>2, <2>3
  <2> QED
    BY <2>1, <2>4 DEF StartInv
<1>5. ASSUME NEW i \in DOMAIN cfg.devices, StatusPolls(i)
      PROVE  StartInv'
  <2>1. /\ subcommand = "status" /\ subcommand' = subcommand
        /\ stage = "open" /\ stage' = stage /\ cfg' = cfg /\ i = next
        /\ live' = live \ {i} /\ next' = i + 1
    BY <1>5, Zenon DEF StatusPolls, ToSetUp, vars
  <2>2. next \in Nat /\ live \subseteq {next}
    BY <2>1, Zenon DEF StartInv
  <2>3. live' = {} /\ next' \in Nat
    BY <2>1, <2>2
  <2> QED
    BY <2>1, <2>3 DEF StartInv
<1>6. CASE StartTicker
  <2>1. /\ subcommand # "status" /\ subcommand' = subcommand
        /\ next' = next /\ cfg' = cfg /\ pollers' = pollers
        /\ \/ stage' = "panicked" /\ live' = {}
           \/ stage' = "running" /\ live' = live
    BY <1>6 DEF StartTicker, Ends, vars
  <2>2. CASE live' = {}
    BY <2>1, <2>2, NothingOpen
  <2>3. CASE stage' = "running" /\ live' = live
    <3>1. \A j : NameOf(j)' = NameOf(j)
      BY <2>1 DEF NameOf
    <3> QED
      BY <2>1, <2>3, <3>1 DEF StartInv
  <2> QED
    BY <2>1, <2>2, <2>3
<1>7. CASE StatusEnds
  <2>1. /\ subcommand = "status" /\ next > Len(cfg.devices) /\ next' = next
        /\ live' = live /\ stage' = "exited"
    BY <1>7, Zenon DEF StatusEnds, AllSetUp
  <2>2. DOMAIN cfg.devices = 1..Len(cfg.devices) /\ Len(cfg.devices) \in Nat
    BY SeqLength
  <2>3. /\ live \subseteq DOMAIN cfg.devices /\ live \subseteq {next}
        /\ next \in Nat
    BY <2>1, Zenon DEF StartInv
  <2>4. live' = {}
    BY <2>1, <2>2, <2>3
  <2> QED
    BY <2>1, <2>4, NothingOpen
<1>8. CASE ServeFails
  <2>1. next' = next /\ live' = {} /\ stage' = "failed"
    BY <1>8, Zenon DEF ServeFails, Ends
  <2> QED
    BY <2>1, NothingOpen
<1>9. CASE UNCHANGED <<vars, startVars>>
  BY <1>9, Zenon DEF vars, startVars, StartInv, NameOf
<1> QED
  BY <1>1, <1>2, <1>3, <1>4, <1>5, <1>6, <1>7, <1>8, <1>9, Zenon DEF StartNext

LEMMA DevicesAreListed == ParserInv => IsSeq(cfg.devices)
BY Zenon DEF ParserInv, CfgShape

\* For files of any devices, failures and subcommands: a poller that is open is
\* polled, unless a later device of its name took its place, and "status" has
\* at most one open, and none in the end.
THEOREM OpenArePolled == StartSpec => []OpenIsPolled
<1>1. StartSpec => []ParserInv
  BY StartLoads, ParserInductive, PTL
<1>2. StartInv /\ ParserInv /\ [StartNext]_<<vars, startVars>> => StartInv'
  BY StartStep, DevicesAreListed
<1> QED
  BY <1>1, <1>2, StartInitially, StartInvImplies, PTL DEF StartSpec
----------------------------------------------------------------------------
(* The pollers a process polls.                                            *)

\* The devices that were set up so far, and those of a name.
Made == (1..(next - 1)) \ refused
OfName(n) == {j \in Made : NameOf(j) = n}

PollersAre ==
    /\ DOMAIN pollers = {NameOf(i) : i \in Made}
    /\ \A n \in DOMAIN pollers :
          /\ pollers[n] = [device |-> Max(OfName(n)),
                           kind |-> deviceKind(Max(OfName(n)))]
          /\ CanBeMade(Max(OfName(n)))

\* Every device is set up once, in order; a name has the poller of the last
\* device of that name that could be made, and the notifiers are made of a
\* file that has loaded.
PollInv ==
    /\ next \in 1..(Len(cfg.devices) + 1)
    /\ refused \subseteq 1..(next - 1)
    /\ stage = "load" => next = 1 /\ pollers = << >> /\ subcommand = "unread"
    /\ stage \in {"open", "running"} => outcome = "loaded"
    /\ stage \in {"open", "running"} /\ subcommand # "status" => PollersAre
    /\ stage = "open" /\ subcommand = "serve" => notifiers = buildNotifiers
    /\ stage = "running" =>
          /\ next > Len(cfg.devices) /\ subcommand \in {"watch", "serve"}
          /\ notifiers = buildNotifiers
    /\ stage = "open" => subcommand \in {"status", "watch", "serve"}

LEMMA PollInitially == StartInit => PollInv
<1> SUFFICES ASSUME StartInit PROVE PollInv
  OBVIOUS
<1>1. /\ next = 1 /\ pollers = << >> /\ subcommand = "unread" /\ stage = "load"
      /\ refused = {}
  BY Zenon DEF StartInit
<1>2. cfg = [settings |-> Defaults, devices |-> << >>, notifiers |-> << >>]
  BY Zenon DEF StartInit, ConfigInit
<1>3. Len(cfg.devices) = 0
  BY <1>2
<1> QED
  BY <1>1, <1>3 DEF PollInv

\* A device that is set up becomes that of its name, and no other's.
LEMMA PutPolls ==
    ASSUME NEW i \in Nat \ {0}, next = i, refused \subseteq 1..(i - 1),
           PollersAre, Put(i), CanBeMade(i), next' = i + 1, refused' = refused,
           cfg' = cfg
    PROVE  PollersAre'
<1>0. PICK name : name = NameOf(i)
  BY Zenon
<1>1. i \in Nat /\ i \in 1..i /\ i \notin refused /\ (1..(i + 1 - 1)) = 1..i
      /\ (1..i) \ {i} = 1..(i - 1) /\ i \notin 1..(i - 1)
  <2>1. \A j \in refused : j \in 1..(i - 1)
    BY Zenon
  <2> QED
    BY <2>1
<1>2. Made' = Made \cup {i} /\ i \notin Made /\ Made' \in SUBSET (1..i)
  BY <1>1 DEF Made
<1>3. /\ \A j : NameOf(j)' = NameOf(j)
      /\ \A j : deviceKind(j)' = deviceKind(j)
      /\ \A j : CanBeMade(j)' = CanBeMade(j)
  BY Zenon DEF NameOf, deviceKind, CanBeMade, TypeOf
<1>4. /\ DOMAIN pollers' = DOMAIN pollers \cup {name}
      /\ pollers'[name] = [device |-> i, kind |-> deviceKind(i)]
      /\ \A n \in DOMAIN pollers : n # name => pollers'[n] = pollers[n]
  BY <1>0 DEF Put
<1>5. DOMAIN pollers = {NameOf(j) : j \in Made}
  BY Zenon DEF PollersAre
<1>6. DOMAIN pollers' = {NameOf(j) : j \in Made'}
  BY <1>0, <1>2, <1>4, <1>5, Zenon
<1>7. Max(OfName(name)') = i
  <2>1. OfName(name)' = {j \in Made' : NameOf(j) = name}
    BY <1>3, Zenon DEF OfName
  <2> DEFINE T == {j \in Made' : NameOf(j) = name}
  <2>2. T \in SUBSET (1..i) /\ i \in T
    BY <1>0, <1>2, Zenon
  <2> HIDE DEF T
  <2>3. Max(T) = i
    BY <1>1, <2>2, GreatestEquals
  <2> QED
    BY <2>1, <2>3 DEF T
<1>8. \A n : n # name => OfName(n)' = OfName(n)
  BY <1>0, <1>2, <1>3, Zenon DEF OfName
<1>9. \A n \in DOMAIN pollers : /\ pollers[n] = [device |-> Max(OfName(n)),
                                            kind |-> deviceKind(Max(OfName(n)))]
                                /\ CanBeMade(Max(OfName(n)))
  BY Zenon DEF PollersAre
<1>10. ASSUME NEW n \in DOMAIN pollers'
       PROVE  /\ pollers'[n] = [device |-> Max(OfName(n)'),
                                kind |-> deviceKind(Max(OfName(n)'))]
              /\ CanBeMade(Max(OfName(n)'))
  <2>1. CASE n = name
    <3>1. Max(OfName(n)') = i
      BY <1>7, <2>1, Zenon
    <3> QED
      BY <1>4, <2>1, <3>1, Zenon
  <2>2. CASE n # name
    BY <1>4, <1>8, <1>9, <1>10, <2>2, Zenon
  <2> QED
    BY <2>1, <2>2
<1> QED
  BY <1>3, <1>6, <1>10, Zenon DEF PollersAre

LEMMA RefusedPolls ==
    ASSUME next \in Nat \ {0}, refused \subseteq 1..(next - 1), PollersAre,
           pollers' = pollers, next' = next + 1, refused' = refused \cup {next},
           cfg' = cfg
    PROVE  PollersAre'
<1>1. Made' = Made
  <2>1. (1..(next + 1 - 1)) \ (refused \cup {next}) = (1..(next - 1)) \ refused
    OBVIOUS
  <2> QED
    BY <2>1 DEF Made
<1> QED
  BY <1>1, Zenon DEF PollersAre, OfName, NameOf, deviceKind, CanBeMade, TypeOf

\* What remains to show of a process that has stopped, and of one that sets up
\* its devices.
LEMMA StoppedPolls ==
    ASSUME PollInv, cfg' = cfg, next' = next, refused' = refused,
           stage' \in {"failed", "panicked", "exited"}
    PROVE  PollInv'
BY DEF PollInv

LEMMA SettingUpPolls ==
    ASSUME PollInv, IsSeq(cfg.devices), cfg' = cfg, outcome' = outcome,
           stage = "open", stage' = "open", subcommand' = subcommand,
           NEW i \in DOMAIN cfg.devices, i = next, notifiers' = notifiers,
           \/ next' = next /\ refused' = refused
           \/ next' = i + 1 /\ refused' \in {refused, refused \cup {i}},
           subcommand # "status" => PollersAre'
    PROVE  PollInv'
<1>1. /\ next \in 1..(Len(cfg.devices) + 1) /\ refused \subseteq 1..(next - 1)
      /\ outcome = "loaded"
      /\ subcommand = "serve" => notifiers = buildNotifiers
      /\ subcommand \in {"status", "watch", "serve"}
  BY DEF PollInv
<1>2. DOMAIN cfg.devices = 1..Len(cfg.devices) /\ Len(cfg.devices) \in Nat
  BY SeqLength
<1>3. /\ next' \in 1..(Len(cfg'.devices) + 1)
      /\ refused' \subseteq 1..(next' - 1)
  <2>1. CASE next' = next /\ refused' = refused
    BY <1>1, <2>1
  <2>2. CASE next' = i + 1 /\ refused' \in {refused, refused \cup {i}}
    <3>1. i \in 1..Len(cfg.devices) /\ i + 1 \in 1..(Len(cfg.devices) + 1)
          /\ i \in 1..(i + 1 - 1)
      BY <1>2
    <3>2. \A j \in refused : j \in 1..(i - 1)
      BY <1>1, Zenon
    <3>3. \A j \in refused : j \in 1..(i + 1 - 1)
      BY <3>1, <3>2
    <3>4. refused' \subseteq 1..(i + 1 - 1)
      BY <2>2, <3>1, <3>3
    <3> QED
      BY <2>2, <3>1, <3>4
  <2> QED
    BY <2>1, <2>2
<1>4. buildNotifiers' = buildNotifiers
  BY Zenon DEF buildNotifiers
<1> QED
  BY <1>1, <1>3, <1>4 DEF PollInv

LEMMA PollersStay ==
    ASSUME cfg' = cfg, next' = next, pollers' = pollers, refused' = refused
    PROVE  (PollersAre => PollersAre') /\ buildNotifiers' = buildNotifiers
<1>1. buildNotifiers' = buildNotifiers
  BY Zenon DEF buildNotifiers
<1>2. Made' = Made
  BY Zenon DEF Made
<1>3. \A n : OfName(n)' = OfName(n)
  BY <1>2, Zenon DEF OfName, NameOf
<1>4. {NameOf(i) : i \in Made}' = {NameOf(i) : i \in Made}
  BY <1>2, Zenon DEF NameOf
<1>5. \A n : /\ Max(OfName(n))' = Max(OfName(n))
             /\ deviceKind(Max(OfName(n)))' = deviceKind(Max(OfName(n)))
             /\ CanBeMade(Max(OfName(n)))' = CanBeMade(Max(OfName(n)))
  BY <1>3, Zenon DEF deviceKind, CanBeMade, TypeOf
<1>6. ASSUME PollersAre PROVE PollersAre'
  <2>1. DOMAIN pollers' = {NameOf(i) : i \in Made}'
    BY <1>4, <1>6, Zenon DEF PollersAre
  <2>2. ASSUME NEW n \in DOMAIN pollers'
        PROVE  /\ pollers'[n] = [device |-> Max(OfName(n))',
                                 kind |-> deviceKind(Max(OfName(n)))']
               /\ CanBeMade(Max(OfName(n)))'
    <3>1. /\ pollers[n] = [device |-> Max(OfName(n)),
                           kind |-> deviceKind(Max(OfName(n)))]
          /\ CanBeMade(Max(OfName(n)))
      BY <1>6, <2>2, Zenon DEF PollersAre
    <3> QED
      BY <1>5, <3>1, Zenon
  <2> QED
    BY <2>1, <2>2, Zenon DEF PollersAre
<1> QED
  BY <1>1, <1>6

LEMMA PollStep ==
    ASSUME PollInv, IsSeq(cfg.devices), IsSeq(cfg'.devices),
           [StartNext]_<<vars, startVars>>
    PROVE  PollInv'
<1>1. CASE LoadStep
  <2>1. /\ stage = "load" /\ stage' = stage /\ next' = next
        /\ subcommand' = subcommand /\ pollers' = pollers /\ refused' = refused
    BY <1>1, Zenon DEF LoadStep, startVars
  <2>2. next = 1 /\ pollers = << >> /\ subcommand = "unread"
        /\ refused \subseteq 1..(next - 1)
    BY <2>1 DEF PollInv
  <2>3. next' \in 1..(Len(cfg'.devices) + 1)
    BY <2>1, <2>2, SeqLength
  <2> QED
    BY <2>1, <2>2, <2>3 DEF PollInv
<1>2. CASE Dispatch
  <2>1. /\ stage = "load" /\ cfg' = cfg /\ outcome' = outcome
        /\ next' = next /\ pollers' = pollers /\ refused' = refused
        /\ \/ stage' = "failed"
           \/ /\ stage' = "open" /\ outcome = "loaded"
              /\ subcommand' \in Subcommands /\ subcommand' # "help"
              /\ subcommand' = "serve" => notifiers' = buildNotifiers
    BY <1>2 DEF Dispatch, Ends, vars
  <2>2. CASE stage' = "failed"
    BY <2>1, <2>2, StoppedPolls
  <2>3. CASE stage' = "open"
    <3>1. next = 1 /\ pollers = << >> /\ refused \subseteq 1..(next - 1)
          /\ next \in 1..(Len(cfg.devices) + 1)
      BY <2>1 DEF PollInv
    <3>2. PollersAre'
      <4>1. DOMAIN pollers' = {} /\ 1..(next' - 1) = {}
        BY <2>1, <3>1
      <4> QED
        BY <4>1, Zenon DEF PollersAre, Made
    <3>3. subcommand' \in {"status", "watch", "serve"}
      BY <2>1, <2>3, StartAssumption
    <3>4. buildNotifiers' = buildNotifiers
      BY <2>1, Zenon DEF buildNotifiers
    <3> QED
      BY <2>1, <2>3, <3>1, <3>2, <3>3, <3>4 DEF PollInv
  <2> QED
    BY <2>1, <2>2, <2>3
<1>3. ASSUME NEW i \in DOMAIN cfg.devices, OpenPoller(i)
      PROVE  PollInv'
  <2>1. /\ subcommand # "status" /\ subcommand' = subcommand
        /\ stage = "open" /\ stage' = "open" /\ cfg' = cfg /\ outcome' = outcome
        /\ i = next /\ next' = i + 1 /\ notifiers' = notifiers
        /\ \/ CanBeMade(i) /\ Put(i) /\ refused' = refused
           \/ refused' = refused \cup {i} /\ pollers' = pollers
    BY <1>3, Zenon DEF OpenPoller, ToSetUp, vars
  <2>2. /\ next \in Nat \ {0} /\ refused \subseteq 1..(next - 1) /\ PollersAre
    <3>1. next \in 1..(Len(cfg.devices) + 1) /\ refused \subseteq 1..(next - 1)
          /\ PollersAre
      BY <2>1 DEF PollInv
    <3> QED
      BY <3>1, SeqLength
  <2>3. PollersAre'
    <3>1. CASE CanBeMade(i) /\ Put(i) /\ refused' = refused
      BY <2>1, <2>2, <3>1, PutPolls
    <3>2. CASE refused' = refused \cup {i} /\ pollers' = pollers
      BY <2>1, <2>2, <3>2, RefusedPolls
    <3> QED
      BY <2>1, <3>1, <3>2
  <2>4. refused' \in {refused, refused \cup {i}}
    BY <2>1, Zenon
  <2> QED
    BY <2>1, <2>3, <2>4, SettingUpPolls
<1>4. ASSUME NEW i \in DOMAIN cfg.devices, StatusOpens(i) \/ StatusPolls(i)
      PROVE  PollInv'
  <2>1. /\ subcommand = "status" /\ subcommand' = subcommand
        /\ stage = "open" /\ stage' = "open" /\ cfg' = cfg /\ outcome' = outcome
        /\ i = next /\ notifiers' = notifiers
        /\ \/ next' = next /\ refused' = refused
           \/ next' = i + 1 /\ refused' = refused \cup {i}
           \/ next' = i + 1 /\ refused' = refused
    BY <1>4, Zenon DEF StatusOpens, StatusPolls, ToSetUp, vars
  <2>2. \/ next' = next /\ refused' = refused
        \/ next' = i + 1 /\ refused' \in {refused, refused \cup {i}}
    BY <2>1, Zenon
  <2> QED
    BY <2>1, <2>2, SettingUpPolls
<1>5. CASE StartTicker
  <2>1. /\ subcommand # "status" /\ subcommand' = subcommand /\ stage = "open"
        /\ next' = next /\ cfg' = cfg /\ outcome' = outcome /\ pollers' = pollers
        /\ refused' = refused /\ next > Len(cfg.devices)
        /\ notifiers' = IF subcommand = "watch" THEN buildNotifiers ELSE notifiers
        /\ stage' = "panicked" \/ stage' = "running"
    BY <1>5 DEF StartTicker, AllSetUp, Ends, vars
  <2>2. CASE stage' = "panicked"
    BY <2>1, <2>2, StoppedPolls
  <2>3. CASE stage' = "running"
    <3>1. /\ next \in 1..(Len(cfg.devices) + 1) /\ refused \subseteq 1..(next - 1)
          /\ outcome = "loaded" /\ PollersAre
          /\ subcommand = "serve" => notifiers = buildNotifiers
          /\ subcommand \in {"watch", "serve"}
      BY <2>1 DEF PollInv
    <3>2. PollersAre' /\ buildNotifiers' = buildNotifiers
      BY <2>1, <3>1, PollersStay
    <3>3. notifiers' = buildNotifiers
      BY <2>1, <3>1
    <3> QED
      BY <2>1, <2>3, <3>1, <3>2, <3>3 DEF PollInv
  <2> QED
    BY <2>1, <2>2, <2>3
<1>6. CASE StatusEnds
  <2>1. next' = next /\ cfg' = cfg /\ refused' = refused /\ stage' = "exited"
    BY <1>6, Zenon DEF StatusEnds, vars
  <2> QED
    BY <2>1, StoppedPolls
<1>7. CASE ServeFails
  <2>1. next' = next /\ cfg' = cfg /\ refused' = refused /\ stage' = "failed"
    BY <1>7, Zenon DEF ServeFails, Ends, vars
  <2> QED
    BY <2>1, StoppedPolls
<1>8. CASE UNCHANGED <<vars, startVars>>
  <2>1. /\ cfg' = cfg /\ outcome' = outcome /\ next' = next /\ refused' = refused
        /\ stage' = stage /\ pollers' = pollers /\ subcommand' = subcommand
        /\ notifiers' = notifiers
    BY <1>8, Zenon DEF vars, startVars
  <2>2. (PollersAre => PollersAre') /\ buildNotifiers' = buildNotifiers
    BY <2>1, PollersStay
  <2> QED
    BY <2>1, <2>2 DEF PollInv
<1> QED
  BY <1>1, <1>2, <1>3, <1>4, <1>5, <1>6, <1>7, <1>8, Zenon DEF StartNext

\* The type of a notifier in the file is a value, with a comment or without.
LEMMA ToldTyped ==
    ASSUME NEW f \in Seq(Lines), NEW m \in DOMAIN AllNotifiers(f)
    PROVE  AllNotifiers(f)[m].type \in Value
<1> DEFINE o == InOrder(Heads(f, "notifiers"))
           i == o[m]
<1>1. m \in DOMAIN o /\ AllNotifiers(f)[m] = NotifierAt(f)[i]
  BY Zenon DEF AllNotifiers, Listed
<1>2. i \in DOMAIN f
  <2>1. \A k \in DOMAIN o : o[k] \in Heads(f, "notifiers")
    BY HeadsPlaced
  <2>2. Heads(f, "notifiers") \subseteq DOMAIN f
    BY Zenon DEF Heads
  <2> QED
    BY <1>1, <2>1, <2>2, Zenon
<1> HIDE DEF o, i
<1>3. AllNotifiers(f)[m].type = ValueOf(f[i])
  <2> DEFINE B == Block(f, "notifiers", i)
             w == WrittenNotifier(f, i, B)
  <2>1. AllNotifiers(f)[m] = w
    BY <1>1, <1>2, Zenon DEF NotifierAt
  <2>2. w = [field \in FieldsOfNotifier |-> NotifierField(f, i, B, field)]
    BY NotifierIs
  <2>3. "type" \in FieldsOfNotifier
    BY Zenon DEF FieldsOfNotifier
  <2> HIDE DEF w, B
  <2>4. w.type = NotifierField(f, i, B, "type")
    BY <2>2, <2>3
  <2> QED
    BY <2>1, <2>4, Zenon DEF NotifierField
<1>4. f[i] \in Lines
  BY <1>2, LenProperties, ElementOfSeq
<1>5. ValueOf(f[i]) \in Value
  BY <1>4 DEF ValueOf, Value, Lines
<1> QED
  BY <1>3, <1>5

\* A value is a bare word of a set if it has no comment and its text is one.
LEMMA BareWord ==
    ASSUME NEW v \in Value, NEW S
    PROVE  v \in {Text(t) : t \in S} <=> ~v.comment /\ v.text \in S
<1>1. v = [text |-> v.text, comment |-> v.comment] /\ v.comment \in BOOLEAN
  BY DEF Value
<1>2. ASSUME ~v.comment PROVE v = Text(v.text)
  <2>1. v.comment = FALSE
    BY <1>1, <1>2
  <2> QED
    BY <1>1, <2>1 DEF Text
<1>3. \A t : Text(t).comment = FALSE /\ Text(t).text = t
  BY DEF Text
<1>4. ASSUME v \in {Text(t) : t \in S} PROVE ~v.comment /\ v.text \in S
  <2>1. PICK t \in S : v = Text(t)
    BY <1>4, Zenon
  <2>2. v.comment = FALSE /\ v.text = t
    BY <1>3, <2>1
  <2> QED
    BY <2>1, <2>2
<1>5. ASSUME ~v.comment, v.text \in S PROVE v \in {Text(t) : t \in S}
  BY <1>2, <1>5, Zenon
<1> QED
  BY <1>4, <1>5, Zenon

LEMMA PollsImply ==
    ASSUME ParserInv, EntriesInv, PollInv, stage = "running"
    PROVE  PollsTheFile
<1>1. /\ next \in 1..(Len(cfg.devices) + 1) /\ next > Len(cfg.devices)
      /\ outcome = "loaded" /\ PollersAre /\ notifiers = buildNotifiers
  <2>1. subcommand # "status"
    BY DEF PollInv
  <2> QED
    BY <2>1 DEF PollInv
<1>2. /\ file \in Seq(Lines) /\ IsSeq(cfg.devices)
      /\ cfg.devices = AllDevices(file) /\ cfg.notifiers = AllNotifiers(file)
  BY <1>1, Zenon DEF ParserInv, CfgShape, EntriesInv
<1>3. Wanted = cfg.devices /\ Told = cfg.notifiers
  BY <1>2, WrittenIs, Zenon DEF Wanted, Told
<1>4. SetUp = Made
  <2>1. DOMAIN cfg.devices = 1..Len(cfg.devices) /\ Len(cfg.devices) \in Nat
    BY <1>2, SeqLength
  <2>2. next - 1 = Len(cfg.devices)
    BY <1>1, <2>1
  <2> QED
    BY <1>3, <2>1, <2>2, Zenon DEF SetUp, Made
<1>5. DOMAIN pollers = {Wanted[i].name : i \in SetUp}
  BY <1>1, <1>3, <1>4, Zenon DEF PollersAre, NameOf
<1>6. \A n : {j \in SetUp : Wanted[j].name = n} = OfName(n)
  BY <1>3, <1>4, Zenon DEF OfName, NameOf
<1>7. ASSUME NEW i, CanBeMade(i)
      PROVE  /\ deviceKind(i) \in Types
             /\ \/ deviceKind(i) = Wanted[i].type.text
                \/ Wanted[i].type = Unset /\ deviceKind(i) = "routeros"
  <2>1. TypeOf(i) = Wanted[i].type
    BY <1>3, Zenon DEF TypeOf
  <2>2. CASE TypeOf(i) = Unset
    <3>1. deviceKind(i) = "routeros"
      BY <2>2, Zenon DEF deviceKind
    <3> QED
      BY <2>1, <2>2, <3>1, Zenon DEF Types
  <2>3. CASE TypeOf(i) # Unset
    <3>1. PICK t \in Types : TypeOf(i) = Text(t)
      BY <1>7, <2>3, Zenon DEF CanBeMade
    <3>2. deviceKind(i) = Text(t).text
      BY <2>3, <3>1, Zenon DEF deviceKind
    <3>3. Text(t).text = t
      BY DEF Text
    <3> QED
      BY <2>1, <3>1, <3>2, <3>3, Zenon
  <2> QED
    BY <2>2, <2>3
<1>8. ASSUME NEW n \in DOMAIN pollers
      PROVE  LET i == Max({j \in SetUp : Wanted[j].name = n}) IN
             /\ pollers[n].device = i
             /\ pollers[n].kind \in Types
             /\ \/ pollers[n].kind = Wanted[i].type.text
                \/ Wanted[i].type = Unset /\ pollers[n].kind = "routeros"
  <2> DEFINE i == Max(OfName(n))
  <2>1. pollers[n] = [device |-> i, kind |-> deviceKind(i)] /\ CanBeMade(i)
    BY <1>1, <1>8, Zenon DEF PollersAre
  <2> HIDE DEF i
  <2>2. pollers[n].device = i /\ pollers[n].kind = deviceKind(i)
    BY <2>1
  <2>3. /\ deviceKind(i) \in Types
        /\ \/ deviceKind(i) = Wanted[i].type.text
           \/ Wanted[i].type = Unset /\ deviceKind(i) = "routeros"
    BY <1>7, <2>1
  <2> QED
    BY <1>6, <2>2, <2>3, Zenon DEF i
<1>9. notifiers = At(Told, {i \in DOMAIN Told :
                               /\ ~Told[i].type.comment
                               /\ Told[i].type.text \in NotifierTypes})
  <2>1. \A i \in DOMAIN Told :
           Told[i].type \in {Text(t) : t \in NotifierTypes} <=>
              /\ ~Told[i].type.comment
              /\ Told[i].type.text \in NotifierTypes
    <3>1. \A i \in DOMAIN Told : Told[i].type \in Value
      BY <1>2, <1>3, ToldTyped
    <3> QED
      BY <3>1, BareWord
  <2>2. notifiers = At(Told, {i \in DOMAIN Told :
                                 Told[i].type \in {Text(t) : t \in NotifierTypes}})
    BY <1>1, <1>3, Zenon DEF buildNotifiers
  <2>3. {i \in DOMAIN Told : Told[i].type \in {Text(t) : t \in NotifierTypes}} =
        {i \in DOMAIN Told : /\ ~Told[i].type.comment
                             /\ Told[i].type.text \in NotifierTypes}
    BY <2>1, Zenon
  <2> QED
    BY <2>2, <2>3, Zenon
<1> QED
  BY <1>5, <1>8, <1>9, Zenon DEF PollsTheFile

\* For files of any lines and any failures: a process that polls has one poller
\* for each name of a device it could set up, that of the last of the name and
\* of the kind the file says, and tells the notifiers of the types it knows.
THEOREM FilePolled == StartSpec => []PollsTheFile
<1>1. StartSpec => [](ParserInv /\ EntriesInv)
  BY StartLoads, EntriesInductive, PTL
<1>2. PollInv /\ ParserInv /\ ParserInv' /\ [StartNext]_<<vars, startVars>>
         => PollInv'
  <2>1. ParserInv => IsSeq(cfg.devices)
    BY DevicesAreListed
  <2>2. ParserInv' => IsSeq(cfg'.devices)
    BY Zenon DEF ParserInv, CfgShape
  <2> QED
    BY <2>1, <2>2, PollStep
<1>3. ParserInv /\ EntriesInv /\ PollInv => PollsTheFile
  <2>1. stage # "running" => PollsTheFile
    BY Zenon DEF PollsTheFile
  <2> QED
    BY <2>1, PollsImply
<1> QED
  BY <1>1, <1>2, <1>3, PollInitially, PTL DEF StartSpec

\* The process that starts goes by the devices and the notifiers that the file
\* says, from when it has read them on.
THEOREM StartedAsListed == StartSpec => [](DevicesAsWritten /\ NotifiersAsWritten)
BY StartLoads, DevicesLoaded, NotifiersLoaded, PTL
============================================================================
