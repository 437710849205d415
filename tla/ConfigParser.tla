---------------------------- MODULE ConfigParser ----------------------------
(***************************************************************************)
(* internal/config/config.go: Load, line by line. A line is what is left   *)
(* of it after TrimSpace: the words before its first colon, the value      *)
(* after it without its quotes, and whether a comment follows the value.   *)
(* A line without content or with a comment only has the key "#".          *)
(* valueAfterColon keeps a comment that follows a value.                   *)
(***************************************************************************)
EXTENDS Integers, SequencesExt

CONSTANTS
    Inputs,     \* the lines that may come first, second, ... (its length is a bound)
    Durations,  \* the values that ParseDuration reads
    Numbers,    \* the values that Atoi reads
    Words       \* what a value may be

Lines == [key : STRING, value : Words, comment : BOOLEAN]

ASSUME ConfigAssumption == Inputs \in Seq(SUBSET Lines)

VARIABLES
    section,          \* "", "devices" or "notifiers"
    currentDevice,    \* << >> for nil, or << the open device >>
    currentNotifier,  \* the same of the notifier
    cfg,              \* what Load is to return
    outcome,          \* "reading", "loaded" or the error Load returns
    file              \* history: the lines read

vars == <<section, currentDevice, currentNotifier, cfg, outcome, file>>

DeviceFields == {"type", "address", "username", "password", "community"}
DeviceFlags == {"use_https", "insecure"}
NumberSettings == {"poll_interval", "history_size", "notify_threshold"}
TextSettings == {"listen_addr", "web_addr", "sqlite_path"}
NotifierFields == {"bot_token", "chat_id", "smtp_server", "username",
                   "password", "from", "url"}

Text(value) == [text |-> value, comment |-> FALSE]
Unset == Text("")

\* valueAfterColon
ValueOf(line) == [text |-> line.value, comment |-> line.comment]

Parses(line) ==
    /\ ~line.comment
    /\ line.value \in IF line.key = "poll_interval" THEN Durations ELSE Numbers

Defaults == [poll_interval |-> Text("30s"), history_size |-> Text("120"),
             listen_addr |-> Text(":8080"), web_addr |-> Text(":8081"),
             sqlite_path |-> Text("whatunga.db"), notify_threshold |-> Text("3")]

\* What the program itself writes into a configuration.
ASSUME WordsAssumption ==
    /\ {Unset.text, "routeros", "public"} \subseteq Words
    /\ \A key \in DOMAIN Defaults : Defaults[key].text \in Words

\* Of a file that is there; without one, Load returns at once.
ConfigInit ==
    /\ section = ""
    /\ currentDevice = << >> /\ currentNotifier = << >>
    /\ cfg = [settings |-> Defaults, devices |-> << >>, notifiers |-> << >>]
    /\ outcome \in {"reading", "unreadable"}
    /\ file = << >>
----------------------------------------------------------------------------
NewDevice(line) ==
    [name |-> ValueOf(line), type |-> Text("routeros"), address |-> Unset,
     username |-> Unset, password |-> Unset, community |-> Unset,
     use_https |-> FALSE, insecure |-> FALSE]

NewNotifier(line) ==
    [type |-> ValueOf(line), bot_token |-> Unset, chat_id |-> Unset,
     smtp_server |-> Unset, smtp_port |-> Unset, username |-> Unset,
     password |-> Unset, from |-> Unset, to |-> << >>, url |-> Unset]

WithDefaults(d) ==
    IF d.type = Text("snmp-firewall") /\ d.community = Unset
    THEN [d EXCEPT !.community = Text("public")] ELSE d

\* flushDevice and flushNotifier
Devices(open) == cfg.devices \o [i \in DOMAIN open |-> WithDefaults(open[i])]
Notifiers(open) == cfg.notifiers \o open

\* The line is compared as a whole: with a comment it is not a section line (nor
\* with a pair of quotes, which are not told apart from no value here).
SectionLine(line) ==
    line.key \in {"devices", "notifiers"} /\ line.value = "" /\ ~line.comment

\* Seeded fault: a section line does not close the open notifier.
OpenSectionKeeping(line) ==
    /\ SectionLine(line)
    /\ section' = line.key
    /\ cfg' = [cfg EXCEPT !.devices = Devices(currentDevice)]
    /\ currentDevice' = << >>
    /\ UNCHANGED <<currentNotifier, outcome>>

OpenSection(line) ==
    /\ SectionLine(line)
    /\ section' = line.key
    /\ cfg' = [cfg EXCEPT !.devices = Devices(currentDevice),
                          !.notifiers = Notifiers(currentNotifier)]
    /\ currentDevice' = << >> /\ currentNotifier' = << >>
    /\ UNCHANGED outcome

\* Seeded fault: the device that was open is lost.
OpenDeviceOnly(line) ==
    /\ line.key = "- name" /\ section = "devices"
    /\ currentDevice' = <<NewDevice(line)>>
    /\ UNCHANGED <<section, currentNotifier, cfg, outcome>>

OpenDevice(line) ==
    /\ line.key = "- name" /\ section = "devices"
    /\ cfg' = [cfg EXCEPT !.devices = Devices(currentDevice)]
    /\ currentDevice' = <<NewDevice(line)>>
    /\ UNCHANGED <<section, currentNotifier, outcome>>

OpenNotifier(line) ==
    /\ line.key = "- type" /\ section = "notifiers"
    /\ cfg' = [cfg EXCEPT !.notifiers = Notifiers(currentNotifier)]
    /\ currentNotifier' = <<NewNotifier(line)>>
    /\ UNCHANGED <<section, currentDevice, outcome>>

DeviceLine(line) ==
    /\ line.key \in DeviceFields \cup DeviceFlags
    /\ section = "devices" /\ currentDevice # << >>

SetDeviceField(line) ==
    /\ DeviceLine(line)
    /\ currentDevice' =
          <<[currentDevice[1] EXCEPT ![line.key] =
                IF line.key \in DeviceFlags
                THEN ValueOf(line) = Text("true") ELSE ValueOf(line)]>>
    /\ UNCHANGED <<section, currentNotifier, cfg, outcome>>

\* Seeded fault: a number that cannot be read is passed over.
SetSettingLeniently(line) ==
    /\ line.key \in NumberSettings \cup TextSettings
    /\ cfg' = [cfg EXCEPT !.settings[line.key] = ValueOf(line)]
    /\ UNCHANGED <<section, currentDevice, currentNotifier, outcome>>

SetSetting(line) ==
    /\ line.key \in NumberSettings \cup TextSettings
    /\ IF line.key \in NumberSettings => Parses(line)
         THEN /\ cfg' = [cfg EXCEPT !.settings[line.key] = ValueOf(line)]
              /\ UNCHANGED outcome
         ELSE /\ outcome' = "invalid_setting"
              /\ UNCHANGED cfg
    /\ UNCHANGED <<section, currentDevice, currentNotifier>>

\* Seeded fault: a second list of addresses replaces the first.
WithFieldReplacing(n, line) ==
    CASE line.key \in NotifierFields -> [n EXCEPT ![line.key] = ValueOf(line)]
      [] line.key = "smtp_port" /\ Parses(line) ->
            [n EXCEPT !.smtp_port = ValueOf(line)]
      [] line.key = "to" /\ ValueOf(line) # Unset ->
            [n EXCEPT !.to = <<ValueOf(line)>>]
      [] OTHER -> n

\* applyNotifierField: a key or a port it cannot read is passed over, and the
\* addresses of a line, here one value, are added to those there are.
WithField(n, line) ==
    CASE line.key \in NotifierFields -> [n EXCEPT ![line.key] = ValueOf(line)]
      [] line.key = "smtp_port" /\ Parses(line) ->
            [n EXCEPT !.smtp_port = ValueOf(line)]
      [] line.key = "to" /\ ValueOf(line) # Unset ->
            [n EXCEPT !.to = Append(@, ValueOf(line))]
      [] OTHER -> n

NotifierLine(line) ==
    /\ section = "notifiers" /\ currentNotifier # << >>
    /\ ~SectionLine(line) /\ line.key # "- type"
    /\ line.key \notin {"#"} \cup NumberSettings \cup TextSettings

SetNotifierField(line) ==
    /\ NotifierLine(line)
    /\ currentNotifier' = <<WithField(currentNotifier[1], line)>>
    /\ UNCHANGED <<section, currentDevice, cfg, outcome>>

\* A blank line, a comment, or one that no case takes.
Skip(line) ==
    /\ ~SectionLine(line) /\ ~DeviceLine(line) /\ ~NotifierLine(line)
    /\ ~(line.key = "- name" /\ section = "devices")
    /\ ~(line.key = "- type" /\ section = "notifiers")
    /\ line.key \notin NumberSettings \cup TextSettings
    /\ UNCHANGED <<section, currentDevice, currentNotifier, cfg, outcome>>

ReadLine(line) ==
    /\ outcome = "reading"
    /\ file' = Append(file, line)
    /\ \/ OpenSection(line) \/ OpenDevice(line) \/ OpenNotifier(line)
       \/ SetDeviceField(line) \/ SetSetting(line) \/ SetNotifierField(line)
       \/ Skip(line)

\* Or scanner.Err: the file could not be read to its end.
EndOfFile ==
    /\ outcome = "reading"
    /\ cfg' = [cfg EXCEPT !.devices = Devices(currentDevice),
                          !.notifiers = Notifiers(currentNotifier)]
    /\ currentDevice' = << >> /\ currentNotifier' = << >>
    /\ outcome' \in {"unreadable",
                     IF cfg'.devices = << >> THEN "no_devices" ELSE "loaded"}
    /\ UNCHANGED <<section, file>>

ConfigNext ==
    \/ Len(file) < Len(Inputs) /\ \E line \in Inputs[Len(file) + 1] : ReadLine(line)
    \/ EndOfFile

ConfigSpec == ConfigInit /\ [][ConfigNext]_vars
----------------------------------------------------------------------------
(* What a file says, read as a whole.                                      *)

SectionOf(f, i) ==
    LET heads == {j \in 1..i : SectionLine(f[j])} IN
    IF heads = {} THEN "" ELSE f[Max(heads)].key

\* The first line of an entry of a section, and the lines that belong to it:
\* up to the next entry or the next section line.
Heads(f, sec) ==
    {i \in DOMAIN f :
        /\ SectionOf(f, i) = sec
        /\ f[i].key = IF sec = "devices" THEN "- name" ELSE "- type"}

Block(f, sec, i) ==
    {j \in (i + 1)..Len(f) :
        \A k \in (i + 1)..j : k \notin Heads(f, sec) /\ ~SectionLine(f[k])}

\* The last line of a set of lines with a key that is accepted, or a default.
LastOf(f, lines, key, default) ==
    LET mine == {j \in lines : f[j].key = key
                    /\ (key \in NumberSettings \cup {"smtp_port"}
                          => Parses(f[j]))} IN
    IF mine = {} THEN default ELSE ValueOf(f[Max(mine)])

\* A set of numbers as a sequence, the least first, each found by its rank; and
\* what a sequence has at a set of its places.
InOrder(S) ==
    [n \in 1..Cardinality(S) |->
        CHOOSE x \in S : Cardinality({y \in S : y <= x}) = n]

At(s, places) == [n \in 1..Cardinality(places) |-> s[InOrder(places)[n]]]

Written(f, sec, Entry(_, _, _)) ==
    LET heads == InOrder(Heads(f, sec)) IN
    [n \in DOMAIN heads |-> Entry(f, heads[n], Block(f, sec, heads[n]))]

Device(f, i, block) ==
    [field \in {"name"} \cup DeviceFields \cup DeviceFlags |->
        IF field = "name" THEN ValueOf(f[i])
        ELSE IF field \in DeviceFlags
             THEN LastOf(f, block, field, Unset) = Text("true")
        ELSE LastOf(f, block, field, NewDevice(f[i])[field])]

WrittenDevice(f, i, block) == WithDefaults(Device(f, i, block))

\* The places of the lines of a block that list addresses.
AddressLines(f, block) ==
    {j \in block : f[j].key = "to" /\ ValueOf(f[j]) # Unset}

WrittenNotifier(f, i, block) ==
    [field \in NotifierFields \cup {"type", "smtp_port", "to"} |->
        IF field = "type" THEN ValueOf(f[i])
        ELSE IF field = "to"
        THEN LET to == At(f, AddressLines(f, block)) IN
             [n \in DOMAIN to |-> ValueOf(to[n])]
        ELSE LastOf(f, block, field, Unset)]

Value == [text : Words, comment : BOOLEAN]

\* The variables keep their types, and no device and notifier are open at the
\* same time.
ConfigTypeOK ==
    /\ section \in {"", "devices", "notifiers"}
    /\ Len(currentDevice) <= 1 /\ Len(currentNotifier) <= 1
    /\ currentDevice # << >> => section = "devices"
    /\ currentNotifier # << >> => section = "notifiers"
    /\ cfg.settings \in [NumberSettings \cup TextSettings -> Value]
    /\ outcome \in {"reading", "loaded", "unreadable", "invalid_setting",
                    "no_devices"}
    /\ Len(file) <= Len(Inputs)

\* Every entry of a devices section becomes one device, in their order, with
\* the last value of each field in its own lines, whatever else stands between
\* them and however the sections alternate; a notifier's user name or password
\* never becomes a device's.
DevicesAsWritten ==
    outcome = "loaded" => cfg.devices = Written(file, "devices", WrittenDevice)

\* The same of the notifiers, all address lists of one of them added up.
NotifiersAsWritten ==
    outcome = "loaded" =>
        cfg.notifiers = Written(file, "notifiers", WrittenNotifier)

\* A setting has the last value the file gives it, or its default; a number
\* that cannot be read is an error at its line, and never passes unnoticed.
SettingsAsWritten ==
    /\ \A key \in NumberSettings \cup TextSettings :
          cfg.settings[key] = LastOf(file, DOMAIN file, key, Defaults[key])
    /\ outcome = "invalid_setting" <=>
          \E i \in DOMAIN file : file[i].key \in NumberSettings /\ ~Parses(file[i])
============================================================================
