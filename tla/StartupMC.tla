----------------------------- MODULE StartupMC -----------------------------
(***************************************************************************)
(* Short files over an alphabet of lines that one another's cases could    *)
(* take, with devices that share a name, types that are left out or not    *)
(* known, and an interval of zero; the last line is of few kinds.          *)
(***************************************************************************)
EXTENDS Startup

Line(key, value) == [key |-> key, value |-> value, comment |-> FALSE]
Commented(key, value) == [key |-> key, value |-> value, comment |-> TRUE]

MCAlphabet == {
    Line("devices", ""), Line("notifiers", ""),
    Line("- name", "a"), Line("- type", "email"),
    Line("type", "snmp-firewall"), Line("username", "u"), Line("insecure", "true"),
    Line("to", "ops"), Line("smtp_port", "many"),
    Line("notify_threshold", "5"), Commented("notify_threshold", "5")}

Firsts == {Line("devices", ""), Line("notifiers", ""), Line("username", "u"),
           Line("poll_interval", "0s"), Commented("notify_threshold", "5")}
Middles == MCAlphabet \cup
    {Line("- name", "b"), Line("type", ""), Line("poll_interval", "0s")}
Unknown == {Commented("type", "ilo"), Line("- type", "pager")}
Lasts == {Line("notifiers", ""), Line("- name", "a"), Line("username", "u"),
          Line("- type", "email"), Line("to", "ops")}

StartInputs == <<Firsts, Middles, Middles, Middles \cup Unknown,
                 Middles \cup Unknown, Lasts>>
AnyWord == STRING
MCNumbers == {"5", "120", "3", "587"}
StartDurations == {"30s", "0s"}
StartNever == {"0s"}
AllSubcommands == {"status", "watch", "serve", "help"}
============================================================================
