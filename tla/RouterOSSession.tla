-------------------------- MODULE RouterOSSession --------------------------
(***************************************************************************)
(* internal/routeros/client.go and monitor/routeros_poller.go: one TCP     *)
(* session with a router, logged in once and polled over and over. The     *)
(* stream carries whole sentences, each sent and read in its own time; a   *)
(* connection that breaks may take with it what was still under way.       *)
(*                                                                         *)
(* How a router answers is external: rows, then "!done", "!trap" or        *)
(* "!fatal". client.go reads to the "!trap" of a refused command, while    *)
(* the API that protocol.go names sends a "!done" after it: routers of     *)
(* both kinds are here, and nothing says when a router sends what it owes. *)
(***************************************************************************)
EXTENDS Integers, SequencesExt, FiniteSets

CONSTANTS
    MaxRows,    \* bound: rows of one answer
    Polls,      \* bound: polls after which their numbers start again
    MaxStrays   \* bound: traps with a "!done" after them

ASSUME SessionAssumption ==
    MaxRows \in Nat /\ Polls \in Nat /\ Polls > 1 /\ MaxStrays \in Nat

Commands == {"login", "resource", "interface"}

VARIABLES
    linked,    \* is the connection still there?
    request,   \* the commands the router has not taken up, with their polls
    unsent,    \* the sentences of its answer that the router has yet to send
    wire,      \* the sentences on their way to the client
    at,        \* what the client does: reads the reply to a command, is "idle"
               \* between polls, or was "closed" by a failed login
    poll,      \* the number of the poll under way, or of the last one
    reply,     \* the rows of the reply being read
    system,    \* the row of /system/resource/print, while the poll goes on
    snapshot,  \* what the last poll returned
    rows,      \* history: how many rows the last answer to each command has
    strays     \* history: the "!done" put after a trap so far

vars == <<linked, request, unsent, wire, at, poll, reply, system, snapshot,
          rows, strays>>

Row(p, c, i) == [poll |-> p, command |-> c, index |-> i]
NoRow == Row(0, "login", 0)
Failed == [ok |-> FALSE, system |-> NoRow, interfaces |-> << >>]

\* A sentence: its first word, "none" of an empty one, and its attributes if any.
Sentence(word, row) == [word |-> word, row |-> row]

\* Dial: the connection is there and /login was written to it.
SessionInit ==
    /\ linked = TRUE
    /\ request = <<[poll |-> 0, command |-> "login"]>>
    /\ unsent = << >> /\ wire = << >>
    /\ at = "login"
    /\ poll = 0
    /\ reply = << >>
    /\ system = NoRow
    /\ snapshot = Failed
    /\ rows = [c \in Commands |-> 0]
    /\ strays = 0
----------------------------------------------------------------------------
(* The router and the network.                                             *)

\* After its rows an answer ends with "!done", which may have attributes of its
\* own and an empty sentence before it, with a fatal, or with a trap, which the
\* API lets a "!done" follow.
Endings(row) ==
    {<<Sentence("!done", NoRow)>>, <<Sentence("!done", row)>>,
     <<Sentence("none", NoRow), Sentence("!done", NoRow)>>,
     <<Sentence("!fatal", NoRow)>>, <<Sentence("!trap", row)>>,
     <<Sentence("!trap", row), Sentence("!done", NoRow)>>}

\* The router takes up a command and has its answer.
RouterAnswers ==
    /\ linked /\ request # << >> /\ unsent = << >>
    /\ \E k \in 0..MaxRows :
          LET TheRow(i) == Row(request[1].poll, request[1].command, i) IN
          \E ending \in Endings(TheRow(k + 1)) :
              /\ unsent' = [i \in 1..k |-> Sentence("!re", TheRow(i))] \o ending
              /\ rows' = [rows EXCEPT ![request[1].command] =
                             IF ending[1].row = NoRow THEN k ELSE k + 1]
              /\ strays' = IF ending[1].word = "!trap" /\ Len(ending) = 2
                             THEN strays + 1 ELSE strays
    /\ strays' <= MaxStrays
    /\ request' = Tail(request)
    /\ UNCHANGED <<linked, wire, at, poll, reply, system, snapshot>>

RouterSends ==
    /\ linked /\ unsent # << >>
    /\ wire' = Append(wire, unsent[1])
    /\ unsent' = Tail(unsent)
    /\ UNCHANGED <<linked, request, at, poll, reply, system, snapshot, rows,
                   strays>>

\* The router reboots, or the connection breaks: some of what it sent arrives.
LinkBreaks ==
    /\ linked
    /\ linked' = FALSE
    /\ request' = << >> /\ unsent' = << >>
    /\ \E n \in 0..Len(wire) : wire' = SubSeq(wire, 1, n)
    /\ UNCHANGED <<at, poll, reply, system, snapshot, rows, strays>>
----------------------------------------------------------------------------
(* The client. Run writes the command and reads on until its reply ends.   *)

\* What is written to a connection that broke goes nowhere.
Written(command) ==
    request' = IF linked
                 THEN Append(request, [poll |-> poll', command |-> command])
                 ELSE request

\* Seeded fault: the rows of a reply are kept for the next one.
RunKeepingRows(command) ==
    /\ at' = command
    /\ Written(command)
    /\ UNCHANGED reply

Run(command) ==
    /\ at' = command
    /\ Written(command)
    /\ reply' = << >>

\* The poll is over; between polls nothing is read.
Return(result) ==
    /\ at' = "idle"
    /\ snapshot' = result
    /\ reply' = << >> /\ system' = NoRow
    /\ UNCHANGED request

\* RouterOSPoller.Snapshot. Writing to a connection that broke may be an error.
BeginPoll ==
    /\ at = "idle"
    /\ poll' = IF poll = Polls THEN 1 ELSE poll + 1
    /\ \/ Run("resource") /\ UNCHANGED <<system, snapshot>>
       \/ ~linked /\ Return(Failed)
    /\ UNCHANGED <<linked, unsent, wire, rows, strays>>

Reading == at \in Commands /\ wire # << >>

\* Seeded fault: a trap does not end the reply.
EndsReplyAtDone(word) == word = "!done"

EndsReply(word) == word \in {"!done", "!trap"}

\* Seeded fault: the attributes of a "!done" are lost.
CollectedOfRows ==
    IF wire[1].word # "!re" THEN reply ELSE Append(reply, wire[1].row)

Collected ==
    IF wire[1].row = NoRow THEN reply ELSE Append(reply, wire[1].row)

\* readReply: a row, or a sentence it passes over, and on to the next.
ReadOn ==
    /\ Reading /\ ~EndsReply(wire[1].word) /\ wire[1].word # "!fatal"
    /\ reply' = IF wire[1].word = "!re" THEN Collected ELSE reply
    /\ wire' = Tail(wire)
    /\ UNCHANGED <<linked, request, unsent, at, poll, system, snapshot, rows,
                   strays>>

CloseSession ==
    at' = "closed" /\ reply' = << >> /\ UNCHANGED <<request, system, snapshot>>

\* login, systemStatus and interfaces, with what their reply came to.
AfterReply(done, all) ==
    \/ at = "login" /\ done /\ Return(Failed)
    \/ at = "login" /\ ~done /\ CloseSession
    \/ /\ at = "resource" /\ done /\ all # << >>
       /\ Run("interface") /\ system' = all[1] /\ UNCHANGED snapshot
    \/ /\ at = "resource" /\ ~(done /\ all # << >> /\ linked)
       /\ Return(Failed)
    \/ /\ at = "interface" /\ done
       /\ Return([ok |-> TRUE, system |-> system, interfaces |-> all])
    \/ at = "interface" /\ ~done /\ Return(Failed)

ReadEnd ==
    /\ Reading /\ EndsReply(wire[1].word)
    /\ wire' = Tail(wire)
    /\ UNCHANGED <<linked, unsent, poll, rows, strays>>
    /\ AfterReply(wire[1].word = "!done", Collected)

\* Seeded fault: the end of the stream is read as one more empty sentence.
ReadErrorAtFatal ==
    /\ Reading /\ wire[1].word = "!fatal" /\ wire' = Tail(wire)
    /\ UNCHANGED <<linked, unsent, poll, rows, strays>>
    /\ IF at = "login" THEN CloseSession ELSE Return(Failed)

\* "!fatal", or the end of the stream: Run returns an error. What is left in
\* the reader stays there. A stream that is silent is read without a deadline.
ReadError ==
    /\ \/ Reading /\ wire[1].word = "!fatal" /\ wire' = Tail(wire)
       \/ at \in Commands /\ wire = << >> /\ ~linked /\ UNCHANGED wire
    /\ UNCHANGED <<linked, unsent, poll, rows, strays>>
    /\ IF at = "login" THEN CloseSession ELSE Return(Failed)

Client == BeginPoll \/ ReadOn \/ ReadEnd \/ ReadError

Router == RouterAnswers \/ RouterSends

SessionNext == Client \/ Router \/ LinkBreaks
SessionSpec == SessionInit /\ [][SessionNext]_vars

\* The goroutine runs. Of the router nothing is assumed: it may stop before an
\* answer or in the middle of one, for ever.
FairSessionSpec == SessionSpec /\ WF_vars(Client)
----------------------------------------------------------------------------
Rows == [poll : 0..Polls, command : Commands, index : 0..(MaxRows + 1)]
Ends == {"!done", "!trap", "!fatal"}
Stream == wire \o unsent

\* The variables keep their types. As long as no trap had a "!done" after it,
\* the client has at most one command unanswered, that of the reply it reads,
\* and nothing is left to be read between polls.
SessionTypeOK ==
    /\ linked \in BOOLEAN
    /\ request \in Seq([poll : 0..Polls, command : Commands])
    /\ \A i \in DOMAIN Stream : Stream[i].row \in Rows
    /\ at \in Commands \cup {"idle", "closed"}
    /\ poll \in 0..Polls
    /\ reply \in Seq(Rows) /\ Len(reply) <= MaxRows + 1
    /\ system \in Rows
    /\ rows \in [Commands -> 0..(MaxRows + 1)]
    /\ strays \in 0..MaxStrays
    /\ strays = 0 =>
          /\ request \in {<< >>, <<[poll |-> poll, command |-> at]>>}
          /\ at = "idle" => request = << >> /\ Stream = << >>

\* Between two polls of a session that lasts, what is still to come is as many
\* replies as there were "!done" after a trap: none of any other kind is left
\* over, and none of those is ever made up for.
LagIsStrays ==
    linked /\ at = "idle" =>
        strays = Len(request)
                    + Cardinality({i \in DOMAIN Stream : Stream[i].word \in Ends})

\* routeros_poller.go:39: a snapshot "of the device's current state" puts
\* together two replies: its system row and its interfaces are what the router
\* sent for this very poll, all of it and in order.
SnapshotIsOfThisPoll ==
    at = "idle" /\ snapshot.ok =>
        /\ snapshot.system = Row(poll, "resource", 1)
        /\ snapshot.interfaces =
              [i \in 1..rows["interface"] |-> Row(poll, "interface", i)]

\* That much is true until a trap has a "!done" after it, whatever traps,
\* fatals, empty sentences, stalls or breaks there were before.
SnapshotUntilStray == strays = 0 => SnapshotIsOfThisPoll

\* Also when the replies are out of step with the commands, a snapshot is not
\* pieced together of what belongs to several answers: its interfaces are the
\* rows of one answer, none missing in between, and its system row is the first
\* of one.
RowsOfOneAnswer ==
    at = "idle" /\ snapshot.ok =>
        LET listed == snapshot.interfaces IN
        /\ snapshot.system.index = 1
        /\ \A i \in DOMAIN listed :
              listed[i] = Row(listed[1].poll, listed[1].command, i)

\* A command whose reply has its end in the stream, or whose connection broke
\* at any point of the reply, is over before long.
ReplyEnds ==
    \A c \in Commands :
        at = c /\ (~linked \/ \E i \in DOMAIN wire : wire[i].word \in Ends)
            ~> at # c
============================================================================
