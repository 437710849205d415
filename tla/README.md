# Whatunga, verified

TLA+ models of Whatunga (a Go program that polls routers, servers and
firewalls, raises alerts and shows a status page), TLC runs over small
instances of them, and TLAPS proofs about the models for all instances. Paths
below are relative to `src/`.

## The system

| Component | State | Operations | Hard part |
|---|---|---|---|
| Alert manager, `internal/notify/manager.go` | per device: status, failure streak, time of last change | RecordSuccess, RecordFailure, Status, fire | streak against threshold, one message per transition and notifier, failing or hanging notifiers |
| Notifiers, `internal/notify/{telegram,email,webhook}.go` | none | Notify | two have a ten second deadline, mail has none |
| Snapshot history, `internal/store/history.go` | per device: the last `capacity` snapshots | Add, Latest, All, Devices | eviction at the capacity, concurrent readers |
| Serve loop, `cmd/whatunga/main.go` | the pollers, the pass under way | openPollers, pollAllInto | one goroutine for all devices, no retry of a failed setup, restart loses memory |
| REST API, `internal/api/server.go` | none | list, latest, history | reads between two polls |
| Web pages, `internal/webui/server.go` | none (reads all others) | status, dashboard, login, logout, account, language | reads under several locks |
| Sessions, `internal/webui/session.go` | token to user and expiry | create, lookup, destroy | expiry, survival of a password change |
| Database, `internal/db/db.go` | admin user, settings | seed, authenticate, change password, settings | check and update in separate statements |
| Configuration, `internal/config/config.go` | section, open device, open notifier | Load | line by line state machine with pending entries |
| RouterOS client, `internal/routeros/` | one TCP stream | Dial, Run | reply framing, traps, length prefixes |
| SNMP client, `internal/snmp/` | none | Get, GetNext, Walk | walk termination, BER, OIDs |
| Pollers, `internal/monitor/` | connection (RouterOS only) | Snapshot | joins of several answers |
| Translations, templates, installer | constant tables, shell | | not modelled |

How they interact: the poll goroutine of `serve` takes each device's snapshot
in turn; a failure goes to the alert manager; a success goes to the alert
manager and *then* to the history. The manager changes a device's state under
its mutex, releases it and calls the notifiers one after the other in the same
goroutine. HTTP handlers run concurrently and read the history and the manager,
each read under its own lock. Everything but the admin user and the settings is
in memory and gone after a restart.

What makes each part correct: a device is down exactly after `threshold` failed
polls in a row, and every notifier hears each transition once (manager); the
newest `capacity` snapshots in order, and no other (history); no page shows a
device the manager does not know, no device starves, every lasting outage and
recovery is alerted (serve); the reply read is the reply to the command sent
(RouterOS); a walk ends and visits what the agent has in the subtree (SNMP); a
logged-out or expired session grants nothing, and of the passwords only the
last one set works (admin panel); every device block of the file becomes one
device with its own fields (configuration). PROJECT.json lists the hazards
line by line.

## Modules

| Module | Models |
|---|---|
| `AlertContract` | what alerting promises: transitions, messages owed, messages handed over |
| `AlertManager` | `notify.Manager`, with `fire` call by call |
| `AlertManager_proofs` | the theorems about it |
| `SnapshotStore` | `store.History` |
| `Serve` | the poll goroutine, the devices, a page request, restarts; EXTENDS `AlertManager` and `SnapshotStore` |
| `Serve_proofs` | the theorems about their composition |
| `AdminPanel` | login, logout, account: sessions, users and requests that run at one time |
| `AdminPanel_proofs` | the theorems about it |
| `ConfigParser` | `config.Load` |
| `ConfigParser_proofs` | the theorems about it |
| `Startup` | from the loaded file to the pollers and notifiers of `status`, `watch` and `serve`; EXTENDS `ConfigParser` |
| `Startup_proofs` | the theorems about it; EXTENDS `ConfigParser_proofs` |
| `RouterOSSession` | the RouterOS client and poller over one session |
| `WordLength` | the length prefix of a RouterOS word |
| `RouterOSSession_proofs` | the theorems about both |
| `Ber` | lengths, triples, integers and OIDs as bytes |
| `SnmpMessage` | SNMP requests and responses byte by byte, as the client and as the standard have them; EXTENDS `Ber` |
| `SnmpWalk` | a poll of an SNMP agent whose table changes meanwhile; EXTENDS `SnmpMessage` |
| `SnmpMessage_proofs` | lemmas: what is read of a message is what was said in it |
| `SnmpWalk_proofs` | the theorems about the poll; EXTENDS `SnmpMessage_proofs` |
| `AlertManagerMC`, `ServeMC`, `AdminPanelMC`, `StartupMC`, `SnmpWalkMC` | the values of the constants for TLC |

### AlertManager

`states` is `Manager.states`. A device without an entry reads like one with the
zero `deviceState` (that is what `stateFor` and `Status` make of it), so the
function is total. `RecordSuccess` and `RecordFailure` are the sections under
the mutex together with the decision to fire, one step each. `fire` is a loop:
`CallNotifier` enters `notifiers[next].Notify`, `NotifierReturns(ok)` leaves it
with or without an error; `next` is the loop index. Only the poll goroutine
records polls and `fire` runs in it, hence the guard `~Firing` of both. Event
texts, device kinds and `lastError` (which nothing but the text uses) are left
out. Two history variables describe the world outside: `told[n][d]`, what a
notifier was last handed about a device, and `recent[d]`, a device's last
`threshold` poll results as a shift register.

### SnapshotStore and Serve

`byDevice` is the map of the history, with the devices that have an entry as
its domain. `Serve` adds the loop: `BeginPass`, `TakeSnapshot` (the map is
ranged over in any order), `PollFailed`, or `PollSucceeded` then (after the
alert, if any, is out) `StoreSnapshot`. A snapshot is a stamp that counts the
device's successful polls round from 1 to `Stamps`; with `Stamps` greater than
the capacity the order of all that the history can hold is known. A page is
`BeginPage` (`Devices()`), and for each name `PageLatest` (`Latest()`) and, for
`/status`, `PageStatus` (`Manager.Status()`), each with its own lock and so its
own step. The dashboard makes the reads that the REST API's list and latest
calls make. `Restart` clears all that is in memory at any moment, `told`
excepted. Routers (`SessionDevices`) have one session for the whole run, which
a reboot or a failed poll may break (a refused command does not), and which is
never opened again.

Time stands still in `Serve` (no property of it is about time).

### AdminPanel

A request is a sequence of steps, `req[r].at`: each lookup in the session map
(one lock) and each statement on the database is one step, as the handlers make
them: `CheckSession` (requireAuth), `ViewSession` (baseViewData), `AccountUser`
(handleAccount's own lookup, whose "not found" it ignores), `Authenticate` (the
SELECT and the comparison), `UpdatePassword`, `CreateSession`,
`DestroySession`. The start of the process is the two statements of
`seedDefaultAdmin`; `Kill` may come between any two steps and leaves the
database. A hash is the password it was made from, a token a model value. An
expired session stays in the map until a lookup drops it.

### ConfigParser

`section`, `currentDevice`, `currentNotifier` and `cfg` are the locals of
`Load`; each case of its switch is an action on one line, and the guards keep
the order of the cases. A line is its key, its value and whether a comment
follows the value; `Words` are the texts a value may be, every string in the
runs. The properties read a whole file at once (`SectionOf`, `Heads`, `Block`, the
last line of a key with `LastOf`) and compare. `Written` lists the entries of a
section by the rank of their first lines (`InOrder`).

### Startup

`stage` follows a process from reading its file to polling, or to its end;
`next` is the loop index of `openPollers` (or of `runStatus`), `pollers` the map
it fills. Names are the keys of that map, so a second device of a name replaces
the first, whose poller stays open and is no one's: `live` holds the devices
whose poller was made and not closed, by their place in the file. Whether a
router can be dialled, the database opened or a listener started is a choice at
each such step. A process that runs is where `Serve` begins: its `Devices` are
the names of `pollers`.

### RouterOSSession and WordLength

The stream is in two parts: `unsent`, the sentences the router has yet to send,
and `wire`, those on their way. `RouterAnswers` takes up a command and has its
answer, some rows and an ending: `!done` (with attributes or not, an empty sentence
before it or not), `!fatal`, or `!trap`, after which the API sends a `!done` and
other software may not. `RouterSends` sends one sentence, when it likes: a router
may stall before an answer, or in the middle of one, for ever. The link may break
at any moment and lose what it held. `Run` writes a command, `ReadOn` and `ReadEnd`
are the iterations of `readReply`, `AfterReply` what `login`, `systemStatus` and
`interfaces` do with the reply. Rows are tagged with the poll and the command they
answer, so a reply taken for another's shows. Two history variables: `rows[c]`, how
many rows the last answer to command c has, and `strays`, how often a `!done` came
after a trap.

`readReply` returns at the trap (`client.go:124`), so that `!done` is the reply to
the next command, and the client stays one reply behind for ever. That is run
`trap_done`. What the client promises all the same: nothing else puts it out of
step (`SnapshotUntilStray`, `LagIsStrays`), and a snapshot that comes from the wrong
replies still is made of whole answers (`RowsOfOneAnswer`).

`WordLength` is arithmetic: bytes are numbers, and `b | 0xC0` sets two bits of
them. It has no behaviour to explore.

### Ber, SnmpMessage and SnmpWalk

`Ber` translates the coders and decoders of `ber.go` and `oid.go` over bytes;
`SnmpMessage` adds `buildMessage` and `parseResponse`, and, written without any
of these, what an agent says by the standard (`MessageAs`), with lengths in each
of the forms the standard allows. In `SnmpWalk`, `at`, `column` and `current`
say where the poll is: the Get, or a GetNext in one of the four walks. A request
is one step, in which the agent looks at its table as it is then; `TableChanges`
goes between the requests. What the poller goes on with is what
`parseResponse` makes of the bytes of the agent's reply (`Read`), and the agent
answers only what it can understand (`Understood`). `Refused` is an answer with
an error status, `RequestFails` an answer that does not come. Each request has a
socket of its own, so an answer that comes late reaches nobody, and the request
id, which is not compared, tells nothing more; of it only the length of its
encoding matters. The tables `Arrives` and `Read` are constants: they are
computed once for all questions and replies there may be. `Orderly = FALSE` lets
the agent answer with any row of any column.

## Runs

| Run | Question | Answer |
|---|---|---|
| `alerts` | two devices, three notifiers, threshold 2: status against polls, messages against transitions, refinement of `AlertContract` with its liveness | holds |
| `serve` | two devices (a router, a firewall), one notifier, threshold 2, capacity 2, both pages, restarts at any moment: what is stored, shown and told, and who is left out | holds |
| `serve_live` | the same loop without pages and restarts: lasting outages and recoveries are alerted, everyone is polled | holds |
| `hung_mail` | can one notifier keep the others from an alert? (`manager.go:138`) | yes: mail has no deadline |
| `no_reconnect` | is a router that came back reported as recovered? (`README.md:52`) | no: its session is not reopened |
| `admin` | two requests at a time, two tokens, three passwords, kills, time: ended sessions, session owners, the default password | holds |
| `change_twice` | does ChangePassword replace the password it verified? (`db.go:118`) | no: two at a time verify the same one |
| `config` | every file of up to six lines: entries and settings against a reading of the whole file; and from each such file (of up to five lines) every subcommand's pollers and notifiers, with any of them failing: one open poller per name, that of the last device set up | holds |
| `routeros` | a session polled over and over, with stalls, traps, fatals and breaks, and a `!done` after a trap or none: until then, snapshots of one poll's replies; always, snapshots of whole answers, a lag of as many replies as there were such traps, and an end to each reply whose end is there | holds |
| `trap_done` | is a snapshot the state at its poll with a router that sends `!done` after `!trap`? (`routeros_poller.go:39`) | no: the `!done` is taken for the next reply |
| `snmp` | four walks over a table that changes, byte by byte: lasting rows shown, none invented, every answer read, an end to every poll | holds |
| `endless_walk` | does the limit end a walk with an agent that answers anything? (`client.go:93`) | no: it counts distinct rows |

Every property of a passing run comes with a seeded fault (the definitions
marked so in the modules, next to what they replace) under which TLC finds it
violated.

### Bounds

- Two devices: enough for one to be polled, failing or down while the other is
  not; nothing in the code relates more than two. The proofs do not bound them.
- Three notifiers in `alerts`: one that errs, one before it, one after it.
- Threshold 2: a failure that is not yet news, and one that is. `MaxStreak` is
  above it: longer streaks count the same, since the code only tests the counter
  for equality with the threshold; `RecordFailure` past it is still explored.
- `Horizon` 3: the clock moves between a transition and later polls.
- Capacity 2 with `Stamps` 3: eviction, and order of all entries kept.
- One request at a time: requests only read.

- `AdminPanel`: two requests, since what can go wrong is one between two steps
  of another; two tokens, one old and one new; a life of 1 and a `Horizon` of 3,
  so that sessions expire, are replaced and expire again. Tokens and requests
  are symmetric (no liveness is checked there).
- `ConfigParser`: six lines reach two entries of both lists with fields between
  and a section change; the lines include those whose key both lists use.
- `Startup`: the same files, with names that occur twice, types that are left
  out, unknown or have a comment, and an interval of zero; at each place the
  lines that make a difference there (`StartInputs`).
- `RouterOSSession`: two rows beside that of the ending; poll numbers go round
  from 1 to 3, so a leftover of the poll before, or of the one before that, shows;
  one trap with a `!done` after it (`MaxStrays`), before or after which traps
  without are free to come. The proofs bound none of these.
- `SnmpWalk`: three rows with a limit of two, so that a walk gives up; their
  numbers take one, two and three bytes as arcs; two changes of the table between
  two polls; counters of 0 and 40000 (three bytes, the first of them 0, and one
  that would read negative if it were taken for signed); names that take the
  lengths around them past 127 and past 255; request ids of one to three bytes
  with their highest bit set or not; lengths in their shortest form and in long
  forms of one to three bytes. `TopByte` is
  65536, so a number has three bytes (eight in the code): TLC computes with 32
  bits. In the proofs it is any positive number, 2^56 among them.

### Fairness

`AlertManager!Fairness`: the goroutine inside `fire` keeps running, and Notify
of a telegram or webhook notifier returns, since both use an HTTP client with a
ten second timeout. Nothing is assumed of mail, sent by `smtp.SendMail` without
a deadline; `Emails` names the mail notifiers, none in the passing runs.
`Serve!FairServeSpec` adds that the poll goroutine runs, the next tick comes and
a poll ends: `pollTimeout` bounds the requests of each poller except those of an
established RouterOS session, where it bounds the dialling only and the
connection's keep-alive finds a dead peer. A router that acknowledges but never
answers stalls the loop for all devices (`client.go:105` reads without a
deadline): it is outside this assumption, and the answers of `serve_live` do not
hold for it. No fairness is assumed of devices, pages or restarts.
`FairSessionSpec`: the client runs; nothing is assumed of the router, which may
stay silent for ever, so no property says that every poll of a session ends. `FairWalkSpec`: polls begin, and a request that was
not lost or refused by its deadline has been answered by then; none is assumed of
the table, nor that any request fails.

## Proofs

`AlertManager_proofs` holds for any devices, notifiers and threshold:

- `Typing`: type correctness.
- `DownExactly`: a device is down exactly when its last `threshold` polls
  failed. Not inductive alone: `StreakInv` says what the counter stands for (the
  last k polls failed, the one before them did not, down means k has reached the
  threshold).
- `ToldOnce`: no notifier misses a transition or is told it twice. Inductive
  with `EventIsCurrent`, that the event in delivery is its device's state.
- `DownSince`: the time of an outage is kept while it lasts.
- `Refinement`: `Spec => Contract!Spec`, by a mapping that takes the messages
  `fire` has still to hand over as the messages owed.

`Serve_proofs` holds for any devices, capacity, number of stamps above it and
mix of sessions, with restarts:

- `ServeTyping`: type correctness, inductive with `PageShape` (a page has
  the fields of a page).
- `KnownOnPage`: no page shows a device that the Manager does not know, by
  `KnownInv`: a device with an entry in the history has a known state.
- `PageComplete`: by `PageInv`, a name still to do keeps its entry, and every
  other name that was listed has its row.
- `RecoveryAfterDown`: by `RecoveryInv`: the event in delivery is its device's
  state, and of a device that is down every notifier was told, unless `fire` has
  still to come to it.
- `MissingNeverAnswered`: a device that the pages leave out has not answered
  since the start, by `UpInv`: a device without an entry is up only while the
  poll in hand is its own and recorded.
- `HistoryNewest`: the history is the unbroken run of the newest snapshots, by
  `HandInv` (the snapshot in hand is the last one taken of its device) and a
  lemma on what `Newest` makes of a sequence with one more element.

`AdminPanel_proofs` holds for any number of requests, tokens, passwords and
users: `PanelTyping`, `EndedStaysOut`, `SessionsOwned` and `DefaultGone`, all
from one inductive invariant `PanelInv`. Its parts beyond the properties:
`RequestsFit` (which steps each handler has, with which form and token), `DeadIsEnded` (a request marked dead came with a token that
had ended) and `EndedForGood` (no ended token is alive, though it may still be
in the map).

`RouterOSSession_proofs` holds for answers of any number of rows, any number of
polls and of traps with a `!done` after them, and any router: it proves the four
safety properties of the run (`SessionTyping`, `LagOfStrays`, `SnapshotOfOnePoll`,
`InterfacesOfOneAnswer`) from one inductive invariant, `SessionInv`, about the
`Stream`, `wire` and `unsent` put together, so that a sentence sent changes
nothing. It has three parts beyond the properties. `Owed` counts: the commands not
taken up and the ends in the stream are as many as the strays, and one more while a
reply is read; each step of router and client moves both sides alike (`EndsOfTail`,
`EndsOfBoth`), which gives `LagIsStrays`. `RowsFollow` and `ReplyOfOne` are about
neighbours: each row in the stream is the one after the row before it (`Before`,
which for the first is the last one read) or the first of an answer; so what is
read up to an end is one answer's, whosever it is. `InStep` holds while there are no
strays: what ends a reply ends the stream (`OneReply`), the rows read and those
still to be read are those of the command asked, counted through, and all of them
once the `!done` is there (`RowsInOrder`), and the row that waits for the interfaces
is this poll's (`SystemOfThisPoll`).

`SnmpMessage_proofs` and the first part of `SnmpWalk_proofs` are about bytes: for
every name, every number that fits an int64, every request id, community and form
of the lengths, what `parseResponse` makes of a reply that an agent writes by the
standard is what was said in it (`ResponseRead`), hence `Codec`: `CodecFaithful`,
of all the replies of a poll. Writer and reader share no operator, and the reader
is made of folds and one recursion over data, so the argument is an induction
throughout, and it goes by sets of numbers (`AllNumbers`), since the library's
induction over predicates is out of the provers' reach:

- a fold is a function of the set of indices it has taken (`FoldExists`);
- a number's digits are a chain of quotients (`QuotientsAre`, `FixedIs`), which
  the reader climbs from the other end: after each byte it holds the quotient at
  that place (`ShiftFold`, `Rebuilt`). This needs that no quotient leaves the width of
  what it is shifted into (`QuotientsWithin`) and, for integers, that the sign is in
  the first byte (`IntegerRead`, `LengthRead`);
- an arc is read when its unmarked byte comes, and not before; an OID is then its
  arcs, one after the other (`ArcRead`, `OIDRead`);
- a triple in front of anything is read as itself and leaves the rest, so two,
  three or four of them are read in turn (`TripleRead`, `TwoTriples`, ...);
- `parseVarbinds` calls itself on what is left. That there is a function that does
  so is shown on ever longer data (`ParsersExist`, since `LessIsLeft`); it is then
  unfolded once for each varbind.

Lengths and integers are shifted into an int64 and arcs into a uint64, and what
does not fit is lost, in the model as in the code. So the proof carries along that
an int holds the length of the message, and with it the length of all that is in it
(`Countable`, `InTriple`, `InBoth`): `AgentAssumption` of `SnmpWalk`, which holds
of every datagram. That an agent understands the requests
(`Understood`) is left to TLC; where it does not, it answers nothing, so no theorem
needs it.

The rest of `SnmpWalk_proofs` holds for any rows (sequences of arcs), limit,
counters and number of changes. `WalkTyping` needs nothing but `Codec`.
`AnswersRead` says that no poll ends because of an answer that could not be read
or was empty, and that the agent's time is shown, whatever the agent answers, by
`AnswerInv` (the time taken by the Get is kept while the walks go on).
`LastingShown` and `NoInvention` need an agent that answers in order. `NextAnswer`
says what a GetNext can come to, whatever the bytes; `RowsOrdered` is that the
order of rows leaves no two of them unordered, by the least index at which they
differ. The inductive invariant `OrderInv` has `WalkedPast` (a walk leaves no
lasting row behind it, which is why rows that come and go beside it do no harm),
`FoundWasThere` (what was found was so at some time since the poll began),
`LastingKept` and `SeenNow`.

`ConfigParser_proofs` holds for files of any lines and any length, any durations
and numbers: what `Load` builds line by line is what the file says read as a
whole, for the settings (`SettingsRead`), the devices (`DevicesLoaded`) and the
notifiers (`NotifiersLoaded`). For the settings `ParserInv` has no more than the
property and that the lists are lists; the work is in `LastOfAppend` (what one
more line makes of the last accepted value of a key) and `LineDoes` (whatever
section or entry is open, a line is a setting or touches none). For the entries
the properties speak of a loaded file only and are far from inductive. `EntriesInv`
says what holds after every line: what is flushed, with the open entry put behind
it, is what the file so far lists, and an entry is open exactly if no line after
its first one has ended it. The lemmas on the way are about files: a line added at
the end leaves the sections, the first lines of entries and the blocks before it
as they were, makes the last block one longer or ends it, and only the entry whose
block it is can change. `Written` lists entries by rank, so what a further entry
does to the list (it comes last) is a lemma on cardinalities (`InOrder` has a
number for every member of a finite set, without gaps). `ParserTyped` needs
`TypesInv`, that what is in a file or a default is a value.

`Startup_proofs` carries these over to the process that starts. `StartedAsWritten`
and `StartedAsListed`, by `StartLoads` (a process reads its file as `ConfigSpec`
says): the settings, devices and notifiers are the file's and stay so through all
that follows. `OpenArePolled` is that no open poller is forgotten, by `StartInv`:
an open one comes before the device to set up next, so the one that takes its
name's place is a later one. `FilePolled`, that the pollers and notifiers of a
running process are those of the file, by `PollInv`: with the devices set up so
far, a name has the poller of the last device of that name that could be made; at
the end these are all but the refused, and by `DevicesAsWritten` they are the
file's.

`LengthRoundTrip` (of `WordLength`, in `RouterOSSession_proofs`): for every length below 2^32 and whatever bytes
follow, `ReadLength` gives back what `WriteLength` was given and the prefix is as
long as its first byte says. By `Digits` (a length is its four bytes) and
`PrefixBits` (the bits that are set and cleared again leave the rest).

The theorems rest on the named assumptions of the modules (`AlertAssumption`,
`StoreAssumption`, `ServeAssumption`, `PanelAssumption`, `SessionAssumption`,
`BerAssumption`, `MessageAssumption`, `WalkAssumption`, `ConfigAssumption`,
`AgentAssumption`, `WordsAssumption`), which TLC evaluates too. Those about SNMP
say that rows are sequences of arcs that fit a uint64, that the community is bytes, that the agent's counters and
times are naturals that fit an int64 (one that does not reads negative), that an
int holds the length of a reply, and that a long length has at most 126 bytes, which
is what its first byte can say. Only
model-checked: liveness (the contract's, `serve_live`, `PollEnds`), which is
beyond this prover. Every safety property of the passing runs is proved.

## Seen without a run

- A device that cannot be set up at the start is never polled nor alerted; one
  that is down since the start is on no page, since `/status` lists the history.
  `PollsTheFile` and `OnlyUnansweredMissing` say that no others are left out.
- Two devices of one name: the first is not polled, and if it is a router its
  session stays open until the process ends.
- A `poll_interval` of zero or below panics (`Startup!StartTicker`), in `serve`
  with the API already listening.
- The upper half of a Counter64 reads negative (`ber.go:131`).
- The bytes of a length are shifted into an int without a bound (`ber.go:71`): eight
  of them with the top bit set are a negative length, which passes the test of
  `ber.go:102`, and the slice of `ber.go:107` panics. The model has such a triple as
  one that cannot be read (`Ber!decodeTLV`); no agent of the standard writes one, so
  it comes up in no run.
- A router that goes silent in the middle of a session stalls the polling of all
  devices (`client.go:105`); the keep-alive does not help if its kernel still
  acknowledges.
- `config.example.yaml`, of which `README.md:23` says that it is a "working
  example", does not load: the comment after `poll_interval: 30s` in its line 6 is
  part of the value (`config.go:332`), which then is no duration.
  `SettingsAsWritten` covers such lines (`Parses`).
- `lastChange` moves with every successful poll, not with the status only, though
  `internal/notify/manager.go:117` and `internal/webui/server.go:218` speak of
  when the status changed.
- After a restart an outage that goes on is alerted again, and a recovery that
  happened meanwhile is not.
- The log's advice to change the default login comes at every start, changed or
  not.
- The table above `protocol.go` gives the prefixes of two, three and four bytes
  as 01, 011 and 0111; the code sends and reads 10, 110 and 1110.
- An account request whose session ends between its two lookups is refused with
  the message of a wrong password.
- An SNMP table of more than 10000 rows fails every poll: the device is down.

## Not modelled

Rendering, translations and styles (constant tables and layout), the iLO and
WinRM pollers (two requests, fields copied one to one), the polls of `watch`
(the same poll and record steps as those of `serve`, printed), flags, the
installer, HTTP routing, the texts of alerts, password hashing and the words of
a RouterOS sentence.

