# Verification of the Bose 700 daemon for Omarchy

This directory holds TLA+ models of the program in `src/`, the TLC runs that
check them and the TLAPS proofs of what matters most. The program is a user
daemon (`daemon/`) that keeps an RFCOMM link to a Bose 700 headset, speaks BMAP
over it, publishes the headset's settings to a state file and a Unix socket,
and the clients of that socket: a bar widget (`Service.qml`, `Model.js`,
`Panel.qml`), a command-line client (`cli/`), an installer (`installer/`,
`setup`).

## 1. Inventory

| Component | State it keeps | Operations | Talks to | What makes it correct |
|---|---|---|---|---|
| `BluetoothManager` | `ConnectionState`, current device, transport descriptor, retry count, next retry time, "waiting for the ACL link", time of the last wake-up request | `start`, `disconnect`, `stop`, `attemptDiscovery/Sdp/Connect`, `handleSocketEvent`, `tick`, `onBluezConnectedChange`, `requestConnectWakeUp`, `dropLink` | `bluetoothctl` (blocking child process), the kernel's RFCOMM socket, callbacks into `main` | one socket at most, open in the right states; retries paced; no connect towards a headset that is down; it never waits for something that will not come |
| `BluezWatcher` | bus connection, target address | `setTargetMac`, `process`/`handleMessage` | system bus; callback into `BluetoothManager` | no report of the headset in use is lost, none of another one acts |
| event loop (`main.cpp`) | descriptors polled, time of the last refresh, last published status | one turn: poll, signal, Bluetooth, bus, IPC, tick or nudge, refresh, broadcast | all of the above | nothing read before a handler is used after another handler changed it; every part is served |
| `BmapLink` and the handlers in `main.cpp` | bytes of a frame not complete yet | `transact` (flush, send, wait), `feed`, read-modify-write and read-back for every setting, the sync at connection time, the light refresh | headset over RFCOMM; `StateEngine` | an answer is matched to its request; what is published is what the headset has; a command that reports success took effect; the stream never loses its framing |
| `BmapProtocol` | none (`StreamParser` keeps an append buffer) | packet, parse, builders, parsers | | encode/decode agree; splitting does not depend on how the bytes arrive |
| `StateEngine` | the settings known, `status.json` | setters, `save`, `commit`, `writeAtomic`, `initialize`, `cleanup` | file system | readers see one whole state; nothing of an older run survives as current |
| `IpcServer` | clients, their in and out buffers, subscriptions | accept, read lines, answer, flush, broadcast, close; adoption of systemd's socket | widget, CLI | one answer per request in order; a slow client is dropped and hurts nobody; the last state reaches every subscriber |
| widget (`Service.qml`, `Model.js`) | connection to the daemon, expected answers, values set but not confirmed yet, back-off | subscribe, parse, set, time out, reconnect | daemon socket | shows the daemon's state in the end; answers are counted against the right request |
| CLI | none | one request | daemon socket | its exit code is true; bounded wait |
| `deploy` | the directory it opened, the names it is given | put, remove | file system | no name holds part of a file; a name not given is left alone; exit code 0 is true |
| `setup`, units, `Panel.qml`, `BoseIcon.qml` | | packaging, rendering | | not modelled |

Hard behaviour, with its place in the source, is listed under `hazards` in
`PROJECT.json`. The main sources of it: the daemon has one thread and calls
`bluetoothctl` and the headset *synchronously* from inside handlers, so the
world moves while a handler blocks; BlueZ reports arrive by a queue and are
stale when read; the RFCOMM stream can be cut anywhere, answers may come after
their request timed out, the headset changes settings by itself; some settings
never acknowledge a write.

## 2. Plan, and what became of it

Most important behaviour first; each item is a module, the runs of it and the
proofs about it.

| Module | Of | Proofs | State |
|---|---|---|---|
| `LinkManager` | `BluetoothManager`, `BluezWatcher`, event loop, with headset, BlueZ and RFCOMM around them | `LinkManagerProofs` | done |
| `BmapSession` | `BmapLink`, the command handlers, the headset as a pair of queues | `BmapSessionProofs`, `SettingsProofs` | done |
| `IpcServer`, `StatusFeed` | clients, buffers with their limits, poll results, broadcast, inherited socket; the feed of lines they implement | `IpcServerProofs` | done |
| `StateFile`, `StatusRegister` | the system calls behind `status.json`; the atomic register they implement | `StateFileProofs` | done |
| `Widget`, `Clients` | `Service.qml`; the widget and `bose-700-ctl` at one daemon | `ClientsProofs` | done |
| `Deploy` | put and remove of the installer | `DeployProofs` | done |
| `BmapCodec` | packets, framing, builders and parsers, byte by byte | `BmapCodecProofs` | done |
| `LinkPromise` | an abstract link (down, trying, up) refined by `LinkManager` | | not written: its steps would be the action properties `LinkManager` already has |

How the models meet. Each one replaces its neighbours by what they promise:
`BmapSession` has a `Connect` that just happens where `LinkManager` has the
machine; `LinkManager` has "the exchange ended with the link alive or dead"
where `BmapSession` has the exchange; `BmapSession` moves whole messages where
`BmapCodec` moves bytes; `IpcServer` has commits where the two others have
settings; `Widget` has the daemon that `IpcServer` describes, and `Clients`
puts a command-line call next to it; `StateFile` has changes of the status.

## 3. `LinkManager`: keeping the link

### State and actions

| TLA+ | Code |
|---|---|
| `state` | `ConnectionState` of `BluetoothManager`; states that last within one handler appear as states of their own when the handler blocks (`DISCOVERING` around `bluetoothctl`, `RESOLVING_SDP` before `connect`) |
| `dev`, `waiting`, `retry` | `currentDevice_`, `waitingForAclLink_`, `retryCount_` (capped by `MaxRetry`) |
| `due`, `late`, `nudge` | "the clock has passed" `nextReconnectTime_`, the connect deadline, the wake-up throttle; set by `BackoffElapses`, `ConnectElapses`, `NudgeElapses` |
| `sock` | the RFCOMM descriptor: closed, connecting, up, dead, refused |
| `asking`, `syncing` | the daemon blocks in `bluetoothctl connect`, or in the sync of `onConnected` |
| `bus`, `target`, `queue`, `readable` | the watcher's bus connection, `targetMac_`, the unread `PropertiesChanged` signals, and whether poll reported the bus |
| `pc`, `revents` | phase of the event loop, and the poll result of the Bluetooth descriptor, which later phases use although a signal handler may have replaced the socket in between |
| `published` | `connected` of `StateEngine` |
| `paired`, `link` | what BlueZ knows, and the headset: off, up without the BMAP service, ready |

One loop turn is `Poll`, then one action of each phase: signal, Bluetooth,
bus, IPC, tick (or the parked branch), refresh. A handler is one action, unless
it blocks on another process: then the world may move between its parts
(`Find*`, `Connect*`, `SyncDone`/`SyncDropsLink`, `RequestAnswered`). The
shared parts of handlers are operators: `ScheduleReconnect`, `AttemptDiscovery`,
`Restart`, `EnterConnected`, `DropLink`.

`Candidates` and `ReadsAsDown` stand for the parsing of `bluetoothctl`'s
answers: which device it selects, and when it takes a device for "not
connected". The answer of `info` may be empty (`ScrapeMayFail`).

`SignalShapes` says whether a report may carry `Connected` behind another
property; `Signals` the process signals that may arrive; `WatcherStarts`
whether the bus can be opened.

### Runs

| Run | Instance | Shows |
|---|---|---|
| `LinkWatched` (42,830 states) | one headset given by `--mac`; a bus that is there, fails later, or never was; 3 changes of the world, 1 IPC reconnect | published flag and link agree; no lost wake-up; RFCOMM only on a link that is up or whose loss is unread; a headset that stays reachable is connected and stays so; a parked daemon keeps nudging; no connect hangs; an outage that lasts is published |
| `LinkRoaming` (2,385,436 states) | two headsets, none preferred, all signals, scrapes that fail, batched signals, bus present or not | no leaked socket; a link the headset never accepted does not outlive the sync; paced retries; reports of the other headset are harmless |
| `LinkLostWakeup` (violation) | no `--mac`, bus, one change | the report of the first connection is lost and the daemon waits forever |
| `LinkScrapeFails` (violation) | `--mac`, one empty answer | the daemon parks on a headset that is up |

Not a run of its own, but worth knowing: the loop over the changed properties
(BluezWatcher.cpp:135-150) leaves at the first one whose variant is not a
boolean, so a `Connected` entry behind it is not heard. `LinkRoaming` has such
signals; in `LinkWatched` they are left out, and with `FALSE` added to
`SignalShapes` in its cfg TLC breaks `NoLostWakeup` and `EventuallyConnects`.

`LinkedMeansAccepted` is about the poll result that outlives its socket. In
`LinkRoaming` SIGUSR1 arrives between poll and the look at the Bluetooth event;
the signal handler restarts the attempt, and POLLOUT of the old socket meets the
new one, whose SO_ERROR is 0 while it connects. The manager then does enter
CONNECTED, and `connected = true` is published, over a socket nobody has
accepted. What saves the daemon is that the first read of `onConnected` is sent
on that socket, and ENOTCONN counts as a dead link (BmapLink.cpp:83): the
property says that such a link ends inside `onConnected`, and that without
SIGUSR1 there is none. Its mutant leaves ENOTCONN out.

Bounds. `MaxChanges` limits what the world does (link up/down, service,
pairing, socket death, bus failure): an outage and a recovery with one event
between them take three. `MaxOps` limits signals and IPC reconnects; one is
enough to hit every phase, because each starts from `Restart`. `MaxRetry` = 1
distinguishes "first try" from "later try", all that the code's control does
with the count; the value only scales the delay. Two headsets are enough for
"this one" and "another one". Every bound is a conjunct of the guard it caps.

Fairness (`Fairness` in the module): the daemon's next step (the loop and the
blocking calls end), the clocks, the answer of `bluetoothctl`, and the
socket's accept/refuse once the headset is ready. Each action of the
environment that breaks something has none. The loop never waits on anything
without a timeout (100 ms poll, 2.5 s and 600 ms answers, child processes with
a limit), which justifies weak fairness on its steps.

`LinkRoaming` allows termination (SIGTERM), so deadlock is not checked there;
in the other runs it is.

### Proofs

`LinkManagerProofs` proves, for every set of headsets, every set of signals and
every bound, and nothing but the named assumption `LinkAssumption` on the
constants:

- `TypeCorrect`, `SocketNeverLeaks`, `ParkedNeverLeaks`, `LinkIsReal`,
  `RetriesArePaced`, `OthersDoNoHarm`, `NoBlindConnect` without further assumption. `ParkedNeverLeaks`
  (the waiting flag is set only while backing off with a headset) is no run's
  property: the other proofs need it, and `ConnectingEnds` breaks without it;
- `PublishedCorrect` if SIGUSR2 is not used (it publishes "connected" before
  there is a link, which is its purpose);
- `WakeUpNeverLost` for a headset given by `--mac`, scrapes that answer and
  signals that carry `Connected` first: the two violation runs, and the change
  of `SignalShapes` above, show that none of the three assumptions can be dropped.

The argument. Type correctness comes first, together with `SocketMatchesState`
and `ParkedOnlyInBackoff`, which are inductive with it. `PhaseInv` says which
phase each blocking call and each state can be in; without it a handler could
run in a state its phase excludes. `EventInv` says when a poll result is looked
at, and that where SIGUSR1 is not used it is still true of the socket then: with
what `onConnected` does to a socket that never connected it carries
`LinkedMeansAccepted`. `TargetInv` (the watcher is aimed
at the connected headset) carries `OnlyOwnReportsDropLink`. `LiveInv` carries
`RfcommOnlyOnLiveLink`. `NoLostWakeup` is not inductive by far: `ReportInv`
states the fact behind it, about the whole queue: while the headset is up,
every "down" in the queue has an "up" after it, and a manager that waits, or is
about to, has an "up" ahead. Each theorem has one step per action.

Only model-checked: the liveness properties (`EventuallyConnects`,
`NudgesGoOn`, `OutageIsPublished`, `ConnectingEnds`), for fairness and ENABLED
are beyond the prover.

### Left out of `LinkManager`

`autoReconnect = false` (no caller sets it), the send queue (unused), mock
mode, the exit on a poll error, the failure of the IPC server to start, the
delay values themselves, and the BMAP exchange, which appears only as "it ended
with the link alive or dead".


## 4. `BmapSession`: what is said over the link

### State and actions

| TLA+ | Code |
|---|---|
| `conn`, `alive` | the manager is CONNECTED; the socket still works. How the link is made is `LinkManager`'s subject, here `Connect` just happens |
| `toDev`, `fromDev` | the two directions of the RFCOMM stream, with the kernel's buffers |
| `inbox`, `partial` | `StreamParser`: whole messages it holds, and whether it ends with a first part of one, of this connection or of an earlier one |
| `known` | the settings of `BoseState`; `NoValue` is -1, empty, or `...Known = false` |
| `device` | the headset's settings |
| `mode`, `todo`, `kind`, `want`, `base`, `failed` | the running handler: where the thread is, the exchanges it has ahead, the values a command asks for, the payload a read-modify-write has read, and whether something failed |
| `heard`, `sure`, `clean`, `had`, `mine` (in messages) | history for the properties; no action's guard reads them |

A handler is a list of exchanges. `Reads` makes the sync and the refresh,
`WriteSteps` a command: the read of read-modify-write for voice prompts, one
SETGET per equalizer band, the read-back. `StepFails` says what the handler does
after a failed exchange: a sync goes on with the next field, a command gives
up, the equalizer reads the field once more first. The thread blocks in two
places, before `send` and in `waitForResponse`; between two of them it is one
action, and the headset may act at each.

| Action | Code |
|---|---|
| `Connect`, `Refresh`, `Write` | `onConnected`, the 60 s refresh of `main`, the five set callbacks |
| `Send`, `SendStalls` | `BmapLink::transact`: flush of the parser, then the request, or "send timeout" |
| `RecvOthers`, `RecvOwn` | one `recv` in `waitForResponse`, without and with a message of the requested address; what is ahead of the answer goes to the unsolicited handler, what is behind it stays in the parser |
| `WriteTimesOut`, `ReadTimesOut` | "response timeout": success for a SETGET, failure for a GET |
| `LinkFails`, `LinkLost` | the dead link is seen inside an exchange, or by the loop |
| `Feed` | `handleConnectedRead`, then `BmapLink::feed` |
| `Finish` | the handler returns, and a command its verdict (`Confirmed`) |
| `Reconnect`, `SignalUsr1` | the IPC command (which resets the parser), and the signal (which does not) |
| `Device*`, `LinkDies` | the headset, external: it serves requests in order, may refuse one, take a SETGET without effect, change by itself, disappear |

Data. A field is what one BMAP address holds, a cell one value in it: the
equalizer has bands, the voice prompts an on/off bit and a language in one byte.
A message is read whole or cut somewhere; the bytes themselves are left to
`BmapCodec`. An answer to a request of the current exchange is marked `mine`
until the next request is sent; the daemon cannot see the mark, the properties
can.

### Runs

| Run | Instance | Shows |
|---|---|---|
| `SessionFaults` (392,079 states) | battery (polled, changes unsaid), equalizer of two bands, voice prompts (silent, read-modify-write, language not asked for); 2 commands, 2 faults, messages cut anywhere | a new connection starts on a message boundary; with nothing under way, what was read and is not polled equals the headset, also after a refused or timed-out band; a command whose answers were its own reports success only if the headset had the values; a read-modify-write keeps the language; while a connection lasts `known` settles on `device`; handlers return |
| `SessionMistaken` (violation) | one silent field, 1 command, 4 faults | a late answer confirms a write that had no effect |
| `SessionLeftover` (violation) | one field, no command, 3 faults: the lost link, the change while it is down, the failed read | a field of the previous session, which the headset no longer has, is published after a failed read |

Bounds. `MaxWrites` = 2 has a command follow a command of the same or another
field, and one whose answers are late be followed by one that may mistake them.
`MaxOdd` counts faults: late answers, refusals, ignored writes, changes made at
the headset, dead links, stalls, `Reconnect`, `SignalUsr1`. Two of them make each
pair, such as a change while an answer is late or a death after a stall;
`SessionMistaken` needs three or four. A time-out costs a fault only while
something is under way: the time-out of a silent SETGET already served is the
normal course. Two values tell "as asked" from "not". Two bands instead of
three: the code's loop treats all bands alike, and two show the failure between
them.

What the properties leave out on purpose. `SettingsTrueAtRest` does not speak of
polled fields, which change without a message; `Converges` does. It speaks of
the fields of `sure`: those whose last read succeeded and that nothing since
left in doubt (`LeavesDoubt`). In doubt is a silent field whose SETGET was sent,
for which no answer tells what became of it, and a peeked one, whose answer may
be a report that is then not applied; either is sure again after its read-back.
The equalizer answers, so it stays sure through a command, whichever band is
refused or times out: its answers and late answers are applied, and the read-back
is a second safeguard. TLC finds a wrong status when the answers are not applied,
by way of a read-back that fails; leaving out the read-back alone does no harm.

`ConfirmedByOwnAnswers` and `KeepsTheRest` speak of commands whose answers were
their own (`clean`). Of the others the code keeps neither: `SessionMistaken` shows
it of the verdict, and with `clean` taken out of `KeepsTheRest` TLC overwrites the
language that the headset changed between the read and the SETGET.

Fairness (`Fairness`): the exchange (each wait has a deadline: 2.5 s, or 600 ms
for a SETGET), the event loop's read, the refresh (every minute while
connected), and a present headset serves requests. Nothing is assumed of
commands, faults, changes or the connection itself: `Converges` is about
connections that last.

### Proofs

All from `SessionAssumption` alone: any fields, cells, values, orders of reads,
SETGETs per field, silent, peeked and polled fields, cuts and bounds.

| Theorem | Module |
|---|---|
| `TypeCorrect`, `FramesStayIntact`, `WritesAreConfirmed`, `RestIsKept` | `BmapSessionProofs` |
| `PublishedIsTrue` | `SettingsProofs` |

The argument.

- `TypeInv` is `TypeOK` with `PutsReady`: every value that a SETGET ahead needs
  is asked for, has been read, or is about to be read by the first step. Without
  it `PutVals` could use a payload that was never read.
- `WireInv`: the parser holds no message while the handler waits; the running
  exchange owns at most one request, the last on its way; and once its answer is
  on its way every request has been served. This is what a stream in order with
  one request at a time gives, and all later arguments use it.
- `WritesAreConfirmed`: `HadInv` (the headset having the values is noticed),
  `ReadBackInv` (the last step of a command reads the field back) and `GrantInv`
  (an own answer on its way that tells the values wanted was true when sent).
- `RestIsKept`: `RestInv` says of the cells the command is not about that what
  was read is still so, that every SETGET on its way carries the same, and that
  an own answer on its way is true.
- `PublishedIsTrue`: `NewsInv`. The obvious statement, "known equals device once
  all that is on its way is applied" (`Reported`), is not inductive. It needs
  that no request on its way writes a field the daemon is sure of, that the
  answer of the running exchange is already `Reported` before it is read, and
  that the peek of a read-modify-write, whose answer is never applied, is of a
  field the daemon is not sure of. `AppliedSkip` does the work on sequences.

- `HandlersSpendWork`: while a handler runs, every step of the daemon or the headset
  lowers `Work`, a weighted sum of the steps ahead, the requests and messages on
  the wire, and the disturbances left (`MaxOdd`; the code's deadlines do what this
  bound does here). The weights make a step dearer than its request, and a
  request dearer than its answer. It needs `ReadBackInv`: an equalizer band that
  fails puts a last read in place of the list, and that read was on it. This is
  the safety half of `HandlersReturn`; that a step is possible is what TLC adds.

Each invariant, and the fall of `Work`, was model-checked on the instance of
`SessionFaults` first.
Only model-checked: `Converges` and `HandlersReturn`, which need fairness, and
the two violations.

### Left out of `BmapSession`

Real time; `poll` and `send` errors other than a dead link; mock mode; the
byte-level formats and the checks that skip a payload too short (`BmapCodec`); the state
file each `set...` writes (`StateFile`).

## 5. `IpcServer`: sessions and what they are told

### State and actions

| TLA+ | Code |
|---|---|
| `peer`, `toServer`, `toClient` | the kernel's side of a connection: whether the client is there, and the two socket buffers |
| `session`, `subscribed`, `out` | an entry of `clients_` (or a client still in the listen backlog), `ClientSession::subscribed`, `outBuffer` |
| `status`, `published` | `getStatusJson()`, and `lastPublishedStatus` of the loop |
| `phase`, `knock`, `revents`, `reading` | where the turn of the loop is, what `poll` reported and is not worked off, and whose requests are being read |
| `told`, `heard`, `owed`, `starts` | history for the properties; no action's guard reads them |

A turn is `Poll`; then `Accept`, if the listening socket was reported; then,
one reported session after the other in any order (`unordered_map`), `HangUp`,
`Write` or `Read`, where `Read` is followed by one action per request and by
`ReadEnd`; then `Served`, the tick and the refresh; then `Publish`. Clients act
between any two of these, as they do while a command blocks the thread, so what
`poll` reported may be old when it is used.

| Action | Code |
|---|---|
| `Accept`, `HangUp`, `Write`, `Read`, `ReadEnd` | `acceptClients`, `handleSocketEvent`, `handleClientWrite`, `handleClientRead` |
| `Subscribe`, `Unsubscribe`, `Status`, `Set`, `TooLong` | the commands, each with `queueResponse` and the flush in it, or with the close that follows a failed `send` |
| `Publish` | `main.cpp:736-745` with `broadcastStatus`: compare, push, drop the stalled |
| `Restart` | the end of the process and the next start; systemd's socket keeps its backlog |
| `Connect`, `SendRequest`, `ReadReply`, `Leave`, `ShutDownSending` | the clients: the widget, `bose-700-cli`, `socat` |

Data. A line is one item. A reply is a push, an answer that holds the status, or
an acknowledgement; `ok` and error are one, since the widget counts both. `Set`
stands for every command that is acknowledged. A socket takes whole lines, as
many as there is room for: the code resumes a half-sent line at the byte where
it stopped, and a model of it adds nothing to the order of lines. The status
has a value and a time stamp: two commits of the same second may give the same
text if the values agree (`SameSecond`).

### The feed it implements (`StatusFeed`)

`StatusFeed` has no sockets, buffers, turns or polls: a client has requests not yet
answered and one queue of lines to read. One atomic `Speak` of the daemon may,
for each client it serves, do nothing, push the new status, or answer the oldest
request by a line of its kind; or it ends the service, which takes the requests
and perhaps the last lines. In the mapping (`Feed` in `IpcServer`) `feed` is the
socket buffer followed by `outBuffer`, `asked` is what is unread of the requests,
and a client that is gone has neither. So a flush that sends half a queue is a
stutter, a broadcast that pushes to one client and drops another is one step,
and a line lost, doubled, or sent past an older one is none.

### Runs

| Run | Instance | Shows |
|---|---|---|
| `IpcShared` | two clients, one of which may half-close; `Pipe` and `MaxOut` 1; 2 requests or restarts, 2 commits; activated; stamps differ | each acknowledgement is queued, on its way, or arrived, and arrives; a subscriber is current at each poll, reads no status older than one before, and ends on the current one; pushes stop at the limit; a client is closed for its own deeds only; all of it implements `StatusFeed` |

Bounds. Two clients show what one does to the other. A buffer and a queue of one
line each make full, half-drained and overflowing queues within two pushes; a
third commit or request repeats one of these. Two operations cover
`subscribe` followed by a `set`, two commands in one read, a restart with one
client in a session and another in the backlog. `Connect` is not counted: a
client may leave and come back in any state. The values need not differ in
`IpcShared`, since the stamp tells two commits apart; so one is enough.

`SameSecond = FALSE` in `IpcShared` is an assumption on time, not on the code:
without it (two `Values`, `SameSecond = TRUE`) `SubscribersCurrent` fails and a
subscriber is left with a status that is over. It takes
a status that changes and changes back within one turn of the loop, and a
client that asks in between, so the assumption is what separates the rule from
that one exception.

Fairness (`FairSpec`): weak on `Loop`, since one thread runs it and `poll` returns
after 100 ms at most, and every handler returns (`HandlersReturn` of
`BmapSession`); weak on `ReadReply(c)`, a client that is there reads its
replies. The first conjunct is about the disjunction of the loop's actions:
which session is served first is left open. `AcksArrive` and
`SubscribersConverge` allow for closed sessions, and a client that never reads
is allowed in the safety properties. Nothing is assumed of commits, requests,
restarts, connects or leaves.

### Proofs (`IpcServerProofs`)

From `IpcAssumption`, for any clients, values, buffers and bounds:

- `ConnectionsAreKept` (`ClosedForCause`). A session ends in `Close` and in
  `Broadcast` only; which action closes whom is read off its guard. It needs
  `LoopInv`: what `poll` reported is reported of open sessions, a hang-up only of
  a client that is gone (nobody comes back on the same connection).
- `SubscribersAreCurrent` (`SubscribersCurrent`), with `~SameSecond`.
  `SubscribersCurrent` by itself says nothing in the middle of a turn.
  `CurrentInv` does: a subscriber that was not told the current status is one that
  the comparison of this turn will serve, because the status differs from the
  one last pushed. Stamps make that last: no status is older than the one
  pushed, so a further commit cannot return to it.

- `SubscribersWithinTheSecond`, with no assumption: where two commits of one
  second may give the same text, what a subscriber was last handed is at least of
  that second. `SecondInv` bounds each hand-out between the status last pushed
  and the status of now.
- `NothingLeftUnheard` carries both to what the client has read. `ToldIsLast` says
  what `told` stands for: it is the last status on its way to the client, or the
  one read last if none is. So a subscriber with nothing on its way has the
  current status at each poll (with `~SameSecond`), or one of its second
  (`HeardWithinTheSecond`). That is all of `SubscribersConverge` but the
  progress.
- `StatusesNeverGoBack` (`NeverBackwards`), from `FlowsClimb`: the stamps in a
  client's whole feed, buffer and queue together, do not decrease, none is
  older than what the client read last and none newer than the status of now.
- `SocketIsAFeed` (`ImplementsFeed`). Each step is `Speak` or a client's step, or
  changes nothing the feed shows. `Goes(c)` says what a step is to client `c`: quiet, a
  push, a reply, or the cut; there is one lemma for each handler (`ReplyGoes`,
  `BroadcastGoes`, `CloseGoes`, ...) that shows which, and `Speaking` puts the
  clients together. `FlowAppends`, that a flush moves lines from the queue to the
  buffer and no further, is what they and `FlowsClimb` rest on.
- `TypeCorrect`, `AcksAreAccountedFor` (`AcksAccountedFor`) and
  `PushesAreBounded` (`PushesBounded`), from one invariant, `LedgerInv`: the
  types, and for each client `Books`, which balances what it waits for against
  what its connection holds. Counting in a queue is by the positions that hold a
  line of a kind, so that the lemmas of finite sets apply: `CountConcat`,
  `CountAppend` and `CountTail` say what happens to a count when a queue grows
  and shrinks, and every action is a sum of these.

Each invariant was model-checked on larger instances than the run first (`Pipe` 2,
or `SameSecond` with two values). Only model-checked: the two liveness
properties.

### Left out of `IpcServer`

The choice of the path and the failures of `start`; half-sent lines;
`customHandler_`, `handlePollEvents` and `pollOnce`, which the daemon does not
call; the limit on answers, which the code does not have.

## 6. `StateFile` and `StatusRegister`: the status on disk

### State and actions

`StatusRegister` is what a reader of `status.json` may count on: a register that
holds nothing or one whole status, that a running daemon sets to the status it
has in memory at that moment, and that a power failure turns back to what it
held earlier. It knows no temporary file and no system call.

`StateFile` is the code. Its state: for each process where it is (`pc`), its
memory (`mem`, the number of its last change), its temporary file (`tmp`,
`tmpSynced`); and `file`, `synced`, and `disk`, what would be there after a power
failure. `saved`, `alone` and `cut` are history. One action is one system call:
`Open`, `Fchmod`, `Write`, `Fsync`, `Close`, `Rename` of `writeAtomic`,
`RemoveFile` and `RemoveTmp` of `cleanup`, `Start` for `initialize` and `Set` for
the setters, all of which end in `writeAtomic` and ignore its failure. Every
call may fail (`GiveUp`). `Kill` and `PowerFails` may come between any two; the
latter keeps of unsynced content whatever it likes. A process number may come
back, and start over the leftovers of its namesake.

### Run

`StateFile` (131,956 states): two processes, side by side or one after the other,
2 changes of each, 2 kills or power failures. Two processes are enough for one
to meet the other's file, a second change for a file that is behind, two stops
for a crash during the recovery from a crash. It shows `OnlyWholeStatuses`,
`FileIsCurrent`, `NoStrayTemp`, and `ImplementsRegister`: under the mapping
`running <- Alive`, `latest <- Latest`, `shown <- file`, `durable <- disk` each
system call is one step of the register or none.

What it does not promise. Two daemons side by side share the file and each
removes it when it ends, so `FileIsCurrent` speaks of a daemon that was alone.
StateEngine.hpp:88 says of `cleanup` that it unlinks "any stale temporary
files"; it removes the one with its own process number, so the one of a killed
predecessor stays, and `NoStrayTemp` allows it (`cut`). The register has no
liveness: a daemon that cannot write need not publish.

### Proofs (`StateFileProofs`)

From `StateFileAssumption`, for any processes and bounds: `StateFileTypes`,
`ReadersFindWholeStatuses`, `FileFollowsMemory`, `TempsAreRemoved`, and
`StateFileIsAtomic`, the refinement. `IInv` adds to the three properties that
what is renamed was written from memory and synced (`TmpIsLatest`), that the
file itself is always synced, and that who is alone has nobody beside it. The
first is why `rename` maps to a `Show` of the register, the second why `disk`
never holds a part.

## 7. `Widget` and `Clients`: the other end of the socket

### State and actions

`Widget` is `Service.qml`: `sock` (the item of `linkLoader`), `posted` (a
`Qt.callLater` that unloads it), `outstanding`, `backoff`, `real`, `pending`, and
its four timers, running or not; then the socket, and of the daemon the promise
of `IpcServer`: requests answered in order, subscribers told the last status. A
handler is an action. What it posts runs before sockets and timers are looked
at again, which is the guard `~posted` of those; a click that is already in the
queue may come first, so the clicks have no such guard. The timers
of five seconds do not fire while a daemon that is up has a line to answer or the
widget one to read (`Late`): this is the only assumption on time.

| Action | Code |
|---|---|
| `Connect` (in `ReconnectFires` and the clicks), `LinkUp`, `AttemptFails`, `Disconnected`, `DisconnectedTwice`, `Unload` | `_connect`, `_onLinkState`, `onError`, `_scheduleReconnect` and its posted part |
| `HandshakeFires`, `DeadlineFires`, `PendingExpires` | the timers |
| `ReadState`, `ReadAck` | `_onLine` |
| `Choose`, `Ask` | the setters with `_setPending`, `refresh`, `reconnect`, through `runCommand` |
| `Answer`, `Execute`, `Push`, `Change`, `Fault`, `Recover` | the daemon: serves, refuses, pushes; is busy with the headset, hangs, ends, comes back |

`Clients` puts one call of `bose-700-ctl` next to it: refused arguments, no
daemon, the request, its answer, the end of the file, or the ten seconds. The
kernel keeps the request of a sender that went away, and `ServeCall` executes
it.

### Run

`Clients` (1,126,728 states): two values, `maxOutstanding` 2 (32 in the code),
`maxBackoff` 2 units, 3 clicks or changes, 1 fault. A full count needs two
commands, and a third is refused; one fault is a busy, hung or dead daemon at
every moment of that. Shown: `AcksInStep`, `NeverStranded`, `WaitsEnd`,
`ExitCodesTell` (of exit code 1 nothing can be said: the daemon may execute the
command after the ten seconds), and `WidgetSettles`.

Fairness: handlers run and timers fire, the daemon serves what it has, its busy
times end (`HandlersReturn` of `BmapSession`), and systemd starts it again. No
fairness of clicks, changes, faults or the command line.

### Proofs (`ClientsProofs`)

From the named assumptions, for any values and bounds: `ClientsTypes`,
`OutstandingIsExact`, `WidgetAlwaysRetries`, `WaitsAreBounded`,
`ExitCodesAreTrue`. The first four properties of the widget are inductive
together once types are known; that the count equals the acknowledgements ahead
is shown with lemmas on counting positions of a queue. `CtlInv` adds where
request, answer and verdict of a call can be at a time.

`WidgetShowsTheDaemon` is what `WidgetSettles` rests on besides progress: on a
working link with nothing on its way, the widget is subscribed, waits for
nothing, and shows the daemon's setting unless a push of it is due. It comes
from `Follows` (model-checked on the instance of the run first): on a link that
was not given up the daemon has yet to read the subscribe, or the last status
on its way, or else the one shown, is the last the daemon sent. Only
model-checked: `WidgetSettles`.

## 8. `Deploy`: the installer

### State and actions

The directory (`dir`, its number: it may be removed and made again), its entries
(absent, directory, symbolic link, or a file with its text and mode), and for
each call its step, job, names left to do, the directory it has open, its
sources. One action is one system call with the test that follows: `Start`,
`Walk`, `Compare`, `Checkout`, then for each name `Target`, `Create`, `Copy`, `Seal`,
`Rename`; `List`, `Stat`, `Unlink`, `Rmdir` for remove. A listing may be refused, or
end early without a word; `missed` keeps what it left out. Calls may fail, be
killed, run side by side, and the user may change an entry at any time (`Meddle`).

### Run

`Deploy` (2,795,437 states): two process numbers, two given names, one the
pattern of remove matches, one (`.git`) that no call is given; two texts; 2
starts, 1 change by the user, 1 fault; symmetric in the processes. Two starts
are two calls side by side, or one after the leftovers of a killed one with the
same number. Shown: `OnlyWholeFiles`, `ExitZeroIsTrue`, `StrayTempsAreFew`,
`LeavesTheRest`. `ExitZeroIsTrue` speaks of the names nobody else touched, where
`others` keeps the changes by the user and by the other call, and excepts the
names in `missed`. That exception hides a flaw: deploy.cpp:316 takes any NULL of
`readdir` for the end of the directory, so a listing that fails half-way makes
`remove` leave matching entries and exit 0, where the usage promises that the
pattern "matches every entry with that prefix" and 0 means success
(deploy.cpp:23-27). With `missed` taken out of the property TLC finds it at once.

`copyAll` ends the program when a write fails, before the removal of the
temporary file that the other failures do: `StrayTempsAreFew` counts such a
fault like a kill, and so would not notice that leftover, only one by another way.

### Proofs (`DeployProofs`)

From `DeployAssumption`: `DeployTypes`, `NamesHoldWholeFiles`, `TheRestIsLeft`.
`IInv` adds that put works on given names only (`OnTask`) and that the temporary
of a call holds all of its file, with its mode, before the rename
(`TempIsReady`); two calls never share a temporary, since its name has the
process number.

`ExitCodesAreTrue` (`ExitZeroIsTrue`) needs to know what a call may claim at each
step before its exit. `EInv` says it: a name that left a put's list without an
error holds the file asked for unless someone else touched it, one that left a
remove's is gone (also where the directory itself was removed meanwhile) or was
left out by the listing, a call that may make an entry has a directory open, and
a directory that is not there has no entries. `OthersKnow` is the half about
the other call: an entry one call changes is in the other's `others`.
`StraysAreCounted` (`StrayTempsAreFew`) adds that the strays are finitely many,
which `Cardinality` needs, and shows action by action that only a kill or a failed
write adds one, together with a fault.

## 9. `BmapCodec`: the bytes

### State and actions

`device` holds a byte for each register of the headset, `known` the settings of
`BoseState` with their types, `wire` and `buf` the bytes on their way and those of
`StreamParser`. `Command` builds a request with `Packet` and `Build`, and the
headset takes it apart; `Tell` sends the status of a field, with anything above
the operator in the third byte; `TellOther` sends errors, messages too short
and messages of other functions; `Feed` is one `recv` of any length; `Take` is
`StreamParser::next` and what follows: the payload of a status is applied
(`Applied` is `applyPayload` with the parsers in it); `Reconnect` is `reset`.
`Touch` changes a register at the headset; what its byte means (`Means`) is
written down from the payloads documented at BmapProtocol.hpp:166-175 and what
the daemon says of them, not from the parsers, so that the parsers are checked
against it. (The table there says bit 1 of multipoint is the switch; the comment
at 224-227 explains why the code reads bit 0, and so does `Means`.)

`got`, `sent`, `total`, `begins`, `asked`, `told` are history.

### Run

`Codec` (2,076,320 states): seven commands, one at least for each setting, ends
of ranges and negative values among them; two touches; four other messages; 2
messages on a connection, 1 command or change. A stream of two messages has
every kind of cut: in a header, in a payload, between the two, both in one
piece; a third meets the parser in a state it was in before. `MessagesAsSent`
and `PublishedAsAsked` hold. That all values agree is proved, not enumerated.

### Proofs (`BmapCodecProofs`)

From `CodecAssumption` and `InputsAssumption` (commands are what `IpcServer` lets
through, registers hold what the headset can have in them, other messages do
not tell a setting): `FramingIsSound` and `SettingsSurvive`, for every value,
payload, cut and bound. The invariant is `CodecInv`:

- `Stream`: `begins` says where in all bytes of the connection each message is
  (`Written`); those handed out are the first ones (`Handed`); the buffer and the
  wire are what comes behind them (`Held`). It is stated by positions, since
  nothing about sequences can be proved by induction here.
- `Agrees`: what was asked for is what the registers mean, so that both ways a
  setting can change are the same from here on.
- `AllTold`: of a field whose status was sent since its last change, every later
  status in the stream is that one; and if it was handed out, `known` is right.

## 10. Left to model checking, and not modelled

Liveness under fairness is out of the prover's reach everywhere. Every safety
and action property that a run checks, and both refinements, are proved; the
nine liveness properties are model-checked only: `EventuallyConnects`,
`NudgesGoOn`, `ConnectingEnds`, `OutageIsPublished`, `Converges`,
`HandlersReturn`, `AcksArrive`, `SubscribersConverge`, `WidgetSettles`.

Not modelled, and why:

- `Panel.qml`, `BoseIcon.qml`: they render what `Service.qml` exposes and keep no
  state of the protocol. `Model.js` parses and formats; its result appears as
  the value of a status.
- `setup` and the units: package installation, without state of their own; what
  socket activation means for the daemon is `Activated` in `IpcServer`.
- Tests and the mock daemon, mock mode, option parsing, logs.
- The numbers of the back-off. `computeBackoffMs` (BluetoothManager.hpp:71-77)
  adds 0, 10 or 20 % after the cap, where the comment above it says "capped"
  and "+/-20%"; a pure function of one argument, better tested than modelled.
- The default path of the socket: without `XDG_RUNTIME_DIR` the command line
  looks for `/tmp/run-UID/bose-700.sock` and the daemon binds
  `/tmp/bose-700-UID.sock` (cli/src/main.cpp:80, IpcServer.cpp:104). Paths are
  not part of any model.
- In `BmapCodec`: the name and the firmware version, which are strings taken as
  they are, the names of the languages, `parse_response`, which only tests call.
  A CNC payload whose maximum byte is 0 gives a maximum of 255
  (BmapProtocol.hpp:195); the headset sends 11, and `Payload` says so.
- Answers that are neither STATUS nor ERROR, for a field: `transact` would
  return and apply them; `InputsAssumption` leaves them out, as the headset is
  not known to send any.
- Real time: timers fire in an order the guards allow, not after milliseconds.

## 11. Running the checks

In this directory, for a run `X` of `PROJECT.json` and its module `M`:
`tlc -workers 2 -config X.cfg M`; for a proof module: `tlapm M.tla`. No run
needs much more than two minutes, no proof module much more than five.
