# A TLA+ model of bosch-ble

bosch-ble is a set of Linux command-line tools that talk to a Bosch eBike over
Bluetooth LE: they prepare the controller through BlueZ (or go through an
ESPHome proxy), pair, connect, answer the bike's MCSP handshake and its
MessageBus requests, and show what it sends. This directory models the part of
it that is concurrent, retried, or able to fail half-way, checks it with TLC,
and proves its safety properties with TLAPS. Paths such as `live.py` are under
`src/bosch_ble/`.

## 1. The system

| Component | State it keeps | Operations | Modules |
|---|---|---|---|
| Live MCSP session (`live.py`) | send queue with its unfinished count, pending startup replies, accumulated commands, handshake future, writer task, subscription | `start`, `stop`, `wait_for_handshake`, `queue_handshake_response`, `queue_packets`, `_writer`, `_notify_handler` | `LiveSession`, `StartupStream` |
| main of `handshake.py`, `dashboard.py` | stop event set by SIGINT/SIGTERM, phase, last screen | start, wait, answer, hold, print every second, stop | `LiveSession`, `Dashboard` |
| Dashboard state (`dashboard.py`) | last values, derived battery and charger fields | apply a message | `DashboardState`, `Dashboard` |
| `connected_client` (`live.py`) and security staging (`dump_gatt.py`) | attempt number, device handle, Bleak client | resolve, prepare, connect, stage, yield, retry | `ConnectClient` (BlueZ), `EsphomeClient` (proxy) |
| BlueZ host preparation (`bluez.py`) | controller set-up, scan, snapshot of the device | scan, preflight, six `btmgmt` commands, readiness check, connection parameters | `BluezHost` |
| Assisted pairing and its agent (`bluez.py`) | registered agent, number of tries | register, pair, retry, trust, connect | `AssistPairing` (partly) |
| MGMT helper (`mgmt.py`) | a raw socket under a time-out, a receive buffer and an offset | bind, send, receive, parse | `Mgmt` |
| btmon capture (`bluez.py`) | process chain, pump task, trace file, ready event | start, wait for banner, body, terminate, kill, drain | `BtmonCapture` |
| Connection trace experiment (`trace_connect.py`) | outcome | preflight, connect, settle, recheck, grade the trace | `TraceConnect` (partly) |
| Pairing diagnostic (`bluez.py`) | attempt, its summary | preflight, capture, assist, summarise, next | `PairDiagnostic` |
| MCSP codec (`mcsp.py`) | none | frames, splitting, commands | `Mcsp` |
| MessageBus codec and startup responder (`messagebus.py`, `handshake.py`) | none | messages, responses | `MessageBus` |
| Scanner and ignore list (`scan.py`) | devices seen, filters, rows, selection, ignore list and its file | detection, refresh, toggles, save, load | `IgnoreStore`, `Scanner` (partly) |
| ESPHome proxy (`esphome_proxy.py`) | reconnect logic, scanners registered in habluetooth, undo functions | `on_connect`, `on_disconnect`, set-up, teardown | `EsphomeClient` (partly) |
| `log_chars.py`, `probe.py`, the listing of `dump_gatt.py`, `validate_live.py` | subscriptions, output file, snapshots, stop event | subscribe, read, write, compare, unsubscribe | `GattTools` (partly) |
| `_common.py` | none | argument parsing, formatting | not modelled |

### How they interact

* One asyncio loop runs the main coroutine, the writer task and the callbacks
  Bleak makes for each notification. They share the queue, the future, the list
  of pending replies and the dashboard's fields without locks; only an `await`
  that suspends is a switching point, so an action of `LiveSession` is what runs
  between two.
* `connected_client` calls `resolve_device`, then `connect_device`, which runs
  `prepare_connect_attempt`, then opens a Bleak client and stages the security.
  `assist_connection` runs the same `prepare_connect_attempt` before each try
  to pair. Both modules therefore extend `BluezHost`. Its last step, loading the
  connection parameters, runs `mgmt.py` as a subprocess, whose inside is `Mgmt`.
* With the ESPHome backend the same retry loop opens `esphome_proxy_context`
  instead; aioesphomeapi calls `on_connect` and `on_disconnect` from tasks of the
  same loop. The GATT tools are bodies of such a connection.
* `capture_connection` and the pairing diagnostic run their experiments in the
  body of `btmon_text_capture`; both modules extend `BtmonCapture`.
* Scanners share one ignore file and nothing else.
* The bike, bluetoothd, the kernel, the proxy, the btmon processes and the user
  are the environment.

### What is hard here

A time-out racing the callback that settles a future; replies produced before
the handshake they must follow; `queue.join()` waiting for a writer that died;
several errors of which one must be raised; a retry that inherits the half-made
state of the attempt before; a snapshot, a device handle or a link state that is
stale when it is used; advertisements that change during a scan; a process
killed while others hold its pipe; a file rewritten in place by two processes; a
stream of events cut anywhere by `recv`; a proxy that drops and comes back while
a callback fails half-way; a SIGINT in the middle of a clean-up; one undecodable
frame among good ones; header fields that share a byte. `PROJECT.json` lists each
hazard with its line and the properties that watch it.

## 2. Modules and their relation to the code

```
Packets <- StartupStream (abstract)              BluezHost <- ConnectClient
   ^            ^ refined by                          ^------ AssistPairing
   +------ LiveSession <- Dashboard <- MCLiveSession
            DashboardState <--+                  BtmonCapture <- TraceConnect
Mcsp <- MessageBus <- StartupExchange                 ^--------- PairDiagnostic
                          ^-- MCStartupExchange
IgnoreStore <- Scanner <- MCScanner              Mgmt <- MCMgmt
EsphomeClient <- GattTools
```

An arrow points to the module that is extended. The modules named `*_proofs`
extend the ones they are about: `Bluez_proofs` extends `ConnectClient` and
`AssistPairing`, `Capture_proofs` extends `TraceConnect` and `PairDiagnostic`,
which is why those pairs of modules have no name in common. `LiveSession_proofs`
extends `Dashboard`, `Codec_proofs` extends `StartupExchange`, and both extend
`Recursion_proofs`.

**LiveSession.** `queue` and `unfinished` are `asyncio.Queue` with its
`task_done` count, `pending`/`startupReady`/`commands`/`future` the fields of
the same names, `wpc` and `inflight` the writer task, `pc`, `join`, `stopError`,
`raised` the main coroutine in `wait_for_handshake`, `queue_handshake_response`
and `stop`. A notification is a sequence of frames, reduced to what each does to
the session: a command, a number of replies, or a callback that raises. `tool`
is `handshake.py` (stops by itself) or `dashboard.py` (holds until a signal).
The history variables `sent`, `replies` and `skipped` record what was written,
what was owed and whether a callback left early.

**StartupStream** is the abstract promise: the bytes written are a prefix of one
stream, the handshake response and then the replies in the order of the
requests; what is owed is written unless the session gives up; a clean stop has
written everything. `LiveSession` implements it by the refinement mapping
`Stream`.

**DashboardState** is `apply_message` on bytes: the varint reader, the fields it
finds, the battery and charger derived from two reports each. **Dashboard**
composes it with the session: `DNotify` is a notification whose messages reach
`on_message`, `Refresh` the print of each second, `Closing` the last print in
the `finally` clause. The tool `handshake` runs through it with no display.

**BluezHost** has the bike's advertising, the controller (`setup`: which steps
are in force since the last reset), the scan with its detection callbacks, and
the snapshot. **ConnectClient** adds the loop of `connected_client` and
`stage_bosch_security`; **AssistPairing** adds `assist_connection` (`stage` is
where it stands, `thrown` what it raises). Every call that awaits another process
may raise: the command that sets the controller up, the scan and the stop of the
scanner, the D-Bus calls, the reads of the state, the disconnect of the Bleak
client. What is tried again follows the code's look at the text (`Retryable`):
"operation already in progress" is, from the host as from Bleak, so that an
attempt may find the controller half configured by the one before.

`AssistPairing` assumes that nobody removes the bond or the trust while
`assist_connection` runs: `paired` and `trusted` do not go back to "no" in it. The
last check of the code looks at the link only (`bluez.py:1058`), and
`SuccessIsBonded` would not survive a user who removes the device in between. A
fixture that answers every read of the state with `paired=False`
(`tests/test_cli_entrypoints.py:338`) serves three roles and is not such a user.

**EsphomeClient** is the same loop over the proxy: `link` is the reconnect logic,
`unsetup` and `unregister` whether `on_disconnect` holds the undo functions of a
scanner, `setUps` and `registered` what habluetooth holds, `cleanup` the task the
teardown schedules and nobody awaits. Two assumptions: the disconnect callbacks of
bleak_esphome, which `on_disconnect` calls before its undo functions
(`esphome_proxy.py:91`), do not raise, as they belong to a library that this
repository does not contain; and every attempt has a holder of undo functions of
its own, so that scanners are counted from zero in each (`FreshLink`):
`NoScannerLost` speaks of one attempt at a time. **GattTools** puts the bodies of
`log_chars.main`, `probe.main` and the listing of `dump_gatt.main` into it.

**Mgmt** is the helper on the level of bytes: the kernel appends whole events to
`stream`, `recv` returns any non-empty piece of what has been sent, and the
reader walks its buffer with an offset as the code does. The management socket
is treated as a stream of bytes although the kernel keeps its messages apart:
the code makes no use of that, and the stream has every behaviour of both.

**BtmonCapture** has `timeout` (`proc`), everything under it (`script`), the
pipe (`written`), the trace file (`filed`), the pump and the context manager
(`cap`). **TraceConnect** and **PairDiagnostic** run in its body, and its own
steps leave their variables alone (`Capture(A)`).

**IgnoreStore** is the ignore list: what each scanner has in memory and what the
file holds while it is truncated, rewritten, overwritten by another process or
left by a killed one. **Scanner** adds one scanner's devices, filters, rows,
selection and the `RowHighlighted` messages on their way; a handler that ends in
`refresh_view` has it inside its action.

**Mcsp** and **MessageBus** are the codecs on numbers and sequences: shifts and
masks are divisions and remainders, `ValueError` is `Malformed`.
**StartupExchange** puts them on the wire both ways: a bike that sends items
alone, two to a notification or cut in two, the notification handler, and the
bike's decoding of the answers. Its properties are stated on messages (`Owed`),
independently of the codec's structure. The address tables are constants.

## 3. What the runs check

| Run | Shows | Result |
|---|---|---|
| `session` | order of packets, silence without a handshake, no missed handshake, no hidden writer failure, a clean stop flushes, quiet after stop; a display that says what the reports received say, gets on the screen, and ends as disconnected; both tools end; the session implements `StartupStream` with its liveness | holds |
| `connect` | what each connect rested on, freshness of the handle, security of the body, over three attempts; they end | holds |
| `assist` | readiness of each try, scope of the agent, meaning of success; pairing ends | holds |
| `trace_connect` | the capture surrounds the experiment and is stopped; what `baseline_reached` rests on; the experiment ends | holds |
| `pair_diagnostic` | a summary covers a whole trace; captures never overlap | holds |
| `startup_exchange` | every answer and command arrives as meant, in order, whatever shares its notification | holds |
| `mgmt` | the status reported is the kernel's answer, whatever pieces `recv` returns and whatever resembles it; an answered command ends the helper | holds |
| `scanner` | what the table hides, what the ignore file keeps when nothing disturbed a save, and that table and selection catch up | holds |
| `gatt_tools` | no scanner lost over reconnections, no change missed between snapshots, a prompt stop, no notification to a closed file, the tools end | holds |
| `silent_disconnect` | `DisconnectSurfaces` | violated |
| `body_error` | `BodyErrorSurfaces` | violated |
| `baseline_parameters` | `BaselineParameters` | violated |

The three violations state what `docs/current-design.md` says and the code does
not do; each counterexample is an execution of the model that the code allows:

1. The dashboard holds a dead link until a signal comes (`dashboard.py:243`).
2. An error of the body of `connected_client` whose text looks retryable is
   replaced by contextlib's "generator didn't stop" (`live.py:158`). The run
   looks at errors of the body only: an error that the disconnect of the client
   raises after it takes its place before the flow sees either.
3. If writing the trace fails late, `baseline_reached` survives the error and is
   graded on the part that was written (`trace_connect.py:69`).

### Known differences without a run

* An advance for the command channel, which `decode_command` accepts, hides a
  complete handshake for ever, because the advanced channels must *equal* the
  expected set (`live.py:68`; line 105 of the document speaks of the commands
  having been seen). `HandshakeNotMissed` states the check as the code makes it.
* After SIGKILL only `timeout` is gone; `script` and btmon go on unbounded and
  the pump waits for them (`bluez.py:1260`; line 220 of the document promises a
  bounded capture). `ExperimentEnds` is stated up to that state, `Orphaned`.
* Line 104 of the document speaks of fragmented command frames accumulated across
  notifications: commands that arrive whole do accumulate (`HandshakeNotMissed`,
  `CommandsMatch`), while a frame cut over two notifications is dropped, as the
  model has it (`BikeCuts`).
* Line 80 puts the loading of the connection parameters before the connect
  attempt: `assist_connection` skips it for a device that is already paired, as
  a test expects.
* The ignore file can be lost: it is truncated and rewritten in place, so a kill
  between the two leaves an empty list, and two saves at once may leave text that
  does not parse, which loads as an empty list. A scanner also overwrites what
  another one saved since it loaded. No document promises otherwise;
  `ListSurvives` covers the undisturbed saves (`spoiled = FALSE`) and speaks of
  the list saved last, by whichever scanner.

### Bounds

* Sessions: channels 0 to 2 (the check compares sets of channels, two data
  channels show every way of being incomplete), up to three notifications drawn
  from five that split, reorder, repeat and interrupt the handshake. Frames give
  at most two replies, as in the code. Each notification carries reports that
  give, withdraw and garble every field the display derives.
* Connecting: three attempts as in the code; the bike changes its advertising and
  drops the link without limit. Pairing: three tries as in the code.
* Proxy: two attempts and two calls of `on_connect` in each (one reconnection
  shows what a later call does to the functions of the earlier one); two
  characteristics to subscribe to, one to read with two values, three writes, so
  that a snapshot that failed lies between two that did not.
* Capture: four lines of trace, enough for the banner, ATT traffic and both
  kinds of parameters in every order; two lines for each of the four attempts of
  the diagnostic.
* MGMT: three events drawn from six: a success, a failure, another opcode's
  answer, one too short for a status, one with no payload, and one whose payload
  contains the bytes of an answer; `recv` cuts them in every way.
* Scanner: two scanners, two devices, one `RowHighlighted` message on its way.
  Saves, kills and launches are unlimited.
* Codecs: two items, each of 50 requests (every type, every class of address,
  smallest and largest source and sequence), silent messages, commands and
  malformed payloads, alone, paired or cut at every byte. Payload lengths beyond
  these are covered by the proofs.

`CHECK_DEADLOCK FALSE` is used where the system really stops: after a capture's
experiment is done and when the bike has nothing more to send.

### Fairness

The main coroutines, the writer and the host steps are weakly fair: each awaited
Bleak call, subprocess or D-Bus call returns or raises, most of them under an
explicit time-out in the code. So are the print of the dashboard and the refresh
of the scanner (timers of a running loop), the end of a file write, the reader
of `mgmt.py` (`recv` returns or times out) and the task that stops the proxy. The
bike, the link, the proxy, the kernel and the user are never fair;
`DisconnectSurfaces`, `ToolEnds` and `AnswerEndsIt` are conditioned on what they
did. For the capture, `script` ends fairly only while `timeout` lives and
somebody reads the pipe (`BoundedScriptEnds`): that is what the 180 seconds
guarantee. A `write_gatt_char` that never returns would hang `stop()`; the code
has no time-out there, and the model assumes that Bleak returns.

## 4. What is proved

All theorems hold for every value of the constants; the only assumptions are the
named ones of the modules (`SessionAssumption`, `DashboardAssumption`,
`AttemptsAssumption`, `MgmtAssumption`, `ScannerAssumption`, ...), which are
about the types of the constants and which TLC evaluates in the runs. Two say
more. `ItemsAssumption`: what the bike sends fits the fields of its own frames (a
payload of at most 4095 bytes, an advance of four bytes), a request carries no
status, and a garbage payload is one that its channel's codec does not read.
`ResponderAssumption`: a value in `STARTUP_PROVIDER_PAYLOADS` fits a frame with
its five bytes of header; the code leaves that to `encode_frame`, which raises
beyond 4095 bytes, and the values of that table have a few bytes each.

**The session** (`LiveSession_proofs`), for any finite set of channels, any
notifications, any bound and both tools. The order of the packets is not
inductive on what was written alone: a startup reply could sit in the queue
before a handshake packet. `IInv` therefore follows a packet through the pending
list, the queue, the write in flight and the packets sent (`HandshakeFirst`),
knows that nothing but the close marker is queued before the handshake is
answered (`Phases`), that the writer never takes the marker for a packet
(`WritesPackets`), and that `stop` ends after the writer (`StopJoins`).
`TypeCorrectness`, `HandshakeGoesFirst`, `SilenceWithoutHandshake`,
`WriterFailureIsReported`, `FutureIsSettledOnce` and `NoWriteAfterStop` follow
from it. `FutureIsSettledOnce` has no run; `HandshakeIsNotMissed` is an
invariant of its own (`DetectionFrame`: no step but a notification touches
detection).

That no packet is lost needs more than order. `StreamInv` adds to `IInv` that
what was sent, the packet in flight, the queue and the pending list concatenate
to the stream that is owed, also around a close marker that replies may follow
(`Whole`); that the writer lives until `stop` ends it (`Alive`); that a stop
without an error has withdrawn the subscription (`Withdrawn`), so that what
`join` waited for was all there was (`Drained`). It gives `HealthyStopHasFlushed`
and `SessionStreams`: the session's initial states and steps are those of
`StartupStream`, or stutters. The fairness part of the refinement stays with TLC.

**Recursion** (`Recursion_proofs`). The readers of bytes are recursive functions
and the display is a fold; what they compute is known to the prover only once a
function that satisfies the recursion is known to exist. `RecursionExists` shows
it for any recursion whose argument descends in a rank: functions that satisfy
it below a rank agree below that rank (`RecursionUnique`, by a least
counterexample), so there is one for every rank, and together they make one for
all. Predicates are sets there and steps are functions, so that the theorem can
be instantiated, which the library's induction theorems cannot.

**The dashboard** (also `LiveSession_proofs`). `DashboardRunsSession`: with its
display left out, it is a session, so all of the above holds of it.
`ScreenIsFinal`: the last screen says "disconnected" unless `session.stop()`
raised. `DisplayIsTrue`: the display says at every moment what the reports
received say, taken together, for reports of any values, any number of them and
in any order. Its invariant `DisplayInv` keeps the display `Faithful` to the
history, the inputs of each derived field included: the battery shown is the
system's unless only a pack has reported, and so on. Below it lie three results:
`ReportIsRead`, that the varints and fields the bike writes are read back by
`_parse_protobuf_fields` whatever their values; `FaithfulStep`, that one call of
`apply_message` keeps the display faithful; and `FaithfulFold`, that the calls of
one notification do.

**Connecting and pairing** (`Bluez_proofs`). `HostInv` says that the snapshot
retains what its scan heard, and that each step of `prepare_connect_attempt`
rests on every step before it since the reset; it is kept by each step of the
host and of the bike, whichever caller runs it. `ConnectWhenReady`,
`TargetFresh`, `BodySecured` and `PairingRetained` follow for `connected_client`
and any number of attempts, `PairWhenReady`, `AgentScoped` and `SuccessIsBonded`
for `assist_connection` and any number of tries. The invariants of the two tie
the place of the coroutine to the place of the host's procedure, and keep what
was read of BlueZ true while it is relied on.

**The capture** (`Capture_proofs`), for traces of any length and any number of
attempts. `CaptureInv` is kept by each step of the context manager, the pump and
the processes, whatever runs in the body: a capture that has not begun has
nothing left of the one before (`Fresh`), the clean-up has signalled or reaped
the process wherever it stands (`Stopping`), the Event is set only by a banner
that is in the trace (`Announced`), the end of file comes after the last writer
(`AtEndOfFile`), and a context that is left without an error ran its body under
a living capture and drained it (`Witnessed`). The experiment adds that its body
goes on only after a ready preflight (`Experiment`), which gives
`CaptureBeforeScan`, `CaptureStopped` and `BaselineEvidence`; the diagnostic adds
that each summary listed was read when its own trace was whole (`Listed`), which
gives `SummaryIsWhole` and `OneCapture`.

**The proxy and the tools** (`GattTools_proofs`), for any number of attempts, of
calls of `on_connect`, of characteristics and of writes. `NoScannerLost` needs
that `on_connect` and `on_disconnect` take turns (`Alternating`): a call finds no
undo function that it would overwrite. `StopIsPrompt` bounds what was read since
STOP together with what this round still has to read (`Prompt`);
`NoLateNotification` follows from who may still be subscribed at each step of
the clean-up (`Filed`). `NoChangeMissed` is an action property: a step that
compares two snapshots reports every difference from the value last read
(`Latest`).

**MGMT** (`Mgmt_proofs`), for any events, any number of them and any cuts: the
bytes sent are a sequence of events (`Framed`), the reader stands between two of
them (`InStep`), an answer never lies behind it (`NotPassed`), and it waits only
when it holds no whole event (`Starved`). Hence `ReportsTheAnswer`.

**The scanner** (`Scanner_proofs`), for any number of scanners and devices:
`IgnoredStaysHidden`, and `SavedListIsLoaded` from the fact that an undisturbed
save is alone and writes the list saved last (`AloneWhileSaving`).

**The codecs** (`Codec_proofs`) lose nothing at any length and value:
`FrameRoundTrip` (channels, flags, payloads of 0 to 4095 bytes),
`CommandRoundTrip` (commands whose fields fit their bytes), `MessageRoundTrip`
(notifications, requests and the bike's own responses), `ResponseRoundTrip`
(what `_encode_response` writes, with or without a status byte, decodes to the
mirror image of the request). They rest on lemmas about bit fields as remainders
(`HeaderFields`, `AddressFields`, `TwoBytes`, `FourBytes`) and about
concatenation (`Rest`).

**The exchange** (also `Codec_proofs`): `AnswersArrive` and `CommandsArrive`, for
any requests, any values provided and any number of items, alone, two to a
notification or cut in two at any byte. `AnswersMatch` is not inductive: it says
nothing while something is under way. The invariant counts: what the bike has
heard, with what it will hear of the packets and of the notifications under way,
is what the items sent whole are owed, and so for the commands (`Balanced`, up to
a subsequence once a frame was cut, since the rest of a cut frame may be read as
anything). Each step then moves a part from one place to the next:

* a notification of one or two frames is split into these frames, with none left
  over (`OneFrame`, `TwoFrames`, from the recursion of `SplitFrames`);
* a frame is decoded to the item that it was made from, is answered by the packets
  it is owed, and these are decoded to the intended messages (`AnswersAreOwed`,
  `ItemSurvives`);
* what a sequence of notifications gives is what its parts give, laid end to end
  (`FlattenConcatenated`, `GatheredParts`), so that handling the first of them
  leaves the total as it was (`TotalOfHandled`), and sending one adds to both
  sides (`BalancedSent`) or, when it is cut, to what is got only (`BalancedCut`).

When nothing is under way the balance is the property (`ExchangeSettles`).

Every safety invariant and every action property that a passing run checks is
stated by a theorem. Left to TLC: liveness (`ToolEnds`, `ScreenCatchesUp`,
`FlowEnds`, `AssistEnds`, `ExperimentEnds`, `AnswerEndsIt`, `ViewCatchesUp`) and
the fairness part of the refinement `ImplementsStream`, because `ENABLED` is
beyond the prover.

## 5. Not modelled

* Formatting, log lines, the layout of the dashboard's screen, the order and the
  rendering of the scanner's rows, the details panel, the mounting of widgets.
* Argument parsing and `_common.py`: no state. `validate_live.py` runs the tools
  one after the other as subprocesses and keeps nothing between them.
* The text parsing of btmon traces (the model has the facts they look for); D-Bus
  encodings; the bytes of the MGMT command itself, a fixed layout.
* `scan_via_esphome` and `esphome_bleak_client`, which the tools modelled here do
  not call; the D-Bus methods of the pairing agent, which keep no state;
  `aioesphomeapi` and `habluetooth`, external, as the code uses them.
* `assert_controller_ready` is a choice of outcome: its list of processes is the
  operating system's. `connect_device` inside `TraceConnect`, and
  `assist_connection` inside `PairDiagnostic`, return or raise, their inside
  being the subject of `ConnectClient` and `AssistPairing`; `check_host` and
  `check_capture` of the trace experiment are left out.

## 6. What could follow

1. Abstract specifications of the connecting and capturing components, as
   `StartupStream` is one of the session.
2. `StartupExchange` as the source of the frames that `LiveSession` takes as
   given, and longer exchanges.
3. A model of the ignore file with a temporary file and a rename, should the code
   adopt one: `ListSurvives` would then need no `spoiled`.
