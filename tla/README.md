# Verification of hdcutils

TLA+ modules, TLC runs and TLAPS proofs kept beside `hdcutils`, a pure-socket
Python client for the HarmonyOS device connector (hdc). Paths below are
relative to `src/`.

## The system

```
 program ── HdcClient (core.py) ── HdcDevice (_device.py)
               │  liveness cache       │ FileTask / AppTask (_task.py)
               │  _server.py           │ ForwardedSocket
               ▼                       ▼
          HdcChannel / ShellSession / TaskChannel   (_connection.py, _task.py)
               │  one TCP connection per command, frames [u32 BE length][payload]
               ▼
          hdc server  (own process, PID file, port 8710)  ──  daemon on the device
```

| component | state | operations | interacts through |
|---|---|---|---|
| frame codec (`_proto.py`) | none | `encode_frame`, `decode_frame`, handshake fields | bytes |
| frame reader (`_connection.py`, `_FrameReader`) | buffer | `read_frame(timeout)` | socket `recv`, timeouts |
| command channel (`HdcChannel`, `execute`, `stream`; `HdcClient._execute`) | socket, reader, deadlines | `open`, `send_command`, `frames`, `close` | the server's handshake and frames; generators that the caller may leave |
| interactive shell (`ShellSession`) | channel, `eof` | `send`, `recv`, `read_until_close`, `close` | frames in both directions |
| task channel (`_task.py`, `TaskChannel`) | channel | `open`, `send_cmd`, `recv` | `[u16 LE cmd][payload]` frames and plain texts |
| file send / recv (`FileTask`) | deadline, file position, summary | `send_file`, `recv_file` | turns with the daemon |
| install / uninstall (`AppTask`, `HdcDevice.uninstall`) | deadline, verdict, texts | `install`, `uninstall` | turns with the daemon |
| serialization (`_serial.py`) | none | `serialize_message`, `parse_message`, DATA header | bytes |
| server lifecycle (`_server.py`, `HdcClient._ensure`) | `_server_ok_until`; PID file and processes outside | probe, ensure, start, kill, restart | TCP probe, PID file, signals, the hdc binary |
| targets (`core.py`) | the deadline of `wait` | `list_targets`, `device`, `wait`, `connect`, `disconnect` | one command each, `wait` one per poll |
| port forwarding (`_device.py`) | the server's table of rules | `fport`, `rport`, `fport_list`, `fport_remove`, `fport_remove_all`, `create_connection`, `ForwardedSocket.close` | commands; a local port anyone may take |
| screenshots (`_device.py`) | a temporary file on the device | `screenshot_data`, `read_file` | shell commands of several threads, tools that outlive them |
| directory transfers, file contents (`_device.py`) | none | `send_dir`, `pull_dir`, `read_file`, `write_file` | several transfers or shell commands |
| device wrappers (`_device.py`) | none | shell, app, parameter, input, power commands | one shell command each, regular expressions |
| command line (`cli.py`) | none | argument parsing | calls of the above |

**What is hard here.** The stream may be cut anywhere and time out anywhere.
The end of a response is an EOF for one kind of command and silence for the
other, and a crash of the server can look like either. In a task both sides take
turns, each with its own idea of who may stop: the client's sockets may be full,
the daemon may refuse at any point, texts and verdicts come in any order, the
local file may change under the transfer. Deadlines are computed anew at every
read. The server is a process that anyone may kill or start; its PID file and
the client's cache are both stale from the moment they are written. A
forwarding rule is known by its port alone, and ports are reused. An operation
made of several commands sees of each only a text, which may be cut without a
sign of it, and others act between any two of them. The `hazards` of
`PROJECT.json` list these by line.

## The modules

| module | models | state ↔ code |
|---|---|---|
| `FrameCodec` | `encode_frame`, header and payload of a frame at a position of a byte sequence | operators over `Base`-valued bytes, four-byte header |
| `FrameStream` | abstract: a byte stream read frame by frame, no chunks, no timeouts inside a frame | `pos`, `outcome` |
| `FrameReader` | `_FrameReader.read_frame`, line by line: one action per branch of its loop | `wire` what the server wrote; `rd - start` bytes are `_buf`; `out` the payloads returned |
| `MCFrameReader` | streams for TLC, written ones with their payloads, a recursive reference decoder | |
| `TaskChannel` | `TaskChannel` and the connection under a task; whole frames (that they arrive whole is `FrameReader`'s result) | `up`, `down`: all frames written; `ut`, `dn`: taken; `peer`: open, EOF, torn, reset |
| `AbsSend` | abstract: what `file send` promises | `remote`, `outcome` |
| `FileSend`, `MCFileSend` | `send_file`/`_send_master` and the slave daemon | `pc` the point in `_send_master`, `size` = `st_size`, `pos` = `index`, `summary`; daemon `want`, `chunks`, `remote` |
| `FileSendProofs` | theorems about `send_file`; `AbsSend` implemented | |
| `AbsRecv` | abstract: what `file recv` promises of the local target | `dest`, `found`, `acked`, `outcome` |
| `FileRecv`, `MCFileRecv` | `recv_file`/`_recv_slave` and the master daemon | `file` = `local_file`, `dest` the local target, `summary` |
| `FileRecvProofs` | theorems about `recv_file`; `AbsRecv` implemented | |
| `AbsApp` | abstract: what `install` and `uninstall` promise | `bundle`, `outcome` |
| `AppTask` | `install`/`_install_flow`, `uninstall`/`_plain_result`, `HdcDevice.uninstall`, and their daemon | `success`, `size`, `pos`, the texts; daemon `want`, `got`, `bm` the bundle manager |
| `AppTaskProofs` | theorems about `install` and `uninstall`; `AbsApp` implemented | |
| `MessageWire`, `MCMessageWire` | `_serial.py`: `serialize_message` and `parse_message`, a step for each turn of either loop; the padding of a DATA header | `data` the bytes (`out` while writing), `offset`, `got` = `result`; `cuts`, where each field begins, is only observed |
| `WireProofs` | theorems about the reader, and about messages | |
| `Command` | `HdcChannel.open` with the handshake byte for byte, `send_command`, `frames`; `execute`, `stream`, `TaskChannel.open`; the choice of completion and window in `_execute` | `pc`, `sock`, `eaten` bytes of the handshake, `wait`/`timer` the recv timeout, `now` against the deadline |
| `CommandProofs` | theorems about a command, and about the shell; `ShellSession` names its variables and its `ShellSpec` apart from those of `Command`, so that one module extends both | |
| `ShellSession` | `ShellSession` and a device shell, which may never fall silent | `eof`, `open`, `chunks` |
| `ServerLifecycle` | `_ensure`, `_execute`, `stream_command`, `start_server`, `kill_server`, `restart_server`, `ensure_server`, for a server here or on another machine | `cache` = ticks until `_server_ok_until`; `proc`, `pidfile` this machine, `far` the other one's server; `linked` the connections that still have their server; `since` observes the evidence behind the cache |
| `Targets` | `device`, `wait` and the other calls of `core.py`, each a command of `ServerLifecycle` | `left` = ticks to the deadline of `wait`, `seen` what the last list said, `call`; `late` and `steady` only observe |
| `TargetsProofs` | theorems about the cache and about `wait`, on the composition | |
| `Forwarding`, `MCForwarding` | `fport`, `rport`, `fport_list`, `fport_remove`, `fport_remove_all`, `create_connection`, `ForwardedSocket.close` | `rules` the server's table, `st`/`port` of each socket, `todo` the list `fport_remove_all` goes through |
| `ForwardingProofs` | theorems about the rules | |
| `DeviceFiles`, `MCDeviceFiles` | `screenshot_data` with `read_file`, `pull_dir`, `send_dir` | `shots`, `dir` files on the device; `me` the locals of each thread's call; `tools` that still run for nobody; `owed` observes what a transfer owes its caller |
| `DeviceFilesProofs` | theorems about the temporary files and the directories | |

How they compose: `FrameReader` uses `FrameCodec` and is shown to implement
`FrameStream`. `FileSend`, `FileRecv` and `AppTask` extend `TaskChannel`, which takes from `FrameReader` that frames arrive whole and in
order. `FileSend` implements `AbsSend`, `FileRecv` `AbsRecv`, `AppTask` `AbsApp`. `FileRecv` takes from `MessageWire` that
some headers do not parse (`Unparsed`). `Command` covers in detail what a command
does in `ServerLifecycle`'s `Connect`, `Finish` and `Fail`, which take from it that a
response may end without its server (`ServerCrashes`, `Eof`). `Targets` extends `ServerLifecycle`: every
query runs its actions, and the runs check both modules' properties on the
composition. `DeviceFiles` takes from `Command` that a shell stream may end early
without a sign (`OkIsWhole`), and from `FileSend` and `FileRecv` that a transfer may return
although nothing, or not all, was stored.

The daemon side of the tasks is the protocol-level mock in `tests/_mock.py`,
with the freedom a real device has added as actions of their own: refusing at
any point (`DaemonRefuses`), not reading, never answering, and
CMD_KERNEL_CHANNEL_CLOSE before the connection closes. The network and the hdc
server appear as `LinkLost`: EOF between frames, inside one, or a reset, with any
tail of the unread frames lost.

**Abstractions.** A file is a sequence of chunks; texts are the few the code
tells apart (`[Fail]…`, `…finish`, `AppMod finish`, others). A DATA header is its
index; whether it parses is decided in `MessageWire`. A `[Fail]` text and a
frame out of order raise the same exception class and share an outcome. A recv
timeout may fire at any time in the task models, for deadlines are computed by
the caller; only `Command`, `ServerLifecycle` and `Targets` have clocks, in ticks.

## Runs

`tlc -config X.cfg M` in this directory. Every passing run explores its whole
state space; sizes are distinct states.

| run | states | what it shows |
|---|---|---|
| `frame_reader` | 57160 | all streams up to 9 bytes over two byte values, frames up to the limit of 5 bytes and beyond it, and all streams that `encode_frame` writes for up to three payloads; received 1–5 bytes at a time, timeouts anywhere: `Framed`, `EndIsHonest`; what was encoded comes back (`RoundTrip`), and of any other stream what the reference decoder finds (`PrefixOfStream`); the reader implements `FrameStream`, and a call with a timeout returns |
| `file_send` | 52870 | files of up to 3 chunks, sockets holding 2 frames: integrity, the meaning of the summary, no frame out of protocol, `AbsSpec`, termination |
| `file_recv` | 9869 | files of up to 3 chunks, the third with a header that does not parse: acknowledged means complete, otherwise a prefix; `AbsSpec` (`AbsRecv`): emptied once and only for a file that is there, grown in order, left alone afterwards |
| `app_task` | 42019 | packages of up to 3 chunks, and uninstalls, with up to `MaxEchoes` = 4 frames before the last word: whole packages only; a failure is lost only where the reading ended before it was said (a close, "AppMod finish" too early) or where an uninstall heard it after another line; `AbsSpec` (`AbsApp`): the bundle manager runs once at most, and a command error is final; termination also when both sides wait |
| `targets` | 393800 | one client, two PIDs, a cache of 2 ticks, a `wait` of one tick, one device: cache against evidence, staleness ends, `wait` gives up only when it may and polls late once at most, every call returns but a shell without a timeout |
| `command` | 18912 | responses of up to 2 frames of 2 pieces, windows of 1 and 2 ticks, deadline 3, four layouts of the handshake: sockets, framing, completeness, lateness, termination |
| `message_wire` | 15165 | headers at every varint boundary up to 4 bytes, CHECK messages with strings up to 130 bytes and unknown fields of all wire types: what is parsed is what was written, it raises exactly on odd padding, and it ends |
| `shell_session` | 43102 | 3 output frames, perhaps an endless output after them, 2 input lines, both reads mixed |
| `forwarding` | 255440 | three sockets over two ports and a rule set by hand, `fport_remove_all` among them, other programs taking ports, lost answers |
| `device_files` | 714024 | two threads, two temporary names, two files: pictures shown, files left behind, and the files a directory transfer lacks when it returns, with cut texts and transfers, late tools and other programs |

Why the bounds are enough. *Frames*: two byte values and a limit of 5 give
frames of every relation to the limit (empty, below, at it, beyond); two
frames, or one and a torn one, fit nine bytes, three fit the encoded streams,
whose payloads look like headers; every split of a header occurs. *Tasks*:
with 3 chunks and sockets that hold 2 frames the client is blocked, resumed and
overtaken, and a first, a middle and a last chunk exist; a second rewrite of the local file shows nothing a single one does not.
Four frames before the last word are two texts before the verdict of an install
(INIT and BEGIN come first) and four before that of an uninstall, "AppMod finish" among
them; behind a verdict comes "AppMod finish", a `[Fail]`, a close or nothing. *Targets*:
one client, because clients influence each other only through the processes, the
port and the PID file, which `Exit`, `Reuse` and `Foreign` already change in every
way another client's `start_server` and `kill_server` could; two PIDs allow one
stale and one live; a deadline of one tick passes before, in and after a poll,
and `late` is counted up to 2, so a second late poll would be seen. *Command*: two pieces make "inside a frame" exist, the
deadline of 3 falls before, in and after an idle window of 2. *Forwarding*:
three sockets on two ports force reuse of a port while another socket is open;
`fport_remove_all` meets rules that are gone, and rules of sockets and of nobody.
*Device files*: two threads share a name or not, and a name left behind by one
is met again by the other; of two files one is transferred before the other
fails, and one is missing from the list. Three of either add states, no case.

Every module has a type invariant, `TypeOK` (`ShellTypeOK` of the shell,
`MessageTypeOK` of messages). It is the
first conjunct of the invariant that speaks of the same state (`Framed`,
`DaemonNeverConfused`, `AcknowledgedIsComplete`,
`InstalledIsWhole`, `CacheIsEvidence`, `SocketAccounted`, `ParsedAsWritten`,
`OutputInOrder`, `NoOrphans`, `ShotIsFresh`). `DaemonConfused` is no action but
the guard of the mock's branches for unexpected frames, which are dead code
exactly when it is never true.

Two runs expect a violation: they check what a docstring or a test says against
what the code does. `PROJECT.json` quotes the lines.

| run | what the code does |
|---|---|
| `app_task_ok` | `install` returns without a verdict, and with nothing installed, when the connection ends early |
| `message_wire_headers` | a DATA header with an odd number of padding bytes does not parse: with chunks of 256 KiB, indexes 128–16383 and 2097152–268435455, so that no file beyond 2 MiB can be pulled (a five-byte index parses again) |

Other places where the code does less than its words say. Each is an action of a
model, and the property named states how far the code's promise does reach:

| what the code does | what does hold |
|---|---|
| `send_file` returns although nothing was stored: its tail ends on a timeout, an EOF or a `[Fail]` text alike | `StoredIsLocal`, `AbsSpec` |
| `recv_file` takes any EOF for the end of the file | `PrefixOnly`, `AcknowledgedIsComplete` |
| `HdcDevice.uninstall` takes a failed APP_FINISH that follows another line for a success | `VerdictHeeded`, `AbsSpec` |
| `install` stops reading at "AppMod finish", and returns without an error when the verdict, or a `[Fail]`, comes later | `VerdictHeeded`, `AbsSpec` |
| `_execute` renews the cache for 30 s when a response has ended, also when the end was that of its server | `CacheIsEvidence`, `ConnectsOnEvidence` (`since` counts from such an end too), `StaleTrustEnds` |
| a poll of `wait` whose server dies brings an empty list without an error | `TimeoutIsDue` |
| a dead server is not pulled up while the cache holds, also after this client's own `kill_server` | `CacheIsEvidence`, `ConnectsOnEvidence`, `StaleTrustEnds` |
| a PID file that outlived its server makes `kill_server` signal another program | none: `Find` and `Send` of `ServerLifecycle` do it |
| a client of another machine's server that finds it down starts one here, sees it answer on 127.0.0.1 and trusts the other one | `CacheIsEvidence`, `ConnectsOnEvidence` (`Mistaken`) |
| `start_server` and commands may raise `subprocess.TimeoutExpired` or `OSError`, which `wait` lets through | `QueriesReturn`, `TimeoutIsDue` (`"escaped"`) |
| `wait` overruns its timeout by a whole poll, which may start a server | `OneLatePoll` |
| the overall timeout cuts an idle window short, and a frame that trickles in outlasts the overall timeout | `OkIsWhole`, `LateOnlyByTrickle` |
| `read_until_close` drops the output behind the one frame that it reads after `exit` | `OutputInOrder` |
| `read_until_close` heeds `overall_timeout` only when a read found nothing | `ReadsReturn` |
| `TaskChannel.open` and `ShellSession` lose their socket when the first frame cannot be sent | `SocketAccounted` |
| `fport_remove_all` raises at the first rule that somebody else has removed, and may have been given a list cut by the idle window | `RemoveAllClears` |
| `screenshot_data` reads what an earlier capture left under its name when the tool's stream is cut; it loses the picture when `rm` raises, and removes nothing when it fails | `ShotIsFresh`, `NoShotLeft` |
| `pull_dir` returns after part of the files when the list or a transfer is cut; `os.walk` passes over what it cannot read; `send_dir` does not look at what `mkdir` says | `DirIsComplete` |
| a second `close` of a `ForwardedSocket` removes the rule of whoever has the port by then | none: `Close` of `Forwarding` does it, and `OpenIsForwarded` excludes it |
| a lost or refused `fport rm` leaves its rule behind, and `close` says nothing | `NoOrphans` |

**Fairness.** Only the client and its clock are fair: the process runs, and a
socket timeout that was set expires (`WF_vars(Client)`, `WF_vars(RecvTimeout)`,
`WF_vars(Tick)`; in the tasks `WF_vars(Proceeds)`, so that no failure of the local
disk is ever asked for; in `MessageWire` the two loops, `WF_messageVars(Work)`).
Nothing is assumed of the daemon, the server or the network, so the "returns"
properties hold against a peer that falls silent at any point. Not against one that
never does: a daemon that goes on with texts after its last word, against the floor of
1.0 s under each recv of the tail (`_task.py:265`), or a server that goes on with
frames inside the idle window of a local command without a timeout, keeps the call
for as long as it likes; the models' daemons and responses are finite.
`Forwarding`, `DeviceFiles` and their runs are about safety only and state no
fairness. The shell's read returns only if the shell falls silent in the end
(`<>[](~ noisy)` is the premise of `ReadsReturn`, not a fairness condition). In
`ServerLifecycle` and `Targets` a call that has begun goes on; `Start` and `Wait` are single
steps because both are bounded by a timeout in the code, and so is a command that
has one. A shell without a timeout (`shell(timeout=None)`, `stream_command`) waits
for its server for ever (`_connection.py:224`): once it is connected (`Endless`) no
fairness makes it end, and `QueriesReturn` promises only that it gets there. Every `[][...]_vars`
and every invariant is independent of fairness. Deadlock is checked in all runs; the steps
`Finished`, `Done` and `Over` stand for a program that has ended.

## Proofs

`tlapm WireProofs.tla` proves, for every byte alphabet (`Base > 1`),
frame limit, chunk size and set of streams of bytes:

* `HeaderRoundTrip`: the header of any size below `Base^4` reads back as that
  size. Division is unfolded digit by digit; the top digit is below `Base`, so
  reducing it changes nothing.
* `FramingCorrect` (`Framed`), inductive as it stands. Each payload returned stands
  behind its header, ends at or before `start`, and payloads are disjoint.
  `CutKeepsFramed` adds one payload beginning at `start`, after everything returned
  before. For the types, `SizeIsNat` and `WholeFrame` show that a frame that is
  whole in the buffer has a natural size and ends inside it.
* `EndCorrect` (`EndIsHonest`). Not inductive: at `RecvEof` with an empty
  buffer nothing follows unless the reader waits only when it holds no whole
  frame. The strengthening `EndInv` is `TypeOK`, `NeverWaitsOnAFrame` and
  `EndIsHonest`.
* `ReaderRefinesStream` (`AbsSpec`). The refinement maps `start` to the position
  in the stream and `result` to the outcome. A cut, a skip and a refusal map to
  the abstract step at the same position, with `WholeFrame` to pass from "whole
  in the buffer" to "whole in the stream"; receives map to stuttering. `EndInv`
  supplies the two ends of the stream.
* `FramesComeBack` (`RoundTrip`). A stream of `Written` is given with its payloads
  and with the cuts between its frames, where `Encodes` says what `encode_frame`
  put (`FlattenSeq` and its lengths would need induction over the payloads).
  `FrameThere` is about one frame: a header and a payload written at a place are
  read at that place, by `HeaderRoundTrip`. `TripInv` follows the reader: it stands
  at a cut, has returned the non-empty frames before it, and has not failed.
  `AtCut` shows that all it can find at a cut is that frame, so that the oversize
  and truncated outcomes are impossible, with `EndInv` for the end of the stream.

and, for every set of messages that `MessageAssumption` admits:

* `MessagesComeBack` (`ParsedAsWritten`) and `OddPaddingOnly`
  (`RaisesOnOddPadding`). `MessageInv` is `MessageTypeOK`, `Layout` (each field that
  has been written stands at its cut and ends at the next one; behind the last are
  NULs or nothing) and `Progress` (the parser is at a cut and has found the known
  fields before it, or it is an even number of NULs behind the last one and has
  found them all). `FieldThere` is about one field: written at a place, it is read
  at that place with its number, its wire type and its value. It rests on
  `VarintThere`, which unfolds the turns of `_encode_varint`: the last byte of a
  varint is the first below 128, and its digits add up to the number again. A NUL
  is the varint 0, so a pair of NULs is an unknown field of wire type 0, and only
  an odd one at the end breaks off (`SeesNuls`). Since writing is a step for each
  field, the induction over the fields is that over the steps. That four
  fields fit into 64 bytes, so that the ValueError of `TransferPayload.serialize`
  is dead code, is a part of `MessageTypeOK`.

`tlapm ForwardingProofs.tla` proves, for any sockets, ports and rules set by
hand:

* `NothingOrphaned` (`NoOrphans`), inductive but for the types of `st` and
  `port` and for `ClosedOnce`, and `SweepClears` (`RemoveAllClears`), inductive
  as it stands.
* `OpenStaysForwarded` (`OpenIsForwarded`). That an open socket has its rule does
  not survive the `fport rm` of another socket, unless sockets that are being
  opened or open have different ports (`PortsDistinct`), and a socket has its
  rule from the moment `fport` was answered (`RuleIsHeld`). Both hold only while
  none of the property's three accidents has happened, which are remembered.

`tlapm DeviceFilesProofs.tla` proves, for any threads, names and files:

* `NothingLeft` (`NoShotLeft`), from `TypeOK` and `Named`: only a capture under way
  has a temporary name, so its end frees it for nobody else.
* `ShotsAreFresh` (`ShotIsFresh`). `AllFresh` adds what a thread may find under
  its name before it reads it: an old picture only if the name was used by
  others, and when it reads only if a tool's stream was cut as well.
* `DirectoriesComplete` (`DirIsComplete`). `owed` is what the transfer was asked
  for, less what an accident has excused: `Covers` says that each such file is still
  in its list, or done and in the directory.

`tlapm TargetsProofs.tla` proves, for any clients, processes, cache lifetime and
timeout, of the composition of `ServerLifecycle` with `Targets`:

* `TrustIsEarned` (`CacheIsEvidence`) and `LooksFirst` (`ConnectsOnEvidence`).
  `Trusted` adds for each point of `_ensure` and `start_server` which clients get
  there (only one with a binary starts a server, and for a command only one with
  `auto_start`): without it, a client could reach the point that trusts a server
  on another machine without being one of those that `Mistaken` describes. A
  response of `_execute` that ends sets both the cache and `since`, whether or not its server is
  still there: what the theorems exclude is trust without either kind of evidence.
* `OverrunsByOne` (`OneLatePoll`) and `GivesUpInTime` (`TimeoutIsDue`). `Waiting`
  says that a poll begun at the deadline is the last one (then `left` is 0 and
  the client is in that poll), that a device which was `steady` is there, and
  that a poll which has answered without it had no steady device, or lost its
  server on the way.

`tlapm CommandProofs.tla` proves, for responses of any length in any pieces, and
for any windows and deadline, however they compare:

* `SocketsAccounted` (`SocketAccounted`) and `HandshakesExact`
  (`HandshakeIsExact`), from `Told`: what has been said at each point of the
  connection, and the socket needed for it.
* `EndsInTime` (`LateOnlyByTrickle`), from `Clocked`: until pieces of a frame
  came or the consumer stayed away, what is left of a recv timeout ends no
  later than the overall timeout.
* `OkMeansWhole` (`OkIsWhole`), from `Paced`: an idle window that has run out
  within a read means that the server was `slow`, that the overall timeout had
  cut it short, or that all frames are there. How pieces make frames is
  arithmetic (`DivLaw` and the four lemmas after it): a whole number of pieces
  more than the frames taken is a frame more (`DivGrows`), and what is received
  while no frame is whole belongs to the next one (`Partial`).
* `ShellOutputInOrder` (`OutputInOrder` of `ShellSession`), for a shell that writes
  any number of frames. The property alone does not exclude that a frame still to
  come has been handed out, nor that `recv` finds something collected: `OutputInv`
  adds that all the caller has lies below `read` (`Below`), and that `chunks` is
  empty outside `read_until_close`. An exception drops `chunks`, which leaves a
  prefix, still in order (`OutputPrefix`).

`tlapm FileSendProofs.tla` proves, for files of any length, any chunk contents and
sockets of any capacity:

* `SpecStoredIsLocal` (`StoredIsLocal`) and `SpecDaemonNeverConfused`
  (`DaemonNeverConfused`). Neither is inductive: what the daemon stores says
  nothing without what it was sent. `Written` gives every frame of `up` as a
  function of its place, of `pos` and of `size`, and of the local file as long as
  nobody rewrites that; `Held` says which of them the daemon has taken and what it
  made of them. A daemon in its `data` state has taken the CHECK and at most
  what was sent, so the next frame is DATA or FINISH(1) (`DaemonNeverConfused`),
  and on FINISH(1) it has all chunks.
* `SendImplementsAbsSend` (`AbsSpec`). `Concluded` says that the errors that refuse
  a transfer are raised before its first DATA, and `Held` that nothing is stored
  before FINISH(1): both cannot be true of one transfer, in either order.

`tlapm FileRecvProofs.tla` proves, for files of any length and any set of headers
that do not parse:

* `SpecAcknowledgedIsComplete` (`AcknowledgedIsComplete`) and `SpecPrefixOnly`
  (`PrefixOnly`). The client has no state to remember where it is: the loop
  handles any frame at any time. So the invariant is about the daemon: `Said` gives
  each of its frames by its place (only a [Fail] may stand anywhere), and `Looping`
  the client's file by the number of frames it has taken. `Taken` then excludes
  the branches a frame out of order would need. `Left` says what stays true after
  the loop.
* `RecvImplementsAbsRecv` (`AbsSpec`). Each branch is a step of `AbsRecv` or none
  (`Steps`); receives of the daemon and lost frames are stuttering, because what
  the client has read of `down` does not change any more.

`tlapm AppTaskProofs.tla` proves, for packages of any length:

* `SpecInstalledIsWhole` (`InstalledIsWhole`), from `Sent` and `Held`: the size that
  was announced is that of the package, and the bundle manager runs only when as
  much has been taken.
* `SpecCommandErrorMeansNotDone` (`CommandErrorMeansNotDone`, which `AbsSpec` implies:
  no run checks it by itself). It speaks of the
  daemon's state at the moment of the error and after it, while the client knows
  only frames. `Said` connects them: a `[Fail]` or a failed verdict is said by a
  daemon that has stopped without having done it (`Refused`), and `Refused` is
  never left.
* `AppImplementsAbsApp` (`AbsSpec`). `OneAtATime` splits a step into one of the
  bundle manager and one of the outcome. The first needs a daemon that has not
  stopped, so nobody can have been told of a command error (`Refused`); a command
  error leads to `Refused`, so what was asked has not been done.
* `SpecVerdictHeeded` (`VerdictHeeded`), from `Heeded` for `install` (none of the
  frames it has taken was against it), `Collected` for `uninstall` (its lines
  are its frames, so the judgement on the joined text sees them all), and `Ended`: a
  call that has returned stopped at the end of the stream or at a frame that ends
  the loop, and what the client has read of `down` does not change any more.

Assumptions: `CodecAssumption` and `ReaderAssumption` for the reader,
`RulesAssumption`, `NamesAssumption`, `LifecycleAssumption`, `PatienceAssumption`,
`CommandAssumption`, `ShellAssumption`, `TaskChannelAssumption`, `FileAssumption` and `AppAssumption`
for the others, each evaluated by TLC in every run of
its module. `MessageAssumption` says what the library and its peers send: numbers
below 2^70 (ten turns of `_encode_varint`; they are file sizes, counts and times in
ns), fields that the parser knows neither repeated nor of a fixed width, and
DATA headers of at most four numbers with field numbers below 16. Nothing else is
assumed.

Only model-checked: all liveness (TLAPS has no fairness or ENABLED), and
`PrefixOfStream`, which compares the reader with the recursive decoder of
`MCFrameReader` on streams that nobody encoded (`FramingCorrect` is proved of these
too).

## Not modelled

* The device wrappers, the command line, exceptions: stateless text around one
  command each.
* Binary search on disk, `netstat`/`ss`/`lsof` parsing: host I/O, modelled as
  "finds the listener or nobody".
* The handshake's fields, quoting, timestamps, compression (`compress_type` is
  always 0), `SmartSlavePath`: formatting or a choice of path made once.
* Threads that share one `HdcClient`: the library promises nothing about them;
  `Clients` are used by one thread each. (`DeviceFiles` has threads, whose
  commands are connections of their own.)
* Of `list targets`, only whether the device followed is Connected; of
  forwarding, only one endpoint on the device.
* `window_size`, `_jpeg_size`, `hilog`'s splitting into lines, `param wait`'s
  verdict: text or bytes in, a value out. `uitest_screen_cap()` without a path
  raises TypeError always (`_device.py:813`, `%` twice), a matter for a unit
  test.
* The `lsof` branch of `_pid_listening_on`, like its siblings, is "finds the
  listener or nobody" (`Owners`).

## What could be added

Every safety property of a run is proved, but for `PrefixOfStream`, and there are
four refinements besides. An abstract specification of a command (a request, then its whole response
or an error) that `Command` implements is the one worth stating next: today its
five properties say this one by one.
