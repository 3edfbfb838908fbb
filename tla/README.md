# Formal model of the D1 Ultra / LightBurn bridge

TLA+ modules, TLC configurations and TLAPS proofs about the programs that let
LightBurn drive a Hansmaker D1 Ultra laser. Paths below are relative to the
repository. A definition keeps the name of the code it models where it can;
`PROJECT.json` maps each one to its lines.

## 1. The system

| Part | Code | State it keeps | Operations |
|---|---|---|---|
| D1 Ultra connection | `jcz_bridge/d1ultra_protocol.py`, class `D1Ultra` | `sock`, `connected`, `_pending`, `_acked_unsolicited`, the builder's `_seq` | `connect`, `disconnect`, `ensure_connected`, `_send_recv`, `_send_only`; reader thread; heartbeat thread |
| Receive buffer | same, `_reader_loop`, `_process_recv_buf`, `ResponseParser` | `_recv_buf` | append a portion, cut packets |
| Job execution | same, `engrave` | `_job_lock`, `_heartbeat_paused`, the laser's half-received job | lock, eight-step script, error paths |
| Startup, peripherals, preview, autofocus | same | `device_name`, `fw_version` | sequences of requests |
| Packet contents | same (`PacketBuilder`), `jcz_protocol.py` | none | CRC, payload layouts, chunk parsing, galvo/mm conversion |
| Laser monitor | `jcz_bridge/laser_monitor.py`, callbacks in `jcz_bridge.py` | `laser_online`, stop event, time left | periodic check, up and down callbacks |
| JCZ translator | `jcz_bridge/jcz_bridge.py`, `JCZTranslator` | current path, paths, in-job flag, settings | one handler per list command |
| JCZ bridge | same, `JCZBridge` | `_running`, endpoint files, ep0, the read buffer | `run`, read loop, single commands, ep0 thread, SIGTERM, shutdown |
| GRBL bridge v2.3 | `grbl_bridge/d1ultra_bridge.py` | `GRBLState` (one per LightBurn connection), job lock, heartbeat pause | G-code lines, job threads, soft reset, TCP server, console, replay |
| GRBL bridge v2.4 (untested draft) | `grbl_bridge/NOTTESTED_...` | the same, with framing flags in the translator and `_active_translator` in the server | frame, ask, confirm, cancel, frame on/off |
| Shared library copy | `d1ultra_protocol.py` | as the first part | a near copy of it |
| Gadget setup, `dummy_hcd.c`, services, test tools | `jcz_bridge/*.sh`, `kernel/`, `systemd/`, `tests/` | none of our own | one-shot scripts; stock kernel module |

How the parts interact. LightBurn's commands reach the read loop of `JCZBridge`,
which hands list commands to the translator. At `JOB_END` the translator calls
`D1Ultra.engrave()` in the read loop's own thread. The laser monitor's thread
calls `connect`, `identify` and `disconnect` on the *same* `D1Ultra` object. Every
successful `connect` starts a reader thread and a heartbeat thread; a caller's
request and the answer meet in `_pending`, under the sequence number. Nothing
but sending and `engrave()` is guarded by a lock. In the GRBL bridges a handler
thread per LightBurn connection collects a drawing line by line and starts a job
thread at every `M30`; the two share a `GRBLState` without a lock, and the job
threads of all connections share the laser behind one. The console of v2.4 reaches
into the translator of whichever connection is the active one.

What is hard: threads that share an object without a lock, a `connect()`
that resets the numbering under other threads, threads of a previous
connection that go on, answers after their timeout, requests whose failure is
only logged, a callback that blocks its thread for two minutes, a drawing that is
emptied when a job ends and not when it starts, one confirm flag for all jobs,
endpoints that fail half-way, SIGTERM anywhere, and sends without a timeout under a lock.
The list of hazards, each at its
line, is in `PROJECT.json`.

What makes each part correct:

- connection: an answer goes to the call that asked, once; nothing is left in
  the table; a call whose packet was sent returns; a loss is declared only of a lost
  connection; the heartbeat goes on; a query is acknowledged once.
- receive buffer: bytes become packets without loss, repetition or wrong cuts.
- jobs: one at a time, complete, at most once, never after "failed"; the
  heartbeat is not left paused; `engrave()` returns if the laser reads.
- monitor: connects to a laser that is ready, notices one that is gone, keeps
  no connection to one that does not answer.
- JCZ translator: a job is what was drawn between its brackets, with the settings
  last given.
- JCZ bridge: commands are whole, replies in order and to the connection that
  asked; the control pipe is served; no endpoint file is left open.
- GRBL bridge: a job is its own layer, with its own power; LightBurn is told what
  is so; the laser is not lost to an error path.
- framing: nothing is engraved that was not confirmed; the outline is not hidden while
  the question is asked, nor left on after; no job waits for ever.

## 2. Modules

| Module | Models | Kind |
|---|---|---|
| `D1Connection` | the connection part | specification and its properties |
| `D1ConnectionProofs` | the request table, who gets which answer, acknowledgements, losses | TLAPS |
| `PacketStream` | receive buffer, one or two readers | specification and its properties |
| `MCPacketStream` | the packets of two connections | for TLC |
| `PacketStreamProofs` | no byte is lost | TLAPS |
| `LaserJob` | what `engrave()` promises | abstract specification |
| `EngraveJob` | `engrave()` and the laser's side of it | specification, implements `LaserJob` |
| `MCEngraveJob` | two job sizes | for TLC |
| `EngraveJobProofs` | all its safety properties and the refinement | TLAPS |
| `LaserMonitor` | monitor, callbacks, `ensure_connected` of jobs, shutdown | specification and its properties |
| `JczTranslator` | the translator's handlers, and the drawing of a command list defined independently | specification and its properties |
| `JczPartsProofs` | all safety properties of monitor and translator | TLAPS |
| `JczBridge` | main loop, endpoints, ep0 thread, SIGTERM, shutdown | specification and its properties |
| `JczBridgeProofs` | endpoint files, whole commands, replies | TLAPS |
| `GrblBridge` | v2.3: drawing, job threads, status, reset, connections | specification and its properties |
| `MCGrblBridge` | points and cuts | for TLC |
| `GrblBridgeProofs` | type correctness and all its safety properties | TLAPS |
| `GrblFraming` | v2.4: framing, confirmation, console, connections | specification and its properties |
| `GrblFramingProofs` | type correctness and both invariants | TLAPS |
| `SequenceLemmas` | induction over sequences, `FlattenSeq`, first and last elements | TLAPS |

### D1Connection

The object's attributes are the first group of variables (`connected`, `sock`,
`seqNo`, `pending`, `acked`). A socket is a number; `link` is its TCP state and
`closed` says that `close()` was called on it, which is not the same: a thread
blocked in `recv()` does not notice. (A `recv()` begun on a socket that is still
connecting is subject to that socket's 5 s timeout: position "limited".) `pc` is the
position of the threads that make calls (clients, heartbeats), `rpc` that of the
readers. A step runs from one call or system call at which CPython may switch threads
to the next; hence `connect()` has three steps, `disconnect()` two, `_send_recv` up
to five (`Build`, `Register`, `Transmit`, then `Collect`, or `Expire` and `Withdraw`).
`Expire` and `Withdraw` are separate because an answer may come between the end
of `wait()` and the `pop`.

A packet is a record of its number, its command and its `epoch`, the `connect()`
after which it was numbered. The epoch is not in the real packet and no guard
reads it; it lets a property tell an answer from another of the same number.
The laser (external) answers each request at most once, in any order or not at
all, sends queries of its own, and may drop a connection at any time.
`overlap` is a history variable: a reset met a running call, a living reader, an
unanswered request, or a socket on which something had been acknowledged already.
`AnswerMatches`, `AckOnce` and `LossIsReal` are stated up to it: so long as a reconnection
meets nothing unfinished.

Left out: payloads, and how bytes are cut into packets (`PacketStream`); heartbeats of
connections outside `Heartbeats`; `preview`, peripherals and autofocus, which are
requests like any other.

### PacketStream

The wire is a sequence of bytes from which `recv()` takes any portion; the reader
appends it to `_recv_buf`, then looks for MAGIC, reads the length and cuts. Each of
these is a step, because the buffer is shared by the readers of an old and a new
connection, and because `connect()` replaces it. Scaled down: length, number and
terminator take one byte each, the constant header fields and the CRC (checked but only warned
about) none. `Connect` leaves the old reader where it is. If that is in `recv()`, `close()` does
not wake it (`LeftBehind`): it may stay there, receive more bytes of the old connection and append
them to the new one's buffer, or end and declare the new connection lost (`OldEnds`). `mixed` is a
history variable: a reader of an earlier connection did any of this, or was not in `recv()` on the
old socket when the connection was replaced. `NoByteLost` and the second half of `AllArrive` are
stated up to it; `ReadersReturn` is not.

### LaserJob and EngraveJob

`LaserJob` says: jobs have the laser one at a time; the laser runs a job at most
once, in the order of the turns; a job reported as failed never runs.
`EngraveJob` has the script of requests, the lock, `Required` (the requests whose
missing answer aborts), the return paths with their `finally` clauses, the `struct.error` of a
packet that does not fit (`Raise`, anywhere in the script; the verdict is "raised"), the wire and
the laser's store. When a connection is replaced, any part of what was on the way may still be
handled; that the laser does so before it handles the next connection's requests is an
assumption. A request is one step with its answer, its failure, or
the answer of another packet of the same number after a reconnection, which is
what `D1Connection` shows a request may return. `PromiseKept` is the refinement
`INSTANCE LaserJob WITH ...`. `monitored` is chosen initially and never changes:
where another thread connects (`OtherConnect`) the promise is not kept, the
mapping shows an idle `LaserJob` and the run checks what still holds.

### LaserMonitor

The monitor's loop with its two callbacks inlined at the place where they are
called, in the same thread; `Tries` is the number of five-second attempts
that fit into the settle time. `laser` is the external world: interface gone,
interface without a route, accepting but mute, ready. `Seen` may be false for a present
interface: `check_once` returns False when `ip addr` fails. `monitor.stop()` sets an event and
joins nothing: the thread goes on with its callback.

### JczTranslator

One action per group of list commands. `params` holds speed in 1/256 mm/min
and power in 1/4095, so that scaling and clamping are exact in the integers. A
point is a coordinate pair; centring on the bounding box is left out.
The specification's parts are called `TranslatorInit`, `TranslatorNext` and so on because one
module holds the proofs about it and about `LaserMonitor`.
`JOB_END` may leave the translator in the job, because `engrave()` may raise
(`struct.error` for a path too long).

### JczBridge

`pc` is the main thread: set-up, the loop that opens and reopens the endpoints, the
read loop (`reading`, `parsing`, `replying`, `engraving`) and the shutdown. A command is
two *halves*, the least with which a read can end in the middle of one. A half carries
the command it belongs to, which no guard reads but that of `Handle`, where two
halves of different commands may amount to any kind of command.
SIGTERM raises `SystemExit` wherever the main thread is (`Terminate`): inside the `try`
it leads to `_shutdown()`; before it, and once more inside `_shutdown()`, to the end of the
process, whose files the kernel closes while the gadget stays bound (`Die`). `_shutdown()` is
three steps; its unbinding may fail and is followed by the closing of ep0 all the same. The ep0
thread tests `_running`, then waits in `poll()`; an exception that is no `OSError` ends it. The
kernel is external: a disconnection aborts a pending read (`cut`), a read on a disabled endpoint
fails, a write to it waits or fails. `stale` is a history variable: LightBurn left while
commands of its were in hand, and these are answered to the connection that follows;
`RepliesInOrder` and `CommandsAreWhole` are stated up to it.

### GrblBridge

A G-code line is one move with its modal power. `add_cut_point()` is three steps
(`Raise`, then `AddFirst`, or `Choose` and `AddNext`): the job thread's `reset_job()` may
come between any two of them, and then `groups[-1]` of an emptied list is the `IndexError` that
ends LightBurn's connection. A new connection is a new `GRBLState`; job threads of an
earlier session keep theirs, hence `Mine`. The server starts a handler thread per connection, and one of
an old connection may go on beside the new one with a state of its own; the model serves one at a time. `M30` reads the groups and, in a later
step, the power (`Finish`, `Start`). `burnt` and `peak` are histories: the segments the program
commands since the last `M30` and their highest power, computed from the lines
and not from the groups. `good.apt` is false once a stroke began without a rapid move
(then `_finish_job` drops its first point, which nothing in the repository forbids), and
`good.alone` once a job thread of this client was alive while the layer was drawn.

### GrblFraming

One record per LightBurn connection with the translator's flags, one per job thread, and
the console. The job thread shows the outline, asks, waits up to 120 s for the event,
hides the outline and decides. Nobody looks at whether the requests about the outline were sent; on
a lost connection they are not, and `outline`, the last thing the laser was told, is then "unknown".
A number past the u16 field raises out of them (`Raise`). The console looks at `_active_translator`, and
answers with two assignments; `frame on`/`off` looks twice. Any connection's end sets
`_active_translator` to None, also between those two looks, which ends the bridge. `crowded` (two
jobs have framed at once) is a history variable.

## 3. Runs

Every property of a passing run has a mutant of the code (a definition beside its
original, marked "variant") under which TLC finds it violated.

| Run | Instance | Question |
|---|---|---|
| `ConnSafety` | 1 client, heartbeat of the first connection, 2 connections, numbers up to 2 | types, table, ownership of answers, matching, real losses |
| `ConnLive` | 1 client, 2 connections, 1 number, queries of the laser; fair | acknowledgements; calls return |
| `Stream` | 2 connections of 2 packets, portions of 1 or 8 bytes; fair | bytes become packets, no reader is caught |
| `Engrave` | jobs of 2 paths and of 1, 2 connections; fair | everything about jobs, and the refinement |
| `Monitor` | 3 attempts each; fair | everything about the monitor |
| `Translator` | all lists of up to 5 of 18 commands | drawing and settings |
| `Usb` | 2 commands, 2 faults, SIGTERM anywhere; fair | types and open files, commands, replies |
| `Grbl` | 2 points, 3 kinds of cut, 2 moves a layer, 1 other line, 2 jobs; fair | layers, power, status, error paths |
| `Framing` | 2 connections, 2 jobs, framing on; fair | confirmation, outline, jobs end |
| `FindNumbersRunOut` | violation | heartbeat "every ~2s" (`jcz_bridge/d1ultra_protocol.py:828`) |
| `FindLayer` | violation | "Multiple layers (serialized as separate jobs)" (`grbl_bridge/README.md:55`) |
| `FindEp0Unserved` | violation | "Start ep0 event handler - MUST run" (`jcz_bridge/jcz_bridge.py:419`) |

Why the bounds are enough. Two connections are the least that let one
replace another, and every hazard of a reconnection is between an old and a new
one; two numbers are the least with which two requests differ, and the second
is also the last that fits, so the limit of the field is reached. One client
and one heartbeat are two threads in calls beside two readers; what takes two clients
(`connect()` in one thread during `disconnect()` in another) no run has. Two jobs of different sizes tell one
job's data from another's (a job without paths gives up before it sends anything: it is in the theorems
and not in the run, whose state space it would multiply by five);
five commands suffice for a job abandoned by a
second `JOB_BEGIN` and for two settings of one kind. In `Stream` the first packet's payload
looks like a header with length 0 and the second connection's like half of one; portions of one byte
reach every place a packet can be divided at, portions of eight join two packets. In `Usb` two
commands are four halves, so that a read can end inside each and a fault can fall
between them; two faults are a disconnection and one more while things are reopened. In
`Grbl` two jobs are the least that overlap, over the same or over two connections; the cuts have
power 0, middling and above the maximum, and one is an arc of two points; `MaxPoints` is 2
so that the path too long for a packet occurs. In `Framing` two jobs may share one connection's flags or have one
each. The other cfg bounds (`MaxConn`, `MaxSeq`, `Heartbeats`, `Tries`, `JobTries`, `MaxLen`,
`MaxSent`, `MaxFaults`, `MaxMoves`, `MaxOdd`, `MaxJobs`, `MaxClients`) only cut behaviours short.
Runs of programs that end (a fixed number of jobs, a list of `MaxLen` commands, a bridge that
was shut down) say `CHECK_DEADLOCK FALSE`; all others check for deadlock.

Fairness. Every wait for an answer, every `connect()`, `poll()` and wait for the user has a
timeout. Sends have none: the socket is set to `settimeout(None)` and `sendall()` runs under the
send lock, so a laser that keeps the connection and stops reading blocks the sender, and whoever
waits for the lock, for good. No specification makes a send fair, with one
exception named below.

- `D1Connection`: each started thread keeps running outside of `sendall()`, a blocking `connect()`
  ends (5 s), and a paused heartbeat is resumed (strong fairness of `HeartbeatSend`;
  `PausedByAJob` shows that no job leaves it paused). `CallsReturn` is about calls up to their
  send and after it.
- `EngraveJob`, `GrblBridge`, `GrblFraming`: the job threads run outside of `sendall()`.
  `EveryJobReturns`, `RunIsOver` and `JobsEnd` are of the form `LaserReads => ...`, where
  `LaserReads` is fairness of the steps that send: the laser takes what it is sent. It need not
  answer any of it.
- `LaserMonitor`: the monitor's thread runs. The exception: the few small requests of `identify()` are
  taken to fit the send buffer of the connection just made.
- `PacketStream`: the readers run, and bytes under way on the present connection arrive. Of an
  earlier connection nothing need ever come.
- `JczBridge`: the main thread and the ep0 thread run, and `engrave()` is taken to return, which
  by `EveryJobReturns` takes a laser that reads.

Nothing is assumed of the arrival of answers, of LightBurn, of the user, or of when a reader
notices a loss.

### What the violations show

- `FindNumbersRunOut`: `_seq` never wraps. Past the largest number of the u16 field `struct.pack` raises,
  the heartbeat loop swallows it, and no heartbeat is sent again on that connection.
- `FindLayer`: the drawing is emptied by the job thread's end and not by the `M30` that took it.
  A layer drawn while the job before it waits or runs starts with that job's paths,
  or loses what it has so far when that job ends.
- `FindEp0Unserved`: `_setup_gadget()` starts the ep0 thread, and `run()` sets `_running` only after it has
  started the monitor as well. The thread's loop tests `_running`: if it looks first it ends, and the
  control pipe of the bound gadget is served by nobody.

### What the models contain and the properties exempt

- `connect()` restarts the numbering and clears `_pending` while other threads wait; the
  laser's answer to an old request then fits a new one (`overlap`). The reader of the previous
  connection may declare the new one lost, two heartbeats may run on one connection, and a reader
  blocked on a closed socket is never stopped.
- `disconnect()` in one thread may clear `sock` after another thread's `connect()` has set
  `connected`: the object then refuses every request, and `ensure_connected()` takes it for
  connected. It takes two client threads, which no run has.
- A laser that keeps the connection and stops reading blocks a sender for good, and every other one
  behind the send lock.
- `engrave()` looks at the answers of the upload and of the paths only, so it may
  return True though `JOB_CONTROL` was never sent (`SubmittedIsUploaded` says what True does mean).
- `on_laser_up` is called once per appearance of the interface: a laser slower than the
  settle time is left alone until its interface disappears, though the log says "will retry on next
  interface check" (`jcz_bridge.py:677-678`). `ReadyIsReached` is about the settle time. The name of an
  earlier connection makes `identify()` succeed on a laser that does not answer (`named`).
- A reader left behind may append old bytes to the new connection's buffer or declare the new connection
  lost, and two readers may lose or garble packets between them (`mixed`), but neither is caught in a loop.
- The monitor may replace the connection in the middle of a job (`moved`).
- Replies to commands of a LightBurn connection that is gone are given to the next one (`stale`).
- SIGTERM before the `try` of `run()` or inside `_shutdown()`, and an unbinding that fails, leave the gadget
  bound with ep0 closed. No property speaks of it.
- A job that crashes on a path too long for a packet leaves the GRBL status at "Run" for good; of two jobs of
  one connection the first to end clears the flag of both (`masked`).
- An `IndexError` ends LightBurn's connection when a job thread empties the drawing in the middle of a
  line (`GrblBridge`), and an `AttributeError` ends v2.4 when a connection ends between the console's two
  looks at it (`GrblFraming`). Both are in the models; a property without them would restate one guard.
- The translator uses the settings of the moment a job is sent, not those of its strokes.
- A late answer to a query of the host's own is acknowledged as if it were the laser's.

Observed while reading, and not stated as properties: both GRBL bridges send every job at
`speed_mm_min` = 1000 and read no `F` word (`d1ultra_bridge.py:836,1130`), although
`grbl_bridge/README.md:56` lists speed control; quitting v2.4 while it frames leaves the outline on;
a `frame off` is forgotten when LightBurn reconnects; the replay readers do not advance over a
packet of length zero.

## 4. Proofs

TLC checks small instances; the theorems hold for every value of the constants that
satisfies the module's `ASSUME` (sets of names do not overlap with numbers or with records, bounds are naturals;
nothing else). All lemmas and theorems are checked to the last leaf.

`D1ConnectionProofs`:

- `TypeCorrect`: `Spec => []TypeOK`. The flags (`FlagType`) and the data are kept
  apart, one lemma per group of actions.
- `NoOrphansAlways`, `AnswerNumbers`: the request table. The inductive invariant
  is `Table`, the two together, relative to `TypeOK`: an entry belongs to a call
  between `Register` and `Return`, under that call's number; so the `pop` of a return
  removes the only entry the call can own, even after `connect()` has
  cleared the table and another call has taken over the number. `ReturnTable` is that
  argument; `DispatchTable` says that the reader writes only where the number
  matches; `MoveTable` covers the threads that are in no call.

The rest builds on these; it needs that `None` is neither a packet nor an entry (`NoneAssumption`).

- `NoAnswerTwice` holds whatever overlaps. `Connects` says which `connect()` has which socket and that a reader
  which does not dispatch holds no packet. With it `Numbers` is inductive: no two calls ask under the same number
  after the same `connect()`, and a packet is nowhere before it is sent and in one place after it: in a call's
  hands, unanswered on a socket, with a reader, in the table, or handed out.
- `AnswersMatch` needs `Fresh`: without an overlap every packet that is somewhere was numbered after the last `connect()`.
- `AcknowledgedOnce` and `LossesAreReal` need `Reading`: without an overlap only one reader is alive, it reads the
  object's socket, what was acknowledged on that socket is in `_acked_unsolicited`, and a connected socket has a reader
  or a `connect()` about to start one.

`EngraveJobProofs`, for any number of jobs, of paths and of connections: all four safety properties of the run and
the refinement. None is inductive; the invariant is `Safe`, each part relative to those before it:

- `TypeOK`, with the places of the script (`ScriptPlaces`: which request is where, for any number of paths);
- `Holding`: a job is at work exactly while it has the lock, and paused is what `PausedByAJob` says;
- `InTurn`: every job has its turn once, and the lock is the last one's;
- `OnWire`: of the job that is at work the wire holds only requests up to its current one, that one
  last, and only until it is answered;
- `Receives`: from the answer to `JOB_UPLOAD` on the laser receives this job and has its paths so far, each once
  and in order, as long as the job was not moved to another connection;
- `Controls`: a `JOB_CONTROL` on the wire finds its job whole, and nothing before it changes that;
- `Runs`: what ran is whole, and a `JOB_CONTROL` on the wire is of a job that ran neither itself nor
  before a later one. This is what makes `LaserJob`'s order of turns hold;
- `Unmoved`: without a monitor no job is moved.

`TypesHold`, `PausedOnlyByAJob`, `WholeJobsRun` and `SubmittedUploaded` follow from `Safe`; `ImplementsPromise` maps
initial states to initial states and every step to a step of `LaserJob` or a stutter.

`PacketStreamProofs`: `EveryByteInOrder`, for any packets, any payload (a header with a bad length included) and any portions.
The inductive invariant is `Intact`: while no reader of an earlier connection goes on, one reader is at work and the other is off or
left behind in `recv()`, what is dispatched is
a beginning of what the laser sent, and buffer, held portion and wire together are the bytes of all the packets after it
(`Splits`); before a cut the whole packet is buffered. So five bytes of buffer begin with a packet (`FirstPacket`), the search finds
it at offset 0 (`FoundAtOnce`), the length is its length, `CutOne` cuts exactly it, and `Parsed` gets it back. That the
search, the jump over a bad length and the rejection are never taken is what makes the property true.

`JczPartsProofs`, the monitor: `ConnectedWatched` and `SilentDropped`, from the inductive
invariant `Watch` (the up callback runs only while the interface counts as online);
`AttemptsCounted` from `Counted` (a thread that tries has an attempt left).

`JczPartsProofs`, the translator, for command lists of any length and all 16-bit arguments:

- `JobsAreReal`: what is handed to `engrave()` has at least one stroke, each of two points or more,
  and settings in the laser's range.
- `SettingsAreTheLast` from `Settled`: the translator's settings are the last ones in the list so far.
- `JobsAreTheDrawings` from `Following`: between a `JOB_BEGIN` and the next `JOB_END` the current path is the
  stroke begun last and the collected paths are the others of two points or more since that `JOB_BEGIN`. `StrokeGrows`,
  `NewStroke`, `NewTravel` and `NewJob` say what one more command does to the definition. Outside of a job nothing
  is said, because the translator collects strokes there as well.

`JczBridgeProofs`:

- `WholeCommands` from `Stream`: while nothing was in hand when LightBurn left, buffer and pipe together are a
  row of whole commands (`Row`, `FromStart`), and while nobody reads the pipe alone is. Reading moves halves from the
  pipe to the buffer, handling takes two off the front (`DropFromFront`), a disconnection empties the pipe.
- `TypesHold` from `Gadget` (the place of the main thread says what is open and running), `Files` and `Numbers`.
- `RepliesFollow` from `Order`: while nothing is stale, what is in hand of a connection is sorted by command
  (`Sorted`), all of it this connection's, and after everything answered (`Due`); a bridge that reads for nobody holds nothing.

`GrblBridgeProofs`: the job threads are one sequence; `JobEffect` says what a step of one does, `HostEffect`
and `StartEffect` what the handler's steps do to it.

- `LaserFreed`: `LaserIsFreed` is inductive relative to `Shape`.
- `RunningIsShown` needs `Overlaps`: of two jobs of one connection both are masked if the earlier one still lives, so
  the thread that clears the flag is alone.
- `TypesHold`: among others, `Head` and the last group are never taken of nothing, and a power is in the laser's range.
- `JobsAreTheLayers` and `PowersAreTheLayers` from `Undisturbed`, which holds while no job thread of the client was
  alive as the layer was drawn (`good.alone`). While none is alive, the job power is the peak commanded and, if every stroke began with a rapid move
  (`good.apt`), the drawing with the points of the current line that are still to be added (`Planned`) has the segments commanded
  (`Lines`). While one is alive, nothing of the next layer has been commanded, and the drawing will be emptied. `M30` hands over the drawing in
  one step and the power in the next; between the two nothing of that client moves.

`GrblFramingProofs`: `TypesHold`; `FramingIsConfirmed` from `Answers` (a flag that stands from the question on
is the last answer's); `OutlineShown` from `Outlines` (an outline that is shown is some job's; while no two frame at once
it is not hidden from the question to the answer).

`SequenceLemmas` carries what the proofs about `GrblBridge`, the translator and `PacketStream` share. The library's induction theorems take an operator and
cannot be used; `SetInduction` and `SeqInduction` take the *set* of the numbers, or sequences, that have the property, and follow
from `WFMin`. `FlattenExists` and `FlattenAgrees` unfold the function that `FlattenSeq` chooses; from them `FlattenAppend` and
`FlattenOneMore` say what one more element does. Definitions a proof needs are written with `FlattenSeq` and quantifiers
(`Drawn`, `Lines`, `Drawing`), not with `SelectSeq` or `SetToSortSeq`, about which the library states nothing.

Only model-checked: liveness (`CallsReturn`, `EveryJobReturns`, `GoneIsNoticed`, `ReadyIsReached`,
`SinglesAnswered`, `RunIsOver`, `JobsEnd`, `AllArrive`, `ReadersReturn`), which is out of the prover's reach. Every safety
property of a passing run is a theorem.

## 5. Not modelled, and what is left

- CRC, payload layouts, the galvo/mm conversion, arc interpolation, previews: byte layout and floating point.
- `preview`, peripherals, autofocus, `identify` beyond its name: sequences of requests whose results are only logged.
- The one-shot commands `--setup-only` and `--test-laser`, the GRBL consoles' other commands, `$H` and `$J`, and the replay tools:
  sequential, with no state of their own.
- How v2.4 collects a drawing, and the connection class of v2.3: the structure of `GrblBridge` and `D1Connection`.
- `d1ultra_protocol.py` at the top: a near copy of the JCZ bridge's, which is the one mapped.
- `JCZBridge`'s status thread, which nothing starts, and `handle_framing`, which nothing calls.
- `dummy_hcd.c` (the stock kernel module with four table entries removed), the shell scripts and services,
  the Windows test tools, the packet captures.

Work ahead: discrete time for the laser's idle timeout against a paused heartbeat
(`PROTOCOL.md:23` asks for pings "including during job execution", and `engrave()` pauses them); the replay tools as a second user of `PacketStream`.
