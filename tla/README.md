# Verification of ubuntu-miracast-server-rs

TLA+ models of the Miracast sink, checked with TLC and, where listed, proved
with TLAPS. Paths are relative to the repository (`src/...` is its Rust source).

## 1. The system

One process turns a Linux machine into a Miracast display. It creates a Wi-Fi
Direct group, shows a WPS PIN, hands an address to the phone that joins, connects
to the phone's RTSP server, and plays the stream with GStreamer. It runs with a
GTK window or headless as a systemd service.

| part | code | state it keeps | operations | talks to |
|---|---|---|---|---|
| Receiver | `receiver.rs` | `running`, pipeline slot, `use_hw_decode`, source info, join handles, counters | start, stop, session thread (RTSP client), stats thread, bus watch | sends `Event`s; called by the owner |
| Event channel | `events.rs` | one FIFO | send from any thread, drain by the owner | everything |
| Service loop | `service.rs` | shutdown flag, last activity, handler | one turn: signal, wait, handle, idle | Receiver, Handler, Advertiser, History |
| GUI loop | `ui/app.rs` | watchdog clock, `source_connected`, `shutting_down`, handler | 50 ms drain, discovery watchdog, interface switch, shutdown | the same, and the widgets |
| Connection handler | `connection.rs` | `running`, current PIN, active connection | start, stop, disconnect, re-arm; monitor and drain threads | backend, net backend, owner |
| P2P backends | `p2p_backend/cli.rs`, `dbus.rs` | resolved interface, rotation offset, won resolution | bring-up ladder, remove, arm, monitor, rotate | wpa_supplicant |
| Advertiser | `advertiser.rs` | advertising flag, group interface | start, stop | backend, owner |
| Net backends | `net_backend/*.rs` | lease table, pool pointer, port 67 | set up, serve, wait for a lease | kernel, phones |
| Dedicated supplicant | `p2p_supplicant.rs` | child process, files, NetworkManager's claim | start, stop, drop | sudo, nmcli, NetworkManager |
| History, configuration | `history.rs`, `config.rs` | a JSON file each and its copy in memory | load, add, clear, set | disk |
| Service manager | `service.rs` | none of its own | install, uninstall, start, stop, status | systemctl |
| Codec, models, utilities | `rtsp.rs`, `models.rs`, `utils.rs` | none | pure functions and one-shot commands | |

### What is hard here, and what makes each part correct

* **Receiver.** Three kinds of threads share a flag and a slot that are reused by
  the next session. `stop_receiving` gives up its join after 5 s, so a thread of
  an ended session can live into the next. Correct means: the slot holds only a
  pipeline that plays, `stop_receiving` returns, threads left behind end, one
  rtsp-client thread is in charge at a time, a receiver that claims to receive has
  something behind it, and a session whose pipeline another one's thread took
  away (a stats-monitor thread that slept through the stop, for instance) ends.
* **Service loop.** Events arrive late, twice or after the session they are about.
  Correct means: a session that ended is recorded or its record is due, a signal
  ends the process, the process leaves with the receiver stopped, a dead session
  does not block the next source.
* **Connection handler.** Three parties store, show and arm PINs without a common
  lock; the lease wait holds the drain thread up to 15 s while sources leave and
  the owner stops the handler. Correct means: the PIN on the screen is the one the
  registrar waits for, sources that left are forgotten, a stopped handler ends. The
  D-Bus backend reads each signal in a thread of its own, so a leave may overtake its join.
* **Backends, advertiser, GUI loop.** A bring-up tries several channels and can fail
  half-way; groups appear late, also after the command that made them was killed; handlers
  end by themselves; the watchdog rotates channels while events of the
  removed group are queued. Correct means: at most one group unless one was given up, the
  resolution of the band it came up on, no handler but the one of the group that is
  advertised, no rotation under a stream, every channel tried before the user is told so,
  and a PIN for the next source.
* **Net backend.** A server thread per handler and one UDP port. Correct means: an
  address belongs to one phone, and the group that is up is served.
* **Supplicant, files.** Early returns, commands that fail or time out, a second
  activation in the same process, and crashes between any two steps, whose remains the
  next run finds. Correct means: NetworkManager gets its interface back, one daemon has
  the adapter, a file holds the old or the new content, and memory agrees with it.

## 2. Modules

| module | models | composes / refines |
|---|---|---|
| `Receiver` | `receiver.rs`: session, stats, bus-watch and stop steps | |
| `MCReceiver` | a statement of the repository about it | extends `Receiver` |
| `ReceiverProofs` | theorems | extends `Receiver` |
| `ServiceLoop` | `run_as_service` and the signal handler | extends `Receiver`, implements `SessionBook` |
| `SessionBook` | what an owner of the receiver promises about records | abstract |
| `MCServiceLoop` | a statement of the repository about records | extends `ServiceLoop` |
| `ServiceLoopProofs` | theorems of the composition | extends `ServiceLoop`, `ReceiverProofs` |
| `BookProofs` | the proof that the service implements `SessionBook` | extends `ServiceLoopProofs`, `QueueCounts` |
| `QueueCounts` | lemmas: how many events of a queue are of a kind | used by `BookProofs`, `AppProofs` |
| `ConnectionHandler` | `connection.rs` and the monitors and arming of both backends | |
| `MCConnectionHandler` | a statement of the repository about it | extends `ConnectionHandler` |
| `ConnectionHandlerProofs` | theorems | extends `ConnectionHandler` |
| `DhcpServer` | `net_backend/native.rs`: server threads, lease tables, pool, lease wait | |
| `MCDhcpServer` | a statement of the repository about it | extends `DhcpServer` |
| `DhcpServerProofs` | theorems | extends `DhcpServer` |
| `GoLadder` | `capabilities.rs` detect; bring-up, removal and rotation of `cli.rs` and `dbus.rs` | |
| `App` | `ui/app.rs` events, watchdog, switch and shutdown; `advertiser.rs` | extends `GoLadder` |
| `MCApp` | constants, and a statement of the repository about it | extends `App` |
| `AppProofs` | theorems of the composition | extends `App`, `QueueCounts` |
| `P2pSupplicant` | `p2p_supplicant.rs`: start, stop, Drop, the daemons | |
| `JsonFile` | `write_json_0600` of `config.rs` on one file | |
| `SavedFile` | what the program promises about a file it saves in | abstract |
| `Program` | `activate`, the settings and session views, `graceful_shutdown`, `config.rs`, `history.rs`, over several runs | extends `P2pSupplicant`, two instances of `JsonFile`, implements two of `SavedFile` |
| `MCProgram` | a statement of the repository about it | extends `Program` |
| `ProgramProofs` | theorems of the composition | extends `Program` |

Where a module has operators named "Mutation of ...", they are the plausible bugs that
show each property able to fail; the specifications do not use them.

### Receiver

Sessions are numbered as they start; a session's number names its thread, its
pipeline and its stats thread. `rtsp[s]` is the program counter of `SessionCtx::run`
and what it calls, `stats[s]` that of `StatsCtx::run`, `stopping` that of
`stop_receiving`. Every atomic access or lock section that another thread can see
is one step: so `start_pipeline` reaching PLAYING (`PipelineReachesPlaying`) and
the store in the slot (`StorePipeline`) are two steps and a stop may fall between.
`TakePipeline` is the `lock().take()` and `set_state(Null)` that five places in the
code share. RTSP messages M1 to M7, the GStreamer elements, the counters and
`StatsUpdated` are abstracted: no step of another thread looks at them.
`detached` is a history variable: the threads outlived by the end of their session.

`BusWatch` says whether bus-watch callbacks are dispatched. The headless process
runs no GLib main loop (item 1 of "How It Works" in `docs/service-mode.md`
describes an older one), so `ServiceLoop` assumes `~BusWatch`. In the GUI a main loop
runs, but `receiver.rs:1060` drops the guard that `add_watch` returns, which
removes the watch; `BusWatch = TRUE` is the behaviour the code is written for. Under it,
a decode error in mid-stream (`BusDecodeError`, `receiver.rs:1063-1075`) stops the
pipeline, and neither another pipeline nor an event follows.

### ServiceLoop

`loop` is where `run_as_service` is in its turn, `cur` the event in hand. The
actions are its match arms in order: signal first, then one event or the 500 ms
timeout, then the idle check. `stop_receiving` is not atomic: `loop = "stopping"`
while the three steps of Receiver run. `AddSession` records `SourceInfo`, the
source the receiver last *started* with, as the code does. `StartReceiving` when
already `running` is the early return.

`SessionBook` is the abstract promise: sessions begin one at a time, an ended one
leaves a record due, and a due record is never dropped. `RecordsDue` counts the
queued `StreamStopped` events, the threads about to send one, and the record in
hand. The refinement maps each step of the loop and of every thread to a step of the book
or to none; a run checks it and `BookProofs` proves it.

### ConnectionHandler

PINs are numbered in the order they are generated. `monitor` and `drain` are the two
threads' program counters, `arm[t]` that of `arm_current_pin` in thread `t`
(monitor, drain, or the detached thread named by its PIN), `unshown[x]` the PIN party
`x` has stored and not yet sent as `PinDisplay`. `backend` is chosen once, as
`select_backend` does: the D-Bus monitor polls once a second (`MonitorPolls`), the
wpa_cli monitor blocks in `read_line` and looks at `running` between lines only
(`cli.rs:404`), and ends without a word when the pipe closes where D-Bus reports an
error (`StreamEnds`). What happens on the group before the backend watches is seen by
nobody (`Announces`): the PIN is armed at `connection.rs:148`, the monitor attaches after
it, and wpa_cli's first lines are thrown away. Then wpa_cli's lines are forwarded in
order, while a D-Bus signal goes to the reader thread of its kind: `unread` has a queue
for each, and `MonitorReads` takes the next signal of any of them, so a leave or the end
of the group may come before its join. A join whose address cannot be read is skipped.
The lease wait ends in one step, with the connection announced or
rejected; the address itself is the subject of `DhcpServer`. `overlapped` is a history
variable. `Watched` is the time in which the monitor still reports: once it has returned,
`running` is cleared and the drain thread may leave with events in the channel, so
`LeaveIsPending` speaks of that time only. It and `DepartedSourceForgotten` are stated for
wpa_cli: with the D-Bus readers both are false, in the model as in the code.

### DhcpServer

Handlers are numbered as they start: `SetupDhcp` is an `AdvertisingStarted` that makes
a new handler, hence a new `NativeNetBackend` with an empty lease table and a new server
thread. `ServerBinds` is `bind_to_iface`: the kernel refuses the port while another
socket holds it, because the socket is pinned to its interface only after the bind, and
`serve` has no way out of its loop. A socket that could not be pinned is used all the
same, so `Answers(h)` lets an old handler's server answer in a newer group.
`Discover` and `Request` are `handle_packet`, which writes the table for both; `Reuse`,
`Grant` and `Allocate` are its three sources of an address. `LeaseTimesOut` may come with
a lease in the table, recorded after the last look at it. Addresses are offsets in the
pool; `asked`, `handed` and `guessed` are history variables. The backend is used when
it is compiled in and `MIRACAST_NET=native` is set.

### GoLadder and App

A group is named by the number of the `p2p_group_add` that made it; group 0 is one that
an earlier run left. `bring` is where `start_group_owner` is, `rung` its position in the
rotated ladder, `pre` the snapshot of interfaces, `cand` the interface in hand. The
wpa_cli backend goes on to the next rung when a rung is rejected, its group does not
appear in 10 s (`WaitTimesOut`, which removes nothing) or is in the wrong band
(`WrongBand`, which removes it); an error of a command ends the whole bring-up
(`ConfigFails`, `AddAborts`). The command that is killed after 10 s, or the `GroupAdd` call
that errors, may have been accepted all the same: its group can appear when nobody waits for
it any more (mishap "left"), as that of a rung given up can. The D-Bus backend removes all groups first, each with its own
luck (`StaleRemoved`), adds one and takes the first it finds (`SeesAnyGroup`).
wpa_supplicant is the environment: an accepted group may appear at any time, also after
it was given up, in either band, or never; a removal may fail. `won` is
`won_resolution` as the band it belongs to.

`App` is everything the GTK main loop runs on top: one callback at a time, with a
bring-up blocking the loop while threads and radio go on. Its actions are the arms of
`handle_event` that change state (`HandleAdvertisingStarted`, ...), `check_discovery_watchdog`
(`WatchdogRotates`, `WatchdogPrompts`), `switch_interface`, the refresh button,
the deferred first start and `graceful_shutdown`; `StartAdvertising`, `StopAdvertising` and
`AdvertiserReturns` are the advertiser. A connection handler is seen from outside: it
`listening`s on a group, a source that joins uses up the PIN and after the
lease wait is announced or rejected (`LeaseEnds`), also by a handler that was stopped. A
handler may end by itself (`HandlerEnds`: its monitor returned), and the App keeps it, dead,
until the next `AdvertisingStarted`. `SourceUnseen` is a source that uses up the PIN while
no event tells of it, because the monitor is not attached yet or has ended. `pin` says
whether the PIN armed last is unused, spent (seen), or missed (unseen).
Of the receiver there is `running`, the session `thread` with the group of its source, and
its terminal events; overlapping sessions are the subject of `ServiceLoop` and not repeated
here. A session that fails either ends with its thread, or its thread goes on after the
`StreamError` (the bus and the stats thread report errors too), as often as it likes.
`owed` counts the sessions without a record; a session recorded twice makes up for no other. Time is abstracted: the watchdog may find its 60 s over at any turn.
`mishaps`, `led`, `owed` and `prompted` are history variables.

### P2pSupplicant, JsonFile and Program

`P2pSupplicant` follows `start` and `stop` command by command (`stage`), for managers that
are made anew by each App. A daemon is a `sudo` process, which is the child, and the
`wpa_supplicant` under it, because `kill -9` reaches only the former (`KillHard`).
Every command may fail, time out with or without its effect, or be refused; a `mishap` notes
which promise is then off. What a dead process leaves (daemons, control socket, the
adapter's flag in NetworkManager) is what its next run finds; `base` tells the daemons of
earlier runs from this run's.

`JsonFile` is `write_json_0600`: create the temporary file, write it, rename it, any step
failing or the process dying in between. `SavedFile` is what that is for, without the steps:
a document is asked for, then it replaces the whole file or the file stays as it was. In the
refinement the temporary file disappears, `Rename` is `Done`, and a failed write or a crash is
`GiveUp`. `Program` has two instances, the configuration
and the history, and a `phase` for the main loop: `activate` (load both, choose or start
a supplicant), settings and sessions while it is idle, and `graceful_shutdown` of one App
after the other. A second launch activates the process that runs, which makes a second
App with managers of its own. `Dies` is SIGTERM, SIGINT, SIGKILL or a panic: the GUI
installs no signal handler. One bounded setting (`port`) stands for the configuration, a
timestamp for a record.

## 3. Runs

| run | question | bounds | result |
|---|---|---|---|
| `receiver` | can any caller break the slot, hang stop, or leave threads behind? | 1 session, 2 bus messages | holds |
| `service` | does the loop keep its promises with sessions that overlap? | 2 sessions, 2 sources, idle timeout on | holds |
| `connection` | do PIN, connection and threads of both backends stay consistent? | 2 sources, 3 backend events, 1 re-arm by the owner | holds |
| `dhcp` | do sources get distinct addresses, and the receiver the right one? | 3 sources, 2 addresses, 2 handlers, 3 joins | holds |
| `app` | do group, handler, watchdog, PIN and records stay in step over rotations and switches? | 2 social channels, 5 GHz or not, both backends, 2 groups and a stale one, 2 joins, 1 switch | holds |
| `program` | do adapter, daemon and files survive failures, crashes and a second activation? | 2 activations, 2 daemons, 1 mishap per run, 1 save or edit, history of 1 record | holds |
| `cleaned_up` | is nothing left playing after `stop_receiving`? | 1 session | violated |
| `service_records` | does every session leave a record? | 1 session | violated |
| `pin_shown` | is the PIN shown the PIN armed? | 1 source, 1 re-arm | violated |
| `group_served` | is every group that is up served? | 2 handlers | violated |
| `source_kept` | does the watchdog leave a group alone that a source has joined? | 1 join, no switch | violated |
| `shutdown_restores` | does every way to end the program restore the adapter? | 1 activation, 1 daemon | violated |

**Bounds.** Two sessions are the fewest in which a thread of an ended session meets the
next one; the service run has both alive at once, with every event of the first
queued or unsent while the second is at any stage. The receiver run takes one
session because the caller there is unconstrained and the stats, bus-watch and
stop interleavings already arise within one; overlapping sessions are the service run's
and the proofs' subject. Three backend events let a source join, another leave and a
re-arm be asked for, in any order, while the owner re-arms once. Three sources on two
addresses let the pool wrap, and two handlers are the fewest that replace each other.
Two social channels are one to begin with and one to rotate to; two groups let the
second come up while the first one's events, sources or late interface are about, and a
switch may fall before, between and after. `Bounded` (`MCApp`, a CONSTRAINT of both its
runs) keeps events queued, joins and switches together at three: a state beyond is checked
but not followed. It binds TLC only; the actions have no such guard, so the proofs are about
queues of any length. Two activations are a run and the next one, or
two Apps in one process; one mishap per run is one step of several failing, and each
run may have one. With a history of one record every second record meets the cap.
`CHECK_DEADLOCK FALSE` everywhere: every system here may stop for good (a stopped
receiver, an exited process, an ended handler).

**Fairness.** Weak fairness for each thread's own steps: the scheduler runs every
thread, every wait in them has a timeout (connect 5 s and 1 s pause, RTSP read 30 s,
streaming loop 100 ms, `recv_timeout` 500 ms, lease 15 s, arming 10 tries), and the
service loop and `stop_receiving` run on. In `Program` it is the main loop's steps that are
fair: GTK runs its callbacks, and all commands have a timeout but `child.wait()`
(`ChildReaped` is enabled only when the child has ended) and the probe in
`adapter_on_wifi` (`app.rs:579-588`), so the steps of phase `choosing` are not fair. `App` and `DhcpServer` state
safety only. Nothing is assumed of phones, GStreamer, signals, users, daemons or the
wpa_cli pipe: their actions are in no fairness condition.

**What the passing runs show.** `SlotIsPlaying`: no interleaving leaves a stopped
pipeline in the slot, where the next stop would take it for a live one. `StopReturns`,
`FallsQuiet`: the 5 s budget covers every slow stage, and what it leaves behind ends by
itself. `OneClient`: rtsp-client threads of two sessions meet only after an expired
join. It says nothing of stats-monitor threads: nobody joins one, and one that slept through a
stop and a restart takes the next session's pipeline and reports an error for it.
`NoBlindStream`: when that happens, or a thread left behind takes it, the session that goes on
without a picture is about to end. `NoSilentDeath`,
`DeadSessionIsReleased`: the service never sits "receiving" with nothing behind it.
`KeepsBook`: no step of the loop or of a thread drops a record that was due.
`ConsistentUnlessOverlapped`: one re-arming alone leaves screen and registrar in step.
`LeaveIsPending`, `DepartedSourceForgotten`: with wpa_cli a leave is never overtaken by its
join's lease wait, nor lost, so a connection without a source ends. Not so with D-Bus, where
the join may be read last.
`DBusHandlerFallsQuiet`: the polling monitor, its drain thread and every arming end.
`DistinctInTurn`: as long as no source asks for an address by name, a pool that is not
used up gives each source its own. `AnnouncedIsGiven`: the receiver is never sent to an
address other than the source's, except after a wait in vain.
`ResolutionFits`, `OneGroup`: no order of rejected and wrong-band rungs leaves a second
group or the wrong resolution, except after a group was given up (it was late, its removal
failed, or its add errored). `HandlerFollowsGroup`: late events of groups that are gone do not
leave the handler on them; whether the handler still listens is left open, because its monitor
may have returned. `PromptAfterAll`: on a ladder without a 5 GHz rung (wpa_cli, no aborted
bring-up) the rotation's offset, shared by switches and failed bring-ups, skips no channel. With
a 5 GHz rung it does: that rung takes the first turn, and the last social channel never leads.
`NextSourceCanConnect`: each way a source the handler saw may fail or end arms a new PIN; a
PIN that was used up unseen is not replaced, and the property excepts it.
`EndedSessionsRecorded`: no session of the GUI ends without its record or the event that
makes it. `RotationSparesStream`: the mark a source made survives until its session
is over or its group gone. `FilesAreWhole`, `SavesAreAtomic`, `MemoryIsSaved`, `PortInRange`,
`OnlyOldestDropped`: neither crash nor failure tears a file, saves another
document than the one asked for, separates it from memory, lets
a bounded setting out, or drops a record newer than one that stays. `OneSupplicant`,
`SocketIsOurs`: daemon and socket of a run that died do not disturb the next one. `NoFight`,
`HandedBack`: unless a command failed, the adapter is never in two hands and always goes
back. `ShutdownEnds`: a shutdown is over at some time, unless sudo does not run `kill -9`.

**What the violated runs show.**

* `cleaned_up`: `stop_receiving` waits 5 s while a connect attempt is under way; the
  thread connects later, and `receiver.rs:1234` stores a playing pipeline that nobody
  stops.
* `service_records`: `service.rs:312` looks at the signal before the channel, and records
  only while `running`; a queued terminal event is dropped with the process.
* `pin_shown`: the drain thread stores, arms (up to 10 s) and *then* shows
  (`connection.rs:295-301`), the owner stores, shows and then arms; when both run, at the
  end of a cast for instance, the last PIN shown need not be the last PIN armed.
  TLC's shortest trace uses the first PIN and a refresh; the drain thread gives the
  same end.
* `group_served`: after the discovery watchdog has rotated the group once, the old server
  thread still holds port 67, the new one ends, and no later source gets a lease.
* `source_kept`: the watchdog counts a source from `ConnectionReceived`, which comes after
  the lease wait; one that joins in the last 15 s of the minute has its group removed
  under it, where `PORT_NOTES.md:226` counts from `AP-STA-CONNECTED`.
* `shutdown_restores`: SIGTERM or SIGINT ends the GUI with the daemon running and the adapter
  unmanaged, where `docs/architecture.md:169` names both as ways to shut down.

## 4. Proofs

The theorems hold for every value of the constants (`MaxSessions`, `MaxBusMsgs`,
`IdleTimeout`; `Peers`, `MaxRearms`, `MaxSignals`; `Clients`, `PoolSize`, `MaxHandlers`,
`MaxJoins`; `Socials`, `MaxAdds`, `MaxSwitches`; `MaxManagers`, `MaxSpawns`, `MaxMishaps`,
`MaxRecords`, `MaxActivations`, `MaxActs`, `Stamp`), from the named assumptions of the
modules that declare them.

| theorem | statement | inductive invariant |
|---|---|---|
| `TypeCorrect` | `Spec => []TypeOK` | itself |
| `SlotAlwaysPlaying` | `Spec => []SlotIsPlaying` | `SlotInv`: also a thread in `holding` has a playing pipeline, and the pipeline of a thread that has yet to store it is not in the slot |
| `OneClientAtATime` | `Spec => []OneClient` | `ClientInv`: while nothing is detached, an rtsp-client thread that still owns a session is the latest and the one the handle joins, and none is left once a stop has returned |
| `ServiceTypeCorrect` | `SSpec => []STypeOK` | with `BeginInv`: before a first session there is no thread, no stream event and nothing to record, so every record names a session |
| `ServiceNeverSilentlyDead` | `SSpec => []NoSilentDeath` | itself, given the types: each way a thread ends clears `running` or leaves a `StreamError` |
| `ServiceExitsStopped` | `SSpec => []ExitsStopped` | `LeaveInv` and `AdvertiseInv`: the loop leaves by the advertising error only before any source came |
| `ServiceOneClient` | `SSpec => []OneClient` | every step of the composition is a step of the receiver or leaves it alone |
| `ServiceNeverBlind` | `SSpec => []NoBlindStream` | `BlindInv`: also `running` is clear while a stop is under way; only a thread that is about to report the error, or to clear `running`, empties the slot of a session that goes on |
| `ServiceSlotPlaying` | `SSpec => []SlotIsPlaying` | the receiver's `SlotInv`, in the composition |
| `ServiceKeepsBook` | `SSpec => KeepsBook` | the types; `RecordsDue` is the sum of three counts (`DueSum`), and each step moves a record along them or is a step of the book |
| `ServiceLosesNothing` | `SSpec => []Book!NothingLost` | `NothingLost` is an invariant of the book, carried over by the refinement |
| `HandlerTypeCorrect` | `HSpec => []HTypeOK` | itself; it ties the drain thread's birth to the monitor's progress |
| `HandlerConsistent` | `HSpec => []ConsistentUnlessOverlapped` | `StepInv`: half-way through a re-arming, what is held, unshown, shown and armed is the current PIN |
| `DepartureIsPending` | `HSpec => []LeaveIsPending` | `LeaveInv`, for wpa_cli: while no source is associated, every join in the channel has a leave behind it, and a connection or a lease wait has one too |
| `DhcpTypeCorrect` | `DSpec => []DTypeOK` | with `WaitInv`: nobody waits before a first handler |
| `TurnsAreDistinct` | `DSpec => []DistinctInTurn` | `TurnInv`: a table filled in turn holds the first `handed` addresses and the pointer is at the next |
| `AnnouncedAddressIsGiven` | `DSpec => []AnnouncedIsGiven` | `GiveInv`: only the one server with the port writes a table, and an entry never changes |
| `AppTypeCorrect` | `ASpec => []ATypeOK` | with `LoopInv`: the loop is in a bring-up exactly while `bring` says so, nothing is advertised meanwhile, and a group in hand has appeared |
| `ResolutionAlwaysFits` | `ASpec => []ResolutionFits` | `FitInv`: `won` is the band of the winner from the moment it won |
| `OneGroupAtATime` | `ASpec => []OneGroup` | `OnlyInv`: unless a group or an add was given up, at most the last one added exists or is to appear, and at which stage none does |
| `HandlerFollows` | `ASpec => []HandlerFollowsGroup` | `FollowInv`: the last announcement in the queue is of the advertised group, and only the App's handler listens |
| `NextSourceConnects` | `ASpec => []NextSourceCanConnect` | `RenewInv`: a PIN spent on a source the handler saw has a source in its lease wait, a session, or an event behind it |
| `RotationSparesStreams` | `ASpec => RotationSparesStream` | `SpareInv`: a bring-up never comes up with a group that was advertised before, so a source is met only after its group's announcement was handled, and its mark stands |
| `PromptComesLast` | `ASpec => []PromptAfterAll` | `LedInv`, for wpa_cli without a 5 GHz rung: all channels before the offset have led; the one at the offset has, once a bring-up is past its first rung |
| `GuiRecordsSessions` | `ASpec => []EndedSessionsRecorded` | `RecordInv`: the records owed are at most the queued `StreamStopped` plus the session that is on, and while `running` is set there is a thread or a queued error |
| `SupplicantTypeCorrect` | `ProgramSpec => []PTypeOK` | with `Struct`: where the main loop is and which managers may have something to stop |
| `OneDaemonServes` | `ProgramSpec => []OneSupplicant` | `LiveInv`: after this run's `pkill`, a daemon alive is the last one spawned and a manager answers for it |
| `SocketStaysOurs` | `ProgramSpec => []SocketIsOurs` | `SocketInv`, from `LiveInv` |
| `NobodyFights` | `ProgramSpec => []NoFight` | `TakenInv`: the adapter is taken before a daemon is spawned |
| `AdapterHandedBack` | `ProgramSpec => []HandedBack` | `WasInv`: who has a daemon to stop remembers that the adapter goes back |
| `FilesStayWhole` | `ProgramSpec => []FilesAreWhole` | `FileInv`: also the document to be renamed is whole |
| `MemoryStaysSaved` | `ProgramSpec => []MemoryIsSaved` | `MemoryInv`: what is being written is what is shown, and a clear falls back on what the file holds |
| `PortStaysInRange` | `ProgramSpec => []PortInRange` | `PortInv`: all copies of the setting, in memory, file and write |
| `ProgramTypeCorrect` | `ProgramSpec => []ProgramTypeOK` | `ConfTypes`, `HistTypes`, `CountTypes`, with all the invariants above |
| `CapDropsOldest` | `ProgramSpec => OnlyOldestDropped` | the same; a sorted list is in order, so what the cut drops is not newer than what stays |
| `FilesAreSavedAtomically` | `ProgramSpec => SavesAreAtomic` | `FileInv`: the document that is renamed is the one that was asked for |

`OneClient` needs its strengthening because an expired join is the only way two
sessions overlap, and it is `rtspThread` that records whom the stop waited for.
`AppProofs` and `ProgramProofs` first sort the steps of their large next-state
relations into few kinds (`GroupKinds` and `EventKinds`; `StepKinds`), so that each
invariant is shown for a kind and not for every action. What holds of the event queue
(`Queued`, `Silent`, `Latest`, `Announces`) is stated once for taking and for sending (`Taken`, `Sent`).

Three arguments recur. **Counting.** Two proofs are about how many records are on their way. An
event channel's share is the cardinality of the places that hold an event of a kind
(`QueueCounts!Count`): sending adds one or none (`CountAppend`), taking shifts the places by a
bijection and takes one or none away (`CountTail`). So no recursion over queues is needed.
`BookProofs` adds the threads about to send and the loop's event in hand, and shows for each step
by how much each part changes (`DueChange`, `DueMoves`). **Sorting.** `add_session` sorts by
timestamp and keeps ties in place. `Program` defines the sorted list by rank, the number of records
that come before one; `RankOrder` shows that ranks are places and strictly ordered, `RankOnto` that
every place is a rank (an injection of a finite set into itself is onto), and `SortedList` and
`CappedList` that the result is an ordered list of the same records, of which the cut keeps
the newest. **Refinement.** Every step of the program is at most one step of each file's writer
(`ConfMoves`, `HistMoves`), which is a step of `SavedFile` or none (`ConfSaved`, `HistSaved`):
creating the temporary file and filling it change neither the file nor what was asked for.

`LeaveInv` cannot be had from `LeaveIsPending` alone: the join whose lease wait is to end may
still be in the channel, so the invariant speaks of every place of it, and of the fact that only
the drain thread takes events and always the oldest (`BehindSent`, `BehindTaken`).

Only model-checked: the liveness properties `StopReturns`, `FallsQuiet`, `SignalEndsProcess`,
`DeadSessionIsReleased`, `DepartedSourceForgotten`, `DBusHandlerFallsQuiet` and `ShutdownEnds` (no
prover here treats fairness and ENABLED), and the violated runs, which are counterexamples.
Every other property of a passing run is a theorem.

## 5. Not modelled, and why

* RTSP parsing and formatting, WFD bit fields and `models.rs` validation are pure data;
  the systemd manager runs one command per call and keeps nothing; the widgets only call
  the hooks of `ui/app.rs`; the dnsmasq backend leaves its work to another program.
* The 240 s WPS re-arm (`cli.rs:394`) against the PIN's 300 s: real time, and what
  wpa_supplicant prints meanwhile is unknown.
* In `GoLadder`, `ip link show` is taken to succeed, a group does not vanish by itself, and the
  D-Bus device's cached path is found. In `App`, receivers do not overlap (`ServiceLoop`
  has that), and `stop_receiving` and the join in it are one step. It is the loop of one App; a
  second activation is followed in `Program` only.
* In `Program`: two processes (the GUI and the service) that share the files and the same
  `<path>.tmp`; single history records that do not parse, which are skipped; timestamps
  re-read across a change of daylight saving time; keys without a validation rule;
  `ServerConfig::save` and `is_running`, which nothing calls, so the end of a daemon in
  mid-run goes unnoticed.
* One deterministic divergence has no run of its own: a malformed configuration is overwritten
  with the defaults at once (`config.rs:126`, action `LoadConfig`), where
  `docs/configuration.md:121` says not until the next `set()` or `save()`.

## 6. What is left

The refinement of `SessionBook` by `App` (the GUI's bookkeeping differs: it records by
`known`, not by session), an abstract specification of the connection handler and of the adapter's
owner, time in the WPS re-arm, and a pure model of the RTSP codec
over bounded messages.
