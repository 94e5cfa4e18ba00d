# Verification of the RAAT SDK

This directory holds TLA+ models of the RAAT SDK, the library of a networked audio endpoint:
what they model, what TLC checks about them on small instances, and what TLAPS proves about
them for every instance.

## The system

A RAAT *device* runs a libuv loop with a *server* (TCP) and *discovery* (UDP). For each
client the server makes a *session*: a thread, a libuv loop and a Lua state. The client sends
scripts; a session runs them, and they use the device through *plugins* (output, volume,
source selection, transport) and through *streams*, the jitter buffers that the session
fills and the output's hardware thread empties.

| Component | State it keeps | Operations | Who calls it | What makes it correct |
|---|---|---|---|---|
| Stream (`raat/raat_stream.c`) | live and dead region lists, `sample_fill`, two pools, metadata array, reference count; a lock, a pool lock and a condition variable | write, read, consume, cancel, destroy_packet, clear, incref, decref | session thread (writes, clears), hardware thread (reads), consumers | timeline order, capacity, fill count, exact samples, no lost memory, no lost wakeup |
| Output plugin (`plugins/raat_plugin_output_null.c` and the platform outputs) | owner's token and callbacks, IDLE/STOPPED/RUNNING, stream, hardware thread, resync delay; the platforms: a handle of the device | setup, teardown, start, stop, force_teardown, clock functions | every session's thread, source selection, the hardware thread itself | one owner, losers told, nobody hears another's stream, threads end, the device is the owner's |
| Script output (`raat/raat_script_plugin_output.c`) | a callback state (references, dead flag, token) and the registry slot of the present setup | setup, teardown, callbacks posted to the session, `__gc` | session thread; plugin threads post | each state is freed once, and after its last use; a script that ends leaves the output |
| Session (`raat/raat_session.c`) | post queue, running flag, client type, shutdown handlers | start, post, run_script, process_message, set_client_type, delete | server thread, session thread, plugin threads | a posted handler runs once and in order; deletion races with nothing |
| Server (`raat/raat_server.c`) | clients, post queue, listener; of a client: socket, framing state, keepalive timer, is_destroying | start, rebind, stop, connect, read, keepalive, post, load_script | loop thread; sessions post | each client is destroyed once; after stop the loop ends |
| Device (`raat/raat_device.c`) | running flag, client types with counts, listeners | run, stop, notify_client_type, network status | application, loop thread, sessions | counts match the connected clients; stop ends the loop |
| Discovery (`raat/raat_discovery.c`) | sockets, services, broadcast operations, start_seq, transactions | start, stop, announce, query, send callbacks, timers | loop thread | an operation of an old start ends, and sends nothing on new sockets |
| Client (`raat/raat_client.c`) | connection state, pending requests, framing state | connect, send, response, disconnect | loop thread | each request is answered or canceled once |
| Log (`raat/raat_log.c`) | circular buffer of links, sequence number | write, read, clear | any thread | the links in the list are whole and in order, a poller misses none of them |
| Volume plugins (`plugins/raat_plugin_volume_*.c`) | volume and mute behind a lock, a device that has its own, listeners | set_volume, set_mute, the device's events | session threads, the thread of the device's events | listeners and device have what the plugin has |
| Source selection (`plugins/raat_plugin_source_selection_test.c`) | status, request sequence | request_source, request_standby, set_state | sessions, helper threads | a superseded request changes nothing; success means that the source is free |
| Formats and samples (in each platform output) | supported formats, the negotiated format, the buffer | probe, negotiate, pack | setup, hardware thread | the hardware gets a format it takes, each sample gets to its place |
| Drift correction (`raat/raat_dsp.c`) | history of clock errors | set_remote_time, compute_correction, read with correction | output plugin, hardware thread | what is due is played; a correction drops or repeats what it says |

What is hard in it: four kinds of threads (loop, sessions, hardware, consumers) share
objects with locks that are released around every callback, join and allocation; objects are
destroyed asynchronously while posts and timers for them are under way; ownership of the
hardware may be lost at any moment; the device itself fails, moves or is changed by somebody else.
Nothing that is shared is persisted but the volume of CoreAudio, whose file the model includes.
`PROJECT.json` lists each hazard at its line.

## Modules

| Module | Models |
|---|---|
| `RAATStream` | the stream, `raat_stream.c` |
| `TimelineBuffer` | what a stream promises: spans enter at any place of the timeline and leave in order |
| `ListLemmas`, `RAATStreamProofs` | facts about lists, theorems about the stream |
| `OutputPlugin` | ownership of the hardware, `raat_plugin_output_null.c` |
| `OutputOwnership` | what an output plugin promises about it (`raat_plugin_output.h`, "The setup token") |
| `OutputPluginProofs` | theorems about the plugin |
| `PlatformOutput` | what the platform outputs add to `OutputPlugin`: a handle of the device |
| `AlsaOutput`, `WasapiOutput`, `CoreAudioOutput`, `AsioOutput`, `CaptureOutput` | the ownership of the device on each platform |
| `PlatformsProofs` | theorems about them, as `MCPlatforms` puts them together |
| `ScriptOutput` | a session's scripts at an output, `raat_script_plugin_output.c` |
| `RAATServer`, `RAATServerProofs` | the server, its sessions and the device's loop: `raat_server.c`, `raat_session.c`, run and stop of `raat_device.c` |
| `ClientTypes` | the types of the clients: `raat_device.c` and `raat_session.c` |
| `RAATDiscovery`, `RAATDiscoveryProofs` | `raat_discovery.c`, and the device and the network watch around it |
| `RaatClient` | the client side of a connection, `raat_client.c` |
| `PartsProofs` | theorems about `ScriptOutput`, `ClientTypes` and `RaatClient` |
| `RaatLog` | the log, `raat_log.c` |
| `VolumePlugin`, `AlsaVolume`, `CoreAudioVolume`, `WasapiVolume` | the volume plugins; the first one has what they share, and the plugins for software volume and for a serial line |
| `SourceSelection` | `raat_plugin_source_selection_test.c`, with the player MPD and the front panel |
| `AudioFormats`, `AlsaFormats`, `WasapiFormats`, `CoreAudioFormats`, `AsioFormats` | formats and samples on each platform |
| `Playback` | the clock of the buffers and the drift correction, `raat_dsp.c` |
| `DevicesProofs` | theorems about the volumes, the sources and the playback clock, as `MCDevices` puts them together |
| `MC...` | instances for TLC. `MCParts`, `MCPlatforms` and `MCDevices` hold several components that do not meet: a variable `which` chooses one of them at first |

### RAATStream

A region is `[start, len, buf]`: its stream time, its length in samples and the true size of
its buffer (`NULL` after a consumer took it). A sample is represented by its stream time, so
"the right sample" is checkable. `live` and `dead` are the two lists, `fill` is
`sample_fill`, `pool` holds both pools and how much the allocator has given out. `wr`, `rd`
and `con` are the locals of the calls in progress.

A critical section that loops (the eviction loop of write, the whole of read) is a sequence
of steps under `lock`; one that does not loop is a single step; what the code does outside
of the lock (destroying dead regions, allocating, fetching the metadata pointer) are steps of
their own that interleave with everything. `stream_write` is `WriteEnter` (duplicate check),
`WriteEvict`, `WriteUnlock`, `Reclaim`, `WriteAllocRegion`, `WriteAllocBuf`, `WriteInsert`;
`stream_read` is `ReadEnter`, `ReadDrop`, `ReadCopy`, `ReadFill`, `ReadUnlock`, `ReadReturn`.
Every allocation may fail. A failed assertion, a NULL dereference and a copy of negative length
end the process (`fault`). There is one writer, because a stream is a userdata of one
Lua state, and one reader, the hardware thread of the output that plays it.

The model assumes of the packets that one that starts later does not end earlier
(`PacketsAssumption`): the server cuts up one timeline. The code relies on it; with nested
packets the copy loop would run backwards.

### OutputPlugin

`current`, `next`, `state`, `lostCb`, `stream`, `new`, `remaining`, `setupCb` and `tid` are
the fields of `NullOutputPlugin`; callbacks are named by the setup call (request) they belong
to, streams by the token they were started with, threads by their token. `call` holds the
locals of each caller, `thread` those of each hardware thread, `req` is history. Each critical
section is one step. `tid` is read when a caller joins, as in the code, and joining a thread
that was joined before is undefined behaviour: it returns or the process dies (`fault`).
The countdown of the resync delay is a load, a store and perhaps another load, which race with
setup: `ThreadPlay`, `ThreadCount` and `ThreadAnswer`.

`setup` is `SetupEnter`, `JoinBegin`/`JoinEnd`, `TellLost`, then `SetupRefused` and `SetupFail`
or `SetupGranted`, `SetupResync` and `SetupReturn`; `force_teardown` is `ForceEnter`, the same
middle, then `ForceRetry` or `ForceReturn`.

### The platform outputs

They were written from the reference plugin, and the modules say so: `PlatformOutput` EXTENDS
`OutputPlugin`, and each platform's actions are those of the reference plugin with the device added,
or their own where the code differs. `dev` is the plugin's handle (`pcm`, `audiounit`,
`asio`, `file`), named by the token of the setup that opened it, `open` the handles that are
open; using one that was closed is undefined behaviour (`Touch`).

- ALSA: the pcm stays in the plugin between setups and is closed by whoever finds it. The hardware thread may
  give up (the device is not ready) or call `force_teardown` itself when the device has gone;
  its join of itself returns at once (`SelfJoin`).
- WASAPI: setup holds the lock till the thread has opened its client, or has failed to, so that
  this is one step; callbacks and resync delay are the thread's own.
- CoreAudio: the system calls the plugin back. Unit and callback meet at the plugin's lock, and a callback
  whose token is not current returns with the lock held (`fault = "locked"`).
- ASIO: one thread drives the driver; a setup has it started there with the lock held
  (`AsioSetupHolds`), everybody has it stopped there without. A callback has no token.
- Capture: a file for each start, opened and closed under the lock.

`overlap` and `broken` are histories: a call was made while another one was in progress, and
the device failed under its thread. Where a property names them, the code keeps it in
their absence only.

### ScriptOutput

A callback state is known by its setup; `slot` is the registry's
`raat_output_plugin_setup_token`, `keys` the states whose Lua callbacks the registry holds,
`posts` the handlers posted to the session's thread. The plugin is the one that
`raat_plugin_output.h` describes: it answers a setup once or it is lost before, tells of a loss once
and some time after it, and tells nothing after a teardown that succeeded. A Lua callback may
call setup and teardown before it returns, so a handler is two steps, `Handle` and
`SetupHandled` or `LostHandled`. `overlaid` (a setup before the last one was
answered) and `inFlight` (the session ended with an answer or a loss on its way) are
the two situations in which a state is used after its end.

### RAATServer

`life` is where a client is between its connection and the free in its socket's close
callback; `session` is its session: what its thread does, the queue `post_handlers`, and the pending
flags of `async_post` and `async_stop`. `posts` is the server's `post_handlers`. `asyncs` is
libuv's list of the async handles of the device's loop, in the order of their initialisation:
the server's `async_post`, one for each script that was loaded and not answered, one for each
client whose destruction has to be finished, and the one of `device_stop`. `loop` says what the loop
thread does: `poll`, a pass over the async handles (`at` is the position it came to), draining
`posts`, inside `server_stop`, or joining a session's thread.

The order of the handles is modelled because the code depends on it: libuv's
`uv__async_event` (`external/uv/unix/async.c:78`) walks through the list from the oldest handle,
reaches the ones that callbacks append meanwhile, and comes back to older ones only in the next
pass. A callback that joins a thread is several steps: `DestroyClient` (up to the join),
`FinishDestroy`, then the rest of the caller, and sessions run in between. The body of
`server_stop` is `PassStop`, `StopClient` for each client, `StopServer`. In a session, `SessionWake` and
`SessionHandle` are `cb_post`, `SessionStop` is `async_stop_cb`, `SessionFails` a Lua error out of
`uv.run()`. Everything Lua code may send to the server is `SessionPosts`.

Pushing a handler on a queue and signaling are one step: a thread that is stopped in between
has not ended, so no join passes it by, and a drain that comes in between takes the handler.
Left out: allocations that fail, failures in `connection_cb` after the session's thread was
started, the keepalive timer except for what it may do (`Disconnect`), and discovery, which shares
the loop and is assumed to close its handles when it is stopped - which `RAATDiscovery` shows
(`StopDrains`). A client that was freed and is used, a handle closed twice and a handle initialised
twice end the process (`fault`).

### ClientTypes

`count` is the list `client_types`. `session_set_client_type` and `session_delete` are sequences of
steps on two threads, as in the code: leave the old type, free it, assign the new one, announce it;
and the loop thread announces the loss of the type and frees it before it joins the
session's thread. The critical section of `device_notify_client_type` is one step, `Notify`; the
listener is called after it with a snapshot (`present` has all of them, `heard` those that were told).
Freed memory is `gone`, and `raced` the history that a session was deleted during
`set_client_type`.

### RAATDiscovery

A start of discovery is known by the value of `start_seq` that it set; its sockets open and
close together (`sock`). A broadcast operation is a record of its start, its addresses left
(`fast`), the code's `active` and `timer` flags, and what libuv really has under way for it (`reqs`,
`armed`); `OpStep` is `broadcast_op_step`. Answers and rebroadcasts under way are counted by the
start of their socket. `Run`, `DeviceStop`, `EndWatch`, `StopCallback`, `RunReturns` and
`Refresh` are the device; `NetworkChanges` and `Notified` the thread of `rc_netutil.c` and its
async handle. A handle whose memory is freed while libuv has still to close it is
undefined behaviour.

### RaatClient, RaatLog

In `RaatClient` everything runs on one thread and callbacks nest: `stack` holds the calls in
progress, and a frame is a callback of the application or what a function of the client still has
to do. The application may call the client again from every callback. Bytes are abstracted to
whole messages. A write that finds no memory closes the connection inside of its caller (`Unsent`). `polite` is the
history that the application keeps to the calls that are safe: it connects once, closes and deletes outside of callbacks, and deletes
when libuv is done with the handles.

In `RaatLog` links of different sizes lie in a circular buffer at addresses; a link is whole until another
one is written over it. Each operation holds the lock and is one step. The sequence number wraps.

### Volumes, sources, formats, playback

`VolumePlugin` has the state behind the lock, and the snapshot (`say`) that a thread tells the listeners after
it has let the lock go. The device has its own volume and mute, which somebody else may turn: a byte
on the serial line, an event of the mixer or the endpoint, a property change. `raced` is
the history that two calls, or a call and news from the device, overlapped. What may fail does: each call to a CoreAudio device, its
reads back and its file (the sets `fails`); each value that a WASAPI endpoint is given, and the opening of a new default device, after which its
thread has ended; on ALSA the card goes and comes back, after which the mixer that was open is of no use (`stale`) until a value is
refused and the mixer is opened again.

`SourceSelection` has a thread for each request, which asks MPD to let the device go, the threads of
Roon's and of the panel's standby, and MPD itself, which may be absent, silent or start again.

In the formats modules a platform's hardware (`card`) is a set of combinations that it takes; probing and
the negotiation of a stream's format are functions of it, in the order in which the code
tries. A sample is the sequence of its bytes, and the tables of shifts and byte orders of
`pack_hw_samples` say at which bit of the hardware's word each byte ends (`ByBytes`, `ByShifts`); `InPlace` is where
it has to be. `PackSample` puts one sample after the other into its channel.

`Playback` counts time in ticks of a sample. `PlayBuffer` is a period of the hardware thread with
`RAAT__drift_correction_compute_correction`; the window of the moving average is modelled with its
array, whose slot behind the last one is the sum. The places of a correction in a buffer are random in
the code; `CorrectionIsExact` quantifies over all of them.

## What TLC checks

| Run | Instance | Shows |
|---|---|---|
| `stream` | a writer, a reader, one consumer; three packets, two overlapping, a hole before the third; capacity 4, pools of 1 | `TypeOK`, `CapacityBound`, `LiveSorted`, `ReadExact`, `ReadFilled`, `Accounted` (samples and memory), `MemorySafe` (no write past a buffer, no NULL, no failed assertion), and that the stream implements `TimelineBuffer` |
| `stream_consumers` | a writer and two consumers, two packets | under fairness `SleeperServed`: one signal for an insert loses no wakeup |
| `output` | two sessions and a source selection, two setups, one force_teardown | `OwnerHasThread`, `Handover`, `PlaysOwnStream`, and that the plugin implements `OutputOwnership` |
| `output_ends` | one session and a source selection | under fairness `LostThreadEnds` |
| `server` | two clients, two inputs (scripts, messages, posts, rebinds), two runs of the device | `NoUseAfterFree`, `DestroyedOnce`, `NoThreadOutlivesItsClient`, and under fairness `LoadIsAnswered`, `OnlyScriptsKeepTheLoop` |
| `discovery` | two addresses, one interface, two broadcasts, four starts and stops | `OpsAreServed`, `SocketUnlessFailed`, `OldOpsAreSilent`, and under fairness `StopDrains` |
| `parts` | two sessions and two types of clients, or three setups of a script, or three requests and two connects of a client, or a log that holds up to three links | `CountsMatch`, `NoChangeIsLost`, `StatesAreKept`, `ClosedSessionsLeave`, `RequestsEndOnce`, `LogServes` |
| `platforms` | each platform's output with two sessions and a source selection, two setups, one force_teardown | `NoSilentLoss`, `DeviceIsTheOwners`, `PlaysOwnStream`, `AnswersAreFinal` |
| `devices` | each volume plugin with two callers; two source requests, two standbys; a few hundred kinds of hardware; five buffers of PCM or DSD | `ListenersHear`, `DeviceFollows`, `SourcesAreFree`, `FormatsFit`, `SamplesPacked`, `PlaysOnTime`, `CorrectionIsExact` |
| `stream_overrun`, `server_stop`, `drift_average` | the smallest ones that show it | disagreements, see below |

### Bounds

*Stream.* Reads are of [0, 3) and [3, 5): from the first sample over the end of the second
packet, and over the hole into the third. The stream's capacity holds two packets but not all three, so that overruns, late
packets, duplicates of evicted packets and reads across a hole happen; pools of one
region and one buffer are at their limit after the first discard; the first metadata array has
one entry, so that it grows. Packets may be written again any number of times, and nothing
else is counted: the state space is finite without further bounds.

*Outputs.* `MaxSetups` and `MaxForces` bound the number of calls: two setups
and a force_teardown are a present owner and two callers that race for the hardware, and for the reference plugin the
theorems hold without the bounds mattering. `ResyncBufs = 1` keeps the
countdown to one period: which of the racing threads stores last is all that matters.

*Server.* Connections, disconnections, failed accepts and stops are free; the two
inputs are what is under way when they happen: two scripts of one client, a script and a failure, a
message and a rebind, and so on. Two runs of the device make a restart with what the first
run left behind, and a run after one that failed.

*Discovery.* `MaxSeq = 4` is a start, a stop and a restart with one more of either, so that an
operation may outlive its start and meet the next one; two operations are an old one and a new
one. `FastIps = 2` makes an operation send, step on the last answer and send again before its
timer. `MaxQueue = 1` keeps one answer per socket, one query and one notice under way.

*Parts.* Four calls of `set_client_type` by two sessions make two changes of one session's type with
another session's between them, and the deletion of a session in each place. Three setups are an owner, a
setup that takes the output from it, and one within a callback. The log has 14 units
for links of 2 and messages of 1, 3 and 4 after the cut, so that links have different sizes and it turns
around at different places; `MaxSeq = 15` and 20 messages make the sequence number wrap. Three requests of a client are two
that wait when the connection is closed and one that is sent from the callback of either.

*Devices.* Volumes of 1 and 99 tell the two scales of a volume (0 to 1 and 0 to 100) and the order of events apart, and in
decibels 99 is the volume that CoreAudio's file takes for none; a device rounds to multiples of 3, so that some volumes are rounded and others kept;
two calls and three changes at the device are an event
behind an event with a call between them. One step with failures (`MaxFailures`), of any of its calls, before or after a restart is what
makes memory, device and file differ. `AlsaDevices` has each single format of the hardware, some pairs, and (`Uneven`) each set
of six elements that are not a product of formats, rates and channels, which is what probing each on its own gets wrong: one format has
two channels at one rate and one at another, and of two formats of one rate either has more channels;
the rates are multiples of 44100, and those of 48000 go the same way through the
code. In `Playback`, `Leads` has a stream that starts late, in the middle of a buffer, at its
end, and later; `Window` and `MaxErrors` are both reached, in either order, as the period is that of
PCM or of DSD.

Symmetry: nothing tells one session from another (`output`, `platforms`), or one type of clients
(`parts`); it is used where no run checks liveness.

Deadlock is not checked: a process that died, a destroyed stream and callers whose
calls are used up stop.

### Fairness

In `stream_consumers` a call in progress finishes: its thread is scheduled (weak
fairness for the reader, who holds the lock; strong for steps that have to take it, since a
mutex that is free again and again is obtained in the end). Nothing makes a thread begin a
call. In `output_ends` the hardware threads are scheduled and a period of 50 ms ends. In `server` the loop
thread and the threads of the sessions are scheduled; no client has to send or leave, and Lua code
is assumed to return to its loop. In `discovery` each callback that is due is called (the loop
thread is scheduled and the kernel takes what is sent), and a stop that was signaled is handled; no query has to come in, no network to
change, no application to run or stop the device.

### Conditions that properties state

Some properties hold but for a situation that a history variable names. Each is a place where
the code does less than one might expect, and TLC finds the counterexample when the condition is dropped:

| Condition | Property | What happens otherwise |
|---|---|---|
| `~cleared` | `Accounted`, `MemorySafe` | `stream_clear` leaves `sample_fill` |
| `runs <= 1`, no stop | `NoUseAfterFree` | `server_stop` turns the order of the handles around; its handlers survive a restart |
| `failed` | `SocketUnlessFailed` | the result of a restart of discovery is ignored and the announcement sends on NULL |
| `~raced` (client types) | `CountsMatch` | the loop thread and the session both take the type back; it is freed twice |
| `inFlight`, `overlaid` | `StatesAreKept`, `ClosedSessionsLeave` | the answer comes for a session that has been deleted; the slot names the later of two setups only |
| `polite` | `RequestsEndOnce` | a second connect initialises open handles; a disconnect or delete in a callback uses what it has freed; handles of a deleted client are called back |
| `late` | `RequestsEndOnce` | a request sent from the last callback of a closing is freed with the list, and its callback never called |
| `starved` | `RequestsEndOnce` | a write without memory in a callback that ends a request ends it again, or closes a socket that is closing |
| `overlap`, `broken` | `DeviceIsTheOwners` | a device is closed under its thread, or two are open |
| `overlap` (ASIO) | `NoSilentLoss` | a setup callback that `force_teardown` left behind is canceled in place of telling the owner of its loss |
| `overlap` (WASAPI) | `NoSilentLoss` | a thread that stores its loss callback late stores it over that of a later owner, who is then told nothing; what holds with overlapping calls is `OwnersKnow` |
| `fate = "late"` (WASAPI) | `NoSilentLoss` | an owner that is kicked off between its setup callback and the store of its loss callback is told by nobody |
| `~raced` (volumes) | `ListenersHear`, `DeviceFollows` but for CoreAudio | snapshots arrive out of order; an echo undoes a new value |
| `skipped` | `DeviceFollows` | the serial thread used the last byte of several |
| `refused` | `DeviceFollows` | the ALSA mixer refused a value that the plugin then reports |
| `mixer = "stale"` (ALSA) | `DeviceFollows` | the card was gone: until a set fails, the plugin hears nothing of it |
| `apart` | `DeviceFollows` | a volume that was set while CoreAudio was muted is not given to it, one that it refused is kept, saved and told all the same, and one in decibels is not found again after a restart |
| `blind` | `DeviceFollows` | CoreAudio neither took the mute nor said so |
| `unset` | `DeviceFollows` | the WASAPI endpoint refused a value, which is kept and not tried again |
| `at = "ended"` | `ListenersHear`; `DeviceFollows`, where the thread has to wait (`Busy`) | the WASAPI thread could not open the new default device: no value is applied any more, and what it read before it failed is told to nobody |
| `unlocked` | `ListenersHear` | Roon's standby takes no lock, and its message comes after a later one |

### Disagreements found

With a run each:

- `stream_overrun`: `stream_clear` empties the lists and leaves `sample_fill`; later writes that
  exceed the capacity fail the code's own assertion that a full buffer has a region to
  discard (`raat_stream.c:266`).
- `server_stop`: a script that its session had not run when the client was destroyed leaves an
  open async handle in the loop, so that `device_run` does not return after `device_stop`
  (`raat_device.h:208`). `OnlyScriptsKeepTheLoop` says that nothing else keeps it.
- `drift_average`: when the window of the moving average ends by the size of the array, the next error is
  stored behind the array, into the sum (`raat_dsp.c:364`), and the average is no longer one of the
  errors (`raat_dsp.c:361`).

Stated in the modules, after the properties, and violated by what the code does; TLC shows it when the
definition is added to the named run:

| Definition | Run | What the text says, and what the code does |
|---|---|---|
| `MetadataStaysValid` | `stream` | `raat_stream.h:146`: the metadata pointer stays valid till the next read; a clear frees the array |
| `CanceledOnlyByCancel` | `stream` | `raat_stream.h:215`: a consume call that was not canceled succeeds; it waits once and not in a loop |
| `CbSetupOnce` | `output` | `raat_plugin_output.h:228`: `cb_setup` is called exactly once; not for a setup that loses the hardware before its resync delay is over |
| `ForceTeardownRelinquishes` | `output` | `raat_plugin_output.h:314`; it may return while the old thread still runs, when a concurrent setup kicked it off first |
| `RestComesLater` | `server` | `raat_server.c:190`; a script that ends while `server_stop` joins its session is answered to a freed client |
| `InvalidJsonIsFlagged` | `parts` | `raat_base.h:68`: INVALID_JSON tells of invalid JSON; `raat_client.c:210` takes the flags from the JSON's first byte and sets it when the JSON is valid |
| `OnlySuccessIsLost` | `parts` | `raat_client.h`: the disconnected callback tells of a successful connection; it is called for an attempt that failed, too |
| `KeepsTheLast` | `parts` | `raat_log.h:30`: a circular buffer; a write over the oldest links may unlink newer ones that it does not touch |
| `ListenerIsCurrent` | `parts` | `raat_device.h:66`: the types that are connected; the snapshots may be told in another order than they were made |
| `RebroadcastsOnListedSocket` | `discovery` | `raat_discovery.c:46`; `localhost_send_sock` names a freed socket after a restart without a loopback interface |
| `StalledRequestsEnd` | `devices`, under `SelectionFairSpec` | `raat_plugin_source_selection_test.c:159`: a stalled request fails after five seconds; the timeouts are given to `fcntl`, which does not set them |
| `LostIsLast` | `platforms` | `raat_plugin_output_asio.cpp:1676`: no lost callback beside the setup callback; a setup that was told of its loss may be answered later |
| `NoDeadlockInStart` | `platforms` | `in_start` is to prevent a deadlock during `start()`; a callback that ends the resync delay takes the lock all the same |

Reached by the models, but no text of the repository speaks of it, so they are not runs:

- *Server*: a listener closed again after a rebind that failed, `async_post` initialised again after a
  `device_run` that failed, handlers that survive a stop and run after a restart with freed clients.
- *Discovery*: transactions and operations whose memory is freed with their timer still to be closed; the network
  watch is freed while its timer is, and while a notice may be on its way.
- *Log*: after a clear the list of callbacks has no allocator; a message that just does not fit is
  not cut, and its final 0 is written past the buffer (`raat_log.c:217`).
- *Outputs*: CoreAudio's callback returns with the lock held (`raat_plugin_output_coreaudio.c:826`), and a unit
  is stopped under the lock that its callback waits for; ALSA's thread gives up without an answer
  (`raat_plugin_output_alsa.c:1306`) and joins itself in `force_teardown` (1437); ASIO starts the driver
  under the lock (`raat_plugin_output_asio.cpp:1601`) and ignores that `createBuffers` failed (1548); ASIO's setup stores its
  callback after it left the lock (1787) and `force_teardown` leaves it there (664), so that with overlapping calls a later
  setup cancels a stale one and the owner in between is never told of its loss (this takes three setups, one more than the run has; the proof found it); WASAPI's thread calls the setup callback and stores the loss callback after it without the lock
(`raat_plugin_output_wasapi.cpp:549-552`), so that an owner that is kicked off in between is told by nobody, and its callback stays for whoever owns next;
`force_teardown` that has to try again, and finds no owner the second time, tells the one it told before again (`raat_plugin_output_null.c:302-328`,
`raat_plugin_output_wasapi.cpp:292-325`); the capture and null
  threads go on, while a new stream waits for its start time, with the stream they have let go of
  (`raat_plugin_output_capture.c:363`, `raat_plugin_output_null.c:412`).
- *Client*: a request sent from the last callback of a connection that is being closed is appended to the list and freed with it, and its
  callback never called (`raat_client.c:120-121`, `rc_list.c:123-136`); a write that finds no memory closes the connection inside of its caller
  (`raat_client.c:161-165`), so that one in the callback that ends a request ends this request again and then frees it twice (216-217), and one in a
  callback of the closing closes the socket again, at which libuv aborts.
- *Formats*: where an ALSA device's channels depend on its format or rate, a stream may be listed with more channels than the setup gets, as the
  probe tests channels and rates each on its own (`raat_plugin_output_alsa.c:607`, 721, 1813-1822). `pack_hw_samples` then skips a
  negative number of bytes (839): the samples of the channels that are missing are written where the next frame begins and are written over there, those of
  the last frame behind the buffer. `FormatsFit` and `ChannelsKept` say what holds: no fewer channels than the hardware has at that format and rate, and each sample
  of a channel that it has in its place. On ALSA, samples of 24 bits in `S32_BE` fall through to 32 (`raat_plugin_output_alsa.c:993`), and
  most combinations with floats are not packed right (`AlsaMispacked`); on ASIO 24 bits in 32-bit words aligned
  to 24, and big-endian doubles (`AsioMispacked`); DoP and dCS with one channel swap the two bytes
  (`raat_dsp.c:411`); a CoreAudio device with one channel takes streams with two
  (`raat_plugin_output_coreaudio.c:1947`), and clears a negative number of channels (743). The properties name these
  cases and no others. Formats may be listed that cannot be set up (`raat_plugin_output.h:206`) on ALSA and ASIO.
- *Drift*: when a buffer is too short for its corrections, `rand()` is taken modulo 0 or less (`raat_dsp.c:107`, 255);
  the null and CoreAudio plugins do not align where a DSD stream starts.
- *Volumes*: an ALSA mixer that could not be opened again is used without its element, and one whose card was away hears of nothing until a
  value is refused; a value that is refused is kept and told. WASAPI compares volumes of two scales, and its thread ends for good when a new default device
  cannot be opened, with a state that it may have overwritten and told nobody (`raat_plugin_volume_wasapi.cpp:450-541`). CoreAudio compares the limits of its file the wrong
  way around, before it knows them, so that in decibels the file is used only when it says 0 dB, and takes an actual volume of -1 for none, which is a volume in decibels
  (`raat_plugin_volume_coreaudio.c:91-100`); it keeps, saves and tells what the device refused (289-360).
  Left out of the models: a WASAPI thread that opens another device, or ends, registers its listener once more in place of unregistering it (430, 578); and a default device in
  exclusive mode is not put in shared mode, although the log says so (711-718), and so never follows a new default device.

## What is proved

Each theorem holds for every value of the constants that the module's assumptions allow:

| Part | For every | Assumed |
|---|---|---|
| stream | set of packets, capacity, pool size, set of windows, finite set of consumers | `PacketsAssumption`: of two packets, the one that starts later does not end earlier |
| output | set of sessions and source selections, resync delay, number of calls | that it is a number |
| platform outputs | set of sessions and source selections, resync delay, number of calls | that it is a number; `PlatformsAssumption`: the platform is one of the five |
| script output | number of setups | nothing |
| server | set of clients, number of inputs and of runs | that they are numbers |
| discovery | number of addresses, interfaces, starts and operations | that they are numbers |
| client types | finite set of sessions, set of types | `NoType` is none of them |
| client | number of requests, writes and connects | that they are numbers |
| volumes | set of callers, number of calls and of changes, way of rounding | `LevelsAssumption`, `RoundedAssumption`: volumes are from 0 to 100, also those that a device makes of them |
| sources | number of requests, polls and standbys | that they are numbers |
| playback | period, rate of the clock, lead, start, drift, threshold, window | `PlaybackAssumption`: periods are positive, and a buffer of DSD has whole bytes |

*Stream.* `TypeCorrect` is inductive with `RefInv` (the count is the number of owners, so a
call in progress has a living stream). `CapacityNeverExceeded` and `TimelineSorted` need
`LockInv` (who is inside which critical section) and `TimelineInv`: what a write found out in its
first critical section - room for its packet, no region of its time - still holds when it
inserts, because the other threads only take regions away. `StreamImplementsTimeline` follows: each
step is an insertion, a removal from the front or the removal of everything. `ReadReturnsFilled` and
`ReadIsExact` need `CopyInv`: below the cursor each sample is what belongs there, and the
cursor is where the last copied region ends; that no region is skipped and that no copy has a
negative length comes from `EndsOrdered`, the only use of the order that `PacketsAssumption`
states. `NothingUnaccounted` counts: `fill` is the number of pairs of a live region and a place in
it (`Samples`), and the regions and buffers that the allocator has given out are those in the lists, in the pools, and in
the hands of the calls in progress (`MemoryInv`). `BuffersRespected` adds that no region is longer than its buffer
(`SizeInv`), and that the metadata array has the length it says it has until the first clear (`MetaInv`).

*Output plugin.* A session whose setup was not answered passes the invalid token when it is
closed, and that token is "current" while nobody owns the hardware. So even the types need an
invariant: `TypeCorrect` is inductive only with `OwnerHasThread`, by which an owner's token is
that of a thread. `OwnershipInv` adds what
tokens mean: none beyond `next` is in use (`FreshTokens`); what a setup or force_teardown that has
kicked off the owner holds is not the token of a present owner (`CallsBehind`), so that one whose token is
current finds nobody owning; and a token that is current while nobody owns is no thread's
(`NoThreadYet`). From it follow `OnlyOwnStream` and `PluginImplementsOwnership`;
`OwnerIsServed` needs only the types. `HandoverKept`
follows the lost callback: `HandoverInv` says that the plugin has it exactly while its request owns
(`OwnersCallback`), that granted tokens are distinct and have threads (`GrantedTokens`), that
a setup on its way has no token yet (`SetupsPending`), that whoever a caller has to
tell was granted the hardware, does not own it and has not torn it down (`OwedLosses`),
and what has become of each request (`Fate`).

*Server.* `TypeCorrect` is inductive with `HandleInv`: while the server runs, `async_post` is
the oldest handle, and there is at most one of `device_stop`, at which the loop is throughout
`server_stop`; without it `server_stop` might close a handle that is not there.
`DestructionHappensOnce` and `ThreadEndsFirst` need `Destruction`: a handle that finishes the
destruction of a client belongs to one in life `destroying` whose session has ended and which the loop is
not joining any more, so that neither a second finish nor a second join can come about. `RestComesLast`
is the argument behind the comment at `raat_server.c:190`, made precise (`Order`): what a client has in
the queue is drained before the loop comes to any other handle (`PostsOrdered`: the loop is draining,
or at the start of the list with `async_post` signaled), and the pending answer of a script lies between
the loop's position and the client's finish (`ScriptsOrdered`). It holds in the first run until
`server_stop` (`Up`).

*Discovery.* `OpsServed`, `SocketKept` and `OldOpsSilent` follow from one inductive invariant, `IInv`: the sockets
of the present start are open while discovery runs, and a number is left for its stop (`SocketsOK`);
an operation's flags are what libuv has under way for it, it never waits for sends and timer
at once, and an operation of the present start exists only while discovery runs (`OpsOK`); an
operation without sockets sends only after a restart has failed (`FaultOK`). The last of `OpsOK`
is why a stop needs no list of operations: what it leaves is stale, and ends by itself.

*Client types.* `CountsKept`: as long as no session is deleted during `set_client_type`, `PlaceOK` says where
a session is in its calls, and that its type's memory is gone only while the type is about to be replaced or
after its deletion; so each call takes back a type that was counted. The counting step (a type has one session more,
or one less) is a lemma on cardinalities. `ChangesKept` needs no such condition: each snapshot was told or is held by
exactly one of the calls that are between the critical section and the listener (`SnapsOK`), and the newest is the set as it
is - so even in the race nothing is lost, only counted wrong.

*Platform outputs.* `LossesTold`, `OwnersHaveTheDevice`, `OwnStreamsPlay` and `AnsweredForGood` are about whichever platform was chosen.
All five keep `CommonInv`, the argument of the reference plugin for plugins that differ in their threads: what calls in
progress hold (`CallsFit`), that one that kicked the owner off does not hold the token of a present owner (`KicksBehind`), that
a token is given up once (`SetupFits`), and whose stream it is (`StreamFits`). Most steps of the platforms are of one of four kinds, for each of
which this is proved once: `Silent` (nothing changes hands), `Kicks`, `Grants` and `Yields`. Then each platform has its own part. Capture: there is
a file exactly while it runs, which is the owner's (`FileFits`). CoreAudio: unit, thread and setup callback are the owner's
(`UnitFits`, `AnswerFits`), with no condition, since unit and callbacks change under one lock. ALSA: each handle is open once, and held by the plugin or by the one call
that is to close it (`PcmFits`). WASAPI: an unanswered setup belongs to one call or to one thread that will still call back
(`AnswersDue`), so a loss is only told after the answer (`LossesFit`), and the owner's thread ends only when the device broke (`OwnerPlays`); a loss callback
that is stored, or taken by a thread that ends, is the owner's (`ReportInv`), but the one that came too late. ASIO: a setup
callback is in one place - call, plugin, cancellation, callback under way - and nowhere once it was called (`PlacesFit`).
What holds without overlapping calls only comes from `InTurn` (for ASIO `AsioInTurn`): one call is in progress, and the one thread that lives
is the owner's or is being joined. The attempt for ASIO showed that `NoSilentLoss` cannot be had there without that
condition; it was stated for all calls before, which two setups do not refute.

*Script output.* `StatesKept` and `ClosedSessionsHaveLeft` follow from `ScriptInv`. A state has a reference for
its setup, one for each post and one for the callback that runs (`Counted`, with lemmas on how a list's
posts are counted); an answer comes before the loss of the same setup (`Ordered`); the plugin has the last setup at most, and what it
has is alive and in the registry (`Known`); what is posted finds its callbacks there (`Due`). The slot names the
owner only as long as setups do not overlap (`SlotInv`), which is why closing needs that condition: the garbage
collection gives up what the slot names.

*Client.* `RequestsEnd` needs to know where on the stack a request is ended: `ClientInv` says, for an application that keeps to the
safe calls (`polite`), and while no write is without memory where a request ends (`starved`), that one call at most has another one within it,
the end of a connection (`StackInv`), in which
connection state each may run (`EdgesInv`, `ConnInv`), that the list holds each request that waits, once (`WaitInv`), and how far
the innermost call has come in it, with the requests behind it that came `late` (`WalkInv`). Nothing is claimed of an application that is not `polite`: there the code may use
memory it has freed.

*Volumes.* `HearInv` is behind `ListenersHearAll`: without overlapping calls one thread at most has something to tell, and it
is what the state is. `DevicesFollow` has an invariant for each device, which says what is under way between it and the plugin. The
serial line: the device has what the last volume and the last code for mute on the line say (`LastSays`). ALSA: one caller opens the mixer
again, alone (`OneRedoes`), and after that all agree, but the device while the mixer is `stale` (`AllAgree`). WASAPI: one dirty value, or echoes of which the last is what the endpoint
has (`UnderWay`), and if the endpoint took each value it is as the plugin says but for these (`Agreed`); a thread that has ended promises nothing.
CoreAudio: without news, device, memory and file agree, but for what failed (`CoreInv`) - and since each of
its steps is one critical section, this one needs no condition on overlapping calls; the proof showed that, and `CoreFollows`, which had it, was strengthened.

*Sources and playback.* `SourcesFree` needs of the requests that one which is about to select has found the player
stopped or out of reach (`Requests`). `StreamsPlayOnTime` is arithmetic: it is an induction over the buffers in which each adds what
it played to the position and a period to the clock; the rounding happens once, where the stream begins (`BeginsOnTime`), and
corrections are whole bytes for DSD (`AmountIs`). The types of the drift record come with it, as the average is divided by a count
that is not 0 and stored at an index that exists (`Averages`).

`DevicesInv` puts these together: each part has its invariant while it runs, and keeps it while it rests.

*Only model-checked.* Liveness (`SleeperServed`, `LostThreadEnds`, `LoadIsAnswered`,
`OnlyScriptsKeepTheLoop`, `StopDrains`), which the prover does not do. `LogServes` walks along the links by a recursive function, and `CorrectionIsExact`
folds over the samples of a buffer: both need an induction over data, out of the prover's reach. `FormatsFit` folds over the formats
that are tried, and `SamplesPacked` is about finite tables, all of whose entries TLC visits. The violations.

## Plan

Done, in this order: the stream; ownership of the output; the server and its sessions; client types; discovery with
the device; scripts at an output; the client; the log; the platform outputs; volumes, sources, formats and
playback; theorems about each of them, in the same order but for the platform outputs, which came last.

What could come next, most important first:

1. `PlatformOutput` as a refinement of `OutputOwnership` for the platforms that keep it;
2. the composition of `ScriptOutput` with `OutputPlugin`, in place of the promise of `raat_plugin_output.h`;
3. framing in the server (`ev_client_read`), with the limits of its lengths.

## Not modelled

- *Listener lists* (`raat_plugin_*.c` of `raat/`): lists behind a lock that is held while they are called.
- *Script glue* other than the output's: conversion of arguments between C and Lua, and posts like those of `ScriptOutput`.
- *Transport test plugin*, `raat_plugin_volume_null.c`, `raat_plugin_volume_incremental.c`: they forward messages or keep a value.
- *rcore*: containers, strings and status codes, in whose place the models have sets, sequences and functions.
- *Bytes*: the framing of messages, the content of JSON, text and discovery packets; signal paths; statistics; gain and dither.
- *Drivers*: ALSA, WASAPI, CoreAudio and ASIO are what the code's use of them says; `raat_plugin_watch_alsa.c`.
- *Applications* (`raat_app`, `raatool`, samples): configuration around the library.
- *Vendored libraries*: Lua, luv, jansson, and libuv, whose mutexes, condition variables, threads and
  handles are built into the models from how the code uses them.
