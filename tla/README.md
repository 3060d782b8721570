# Formal models of the CALF gen-1 custom firmware

This directory holds TLA+ models of the firmware in this repository, the TLC
runs that check them on small instances and TLAPS proofs about nine of them.
The models are translated from the C, shell and Python sources; `map` in
`PROJECT.json` gives the source lines every definition stands for.

    tlc -config MCCameraBackend.cfg MCCameraBackend   # a run with an MC module
    tlc -config MCSession.cfg Session                 # one without
    tlapm CameraBackendProofs.tla                     # a proof module

`runs` in `PROJECT.json` lists every configuration with its module. The proof
modules are `CameraBackendProofs`, `RecordingFilesProofs`, `SnapshotProofs`
(`CaptureLock` and `Exposure`), `GraphLifecycleProofs`, `InstallerProofs` (with
`Session`), `TouchUiProofs`, `PlaybackProofs` and `SettingsProofs`.

## 1. Inventory

The firmware replaces two processes of a two-lens Rockchip camera, the camera
daemon (`calf-ngcd`, C, `ngcd/`) and the touchscreen program (`calf-ui`, C,
`ui/`), and installs them with shell scripts generated by a Python tool
(`src/calf_fw_tool/`). Vendored codecs and fonts, drawing code and build tools
are not part of the system's own logic and are left out.

| part | state it keeps | operations | how it interacts | module |
|---|---|---|---|---|
| service loop (`http.c`, `main.c`, `app.c`) | listening socket, one connection | alternate `backend tick` and at most one request; stop on a signal | calls the handlers of `api.c`, which call the backend | `CameraBackend`, `Session` |
| camera backend (`backend_target.c`) | mode and running flag, recording, split limits, playback, encoder and its pending update, audio input, image settings | tick, camera mode, snapshot, recording, playback, encoder, audio, image, Night preview, start, stop | owns one graph, one playback, the files of the current recording | `CameraBackend`, `Exposure` |
| camera graph (`rockchip_graph.c`) | flags and masks of started hardware, encoder channel, audio device, validation, stacked frame | start, stop, tick, record, activate, validate, snapshot, stack, RAW, offline pass | Rockit, ALSA, the display: external, every call may fail | `GraphLifecycle` |
| watchdog (a thread of `backend_target.c`) | a deadline shared with the main thread | after 15 s in a graph stop: select the stock daemon and exit | races the main thread's clear | `GraphWatchdog` |
| MP4 writer (`mp4.c`) | open file, sample table, append-only journal | write samples, close, abort, recover | the backend renames closed files; recovery at start reads the journals | `RecordingFiles`, `ClipTables` |
| media paths (`storage.c`) | the names on the card | next sequence number, temporary names | every capture and recovery | `RecordingFiles` |
| playback (`rockchip_playback.c`, `mp4_reader.c`) | clip, position, clock, decoder | open, pause, resume, seek, tick, close | display shared with the graph | `Playback`, `ClipTables` |
| image controls, Night preview | accepted pair, transient preview, sensor timing, an fps file in /tmp | set, read, roll back | the fps file and the sensors are shared with the coordinator | `Exposure`, `Settings` |
| audio (`audio.c`) | mixer route, volumes | apply, detect | the graph's audio device | `CameraBackend`, `GraphLifecycle` |
| IMU (`imu.c`) | sample ring, calibration | two sampling threads, drain | gyro samples go into the recording | - |
| USB ethernet, Wi-Fi, power | system files | role switch with rollback, status | outside the camera path | - |
| snapshot coordinator (`capture.py`, shell) | a lock directory, trigger files, conversion slots | serialise captures, drive RAW, night stack and sensor timing | HTTP requests to the backend; the UI talks to it | `CaptureLock`, `Exposure` |
| touchscreen UI (`ui/src/target.c` and others) | screen and focus, pending action, worker hand-over, capture sequence, gallery, settings and their files | main loop, worker thread, boot, recovery | requests to daemon and coordinator | `TouchUi`, `UiScreens`, `Settings`, `Exposure` |
| selectors (`backend_selector.py`, `ui_selector.py`) | marker files | start custom or stock, fall back | the camera's process monitor | `Session` |
| installer (`package_builder.py`) | files and preserved originals on the camera | check, preserve, stage, publish, observe, roll back | the selectors and the process monitor | `Installer` |

### What is hard, and what makes each part correct

*Backend and graph.* Handlers are atomic with respect to each other (one
thread), so the difficulty is not interleaving inside a handler but sequences
of handlers and ticks in which steps fail half way. Three records of the same
hardware must agree: what the API reports, what the graph structure owns, and
the file on the card. A recording keeps its hardware and its settings; an
encoder update ends with a verdict; a successful stop has published what was
recorded; a failed call gives back exactly what was taken.

*MP4 files.* A crash between any two writes: what the journal committed must
be recoverable, a closed file must not be lost or published twice. And what the
reader makes of the tables must be what was recorded.

*Playback.* A clock set anew by every resume and seek, two tracks with positions
of their own, a decoder that may be full, and a seek that lasts several ticks:
no picture skipped or repeated, sound and picture together, and an end.

*Watchdog.* The thread reads the deadline while the main thread clears it: a
stop that returned in time must not be taken for a hang.

*Coordinator and exposure.* After a restart of the server several handlers run
at once: at most one may hold the lock, and nobody may remove another's. The
exposure of a photo goes through four parties, each of which may fail or die.

*UI.* The worker's answer comes iterations after the question; sleep, sequence
and camera are three records of one fact; a focus may outlive its screen. A
setting lives on the card, in force, in memory and on the screen, and each kind
reaches them in an order of its own.

*Selectors and installer.* Power may fail between any two steps: the pair of
daemon and UI must match and the stock programs must stay recoverable.

The complete list, each at its line, is `hazards` in `PROJECT.json`.

## 2. How the modules fit together

| module | extends / instance | models |
|---|---|---|
| `CameraBackend` | | handlers and tick of the daemon, ownership of the graph |
| `GraphLifecycle` | `GraphWatchdog` | every call into Rockit of start and stop, threads of a pair of sensors, under the watchdog |
| `RecordingFiles` | instance of `RecordingPromise` | files of recordings through crashes |
| `ClipTables`, `Playback` | `Playback` extends `ClipTables`, `MCPlayback` has its recordings | tables of a file, reader and player |
| `CaptureLock` | | lock of the coordinator |
| `Requests` | | lists of requests, each with its way to deal with failure; used by the next two |
| `Exposure` | `Requests` | exposure from the screen to the sensors: UI, coordinator, backend, helper |
| `Settings` | `Requests` | what the user chooses: files, backend, screen, boot |
| `TouchUi` | | main loop and worker of the UI against the backend |
| `UiScreens` | | screens, keys, touches |
| `Session`, `Installer` | | process pair, installation |

The level of detail of the daemon differs on purpose. `CameraBackend` has all
handlers with one step each; `GraphLifecycle` has one step per call into Rockit
and no handlers. `Exposure`, `Settings` and `TouchUi` see the daemon as the UI
does: a request that is carried out, refused, or carried out with its answer
lost. `UiScreens` has the screens that `TouchUi` abstracts to the gallery and
the rest.

What is left, in this order:

1. proofs: `ReadBack` of `Playback` (the lemmas about its recursive functions are
   there) and the types of `UiScreens`;
2. that `GraphLifecycle` implements the graph of `CameraBackend` (refinement);
3. the IMU threads, the switch of the USB role with its rollback, the conversion
   slots of the coordinator.

### The runs

| run | module | states | bounds |
|---|---|---|---|
| `backend` | MCCameraBackend | 132 944 | one stitched and one single mode, two encoders, two inputs, two polls |
| `files` | RecordingFiles | 251 998 | one clip of 3 samples, or two with 2 together |
| `lock` | MCCaptureLock | 1 161 762 | 3 process numbers, symmetric |
| `session` | Session | 518 | none |
| `installer` | Installer | 1 397 551 | 4 observations |
| `graph` | GraphLifecycle | 70 223 | three profiles, a watchdog limit of one tick |
| `touch_ui` | TouchUi | 284 704 | bursts of 2 shots, shots counted modulo 4, 2 media files |
| `ui_screens` | UiScreens | 33 216 | 2 choices on a value screen, 2 networks |
| `exposure` | Exposure | 1 146 526 | Photo and Night, one failure or death |
| `playback` | MCPlayback | 252 892 | some 370 recordings, 3 commands, 1 failure |
| `settings` | Settings | 528 756 | 2 changes, 1 failure, 1 cut, a clock of 3 values |
| `image_restored` | Settings | - | 2 changes, no failure, 1 cut; a violation is expected |

Every property of a passing run has a mutant in `PROJECT.json`: a plausible
mistake in the code (operators named `...Wrong`, `...Late`, `...Endless`,
`...Early`, `...Unsynced`, `...Short`, `...Trusting`, `...Both`) under which TLC finds that
property violated with the same configuration.

Each module with theorems has its type invariant proved. `UiScreens` states its
own (`TypeOK`); it holds when added to the run's configuration as an INVARIANT.

## 3. CameraBackend

`CameraBackend.tla` models `ngcd/src/backend_target.c` and the ownership part
of `ngcd/src/rockchip_graph.c`. One action per handler; `turn` alternates
between `Tick` (`target_tick`) and one request, as `ngcd_serve` does. Every
external call may fail wherever the code tests its result, so most handlers are
a disjunction of outcomes.

| variables | code |
|---|---|
| `cameraRunning`, `cameraMode`, `recording`, `playback`, `encoder`, `audioAuto`, `audioInput` | `struct ngcd_runtime_state` |
| `splitting`, `playbackMedia`, `playbackRestorePending`, `encoderPrevious`, `encoderUpdatePending`, `transientValid`, `imageDirty` | `struct target_state` |
| `graphStarted`, `graphRecording`, `recordingFailed`, `recordEncoder`, `graphAudioInput`, `validation`, `validationPolls`, `stackedFrame` | `struct ngcd_rk_graph` |
| `audioDevice` | `audio_device_started` with the input whose card the open device was opened for |
| `graphLeaked` | ghost: a graph was started over hardware the structure still owned |
| `clip` | the hidden temporary file: none, open and empty, open with frames |
| `reply`, `fate` | ghosts: the last answer, and what the last step did to recorded frames |

A tick is one action: audio detection, playback, graph tick, recording
(storage, split, finish, abort) and encoder resolution in the code's order,
with its early returns. A request that ticks the graph itself
(`wait_for_exposure_iso`) may perform any number of graph ticks inside the
action (`GraphTicksInHandler`).

Abstracted: sample data, ISO/exposure values (only whether a transient value
is in force), profile contents (only which encoder a profile installs and
whether it stitches), file names, storage size (a check may fail, report low
storage or pass). Of the audio input the model has which card is opened; the mixer
that selects one of the two built-in inputs on the first card accepts a change or
refuses it (section 13).

### Runs

`backend` (MCCameraBackend) uses one stitched and one single-sensor mode, two
encoders, two audio inputs and two validation polls. Two of each suffice to
tell equal from different; two polls give a validation that ends at its first
poll, at its last and by the limit. Nothing else is bounded: the model is
finite. Deadlock is checked (the loop never stops; a stopped process can be
started).

| property | checked by | what it says |
|---|---|---|
| `RecordingOwnsHardware` | run, proof | while a recording is reported the camera runs, playback is off and no encoder update is in flight; the writer's channel has the reported encoder |
| `RunningIsLiveUnlessLeaked` | run, proof | a camera reported running has a graph, unless one was started over another |
| `StopKeepsFrames` | run, proof | a stop answered as successful published every recorded frame |
| `UpdateEndsWithVerdict` | run, proof | an encoder update ends validated, or with the previous encoder restored |
| `RecordingKeepsSettings` | run, proof | encoder, mode and input of a continuing recording never change |
| `OpenDeviceIsReported` | run, proof | the audio device that is open, and stays open from one recording to the next, is the one of the reported input |
| `FailureIsNoticed` | run | a recording whose writer failed is not reported for ever |
| `TypeOK` | proof | types and the range of the poll counter |
| `OpenFileHasOwner` | proof | the temporary file is open exactly while the graph writes, and then a recording is reported |
| `TickReconciles` | proof | no request meets a recording without a writer or an unhandled validation verdict |
| `CameraAndPlaybackExclude` | proof | during playback the graph is down and its restore is remembered; the graph records the reported input |
| `HardwareBelongsToGraph` | proof, as part of `Inv` | what is warm or validating belongs to a started graph |

The fairness is weak fairness of `Tick` and of `Idle` (accept timing out): the
loop of `ngcd_serve` runs without condition. No client, signal or hardware is
assumed to do anything.

What the model shows of statements the code does not keep is in section 13.

### Proofs

`CameraBackendProofs.tla` proves, for every set of modes, encoders and inputs
and every poll limit, `Spec => []Inv`, where `Inv` is the conjunction of the
state properties but `OpenDeviceIsReported` and the types, and the three action
properties; all but the last of the table are theorems of their own.
`HardwareBelongsToGraph` is the strengthening the others need: a writer lost inside a request must have left its
mark (`recordingFailed`) for the tick to find, and a stopped graph must own
nothing for the next start to begin clean. The argument: `GraphTickTicks` and
`HandlerTicksTick` describe what any number of graph ticks may do to the channel
(`Ticked`), `RecordingTickRecords` what the recording part of a tick makes of it
(`Recorded`), `HandledInv` that a handler which only ticked and warmed the
channel preserves `Inv`; then one lemma per handler, and `NextInv`. The
assumptions are the four named ASSUMEs on the constants. `OpenDeviceIsReported`
follows from `Inv`: a device is opened only in a graph that is started, which has
the reported input, and whatever takes the graph down closes it.

`FailureIsNoticed` is checked by TLC only: fairness is out of the prover's
reach.

## 4. GraphLifecycle and GraphWatchdog

`GraphLifecycle.tla` models how `ngcd/src/rockchip_graph.c` takes the camera
hardware into use: one step per call into Rockit, in the order of the profile's
start, any of which may fail or, inside a stop, never return. It extends
`GraphWatchdog.tla`, the watchdog thread of `ngcd/src/backend_target.c` and the
main thread around `target_graph_stop` at the level of single loads and stores
of the two atomics they share.

| variable | code |
|---|---|
| `profile`, `started` | `graph->profile`, the result of the last start |
| `on` | what Rockit was told to switch on and not yet to switch off |
| `owned` | the flags and masks of `struct ngcd_rk_graph` |
| `job` | the call the main thread is in, and the calls it has still to make |
| `recording`, `pending` | the fields of these names |
| `pair` | two threads that call both sensors at once, with their condition variable |
| `deadline`, `shutdown` | `graph_stop_deadline_ns`, `graph_watchdog_shutdown` |
| `main`, `fresh`, `thread`, `loaded` | program counters and locals of the two threads |
| `age`, `late` | ghosts: how long the stop has taken; it ended between the watchdog's two looks |

`StartOrder` and `StopOrder` are the orders of `graph_start` and
`ngcd_rk_graph_stop`; `Outcomes` says, for one call, what is on and what is
owned afterwards: the flag of a part that several calls set up is set after the
first of them, so a failure of a later one is undone too. `job` is what the
main thread is doing: an operation, its list of parts and how far it has come;
`Due` are the parts still ahead whose flag says that a call is needed, and
`GivenBack` is the list that a failure turns to. Encoder channel 0 is used by
recordings and validations in turn and kept warm by photos; the microphone, the
JPEG channel and the stacked frame have their own rules.

A deadline is stored as the time left until it, so that the clock needs no
bound. An `exit` of the process is `thread = "alarm"`. Deadlock is not checked:
the daemon may end, and a call into Rockit may not return.

Run `graph`: the stitched, one single and the offline profile (the other single
profile differs in the sensor's number), and a watchdog limit of one tick. The
watchdog only compares, so one tick gives looks before the limit, at it, and a
stop of any length; the proof covers every limit.

| property | checked by | what it says |
|---|---|---|
| `AlarmIsDue` | run, proof | the daemon ends only in a stop that took the whole limit, unless that stop ended between the two looks |
| `HangEnds` | run | a stop that hangs ends the daemon |
| `NothingForgotten` | run, proof | after any failure the graph will give back exactly what Rockit holds; without a graph that is nothing; no part is on without the parts it needs |
| `PairEnds` | run | two threads that wait for each other are released, also when one could not be created |

The exception in `AlarmIsDue` is real: when the stop takes nearly the whole
limit and the thread is not run between loading the deadline and reading the
clock, a daemon ends whose graph stopped in time. The stop inside a failed start
is not under the deadline (`rockchip_graph.c:2457`): a hang there is not
noticed, which is the model's `undo`, and no property claims otherwise.

Fairness: the scheduler runs both threads, time passes, and the two sensors of a
pair answer. No other call into Rockit is assumed to return.

`GraphLifecycleProofs` proves for every limit and every set of profiles:

- the watchdog's types and `AlarmIsDue`: during a stop deadline and age add up to
  the limit (`StopIsTimed`), and what the watchdog holds between its looks is the
  current deadline (`LoadedIsCurrent`);
- `GraphKeepsDeadlines`, a refinement: every step of the graph is a step of the
  watchdog's `Next` or leaves its variables alone, so `AlarmIsDue` holds of the
  graph too (`GraphAlarmIsDue`); the watchdog's fairness is not part of it;
- the types and `NothingForgotten`.

`NothingForgotten` is not inductive; `GraphInv` adds what the calls under way rely
on. `Planned` ties each operation to the list it follows (a start to the order of
its profile; what gives back to the whole stop unless the graph is started, then
to a channel's list), and says that encoder operations find the stitcher on.
`Reached` says of the parts before `at` that they are on, or off; `IdleIsEmpty`
that a graph which is neither started nor being started or stopped holds nothing;
`PairInJob` that a pair of sensors belongs to a started graph or to the call of
the start that waits for it. A start that is cut at any point is safe since its
list *builds*: the parts each part works on come before it (`StartBuilds`); a stop
is safe from any such state since its list *unwinds*: it has every part, and no
part comes before another that works on it (`StopUnwinds`). Both are proved from
the lists themselves, by concatenation (`BuildsConcat`, `UnwindsConcat`): a call
moved to a wrong place in `graph_start` or `ngcd_rk_graph_stop` breaks a lemma.

## 5. RecordingFiles

`RecordingFiles.tla` models what a recording leaves on the card:
`ngcd/src/mp4.c` (writer, journal, close, abort, recover), the publication and
start-up recovery of `ngcd/src/backend_target.c` and the reservation of numbers
in `ngcd/src/storage.c`. Here the hard part is not the order of handlers but
the point at which the process or the power goes away, so every write, sync,
rename and unlink is an action of its own.

`card` holds one record per sequence number:

| field | code and card |
|---|---|
| `name` | whether the directory shows the hidden name (`.Vddddddd.mp4.ngcd-PID.tmp`), the final one, or none |
| `shown`, `unlinked` | directory changes (of the file, of the journal) the kernel may not have written yet |
| `journal` | the sample journal file |
| `video`, `written` | what was handed to stdio: `sample_count` and the kinds of the samples |
| `until` | for sound and motion, the first picture whose end is later than the sample, if any |
| `data`, `index` | samples whose bytes, whose journal records, the kernel has in full |
| `good` | samples whose bytes in the file are their own |
| `durable` | what `fdatasync` returned for |
| `table` | samples a complete `moov` box lists; empty without one |
| `acked` | ghost: samples whose flush, first of the file and then of the journal, returned |

`step` is the writer's program counter (opening, open, flushed, sealing,
sealed, closed, dropping), `proc` the daemon and the power, `todo` the clips
recovery or the mount has still to meet. Recovery closes a cut file through the
same steps as a recording, as the code does.

External actions are `Crash` (stdio buffers are lost, the kernel's pages stay)
and `PowerLoss` with `Remount`: exFAT has no journal and the code never syncs
the directory, so each name may fall back, a created journal may be missing and
a removed one return, and a file may keep its size without its content. Only
what `fdatasync` covered is certain. A recovered file's `moov` box is written
where stale journal records still point; `RecoverRead` lets it cover any number
of them, since a second crash makes recovery read those bytes as samples.

A closed file does not list everything that was written: `write_moov` cuts sound
and motion at the end of the pictures (`trim_auxiliary_samples_to_video`) and
leaves their bytes in the file. `Within(r, n)` is what a file of `n` samples lists:
every picture, and the sound and motion within the pictures. Each new picture moves
the end, so sound that is out at one moment may be in later; recovery cuts at a
committed sample, which moves the end back.

Abstracted: sample bytes (only whether they are a sample's own), times other than
where sound and motion lie among the pictures (that a track is in order is not
used, so the model has more cases than the code), codecs, the MP4 boxes other than
what the tables list, the final padded audio frame (one more `WriteSample`), and
photos, which share the sequence numbers.

### Runs

Run `files`: at most two clips (`MaxClip`) of three samples (`MaxSamples`) on a card
with room for four files and samples (`Space`): one clip of three samples, or two
with two samples between them. Three samples are the least in which sound or motion
lies beyond a picture and a later picture reaches it, with every crash and cut
between. Two, of one clip or of two, allow an acknowledged one beside a half-written
one, a journal record that outlives the cut of its file, and a motion sample that
only one buffer wrote out. The clips share nothing but the choice of the next number
and the single writer, for which two are enough. The bounds stand for what the code
does not bound otherwise (65,534 names, the size of a card).

| property | checked by | what it says |
|---|---|---|
| `PublishedHasAcknowledged` | run, proof | of the samples whose journal record was flushed, a file with its final name lists every picture, and all sound and motion within those pictures, after any number of crashes and recoveries |
| `CrashLosesNothing` | run, proof | at every moment a hidden file with acknowledged samples is recoverable with all of them, or was closed and its tables list what they have to |
| `RecoveryEnds` | run | recovery does not go on for ever |
| `KeepsPromise` | run, proof | the files implement `RecordingPromise` |
| `PublishedIsComplete` | proof | a file with its final name lists all its pictures and the sound and motion within them, has video, and every listed picture is intact |
| `EarlierClipsUntouched` | proof | with power on, only its own writer or recovery touches a hidden file, and nothing a published one |

`RecordingPromise.tla` is what a user may rely on, without files: samples are
promised as they are acknowledged, a clip is saved with at least the promised ones,
an unsaved clip is given up as a whole and never shortened, and only a loss of power
takes a promise back. A crash of the daemon is a stutter there. The mapping
(`Promise`) shows the published clips, their tables, and as promised the pictures
acknowledged with the sound and motion within them (`Acknowledged`). Sound later
than the last picture is promised by the picture that reaches it.

Fairness: weak fairness of `Recover` and of `Close`, straight-line code of one
thread. No recording, crash, restart or power loss is assumed to happen, and
none to stay away.

`RecoverSkip` may pass over a recoverable file (reading or memory can fail), so
no run claims that recovery publishes everything. Two limits of the code can be
read off the model: a file that was closed, whose journal is removed and that
was not yet renamed stays hidden for good (`CrashLosesNothing` has a second
disjunct for it), and a card absent at start is not recovered when it appears.

### Proofs

`RecordingFilesProofs.tla` proves for every `MaxClip` and `MaxSamples` the type
invariant, the three invariants above, `EarlierClipsUntouched` and the
refinement `Spec => KeepsPromise`. The inductive invariant has three parts:
`Sound(r)`, true of every clip at every moment (a final name belongs to a
`Whole` file: its tables as `Within` has them, synced, intact; acknowledged samples
of a hidden file are in its journal, in the file and intact, or its tables list
them as far as they lie within the pictures); `AtStep(r, s)`,
what is known of the writer's own clip at step `s`; and `Control`, which steps
go with which `proc`. None of the checked invariants is
inductive alone: that a renamed file is complete needs what the sync
established two steps before, which holds only if nobody but the writer touched
the file in between. One lemma per operation on a record
(`Appended`, `Sealed`, `Truncated`, `Remains`, ...) gives `Sound` of its
result; `WriteKeeps` and `LeaveKeeps` lift them to the state; each action is
then one step. For the refinement every action maps to a promise step or a
stutter (`StepIsAllowed`, `AllowedIsPromiseStep`).

`RecoveryEnds` is checked by TLC only.

## 6. Playback and ClipTables

`ClipTables.tla` is the arithmetic of a file's tables: what `write_moov` of
`ngcd/src/mp4.c` makes of the samples recorded (durations, sync table, chunks,
the trimmed audio) and what `load_moov` of `ngcd/src/mp4_reader.c` reads back.
`Playback.tla` extends it with the player of `ngcd/src/rockchip_playback.c`: the
commands of the API, the tick of the service loop, the decoder and the clock.

| variable | code |
|---|---|
| `recording`, `clip` | the pieces in the file (a member of the constant `Recordings`), and what the reader makes of it |
| `player` | `struct ngcd_rk_playback`: position, target, clock, pause, sound |
| `hw` | what is up of the ten pieces of Rockit it is shown with |
| `queued` | pictures the decoder has still to take up |
| `fed`, `heard` | ghosts: pictures given to the decoder since its reset, sound since the clock was set |
| `lost`, `torn`, `hung` | ghosts: a seek failed half way; a piece went under another that uses it; a command never returns |

Run `playback` (`MCPlayback`): the recordings have one to five pictures with at most two key
frames (a clip without one is refused by the reader), perhaps a gap of two
pictures, and no sound, or three or nine frames of it that reach the card in
time or 50 ms late; or the file is a photo. They are some 370. The limits of
one tick and the preroll are two instead of four, the decoder has room for three
pictures instead of eight: enough that a tick ends at its limit, that the
decoder is full, and that a seek lasts several ticks. The clock moves by half a
picture. Three commands (play, pause, seek, close, open) in any order and one
failing call are the bounds of a behaviour. `TickMax` stands for `UINT32_MAX`,
where the writer clamps a duration; in the run it is TLC's largest number, and
no recording of the run reaches it.

| property | checked by | what it says |
|---|---|---|
| `ReadBack` | run | the clip read is the clip recorded |
| `DecoderFollows` | run, proof | the decoder was given every picture from a key frame up to the player's position, once and in order |
| `SoundFollowsPicture` | run, proof | the sound since the clock was set is the sound from that picture on, and neither is ahead of the clock |
| `NothingLeft` | run, proof | a clip that was closed, or failed to open at any call, leaves nothing up, and nothing was taken down under a piece that uses it |
| `PlayEnds` | run | a clip that plays or seeks comes to rest |
| `TypeOK`, `StandsInClip` | proof | what is played is in the order of its times and has a key frame; the player stands at one of its pictures, and the decoder never has more than it takes |

Fairness: the loop of `ngcd_serve` ticks without condition, the decoder works,
the clock goes on. `DecoderFollows` and `PlayEnds` exclude a seek that failed
half way (`lost`), after which the decoder was reset and the position was not:
the next tick fails for ever, its result is ignored by the service loop
(`http.c:362`), and the display and graph ticks behind it are skipped. `PlayEnds`
also excludes a clip with nothing behind its first key frame, whose replay never
returns (`hung`): resuming seeks to the start, and a seek that ends at the last
picture resumes (`rockchip_playback.c:840`). `test_mp4.c:323` has such a clip.

Left out: a decoder whose buffer cannot be released after it was delivered,
the motion track, and edit lists, which the reader ignores; the run has no
recording with two samples at one time. The touchscreen program never seeks; it opens a clip that
has ended again (`target_gallery.c:405`).

### Proofs

`PlaybackProofs` proves the types, `StandsInClip`, `NothingLeft`,
`DecoderFollows` and `SoundFollowsPicture` for every set of recordings, each any
sequence of pieces with any sizes and times, in order or not, and for all limits,
any number of commands and failures. Nothing is assumed of the recording: what the
player needs is proved of the tables and their reader.

The first half is about the tables. Sums, runs of equal values, times and
the selection of a track are recursive functions, and `FoldExists` shows by
induction over the length (`UpTo`, from the least counterexample) that such a
function exists; its callers (`SumsTyped`, `DeltasTyped`, `RunsTyped`,
`OnlyTyped`) say what it returns, up to `ReadClipTyped`: the reader refuses a
file, or its times never decrease. Then the searches: `KeyAtOrBeforeIsKey` and
`AudioFromTyped` (the sound behind a time, which grows with that time).

The second half is the player. `Inv` adds to the types and `NothingLeft` where the
player stands (`Stands`), that the decoder has the pictures from a key frame to
that place (`Followed`) and that the sound heard begins at the clock's picture
and leads up to the next frame (`Sounds`). For the last a seek under way matters:
no sound is due before the picture it has reached
(`naudio <= AudioFrom(Pts(sample))`), so that a pause or the end of the seek can
find the first frame again. One lemma per operation (`SeekOutcome`, `PauseKeeps`,
`ResumeKeeps`, `DeliverFollows`, `MoreHeard`, ...), `CommandKeeps` and `TickKeeps`
for the steps.

That the clip read is the one recorded (`ReadBack`) is checked by TLC only, as is
`PlayEnds`.

## 7. CaptureLock

`CaptureLock.tla` models two shell scripts of `src/calf_fw_tool/capture.py`: the
loop of the snapshot server (start and stop, one `nc` at a time, whose number is
noted in `nc_pid`) and `acquire_lock` with the `cleanup` of its handlers. `nc`
accepts one connection and becomes the handler.

| variable | code |
|---|---|
| `server`, `child` | where the server's loop is, and the process it started last |
| `at` | for every process number: free, another program's, or the shell command a handler is at |
| `dir`, `owner`, `writers` | the lock directory, its `pid` file, and who has that very file open |
| `seen` | what a handler read from the file |
| `alone`, `orderly` | ghosts: no other handler since this one started; no server was killed, nor stopped between starting `nc` and noting its number |

Every command is a step, and the redirection of `printf` is two, opening and
writing. The traps are set after the lock was taken, so a signal before that
kills the handler without a cleanup (`Signalled`); `Die` is SIGKILL. A process
that ended and was not waited for still answers `kill -0` (`Alive`), and so does
another program that got its number (`Foreign`).

Run `lock`: three process numbers, which are the holder of the lock, its
successor, and one process more (a third handler, or a program that got the
number of a dead one). Numbers come back, so more processes than three exist
over time. They are only compared, hence the symmetry. Nothing else is bounded.

| property | checked by | what it says |
|---|---|---|
| `OrderlyIsSerial` | run, proof | while every server ended in order, at most one handler has the lock, whatever dies |
| `HolderKeepsLock` | proof | and nobody removes it: not a successor that judged an earlier owner, not an earlier owner's late `rmdir` |
| `StaleLockIsReclaimed` | run, proof | a handler that met nobody is refused only for a number that is in use |

Without the premise `orderly` two handlers can have the lock together: a
handler between `mkdir` and its owner file looks like a stale lock.

`SnapshotProofs` proves all three and the types, for any set of process
numbers. The invariant for the first two: a handler without traps is the server's own child
(`OnlyChildAcquires`, which makes two handlers in `acquire_lock` impossible);
the lock of whoever has it names it (`LockIsOwned`); nobody on the way to the
lock meets an owner (`NobodyOwns`), because what it read is the owner
(`OwnerWasSeen`) and owners are alive. `StaleLockIsReclaimed` needs another one,
which holds however servers end (`Undisturbed`): a handler that is `alone` is the
only handler there is (`OnlyHandler`), so the lock is still as it found it when it
acts on it (`LockAsFound`), and neither `rmdir` nor the second `mkdir` can fail.

## 8. Exposure

`Exposure.tla` follows one pair of exposure and ISO from the touchscreen
to the two sensors through four parties: the UI (`ui/src/target.c`), the backend
(`ngcd/src/backend_target.c`), the snapshot coordinator (`capture.py`) and the
helper that sets the sensors' frame interval (`sensor_timing.py`). In Night mode
the live graph shows a brighter preview at a few frames per second; a photo needs
the real exposure; outside Night the sensors run at 30.

The UI's operations and the coordinator are lists of requests. `Requests.tla`
gives each its way to deal with failure (`Must`: give up; `MustElse`: do
something else and report failure; `OrElse`: do something else instead; `Note`:
go on but report failure; `May`: go on). A request is one step of the backend,
which serves them one by one; its outcomes include the failures inside it, each
with its cost in faults.

| variable | code |
|---|---|
| `files` | the profile's pair, a pair for each kind of mode, the mode |
| `ui` | mode, shown pair, `camera_graph_available`, gallery |
| `job` | the operation of the UI and the requests it has still to make |
| `co` | the coordinator of one snapshot |
| `b` | backend and sensors: graph, accepted pair, transient preview, cached rate, the rate file in /tmp, the stack marker, interval and streaming of each sensor |
| `photo` | ghost: exposure of the frames of the photo taken, and whose stack they are |

A pair is known by its exposure: automatic, 1/8 s (both kinds of mode offer it)
and 4 s, which is a stack of half-second frames. They are the three ways a photo
is taken.

Run `exposure`: Photo and Night, one failing call or one death of the UI in a
behaviour, from a fresh card. With Video added the properties hold as well
(4.35 million states).

| property | checked by | what it says |
|---|---|---|
| `PhotoHasItsPair` | run, proof | a photo that was taken has the pair the coordinator took up, whatever failed and whatever was left behind |
| `NightPhotoAsShown` | run, proof | in Night it is the pair on the screen |
| `ServedMeansRestored` | run, proof | a slow photo answered well has given the sensors back |
| `PreviewOnlyInNight` | run, proof | at rest without a failure nothing of the preview is left outside Night, and in Night it is the preview of the shown pair |

`PhotoHasItsPair` excepts a photo that is not a stack and whose UI died: the
next UI sets up the camera while the photo is being taken. `NightPhotoAsShown`
does not extend to Photo mode: after power-on the screen shows what the backend
has, the coordinator takes the pair of the profile. Other things the model shows
are in section 13.

`SnapshotProofs` proves all four for any modes and any number of failures. The
invariant `ExposureInv` has two halves. The first holds whatever fails
(`CaptureOutline`, `Awaits`, `ShownInNight`): what the coordinator has still to
ask for fixes what the photo may be, whether the sensors are known to be back at
30, and that a preview or a graph of somebody else cannot have come between,
because the UI that asked waits, unless it died, and then only a stack is judged;
and in Night what is shown is in the file the coordinator read. The first three
properties are what it says of an empty list. `PreviewOnlyInNight` needs the
second half, which holds while nothing has failed (`Unfailed`): every place of
every job of the UI (`Stage`) fixes what the camera is left in: `Plain` (sensors,
rate file and backend at 30), `Lit` (the preview of a pair) or off. A job that ends in Night with its list
empty has asked for the preview last, one that ends elsewhere for the standard
rate before the graph, and the coordinator, which may start a graph itself, never
leaves a mark of the preview outside Night (`CaptureStage`). TLC
found the invariant to hold with all three modes and one failure (2.38 million
states) before it was proved. The lists are concatenations, so the proof knows a
place by the requests left, not by their number; each list's lemma says what its
head and its tail are.

Left out: a death of the coordinator, changes of the resolution, and which lens.

## 9. TouchUi and UiScreens

`TouchUi.tla` models the main loop of `ui/src/target.c` with its worker thread,
the capture sequence (`target_capture.c`), the gallery (`target_gallery.c`) and
deep idle. One action is what one iteration does for one event. The worker, the
backend and the backend's other clients interleave with it; a request is
refused, carried out, or carried out with its answer lost.

| variable | code |
|---|---|
| `ui` | LCD, screen (gallery, delete screen, rest), `pending_action`, mode, which graph |
| `seq` | `capture_sequence_t`; `due` is the time left in steps of the loop |
| `deep`, `avail` | `deep_idle`, `camera_graph_available` |
| `gallery` | `gallery_state_t`, the deferred navigation, the file the delete screen named |
| `worker` | `api_action_worker_t` |
| `status` | what the last poll found |
| `cam` | the backend: graph, playback, recording |
| `taken` | photos the backend took for this sequence |
| `running` | `g_running` |

Run `touch_ui`: bursts of two shots (a first and a last), shots counted modulo
four (the counter of an interval capture wraps), two files in the gallery
(previous and next differ from the file itself, and the last one can be
deleted), other clients that record and a daemon that restarts. Deadlock is not
checked: the program may end.

| property | checked by | what it says |
|---|---|---|
| `AnswerFindsItsQuestion` | run, proof | the worker's answer finds its action pending, and the state it was asked in |
| `SleepAgrees` | run, proof | a camera put to sleep is not taken for available, and a sequence sleeps exactly while the camera does |
| `SequenceProceeds` | run | a shot that is due is taken, or the sequence ends |
| `ShownIsListed` | proof | the file shown in the gallery is one of its list, after deletions and deferred navigation |

Fairness: every request has a time limit, so the loop and the worker go on
(weak), and a user cannot press a key in every iteration for ever, so what the
loop may do by itself infinitely often it does (strong, for the shot and the
waking).

`TouchUiProofs` proves the types and the first, second and last of the table for
any number of files and any length of bursts and of the counter. `Inv` is the
types, `Listed` (the index of a list that is not empty is in it), `SleepAgrees`
and `Asked`: an idle worker holds no work, and one that runs or is complete
belongs to the action that is pending in a running program, a snapshot or a
recording to a stereo mode, a scheduled shot to a sequence that is active and awake
with the camera available. The property looks only at the moment the answer is taken;
`Asked` says that nothing the loop does meanwhile, by keys, gallery, recovery or
sleep, takes away what the question relied on. `SequenceProceeds` stays with TLC.

`UiScreens.tla` has all 56 screens of `ui_input.c` and `ui.c`: which screen every
key and touch leads to, the focus, which request begins, and where its answer
leaves the user; with what `target.c` does for the requests of the network,
update and stock-UI screens. Which value is the present one is left open.

Run `ui_screens`: two cells on a value screen and two networks (the first and
the last of a list). Its property `NothingLeftOver` (run) says that nothing is
left over from a screen that was left: no key deletes a file, installs an
update, switches Wi-Fi off or starts the stock session unless keys moved the
focus off CANCEL on that very screen, and a typed password is gone with the
keyboard.

The two are not composed: `TouchUi` keeps of the screens what its loop depends
on, `UiScreens` of the loop that a request is answered some time.

## 10. Settings

`Settings.tla` follows what the user chooses in the menus of `ui/src/target.c`
(in Photo mode) through the four places it lives in: the card, what is in force,
the UI's memory and the screen. There is one setting of each kind, since a kind
has an order of its own in which these are changed:

| kind | order |
|---|---|
| image control, speaker, still encoder | set, then save |
| recording encoder | set, then save three words |
| sound input | set; saved by the next poll that sees the difference |
| resolution | start another graph, set up both encoders, image and sound, save; every step taken back when one fails |
| time zone, automatic time | save, then set |
| clock | set, save the floor, set the hardware clock |
| preference | save |
| Wi-Fi | set, then saved by the script, whose failing write is not reported |

`file`, `live`, `ui` and `job` are the four places and the operation under way
(a list of `Requests`). `chosen` is a ghost: the values the last choice may
amount to (two when the power cut it). `belied`: since the camera was set up last,
an answer was lost, an encoder was rejected after its trial, or the way back of a
change of resolution failed or was refused, so that the UI cannot know what the
camera has. `unsaved`: since then the user was told PROFILE SAVE FAILED. Boot and the
reconciliation every five seconds are the requests the code makes, in its order;
the still encoder's trial ends with a verdict (`Verdict`).

Run `settings`: two changes, one failing call, one loss of power or restart of
the UI, and a clock of three values. Two changes are enough that one meets what
the other left, one cut that a boot follows every step. Deadlock is not checked
since the bounds are used up in the end.

| property | checked by | what it says |
|---|---|---|
| `ChosenInForce` | run, proof | without a failure what was chosen last is in force and on the screen, however often the power went |
| `CameraAsShown` | run, proof | after a failure too, graph and encoders are those of the resolution on the screen, unless `belied` or `unsaved` |
| `ToldSavedIsSaved` | run, proof | a change reported as done is on the card, all its writes |
| `ComesRight` | run | the camera becomes available again, and the sound input in force comes to the card |

Fairness: boot, the requests, the poll, the reconciliation and the verdict: the
loop goes on and the encoder answers.

The exception `belied` is real, and the attempt to prove the two properties
without it showed where. A failed start whose restoration fails too leaves no
graph while the UI goes on believing in one (two failures). And a change to a
profile whose encoders both differ from the defaults needs no failure at all: the
still encoder is set and on trial, the recording encoder is refused meanwhile
(`backend_target.c:2504`), the change is taken back, and the start of the old graph
is refused for the same reason (998) and not looked at (`target.c:4111`). The new
graph stays while the UI shows the old resolution, until the camera is set up again. Run
`image_restored` (a violation) is in section 13.

`SettingsProofs` proves the three invariants for any number of changes, failures,
lost answers, losses of power and clock values. The invariant `Inv` is a proof outline, as one
writes it between the statements of a program: for each kind of operation, every
list that may be left of it, with what holds there (`ResOutline`, `BootOutline`
and so on); `Right` says, for each setting outside the operation that changes it,
that card, backend and UI have the value chosen, as long as nothing failed;
`AsShown` is the camera's part, failures or not. `Advance`, `CallStep` and
`SaveStep` say what one request does to the list, `MakesAudio`, `WriteFloor` and their like
what each call and write does to the rest, `CameraLists` and `BootLists` what is first in each list and what
follows; then one lemma for each kind of operation (`StepRes`, `StepBoot`), one
for each other action, and `CutShort` for what the power leaves of an operation
under way. TLC checked `Inv` too, also with two failures (2 289 878 states).

Left out: NTP's corrections, backlight, USB Ethernet, joining a Wi-Fi network,
and a death of the UI in the middle of an operation (a power cut covers what is
left on the card).

## 11. Session

`Session.tla` models the two selectors installed as `/app/bin/ngcd` and `ngui`
(`backend_selector.py`, `ui_selector.py`), the exit paths of the two custom
programs (`ngcd/src/main.c`, `ui/src/target.c`) and the marker
`/tmp/calf-ui-stock-session` by which a failed session falls back to the stock
pair until the next boot. `ngmonitor` is external: it ends both programs when
one is gone and starts both again.

`proc` is what runs on a side: the selector at one of its tests (`test`,
`check`, `server`, `mark`), the custom program before and after it installed its
handlers (`load`, `run`), or while it ends (`crash`, `leave`, `quit`), the stock
program, or nothing. `marked`, `crashed` and `faults` are ghosts of the current
boot; `faults` holds the two faults no custom program can record: a death
without its handlers (SIGKILL, a failing `exec`, a crash while loading), and a
capture server that does not start. The model is finite without bounds (518
states).

| property | checked by | what it says |
|---|---|---|
| `MatchedPair` | run, proof | unless the capture server failed, a stock program never runs beside a custom one |
| `MarkedPairIsStock` | proof | a pair started while the marker exists is the stock pair, under every fault |
| `CrashIsRecorded` | run, proof | without those faults, when both programs are gone after a crash the marker is there |
| `FallbackCompletes` | run | once the marker is there the custom programs end, unless the capture server failed |

Fairness: the steps of a selector, of recording a crash and of leaving
(straight-line code), and the monitor. No program is assumed to fail, to load or
to run on.

`InstallerProofs` proves the first three and the types. The invariant says that
the selectors agree (`SelectorsAgree`: both look at the same files), and that
whoever wrote the marker beside a custom program is about to end
(`WriterLeaves`), so that the monitor will stop the pair before anyone meets a
half-finished fallback. `FallbackCompletes` is liveness and stays with TLC.

An unrecorded death leaves no marker, and the custom pair is started again,
although the README of the repository promises the fallback for "a crash in
either custom process"; the premise `faults = {}` of `CrashIsRecorded` says so.

## 12. Installer

`Installer.tla` models the script that `package_builder.py` generates, as it
runs on the camera: identity checks, preserving, staging, the transaction
(pause the monitor, stop the children, publish policies, programs and selectors,
resume, observe), the rollback, the removal and the traps. Its step is `step`,
the list it works on `todo`, `monitor_paused` is `noted`. What runs (`child`)
comes from the selectors, in less detail than in `Session`.

A list is worked in the script's order (`Rank`); every command may fail
(`Fail`), rollbacks, also those of a removal, may fail or be interrupted
(`FailAgain`), and
power may be lost at every step (`PowerLoss`). No `rm -f` is looked at by the
script: what it cannot remove stays and the script goes on (`Remove`, and the marker
in `Published` and `Restored`). `/app` has a journal, so what a
power loss leaves is some earlier state of the directory; losing power at every
step covers that. Six helper programs are published together with the daemon
and the UI; the model has the capture server, the one that a selector tests.

Run `installer`: four observations of the new pair instead of twenty, of which
three in a row must succeed, so that a success can be late and a failure can
follow two successes. All sequences of installations, removals, failures,
signals and power losses are covered. `interrupted` is a ghost: power was lost,
a rollback failed, or a signal fell between a command to the monitor and the note of it.

| property | checked by | what it says |
|---|---|---|
| `StockIsRecoverable` | run, proof | at every moment each stock program and policy is in place or preserved |
| `SelectorIsComplete` | proof | a selector is never without a complete set of custom programs |
| `VerdictIsTrue` | run, proof | installed means a whole new pair and its policies; restored and removed mean that the stock ones are in their places |
| `MonitorResumes` | run | the monitor does not stay stopped, unless the script was interrupted |

What a removal leaves behind is not stated: see section 13.

That what runs is one pair while the script works was model-checked as well,
with the exception of an interrupted script. Both exceptions are real. Power lost between the two renames of a rollback
or a removal leaves one selector and one stock program, and the next boot runs
both, although `docs/installation.md` calls the removal atomic; a signal between
stopping the monitor and the note of it leaves nothing to supervise the pair
until the next boot.

Fairness: the script goes on, and so does a monitor that is not stopped.

`InstallerProofs` proves the first three and the types for any number of
observations. `Inv` says, for each list, that what is no longer in `todo` is
done (`Keeping`, `Publishing`, `Restoring`), and that everything is
preserved from the transaction on (`Kept`). The lemma `ProgramsFirst` uses the
order of the list: no selector is published before the last program.

## 13. Where code and documentation disagree

One run checks a statement of the repository and finds it violated.

Run `image_restored`: a comment in `ui/src/target.c` (3298) says that the persisted
image-processing choices must not be discarded at the start; what the start does
is to read the values the backend has, which after power-on are its defaults, and
to post those back. The saved choice is used only when that reading fails.

What follows can be read off the models without a run of its own.

*Daemon.*
- A playback stop whose restore fails stays pending. Tried again after the camera
  was started, it clears the running graph's structure; hence the premise of
  `RunningIsLiveUnlessLeaked`.
- Playback, or an offline snapshot, during an encoder update stops the graph
  and with it the validation (`rockchip_graph.c:2221`); the update is pending
  until the process restarts.
- A fallback photo is unlinked although the preview could not be restored
  (`backend_target.c:1746`).
- "The previous segment is already durable": its data is, its name is not, since
  neither the rename nor the directory is synced.
- A change of the audio input turns the mixer before the graph is asked
  (`backend_target.c:2558`). The graph refuses while the device of an earlier
  recording is still open, and a mixer that fails half way has turned one channel:
  either way the mixer is not turned back, a request for the reported input does
  not touch it (`backend_target.c:2557`), and the next recording hears the other
  built-in input. A request for the volume during a recording sets both channels
  again and turns them back in the middle of it.
- A failed seek, and the replay of a clip with nothing behind its first key
  frame: section 6. A failed start that
  hangs: section 4.

*Coordinator and exposure.*
- A failed restore of the Night preview after a photo is only logged
  (`target.c:3777`).
- The UI dying between the preview and the save of the mode leaves the sensors
  slow in Photo mode after the restart, although a comment (`target.c:3263`)
  claims a baseline.
- The gallery leaves the rate file and the backend's cached rate at the preview's
  value while it is open.
- The pair set in Night is saved in the profile too, and is what a photo in Photo
  mode is taken with after a restart while the screen shows AUTO
  (`target.c:4370`, `capture.py:672`).

*Touchscreen program.*
- The deferred navigation can move the gallery under the delete screen, so the
  file that is deleted may be another than the one it named.
- The focus a shortcut sets survives on the main screen.
- A failed start of the graph, or sound that was not applied, at boot lets the
  poll save the backend's default input over the user's.
- When both encoders differ from the defaults, setting the still encoder leaves
  its trial running and the recording encoder is refused meanwhile: the camera
  is not available until the reconciliation, and a change of resolution is
  rolled back. The verdict comes after the answer, so a rejected codec stays in
  the file without a notice.
- Automatic time that cannot be set is reported as failed and saved all the same.
- The installation request of the update screen has no route (`api.c:1182`).

*Selectors and installer.*
- `docs/installation.md` (127-129) says that a removal "removes CALF runtime files",
  and the script ends it with "CALF custom firmware removed". The script looks at the
  result of no `rm -f` (`package_builder.py:404-411`): in the model (`Remove`) as in
  the code, a file that cannot be removed stays, and the message and the exit status
  are the same. The stock pair is in its place all the same (`VerdictIsTrue`).
- A capture server that does not start sends one side to the stock program and
  leaves the custom UI beside it.
- An installation over a fallback session does not find the stock programs under
  the names the selectors gave them, replaces the files beside them, and rolls
  back.

## 14. Proofs and their limits

Eight modules hold 55 theorems; `theorems` in `PROJECT.json` lists them with what
each establishes. Each is proved for all values of the constants, from the named
ASSUMEs of its module only:

| module | proves about | argument |
|---|---|---|
| `CameraBackendProofs` | types, seven state properties, three action properties | section 3 |
| `RecordingFilesProofs` | types, three invariants, one action property, refinement | section 5 |
| `SnapshotProofs` | of `CaptureLock`: types, serial use, holder keeps its lock, one action property; of `Exposure`: proof outline with the types, one invariant, three action properties | sections 7 and 8 |
| `InstallerProofs` | of `Session`: types, three invariants; of `Installer`: types, three invariants | sections 11 and 12 |
| `GraphLifecycleProofs` | types, two invariants, refinement of the watchdog | section 4 |
| `PlaybackProofs` | types, four invariants | section 6 |
| `TouchUiProofs` | types, three invariants | section 9 |
| `SettingsProofs` | proof outline with the types, three invariants | section 10 |

Liveness and ENABLED are out of the prover's reach: `FailureIsNoticed`,
`RecoveryEnds`, `FallbackCompletes`, `MonitorResumes`, `HangEnds`, `PairEnds`,
`PlayEnds`, `SequenceProceeds` and `ComesRight` are checked by TLC on the
instances above. So are, without being out of reach, `ReadBack` of `Playback` and
the properties of `UiScreens`. `ReadBack` needs the
inverse of every table, an induction over the samples for each;
`NothingLeftOver` is about a finite machine that TLC exhausts.

The library's induction theorems take an operator as a parameter, which the
provers here cannot instantiate. Where a recursive function had to be reasoned
about (`PlaybackProofs`), induction is done in first-order form: the set of
counterexamples, if not empty, has a least member.

## 15. Not modelled

| part | why |
|---|---|
| IMU (`imu.c`) | two sampling threads share one mutex with the tick, every access is inside it, and the ring has one producer and one consumer; what could be wrong is arithmetic |
| drawing (`ui_render.c`, the fonts, the framebuffer) | layout; what is drawn follows from the state `UiScreens` and `TouchUi` keep |
| hardware access (`rockchip_image.c`, `rockchip_target.c`, Rockit, ALSA) | one call per operation with an answer; the models have the answers |
| codecs, packing of RAW files, stacking | arithmetic on pixels and bytes |
| JSON, HTTP parsing | formats; a request is one value |
| USB Ethernet, Wi-Fi joining, power, battery | requests with an answer and no state shared with the camera path |
| deployment over the network, build tools, vendored code | not the running system |
| the manifest and uninstaller under `/local` | copies of what the removal does |

Four hazards are listed without a property. The models stop short of three:
a hang in a failed start (`rockchip_graph.c:2457`), a RAW directory of an
earlier photo taken for the companion of the present one (`capture.py:361`), and
a request that arrives byte by byte, between which only its pauses tick the
backend (`http.c:287`). Of the fourth, the mixer that is turned before the graph
accepts the input, nothing holds that would be worth stating (section 13).
