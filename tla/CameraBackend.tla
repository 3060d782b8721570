---------------------------- MODULE CameraBackend ----------------------------
(***************************************************************************)
(* The calf-ngcd camera backend: ngcd/src/backend_target.c and the graph   *)
(* it owns, ngcd/src/rockchip_graph.c.  One service loop runs everything:  *)
(* it alternates target_tick with at most one HTTP request, so a handler   *)
(* is atomic for every other handler.  What makes it hard is that three    *)
(* records of the same hardware must agree across handlers that fail half  *)
(* way: the API state (cameraRunning, recording, playback, the encoder     *)
(* update), the graph's own state (what it believes is started) and the    *)
(* recording file.  Rockit, ALSA, the display and the storage are external *)
(* and may fail at every call.                                             *)
(***************************************************************************)
EXTENDS Naturals

CONSTANTS
  Modes,            \* camera modes, MODE_PROFILES
  Stitched,         \* the modes whose profile starts the AVS stitcher
  PictureMode,      \* VR180_PIC, the mode target_start loads
  Encoders,         \* settings of encoder channel 0
  ProfileEncoder,   \* the encoder a mode's profile file installs
  NoEncoder,        \* no recording channel is warm
  Inputs,           \* audio inputs
  DefaultInput,     \* audio_input of ngcd_app_init
  NoDevice,         \* no audio device is open
  ValidationPolls   \* VENC_VALIDATION_POLLS

ASSUME ModesAssumption ==
  /\ PictureMode \in Modes
  /\ Stitched \subseteq Modes
ASSUME EncodersAssumption ==
  /\ ProfileEncoder \in [Modes -> Encoders]
  /\ NoEncoder \notin Encoders
ASSUME InputsAssumption ==
  /\ DefaultInput \in Inputs
  /\ NoDevice \notin Inputs
ASSUME PollsAssumption == ValidationPolls \in Nat \ {0}

VARIABLES
  up,                       \* the process serves requests
  turn,                     \* "tick" or "serve": where the service loop is
  reply,                    \* what the last request was answered
  fate,                     \* what the last step did to recorded frames
  \* struct ngcd_runtime_state and struct target_state
  cameraRunning, cameraMode, recording, splitting, playback, playbackMedia,
  playbackRestorePending, encoder, encoderPrevious, encoderUpdatePending,
  audioAuto, audioInput, transientValid, imageDirty,
  \* struct ngcd_rk_graph
  graphStarted, graphLeaked, graphRecording, recordingFailed, recordEncoder,
  audioDevice,              \* the input for which the open device was opened
  graphAudioInput, validation, validationPolls, stackedFrame,
  \* the hidden temporary file of the current recording
  clip

loopVars     == <<up, turn, reply, fate>>
modeVars     == <<cameraRunning, cameraMode>>
recordVars   == <<recording, splitting>>
playbackVars == <<playback, playbackMedia, playbackRestorePending>>
encoderVars  == <<encoder, encoderPrevious, encoderUpdatePending>>
audioVars    == <<audioAuto, audioInput>>
imageVars    == <<transientValid, imageDirty>>
channelVars  == <<graphRecording, recordingFailed, recordEncoder,
                  validation, validationPolls, clip>>
graphVars    == <<graphStarted, graphLeaked, graphRecording, recordingFailed,
                  recordEncoder, audioDevice, graphAudioInput, validation,
                  validationPolls, stackedFrame, clip>>
apiVars      == <<modeVars, recordVars, playbackVars, encoderVars, audioVars,
                  imageVars>>
vars         == <<loopVars, apiVars, graphVars>>

Replies == {"none", "error", "ok", "cameraStarted", "recordStopped",
            "photo", "fallbackLost"}
Fates   == {"none", "kept", "dropped", "destroyed"}

LoopTypes ==
  /\ up \in BOOLEAN
  /\ turn \in {"tick", "serve"}
  /\ reply \in Replies
  /\ fate \in Fates

ApiTypes ==
  /\ cameraRunning \in BOOLEAN
  /\ cameraMode \in Modes
  /\ recording \in BOOLEAN
  /\ splitting \in BOOLEAN
  /\ playback \in BOOLEAN
  /\ playbackMedia \in BOOLEAN
  /\ playbackRestorePending \in BOOLEAN
  /\ encoder \in Encoders
  /\ encoderPrevious \in Encoders
  /\ encoderUpdatePending \in BOOLEAN
  /\ audioAuto \in BOOLEAN
  /\ audioInput \in Inputs
  /\ transientValid \in BOOLEAN
  /\ imageDirty \in BOOLEAN

GraphTypes ==
  /\ graphStarted \in BOOLEAN
  /\ graphLeaked \in BOOLEAN
  /\ audioDevice \in Inputs \cup {NoDevice}
  /\ graphAudioInput \in Inputs
  /\ stackedFrame \in BOOLEAN

ChannelTypes ==
  /\ graphRecording \in BOOLEAN
  /\ recordingFailed \in BOOLEAN
  /\ recordEncoder \in Encoders \cup {NoEncoder}
  /\ validation \in {"idle", "pending", "complete", "failed"}
  /\ validationPolls \in 0 .. ValidationPolls
  /\ clip \in {"none", "empty", "frames"}

TypeOK == LoopTypes /\ ApiTypes /\ GraphTypes /\ ChannelTypes

(* target_start: the graph of the picture profile runs, no request yet.    *)
Started(input) ==
  /\ up = TRUE /\ turn = "tick" /\ reply = "none" /\ fate = "none"
  /\ cameraRunning = TRUE /\ cameraMode = PictureMode
  /\ recording = FALSE /\ splitting = FALSE
  /\ playback = FALSE /\ playbackMedia = FALSE
  /\ playbackRestorePending = FALSE
  /\ encoder = ProfileEncoder[PictureMode]
  /\ encoderPrevious = ProfileEncoder[PictureMode]
  /\ encoderUpdatePending = FALSE
  /\ audioAuto = TRUE /\ audioInput = input
  /\ transientValid = FALSE /\ imageDirty = FALSE
  /\ graphStarted = TRUE /\ graphLeaked = FALSE
  /\ graphRecording = FALSE /\ recordingFailed = FALSE
  /\ recordEncoder = NoEncoder
  /\ audioDevice = NoDevice /\ graphAudioInput = input
  /\ validation = "idle" /\ validationPolls = 0
  /\ stackedFrame = FALSE
  /\ clip = "none"

Init == \E input \in Inputs : Started(input)

-----------------------------------------------------------------------------
(* The graph as the handlers drive it.                                     *)

AvsStarted == graphStarted /\ cameraMode \in Stitched

(* Operators named ...Wrong, ...Late or ...Endless are plausible mistakes   *)
(* in the operator they precede; a property must notice each of them.      *)

(* ngcd_rk_graph_stop: every flag the structure remembers is torn down, an *)
(* open recording is aborted (its file unlinked) and a validation that was *)
(* pending, complete or failed is forgotten.                               *)
GraphStopped ==
  /\ graphStarted' = FALSE
  /\ graphRecording' = FALSE
  /\ recordEncoder' = NoEncoder
  /\ audioDevice' = NoDevice
  /\ validation' = "idle"
  /\ validationPolls' = 0
  /\ stackedFrame' = FALSE
  /\ clip' = "none"

(* target_graph_stop on a graph that was not restarted since.              *)
StopGraph ==
  /\ GraphStopped
  /\ UNCHANGED <<graphLeaked, recordingFailed, graphAudioInput>>

(* graph_start clears the structure before it starts anything: hardware    *)
(* the structure still owned then (owned) is running with no owner left.   *)
GraphFresh(owned) ==
  /\ graphLeaked' = (graphLeaked \/ owned)
  /\ recordingFailed' = FALSE

(* The graph of some profile runs and carries the API's audio input.       *)
GraphRestored(owned) ==
  /\ GraphFresh(owned)
  /\ graphStarted' = TRUE
  /\ graphAudioInput' = audioInput
  /\ graphRecording' = FALSE
  /\ recordEncoder' = NoEncoder
  /\ audioDevice' = NoDevice
  /\ validation' = "idle"
  /\ validationPolls' = 0
  /\ stackedFrame' = FALSE
  /\ clip' = "none"

(* A start that failed, in the graph or in the later image reapply: what   *)
(* it had started is stopped again.                                        *)
GraphFailed(owned) ==
  /\ GraphFresh(owned)
  /\ GraphStopped
  /\ graphAudioInput' \in {DefaultInput, audioInput}

(* One record for the part of the state a graph tick touches, so that the  *)
(* handlers that go on with its result can name it.                        *)
Channel ==
  [rec |-> graphRecording, failed |-> recordingFailed, warm |-> recordEncoder,
   val |-> validation, polls |-> validationPolls, clip |-> clip]

(* record_tick or drain_audio failing: record_abort unlinks the file.      *)
ChannelAborted == [Channel EXCEPT !.rec = FALSE, !.failed = TRUE,
                                  !.clip = "none"]

GraphTickEndless == \* the poll limit never fails the validation
  IF validation = "pending" /\ ~graphRecording
    THEN {[Channel EXCEPT !.val = "complete"], Channel}
  ELSE {Channel}

(* ngcd_rk_graph_tick, once.  Recording: a packet, none yet, or a failure. *)
(* Validating: the first packet completes it, the poll limit fails it.     *)
(* Idle: draining a warm channel may fail and retire it.                   *)
GraphTick ==
  IF graphRecording
    THEN {Channel, [Channel EXCEPT !.clip = "frames"], ChannelAborted}
  ELSE IF validation = "pending"
    THEN {[Channel EXCEPT !.val = "complete"],
          [Channel EXCEPT !.val = "failed"]}
         \cup IF validationPolls + 1 < ValidationPolls
                THEN {[Channel EXCEPT !.polls = @ + 1]} ELSE {}
  ELSE {Channel, [Channel EXCEPT !.warm = NoEncoder]}

(* wait_for_exposure_iso keeps ticking the graph inside one request: any   *)
(* number of graph ticks, none included.                                   *)
GraphTicksInHandler ==
  {Channel} \cup GraphTick \cup
    IF graphRecording
      THEN {[ChannelAborted EXCEPT !.warm = NoEncoder]}
    ELSE IF validation = "pending"
      THEN {[Channel EXCEPT !.polls = p] :
              p \in validationPolls .. ValidationPolls - 1}
      ELSE {}

SetChannel(c) ==
  /\ graphRecording' = c.rec
  /\ recordingFailed' = c.failed
  /\ recordEncoder' = c.warm
  /\ validation' = c.val
  /\ validationPolls' = c.polls
  /\ clip' = c.clip

(* Recorded frames that an abort unlinks with their file.                  *)
DropFate(c) == IF c = "frames" THEN "dropped" ELSE "none"
ClipFate(c) == IF clip # "none" /\ c.clip = "none"
                 THEN DropFate(clip) ELSE "none"

-----------------------------------------------------------------------------
(* target_tick.                                                            *)

DetectAudioWrong == \* also while a recording runs
  /\ UNCHANGED audioAuto
  /\ audioInput' \in IF audioAuto THEN Inputs ELSE {audioInput}
  /\ graphAudioInput' = audioInput'

(* Automatic input detection, between recordings only: the new input is    *)
(* taken when the mixer accepts it and no audio device is warm.            *)
DetectAudio ==
  /\ UNCHANGED audioAuto
  /\ \/ UNCHANGED <<audioInput, graphAudioInput>>
     \/ /\ audioAuto /\ ~recording /\ audioDevice = NoDevice
        /\ audioInput' \in Inputs
        /\ graphAudioInput' = audioInput'

(* What the recording part of a tick leaves behind, given the channel c    *)
(* after the graph tick.  "early": the tick returns at once.               *)
RecordingEnds(c, f, closeFailed, early) ==
  [on |-> FALSE, fate |-> f, early |-> early,
   channel |-> [c EXCEPT !.rec = FALSE, !.clip = "none",
                         !.failed = @ \/ closeFailed]]
RecordingGoesOn(c, f) ==
  [on |-> TRUE, fate |-> f, early |-> FALSE, channel |-> c]

FinishResultsWrong(c) == \* a failed rename is not reported
  {[ok |-> c.rec, end |-> RecordingEnds(c, f, FALSE, FALSE)] :
     f \in IF c.clip = "frames" THEN {"kept", "destroyed"} ELSE {"none"}}

(* target_finish_recording and, when it fails, target_abort_recording: an  *)
(* empty file is unlinked, a closed one renamed to its final name; a file  *)
(* that closed but could not be renamed is unlinked as well.               *)
FinishResults(c) ==
  IF ~c.rec
    THEN {[ok |-> FALSE, end |-> RecordingEnds(c, "none", FALSE, FALSE)]}
  ELSE IF c.clip = "empty"
    THEN {[ok |-> TRUE, end |-> RecordingEnds(c, "none", FALSE, FALSE)]}
  ELSE {[ok |-> TRUE, end |-> RecordingEnds(c, "kept", FALSE, FALSE)],
        [ok |-> FALSE, end |-> RecordingEnds(c, "dropped", TRUE, FALSE)],
        [ok |-> FALSE, end |-> RecordingEnds(c, "destroyed", FALSE, FALSE)]}

(* target_split_recording: storage, close, publish, start the successor.   *)
(* Any failure aborts what is left and ends the tick.                      *)
SplitResults(c) ==
  {RecordingEnds(c, DropFate(c.clip), FALSE, TRUE),
   RecordingEnds(c, DropFate(c.clip), TRUE, TRUE)}
  \cup IF c.clip = "frames"
         THEN {RecordingGoesOn([c EXCEPT !.clip = "empty", !.failed = FALSE],
                               "kept"),
               RecordingEnds(c, "destroyed", FALSE, TRUE),
               RecordingEnds(c, "kept", FALSE, TRUE),
               RecordingEnds([c EXCEPT !.warm = NoEncoder],
                             "kept", FALSE, TRUE)}
         ELSE {}

(* The storage check after the split: unreadable storage aborts, low       *)
(* storage finishes the recording.                                         *)
StorageResults(r) ==
  {r} \cup
  IF r.on
    THEN {RecordingEnds(r.channel,
                        IF r.channel.clip = "frames" THEN "dropped"
                                                     ELSE r.fate,
                        FALSE, FALSE)}
         \cup {[f.end EXCEPT !.fate = IF r.fate = "kept" THEN "kept" ELSE @] :
                 f \in FinishResults(r.channel)}
    ELSE {}

RecordingTickWrong(c) == \* recordingFailed is not looked at
  {[on |-> recording, fate |-> ClipFate(c), early |-> FALSE, channel |-> c]}

RecordingTick(c) ==
  IF ~recording
    THEN {[on |-> FALSE, fate |-> ClipFate(c), early |-> FALSE,
           channel |-> c]}
  ELSE IF c.failed
    THEN {RecordingEnds(c, DropFate(clip), FALSE, FALSE)}
  ELSE \* a gyro sample that cannot be written aborts as well
    {RecordingEnds(c, DropFate(c.clip), FALSE, FALSE)}
    \cup UNION {StorageResults(r) :
                  r \in {RecordingGoesOn(c, "none")} \cup
                        IF splitting THEN SplitResults(c) ELSE {}}

ResolveEncoderWrong(c) == \* the rejected encoder stays
  /\ UNCHANGED <<encoder, encoderPrevious>>
  /\ encoderUpdatePending' =
       (encoderUpdatePending /\ c.val \notin {"complete", "failed"})

ResolveEncoderLate(c) == \* a completed validation is not acted upon
  /\ UNCHANGED encoderPrevious
  /\ encoder' = IF encoderUpdatePending /\ c.val = "failed"
                  THEN encoderPrevious ELSE encoder
  /\ encoderUpdatePending' = (encoderUpdatePending /\ c.val # "failed")

(* The encoder update ends with the validation of the graph: a failed one  *)
(* puts the previous encoder back.                                         *)
ResolveEncoder(c) ==
  /\ UNCHANGED encoderPrevious
  /\ encoder' = IF encoderUpdatePending /\ c.val = "failed"
                  THEN encoderPrevious ELSE encoder
  /\ encoderUpdatePending' =
       (encoderUpdatePending /\ c.val \notin {"complete", "failed"})

(* A playback error returns before the graph is ticked.                    *)
PlaybackTickFails ==
  /\ playbackMedia
  /\ fate' = "none"
  /\ UNCHANGED <<recordVars, encoderVars, channelVars>>

TickGraph ==
  \E c \in GraphTick : \E r \in RecordingTick(c) :
    /\ SetChannel(r.channel)
    /\ fate' = r.fate
    /\ recording' = r.on
    /\ splitting' = (r.on /\ splitting)
    /\ IF r.early THEN UNCHANGED encoderVars ELSE ResolveEncoder(r.channel)

Tick ==
  /\ up /\ turn = "tick"
  /\ turn' = "serve" /\ reply' = "none"
  /\ DetectAudio
  /\ PlaybackTickFails \/ TickGraph
  /\ UNCHANGED <<up, modeVars, playbackVars, imageVars, graphStarted,
                 graphLeaked, audioDevice, stackedFrame>>

-----------------------------------------------------------------------------
(* HTTP requests.  A handler runs to completion; then the loop ticks.      *)

Answer(r) ==
  /\ up /\ turn = "serve"
  /\ turn' = "tick"
  /\ reply' = r
  /\ UNCHANGED up

(* accept times out: the loop ticks again.                                 *)
Idle ==
  /\ Answer("none")
  /\ fate' = "none"
  /\ UNCHANGED <<apiVars, graphVars>>

(* A handler that returns an error before it changed anything: a guard, a  *)
(* bad parameter, or the first hardware or storage call failing.           *)
Refused ==
  /\ Answer("error")
  /\ fate' = "none"
  /\ UNCHANGED <<apiVars, graphVars>>

CameraModeAllowedWrong == ~playback /\ ~encoderUpdatePending

CameraModeAllowed == ~recording /\ ~playback /\ ~encoderUpdatePending

CameraStopWrong == \* the API still reports a running camera
  /\ CameraModeAllowed
  /\ Answer("ok")
  /\ fate' = "none"
  /\ StopGraph
  /\ UNCHANGED apiVars

(* target_camera_mode(stop).  The transient exposure is forgotten before   *)
(* the histogram suspend that may still fail the request.                  *)
CameraStop ==
  /\ CameraModeAllowed
  /\ fate' = "none"
  /\ transientValid' = FALSE
  /\ \/ /\ Answer("error")
        /\ UNCHANGED <<modeVars, graphVars>>
     \/ /\ Answer("ok")
        /\ cameraRunning' = FALSE
        /\ StopGraph
        /\ UNCHANGED cameraMode
  /\ UNCHANGED <<recordVars, playbackVars, encoderVars, audioVars,
                 imageDirty>>

(* target_camera_mode(start, mode), the mode that already runs: answered   *)
(* from the API state alone.                                               *)
CameraStartSame ==
  /\ CameraModeAllowed /\ cameraRunning
  /\ Answer("cameraStarted")
  /\ fate' = "none"
  /\ UNCHANGED <<apiVars, graphVars>>

(* Another mode: the running graph is stopped first, so only a graph the   *)
(* API believes stopped can still be owned when the start clears it.  A    *)
(* failed start puts the previous profile back, if that starts.            *)
CameraStart(mode) ==
  LET owned == graphStarted /\ ~cameraRunning IN
  /\ CameraModeAllowed
  /\ ~(cameraRunning /\ mode = cameraMode)
  /\ fate' = "none"
  /\ transientValid' = FALSE
  /\ \/ /\ cameraRunning \* the histogram could not be suspended
        /\ Answer("error")
        /\ UNCHANGED <<modeVars, encoder, graphVars>>
     \/ /\ Answer("cameraStarted")
        /\ GraphRestored(owned)
        /\ cameraRunning' = TRUE
        /\ cameraMode' = mode
        /\ encoder' = ProfileEncoder[mode]
     \/ /\ Answer("error")
        /\ GraphFailed(owned)
        /\ cameraRunning' = FALSE
        /\ UNCHANGED <<cameraMode, encoder>>
     \/ /\ cameraRunning
        /\ Answer("error")
        /\ GraphRestored(owned)
        /\ cameraRunning' = TRUE
        /\ UNCHANGED <<cameraMode, encoder>>
  /\ UNCHANGED <<recordVars, playbackVars, encoderPrevious,
                 encoderUpdatePending, audioVars, imageDirty>>

(* target_set_image for a manual exposure or ISO: a fixed value is         *)
(* transient and waits for the sensors, an ordinary one ends the transient *)
(* state and is reapplied at every later graph start.                      *)
SetImage ==
  /\ cameraRunning
  /\ \/ /\ \E c \in GraphTicksInHandler : SetChannel(c) /\ fate' = ClipFate(c)
        /\ \/ Answer("ok") /\ transientValid' = TRUE
           \/ Answer("error") /\ transientValid' \in {transientValid, TRUE}
        /\ UNCHANGED imageDirty
     \/ /\ transientValid' = FALSE
        /\ imageDirty' = TRUE
        /\ Answer("ok")
        /\ fate' = "none"
        /\ UNCHANGED channelVars
  /\ UNCHANGED <<modeVars, recordVars, playbackVars, encoderVars, audioVars,
                 graphStarted, graphLeaked, audioDevice, graphAudioInput,
                 stackedFrame>>

(* target_night_preview: the sensor transaction waits for applied frames   *)
(* and rolls the transient values back when it fails.                      *)
NightPreview ==
  /\ cameraRunning /\ ~recording /\ ~playback
  /\ \E c \in GraphTicksInHandler :
       /\ SetChannel(c)
       /\ fate' = ClipFate(c)
       /\ \/ Answer("ok") /\ transientValid' \in BOOLEAN
          \/ Answer("error") /\ UNCHANGED transientValid
  /\ UNCHANGED <<modeVars, recordVars, playbackVars, encoderVars, audioVars,
                 imageDirty, graphStarted, graphLeaked, audioDevice,
                 graphAudioInput, stackedFrame>>

-----------------------------------------------------------------------------
(* Stills.                                                                 *)

(* ngcd_rk_graph_activate_encoder: a warm channel is reused only for the   *)
(* very encoder it was created with; a running validation owns it.         *)
CanActivate(c) ==
  /\ AvsStarted
  /\ c.val # "pending"
  /\ c.warm \in {NoEncoder, encoder}

(* target_snapshot, up to the point where it returns early.  The manual    *)
(* exposure may tick the graph; RAW capture and frame stacking may leave   *)
(* a stacked frame in the graph although the request fails later.          *)
SnapshotFails ==
  /\ Answer("error")
  /\ \E c \in GraphTicksInHandler :
       /\ fate' = ClipFate(c)
       /\ \/ /\ SetChannel(c)
             /\ stackedFrame' \in IF AvsStarted THEN {stackedFrame, TRUE, FALSE}
                                                ELSE {stackedFrame}
          \/ /\ CanActivate(c) \* the JPEG could not be written
             /\ SetChannel([c EXCEPT !.warm = encoder])
             /\ stackedFrame' \in BOOLEAN
  /\ UNCHANGED <<modeVars, graphStarted, graphLeaked, audioDevice,
                 graphAudioInput>>

(* The photo is written from the frame stacked for it, or from the next    *)
(* stitched frame; a stacked frame that is already there is taken first.   *)
(* Publishing it fails when its final name exists.                         *)
SnapshotWritten ==
  /\ \E c \in GraphTicksInHandler :
       /\ CanActivate(c)
       /\ SetChannel([c EXCEPT !.warm = encoder])
       /\ fate' = ClipFate(c)
  /\ Answer("photo") \/ Answer("error")
  /\ stackedFrame' = FALSE
  /\ UNCHANGED <<modeVars, graphStarted, graphLeaked, audioDevice,
                 graphAudioInput>>

(* target_offline_raw_snapshot: the fallback photo is on disk, the live    *)
(* graph gives way to the offline graph and is then restored.  A failed    *)
(* restoration is retried without the white balance; either way the        *)
(* fallback is unlinked.                                                   *)
SnapshotOffline ==
  /\ \E c \in GraphTicksInHandler : CanActivate(c) /\ fate' = ClipFate(c)
  /\ UNCHANGED cameraMode
  /\ \/ /\ GraphRestored(FALSE)
        /\ cameraRunning' = TRUE
        /\ \/ Answer("photo")       \* the offline photo, or the fallback
           \/ Answer("error")       \* not published
           \/ Answer("fallbackLost") \* restored by the second attempt
     \/ /\ GraphFailed(FALSE)
        /\ cameraRunning' = FALSE
        /\ Answer("fallbackLost")

Snapshot ==
  /\ cameraRunning /\ ~recording /\ ~playback /\ ~transientValid
  /\ SnapshotFails \/ SnapshotWritten \/ SnapshotOffline
  /\ UNCHANGED <<recordVars, playbackVars, encoderVars, audioVars, imageVars>>

-----------------------------------------------------------------------------
(* Recording.                                                              *)

RecordingStartAllowed ==
  /\ ~recording /\ cameraRunning /\ ~playback /\ ~encoderUpdatePending

(* start_audio_hardware: a device that is open from an earlier recording   *)
(* is taken as it is.                                                      *)
StartAudio ==
  audioDevice' = IF audioDevice = NoDevice THEN graphAudioInput ELSE audioDevice

(* target_recording(start): the channel and the audio device are warm or   *)
(* are started now, stale output is drained, then the file is opened.      *)
RecordingStart(split) ==
  /\ RecordingStartAllowed
  /\ CanActivate(Channel) /\ ~graphRecording
  /\ Answer("ok")
  /\ fate' = "none"
  /\ recordEncoder' = encoder
  /\ StartAudio
  /\ recordingFailed' = FALSE
  /\ graphRecording' = TRUE
  /\ clip' = "empty"
  /\ recording' = TRUE
  /\ splitting' = split
  /\ UNCHANGED <<modeVars, playbackVars, encoderVars, audioVars, imageVars,
                 graphStarted, graphLeaked, graphAudioInput, validation,
                 validationPolls, stackedFrame>>

(* A start that fails half way leaves what it made warm: the channel only, *)
(* the channel and the audio device, or, when draining the channel failed, *)
(* the audio device only.                                                  *)
RecordingStartFails ==
  /\ RecordingStartAllowed
  /\ CanActivate(Channel) /\ ~graphRecording
  /\ Answer("error")
  /\ fate' = "none"
  /\ \/ recordEncoder' = encoder /\ audioDevice = NoDevice /\ UNCHANGED audioDevice
        /\ UNCHANGED recordingFailed
     \/ recordEncoder' = encoder /\ StartAudio
        /\ recordingFailed' \in {recordingFailed, FALSE}
     \/ recordEncoder' = NoEncoder /\ StartAudio
        /\ UNCHANGED recordingFailed
  /\ UNCHANGED <<apiVars, graphStarted, graphLeaked, graphRecording,
                 graphAudioInput, validation, validationPolls, stackedFrame,
                 clip>>

(* target_recording(stop).                                                 *)
RecordingStop ==
  /\ recording
  /\ \E f \in FinishResults(Channel) :
       /\ Answer(IF f.ok THEN "recordStopped" ELSE "error")
       /\ SetChannel(f.end.channel)
       /\ fate' = f.end.fate
  /\ recording' = FALSE /\ splitting' = FALSE
  /\ UNCHANGED <<modeVars, playbackVars, encoderVars, audioVars, imageVars,
                 graphStarted, graphLeaked, audioDevice, graphAudioInput,
                 stackedFrame>>

-----------------------------------------------------------------------------
(* Playback shares the display and the decoder with the camera graph.      *)

(* target_playback(start).                                                 *)
PlaybackStart ==
  /\ ~recording /\ ~playback
  /\ Answer("ok")
  /\ fate' = "none"
  /\ IF cameraRunning THEN cameraRunning' = FALSE /\ StopGraph
                      ELSE UNCHANGED <<cameraRunning, graphVars>>
  /\ playback' = TRUE
  /\ playbackRestorePending' = TRUE
  /\ UNCHANGED <<cameraMode, playbackMedia, recordVars, encoderVars,
                 audioVars, imageVars>>

(* target_playback(stop).  It does not ask whether playback is on: a       *)
(* restore that is still pending is tried again.  target_restore_graph     *)
(* reports the camera running before the image state is reapplied, and     *)
(* leaves the report alone when the graph itself does not start.           *)
PlaybackStop ==
  /\ ~recording
  /\ fate' = "none"
  /\ playback' = FALSE /\ playbackMedia' = FALSE
  /\ \/ /\ ~playbackRestorePending
        /\ Answer("ok")
        /\ UNCHANGED <<playbackRestorePending, cameraRunning, transientValid,
                       graphVars>>
     \/ /\ playbackRestorePending
        /\ Answer("ok")
        /\ playbackRestorePending' = FALSE
        /\ GraphRestored(graphStarted)
        /\ cameraRunning' = TRUE
        /\ transientValid' = (transientValid /\ ~imageDirty)
     \/ /\ playbackRestorePending
        /\ Answer("error")
        /\ GraphFailed(graphStarted)
        /\ \/ UNCHANGED <<cameraRunning, transientValid>>
           \/ /\ cameraRunning' = FALSE
              /\ transientValid' \in {transientValid,
                                      transientValid /\ ~imageDirty}
        /\ UNCHANGED playbackRestorePending
  /\ UNCHANGED <<cameraMode, recordVars, encoderVars, audioVars, imageDirty>>

(* target_playback(open and close): the old medium is closed first.        *)
PlaybackMedia ==
  /\ ~recording /\ playback
  /\ Answer("ok") \/ Answer("error")
  /\ fate' = "none"
  /\ playbackMedia' \in BOOLEAN
  /\ UNCHANGED <<modeVars, recordVars, playback, playbackRestorePending,
                 encoderVars, audioVars, imageVars, graphVars>>

-----------------------------------------------------------------------------
(* Encoder and audio settings.                                             *)

(* target_set_encoder on channel 0.  With the stitcher running the change  *)
(* is provisional: the warm channel is retired and the graph must produce  *)
(* a first packet before the update ends.                                  *)
SetEncoder(e) ==
  LET validates == cameraRunning /\ AvsStarted IN
  /\ ~recording /\ ~encoderUpdatePending
  /\ e # encoder
  /\ validates => ~graphRecording
  /\ Answer("ok")
  /\ fate' = "none"
  /\ encoder' = e
  /\ encoderPrevious' = encoder
  /\ encoderUpdatePending' = validates
  /\ IF validates
       THEN /\ recordEncoder' = NoEncoder
            /\ validation' = "pending"
            /\ validationPolls' = 0
       ELSE UNCHANGED <<recordEncoder, validation, validationPolls>>
  /\ UNCHANGED <<modeVars, recordVars, playbackVars, audioVars, imageVars,
                 graphStarted, graphLeaked, graphRecording, recordingFailed,
                 audioDevice, graphAudioInput, stackedFrame, clip>>

SetAudioWrong(input, automatic) == \* reported before the graph is asked
  /\ input # audioInput => ~recording
  /\ Answer("ok")
  /\ fate' = "none"
  /\ audioAuto' = automatic
  /\ audioInput' = input
  /\ graphAudioInput' = IF audioDevice = NoDevice THEN input ELSE graphAudioInput
  /\ UNCHANGED <<modeVars, recordVars, playbackVars, encoderVars, imageVars,
                 channelVars, graphStarted, graphLeaked, audioDevice,
                 stackedFrame>>

(* target_set_audio, input selection; while a recording runs only the      *)
(* input it already uses is accepted, and the graph accepts another one    *)
(* only while no device is open.                                           *)
SetAudio(input, automatic) ==
  /\ input # audioInput => ~recording /\ audioDevice = NoDevice
  /\ Answer("ok")
  /\ fate' = "none"
  /\ audioAuto' = automatic
  /\ audioInput' = input
  /\ graphAudioInput' = IF input = audioInput THEN graphAudioInput ELSE input
  /\ UNCHANGED <<modeVars, recordVars, playbackVars, encoderVars, imageVars,
                 channelVars, graphStarted, graphLeaked, audioDevice,
                 stackedFrame>>

-----------------------------------------------------------------------------
(* The process.                                                            *)

(* SIGTERM: the loop ends before its next tick and target_stop finishes or *)
(* aborts the recording and frees everything.                              *)
TargetStop ==
  /\ up /\ turn = "tick"
  /\ up' = FALSE
  /\ reply' = "none"
  /\ IF recording THEN \E f \in FinishResults(Channel) : fate' = f.end.fate
                  ELSE fate' = "none"
  /\ recording' = FALSE /\ splitting' = FALSE
  /\ cameraRunning' = FALSE
  /\ playbackMedia' = FALSE
  /\ StopGraph
  /\ UNCHANGED <<turn, cameraMode, playback, playbackRestorePending,
                 encoderVars, audioVars, imageVars>>

(* A new process; one whose start fails exits without having served.       *)
TargetStart ==
  /\ ~up
  /\ \E input \in Inputs :
       /\ up' = TRUE /\ turn' = "tick" /\ reply' = "none" /\ fate' = "none"
       /\ cameraRunning' = TRUE /\ cameraMode' = PictureMode
       /\ recording' = FALSE /\ splitting' = FALSE
       /\ playback' = FALSE /\ playbackMedia' = FALSE
       /\ playbackRestorePending' = FALSE
       /\ encoder' = ProfileEncoder[PictureMode]
       /\ encoderPrevious' = ProfileEncoder[PictureMode]
       /\ encoderUpdatePending' = FALSE
       /\ audioAuto' = TRUE /\ audioInput' = input
       /\ transientValid' = FALSE /\ imageDirty' = FALSE
       /\ graphStarted' = TRUE /\ graphLeaked' = FALSE
       /\ graphRecording' = FALSE /\ recordingFailed' = FALSE
       /\ recordEncoder' = NoEncoder
       /\ audioDevice' = NoDevice /\ graphAudioInput' = input
       /\ validation' = "idle" /\ validationPolls' = 0
       /\ stackedFrame' = FALSE
       /\ clip' = "none"

Request ==
  \/ Refused
  \/ CameraStop
  \/ CameraStartSame
  \/ \E mode \in Modes : CameraStart(mode)
  \/ SetImage
  \/ NightPreview
  \/ Snapshot
  \/ \E split \in BOOLEAN : RecordingStart(split)
  \/ RecordingStartFails
  \/ RecordingStop
  \/ PlaybackStart
  \/ PlaybackStop
  \/ PlaybackMedia
  \/ \E e \in Encoders : SetEncoder(e)
  \/ \E input \in Inputs, automatic \in BOOLEAN : SetAudio(input, automatic)

Next == Tick \/ Idle \/ Request \/ TargetStop \/ TargetStart

(* The loop never stops by itself: it ticks, and accept times out.  Nothing *)
(* is assumed of clients, of signals or of the hardware.                    *)
Fairness == WF_vars(Tick) /\ WF_vars(Idle)

Spec == Init /\ [][Next]_vars /\ Fairness

-----------------------------------------------------------------------------
(* Properties.                                                             *)

(* A recording owns the hardware: as long as the API reports one, the      *)
(* camera graph runs, playback is off and no encoder update is in flight;  *)
(* while the graph writes, its channel has exactly the encoder the API     *)
(* reports and the audio device is up.  Every handler that stops the       *)
(* graph, retires the channel or changes the encoder must keep out.        *)
RecordingOwnsHardware ==
  /\ recording => /\ cameraRunning /\ graphStarted /\ ~playback
                  /\ ~encoderUpdatePending
  /\ graphRecording => recordEncoder = encoder /\ audioDevice # NoDevice

(* An open recording file always has an owner that will finish or unlink   *)
(* it: the graph has a writer exactly while the hidden file is open, and   *)
(* then the API reports the recording.                                     *)
OpenFileHasOwner ==
  /\ (clip # "none") = graphRecording
  /\ graphRecording => recording

(* The tick between two requests reconciles: no request ever meets a       *)
(* recording whose writer is gone, nor a verdict of the encoder validation *)
(* that was not acted upon.                                                *)
TickReconciles ==
  up /\ turn = "serve" =>
    /\ recording => graphRecording
    /\ encoderUpdatePending => validation \notin {"complete", "failed"}

(* Camera and playback exclude each other, and leaving playback brings the *)
(* camera back: while playback is on, the graph is down and its restore is *)
(* remembered.  A graph that runs is always reported as running and        *)
(* records from the audio input the API reports.                           *)
CameraAndPlaybackExclude ==
  /\ up /\ playback => ~graphStarted /\ ~cameraRunning
                       /\ playbackRestorePending
  /\ playbackMedia => playback
  /\ graphStarted => cameraRunning /\ graphAudioInput = audioInput

(* The API reports a running camera only for a running graph, unless a     *)
(* graph was started over a running one.                                   *)
RunningIsLiveUnlessLeaked == cameraRunning /\ ~graphLeaked => graphStarted

(* A stop that succeeds has published every recorded frame: only an empty  *)
(* file is discarded.                                                      *)
StopKeepsFrames ==
  [][clip = "frames" /\ reply' = "recordStopped" => fate' = "kept"]_vars

(* An encoder update of a running process ends in exactly one of two ways: *)
(* the graph produced a packet and the new encoder stays, or validation    *)
(* failed and the encoder of before is back.                               *)
UpdateEndsWithVerdict ==
  [][encoderUpdatePending /\ ~encoderUpdatePending' /\ up' /\ up =>
       \/ validation' = "complete" /\ encoder' = encoder
       \/ validation' = "failed" /\ encoder' = encoderPrevious]_vars

(* No handler changes the encoder, the mode or the audio input of a        *)
(* recording that goes on, its splits included.                            *)
RecordingKeepsSettings ==
  [][recording /\ recording' =>
       /\ encoder' = encoder /\ cameraMode' = cameraMode
       /\ audioInput' = audioInput]_vars

(* The audio device that is open belongs to the input the API reports: it  *)
(* stays open from one recording to the next, whose sound comes from it,   *)
(* while requests and the automatic detection may change the input and     *)
(* starts, stops and restores take the graph down and up.                  *)
OpenDeviceIsReported == audioDevice # NoDevice => audioDevice = audioInput

(* A recording whose writer failed is not reported for ever.               *)
FailureIsNoticed == (recording /\ ~graphRecording) ~> ~recording

(* The part of the state that only matters for the induction: what is warm *)
(* or validating belongs to a started graph, a stopped process owns        *)
(* nothing, and a writer that failed under a request left its mark for the *)
(* next tick.                                                              *)
HardwareBelongsToGraph ==
  /\ graphStarted => up
  /\ recording => up
  /\ ~graphStarted => /\ recordEncoder = NoEncoder /\ audioDevice = NoDevice
                      /\ validation = "idle" /\ ~graphRecording
  /\ recording /\ ~graphRecording => recordingFailed

(* The inductive invariant behind the safety properties.                   *)
Inv ==
  /\ TypeOK
  /\ RecordingOwnsHardware
  /\ OpenFileHasOwner
  /\ TickReconciles
  /\ CameraAndPlaybackExclude
  /\ RunningIsLiveUnlessLeaked
  /\ HardwareBelongsToGraph

=============================================================================
