------------------------- MODULE CameraBackendProofs -------------------------
(***************************************************************************)
(* The safety properties of CameraBackend, for every set of modes,         *)
(* encoders and inputs and every poll limit.  Inv is inductive: the lemmas *)
(* below show what a graph tick and the recording part of a tick may       *)
(* return, then each action is shown to preserve Inv.                      *)
(***************************************************************************)
EXTENDS CameraBackend, TLAPS

Channels ==
  [rec : BOOLEAN, failed : BOOLEAN, warm : Encoders \cup {NoEncoder},
   val : {"idle", "pending", "complete", "failed"},
   polls : 0 .. ValidationPolls, clip : {"none", "empty", "frames"}]

(* What any number of graph ticks may do to the channel: a writer is never *)
(* started, one that is lost is marked as failed, a mark is never removed, *)
(* and only a pending validation moves.                                    *)
Ticked(c) ==
  /\ c \in Channels
  /\ c.rec = (c.clip # "none")
  /\ c.rec => graphRecording /\ c.warm = recordEncoder
  /\ graphRecording /\ ~c.rec => c.failed
  /\ recordingFailed => c.failed
  /\ c.warm \in {recordEncoder, NoEncoder}
  /\ validation # "pending" => c.val = validation

(* What the recording part of a tick may make of a ticked channel.         *)
Outcomes == [on : BOOLEAN, fate : Fates, early : BOOLEAN, channel : Channels]

Recorded(r, c) ==
  /\ r \in Outcomes
  /\ r.on => recording /\ r.channel.rec
  /\ r.early => recording
  /\ r.channel.rec => /\ r.on /\ graphRecording
                      /\ r.channel.warm = recordEncoder
  /\ r.channel.rec = (r.channel.clip # "none")
  /\ r.channel.warm \in {recordEncoder, NoEncoder}
  /\ r.channel.val = c.val

(* A graph tick, as Ticked says.                                           *)
LEMMA GraphTickTicks ==
  ASSUME Inv, NEW c \in GraphTick
  PROVE  Ticked(c)
<1> USE DEF Inv, TypeOK, ChannelTypes, LoopTypes, ApiTypes, OpenFileHasOwner
<1>1. Channel \in Channels
  BY DEF Channel, Channels
<1>2. CASE graphRecording
  <2>1. c \in {Channel, [Channel EXCEPT !.clip = "frames"], ChannelAborted}
    BY <1>2 DEF GraphTick
  <2>2. CASE c = Channel
    BY <1>1, <1>2, <2>2 DEF Ticked, Channel
  <2>3. CASE c = [Channel EXCEPT !.clip = "frames"]
    BY <1>1, <1>2, <2>3 DEF Ticked, Channel, Channels
  <2>4. CASE c = ChannelAborted
    BY <1>1, <1>2, <2>4 DEF Ticked, Channel, ChannelAborted, Channels
  <2>5. QED
    BY <2>1, <2>2, <2>3, <2>4
<1>3. CASE ~graphRecording /\ validation = "pending"
  <2>1. validationPolls + 1 < ValidationPolls
          => validationPolls + 1 \in 0 .. ValidationPolls
    BY PollsAssumption
  <2>2. QED
    BY <1>1, <1>3, <2>1 DEF GraphTick, Ticked, Channel, Channels
<1>4. CASE ~graphRecording /\ validation # "pending"
  BY <1>1, <1>4 DEF GraphTick, Ticked, Channel, Channels
<1>5. QED
  BY <1>2, <1>3, <1>4

(* The graph ticks inside a request, as Ticked says.                       *)
LEMMA HandlerTicksTick ==
  ASSUME Inv, NEW c \in GraphTicksInHandler
  PROVE  Ticked(c)
<1> USE DEF Inv, TypeOK, ChannelTypes, LoopTypes, ApiTypes, OpenFileHasOwner
<1>1. Channel \in Channels
  BY DEF Channel, Channels
<1>2. CASE c \in GraphTick
  BY <1>2, GraphTickTicks
<1>3. CASE c = Channel
  BY <1>1, <1>3 DEF Ticked, Channel
<1>4. CASE graphRecording /\ c = [ChannelAborted EXCEPT !.warm = NoEncoder]
  BY <1>1, <1>4 DEF Ticked, Channel, ChannelAborted, Channels
<1>5. ASSUME validation = "pending", ~graphRecording,
             NEW p \in validationPolls .. ValidationPolls - 1,
             c = [Channel EXCEPT !.polls = p]
      PROVE  Ticked(c)
  <2>1. p \in 0 .. ValidationPolls
    BY PollsAssumption
  <2>2. QED
    BY <1>1, <1>5, <2>1 DEF Ticked, Channel, Channels
<1>6. QED
  BY <1>2, <1>3, <1>4, <1>5 DEF GraphTicksInHandler

(* However the recording is finished, its channel ends.                    *)
Endings(c) ==
  {RecordingEnds(c, "none", FALSE, FALSE),
   RecordingEnds(c, "kept", FALSE, FALSE),
   RecordingEnds(c, "dropped", TRUE, FALSE),
   RecordingEnds(c, "destroyed", FALSE, FALSE)}

(* target_finish_recording: one of the Endings.                            *)
LEMMA FinishEnds ==
  ASSUME NEW c, NEW f \in FinishResults(c)
  PROVE  f.end \in Endings(c)
<1> USE DEF FinishResults, Endings, RecordingEnds
<1>1. CASE ~c.rec
  BY <1>1
<1>2. CASE c.rec /\ c.clip = "empty"
  BY <1>2
<1>3. CASE c.rec /\ c.clip # "empty"
  BY <1>3
<1>4. QED
  BY <1>1, <1>2, <1>3

(* The recording part of a tick, as Recorded says.                         *)
LEMMA RecordingTickRecords ==
  ASSUME Inv, NEW c \in GraphTick, NEW r \in RecordingTick(c)
  PROVE  Recorded(r, c)
<1> USE DEF Fates
<1>1. Ticked(c)
  BY GraphTickTicks
<1>2. \A f : DropFate(f) \in {"dropped", "none"}
  BY DEF DropFate
<1>3. ClipFate(c) \in Fates
  BY <1>2 DEF ClipFate
<1>4. ASSUME NEW d \in Channels, d.val = c.val,
             d.warm \in {recordEncoder, NoEncoder}, recording,
             NEW f \in Fates, NEW closeFailed \in BOOLEAN,
             NEW early \in BOOLEAN
      PROVE  Recorded(RecordingEnds(d, f, closeFailed, early), c)
  BY <1>4 DEF Recorded, RecordingEnds, Outcomes, Channels
<1>5. ASSUME NEW d \in Channels, d.val = c.val, d.warm = recordEncoder,
             recording, graphRecording, d.rec, d.clip # "none",
             NEW f \in Fates
      PROVE  Recorded(RecordingGoesOn(d, f), c)
  BY <1>5 DEF Recorded, RecordingGoesOn, Outcomes, Channels
<1>6. CASE ~recording
  <2>1. r = [on |-> FALSE, fate |-> ClipFate(c), early |-> FALSE,
             channel |-> c]
    BY <1>6 DEF RecordingTick
  <2>2. ~c.rec
    BY <1>1, <1>6 DEF Ticked, Inv, OpenFileHasOwner
  <2>3. QED
    BY <1>1, <1>3, <2>1, <2>2 DEF Recorded, Outcomes, Ticked
<1>7. CASE recording /\ c.failed
  <2>1. r = RecordingEnds(c, DropFate(clip), FALSE, FALSE)
    BY <1>7 DEF RecordingTick
  <2>2. QED
    BY <1>1, <1>2, <1>4, <1>7, <2>1 DEF Ticked
<1>8. CASE recording /\ ~c.failed
  <2>1. /\ c.rec /\ c.clip # "none" /\ c.warm = recordEncoder
        /\ graphRecording
    BY <1>1, <1>8 DEF Ticked, Inv, HardwareBelongsToGraph, TypeOK, ChannelTypes, ApiTypes
  <2>2. ASSUME NEW q, NEW s \in StorageResults(q),
               \/ q = RecordingGoesOn(c, "none")
               \/ q \in SplitResults(c)
        PROVE  Recorded(s, c)
    <3>1. Recorded(q, c)
      <4>1. CASE q = RecordingGoesOn(c, "none")
        BY <1>1, <1>5, <1>8, <2>1, <4>1 DEF Ticked
      <4>2. CASE q \in {RecordingEnds(c, DropFate(c.clip), FALSE, TRUE),
                        RecordingEnds(c, DropFate(c.clip), TRUE, TRUE),
                        RecordingEnds(c, "destroyed", FALSE, TRUE),
                        RecordingEnds(c, "kept", FALSE, TRUE)}
        BY <1>1, <1>2, <1>4, <1>8, <4>2 DEF Ticked
      <4>3. CASE q = RecordingGoesOn(
                       [c EXCEPT !.clip = "empty", !.failed = FALSE], "kept")
        <5> DEFINE d == [c EXCEPT !.clip = "empty", !.failed = FALSE]
        <5>1. /\ d \in Channels /\ d.val = c.val /\ d.warm = recordEncoder
              /\ d.rec /\ d.clip # "none"
          BY <1>1, <2>1 DEF Ticked, Channels
        <5>2. QED
          BY <1>5, <1>8, <2>1, <4>3, <5>1
      <4>4. CASE q = RecordingEnds([c EXCEPT !.warm = NoEncoder],
                                   "kept", FALSE, TRUE)
        <5> DEFINE d == [c EXCEPT !.warm = NoEncoder]
        <5>1. d \in Channels /\ d.val = c.val /\ d.warm = NoEncoder
          BY <1>1 DEF Ticked, Channels
        <5>2. QED
          BY <1>4, <1>8, <4>4, <5>1
      <4>5. QED
        BY <2>2, <4>1, <4>2, <4>3, <4>4 DEF SplitResults
    <3>2. q.channel \in Channels /\ q.fate \in Fates
      BY <3>1 DEF Recorded, Outcomes
    <3>3. CASE s = q
      BY <3>1, <3>3
    <3>4. CASE s = RecordingEnds(q.channel,
                                 IF q.channel.clip = "frames" THEN "dropped"
                                                              ELSE q.fate,
                                 FALSE, FALSE)
      <4> DEFINE g == IF q.channel.clip = "frames" THEN "dropped" ELSE q.fate
      <4>1. g \in Fates
        BY <3>2
      <4>2. /\ q.channel.val = c.val
            /\ q.channel.warm \in {recordEncoder, NoEncoder}
        BY <3>1 DEF Recorded
      <4> HIDE DEF g
      <4>3. Recorded(RecordingEnds(q.channel, g, FALSE, FALSE), c)
        BY <1>4, <1>8, <3>2, <4>1, <4>2
      <4>4. QED
        BY <3>4, <4>3 DEF g
    <3>5. ASSUME NEW f \in FinishResults(q.channel),
                 s = [f.end EXCEPT !.fate = IF q.fate = "kept"
                                              THEN "kept" ELSE @]
          PROVE  Recorded(s, c)
      <4>1. Recorded(f.end, c)
        <5>1. f.end \in Endings(q.channel)
          BY <3>5, FinishEnds
        <5>2. \E g \in Fates, b \in BOOLEAN :
                f.end = RecordingEnds(q.channel, g, b, FALSE)
          BY <5>1 DEF Endings
        <5>3. /\ q.channel.val = c.val
              /\ q.channel.warm \in {recordEncoder, NoEncoder}
          BY <3>1 DEF Recorded
        <5>4. QED
          BY <1>4, <1>8, <3>2, <5>2, <5>3
      <4>2. QED
        BY <3>5, <4>1 DEF Recorded, Outcomes
    <3>6. QED
      BY <2>2, <3>3, <3>4, <3>5 DEF StorageResults
  <2>3. CASE r = RecordingEnds(c, DropFate(c.clip), FALSE, FALSE)
    BY <1>1, <1>2, <1>4, <1>8, <2>3 DEF Ticked
  <2>4. CASE r # RecordingEnds(c, DropFate(c.clip), FALSE, FALSE)
    <3>1. \E q \in {RecordingGoesOn(c, "none")} \cup
                   (IF splitting THEN SplitResults(c) ELSE {}) :
            r \in StorageResults(q)
      BY <1>8, <2>4 DEF RecordingTick
    <3>2. QED
      BY <2>2, <3>1
  <2>5. QED
    BY <2>3, <2>4
<1>9. QED
  BY <1>1, <1>6, <1>7, <1>8 DEF Ticked, Channels

-----------------------------------------------------------------------------
(* Inv holds initially and every action preserves it.                      *)

USE DEF Replies, Fates, loopVars, modeVars, recordVars, playbackVars,
        encoderVars, audioVars, imageVars, channelVars, graphVars, apiVars

(* The poll counter can be reset, and profiles install encoders.           *)
LEMMA ConstantFacts ==
  /\ 0 \in 0 .. ValidationPolls
  /\ PictureMode \in Modes
  /\ DefaultInput \in Inputs
  /\ \A mode \in Modes : ProfileEncoder[mode] \in Encoders
BY PollsAssumption, ModesAssumption, EncodersAssumption, InputsAssumption

(* target_start establishes Inv.                                           *)
LEMMA InitInv == Init => Inv
<1> SUFFICES ASSUME NEW input \in Inputs, Started(input)
             PROVE  Inv
  BY DEF Init
<1> USE ConstantFacts DEF Started
<1>1. TypeOK
  <2>1. LoopTypes
    BY DEF LoopTypes
  <2>2. ApiTypes
    BY DEF ApiTypes
  <2>3. GraphTypes
    BY DEF GraphTypes
  <2>4. ChannelTypes
    BY DEF ChannelTypes
  <2>5. QED
    BY <2>1, <2>2, <2>3, <2>4 DEF TypeOK
<1>2. RecordingOwnsHardware
  BY DEF RecordingOwnsHardware
<1>3. OpenFileHasOwner
  BY DEF OpenFileHasOwner
<1>4. TickReconciles
  BY DEF TickReconciles
<1>5. CameraAndPlaybackExclude
  BY DEF CameraAndPlaybackExclude
<1>6. RunningIsLiveUnlessLeaked
  BY DEF RunningIsLiveUnlessLeaked
<1>7. HardwareBelongsToGraph
  BY DEF HardwareBelongsToGraph
<1>8. QED
  BY <1>1, <1>2, <1>3, <1>4, <1>5, <1>6, <1>7 DEF Inv

(* Handlers that change nothing but the answer.                            *)
LEMMA IdleInv ==
  ASSUME Inv, Idle \/ Refused \/ CameraStartSame
  PROVE  Inv'
<1> USE DEF Idle, Refused, CameraStartSame, Answer, Inv
<1>1. TypeOK'
  <2>1. LoopTypes'
    BY DEF LoopTypes
  <2>2. ApiTypes'
    BY DEF TypeOK, ApiTypes
  <2>3. GraphTypes'
    BY DEF TypeOK, GraphTypes
  <2>4. ChannelTypes'
    BY DEF TypeOK, ChannelTypes
  <2>5. QED
    BY <2>1, <2>2, <2>3, <2>4 DEF TypeOK
<1>2. RecordingOwnsHardware'
  BY DEF RecordingOwnsHardware
<1>3. OpenFileHasOwner'
  BY DEF OpenFileHasOwner
<1>4. TickReconciles'
  BY DEF TickReconciles
<1>5. CameraAndPlaybackExclude'
  BY DEF CameraAndPlaybackExclude
<1>6. RunningIsLiveUnlessLeaked'
  BY DEF RunningIsLiveUnlessLeaked
<1>7. HardwareBelongsToGraph'
  BY DEF HardwareBelongsToGraph
<1>8. QED
  BY <1>1, <1>2, <1>3, <1>4, <1>5, <1>6, <1>7

(* target_camera_mode(stop).                                               *)
LEMMA CameraStopInv ==
  ASSUME Inv, CameraStop
  PROVE  Inv'
<1> USE DEF CameraStop, CameraModeAllowed, Answer, StopGraph, GraphStopped,
            Inv
<1>1. TypeOK'
  <2>1. LoopTypes'
    BY DEF LoopTypes
  <2>2. ApiTypes'
    BY DEF TypeOK, ApiTypes
  <2>3. GraphTypes'
    BY DEF TypeOK, GraphTypes
  <2>4. ChannelTypes'
    BY ConstantFacts DEF TypeOK, ChannelTypes
  <2>5. QED
    BY <2>1, <2>2, <2>3, <2>4 DEF TypeOK
<1>2. RecordingOwnsHardware'
  BY DEF RecordingOwnsHardware
<1>3. OpenFileHasOwner'
  BY DEF OpenFileHasOwner
<1>4. TickReconciles'
  BY DEF TickReconciles
<1>5. CameraAndPlaybackExclude'
  BY DEF CameraAndPlaybackExclude
<1>6. RunningIsLiveUnlessLeaked'
  <2>1. \/ ~cameraRunning'
        \/ /\ cameraRunning' = cameraRunning
           /\ graphLeaked' = graphLeaked /\ graphStarted' = graphStarted
    OBVIOUS
  <2> HIDE DEF CameraStop
  <2>2. QED
    BY <2>1 DEF RunningIsLiveUnlessLeaked
<1>7. HardwareBelongsToGraph'
  BY DEF HardwareBelongsToGraph
<1>8. QED
  BY <1>1, <1>2, <1>3, <1>4, <1>5, <1>6, <1>7

(* target_camera_mode(start) with another mode.                            *)
LEMMA CameraStartInv ==
  ASSUME NEW mode \in Modes, Inv, CameraStart(mode)
  PROVE  Inv'
<1> USE DEF CameraStart, CameraModeAllowed, Answer, GraphRestored,
            GraphFailed, GraphFresh, GraphStopped, Inv
<1>1. TypeOK'
  <2>1. LoopTypes'
    BY DEF LoopTypes
  <2>2. ApiTypes'
    BY ConstantFacts DEF TypeOK, ApiTypes
  <2>3. GraphTypes'
    BY ConstantFacts DEF TypeOK, ApiTypes, GraphTypes
  <2>4. ChannelTypes'
    BY ConstantFacts DEF TypeOK, ChannelTypes
  <2>5. QED
    BY <2>1, <2>2, <2>3, <2>4 DEF TypeOK
<1>2. RecordingOwnsHardware'
  BY DEF RecordingOwnsHardware
<1>3. OpenFileHasOwner'
  BY DEF OpenFileHasOwner
<1>4. TickReconciles'
  BY DEF TickReconciles
<1>5. CameraAndPlaybackExclude'
  BY DEF CameraAndPlaybackExclude
<1>6. RunningIsLiveUnlessLeaked'
  <2>1. \/ ~cameraRunning' \/ graphStarted'
        \/ /\ cameraRunning' = cameraRunning
           /\ graphLeaked' = graphLeaked /\ graphStarted' = graphStarted
    OBVIOUS
  <2> HIDE DEF CameraStart
  <2>2. QED
    BY <2>1 DEF RunningIsLiveUnlessLeaked
<1>7. HardwareBelongsToGraph'
  BY DEF HardwareBelongsToGraph
<1>8. QED
  BY <1>1, <1>2, <1>3, <1>4, <1>5, <1>6, <1>7

(* target_recording(start), successful.                                    *)
LEMMA RecordingStartInv ==
  ASSUME NEW split \in BOOLEAN, Inv, RecordingStart(split)
  PROVE  Inv'
<1> USE DEF RecordingStart, RecordingStartAllowed, CanActivate, AvsStarted,
            Channel, Answer, StartAudio, Inv
<1>1. TypeOK'
  <2>1. LoopTypes'
    BY DEF LoopTypes
  <2>2. ApiTypes'
    BY DEF TypeOK, ApiTypes
  <2>3. GraphTypes'
    BY DEF TypeOK, GraphTypes
  <2>4. ChannelTypes'
    BY DEF TypeOK, ApiTypes, ChannelTypes
  <2>5. QED
    BY <2>1, <2>2, <2>3, <2>4 DEF TypeOK
<1>2. RecordingOwnsHardware'
  BY InputsAssumption DEF RecordingOwnsHardware, TypeOK, GraphTypes
<1>3. OpenFileHasOwner'
  BY DEF OpenFileHasOwner
<1>4. TickReconciles'
  BY DEF TickReconciles
<1>5. CameraAndPlaybackExclude'
  BY DEF CameraAndPlaybackExclude
<1>6. RunningIsLiveUnlessLeaked'
  BY DEF RunningIsLiveUnlessLeaked
<1>7. HardwareBelongsToGraph'
  BY DEF HardwareBelongsToGraph
<1>8. QED
  BY <1>1, <1>2, <1>3, <1>4, <1>5, <1>6, <1>7

(* target_recording(start), failing half way.                              *)
LEMMA RecordingStartFailsInv ==
  ASSUME Inv, RecordingStartFails
  PROVE  Inv'
<1> USE DEF RecordingStartFails, RecordingStartAllowed, CanActivate,
            AvsStarted, Channel, Answer, StartAudio, Inv
<1>1. TypeOK'
  <2>1. LoopTypes'
    BY DEF LoopTypes
  <2>2. ApiTypes'
    BY DEF TypeOK, ApiTypes
  <2>3. GraphTypes'
    BY DEF TypeOK, GraphTypes
  <2>4. ChannelTypes'
    BY DEF TypeOK, ApiTypes, ChannelTypes
  <2>5. QED
    BY <2>1, <2>2, <2>3, <2>4 DEF TypeOK
<1>2. RecordingOwnsHardware'
  BY DEF RecordingOwnsHardware
<1>3. OpenFileHasOwner'
  BY DEF OpenFileHasOwner
<1>4. TickReconciles'
  BY DEF TickReconciles
<1>5. CameraAndPlaybackExclude'
  BY DEF CameraAndPlaybackExclude
<1>6. RunningIsLiveUnlessLeaked'
  BY DEF RunningIsLiveUnlessLeaked
<1>7. HardwareBelongsToGraph'
  BY DEF HardwareBelongsToGraph
<1>8. QED
  BY <1>1, <1>2, <1>3, <1>4, <1>5, <1>6, <1>7

(* target_playback(start), (open) and (close).                             *)
LEMMA PlaybackStartInv ==
  ASSUME Inv, PlaybackStart \/ PlaybackMedia
  PROVE  Inv'
<1> USE DEF PlaybackStart, PlaybackMedia, Answer, StopGraph, GraphStopped,
            Inv
<1>1. TypeOK'
  <2>1. LoopTypes'
    BY DEF LoopTypes
  <2>2. ApiTypes'
    BY DEF TypeOK, ApiTypes
  <2>3. GraphTypes'
    BY DEF TypeOK, GraphTypes
  <2>4. ChannelTypes'
    BY ConstantFacts DEF TypeOK, ChannelTypes
  <2>5. QED
    BY <2>1, <2>2, <2>3, <2>4 DEF TypeOK
<1>2. RecordingOwnsHardware'
  BY DEF RecordingOwnsHardware
<1>3. OpenFileHasOwner'
  BY DEF OpenFileHasOwner
<1>4. TickReconciles'
  BY DEF TickReconciles
<1>5. CameraAndPlaybackExclude'
  BY DEF CameraAndPlaybackExclude
<1>6. RunningIsLiveUnlessLeaked'
  BY DEF RunningIsLiveUnlessLeaked
<1>7. HardwareBelongsToGraph'
  BY DEF HardwareBelongsToGraph
<1>8. QED
  BY <1>1, <1>2, <1>3, <1>4, <1>5, <1>6, <1>7

(* target_playback(stop): a graph started over a running one is marked as  *)
(* leaked, which is what RunningIsLiveUnlessLeaked excepts.                *)
LEMMA PlaybackStopInv ==
  ASSUME Inv, PlaybackStop
  PROVE  Inv'
<1> USE DEF PlaybackStop, Answer, GraphRestored, GraphFailed, GraphFresh,
            GraphStopped, Inv
<1>1. TypeOK'
  <2>1. LoopTypes'
    BY DEF LoopTypes
  <2>2. ApiTypes'
    BY DEF TypeOK, ApiTypes
  <2>3. GraphTypes'
    BY ConstantFacts DEF TypeOK, ApiTypes, GraphTypes
  <2>4. ChannelTypes'
    BY ConstantFacts DEF TypeOK, ChannelTypes
  <2>5. QED
    BY <2>1, <2>2, <2>3, <2>4 DEF TypeOK
<1>2. RecordingOwnsHardware'
  BY DEF RecordingOwnsHardware
<1>3. OpenFileHasOwner'
  BY DEF OpenFileHasOwner
<1>4. TickReconciles'
  BY DEF TickReconciles
<1>5. CameraAndPlaybackExclude'
  BY DEF CameraAndPlaybackExclude
<1>6. RunningIsLiveUnlessLeaked'
  <2>1. \/ ~cameraRunning' \/ graphStarted'
        \/ /\ cameraRunning' = cameraRunning
           /\ graphLeaked' = graphLeaked /\ graphStarted' = graphStarted
        \/ /\ cameraRunning' = cameraRunning
           /\ graphLeaked' = (graphLeaked \/ graphStarted)
    OBVIOUS
  <2> HIDE DEF PlaybackStop
  <2>2. QED
    BY <2>1 DEF RunningIsLiveUnlessLeaked
<1>7. HardwareBelongsToGraph'
  BY DEF HardwareBelongsToGraph
<1>8. QED
  BY <1>1, <1>2, <1>3, <1>4, <1>5, <1>6, <1>7

(* target_set_encoder.                                                     *)
LEMMA SetEncoderInv ==
  ASSUME NEW e \in Encoders, Inv, SetEncoder(e)
  PROVE  Inv'
<1> USE DEF SetEncoder, AvsStarted, Answer, Inv
<1>1. TypeOK'
  <2>1. LoopTypes'
    BY DEF LoopTypes
  <2>2. ApiTypes'
    BY DEF TypeOK, ApiTypes
  <2>3. GraphTypes'
    BY DEF TypeOK, GraphTypes
  <2>4. ChannelTypes'
    BY ConstantFacts DEF TypeOK, ChannelTypes
  <2>5. QED
    BY <2>1, <2>2, <2>3, <2>4 DEF TypeOK
<1>2. RecordingOwnsHardware'
  BY DEF RecordingOwnsHardware, OpenFileHasOwner
<1>3. OpenFileHasOwner'
  BY DEF OpenFileHasOwner
<1>4. TickReconciles'
  BY DEF TickReconciles
<1>5. CameraAndPlaybackExclude'
  BY DEF CameraAndPlaybackExclude
<1>6. RunningIsLiveUnlessLeaked'
  BY DEF RunningIsLiveUnlessLeaked
<1>7. HardwareBelongsToGraph'
  BY DEF HardwareBelongsToGraph
<1>8. QED
  BY <1>1, <1>2, <1>3, <1>4, <1>5, <1>6, <1>7

(* target_set_audio.                                                       *)
LEMMA SetAudioInv ==
  ASSUME NEW input \in Inputs, NEW automatic \in BOOLEAN, Inv,
         SetAudio(input, automatic)
  PROVE  Inv'
<1> USE DEF SetAudio, Answer, Inv
<1>1. TypeOK'
  <2>1. LoopTypes'
    BY DEF LoopTypes
  <2>2. ApiTypes'
    BY DEF TypeOK, ApiTypes
  <2>3. GraphTypes'
    BY DEF TypeOK, GraphTypes
  <2>4. ChannelTypes'
    BY DEF TypeOK, ChannelTypes
  <2>5. QED
    BY <2>1, <2>2, <2>3, <2>4 DEF TypeOK
<1>2. RecordingOwnsHardware'
  BY DEF RecordingOwnsHardware
<1>3. OpenFileHasOwner'
  BY DEF OpenFileHasOwner
<1>4. TickReconciles'
  BY DEF TickReconciles
<1>5. CameraAndPlaybackExclude'
  BY DEF CameraAndPlaybackExclude
<1>6. RunningIsLiveUnlessLeaked'
  BY DEF RunningIsLiveUnlessLeaked
<1>7. HardwareBelongsToGraph'
  BY DEF HardwareBelongsToGraph
<1>8. QED
  BY <1>1, <1>2, <1>3, <1>4, <1>5, <1>6, <1>7

(* target_stop.                                                            *)
LEMMA TargetStopInv ==
  ASSUME Inv, TargetStop
  PROVE  Inv'
<1> USE DEF TargetStop, StopGraph, GraphStopped, Inv
<1>1. TypeOK'
  <2>1. LoopTypes'
    <3>1. fate' \in Fates
      <4>1. \A e \in Endings(Channel) : e.fate \in Fates
        BY DEF Endings, RecordingEnds
      <4>2. QED
        BY <4>1, FinishEnds
    <3>2. QED
      BY <3>1 DEF TypeOK, LoopTypes
  <2>2. ApiTypes'
    BY DEF TypeOK, ApiTypes
  <2>3. GraphTypes'
    BY DEF TypeOK, GraphTypes
  <2>4. ChannelTypes'
    BY ConstantFacts DEF TypeOK, ChannelTypes
  <2>5. QED
    BY <2>1, <2>2, <2>3, <2>4 DEF TypeOK
<1>2. RecordingOwnsHardware'
  BY DEF RecordingOwnsHardware
<1>3. OpenFileHasOwner'
  BY DEF OpenFileHasOwner
<1>4. TickReconciles'
  BY DEF TickReconciles
<1>5. CameraAndPlaybackExclude'
  BY DEF CameraAndPlaybackExclude
<1>6. RunningIsLiveUnlessLeaked'
  BY DEF RunningIsLiveUnlessLeaked
<1>7. HardwareBelongsToGraph'
  BY DEF HardwareBelongsToGraph
<1>8. QED
  BY <1>1, <1>2, <1>3, <1>4, <1>5, <1>6, <1>7

(* target_start of the next process.                                       *)
LEMMA TargetStartInv ==
  ASSUME Inv, TargetStart
  PROVE  Inv'
<1> USE DEF TargetStart, Inv
<1>1. TypeOK'
  <2>1. LoopTypes'
    BY DEF LoopTypes
  <2>2. ApiTypes'
    BY ConstantFacts DEF ApiTypes
  <2>3. GraphTypes'
    BY DEF GraphTypes
  <2>4. ChannelTypes'
    BY ConstantFacts DEF ChannelTypes
  <2>5. QED
    BY <2>1, <2>2, <2>3, <2>4 DEF TypeOK
<1>2. RecordingOwnsHardware'
  BY DEF RecordingOwnsHardware
<1>3. OpenFileHasOwner'
  BY DEF OpenFileHasOwner
<1>4. TickReconciles'
  BY DEF TickReconciles
<1>5. CameraAndPlaybackExclude'
  BY DEF CameraAndPlaybackExclude
<1>6. RunningIsLiveUnlessLeaked'
  BY DEF RunningIsLiveUnlessLeaked
<1>7. HardwareBelongsToGraph'
  BY DEF HardwareBelongsToGraph
<1>8. QED
  BY <1>1, <1>2, <1>3, <1>4, <1>5, <1>6, <1>7

(* What a handler may have done to the channel when it returns: as Ticked, *)
(* except that a started graph may have warmed it.                         *)
Handled(d) ==
  /\ d \in Channels
  /\ d.rec = (d.clip # "none")
  /\ d.rec => graphRecording /\ d.warm = recordEncoder
  /\ graphRecording /\ ~d.rec => d.failed
  /\ recordingFailed => d.failed
  /\ validation # "pending" => d.val = validation
  /\ ~graphStarted => d.warm = NoEncoder /\ d.val = "idle"

(* Ticking alone is handling.                                              *)
LEMMA TickedHandled ==
  ASSUME Inv, NEW c, Ticked(c)
  PROVE  Handled(c)
BY DEF Ticked, Handled, Inv, HardwareBelongsToGraph

(* Warming the channel is handling too, when nothing is recorded.          *)
LEMMA ActivatedHandled ==
  ASSUME Inv, NEW c, Ticked(c), CanActivate(c), ~recording
  PROVE  Handled([c EXCEPT !.warm = encoder])
<1>1. graphStarted /\ ~c.rec /\ encoder \in Encoders
  BY DEF CanActivate, AvsStarted, Ticked, Inv, OpenFileHasOwner, TypeOK,
         ApiTypes
<1>2. QED
  BY <1>1 DEF Ticked, Handled, Channels

(* A handler that ticked the graph and left everything but the channel,    *)
(* the image state and the stacked frame alone preserves Inv.              *)
LEMMA HandledInv ==
  ASSUME Inv, NEW d, Handled(d), SetChannel(d),
         up' = up, turn' = "tick", reply' \in Replies, fate' \in Fates,
         transientValid' \in BOOLEAN, imageDirty' \in BOOLEAN,
         stackedFrame' \in BOOLEAN,
         UNCHANGED <<modeVars, recordVars, playbackVars, encoderVars,
                     audioVars, graphStarted, graphLeaked, audioDevice,
                     graphAudioInput>>
  PROVE  Inv'
<1> USE DEF Inv, SetChannel
<1>1. TypeOK'
  <2>1. LoopTypes'
    BY DEF TypeOK, LoopTypes
  <2>2. ApiTypes'
    BY DEF TypeOK, ApiTypes
  <2>3. GraphTypes'
    BY DEF TypeOK, GraphTypes
  <2>4. ChannelTypes'
    BY DEF Handled, Channels, ChannelTypes
  <2>5. QED
    BY <2>1, <2>2, <2>3, <2>4 DEF TypeOK
<1>2. RecordingOwnsHardware'
  BY DEF RecordingOwnsHardware, Handled
<1>3. OpenFileHasOwner'
  BY DEF OpenFileHasOwner, Handled
<1>4. TickReconciles'
  BY DEF TickReconciles
<1>5. CameraAndPlaybackExclude'
  BY DEF CameraAndPlaybackExclude
<1>6. RunningIsLiveUnlessLeaked'
  BY DEF RunningIsLiveUnlessLeaked
<1>7. HardwareBelongsToGraph'
  BY DEF HardwareBelongsToGraph, Handled
<1>8. QED
  BY <1>1, <1>2, <1>3, <1>4, <1>5, <1>6, <1>7

(* An aborted file is the only frame loss of a handler.                    *)
LEMMA ClipFateIsFate ==
  ASSUME NEW c
  PROVE  ClipFate(c) \in Fates
BY DEF ClipFate, DropFate

(* target_set_image and target_night_preview.                              *)
LEMMA ImageInv ==
  ASSUME Inv, SetImage \/ NightPreview
  PROVE  Inv'
<1>1. CASE SetImage
  <2>1. CASE UNCHANGED channelVars /\ transientValid' = FALSE
             /\ imageDirty' = TRUE /\ Answer("ok") /\ fate' = "none"
    <3>1. Handled(Channel)
      <4>1. Channel \in GraphTicksInHandler
        BY DEF GraphTicksInHandler
      <4>2. QED
        BY <4>1, HandlerTicksTick, TickedHandled
    <3>2. SetChannel(Channel)
      BY <2>1 DEF SetChannel, Channel
    <3>3. QED
      BY <1>1, <2>1, <3>1, <3>2, HandledInv
         DEF SetImage, Answer, Inv, TypeOK, GraphTypes
  <2>2. ASSUME NEW c \in GraphTicksInHandler, SetChannel(c),
               fate' = ClipFate(c),
               \/ Answer("ok") /\ transientValid' = TRUE
               \/ Answer("error") /\ transientValid' \in {transientValid, TRUE},
               UNCHANGED imageDirty
        PROVE  Inv'
    <3>1. Handled(c)
      BY HandlerTicksTick, TickedHandled
    <3>2. QED
      BY <1>1, <2>2, <3>1, ClipFateIsFate, HandledInv
         DEF SetImage, Answer, Inv, TypeOK, GraphTypes, ApiTypes
  <2>3. QED
    BY <1>1, <2>1, <2>2 DEF SetImage
<1>2. CASE NightPreview
  <2>1. PICK c \in GraphTicksInHandler :
          /\ SetChannel(c)
          /\ fate' = ClipFate(c)
          /\ \/ Answer("ok") /\ transientValid' \in BOOLEAN
             \/ Answer("error") /\ UNCHANGED transientValid
    BY <1>2 DEF NightPreview
  <2>2. Handled(c)
    BY HandlerTicksTick, TickedHandled
  <2>3. QED
    BY <1>2, <2>1, <2>2, ClipFateIsFate, HandledInv
       DEF NightPreview, Answer, Inv, TypeOK, GraphTypes, ApiTypes
<1>3. QED
  BY <1>1, <1>2

(* target_snapshot with the live graph only.                               *)
LEMMA SnapshotLiveInv ==
  ASSUME Inv, Snapshot, SnapshotFails \/ SnapshotWritten
  PROVE  Inv'
<1>1. PICK c \in GraphTicksInHandler :
        /\ fate' = ClipFate(c)
        /\ \/ SetChannel(c)
           \/ CanActivate(c) /\ SetChannel([c EXCEPT !.warm = encoder])
  BY DEF SnapshotFails, SnapshotWritten
<1>2. PICK d : Handled(d) /\ SetChannel(d)
  <2>1. Ticked(c)
    BY HandlerTicksTick
  <2>2. QED
    BY <1>1, <2>1, TickedHandled, ActivatedHandled DEF Snapshot
<1>3. /\ up' = up /\ turn' = "tick" /\ reply' \in Replies
      /\ stackedFrame' \in BOOLEAN
      /\ UNCHANGED <<modeVars, graphStarted, graphLeaked, audioDevice,
                     graphAudioInput>>
  BY DEF SnapshotFails, SnapshotWritten, Answer, Inv, TypeOK, GraphTypes
<1>4. /\ transientValid' \in BOOLEAN /\ imageDirty' \in BOOLEAN
      /\ UNCHANGED <<recordVars, playbackVars, encoderVars, audioVars>>
  BY DEF Snapshot, Inv, TypeOK, ApiTypes
<1>5. QED
  BY <1>1, <1>2, <1>3, <1>4, ClipFateIsFate, HandledInv

(* target_snapshot with the offline graph: the live graph is stopped and   *)
(* started again, or stays stopped and is reported stopped.                *)
LEMMA SnapshotOfflineInv ==
  ASSUME Inv, Snapshot, SnapshotOffline
  PROVE  Inv'
<1>1. /\ up /\ up' = up /\ turn' = "tick" /\ reply' \in Replies
      /\ ~recording /\ ~playback /\ cameraMode' = cameraMode
      /\ UNCHANGED <<recordVars, playbackVars, encoderVars, audioVars,
                     imageVars>>
  BY DEF Snapshot, SnapshotOffline, Answer
<1>2. fate' \in Fates
  BY ClipFateIsFate DEF SnapshotOffline
<1>3. \/ GraphRestored(FALSE) /\ cameraRunning' = TRUE
      \/ GraphFailed(FALSE) /\ cameraRunning' = FALSE
  BY DEF SnapshotOffline
<1> USE <1>1, <1>3 DEF Inv, GraphRestored, GraphFailed, GraphFresh,
                       GraphStopped
<1>4. TypeOK'
  <2>1. LoopTypes'
    BY <1>2 DEF TypeOK, LoopTypes
  <2>2. ApiTypes'
    BY DEF TypeOK, ApiTypes
  <2>3. GraphTypes'
    BY ConstantFacts DEF TypeOK, GraphTypes, ApiTypes
  <2>4. ChannelTypes'
    BY ConstantFacts DEF ChannelTypes
  <2>5. QED
    BY <2>1, <2>2, <2>3, <2>4 DEF TypeOK
<1>5. RecordingOwnsHardware'
  BY DEF RecordingOwnsHardware
<1>6. OpenFileHasOwner'
  BY DEF OpenFileHasOwner
<1>7. TickReconciles'
  BY DEF TickReconciles
<1>8. CameraAndPlaybackExclude'
  BY DEF CameraAndPlaybackExclude
<1>9. RunningIsLiveUnlessLeaked'
  BY DEF RunningIsLiveUnlessLeaked
<1>10. HardwareBelongsToGraph'
  BY DEF HardwareBelongsToGraph
<1>11. QED
  BY <1>4, <1>5, <1>6, <1>7, <1>8, <1>9, <1>10

(* target_recording(stop): whatever target_finish_recording returns, the   *)
(* writer and the file are gone.                                           *)
LEMMA RecordingStopInv ==
  ASSUME Inv, RecordingStop
  PROVE  Inv'
<1>1. PICK f \in FinishResults(Channel) :
        /\ Answer(IF f.ok THEN "recordStopped" ELSE "error")
        /\ SetChannel(f.end.channel)
        /\ fate' = f.end.fate
  BY DEF RecordingStop
<1>2. f.end \in Endings(Channel)
  BY FinishEnds
<1>3. /\ graphRecording' = FALSE /\ clip' = "none"
      /\ recordingFailed' \in BOOLEAN /\ recordEncoder' = recordEncoder
      /\ validation' = validation /\ validationPolls' = validationPolls
      /\ fate' \in Fates
  <2>1. PICK g \in Fates, b \in BOOLEAN :
          f.end = RecordingEnds(Channel, g, b, FALSE)
    BY <1>2 DEF Endings
  <2>2. /\ f.end.fate = g
        /\ f.end.channel = [Channel EXCEPT !.rec = FALSE, !.clip = "none",
                                           !.failed = @ \/ b]
    BY <2>1 DEF RecordingEnds
  <2>3. QED
    BY <1>1, <2>2 DEF SetChannel, Channel, Inv, TypeOK, ChannelTypes
<1>4. /\ up' = up /\ turn' = "tick" /\ reply' \in Replies
      /\ recording' = FALSE /\ splitting' = FALSE
      /\ UNCHANGED <<modeVars, playbackVars, encoderVars, audioVars,
                     imageVars, graphStarted, graphLeaked, audioDevice,
                     graphAudioInput, stackedFrame>>
  BY <1>1 DEF RecordingStop, Answer
<1> USE <1>3, <1>4 DEF Inv
<1>5. TypeOK'
  <2>1. LoopTypes'
    BY DEF TypeOK, LoopTypes
  <2>2. ApiTypes'
    BY DEF TypeOK, ApiTypes
  <2>3. GraphTypes'
    BY DEF TypeOK, GraphTypes
  <2>4. ChannelTypes'
    BY DEF TypeOK, ChannelTypes
  <2>5. QED
    BY <2>1, <2>2, <2>3, <2>4 DEF TypeOK
<1>6. RecordingOwnsHardware'
  BY DEF RecordingOwnsHardware
<1>7. OpenFileHasOwner'
  BY DEF OpenFileHasOwner
<1>8. TickReconciles'
  BY DEF TickReconciles
<1>9. CameraAndPlaybackExclude'
  BY DEF CameraAndPlaybackExclude
<1>10. RunningIsLiveUnlessLeaked'
  BY DEF RunningIsLiveUnlessLeaked
<1>11. HardwareBelongsToGraph'
  BY DEF HardwareBelongsToGraph
<1>12. QED
  BY <1>5, <1>6, <1>7, <1>8, <1>9, <1>10, <1>11

(* target_tick.                                                            *)
LEMMA TickInv ==
  ASSUME Inv, Tick
  PROVE  Inv'
<1>1. /\ up /\ up' = up /\ turn' = "serve" /\ reply' = "none"
      /\ UNCHANGED <<modeVars, playbackVars, imageVars, graphStarted,
                     graphLeaked, audioDevice, stackedFrame, audioAuto>>
  BY DEF Tick, DetectAudio
<1>2. /\ audioInput' \in Inputs /\ graphAudioInput' \in Inputs
      /\ graphStarted => graphAudioInput' = audioInput'
  BY DEF Tick, DetectAudio, Inv, TypeOK, ApiTypes, GraphTypes,
         CameraAndPlaybackExclude
<1>3. /\ GraphTypes'
      /\ CameraAndPlaybackExclude'
      /\ RunningIsLiveUnlessLeaked'
  <2>1. GraphTypes'
    BY <1>1, <1>2 DEF Inv, TypeOK, GraphTypes
  <2>2. CameraAndPlaybackExclude'
    BY <1>1, <1>2 DEF Inv, CameraAndPlaybackExclude
  <2>3. RunningIsLiveUnlessLeaked'
    BY <1>1 DEF Inv, RunningIsLiveUnlessLeaked
  <2>4. QED
    BY <2>1, <2>2, <2>3
<1>4. CASE PlaybackTickFails
  <2>1. ~recording /\ ~graphStarted /\ validation = "idle"
    BY <1>1, <1>4 DEF PlaybackTickFails, Inv, CameraAndPlaybackExclude,
                      RecordingOwnsHardware, HardwareBelongsToGraph
  <2>2. UNCHANGED <<recordVars, encoderVars, channelVars>> /\ fate' = "none"
    BY <1>4 DEF PlaybackTickFails
  <2>3. TypeOK'
    <3>1. LoopTypes'
      BY <1>1, <2>2 DEF Inv, TypeOK, LoopTypes
    <3>2. ApiTypes'
      BY <1>1, <1>2, <2>2 DEF Inv, TypeOK, ApiTypes
    <3>3. ChannelTypes'
      BY <2>2 DEF Inv, TypeOK, ChannelTypes
    <3>4. QED
      BY <1>3, <3>1, <3>2, <3>3 DEF TypeOK
  <2>4. RecordingOwnsHardware'
    BY <1>1, <2>1, <2>2 DEF Inv, RecordingOwnsHardware
  <2>5. OpenFileHasOwner'
    BY <2>2 DEF Inv, OpenFileHasOwner
  <2>6. TickReconciles'
    BY <2>1, <2>2 DEF TickReconciles
  <2>7. HardwareBelongsToGraph'
    BY <1>1, <2>2 DEF Inv, HardwareBelongsToGraph
  <2>8. QED
    BY <1>3, <2>3, <2>4, <2>5, <2>6, <2>7 DEF Inv
<1>5. CASE TickGraph
  <2>1. PICK c \in GraphTick : \E r \in RecordingTick(c) :
          /\ SetChannel(r.channel)
          /\ fate' = r.fate
          /\ recording' = r.on
          /\ splitting' = (r.on /\ splitting)
          /\ IF r.early THEN UNCHANGED encoderVars
                        ELSE ResolveEncoder(r.channel)
    BY <1>5 DEF TickGraph
  <2>2. PICK r \in RecordingTick(c) :
          /\ SetChannel(r.channel)
          /\ fate' = r.fate
          /\ recording' = r.on
          /\ splitting' = (r.on /\ splitting)
          /\ IF r.early THEN UNCHANGED encoderVars
                        ELSE ResolveEncoder(r.channel)
    BY <2>1
  <2>3. Ticked(c) /\ Recorded(r, c)
    BY GraphTickTicks, RecordingTickRecords
  <2>4. /\ recording' \in BOOLEAN /\ splitting' \in BOOLEAN /\ fate' \in Fates
        /\ recording' => recording /\ graphRecording'
        /\ graphRecording' => /\ recording' /\ graphRecording
                              /\ recordEncoder' = recordEncoder
        /\ (clip' # "none") = graphRecording'
        /\ recordEncoder' \in {recordEncoder, NoEncoder}
        /\ validation # "pending" => validation' = validation
    BY <2>2, <2>3 DEF Recorded, Outcomes, Ticked, SetChannel, Inv, TypeOK,
                      ApiTypes
  <2>5. /\ encoderPrevious' = encoderPrevious
        /\ encoder' \in {encoder, encoderPrevious}
        /\ encoderUpdatePending' \in BOOLEAN
        /\ ~encoderUpdatePending => /\ encoder' = encoder
                                    /\ ~encoderUpdatePending'
        /\ encoderUpdatePending' => validation' \notin {"complete", "failed"}
    <3>1. CASE r.early
      BY <2>2, <2>3, <3>1 DEF Recorded, Inv, RecordingOwnsHardware, TypeOK,
                              ApiTypes
    <3>2. CASE ~r.early
      BY <2>2, <2>3, <3>2 DEF ResolveEncoder, SetChannel
    <3>3. QED
      BY <3>1, <3>2
  <2>6. TypeOK'
    <3>1. LoopTypes'
      BY <1>1, <2>4 DEF Inv, TypeOK, LoopTypes
    <3>2. ApiTypes'
      BY <1>1, <1>2, <2>4, <2>5 DEF Inv, TypeOK, ApiTypes
    <3>3. ChannelTypes'
      BY <2>2, <2>3 DEF SetChannel, Recorded, Outcomes, Channels, ChannelTypes
    <3>4. QED
      BY <1>3, <3>1, <3>2, <3>3 DEF TypeOK
  <2>7. RecordingOwnsHardware'
    BY <1>1, <2>4, <2>5 DEF Inv, RecordingOwnsHardware
  <2>8. OpenFileHasOwner'
    BY <2>4 DEF OpenFileHasOwner
  <2>9. TickReconciles'
    BY <2>4, <2>5 DEF TickReconciles
  <2>10. HardwareBelongsToGraph'
    BY <1>1, <2>4 DEF Inv, HardwareBelongsToGraph, OpenFileHasOwner
  <2>11. QED
    BY <1>3, <2>6, <2>7, <2>8, <2>9, <2>10 DEF Inv
<1>6. QED
  BY <1>4, <1>5 DEF Tick

(* Nothing happens.                                                        *)
LEMMA StutterInv == Inv /\ UNCHANGED vars => Inv'
<1> SUFFICES ASSUME Inv, UNCHANGED vars
             PROVE  Inv'
  OBVIOUS
<1> USE DEF vars, Inv
<1>1. TypeOK'
  <2>1. LoopTypes'
    BY DEF TypeOK, LoopTypes
  <2>2. ApiTypes'
    BY DEF TypeOK, ApiTypes
  <2>3. GraphTypes'
    BY DEF TypeOK, GraphTypes
  <2>4. ChannelTypes'
    BY DEF TypeOK, ChannelTypes
  <2>5. QED
    BY <2>1, <2>2, <2>3, <2>4 DEF TypeOK
<1>2. RecordingOwnsHardware'
  BY DEF RecordingOwnsHardware
<1>3. OpenFileHasOwner'
  BY DEF OpenFileHasOwner
<1>4. TickReconciles'
  BY DEF TickReconciles
<1>5. CameraAndPlaybackExclude'
  BY DEF CameraAndPlaybackExclude
<1>6. RunningIsLiveUnlessLeaked'
  BY DEF RunningIsLiveUnlessLeaked
<1>7. HardwareBelongsToGraph'
  BY DEF HardwareBelongsToGraph
<1>8. QED
  BY <1>1, <1>2, <1>3, <1>4, <1>5, <1>6, <1>7

(* Every step of the backend preserves Inv.                                *)
LEMMA NextInv == Inv /\ [Next]_vars => Inv'
<1> SUFFICES ASSUME Inv, [Next]_vars
             PROVE  Inv'
  OBVIOUS
<1>1. CASE Tick
  BY <1>1, TickInv
<1>2. CASE Idle
  BY <1>2, IdleInv
<1>3. CASE Request
  <2>1. CASE Refused \/ CameraStartSame
    BY <2>1, IdleInv
  <2>2. CASE CameraStop
    BY <2>2, CameraStopInv
  <2>3. ASSUME NEW mode \in Modes, CameraStart(mode) PROVE Inv'
    BY <2>3, CameraStartInv
  <2>4. CASE SetImage \/ NightPreview
    BY <2>4, ImageInv
  <2>5. CASE Snapshot
    BY <2>5, SnapshotLiveInv, SnapshotOfflineInv DEF Snapshot
  <2>6. ASSUME NEW split \in BOOLEAN, RecordingStart(split) PROVE Inv'
    BY <2>6, RecordingStartInv
  <2>7. CASE RecordingStartFails
    BY <2>7, RecordingStartFailsInv
  <2>8. CASE RecordingStop
    BY <2>8, RecordingStopInv
  <2>9. CASE PlaybackStart \/ PlaybackMedia
    BY <2>9, PlaybackStartInv
  <2>10. CASE PlaybackStop
    BY <2>10, PlaybackStopInv
  <2>11. ASSUME NEW e \in Encoders, SetEncoder(e) PROVE Inv'
    BY <2>11, SetEncoderInv
  <2>12. ASSUME NEW input \in Inputs, NEW automatic \in BOOLEAN,
                SetAudio(input, automatic)
         PROVE  Inv'
    BY <2>12, SetAudioInv
  <2>13. QED
    BY <1>3, <2>1, <2>2, <2>3, <2>4, <2>5, <2>6, <2>7, <2>8, <2>9, <2>10,
       <2>11, <2>12 DEF Request
<1>4. CASE TargetStop
  BY <1>4, TargetStopInv
<1>5. CASE TargetStart
  BY <1>5, TargetStartInv
<1>6. CASE UNCHANGED vars
  BY <1>6, StutterInv
<1>7. QED
  BY <1>1, <1>2, <1>3, <1>4, <1>5, <1>6 DEF Next

-----------------------------------------------------------------------------
(* Inv is an invariant of the backend.                                     *)
THEOREM BackendInvariant == Spec => []Inv
<1>1. QED
  BY InitInv, NextInv, PTL DEF Spec

(* Type correctness.                                                       *)
THEOREM BackendTypeOK == Spec => []TypeOK
<1>1. Inv => TypeOK
  BY DEF Inv
<1>2. QED
  BY BackendInvariant, <1>1, PTL

(* A recording owns the hardware: no handler stops the graph, retires the  *)
(* channel or changes the encoder under it.                                *)
THEOREM RecordingOwnsHardwareHolds == Spec => []RecordingOwnsHardware
<1>1. Inv => RecordingOwnsHardware
  BY DEF Inv
<1>2. QED
  BY BackendInvariant, <1>1, PTL

(* An open recording file always has a writer, and a writer always has a   *)
(* recording that will finish or unlink its file.                          *)
THEOREM OpenFileHasOwnerHolds == Spec => []OpenFileHasOwner
<1>1. Inv => OpenFileHasOwner
  BY DEF Inv
<1>2. QED
  BY BackendInvariant, <1>1, PTL

(* No request meets a dead recording or an encoder verdict not acted upon. *)
THEOREM TickReconcilesHolds == Spec => []TickReconciles
<1>1. Inv => TickReconciles
  BY DEF Inv
<1>2. QED
  BY BackendInvariant, <1>1, PTL

(* Camera and playback exclude each other, and the restore is remembered.  *)
THEOREM CameraAndPlaybackExcludeHolds == Spec => []CameraAndPlaybackExclude
<1>1. Inv => CameraAndPlaybackExclude
  BY DEF Inv
<1>2. QED
  BY BackendInvariant, <1>1, PTL

(* A running camera is live unless a graph was started over another.       *)
THEOREM RunningIsLiveUnlessLeakedHolds == Spec => []RunningIsLiveUnlessLeaked
<1>1. Inv => RunningIsLiveUnlessLeaked
  BY DEF Inv
<1>2. QED
  BY BackendInvariant, <1>1, PTL

-----------------------------------------------------------------------------
(* The audio device that is open, during a recording or between two of     *)
(* them, belongs to the input the API reports: neither a request nor the   *)
(* detection changes the input under it, a stop of the graph closes it,    *)
(* and a recording opens it for the input of a graph that is started.      *)
THEOREM OpenDeviceIsReportedHolds == Spec => []OpenDeviceIsReported
<1>1. Init => OpenDeviceIsReported
  BY DEF Init, Started, OpenDeviceIsReported
<1>2. ASSUME Inv, OpenDeviceIsReported, [Next]_vars
      PROVE  OpenDeviceIsReported'
  <2> USE <1>2 DEF OpenDeviceIsReported
  <2>1. CASE Tick
    BY <2>1 DEF Tick, DetectAudio
  <2>2. CASE Idle \/ Refused \/ CameraStartSame \/ SetImage \/ NightPreview
             \/ RecordingStop \/ PlaybackMedia \/ \E e \in Encoders : SetEncoder(e)
    BY <2>2 DEF Idle, Refused, CameraStartSame, SetImage, NightPreview,
                RecordingStop, PlaybackMedia, SetEncoder
  <2>3. CASE \/ CameraStop \/ PlaybackStart \/ TargetStop \/ TargetStart
             \/ \E mode \in Modes : CameraStart(mode)
    BY <2>3 DEF CameraStop, PlaybackStart, TargetStop, TargetStart, CameraStart,
                StopGraph, GraphStopped, GraphFailed, GraphRestored
  <2>4. CASE PlaybackStop
    BY <2>4 DEF PlaybackStop, GraphRestored, GraphFailed, GraphStopped
  <2>5. CASE Snapshot
    BY <2>5 DEF Snapshot, SnapshotFails, SnapshotWritten, SnapshotOffline,
                GraphRestored, GraphFailed, GraphStopped
  <2>6. CASE RecordingStartFails \/ \E split \in BOOLEAN : RecordingStart(split)
    <3>1. graphAudioInput = audioInput
      BY <2>6 DEF RecordingStart, RecordingStartFails, CanActivate, AvsStarted,
                  Inv, CameraAndPlaybackExclude
    <3>2. audioInput' = audioInput
      BY <2>6 DEF RecordingStart, RecordingStartFails
    <3>3. audioDevice' = audioDevice \/ StartAudio
      BY <2>6 DEF RecordingStart, RecordingStartFails
    <3>4. QED
      BY <3>1, <3>2, <3>3 DEF StartAudio
  <2>7. ASSUME NEW input \in Inputs, NEW automatic \in BOOLEAN,
               SetAudio(input, automatic)
        PROVE  OpenDeviceIsReported'
    BY <2>7 DEF SetAudio
  <2>8. CASE UNCHANGED vars
    BY <2>8 DEF vars
  <2>9. QED
    BY <2>1, <2>2, <2>3, <2>4, <2>5, <2>6, <2>7, <2>8 DEF Next, Request
<1>3. QED
  BY BackendInvariant, <1>1, <1>2, PTL DEF Spec

-----------------------------------------------------------------------------
(* Action properties.                                                      *)

(* A recording stop answered as successful has published every recorded    *)
(* frame.                                                                  *)
THEOREM StopKeepsFramesHolds == Spec => StopKeepsFrames
<1> DEFINE Keeps ==
      clip = "frames" /\ reply' = "recordStopped" => fate' = "kept"
<1>1. ASSUME Next
      PROVE  Keeps
  <2>1. CASE RecordingStop
    <3>1. PICK f \in FinishResults(Channel) :
            /\ Answer(IF f.ok THEN "recordStopped" ELSE "error")
            /\ fate' = f.end.fate
      BY <2>1 DEF RecordingStop
    <3>2. clip = "frames" /\ f.ok => f.end.fate = "kept"
      BY DEF FinishResults, RecordingEnds, Channel
    <3>3. QED
      BY <3>1, <3>2 DEF Answer
  <2>2. CASE ~RecordingStop
    <3>1. reply' # "recordStopped"
      <4>1. CASE Tick \/ Idle \/ TargetStop \/ TargetStart
        BY <4>1 DEF Tick, Idle, TargetStop, TargetStart, Answer
      <4>2. CASE Request
        <5>1. CASE Snapshot
          BY <5>1 DEF Snapshot, SnapshotFails, SnapshotWritten,
                      SnapshotOffline, Answer
        <5>2. CASE PlaybackStart \/ PlaybackStop \/ PlaybackMedia
          BY <5>2 DEF PlaybackStart, PlaybackStop, PlaybackMedia, Answer
        <5>3. CASE SetImage \/ NightPreview
          BY <5>3 DEF SetImage, NightPreview, Answer
        <5>4. CASE \/ Refused \/ CameraStop \/ CameraStartSame
                   \/ \E mode \in Modes : CameraStart(mode)
          BY <5>4 DEF Refused, CameraStop, CameraStartSame, CameraStart, Answer
        <5>5. CASE \/ \E split \in BOOLEAN : RecordingStart(split)
                   \/ RecordingStartFails
                   \/ \E e \in Encoders : SetEncoder(e)
                   \/ \E input \in Inputs, automatic \in BOOLEAN :
                        SetAudio(input, automatic)
          BY <5>5 DEF RecordingStart, RecordingStartFails, SetEncoder,
                      SetAudio, Answer
        <5>6. QED
          BY <2>2, <4>2, <5>1, <5>2, <5>3, <5>4, <5>5 DEF Request
      <4>3. QED
        BY <1>1, <4>1, <4>2 DEF Next
    <3>2. QED
      BY <3>1
  <2>3. QED
    BY <2>1, <2>2
<1>2. [Next]_vars => [Keeps]_vars
  BY <1>1
<1>3. QED
  BY <1>2, PTL DEF Spec, StopKeepsFrames

(* A recording that goes on keeps its encoder, mode and audio input.       *)
THEOREM RecordingKeepsSettingsHolds == Spec => RecordingKeepsSettings
<1> DEFINE Keeps ==
      recording /\ recording' =>
        /\ encoder' = encoder /\ cameraMode' = cameraMode
        /\ audioInput' = audioInput
<1>1. ASSUME Inv, Next
      PROVE  Keeps
  <2>1. CASE Tick
    <3>1. cameraMode' = cameraMode /\ (recording => audioInput' = audioInput)
      BY <2>1 DEF Tick, DetectAudio
    <3>2. ~encoderUpdatePending => encoder' = encoder
      BY <2>1 DEF Tick, PlaybackTickFails, TickGraph, ResolveEncoder
    <3>3. QED
      BY <1>1, <3>1, <3>2 DEF Inv, RecordingOwnsHardware
  <2>2. CASE Idle \/ TargetStop \/ TargetStart
    BY <2>2 DEF Idle, TargetStop, TargetStart
  <2>3. CASE Request
    <3>1. CASE \/ Refused \/ CameraStop \/ CameraStartSame
               \/ SetImage \/ NightPreview \/ RecordingStartFails
               \/ PlaybackStart \/ PlaybackStop \/ PlaybackMedia
               \/ RecordingStop
      BY <3>1 DEF Refused, CameraStop, CameraStartSame, SetImage,
                  NightPreview, RecordingStartFails, PlaybackStart,
                  PlaybackStop, PlaybackMedia, RecordingStop
    <3>2. CASE \/ \E mode \in Modes : CameraStart(mode)
               \/ Snapshot
               \/ \E split \in BOOLEAN : RecordingStart(split)
               \/ \E e \in Encoders : SetEncoder(e)
      BY <3>2 DEF CameraStart, CameraModeAllowed, Snapshot, RecordingStart,
                  RecordingStartAllowed, SetEncoder
    <3>3. CASE \E input \in Inputs, automatic \in BOOLEAN :
                 SetAudio(input, automatic)
      BY <3>3 DEF SetAudio
    <3>4. QED
      BY <2>3, <3>1, <3>2, <3>3 DEF Request
  <2>4. QED
    BY <1>1, <2>1, <2>2, <2>3 DEF Next
<1>2. Inv /\ [Next]_vars => [Keeps]_vars
  BY <1>1
<1>3. QED
  BY BackendInvariant, <1>2, PTL DEF Spec, RecordingKeepsSettings

(* An encoder update of a running process ends with a verdict: the new     *)
(* encoder validated, or the previous one restored.                        *)
THEOREM UpdateEndsWithVerdictHolds == Spec => UpdateEndsWithVerdict
<1> DEFINE Ends ==
      encoderUpdatePending /\ ~encoderUpdatePending' /\ up' /\ up =>
        \/ validation' = "complete" /\ encoder' = encoder
        \/ validation' = "failed" /\ encoder' = encoderPrevious
<1>1. ASSUME Next
      PROVE  Ends
  <2>1. CASE Tick
    <3>1. CASE PlaybackTickFails
      BY <3>1 DEF PlaybackTickFails
    <3>2. CASE TickGraph
      <4>1. PICK c \in GraphTick : \E r \in RecordingTick(c) :
              /\ validation' = r.channel.val
              /\ IF r.early THEN UNCHANGED encoderVars
                            ELSE ResolveEncoder(r.channel)
        BY <3>2 DEF TickGraph, SetChannel
      <4>2. QED
        BY <4>1 DEF ResolveEncoder
    <3>3. QED
      BY <2>1, <3>1, <3>2 DEF Tick
  <2>2. CASE Idle \/ TargetStop \/ TargetStart
    BY <2>2 DEF Idle, TargetStop, TargetStart
  <2>3. CASE Request
    <3>1. CASE \/ Refused \/ CameraStop \/ CameraStartSame
               \/ SetImage \/ NightPreview \/ RecordingStartFails
               \/ PlaybackStart \/ PlaybackStop \/ PlaybackMedia
               \/ RecordingStop \/ Snapshot
      BY <3>1 DEF Refused, CameraStop, CameraStartSame, SetImage,
                  NightPreview, RecordingStartFails, PlaybackStart,
                  PlaybackStop, PlaybackMedia, RecordingStop, Snapshot
    <3>2. CASE \/ \E mode \in Modes : CameraStart(mode)
               \/ \E split \in BOOLEAN : RecordingStart(split)
               \/ \E e \in Encoders : SetEncoder(e)
               \/ \E input \in Inputs, automatic \in BOOLEAN :
                    SetAudio(input, automatic)
      BY <3>2 DEF CameraStart, CameraModeAllowed, RecordingStart, SetEncoder,
                  SetAudio
    <3>3. QED
      BY <2>3, <3>1, <3>2 DEF Request
  <2>4. QED
    BY <1>1, <2>1, <2>2, <2>3 DEF Next
<1>2. [Next]_vars => [Ends]_vars
  BY <1>1
<1>3. QED
  BY <1>2, PTL DEF Spec, UpdateEndsWithVerdict

=============================================================================
