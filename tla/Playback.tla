------------------------------- MODULE Playback -------------------------------
(***************************************************************************)
(* The player of a recording (ngcd/src/rockchip_playback.c): the commands   *)
(* of the API (target_playback) and the tick of the service alternate in    *)
(* one thread; the decoder works on its own.  The clip played is what the   *)
(* reader makes of the tables the recorder left (ClipTables).               *)
(***************************************************************************)
EXTENDS ClipTables, FiniteSets

CONSTANTS Recordings,      \* the pieces of picture and sound there may be in a file
          SendLimit,       \* pictures given to the decoder in one tick
          AudioLimit,      \* frames of sound given to the speaker in one tick
          Preroll,         \* pictures given to the decoder when a clip is opened
          Room,            \* pictures the decoder takes before it answers "full"
          Step,            \* microseconds the clock moves on between two ticks
          MaxCommands,     \* bound on the commands
          MaxFaults        \* bound on the calls that fail
ASSUME PlaybackAssumption ==
  /\ Recordings \subseteq Seq(Piece)
  /\ {SendLimit, AudioLimit, Preroll, Room, Step} \subseteq Nat \ {0}
  /\ Preroll <= Room
  /\ {MaxCommands, MaxFaults} \subseteq Nat

VARIABLES recording,       \* the pieces in the file; none for a photo
          clip,            \* what the reader makes of it, whenever it is opened
          player,          \* struct ngcd_rk_playback
          hw,              \* pieces of Rockit that are up
          queued,          \* pictures the decoder has still to take up
          fed,             \* pictures given to it since it was reset
          heard,           \* frames of sound played since the clock was set
          lost,            \* has a seek failed half way, and none succeeded since
          torn,            \* was a piece taken down under another that uses it
          hung,            \* does a command never return
          commands, faults
vars == <<recording, clip, player, hw, queued, fed, heard, lost, torn, hung, commands, faults>>

Shut == [open |-> FALSE, sample |-> 0, next |-> 0, target |-> 0, seeking |-> FALSE,
         paused |-> TRUE, naudio |-> 0, sound |-> FALSE, anchor |-> 0, since |-> 0]
Count == Len(clip.video)
Pts(index) == clip.video[index + 1].pts
AudioPtsAt(index) == clip.audio[index + 1].pts
Picture == recording = <<>>

\* The first frame of sound that does not begin before a time.
AudioFrom(pts) == Cardinality({i \in DOMAIN clip.audio : clip.audio[i].pts < pts})

-----------------------------------------------------------------------------
(* The pieces a clip is shown with, in the order of the calls; each is noted *)
(* as soon as its call succeeded, and a piece rests on those it names.       *)
Pieces == <<"group", "scaler", "scaled", "layer", "shown", "channel", "output",
            "decoder", "receiving", "input">>
Rests == [scaler |-> {"group"}, scaled |-> {"scaler"}, shown |-> {"layer"},
          channel |-> {"shown"}, output |-> {"scaled", "channel"},
          receiving |-> {"decoder"}, input |-> {"decoder", "scaled"}]
TakeDownWrong == <<"channel", "shown", "layer", "output", "input", "scaled", "scaler",
                   "group", "receiving", "decoder">>
TakeDown == <<"output", "channel", "shown", "layer", "input", "scaled", "scaler",
              "group", "receiving", "decoder">>

\* Taken down in order, does a piece go while one that rests on it is up.
Torn(up) ==
  \E i \in DOMAIN TakeDown : \E j \in (i + 1)..Len(TakeDown) :
    /\ {TakeDown[i], TakeDown[j]} \subseteq up
    /\ TakeDown[j] \in DOMAIN Rests /\ TakeDown[i] \in Rests[TakeDown[j]]
Close(up) ==
  /\ player' = Shut /\ queued' = 0
  /\ fed' = <<>> /\ heard' = <<>> /\ lost' = FALSE
  /\ hw' = up \ ToSet(TakeDown)
  /\ torn' = (torn \/ Torn(up) \/ Torn(hw))

-----------------------------------------------------------------------------
(* Opening: the previous clip goes first.  The reader may refuse the file;   *)
(* a call that fails ends the attempt, and what was up is taken down.        *)
Opened ==
  LET first == FirstKey(clip.video)
      given == IF Picture THEN 1
               ELSE IF Count - first < Preroll THEN Count - first ELSE Preroll
  IN  /\ player' = [Shut EXCEPT !.open = TRUE, !.sample = first + given - 1,
                                !.next = first + given, !.sound = clip.audio # <<>>]
      /\ hw' = ToSet(Pieces) /\ torn' = (torn \/ Torn(hw))
      /\ queued' = given /\ fed' = [i \in 1..given |-> first + i - 1]
      /\ heard' = <<>> /\ lost' = FALSE
Readable == Picture \/ clip.video # <<>>
Open ==
  /\ \/ Readable /\ Opened /\ UNCHANGED faults
     \/ ~Readable /\ Close({}) /\ UNCHANGED faults
     \/ /\ Readable /\ faults < MaxFaults /\ faults' = faults + 1
        /\ \E made \in 0..Len(Pieces) : Close(ToSet(SubSeq(Pieces, 1, made)))
  /\ UNCHANGED <<recording, clip, hung>>

CloseMedia == player.open /\ Close(hw) /\ UNCHANGED <<recording, clip, hung, faults>>

-----------------------------------------------------------------------------
Pause ==
  /\ player' = [player EXCEPT !.paused = TRUE]
  /\ UNCHANGED <<recording, clip, hw, queued, fed, heard, lost, torn, hung, faults>>

\* The clock is set to the picture last given, and the sound goes with it.
ResumedWrong(p) ==           \* the sound goes on where it stopped
  [p EXCEPT !.anchor = Pts(p.sample), !.since = 0, !.paused = FALSE]
Resumed(p) ==
  [p EXCEPT !.anchor = Pts(p.sample), !.since = 0,
            !.naudio = AudioFrom(Pts(p.sample)), !.paused = FALSE]

\* A seek goes to the key frame at or before the picture asked for; the tick
\* goes on from there.  Its calls may fail one by one.
SoughtWrong(index) ==        \* the picture asked for, not its key frame
  [player EXCEPT !.sample = index, !.next = index + 1, !.target = index,
                 !.seeking = FALSE, !.paused = TRUE, !.anchor = Pts(index),
                 !.since = 0, !.naudio = AudioFrom(Pts(index))]
Sought(index) ==
  LET key == KeyAtOrBefore(clip.video, index)
  IN  [player EXCEPT !.sample = key, !.next = key + 1, !.target = index,
                     !.seeking = key < index, !.paused = TRUE, !.anchor = Pts(key),
                     !.since = 0, !.naudio = AudioFrom(Pts(key))]
SeekOutcomes(index) ==
  LET p    == Sought(index)
      done == [player |-> p, receiving |-> TRUE, queued |-> 1, fed |-> <<p.sample>>,
               heard |-> <<>>, lost |-> FALSE, done |-> TRUE, fault |-> 0]
      stop == [done EXCEPT !.player = player, !.receiving = "receiving" \in hw, !.queued = queued,
                           !.fed = fed, !.heard = heard, !.lost = lost, !.done = FALSE, !.fault = 1]
      half == [stop EXCEPT !.receiving = FALSE, !.queued = 0, !.fed = <<>>, !.lost = TRUE]
      send == [half EXCEPT !.receiving = TRUE]
      aac  == [done EXCEPT !.done = FALSE, !.fault = 1]
  IN  {o \in {done, stop, half, send, aac} : faults + o.fault <= MaxFaults}
Settles(o, p) ==
  /\ player' = p /\ queued' = o.queued /\ fed' = o.fed /\ heard' = o.heard
  /\ hw' = IF o.receiving THEN hw \cup {"receiving"} ELSE hw \ {"receiving"}
  /\ lost' = o.lost /\ faults' = faults + o.fault

Seek ==
  /\ \E index \in 0..(Count - 1) : \E o \in SeekOutcomes(index) : Settles(o, o.player)
  /\ UNCHANGED <<recording, clip, torn, hung>>

\* At the end it starts over; with nothing behind the key frame it is at the
\* end again and asks itself once more.
Resume ==
  \/ /\ player.next < Count
     /\ player' = Resumed(player) /\ heard' = <<>>
     /\ UNCHANGED <<recording, clip, hw, queued, fed, lost, torn, hung, faults>>
  \/ /\ player.next >= Count
     /\ \E o \in SeekOutcomes(0) :
          /\ Settles(o, IF o.done /\ o.player.next < Count THEN Resumed(o.player) ELSE o.player)
          /\ hung' = (o.done /\ o.player.next >= Count)
     /\ UNCHANGED <<recording, clip, torn>>
Toggle == IF player.paused THEN Resume ELSE Pause

Command ==
  /\ ~hung
  /\ commands < MaxCommands /\ commands' = commands + 1
  /\ \/ Open
     \/ CloseMedia
     \/ player.open /\ ~Picture /\ (Pause \/ Resume \/ Toggle \/ Seek)

-----------------------------------------------------------------------------
(* The tick.  A picture goes to the decoder when it is due, and during a     *)
(* seek at once; the seek ends before the first picture behind its target,   *)
(* and the clock is set to the one before it.                               *)
Ready(n) ==
  /\ player.next + n <= Count /\ queued + n <= Room
  /\ \A i \in player.next..(player.next + n - 1) :
       IF player.seeking THEN i <= player.target ELSE Pts(i) - player.anchor <= player.since
Sent(n) == Ready(n) /\ (n < SendLimit => ~Ready(n + 1))

Given(n) == [player EXCEPT !.sample = IF n = 0 THEN @ ELSE player.next + n - 1, !.next = @ + n]
Paced(p, n) ==
  IF p.seeking /\ n < SendLimit /\ p.next < Count /\ p.next > p.target
  THEN [p EXCEPT !.seeking = FALSE, !.anchor = Pts(p.sample), !.since = 0] ELSE p
AtEndWrong(p) == [p EXCEPT !.seeking = @ /\ p.next < Count]      \* it does not stop there
AtEnd(p) == IF p.next >= Count THEN [p EXCEPT !.paused = TRUE, !.seeking = FALSE] ELSE p

\* The sound due; what lies before the clock is passed over.
FirstAudio(p) == IF p.naudio < AudioFrom(p.anchor) THEN AudioFrom(p.anchor) ELSE p.naudio
AudioReady(p, n) ==
  /\ FirstAudio(p) + n <= Len(clip.audio)
  /\ \A i \in FirstAudio(p)..(FirstAudio(p) + n - 1) : AudioPtsAt(i) - p.anchor <= p.since
AudioSent(p, n) ==
  IF p.seeking \/ ~p.sound THEN n = 0
  ELSE AudioReady(p, n) /\ (n < AudioLimit => ~AudioReady(p, n + 1))

Play(p, n, works) ==         \* n frames of sound; if it no longer works, the next one fails
  /\ player' = AtEnd([p EXCEPT !.naudio = IF p.seeking \/ ~p.sound THEN @ ELSE FirstAudio(p) + n,
                               !.sound = @ /\ works])
  /\ heard' = (IF player.seeking THEN <<>> ELSE heard) \o [i \in 1..n |-> FirstAudio(p) + i - 1]

Deliver(n) ==
  /\ queued' = queued + n
  /\ fed' = fed \o [i \in 1..n |-> player.next + i - 1]
Tick ==
  /\ ~hung /\ player.open /\ ~Picture
  /\ ~player.paused \/ player.seeking
  /\ \/ \E n \in 0..SendLimit : \E p \in {Paced(Given(n), n)} :
          /\ Sent(n) /\ (n > 0 => "receiving" \in hw)
          /\ Deliver(n)
          /\ \E m \in 0..AudioLimit :
               /\ AudioSent(p, m)
               /\ \/ Play(p, m, TRUE) /\ UNCHANGED faults
                  \/ /\ faults < MaxFaults /\ faults' = faults + 1
                     /\ \E done \in 0..(m - 1) : Play(p, done, FALSE)
     \/ \E n \in 1..SendLimit :                \* the last of n pictures is not taken
          /\ Ready(n) /\ Deliver(n - 1) /\ player' = Given(n - 1)
          /\ "receiving" \in hw /\ faults < MaxFaults /\ faults' = faults + 1
          /\ UNCHANGED heard
  /\ UNCHANGED <<recording, clip, hw, lost, torn, hung, commands>>

Decode ==
  /\ queued > 0 /\ queued' = queued - 1
  /\ UNCHANGED <<recording, clip, player, hw, fed, heard, lost, torn, hung, commands, faults>>

Time ==
  /\ player.open /\ ~player.paused /\ ~player.seeking
  /\ player.since < Pts(Count - 1) - player.anchor
  /\ player' = [player EXCEPT !.since = @ + Step]
  /\ UNCHANGED <<recording, clip, hw, queued, fed, heard, lost, torn, hung, commands, faults>>

-----------------------------------------------------------------------------
Init ==
  /\ recording \in Recordings \cup {<<>>}       \* the last is a photo
  /\ clip = ReadClip(recording) /\ player = Shut /\ hw = {} /\ queued = 0
  /\ fed = <<>> /\ heard = <<>>
  /\ lost = FALSE /\ torn = FALSE /\ hung = FALSE
  /\ commands = 0 /\ faults = 0

\* Nothing is asked of a player that hangs, or any more.
Done == (hung \/ commands = MaxCommands) /\ UNCHANGED vars
Next == Command \/ Tick \/ Decode \/ Time \/ Done
Fairness == WF_vars(Tick) /\ WF_vars(Decode) /\ WF_vars(Time)
Spec == Init /\ [][Next]_vars /\ Fairness

-----------------------------------------------------------------------------
(* The clip read is the clip recorded: every picture at its place, of its    *)
(* size, a key frame or not, at its time to within the rounding of the       *)
(* tables, and of the sound exactly what belongs to the picture; one without  *)
(* a key frame is refused                                                   *)
(* (mp4.c write_moov against mp4_reader.c load_moov).                        *)
ReadBack ==
  LET pictures == Track(recording, "video")
      sounds   == Track(recording, "audio")
      end      == Last(pictures).pts + 1000000 \div Fps
      kept     == SelectSeq(sounds, LAMBDA s : s.pts < end)
      refused  == \A i \in DOMAIN pictures : ~pictures[i].key
  IN  /\ ~Picture => (clip.video = <<>>) = refused
      /\ clip.video # <<>> =>
        /\ Len(clip.video) = Len(pictures)
        /\ \A i \in DOMAIN pictures :
             /\ clip.video[i].offset = pictures[i].offset
             /\ clip.video[i].size = pictures[i].size
             /\ clip.video[i].key = pictures[i].key
             /\ pictures[i].pts - pictures[1].pts - clip.video[i].pts \in (-6 * i)..(6 * i)
        /\ Len(clip.audio) = Len(kept)
        /\ \A i \in DOMAIN kept :
             /\ clip.audio[i].offset = kept[i].offset
             /\ clip.audio[i].size = kept[i].size
             /\ clip.audio[i].pts = kept[i].pts - pictures[1].pts

(* Unless a seek failed half way, the decoder was given every picture from a *)
(* key frame up to the one the player stands at, each once and in order,     *)
(* over pauses, seeks, a full decoder and failed sends                       *)
(* (ngcd_rk_playback_tick, ngcd_rk_playback_seek).                           *)
DecoderFollows ==
  player.open /\ ~Picture /\ ~lost =>
    /\ fed # <<>> /\ clip.video[Head(fed) + 1].key
    /\ \A i \in 1..(Len(fed) - 1) : fed[i + 1] = fed[i] + 1
    /\ Last(fed) = player.sample

(* While it plays, the sound since the clock was set is the sound from the   *)
(* picture it was set to, without a gap or a repetition, and neither sound   *)
(* nor picture is ahead of the clock (ngcd_rk_playback_pause, _tick).        *)
SoundFollowsPicture ==
  player.open /\ ~Picture /\ ~player.paused /\ ~player.seeking =>
    /\ heard = [i \in 1..Len(heard) |-> AudioFrom(player.anchor) + i - 1]
    /\ heard # <<>> => AudioPtsAt(Last(heard)) <= player.anchor + player.since
    /\ Pts(player.sample) <= player.anchor + player.since

(* After a clip was closed, or its opening failed at any of its calls,       *)
(* nothing of the hardware stays up, and no piece was taken down while        *)
(* another still used it (ngcd_rk_playback_open, ngcd_rk_playback_close).    *)
NothingLeft == ~torn /\ (~player.open => hw = {})

(* A clip that plays, or seeks, comes to rest: at its end, at its target, or *)
(* closed.  Excepted are a seek that failed half way and a clip with nothing *)
(* behind its first key frame, whose replay never returns                    *)
(* (ngcd_rk_playback_tick, ngcd_rk_playback_pause).                          *)
Moving == player.open /\ ~Picture /\ (~player.paused \/ player.seeking)
Replayable == FirstKey(clip.video) + 1 < Count
PlayEnds ==
  /\ (Moving /\ ~lost) ~> (~Moving \/ lost)
  /\ [](hung => ~Replayable)
=============================================================================
