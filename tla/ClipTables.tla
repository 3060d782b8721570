------------------------------ MODULE ClipTables ------------------------------
(***************************************************************************)
(* The index of a clip: the tables the recorder leaves of the samples it    *)
(* wrote (ngcd/src/mp4.c, write_moov) and what the player makes of them     *)
(* (ngcd/src/mp4_reader.c).  Times of the recording are microseconds; the   *)
(* tables count 1/90000 s for the picture and 1/48000 s for the sound.      *)
(* Boxes that carry no samples (headers, projections, decoder parameters)   *)
(* and the byte order of all of them are left out.                          *)
(***************************************************************************)
EXTENDS Integers, Sequences, SequencesExt

CONSTANTS Fps,
          TickMax        \* the largest duration a table can hold, UINT32_MAX
ASSUME ClipAssumption == Fps \in 1..240 /\ TickMax \in Nat

(* Along a sequence: the sums of its beginnings, the empty one's first, and  *)
(* its elements at some indices.                                            *)
Sums(s) ==
  LET sum[n \in 0..Len(s)] == IF n = 0 THEN 0 ELSE sum[n - 1] + s[n]
  IN  [i \in 1..(Len(s) + 1) |-> sum[i - 1]]
Only(s, indices) ==
  LET kept[n \in 0..Len(s)] ==
        IF n = 0 THEN <<>>
        ELSE IF n \in indices THEN Append(kept[n - 1], s[n]) ELSE kept[n - 1]
  IN  kept[Len(s)]

(* What is in the file, in the order it was written: pieces of picture and  *)
(* sound, each noted with the place it was written at.                      *)
MdatStart == 48
Piece == [track : {"video", "audio"}, offset : Nat, pts : Nat, size : Nat, key : BOOLEAN]
Sizes(samples) == [i \in DOMAIN samples |-> samples[i].size]
FileEnd(mdat) == MdatStart + Last(Sums(Sizes(mdat)))
Placed(mdat) ==
  LET sums == Sums(Sizes(mdat))
  IN  [i \in DOMAIN mdat |-> [mdat[i] EXCEPT !.offset = MdatStart + sums[i]]]
Track(mdat, track) == Only(mdat, {i \in DOMAIN mdat : mdat[i].track = track})

-----------------------------------------------------------------------------
(* The writer.  A frame of sound is 1024 samples, and its time is counted    *)
(* from the first picture.  A picture lasts until the next; the last one,   *)
(* and one whose successor is not later or too late for the table, lasts as *)
(* long as the rate says.                                                   *)
AudioPts(first, n) == first + (n * 64000) \div 3
VideoPiece(size, key, pts) ==
  [track |-> "video", offset |-> 0, pts |-> pts, size |-> size, key |-> key]
AudioPiece(size, first, n) ==
  [track |-> "audio", offset |-> 0, pts |-> AudioPts(first, n), size |-> size, key |-> TRUE]
SampleDuration(video, i) ==
  LET gap   == video[i + 1].pts - video[i].pts
      ticks == (gap * 9 + 50) \div 100
  IN  IF i = Len(video) \/ gap <= 0 \/ ticks \notin 1..TickMax THEN 90000 \div Fps ELSE ticks
Durations(video) == [i \in DOMAIN video |-> SampleDuration(video, i)]
VideoUs(video) == (Last(Sums(Durations(video))) * 200 + 9) \div 18

(* Sound beyond the picture stays in the file but not in the tables.         *)
TrimmedWrong(video, samples) == samples
Trimmed(video, samples) ==
  LET first == video[1].pts
      end   == first + VideoUs(video)
  IN  Only(samples, {i \in DOMAIN samples : samples[i].pts \in first..(end - 1)})

Longer(runs, d) ==
  IF runs # <<>> /\ Last(runs).delta = d
  THEN [runs EXCEPT ![Len(runs)].count = @ + 1]
  ELSE Append(runs, [count |-> 1, delta |-> d])
Runs(deltas) ==
  LET runs[n \in 0..Len(deltas)] == IF n = 0 THEN <<>> ELSE Longer(runs[n - 1], deltas[n])
  IN  runs[Len(deltas)]
Co64(samples) == [i \in DOMAIN samples |-> samples[i].offset]
Stss(samples) == {i \in DOMAIN samples : samples[i].key}
Tables(samples, deltas) ==
  [stts |-> Runs(deltas), stsc |-> <<[first |-> 1, per |-> 1]>>,
   stsz |-> Sizes(samples), chunks |-> Co64(samples), stss |-> Stss(samples)]
Moov(mdat) ==
  LET video == Track(mdat, "video")
      audio == Trimmed(video, Track(mdat, "audio"))
  IN  [video |-> Tables(video, Durations(video)),
       audio |-> Tables(audio, [i \in DOMAIN audio |-> 1024])]

-----------------------------------------------------------------------------
(* The reader.  Any table that does not fit the others makes it refuse the   *)
(* file, which is the empty clip here.  A scale is microseconds per tick.   *)
VideoScale == <<100, 9>>
AudioScale == <<125, 6>>
Repeated(run) == [i \in 1..run.count |-> run.delta]
Deltas(stts) ==
  LET deltas[n \in 0..Len(stts)] == IF n = 0 THEN <<>> ELSE deltas[n - 1] \o Repeated(stts[n])
  IN  deltas[Len(stts)]
Timing(stts, scale) ==
  LET sums == Sums(Deltas(stts))
  IN  [i \in DOMAIN sums |-> (sums[i] * scale[1]) \div scale[2]]

(* Chunk c holds as many samples as the last entry that begins at or before  *)
(* it says, one behind the other.                                          *)
Per(stsc, c) ==
  LET begun == {e \in DOMAIN stsc : stsc[e].first <= c}
  IN  stsc[CHOOSE e \in begun : \A f \in begun : f <= e].per
Begins(t) == Sums([c \in DOMAIN t.chunks |-> Per(t.stsc, c)])
Offsets(t) ==
  LET begins == Begins(t)
      sums   == Sums(t.stsz)
      chunk(i) == CHOOSE c \in DOMAIN t.chunks : begins[c] < i /\ i <= begins[c + 1]
  IN  [i \in DOMAIN t.stsz |-> t.chunks[chunk(i)] + sums[i] - sums[begins[chunk(i)] + 1]]

WellTimed(t) == Len(Deltas(t.stts)) = Len(t.stsz) /\ \A r \in DOMAIN t.stts : t.stts[r].delta > 0
WellPlaced(t, end) ==
  /\ Last(Begins(t)) = Len(t.stsz)
  /\ LET offsets == Offsets(t) IN \A i \in DOMAIN t.stsz : offsets[i] + t.stsz[i] <= end
Sound(t) == [t EXCEPT !.stss = DOMAIN t.stsz]      \* every sample of it is a beginning
Samples(t, scale) ==
  LET offsets == Offsets(t)
      timing  == Timing(t.stts, scale)
  IN  [i \in DOMAIN t.stsz |-> [offset |-> offsets[i], pts |-> timing[i],
                                size |-> t.stsz[i], key |-> i \in t.stss]]
ReadTrack(t, scale, end) ==
  IF t.stsz = <<>> \/ t.stss = {} \/ ~WellTimed(t) \/ ~WellPlaced(t, end)
  THEN <<>> ELSE Samples(t, scale)
ReadClip(mdat) ==
  LET moov  == Moov(mdat)
      video == ReadTrack(moov.video, VideoScale, FileEnd(mdat))
      audio == ReadTrack(Sound(moov.audio), AudioScale, FileEnd(mdat))
      sound == moov.audio.stsz = <<>>               \* a clip without sound has no track of it
  IN  [video |-> IF sound \/ audio # <<>> THEN video ELSE <<>>, audio |-> audio]

(* Of the samples of the clip read; indices are those of the source, from 0. *)
FirstKey(clip) ==
  IF \E i \in DOMAIN clip : clip[i].key
  THEN (CHOOSE i \in DOMAIN clip : clip[i].key /\ \A j \in 1..(i - 1) : ~clip[j].key) - 1 ELSE 0
KeyAtOrBefore(clip, index) ==
  LET keys == {i \in 0..index : clip[i + 1].key}
  IN  IF keys = {} THEN FirstKey(clip) ELSE CHOOSE i \in keys : \A j \in keys : j <= i
=============================================================================
