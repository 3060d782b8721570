------------------------- MODULE RecordingFilesProofs -------------------------
(***************************************************************************)
(* Theorems of RecordingFiles for any number of clips and samples.  The    *)
(* invariant says of every clip what its files are worth (Sound), and of   *)
(* the clip being written what each step of the writer has done (AtStep).  *)
(***************************************************************************)
EXTENDS RecordingFiles, TLAPS

(* A complete, synced file: what may be published.                         *)
Whole(r) ==
  /\ r.table = Within(r, r.written)
  /\ r.data >= r.written
  /\ r.durable >= r.written
  /\ VideoIn(r, r.written) # {}
  /\ \A i \in VideoIn(r, r.written) : i <= r.good
  /\ r.acked <= r.written

(* What a clip with promised samples is worth.                             *)
Kept(r) ==
  /\ r.name # "none"
  /\ r.name = "temp" /\ r.journal =>
       /\ 1 \in r.video
       /\ r.acked <= r.data /\ r.acked <= r.index /\ r.acked <= r.good
       /\ r.good <= r.data
       /\ \A i \in r.video : i <= r.index => i <= r.good
  /\ r.name = "temp" /\ ~r.journal => Acknowledged(r) \subseteq r.table
  /\ r.name = "final" => Acknowledged(r) \subseteq r.table

Sound(r) ==
  /\ r.shown \subseteq {"none", "temp"}
  /\ r.name = "final" => Whole(r)
  /\ r.acked > 0 => Kept(r)

Fresh(r) ==
  /\ r.name = "temp"
  /\ ~r.journal
  /\ r.video = {}
  /\ r.written = 0 /\ r.data = 0 /\ r.index = 0 /\ r.good = 0
  /\ r.acked = 0

Recording(r) ==
  /\ r.name = "temp"
  /\ r.journal
  /\ r.good = r.data
  /\ r.data <= r.written
  /\ r.index <= r.written
  /\ \A i \in r.video : i <= r.data
  /\ r.acked <= r.data /\ r.acked <= r.index
  /\ (r.video = {} /\ r.written = 0) \/ (1 \in r.video /\ r.written > 0)

Flushed(r) ==
  /\ r.name = "temp"
  /\ r.journal
  /\ r.good = r.written /\ r.data = r.written
  /\ r.index <= r.written
  /\ \A i \in r.video : i <= r.written
  /\ r.acked <= r.data /\ r.acked <= r.index
  /\ 1 \in r.video /\ r.written > 0

Sealing(r) ==
  /\ r.name = "temp"
  /\ r.journal
  /\ r.data >= r.written
  /\ VideoIn(r, r.written) # {}
  /\ \A i \in VideoIn(r, r.written) : i <= r.good
  /\ r.acked <= r.written

AtStep(r, s) ==
  /\ s = "opening" => Fresh(r)
  /\ s = "open" => Recording(r)
  /\ s = "flushed" => Flushed(r)
  /\ s = "sealing" => Sealing(r)
  /\ s = "sealed" => Whole(r) /\ r.name = "temp" /\ r.journal
  /\ s = "closed" => Whole(r) /\ r.name = "temp" /\ ~r.journal
  /\ s = "dropping" => r.name = "none"

Control ==
  /\ step = "idle" <=> cur = NoClip
  /\ cur # NoClip => proc \in {"recovering", "up"}
  /\ step \in {"opening", "open", "flushed"} => proc = "up"

Inv ==
  /\ TypeOK
  /\ Control
  /\ \A c \in Clips : Sound(card[c])
  /\ cur # NoClip => AtStep(card[cur], step)

-----------------------------------------------------------------------------
(* Steps of the writer: what is left to show of each is about one record.  *)

LEMMA ClipFacts == NoClip \notin Clips /\ NoFile \in ClipStates
<1>1. [i \in Samples |-> 1] \in [Samples -> 1 .. MaxSamples + 1]
  BY BoundsAssumption
<1> QED
  BY <1>1, BoundsAssumption
  DEF NoClip, Clips, NoFile, ClipStates, Names, Counts

(* While a clip is being written, it is one of the card's.                 *)
LEMMA CurrentClip ==
  ASSUME Inv, step # "idle"
  PROVE  /\ cur \in Clips
         /\ Clip \in ClipStates
         /\ Sound(Clip)
         /\ AtStep(Clip, step)
  BY DEF Inv, TypeOK, Control, Clip

(* Write(r, s) preserves Inv when r is sound and worth the step s.         *)
LEMMA WriteKeeps ==
  ASSUME Inv, step # "idle",
         NEW r \in ClipStates, NEW s \in Steps \ {"idle"},
         Sound(r), AtStep(r, s),
         s \in {"opening", "open", "flushed"} => proc = "up",
         Write(r, s)
  PROVE  Inv'
<1>1. cur \in Clips /\ cur # NoClip
  BY ClipFacts DEF Inv, TypeOK, Control
<1>2. card' \in [Clips -> ClipStates] /\ card'[cur] = r
      /\ \A c \in Clips : c # cur => card'[c] = card[c]
  BY <1>1 DEF Write, Inv, TypeOK
<1>3. TypeOK'
  BY <1>2 DEF Inv, TypeOK, Write
<1>4. Control'
  BY <1>1 DEF Inv, Control, Write
<1>5. \A c \in Clips : Sound(card'[c])
  BY <1>2 DEF Inv
<1>6. AtStep(card'[cur'], step')
  BY <1>2 DEF Write
<1> QED
  BY <1>3, <1>4, <1>5, <1>6 DEF Inv

(* Leave(r) preserves Inv when r is sound.                                 *)
LEMMA LeaveKeeps ==
  ASSUME Inv, step # "idle", NEW r \in ClipStates, Sound(r), Leave(r)
  PROVE  Inv'
<1>1. cur \in Clips
  BY DEF Inv, TypeOK, Control
<1>2. card' \in [Clips -> ClipStates] /\ card'[cur] = r
      /\ \A c \in Clips : c # cur => card'[c] = card[c]
  BY <1>1 DEF Leave, Inv, TypeOK
<1>3. TypeOK'
  BY <1>2 DEF Inv, TypeOK, Leave, Steps
<1>4. Control'
  BY DEF Control, Leave
<1>5. \A c \in Clips : Sound(card'[c])
  BY <1>2 DEF Inv
<1> QED
  BY <1>3, <1>4, <1>5 DEF Inv, Leave

-----------------------------------------------------------------------------
(* The record operators.                                                   *)

LEMMA UnlinkedKeeps ==
  ASSUME NEW r \in ClipStates, Sound(r), r.name # "final"
  PROVE  /\ Unlinked(r) \in ClipStates
         /\ Sound(Unlinked(r))
         /\ AtStep(Unlinked(r), "dropping")
<1> DEFINE u == Unlinked(r)
<1>a. "none" \in Names /\ r.shown \cup {r.name} \in SUBSET Names /\ 0 \in Counts
  BY ClipFacts DEF ClipStates, Names, NoFile
<1>1. u \in ClipStates
  BY <1>a DEF Unlinked, ClipStates
<1>2. u.name = "none" /\ u.acked = 0 /\ u.shown = r.shown \cup {r.name}
  BY DEF Unlinked, ClipStates
<1>3. r.name \in {"none", "temp"}
  BY DEF ClipStates, Names
<1>4. Sound(u)
  BY <1>2, <1>3 DEF Sound
<1> QED
  BY <1>1, <1>2, <1>4 DEF AtStep

LEMMA CountFacts ==
  /\ Counts \subseteq Nat
  /\ 0 \in Counts
  /\ \A n \in Counts : n < MaxSamples => n + 1 \in Counts
  /\ \A n \in Counts, i \in Nat : i <= n => i \in Counts
  BY BoundsAssumption DEF Counts

LEMMA SmallerFacts ==
  ASSUME NEW a \in Counts, NEW b \in Counts
  PROVE  /\ Smaller(a, b) \in Counts
         /\ Smaller(a, b) <= a /\ Smaller(a, b) <= b
         /\ Smaller(a, b) = a \/ Smaller(a, b) = b
         /\ \A x \in Int : x <= a /\ x <= b => x <= Smaller(a, b)
  BY CountFacts DEF Smaller

LEMMA ClipFields ==
  ASSUME NEW r \in ClipStates
  PROVE  /\ r.name \in Names /\ r.shown \in SUBSET Names
         /\ r.journal \in BOOLEAN /\ r.unlinked \in BOOLEAN
         /\ r.video \in SUBSET Samples
         /\ r.until \in [Samples -> 1 .. MaxSamples + 1]
         /\ r.written \in Counts /\ r.data \in Counts /\ r.index \in Counts
         /\ r.good \in Counts /\ r.durable \in Counts
         /\ r.table \in SUBSET Samples
         /\ r.acked \in Counts
  BY DEF ClipStates

LEMMA ClipNats ==
  ASSUME NEW r \in ClipStates
  PROVE  /\ r.written \in Nat /\ r.data \in Nat /\ r.index \in Nat
         /\ r.good \in Nat /\ r.durable \in Nat
         /\ r.acked \in Nat
         /\ r.video \subseteq Nat \ {0}
  BY ClipFields, BoundsAssumption DEF Counts, Samples

(* What a table of n samples lists is in the type of a table, grows with n, *)
(* and depends on the first n samples alone.                               *)
LEMMA WithinType ==
  ASSUME NEW r \in ClipStates, NEW n \in Counts
  PROVE  /\ Within(r, n) \in SUBSET Samples
         /\ Within(r, n) \subseteq 1 .. n
         /\ VideoIn(r, n) \subseteq Within(r, n)
  BY ClipFields, ClipNats, BoundsAssumption
  DEF Within, VideoIn, Samples, Counts

LEMMA WithinGrows ==
  ASSUME NEW r \in ClipStates, NEW a \in Counts, NEW b \in Counts, a <= b
  PROVE  Within(r, a) \subseteq Within(r, b)
<1>1. VideoIn(r, a) \subseteq VideoIn(r, b)
  BY ClipNats, CountFacts DEF VideoIn
<1>2. 1 .. a \subseteq 1 .. b
  BY CountFacts
<1> QED
  BY <1>1, <1>2 DEF Within

LEMMA WithinSame ==
  ASSUME NEW q, NEW r, NEW n, r.video = q.video, r.until = q.until
  PROVE  Within(r, n) = Within(q, n) /\ VideoIn(r, n) = VideoIn(q, n)
  BY DEF Within, VideoIn

LEMMA AcknowledgedSame ==
  ASSUME NEW q, NEW r,
         r.video = q.video, r.until = q.until, r.acked = q.acked
  PROVE  Acknowledged(r) = Acknowledged(q)
  BY WithinSame DEF Acknowledged

(* A sample more changes nothing of what was within the earlier ones.      *)
LEMMA AppendedFacts ==
  ASSUME NEW q \in ClipStates, q.written < MaxSamples,
         NEW kind, NEW u \in Times(q, kind),
         NEW r, r = Appended(q, kind, u)
  PROVE  /\ r \in ClipStates
         /\ r.written = q.written + 1 /\ r.written > 0
         /\ kind = "video" => r.video = q.video \cup {q.written + 1}
         /\ kind # "video" => r.video = q.video
         /\ r.name = q.name /\ r.journal = q.journal /\ r.shown = q.shown
         /\ r.index = q.index /\ r.acked = q.acked
         /\ q.acked <= q.written => Acknowledged(r) = Acknowledged(q)
<1> DEFINE n == q.written + 1
           v == IF kind = "video" THEN q.video \cup {n} ELSE q.video
           w == [q.until EXCEPT ![n] = u]
<1>1. n \in Counts /\ n > 0 /\ n \in Samples
  BY ClipFields, CountFacts DEF Counts, Samples
<1>2. v \in SUBSET Samples
  BY <1>1, ClipFields
<1>3. u \in 1 .. MaxSamples + 1
  BY ClipNats, BoundsAssumption DEF Times
<1>4. /\ w \in [Samples -> 1 .. MaxSamples + 1]
      /\ \A i \in Samples : i # n => w[i] = q.until[i]
  BY <1>3, ClipFields
<1>5. r = [q EXCEPT !.written = n, !.video = v, !.until = w]
  BY DEF Appended, ClipStates
<1>6. r \in ClipStates
  BY <1>1, <1>2, <1>4, <1>5, ZenonT(30) DEF ClipStates
<1>7. /\ r.written = n /\ r.video = v /\ r.until = w
      /\ r.name = q.name /\ r.journal = q.journal /\ r.shown = q.shown
      /\ r.index = q.index /\ r.acked = q.acked /\ r.data = q.data
      /\ r.good = q.good /\ r.table = q.table
  BY <1>5 DEF ClipStates
<1>8. ASSUME q.acked <= q.written
      PROVE  Acknowledged(r) = Acknowledged(q)
  <2> DEFINE a == q.acked
  <2>1. a \in Nat /\ n \in Nat /\ a < n
    BY <1>8, ClipNats
  <2>2. VideoIn(r, a) = VideoIn(q, a)
    BY <1>7, <2>1, ClipNats DEF VideoIn
  <2>3. \A i \in 1 .. a : i \in r.video <=> i \in q.video
    BY <1>7, <2>1
  <2>4. 1 .. a \subseteq Samples
    BY ClipFields, CountFacts, BoundsAssumption DEF Counts, Samples
  <2>5. \A i \in 1 .. a : r.until[i] = q.until[i]
    BY <1>4, <1>7, <2>1, <2>4
  <2>6. Within(r, a) = Within(q, a)
    BY <2>2, <2>3, <2>5 DEF Within
  <2> QED
    BY <2>6, <1>7 DEF Acknowledged
<1> QED
  BY <1>1, <1>5, <1>6, <1>7, <1>8

LEMMA StartedKeeps ==
  ASSUME NEW r, r = [NoFile EXCEPT !.name = "temp", !.shown = {"none"}]
  PROVE  r \in ClipStates /\ Sound(r) /\ AtStep(r, "opening")
<1>1. "temp" \in Names /\ {"none"} \in SUBSET Names
  BY DEF Names
<1>2. r \in ClipStates
  BY <1>1, ClipFacts DEF ClipStates
<1>3. Fresh(r) /\ r.shown = {"none"}
  BY DEF Fresh, NoFile
<1>4. Sound(r)
  BY <1>3 DEF Sound, Fresh
<1> QED
  BY <1>2, <1>3, <1>4 DEF AtStep

LEMMA JournalOpenedKeeps ==
  ASSUME NEW q \in ClipStates, Sound(q), AtStep(q, "opening"),
         NEW r, r = [q EXCEPT !.journal = TRUE, !.unlinked = TRUE]
  PROVE  r \in ClipStates /\ Sound(r) /\ AtStep(r, "open")
<1>1. r \in ClipStates
  BY DEF ClipStates
<1>2. /\ r.journal /\ r.name = q.name /\ r.shown = q.shown
      /\ r.video = q.video /\ r.written = q.written /\ r.data = q.data
      /\ r.good = q.good /\ r.index = q.index /\ r.acked = q.acked
  BY DEF ClipStates
<1>3. Fresh(q)
  BY DEF AtStep
<1>4. Recording(r)
  BY <1>2, <1>3, ClipFields, CountFacts DEF Fresh, Recording
<1>5. Sound(r)
  BY <1>2, <1>3 DEF Sound, Fresh
<1> QED
  BY <1>1, <1>4, <1>5 DEF AtStep

LEMMA SampleKeeps ==
  ASSUME NEW q \in ClipStates, Sound(q), AtStep(q, "open"),
         q.written < MaxSamples,
         NEW kind, kind = "video" \/ q.video # {},
         NEW u \in Times(q, kind),
         NEW r, r = FileFlushed(Appended(q, kind, u))
  PROVE  /\ r \in ClipStates /\ Sound(r) /\ AtStep(r, "flushed")
         /\ Acknowledged(r) = Acknowledged(q)
<1> DEFINE p == Appended(q, kind, u)
           n == q.written + 1
<1>1. /\ p \in ClipStates /\ p.written = n /\ n > 0
      /\ kind = "video" => p.video = q.video \cup {n}
      /\ kind # "video" => p.video = q.video
      /\ p.name = q.name /\ p.journal = q.journal /\ p.shown = q.shown
      /\ p.index = q.index /\ p.acked = q.acked
      /\ q.acked <= q.written => Acknowledged(p) = Acknowledged(q)
  <2> HIDE DEF p
  <2>1. p = Appended(q, kind, u)
    BY DEF p
  <2> QED
    BY <2>1, AppendedFacts
<1> HIDE DEF p
<1>2. r = [p EXCEPT !.data = n, !.good = n]
  BY <1>1 DEF FileFlushed, p
<1>3. n \in Counts
  BY <1>1, ClipFields
<1>4. r \in ClipStates
  BY <1>1, <1>2, <1>3 DEF ClipStates
<1>5. /\ r.written = n /\ r.video = p.video /\ r.data = n /\ r.good = n
      /\ r.name = q.name /\ r.journal = q.journal /\ r.shown = q.shown
      /\ r.index = q.index /\ r.acked = q.acked /\ r.until = p.until
  BY <1>1, <1>2 DEF ClipStates
<1>6. Recording(q)
  BY DEF AtStep
<1>7. 1 \in p.video
  BY <1>1, <1>6, ClipNats DEF Recording
<1>8. Flushed(r)
  BY <1>1, <1>5, <1>6, <1>7, ClipNats DEF Recording, Flushed
<1>9. Sound(r)
  <2>1. Kept(r)
    BY <1>5, <1>8, ClipNats DEF Flushed, Kept
  <2> QED
    BY <2>1, <1>5, <1>8 DEF Sound, Flushed
<1>10. q.acked <= q.written
  BY <1>6, ClipNats DEF Recording
<1>11. Acknowledged(r) = Acknowledged(q)
  BY <1>1, <1>5, <1>10, AcknowledgedSame
<1> QED
  BY <1>4, <1>8, <1>9, <1>11 DEF AtStep

LEMMA JournalledKeeps ==
  ASSUME NEW q \in ClipStates, Sound(q), AtStep(q, "flushed"),
         NEW r, r = JournalFlushed(q)
  PROVE  /\ r \in ClipStates /\ Sound(r) /\ AtStep(r, "open")
         /\ Acknowledged(q) \subseteq Acknowledged(r)
<1>1. r \in ClipStates
  BY DEF JournalFlushed, ClipStates
<1>2. /\ r.index = q.written /\ r.acked = q.written
      /\ r.name = q.name /\ r.journal = q.journal /\ r.shown = q.shown
      /\ r.video = q.video /\ r.written = q.written /\ r.data = q.data
      /\ r.good = q.good /\ r.until = q.until
  BY DEF JournalFlushed, ClipStates
<1>3. Flushed(q)
  BY DEF AtStep
<1>4. Recording(r)
  BY <1>2, <1>3, ClipNats DEF Flushed, Recording
<1>5. Kept(r)
  BY <1>2, <1>3, ClipNats DEF Flushed, Kept
<1>6. Acknowledged(q) \subseteq Acknowledged(r)
  <2>1. q.acked <= q.written
    BY <1>3, ClipNats DEF Flushed
  <2>2. Within(q, q.acked) \subseteq Within(q, q.written)
    BY <2>1, WithinGrows, ClipFields
  <2> QED
    BY <2>2, <1>2, WithinSame DEF Acknowledged
<1> QED
  BY <1>1, <1>2, <1>3, <1>4, <1>5, <1>6 DEF AtStep, Sound, Flushed

LEMMA MotionKeeps ==
  ASSUME NEW q \in ClipStates, Sound(q), AtStep(q, "open"),
         q.written < MaxSamples, q.video # {},
         NEW u \in Times(q, "motion"),
         NEW d \in Counts, d \in q.data .. q.written + 1,
         NEW i \in Counts, i \in q.index .. q.written + 1,
         NEW r, r = [Appended(q, "motion", u) EXCEPT
                       !.data = d, !.good = d, !.index = i]
  PROVE  r \in ClipStates /\ Sound(r) /\ AtStep(r, "open")
<1> DEFINE p == Appended(q, "motion", u)
           n == q.written + 1
<1>1. /\ p \in ClipStates /\ p.written = n /\ n > 0 /\ p.video = q.video
      /\ p.name = q.name /\ p.journal = q.journal /\ p.shown = q.shown
      /\ p.acked = q.acked
  <2> HIDE DEF p
  <2>1. p = Appended(q, "motion", u) /\ "motion" # "video"
    BY DEF p
  <2> QED
    BY <2>1, AppendedFacts
<1>2. r = [p EXCEPT !.data = d, !.good = d, !.index = i]
  OBVIOUS
<1> HIDE DEF p
<1>3. r \in ClipStates
  BY <1>1, <1>2, ZenonT(30) DEF ClipStates
<1>4. /\ r.written = n /\ r.data = d /\ r.good = d /\ r.index = i
      /\ r.video = q.video /\ r.acked = q.acked
      /\ r.name = q.name /\ r.journal = q.journal /\ r.shown = q.shown
  BY <1>1, <1>2 DEF ClipStates
<1>5. Recording(q)
  BY DEF AtStep
<1>a. /\ d \in Nat /\ q.data <= d /\ d <= n
      /\ i \in Nat /\ q.index <= i /\ i <= n
  BY CountFacts, ClipNats
<1>6. Recording(r)
  <2>1. q.written > 0 /\ 1 \in q.video
    BY <1>5 DEF Recording
  <2>2. q.acked <= d /\ q.acked <= i
    BY <1>a, <1>5, ClipNats DEF Recording
  <2>3. \A v \in q.video : v <= d
    BY <1>a, <1>5, ClipNats DEF Recording
  <2> QED
    BY <2>1, <2>2, <2>3, <1>1, <1>a, <1>4, <1>5 DEF Recording
<1>7. Kept(r)
  BY <1>4, <1>6, ClipNats DEF Recording, Kept
<1> QED
  BY <1>3, <1>4, <1>5, <1>6, <1>7 DEF AtStep, Sound, Recording

LEMMA SealingKeeps ==
  ASSUME NEW q \in ClipStates, Sound(q), AtStep(q, "open"), q.video # {},
         NEW r, r = FileFlushed(q)
  PROVE  r \in ClipStates /\ Sound(r) /\ AtStep(r, "sealing")
<1>1. r \in ClipStates
  BY DEF FileFlushed, ClipStates
<1>2. /\ r.data = q.written /\ r.good = q.written /\ r.written = q.written
      /\ r.video = q.video /\ r.index = q.index /\ r.acked = q.acked
      /\ r.name = q.name /\ r.journal = q.journal /\ r.shown = q.shown
  BY DEF FileFlushed, ClipStates
<1>3. Recording(q)
  BY DEF AtStep
<1>4. Kept(r)
  BY <1>2, <1>3, ClipNats DEF Recording, Kept
<1>5. 1 \in VideoIn(r, r.written)
  BY <1>2, <1>3, ClipNats DEF Recording, VideoIn
<1>6. Sealing(r)
  BY <1>2, <1>3, <1>5, ClipNats DEF Recording, Sealing, VideoIn
<1> QED
  BY <1>1, <1>2, <1>3, <1>4, <1>6 DEF AtStep, Sound, Recording

LEMMA SealedKeeps ==
  ASSUME NEW q \in ClipStates, Sound(q), AtStep(q, "sealing"),
         NEW r, r = Sealed(q)
  PROVE  r \in ClipStates /\ Sound(r) /\ AtStep(r, "sealed")
<1>a. Within(q, q.written) \in SUBSET Samples
  BY WithinType, ClipFields
<1>1. r \in ClipStates
  BY <1>a DEF Sealed, ClipStates
<1>2. /\ r.table = Within(q, q.written) /\ r.durable = q.written
      /\ r.data = q.data /\ r.good = q.good /\ r.written = q.written
      /\ r.video = q.video /\ r.until = q.until
      /\ r.index = q.index /\ r.acked = q.acked
      /\ r.name = q.name /\ r.journal = q.journal /\ r.shown = q.shown
  BY DEF Sealed, ClipStates
<1>3. Sealing(q)
  BY DEF AtStep
<1>4. /\ VideoIn(r, r.written) = VideoIn(q, q.written)
      /\ Within(r, r.written) = Within(q, q.written)
  BY <1>2, WithinSame
<1>5. Whole(r)
  BY <1>2, <1>3, <1>4, ClipNats DEF Sealing, Whole
<1>6. Sound(r)
  BY <1>2, <1>3, <1>5 DEF Sealing, Sound, Kept
<1> QED
  BY <1>1, <1>2, <1>3, <1>4, <1>5, <1>6 DEF AtStep, Sealing

(* A whole file lists what was acknowledged.                               *)
LEMMA WholeLists ==
  ASSUME NEW r \in ClipStates, Whole(r)
  PROVE  Acknowledged(r) \subseteq r.table /\ r.table # {}
<1>1. Within(r, r.acked) \subseteq Within(r, r.written)
  BY WithinGrows, ClipFields DEF Whole
<1>2. VideoIn(r, r.written) \subseteq Within(r, r.written)
  BY WithinType, ClipFields
<1> QED
  BY <1>1, <1>2 DEF Whole, Acknowledged

LEMMA JournalRemovedKeeps ==
  ASSUME NEW q \in ClipStates, Sound(q), NEW r, r = JournalRemoved(q)
  PROVE  /\ r \in ClipStates
         /\ AtStep(q, "sealed") => Sound(r) /\ AtStep(r, "closed")
         /\ AtStep(q, "dropping") => Sound(r)
<1>a. Larger(q.index, q.written) \in Counts
  BY ClipFields DEF Larger
<1>1. r \in ClipStates
  BY <1>a DEF JournalRemoved, ClipStates
<1>2. /\ ~r.journal /\ r.name = q.name /\ r.shown = q.shown
      /\ r.table = q.table /\ r.durable = q.durable
      /\ r.data = q.data /\ r.good = q.good /\ r.written = q.written
      /\ r.video = q.video /\ r.until = q.until /\ r.acked = q.acked
  BY DEF JournalRemoved, ClipStates
<1>3. ASSUME AtStep(q, "sealed")
      PROVE  Sound(r) /\ AtStep(r, "closed")
  <2>1. Whole(q) /\ q.name = "temp" /\ q.journal
    BY <1>3 DEF AtStep
  <2>2. /\ VideoIn(r, r.written) = VideoIn(q, q.written)
        /\ Within(r, r.written) = Within(q, q.written)
    BY <1>2, WithinSame
  <2>3. Whole(r)
    BY <2>1, <2>2, <1>2 DEF Whole
  <2>4. Kept(r)
    BY <2>1, <2>3, <1>1, <1>2, WholeLists DEF Kept
  <2> QED
    BY <2>1, <2>3, <2>4, <1>2 DEF Sound, AtStep
<1>4. ASSUME AtStep(q, "dropping")
      PROVE  Sound(r)
  BY <1>2, <1>4 DEF Sound, AtStep, Kept
<1> QED
  BY <1>1, <1>3, <1>4

LEMMA PublishedKeeps ==
  ASSUME NEW q \in ClipStates, Sound(q), AtStep(q, "closed"),
         NEW r, r = Published(q)
  PROVE  /\ r \in ClipStates /\ Sound(r)
         /\ r.name = "final" /\ r.table # {}
         /\ Acknowledged(r) \subseteq r.table
         /\ Acknowledged(r) = Acknowledged(q)
<1>1. "final" \in Names /\ q.shown \cup {"temp"} \in SUBSET Names
  BY ClipFields DEF Names
<1>2. r \in ClipStates
  BY <1>1 DEF Published, ClipStates
<1>3. /\ r.name = "final" /\ r.shown = q.shown \cup {"temp"}
      /\ r.table = q.table /\ r.durable = q.durable
      /\ r.data = q.data /\ r.good = q.good /\ r.written = q.written
      /\ r.video = q.video /\ r.until = q.until /\ r.acked = q.acked
  BY DEF Published, ClipStates
<1>4. /\ VideoIn(r, r.written) = VideoIn(q, q.written)
      /\ Within(r, r.written) = Within(q, q.written)
      /\ Acknowledged(r) = Acknowledged(q)
  BY <1>3, WithinSame, AcknowledgedSame
<1>5. Whole(q) /\ q.name = "temp" /\ ~q.journal
  BY DEF AtStep
<1>6. Whole(r)
  BY <1>3, <1>4, <1>5 DEF Whole
<1>7. Acknowledged(r) \subseteq r.table /\ r.table # {}
  BY <1>2, <1>6, WholeLists
<1> QED
  BY <1>2, <1>3, <1>4, <1>6, <1>7 DEF Sound, Kept

(* What the tables list of the first samples, a cut behind them keeps.     *)
LEMMA TruncatedSame ==
  ASSUME NEW q \in ClipStates, NEW r, NEW n \in Counts, NEW a \in Counts, a <= n,
         r.video = VideoIn(q, n),
         r.until = [i \in Samples |-> IF i <= n THEN q.until[i] ELSE 1]
  PROVE  Within(r, a) = Within(q, a) /\ VideoIn(r, a) = VideoIn(q, a)
<1>1. /\ a \in Nat /\ n \in Nat
      /\ \A i \in 1 .. a : i \in Samples /\ i <= n
  BY BoundsAssumption DEF Counts, Samples
<1>2. VideoIn(r, a) = VideoIn(q, a)
  BY <1>1, ClipNats DEF VideoIn
<1>3. \A i \in 1 .. a : /\ i \in r.video <=> i \in q.video
                        /\ r.until[i] = q.until[i]
  BY <1>1 DEF VideoIn
<1> QED
  BY <1>2, <1>3 DEF Within

(* Recovery cuts a recoverable file without losing what was promised.      *)
LEMMA TruncatedKeeps ==
  ASSUME NEW q \in ClipStates, Sound(q), Recoverable(q),
         NEW e \in Counts, e \in Committed(q) .. q.index,
         NEW r, r = Truncated(q, Committed(q), e)
  PROVE  /\ r \in ClipStates /\ Sound(r) /\ AtStep(r, "sealing")
         /\ r.name = "temp" /\ Acknowledged(r) = Acknowledged(q)
<1> DEFINE n == Committed(q)
           g == Smaller(q.good, n)
           d == Smaller(q.durable, n)
           v == VideoIn(q, n)
           w == [i \in Samples |-> IF i <= n THEN q.until[i] ELSE 1]
<1>1. /\ n \in Counts /\ n <= q.data /\ n <= q.index
      /\ \A x \in Int : x <= q.data /\ x <= q.index => x <= n
  BY ClipFields, SmallerFacts DEF Committed
<1>a. n \in Nat /\ e \in Nat /\ n <= e
  <2>1. n \in Nat /\ e \in Nat
    BY <1>1, CountFacts
  <2> QED
    BY <2>1
<1>2. /\ g \in Counts /\ d \in Counts /\ g <= n /\ g <= q.good
      /\ \A x \in Int : x <= q.good /\ x <= n => x <= g
  BY <1>1, ClipFields, SmallerFacts
<1>b. g \in Nat
  BY <1>2, CountFacts
<1>3. v \in SUBSET Samples /\ w \in [Samples -> 1 .. MaxSamples + 1]
  BY <1>a, ClipFields, BoundsAssumption DEF VideoIn
<1>4. r = [q EXCEPT !.video = v, !.until = w,
                    !.written = n, !.data = e, !.good = g, !.durable = d,
                    !.table = {}]
  BY DEF Truncated, ClipStates
<1>5. r \in ClipStates
  BY <1>1, <1>2, <1>3, <1>4, CountFacts, ZenonT(30) DEF ClipStates
<1>6. /\ r.written = n /\ r.data = e /\ r.good = g
      /\ r.video = v /\ r.until = w /\ r.table = {}
      /\ r.name = q.name /\ r.journal = q.journal /\ r.shown = q.shown
      /\ r.index = q.index /\ r.acked = q.acked
  BY <1>4 DEF ClipStates
<1>7. /\ q.name = "temp" /\ q.journal /\ VideoIn(q, n) # {}
      /\ \A i \in VideoIn(q, n) : i <= q.good
  BY DEF Recoverable
<1>8. VideoIn(r, r.written) = VideoIn(q, n)
  <2>1. n <= n
    BY <1>a
  <2> HIDE DEF n
  <2> QED BY <2>1, <1>1, <1>6, TruncatedSame
<1>9. \A i \in VideoIn(q, n) : i \in Int /\ i <= g
  BY <1>1, <1>2, <1>7, ClipNats DEF VideoIn
<1>10. ASSUME q.acked > 0
       PROVE  Kept(r) /\ q.acked <= n
  <2>1. /\ 1 \in q.video
        /\ q.acked <= q.data /\ q.acked <= q.index /\ q.acked <= q.good
        /\ q.good <= q.data
        /\ \A i \in q.video : i <= q.index => i <= q.good
    BY <1>10, <1>7 DEF Sound, Kept
  <2>2. q.acked <= n
    BY <2>1, <1>1, ClipNats
  <2>3. q.acked <= g
    BY <2>1, <2>2, <1>2, ClipNats
  <2>4. \A i \in q.video : i <= q.index => i <= g
    BY <2>1, <1>1, <1>2, ClipNats
  <2>5. q.acked <= e /\ g <= e
    <3> HIDE DEF n, g
    <3> QED BY <2>2, <1>a, <1>b, <1>2, ClipNats
  <2>6. 1 \in r.video /\ \A i \in r.video : i \in q.video
    <3>1. 1 <= n
      <4> HIDE DEF n
      <4> QED BY <2>2, <1>10, <1>a, ClipNats
    <3> QED BY <3>1, <2>1, <1>6 DEF VideoIn
  <2> QED
    BY <2>1, <2>2, <2>3, <2>4, <2>5, <2>6, <1>6, <1>7 DEF Kept
<1>11. q.acked <= n
  <2> HIDE DEF n
  <2> QED BY <1>10, <1>a, ClipNats
<1>12. Sealing(r)
  BY <1>6, <1>7, <1>8, <1>9, <1>11, <1>a DEF Sealing
<1>13. Acknowledged(r) = Acknowledged(q)
  <2>0. q.acked \in Counts /\ n \in Counts
    BY ClipFields, <1>1
  <2>a. r.video = VideoIn(q, n)
    BY <1>6
  <2>b. r.until = [i \in Samples |-> IF i <= n THEN q.until[i] ELSE 1]
    BY <1>6
  <2> HIDE DEF n, v, w
  <2>1. Within(r, q.acked) = Within(q, q.acked)
    BY <2>0, <2>a, <2>b, <1>11, TruncatedSame
  <2> QED BY <2>1, <1>6 DEF Acknowledged
<1> QED
  BY <1>5, <1>6, <1>7, <1>10, <1>12, <1>13 DEF Sound, AtStep

(* A power loss leaves a published clip whole, or unpublished.             *)
LEMMA RemainsKeeps ==
  ASSUME NEW q \in ClipStates, Sound(q),
         NEW n \in {q.name} \cup q.shown, NEW j \in BOOLEAN,
         NEW d \in Counts, NEW g \in Counts, NEW i \in Counts,
         NEW t, t = q.table \/ t = {},
         d \in q.durable .. q.data,
         g \in Smaller(q.durable, q.good) .. q.good,
         t # q.table => q.durable < q.written,
         NEW r, r = Remains(q, n, j, d, g, i, t)
  PROVE  /\ r \in ClipStates
         /\ Sound(r)
         /\ r.name = "final" =>
              /\ q.name = "final" /\ r.table = q.table
              /\ Acknowledged(r) = Acknowledged(q)
         /\ r.name # "final" => Acknowledged(r) = {}
<1> DEFINE x == IF j THEN i ELSE 0
           a == IF n = "final" THEN q.acked ELSE 0
           h == Smaller(g, d)
<1>2. n \in Names /\ {} \in SUBSET Names /\ j \in BOOLEAN
  BY ClipFields
<1>3. d \in Nat /\ q.durable <= d /\ d <= q.data
  BY CountFacts, ClipFields, ClipNats
<1>4. Smaller(q.durable, q.good) \in Nat
  BY SmallerFacts, ClipFields, CountFacts
<1>5. g \in Nat /\ Smaller(q.durable, q.good) <= g /\ g <= q.good
  BY <1>4, CountFacts, ClipFields, ClipNats
<1>6. x \in Counts /\ a \in Counts
  BY CountFacts, ClipFields, ClipNats
<1>7. h \in Counts
  BY <1>3, <1>5, SmallerFacts
<1>b. t \in SUBSET Samples
  BY ClipFields
<1>8. r \in ClipStates
  BY <1>2, <1>6, <1>7, <1>b, ZenonT(30) DEF Remains, ClipStates
<1>9. /\ r.name = n /\ r.shown = {} /\ r.data = d /\ r.durable = d
      /\ r.good = h /\ r.table = t /\ r.acked = a
      /\ r.video = q.video /\ r.until = q.until /\ r.written = q.written
  BY DEF Remains, ClipStates
<1>10. ASSUME n = "final"
       PROVE  /\ q.name = "final" /\ t = q.table /\ Whole(r) /\ Kept(r)
              /\ Acknowledged(r) = Acknowledged(q)
  <2>1. q.name = "final" /\ Whole(q) /\ a = q.acked
    BY <1>10 DEF Sound
  <2>2. t = q.table /\ q.written <= d
    BY <2>1, <1>3, ClipNats DEF Whole
  <2>3. /\ VideoIn(r, r.written) = VideoIn(q, q.written)
        /\ Within(r, r.written) = Within(q, q.written)
        /\ Acknowledged(r) = Acknowledged(q)
    BY <2>1, <1>9, WithinSame, AcknowledgedSame
  <2>4. \A v \in VideoIn(q, q.written) : v <= h
    <3>1. SUFFICES ASSUME NEW v \in VideoIn(q, q.written)
                   PROVE  v <= h
      OBVIOUS
    <3>2. v \in Nat /\ v <= q.good /\ v <= q.durable /\ v <= d
      BY <2>1, <2>2, ClipNats DEF Whole, VideoIn
    <3>3. v <= Smaller(q.durable, q.good)
      BY <3>2, SmallerFacts, ClipFields
    <3>4. v <= g
      BY <3>2, <3>3, <1>4, <1>5
    <3> QED
      BY <3>2, <3>4, <1>3, <1>5, SmallerFacts
  <2>5. Whole(r)
    BY <2>1, <2>2, <2>3, <2>4, <1>9 DEF Whole
  <2>6. Kept(r)
    BY <2>5, <1>8, <1>9, <1>10, WholeLists DEF Kept
  <2> QED
    BY <2>1, <2>2, <2>3, <2>5, <2>6
<1>11. ASSUME n # "final"
       PROVE  a = 0 /\ Acknowledged(r) = {}
  BY <1>9, <1>11 DEF Acknowledged, Within
<1> QED
  BY <1>8, <1>9, <1>10, <1>11 DEF Sound

-----------------------------------------------------------------------------
(* The invariant.                                                          *)

LEMMA InitInv == Init => Inv
<1> SUFFICES ASSUME Init PROVE Inv
  OBVIOUS
<1>1. TypeOK
  BY ClipFacts DEF Init, TypeOK, Steps
<1>2. Control
  BY DEF Init, Control
<1>3. Sound(NoFile)
  BY DEF Sound, NoFile
<1> QED
  BY <1>1, <1>2, <1>3 DEF Init, Inv

(* A clip that is replaced while no writer is involved.                    *)
LEMMA ReplaceKeeps ==
  ASSUME Inv, NEW c \in Clips, NEW r \in ClipStates, Sound(r),
         card' = [card EXCEPT ![c] = r]
  PROVE  /\ card' \in [Clips -> ClipStates]
         /\ card'[c] = r
         /\ \A d \in Clips : Sound(card'[d])
  BY DEF Inv, TypeOK

LEMMA RecordInv ==
  ASSUME Inv, Record
  PROVE  Inv'
<1>1. ASSUME NEW c \in Clips, RecordStart(c)
      PROVE  Inv'
  <2> DEFINE r == [NoFile EXCEPT !.name = "temp", !.shown = {"none"}]
  <2>1. r \in ClipStates /\ Sound(r) /\ AtStep(r, "opening")
    BY StartedKeeps
  <2>2. card' = [card EXCEPT ![c] = r]
    BY <1>1 DEF RecordStart
  <2>3. /\ card' \in [Clips -> ClipStates] /\ card'[c] = r
        /\ \A d \in Clips : Sound(card'[d])
    BY <2>1, <2>2, ReplaceKeeps
  <2> HIDE DEF r
  <2>4. TypeOK'
    BY <1>1, <2>3 DEF RecordStart, Inv, TypeOK, Steps
  <2>5. Control'
    BY <1>1, ClipFacts DEF RecordStart, Control
  <2>6. AtStep(card'[cur'], step')
    BY <1>1, <2>1, <2>3 DEF RecordStart
  <2> QED
    BY <2>3, <2>4, <2>5, <2>6 DEF Inv
<1>2. CASE OpenJournal
  <2> DEFINE r == [Clip EXCEPT !.journal = TRUE, !.unlinked = TRUE]
  <2>1. step = "opening" /\ Write(r, "open")
    BY <1>2 DEF OpenJournal
  <2>2. r \in ClipStates /\ Sound(r) /\ AtStep(r, "open")
    BY <2>1, CurrentClip, JournalOpenedKeeps
  <2>3. proc = "up"
    BY <2>1 DEF Inv, Control
  <2> HIDE DEF r
  <2> QED
    BY <2>1, <2>2, <2>3, WriteKeeps DEF Steps
<1>3. CASE Abort
  <2>1. /\ step \in {"opening", "open", "flushed"}
        /\ Write(Unlinked(Clip), "dropping")
    BY <1>3 DEF Abort
  <2>2. Clip.name # "final"
    BY <2>1, CurrentClip DEF AtStep, Fresh, Recording, Flushed
  <2>3. /\ Unlinked(Clip) \in ClipStates /\ Sound(Unlinked(Clip))
        /\ AtStep(Unlinked(Clip), "dropping")
    BY <2>1, <2>2, CurrentClip, UnlinkedKeeps
  <2> QED
    BY <2>1, <2>3, WriteKeeps DEF Steps
<1>4. ASSUME NEW kind \in {"video", "audio"}, WriteSample(kind)
      PROVE  Inv'
  <2>0. PICK u \in Times(Clip, kind) :
          Write(FileFlushed(Appended(Clip, kind, u)), "flushed")
    BY <1>4 DEF WriteSample
  <2> DEFINE r == FileFlushed(Appended(Clip, kind, u))
  <2>1. /\ step = "open" /\ Clip.written < MaxSamples
        /\ kind = "video" \/ Clip.video # {}
        /\ Write(r, "flushed")
    BY <1>4, <2>0 DEF WriteSample
  <2>2. r \in ClipStates /\ Sound(r) /\ AtStep(r, "flushed")
    BY <2>1, CurrentClip, SampleKeeps
  <2>3. proc = "up"
    BY <2>1 DEF Inv, Control
  <2> HIDE DEF r
  <2> QED
    BY <2>1, <2>2, <2>3, WriteKeeps DEF Steps
<1>5. CASE JournalSample
  <2>1. step = "flushed" /\ Write(JournalFlushed(Clip), "open")
    BY <1>5 DEF JournalSample
  <2>2. /\ JournalFlushed(Clip) \in ClipStates
        /\ Sound(JournalFlushed(Clip))
        /\ AtStep(JournalFlushed(Clip), "open")
    BY <2>1, CurrentClip, JournalledKeeps
  <2>3. proc = "up"
    BY <2>1 DEF Inv, Control
  <2> QED
    BY <2>1, <2>2, <2>3, WriteKeeps DEF Steps
<1>6. CASE WriteMotion
  <2>1. step = "open" /\ Clip.written < MaxSamples /\ Clip.video # {}
    BY <1>6 DEF WriteMotion
  <2>2. PICK d \in Counts, i \in Counts, u \in Times(Clip, "motion") :
          /\ d \in Clip.data .. Clip.written + 1
          /\ i \in Clip.index .. Clip.written + 1
          /\ Write([Appended(Clip, "motion", u) EXCEPT
                      !.data = d, !.good = d, !.index = i], "open")
    BY <1>6 DEF WriteMotion
  <2> DEFINE r == [Appended(Clip, "motion", u) EXCEPT
                     !.data = d, !.good = d, !.index = i]
  <2>3. r \in ClipStates /\ Sound(r) /\ AtStep(r, "open")
    BY <2>1, <2>2, CurrentClip, MotionKeeps
  <2>4. proc = "up"
    BY <2>1 DEF Inv, Control
  <2>5. Write(r, "open")
    BY <2>2
  <2> HIDE DEF r
  <2> QED
    BY <2>1, <2>3, <2>4, <2>5, WriteKeeps DEF Steps
<1>7. CASE Stop
  <2>1. step = "open" /\ Clip.video # {} /\ Write(FileFlushed(Clip), "sealing")
    BY <1>7 DEF Stop
  <2>2. /\ FileFlushed(Clip) \in ClipStates /\ Sound(FileFlushed(Clip))
        /\ AtStep(FileFlushed(Clip), "sealing")
    BY <2>1, CurrentClip, SealingKeeps
  <2> QED
    BY <2>1, <2>2, WriteKeeps DEF Steps
<1> QED
  BY <1>1, <1>2, <1>3, <1>4, <1>5, <1>6, <1>7 DEF Record

LEMMA CloseInv ==
  ASSUME Inv, Close
  PROVE  Inv'
<1>1. CASE Sync
  <2>1. step = "sealing" /\ Write(Sealed(Clip), "sealed")
    BY <1>1 DEF Sync
  <2>2. /\ Sealed(Clip) \in ClipStates /\ Sound(Sealed(Clip))
        /\ AtStep(Sealed(Clip), "sealed")
    BY <2>1, CurrentClip, SealedKeeps
  <2> QED
    BY <2>1, <2>2, WriteKeeps DEF Steps
<1>2. CASE CloseFails
  <2>1. step = "sealing" /\ Write(Unlinked(Clip), "dropping")
    BY <1>2 DEF CloseFails
  <2>2. Clip.name # "final"
    BY <2>1, CurrentClip DEF AtStep, Sealing
  <2>3. /\ Unlinked(Clip) \in ClipStates /\ Sound(Unlinked(Clip))
        /\ AtStep(Unlinked(Clip), "dropping")
    BY <2>1, <2>2, CurrentClip, UnlinkedKeeps
  <2> QED
    BY <2>1, <2>3, WriteKeeps DEF Steps
<1>3. CASE RemoveJournal
  <2>1. step = "sealed" /\ Write(JournalRemoved(Clip), "closed")
    BY <1>3 DEF RemoveJournal
  <2>2. /\ JournalRemoved(Clip) \in ClipStates /\ Sound(JournalRemoved(Clip))
        /\ AtStep(JournalRemoved(Clip), "closed")
    BY <2>1, CurrentClip, JournalRemovedKeeps
  <2> QED
    BY <2>1, <2>2, WriteKeeps DEF Steps
<1>4. CASE DropJournal
  <2>1. step = "dropping" /\ Leave(JournalRemoved(Clip))
    BY <1>4 DEF DropJournal
  <2>2. /\ JournalRemoved(Clip) \in ClipStates /\ Sound(JournalRemoved(Clip))
    BY <2>1, CurrentClip, JournalRemovedKeeps
  <2> QED
    BY <2>1, <2>2, LeaveKeeps
<1>5. CASE Publish
  <2>1. step = "closed" /\ Leave(Published(Clip))
    BY <1>5 DEF Publish
  <2>2. Published(Clip) \in ClipStates /\ Sound(Published(Clip))
    BY <2>1, CurrentClip, PublishedKeeps
  <2> QED
    BY <2>1, <2>2, LeaveKeeps
<1>6. CASE PublishFails
  <2>1. step = "closed" /\ (Leave(Clip) \/ Leave(Unlinked(Clip)))
    BY <1>6 DEF PublishFails
  <2>2. Clip \in ClipStates /\ Sound(Clip) /\ Clip.name # "final"
    BY <2>1, CurrentClip DEF AtStep
  <2>3. Unlinked(Clip) \in ClipStates /\ Sound(Unlinked(Clip))
    BY <2>2, UnlinkedKeeps
  <2> QED
    BY <2>1, <2>2, <2>3, LeaveKeeps
<1> QED
  BY <1>1, <1>2, <1>3, <1>4, <1>5, <1>6 DEF Close

LEMMA RecoverInv ==
  ASSUME Inv, Recover
  PROVE  Inv'
<1>1. ASSUME NEW c \in Clips, RecoverRead(c)
      PROVE  Inv'
  <2> DEFINE q == card[c]
  <2>0. PICK e \in Counts :
          /\ e \in Committed(q) .. q.index
          /\ card' = [card EXCEPT ![c] = Truncated(q, Committed(q), e)]
    BY <1>1 DEF RecoverRead
  <2> DEFINE r == Truncated(q, Committed(q), e)
  <2>1. q \in ClipStates /\ Sound(q) /\ Recoverable(q)
    BY <1>1 DEF RecoverRead, Inv, TypeOK
  <2>2. r \in ClipStates /\ Sound(r) /\ AtStep(r, "sealing")
    BY <2>0, <2>1, TruncatedKeeps
  <2>3. card' = [card EXCEPT ![c] = r]
    BY <2>0
  <2>4. /\ card' \in [Clips -> ClipStates] /\ card'[c] = r
        /\ \A d \in Clips : Sound(card'[d])
    BY <2>2, <2>3, ReplaceKeeps
  <2> HIDE DEF r
  <2>5. TypeOK'
    BY <1>1, <2>4 DEF RecoverRead, Inv, TypeOK, Steps
  <2>6. Control'
    BY <1>1, ClipFacts DEF RecoverRead, Control
  <2>7. AtStep(card'[cur'], step')
    BY <1>1, <2>2, <2>4 DEF RecoverRead
  <2> QED
    BY <2>4, <2>5, <2>6, <2>7 DEF Inv
<1>2. ASSUME NEW c \in Clips, RecoverSkip(c)
      PROVE  Inv'
  <2>1. todo' \subseteq todo /\ UNCHANGED <<proc, step, cur, card>>
    BY <1>2 DEF RecoverSkip
  <2> QED
    BY <2>1 DEF Inv, TypeOK, Control
<1>3. CASE RecoverDone
  <2>1. /\ step = "idle" /\ proc' = "up"
        /\ UNCHANGED <<step, cur, todo, card>>
    BY <1>3 DEF RecoverDone
  <2> QED
    BY <2>1 DEF Inv, TypeOK, Control
<1> QED
  BY <1>1, <1>2, <1>3 DEF Recover

LEMMA PowerInv ==
  ASSUME Inv, Power
  PROVE  Inv'
<1>1. CASE Start \/ StartWithoutCard
  <2>1. /\ proc = "down" /\ proc' \in {"recovering", "up"}
        /\ todo' \in SUBSET Clips
        /\ UNCHANGED <<step, cur, card>>
    BY <1>1 DEF Start, StartWithoutCard, Inv, TypeOK
  <2>2. cur = NoClip /\ step = "idle"
    BY <2>1 DEF Inv, Control
  <2> QED
    BY <2>1, <2>2 DEF Inv, TypeOK, Control
<1>2. CASE Crash \/ PowerLoss
  <2>1. /\ proc' \in {"down", "off"} /\ step' = "idle" /\ cur' = NoClip
        /\ todo' \in SUBSET Clips /\ card' = card
    BY <1>2 DEF Crash, PowerLoss
  <2> QED
    BY <2>1 DEF Inv, TypeOK, Control, Steps
<1>3. ASSUME NEW c \in Clips, Remount(c)
      PROVE  Inv'
  <2> DEFINE q == card[c]
  <2>1. q \in ClipStates /\ Sound(q)
    BY DEF Inv, TypeOK
  <2>2. PICK n \in {q.name} \cup q.shown, j \in BOOLEAN, d \in Counts,
             g \in Counts, i \in Counts, t \in {q.table, {}} :
          /\ d \in q.durable .. q.data
          /\ g \in Smaller(q.durable, q.good) .. q.good
          /\ t # q.table => q.durable < q.written
          /\ card' = [card EXCEPT ![c] =
                        Settled(Remains(q, n, j, d, g, i, t))]
    BY <1>3, ZenonT(30) DEF Remount
  <2> DEFINE left == Remains(q, n, j, d, g, i, t)
             r == Settled(left)
  <2>3. left \in ClipStates /\ Sound(left)
    <3>1. t = q.table \/ t = {}
      OBVIOUS
    <3> QED
      BY <3>1, <2>1, <2>2, RemainsKeeps
  <2>4. NoFile \in ClipStates /\ Sound(NoFile)
    BY ClipFacts DEF Sound, NoFile
  <2>5. r \in ClipStates /\ Sound(r)
    BY <2>3, <2>4 DEF Settled
  <2>6. card' = [card EXCEPT ![c] = r]
    BY <2>2
  <2> HIDE DEF r
  <2>7. card' \in [Clips -> ClipStates] /\ \A e \in Clips : Sound(card'[e])
    BY <2>5, <2>6, ReplaceKeeps
  <2>8. proc = "off" /\ todo' \subseteq todo /\ UNCHANGED <<proc, step, cur>>
    BY <1>3 DEF Remount
  <2>9. cur = NoClip
    BY <2>8 DEF Inv, Control
  <2> QED
    BY <2>7, <2>8, <2>9 DEF Inv, TypeOK, Control
<1>4. CASE PowerOn
  <2>1. /\ proc = "off" /\ proc' = "down" /\ UNCHANGED <<step, cur, todo, card>>
    BY <1>4 DEF PowerOn
  <2>2. cur = NoClip /\ step = "idle"
    BY <2>1 DEF Inv, Control
  <2> QED
    BY <2>1, <2>2 DEF Inv, TypeOK, Control
<1> QED
  BY <1>1, <1>2, <1>3, <1>4 DEF Power

LEMMA NextInv == Inv /\ [Next]_vars => Inv'
<1> SUFFICES ASSUME Inv, [Next]_vars PROVE Inv'
  OBVIOUS
<1>1. CASE Next
  BY <1>1, RecoverInv, RecordInv, CloseInv, PowerInv DEF Next
<1>2. CASE UNCHANGED vars
  BY <1>2 DEF vars, Inv, TypeOK, Control
<1> QED
  BY <1>1, <1>2

(* The files of every clip are sound in every reachable state: any number  *)
(* of crashes, power losses, failures and recoveries.                      *)
THEOREM FilesInvariant == Spec => []Inv
  BY InitInv, NextInv, PTL DEF Spec

(* Every variable stays in its type.                                       *)
THEOREM FilesTypeOK == Spec => []TypeOK
<1>1. Inv => TypeOK
  BY DEF Inv
<1> QED
  BY <1>1, FilesInvariant, PTL

(* What a user sees is complete: ngcd_mp4_close syncs before the rename,   *)
(* recovery reads every video sample back, and the tables list all that    *)
(* lies within the pictures.                                               *)
THEOREM PublishedIsCompleteHolds == Spec => []PublishedIsComplete
<1>1. Inv => PublishedIsComplete
  <2> SUFFICES ASSUME Inv, NEW c \in Clips, card[c].name = "final"
               PROVE  /\ card[c].table = Within(card[c], card[c].written)
                      /\ card[c].table \subseteq 1 .. card[c].data
                      /\ VideoIn(card[c], card[c].written) # {}
                      /\ \A i \in VideoIn(card[c], card[c].written) :
                           i <= card[c].good
    BY DEF PublishedIsComplete
  <2>1. card[c] \in ClipStates /\ Whole(card[c])
    BY DEF Inv, TypeOK, Sound
  <2>2. Within(card[c], card[c].written) \subseteq 1 .. card[c].written
    BY <2>1, WithinType, ClipFields
  <2>3. 1 .. card[c].written \subseteq 1 .. card[c].data
    BY <2>1, ClipNats DEF Whole
  <2> QED
    BY <2>1, <2>2, <2>3 DEF Whole
<1> QED
  BY <1>1, FilesInvariant, PTL

(* No picture whose journal record was flushed, and no sound or motion     *)
(* within such pictures, is missing from a published recording.            *)
THEOREM PublishedHasAcknowledgedHolds == Spec => []PublishedHasAcknowledged
<1>1. Inv => PublishedHasAcknowledged
  <2> SUFFICES ASSUME Inv, NEW c \in Clips, card[c].name = "final"
               PROVE  Acknowledged(card[c]) \subseteq card[c].table
    BY DEF PublishedHasAcknowledged
  <2>1. card[c] \in ClipStates /\ Whole(card[c])
    BY DEF Inv, TypeOK, Sound
  <2> QED
    BY <2>1, WholeLists
<1> QED
  BY <1>1, FilesInvariant, PTL

(* The daemon may die between any two steps of the writer, of its close    *)
(* and of recovery.                                                        *)
THEOREM CrashLosesNothingHolds == Spec => []CrashLosesNothing
<1>1. Inv => CrashLosesNothing
  <2> SUFFICES ASSUME Inv, NEW c \in Clips,
                      card[c].name = "temp", card[c].acked > 0
               PROVE  \/ /\ Recoverable(card[c])
                         /\ card[c].acked <= Committed(card[c])
                      \/ /\ ~card[c].journal
                         /\ Acknowledged(card[c]) \subseteq card[c].table
    BY DEF CrashLosesNothing
  <2> DEFINE r == card[c]
             n == Committed(r)
  <2>1. r \in ClipStates /\ Kept(r) /\ r.name = "temp"
    BY DEF Inv, TypeOK, Sound
  <2>2. ASSUME r.journal
        PROVE  Recoverable(r) /\ r.acked <= n
    <3>a. /\ 1 \in r.video
          /\ r.acked <= r.data /\ r.acked <= r.index
          /\ \A i \in r.video : i <= r.index => i <= r.good
      BY <2>1, <2>2 DEF Kept
    <3>1. r.acked <= n
      BY <2>1, <3>a, ClipFields, ClipNats, SmallerFacts DEF Committed
    <3>2. n \in Nat /\ n <= r.index
      BY <2>1, ClipFields, SmallerFacts, CountFacts DEF Committed
    <3>3. 1 <= n
      <4> HIDE DEF n
      <4> QED BY <3>1, <3>2, <2>1, ClipNats
    <3>4. 1 \in VideoIn(r, n)
      BY <3>a, <3>2, <3>3 DEF VideoIn
    <3>5. \A i \in VideoIn(r, n) : i <= r.good
      BY <2>1, <3>a, <3>2, ClipNats DEF VideoIn
    <3> QED
      BY <2>1, <2>2, <3>1, <3>4, <3>5 DEF Recoverable
  <2> QED
    BY <2>1, <2>2 DEF Kept
<1> QED
  BY <1>1, FilesInvariant, PTL

-----------------------------------------------------------------------------
(* What a step may change.                                                 *)

(* The clip of the writer is never a published one.                        *)
LEMMA CurrentIsHidden ==
  ASSUME Inv, step # "idle"
  PROVE  card[cur].name # "final"
<1>1. step \in Steps \ {"idle"}
  BY DEF Inv, TypeOK
<1> QED
  BY <1>1, CurrentClip DEF Steps, AtStep, Fresh, Recording, Flushed, Sealing,
     Clip

(* Record and Close change the clip of the writer only.                    *)
LEMMA OthersUntouched ==
  ASSUME Inv, NEW c \in Clips, card'[c] # card[c]
  PROVE  /\ Record => \/ step # "idle" /\ c = cur
                      \/ card[c].name = "none"
         /\ Close => step # "idle" /\ c = cur
         /\ Recover => proc = "recovering" /\ card[c].name = "temp"
         /\ Power => proc = "off"
<1>1. card \in [Clips -> ClipStates]
  BY DEF Inv, TypeOK
<1>2. \A r, s : Write(r, s) \/ Leave(r) => c = cur
  BY <1>1 DEF Write, Leave
<1>3. Close => step # "idle" /\ c = cur
  BY <1>2 DEF Close, Sync, CloseFails, RemoveJournal, DropJournal, Publish,
     PublishFails
<1>4. ASSUME NEW d \in Clips, RecordStart(d)
      PROVE  card[c].name = "none"
  BY <1>1, <1>4 DEF RecordStart, NextClip, IsNext, Reserved
<1>5. ASSUME NEW kind, WriteSample(kind)
      PROVE  step # "idle" /\ c = cur
  BY <1>2, <1>5 DEF WriteSample
<1>6. OpenJournal \/ Abort \/ JournalSample \/ WriteMotion \/ Stop
        => step # "idle" /\ c = cur
  BY <1>2 DEF OpenJournal, Abort, JournalSample, WriteMotion, Stop
<1>7. Recover => proc = "recovering" /\ card[c].name = "temp"
  BY <1>1 DEF Recover, RecoverRead, RecoverSkip, RecoverDone, Recoverable
<1>8. Power => proc = "off"
  BY DEF Power, Start, StartWithoutCard, Crash, PowerLoss, Remount, PowerOn
<1> QED
  BY <1>3, <1>4, <1>5, <1>6, <1>7, <1>8 DEF Record

(* Segments and recordings never reuse each other's numbers, and recovery  *)
(* only touches hidden files.                                              *)
THEOREM EarlierClipsUntouchedHolds == Spec => EarlierClipsUntouched
<1> DEFINE Untouched ==
      proc # "off" =>
        \A c \in Clips : card'[c] # card[c] =>
          /\ card[c].name # "final"
          /\ card[c].name = "temp" => c = cur \/ proc = "recovering"
<1>1. Inv /\ [Next]_vars => Untouched
  <2> SUFFICES ASSUME Inv, [Next]_vars, proc # "off",
                      NEW c \in Clips, card'[c] # card[c]
               PROVE  /\ card[c].name # "final"
                      /\ card[c].name = "temp" => c = cur \/ proc = "recovering"
    OBVIOUS
  <2>1. Next
    BY DEF vars
  <2> QED
    BY <2>1, OthersUntouched, CurrentIsHidden DEF Next
<1>2. Inv /\ [Next]_vars => [Untouched]_vars
  BY <1>1
<1> HIDE DEF Untouched
<1>3. Spec => [][Untouched]_vars
  BY <1>2, FilesInvariant, PTL DEF Spec
<1> QED
  BY <1>3 DEF EarlierClipsUntouched, Untouched

-----------------------------------------------------------------------------
(* The refinement.                                                         *)

SavedClips == {c \in Clips : card[c].name = "final"}
ContentOf  == [c \in Clips |->
                 IF card[c].name = "final" THEN card[c].table ELSE {}]
PromisedOf == [c \in Clips |-> Acknowledged(card[c])]

PromiseVars == <<SavedClips, ContentOf, PromisedOf>>

(* What the promise allows to happen to one clip.                          *)
Allowed(q, r) ==
  \/ /\ r.name = "final" <=> q.name = "final"
     /\ q.name = "final" => r.table = q.table
     /\ Acknowledged(r) = Acknowledged(q)
  \/ /\ q.name # "final" /\ r.name # "final"
     /\ Acknowledged(q) \subseteq Acknowledged(r)
  \/ /\ q.name # "final" /\ r.name = "final"
     /\ r.table # {} /\ Acknowledged(r) \subseteq r.table
     /\ Acknowledged(r) = Acknowledged(q)
  \/ r.name # "final" /\ Acknowledged(r) = {}

LEMMA AllowedIsPromiseStep ==
  ASSUME card \in [Clips -> ClipStates], NEW c \in Clips,
         NEW r \in ClipStates, card' = [card EXCEPT ![c] = r],
         Allowed(card[c], r)
  PROVE  Promise!Next \/ UNCHANGED PromiseVars
<1> DEFINE q == card[c]
           A == Acknowledged(r)
<1>1. q \in ClipStates /\ card'[c] = r
      /\ \A d \in Clips : d # c => card'[d] = card[d]
  OBVIOUS
<1>2. /\ c \in Promise!Clips
      /\ r.table \in SUBSET Promise!Samples /\ A \in SUBSET Promise!Samples
  BY ClipFields, WithinType
  DEF Promise!Clips, Promise!Samples, Clips, Samples, Acknowledged
<1>a. /\ Acknowledged(card'[c]) = A
      /\ \A d \in Clips : d # c => Acknowledged(card'[d]) = Acknowledged(card[d])
  BY <1>1
<1>b. /\ PromisedOf' = [PromisedOf EXCEPT ![c] = A]
      /\ PromisedOf[c] = Acknowledged(q)
  <2>1. PromisedOf' = [d \in Clips |-> Acknowledged(card'[d])]
    BY DEF PromisedOf, Acknowledged, Within, VideoIn
  <2> QED
    BY <2>1, <1>a DEF PromisedOf
<1> HIDE DEF A
<1>3. CASE /\ r.name = "final" <=> q.name = "final"
           /\ q.name = "final" => r.table = q.table
           /\ A = Acknowledged(q)
  <2>1. SavedClips' = SavedClips
    BY <1>1, <1>3 DEF SavedClips
  <2>2. ContentOf' = ContentOf
    BY <1>1, <1>3 DEF ContentOf
  <2>3. PromisedOf' = PromisedOf
    BY <1>b, <1>3 DEF PromisedOf
  <2> QED
    BY <2>1, <2>2, <2>3 DEF PromiseVars
<1>4. CASE q.name # "final" /\ r.name # "final" /\ Acknowledged(q) \subseteq A
           /\ A # Acknowledged(q)
  <2>1. SavedClips' = SavedClips /\ c \notin SavedClips
    BY <1>1, <1>4 DEF SavedClips
  <2>2. ContentOf' = ContentOf
    BY <1>1, <1>4 DEF ContentOf
  <2>3. Promise!Acknowledge(c, A)
    BY <2>1, <2>2, <1>b, <1>4
    DEF Promise!Acknowledge, SavedClips, ContentOf, PromisedOf
  <2> QED
    BY <2>3, <1>2 DEF Promise!Next
<1>5. CASE /\ q.name # "final" /\ r.name = "final"
           /\ r.table # {} /\ A \subseteq r.table /\ A = Acknowledged(q)
  <2>1. SavedClips' = SavedClips \cup {c} /\ c \notin SavedClips
    BY <1>1, <1>5 DEF SavedClips
  <2>2. ContentOf' = [ContentOf EXCEPT ![c] = r.table]
    BY <1>1, <1>5 DEF ContentOf
  <2>3. PromisedOf' = PromisedOf
    BY <1>b, <1>5 DEF PromisedOf
  <2>4. Promise!Save(c, r.table)
    BY <2>1, <2>2, <2>3, <1>b, <1>5
    DEF Promise!Save, SavedClips, ContentOf, PromisedOf
  <2> QED
    BY <2>4, <1>2 DEF Promise!Next
<1>6. CASE r.name # "final" /\ A = {}
  <2>1. SavedClips' = SavedClips \ {c}
    BY <1>1, <1>6 DEF SavedClips
  <2>2. ContentOf' = [ContentOf EXCEPT ![c] = {}]
    BY <1>1, <1>6 DEF ContentOf
  <2>3. Promise!LosePower(c)
    BY <2>1, <2>2, <1>b, <1>6
    DEF Promise!LosePower, SavedClips, ContentOf, PromisedOf
  <2> QED
    BY <2>3, <1>2 DEF Promise!Next
<1>7. Allowed(q, r) =>
        \/ /\ r.name = "final" <=> q.name = "final"
           /\ q.name = "final" => r.table = q.table
           /\ A = Acknowledged(q)
        \/ q.name # "final" /\ r.name # "final" /\ Acknowledged(q) \subseteq A
        \/ /\ q.name # "final" /\ r.name = "final"
           /\ r.table # {} /\ A \subseteq r.table /\ A = Acknowledged(q)
        \/ r.name # "final" /\ A = {}
  BY DEF Allowed, A
<1> QED
  BY <1>3, <1>4, <1>5, <1>6, <1>7

(* Every step is allowed for the one clip it changes.                      *)
LEMMA StepIsAllowed ==
  ASSUME Inv, Next
  PROVE  \/ card' = card
         \/ \E c \in Clips, r \in ClipStates :
              card' = [card EXCEPT ![c] = r] /\ Allowed(card[c], r)
<1>1. Inv'
  BY NextInv
<1> DEFINE Fine == \/ card' = card
                   \/ \E c \in Clips, r \in ClipStates :
                        card' = [card EXCEPT ![c] = r] /\ Allowed(card[c], r)
<1> SUFFICES Fine
  OBVIOUS
<1>2. ASSUME step # "idle", NEW r, card' = [card EXCEPT ![cur] = r],
             Allowed(Clip, r)
      PROVE  Fine
  <2>1. cur \in Clips /\ card'[cur] = r
    BY <1>2, CurrentClip DEF Inv, TypeOK
  <2>2. r \in ClipStates
    BY <1>1, <2>1 DEF Inv, TypeOK
  <2> QED
    BY <1>2, <2>1, <2>2 DEF Clip
<1>3. step # "idle" => /\ Clip \in ClipStates /\ Sound(Clip)
                       /\ AtStep(Clip, step) /\ Clip.name # "final"
  BY CurrentClip, CurrentIsHidden DEF Clip
<1>4. CASE Recover
  <2>1. CASE card' = card
    BY <2>1
  <2>2. ASSUME NEW c \in Clips, RecoverRead(c)
        PROVE  Fine
    <3>0. PICK e \in Counts :
            /\ e \in Committed(card[c]) .. card[c].index
            /\ card' = [card EXCEPT ![c] =
                          Truncated(card[c], Committed(card[c]), e)]
      BY <2>2 DEF RecoverRead
    <3> DEFINE r == Truncated(card[c], Committed(card[c]), e)
    <3>1. card' = [card EXCEPT ![c] = r] /\ card[c].name = "temp"
      BY <2>2, <3>0 DEF RecoverRead, Recoverable
    <3>2. card[c] \in ClipStates /\ card'[c] = r
      BY <3>1 DEF Inv, TypeOK
    <3>3. /\ r \in ClipStates
          /\ r.name = "temp" /\ Acknowledged(r) = Acknowledged(card[c])
      <4>1. Sound(card[c]) /\ Recoverable(card[c])
        BY <2>2 DEF RecoverRead, Inv
      <4> QED BY <4>1, <3>0, <3>2, TruncatedKeeps
    <3>5. Allowed(card[c], r)
      BY <3>1, <3>3 DEF Allowed
    <3> HIDE DEF r
    <3> QED
      BY <3>1, <3>3, <3>5
  <2> QED
    BY <1>4, <2>1, <2>2 DEF Recover, RecoverSkip, RecoverDone
<1>5. CASE Record
  <2>1. ASSUME NEW c \in Clips, RecordStart(c)
        PROVE  Fine
    <3> DEFINE r == [NoFile EXCEPT !.name = "temp", !.shown = {"none"}]
    <3>1. card' = [card EXCEPT ![c] = r]
      BY <2>1 DEF RecordStart
    <3>2. r \in ClipStates /\ r.name = "temp" /\ r.acked = 0
      BY StartedKeeps DEF NoFile
    <3>3. Allowed(card[c], r)
      BY <3>2 DEF Allowed, Acknowledged, Within
    <3> HIDE DEF r
    <3> QED
      BY <3>1, <3>2, <3>3
  <2>2. CASE OpenJournal
    <3> DEFINE r == [Clip EXCEPT !.journal = TRUE, !.unlinked = TRUE]
    <3>1. step # "idle" /\ card' = [card EXCEPT ![cur] = r]
      BY <2>2 DEF OpenJournal, Write
    <3>2. /\ r.name = Clip.name /\ r.table = Clip.table
          /\ r.acked = Clip.acked /\ r.video = Clip.video
          /\ r.until = Clip.until
      BY <1>3, <3>1 DEF ClipStates
    <3>3. Allowed(Clip, r)
      BY <3>2, AcknowledgedSame DEF Allowed
    <3> QED
      BY <3>1, <3>3, <1>2
  <2>3. CASE Abort
    <3>1. step # "idle" /\ card' = [card EXCEPT ![cur] = Unlinked(Clip)]
      BY <2>3 DEF Abort, Write
    <3>2. Unlinked(Clip).name = "none" /\ Unlinked(Clip).acked = 0
      BY <1>3, <3>1 DEF Unlinked, ClipStates
    <3>3. Allowed(Clip, Unlinked(Clip))
      BY <3>2 DEF Allowed, Acknowledged, Within
    <3> QED
      BY <3>1, <3>3, <1>2
  <2>4. ASSUME NEW kind \in {"video", "audio"}, WriteSample(kind)
        PROVE  Fine
    <3>0. PICK u \in Times(Clip, kind) :
            card' = [card EXCEPT ![cur] = FileFlushed(Appended(Clip, kind, u))]
      BY <2>4 DEF WriteSample, Write
    <3> DEFINE r == FileFlushed(Appended(Clip, kind, u))
    <3>1. /\ step = "open" /\ card' = [card EXCEPT ![cur] = r]
          /\ Clip.written < MaxSamples
          /\ kind = "video" \/ Clip.video # {}
      BY <2>4, <3>0 DEF WriteSample
    <3>2. Acknowledged(r) = Acknowledged(Clip)
      BY <3>1, <1>3, SampleKeeps
    <3>3. r.name = Clip.name /\ r.table = Clip.table
      BY <1>3, <3>1 DEF FileFlushed, Appended, ClipStates
    <3>4. Allowed(Clip, r)
      BY <3>2, <3>3 DEF Allowed
    <3> HIDE DEF r
    <3> QED
      BY <3>1, <3>4, <1>2
  <2>5. CASE JournalSample
    <3> DEFINE r == JournalFlushed(Clip)
    <3>1. step = "flushed" /\ card' = [card EXCEPT ![cur] = r]
      BY <2>5 DEF JournalSample, Write
    <3>2. r.name = Clip.name
      BY <1>3, <3>1 DEF JournalFlushed, ClipStates
    <3>3. Acknowledged(Clip) \subseteq Acknowledged(r)
      BY <3>1, <1>3, JournalledKeeps
    <3>4. Allowed(Clip, r)
      BY <3>1, <3>2, <3>3, <1>3 DEF Allowed
    <3> QED
      BY <3>1, <3>4, <1>2
  <2>6. CASE WriteMotion
    <3>1. step = "open" /\ Clip.written < MaxSamples /\ Clip.video # {}
      BY <2>6 DEF WriteMotion
    <3>2. PICK d \in Counts, i \in Counts, u \in Times(Clip, "motion") :
            /\ d \in Clip.data .. Clip.written + 1
            /\ i \in Clip.index .. Clip.written + 1
            /\ card' = [card EXCEPT ![cur] = [Appended(Clip, "motion", u) EXCEPT
                          !.data = d, !.good = d, !.index = i]]
      BY <2>6 DEF WriteMotion, Write
    <3> DEFINE r == [Appended(Clip, "motion", u) EXCEPT
                       !.data = d, !.good = d, !.index = i]
    <3>3. Acknowledged(r) = Acknowledged(Clip)
      <4> DEFINE p == Appended(Clip, "motion", u)
      <4>1. Clip \in ClipStates /\ Recording(Clip)
        BY <3>1, <1>3 DEF AtStep
      <4>2. Clip.acked <= Clip.written
        BY <4>1, ClipNats DEF Recording
      <4>3. Acknowledged(p) = Acknowledged(Clip) /\ p \in ClipStates
        <5> HIDE DEF p
        <5>1. p = Appended(Clip, "motion", u)
          BY DEF p
        <5> QED
          BY <5>1, <4>1, <4>2, <3>1, AppendedFacts
      <4>4. r = [p EXCEPT !.data = d, !.good = d, !.index = i]
        OBVIOUS
      <4> HIDE DEF p, r
      <4>5. r.video = p.video /\ r.until = p.until /\ r.acked = p.acked
        BY <4>3, <4>4 DEF ClipStates
      <4> QED
        BY <4>3, <4>5, AcknowledgedSame
    <3>4. r.name = Clip.name /\ r.table = Clip.table
      BY <1>3, <3>1 DEF Appended, ClipStates
    <3>5. Allowed(Clip, r)
      BY <3>3, <3>4 DEF Allowed
    <3>6. card' = [card EXCEPT ![cur] = r]
      BY <3>2
    <3> HIDE DEF r
    <3> QED
      BY <3>1, <3>5, <3>6, <1>2
  <2>7. CASE Stop
    <3> DEFINE r == FileFlushed(Clip)
    <3>1. step # "idle" /\ card' = [card EXCEPT ![cur] = r]
      BY <2>7 DEF Stop, Write
    <3>2. /\ r.name = Clip.name /\ r.table = Clip.table
          /\ r.acked = Clip.acked /\ r.video = Clip.video
          /\ r.until = Clip.until
      BY <1>3, <3>1 DEF FileFlushed, ClipStates
    <3>3. Allowed(Clip, r)
      BY <3>2, AcknowledgedSame DEF Allowed
    <3> QED
      BY <3>1, <3>3, <1>2
  <2> HIDE DEF Fine
  <2> QED
    BY <1>5, <2>1, <2>2, <2>3, <2>4, <2>5, <2>6, <2>7 DEF Record
<1>6. CASE Close
  <2>1. step # "idle"
    BY <1>6 DEF Close, Sync, CloseFails, RemoveJournal, DropJournal, Publish,
       PublishFails
  <2>2. ASSUME NEW r, card' = [card EXCEPT ![cur] = r],
               r = Sealed(Clip) \/ r = JournalRemoved(Clip) \/ r = Clip
        PROVE  Fine
    <3>1. /\ r.name = Clip.name /\ r.acked = Clip.acked
          /\ r.video = Clip.video /\ r.until = Clip.until
      BY <1>3, <2>1, <2>2 DEF Sealed, JournalRemoved, ClipStates
    <3>2. Allowed(Clip, r)
      BY <3>1, <1>3, <2>1, AcknowledgedSame DEF Allowed
    <3> QED
      BY <2>1, <2>2, <3>2, <1>2
  <2>3. ASSUME card' = [card EXCEPT ![cur] = Unlinked(Clip)]
        PROVE  Fine
    <3>1. Unlinked(Clip).name = "none" /\ Unlinked(Clip).acked = 0
      BY <1>3, <2>1 DEF Unlinked, ClipStates
    <3>2. Allowed(Clip, Unlinked(Clip))
      BY <3>1 DEF Allowed, Acknowledged, Within
    <3> QED
      BY <2>1, <2>3, <3>2, <1>2
  <2>4. ASSUME step = "closed", card' = [card EXCEPT ![cur] = Published(Clip)]
        PROVE  Fine
    <3> DEFINE r == Published(Clip)
    <3>1. /\ r.name = "final" /\ r.table # {}
          /\ Acknowledged(r) \subseteq r.table
          /\ Acknowledged(r) = Acknowledged(Clip)
      BY <1>3, <2>1, <2>4, PublishedKeeps
    <3>2. Allowed(Clip, r)
      BY <3>1, <1>3, <2>1 DEF Allowed
    <3> QED
      BY <2>1, <2>4, <3>2, <1>2
  <2> HIDE DEF Fine
  <2> QED
    BY <1>6, <2>2, <2>3, <2>4 DEF Close, Sync, CloseFails, RemoveJournal,
       DropJournal, Publish, PublishFails, Write, Leave
<1>7. CASE Power
  <2>1. CASE card' = card
    BY <2>1
  <2>2. ASSUME NEW c \in Clips, Remount(c)
        PROVE  Fine
    <3> DEFINE q == card[c]
    <3>1. q \in ClipStates /\ Sound(q)
      BY DEF Inv, TypeOK
    <3>2. PICK n \in {q.name} \cup q.shown, j \in BOOLEAN, d \in Counts,
               g \in Counts, i \in Counts, t \in {q.table, {}} :
            /\ d \in q.durable .. q.data
            /\ g \in Smaller(q.durable, q.good) .. q.good
            /\ t # q.table => q.durable < q.written
            /\ card' = [card EXCEPT ![c] =
                          Settled(Remains(q, n, j, d, g, i, t))]
      BY <2>2, ZenonT(30) DEF Remount
    <3> DEFINE left == Remains(q, n, j, d, g, i, t)
               r == Settled(left)
    <3>3. /\ left.name = "final" =>
                /\ q.name = "final" /\ left.table = q.table
                /\ Acknowledged(left) = Acknowledged(q)
          /\ left.name # "final" => Acknowledged(left) = {}
      <4>1. t = q.table \/ t = {}
        OBVIOUS
      <4>2. left = Remains(q, n, j, d, g, i, t)
        OBVIOUS
      <4> HIDE DEF left, q
      <4> QED
        BY <4>1, <4>2, <3>1, <3>2, RemainsKeeps
    <3> HIDE DEF left
    <3>4. card' = [card EXCEPT ![c] = r] /\ card'[c] = r
      BY <3>2 DEF left, Inv, TypeOK
    <3>5. r \in ClipStates
      BY <1>1, <3>4 DEF Inv, TypeOK
    <3>6. r = left \/ (r.name = "none" /\ Acknowledged(r) = {})
      BY DEF Settled, NoFile, Acknowledged, Within
    <3>7. Allowed(q, r)
      BY <3>3, <3>6 DEF Allowed
    <3> HIDE DEF r
    <3> QED
      BY <3>4, <3>5, <3>7
  <2> QED
    BY <1>7, <2>1, <2>2 DEF Power, Start, StartWithoutCard, Crash, PowerLoss,
       PowerOn
<1> QED
  BY <1>4, <1>5, <1>6, <1>7 DEF Next

(* The files of the recordings implement the promise.                      *)
THEOREM FilesKeepPromise == Spec => KeepsPromise
<1>1. Init => Promise!Init
  BY DEF Init, Promise!Init, NoFile, Clips, Promise!Clips, Acknowledged,
     Within
<1>2. Inv /\ [Next]_vars => Promise!Next \/ UNCHANGED PromiseVars
  <2> SUFFICES ASSUME Inv, [Next]_vars
               PROVE  Promise!Next \/ UNCHANGED PromiseVars
    OBVIOUS
  <2>1. CASE card' = card
    BY <2>1 DEF PromiseVars, SavedClips, ContentOf, PromisedOf,
       Acknowledged, Within, VideoIn
  <2>2. CASE Next
    BY <2>1, <2>2, StepIsAllowed, AllowedIsPromiseStep DEF Inv, TypeOK
  <2> QED
    BY <2>1, <2>2 DEF vars
<1>3. UNCHANGED PromiseVars => UNCHANGED Promise!vars
  BY DEF PromiseVars, SavedClips, ContentOf, PromisedOf, Promise!vars
<1>4. Inv /\ [Next]_vars => [Promise!Next]_(Promise!vars)
  BY <1>2, <1>3
<1> QED
  BY <1>1, <1>4, FilesInvariant, PTL DEF Spec, KeepsPromise, Promise!Spec
=============================================================================
