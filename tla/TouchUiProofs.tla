---------------------------- MODULE TouchUiProofs ----------------------------
(***************************************************************************)
(* Theorems of TouchUi: the worker's answer, the records of sleep and the  *)
(* list of the gallery.                                                    *)
(***************************************************************************)
EXTENDS TouchUi, SequenceTheorems, TLAPS

(* The parts of TypeOK by name.                                            *)
Uis == [lcd : BOOLEAN, screen : {"main", "gallery", "confirm"}, pending : Kinds \cup {None},
        mode : Modes, stereo : BOOLEAN]
Captures == [active : BOOLEAN, kind : Drives \cup {None}, sleeping : BOOLEAN,
             due : {None, "now", "near", "far"}, shots : 0..(ShotMod - 1)]
Items == UNION {[1..n -> 1..MaxMedia] : n \in 0..MaxMedia}
Galleries == [active : BOOLEAN, suspended : BOOLEAN, started : BOOLEAN, items : Items,
              index : 1..MaxMedia, offset : 0..MaxMedia, ready : BOOLEAN, asked : 0..MaxMedia]
Works == [phase : {"none", "running", "complete"}, kind : Deferred \cup {None},
          scheduled : BOOLEAN, ok : BOOLEAN]
Cams == [graph : {"down", "live", "playback"}, rec : BOOLEAN]
Statuses == {"unknown", "idle", "recording", "playback"}
Answers == [cam : Cams, ok : BOOLEAN]

Listed(g) == g.items # <<>> => g.index <= Len(g.items)

(* The worker is idle, or an action waits for its answer.                  *)
Asked ==
  /\ worker.phase = "none" => worker = NoWork
  /\ worker.phase # "none" => running /\ worker.kind # None /\ ui.pending = worker.kind
  /\ worker.kind \in {"snapshot", "record"} => ui.stereo
  /\ worker.scheduled => seq.active /\ ~seq.sleeping /\ avail /\ ui.mode # "video"

Inv == TypeOK /\ Listed(gallery) /\ Asked /\ SleepAgrees

LEMMA Types ==
  TypeOK <=> /\ ui \in Uis /\ seq \in Captures /\ gallery \in Galleries
             /\ worker \in Works /\ cam \in Cams /\ status \in Statuses
             /\ deep \in BOOLEAN /\ avail \in BOOLEAN /\ running \in BOOLEAN
             /\ taken \in 0..(ShotMod - 1)
BY DEF TypeOK, Uis, Captures, Galleries, Items, Works, Cams, Statuses

LEMMA NextTypes ==
  TypeOK' <=> /\ ui' \in Uis /\ seq' \in Captures /\ gallery' \in Galleries
              /\ worker' \in Works /\ cam' \in Cams /\ status' \in Statuses
              /\ deep' \in BOOLEAN /\ avail' \in BOOLEAN /\ running' \in BOOLEAN
              /\ taken' \in 0..(ShotMod - 1)
BY DEF TypeOK, Uis, Captures, Galleries, Items, Works, Cams, Statuses

-----------------------------------------------------------------------------
(* What requests answer.                                                   *)
LEMMA Plain ==
  ASSUME NEW c \in Cams
  PROVE  /\ Refused(c) \in Answers /\ Answered(c) \in Answers
         /\ Answered(c).ok /\ Answered(c).cam = c
         /\ ~Refused(c).ok /\ Refused(c).cam = c
BY DEF Refused, Answered, Answers

LEMMA GraphTyped == \A g \in {"down", "live", "playback"} : Graph(g) \in Cams
BY DEF Graph, Cams

LEMMA RequestTyped ==
  ASSUME NEW c \in Cams, NEW d \in Cams PROVE Request(c, d) \subseteq Answers
BY Plain DEF Request

LEMMA StartGraphTyped == ASSUME NEW c \in Cams PROVE StartGraph(c) \subseteq Answers
BY Plain, GraphTyped, RequestTyped DEF StartGraph

LEMMA StopGraphTyped == ASSUME NEW c \in Cams PROVE StopGraph(c) \subseteq Answers
BY Plain, GraphTyped, RequestTyped DEF StopGraph

LEMMA StartPlaybackTyped == ASSUME NEW c \in Cams PROVE StartPlayback(c) \subseteq Answers
BY Plain, GraphTyped, RequestTyped DEF StartPlayback

LEMMA StopPlaybackTyped == ASSUME NEW c \in Cams PROVE StopPlayback(c) \subseteq Answers
BY Plain, GraphTyped, RequestTyped DEF StopPlayback

LEMMA ThenTyped ==
  ASSUME NEW S, S \subseteq Answers PROVE Then(S) \subseteq Answers
<1>1. \A o \in S : o.cam \in Cams BY DEF Answers
<1> QED BY <1>1, Plain DEF Then

LEMMA RestoreTyped == ASSUME NEW c \in Cams PROVE RestorePrimary(c) \subseteq Answers
BY StartGraphTyped, ThenTyped DEF RestorePrimary

LEMMA PrimaryTyped == ASSUME NEW c \in Cams PROVE PrimaryFor(ui, c) \subseteq Answers
BY StartGraphTyped, Plain DEF PrimaryFor

LEMMA PolledTyped == ASSUME NEW c \in Cams PROVE Polled(c) \subseteq Statuses
BY DEF Polled, Seen, Statuses, Cams

LEMMA WorkTyped == ASSUME NEW k \in Deferred, NEW c \in Cams PROVE Work(k, c) \subseteq Answers
<1>1. [c EXCEPT !.rec = TRUE] \in Cams /\ [c EXCEPT !.rec = FALSE] \in Cams BY DEF Cams
<1> QED BY <1>1, Plain, RequestTyped, StartGraphTyped DEF Work, Deferred

Idles == [cam : Cams, deep : BOOLEAN, slept : BOOLEAN]
LEMMA StopForIdleTyped == ASSUME NEW c \in Cams PROVE StopForIdle(c) \subseteq Idles
<1>1. StopGraph(c) \subseteq Answers BY StopGraphTyped
<1>2. \A o \in StopGraph(c) : RestorePrimary(o.cam) \subseteq Answers
  BY <1>1, RestoreTyped DEF Answers
<1>3. SUFFICES ASSUME NEW x \in StopForIdle(c) PROVE x \in Idles
  OBVIOUS
<1>4. CASE \E o \in StopGraph(c) : x = [cam |-> o.cam, deep |-> TRUE, slept |-> TRUE]
  BY <1>1, <1>4 DEF Answers, Idles
<1>5. CASE \E o \in StopGraph(c) : \E r \in RestorePrimary(o.cam) :
             x = [cam |-> r.cam, deep |-> ~r.ok, slept |-> FALSE]
  BY <1>2, <1>5 DEF Answers, Idles
<1> QED BY <1>3, <1>4, <1>5 DEF StopForIdle

LEMMA SwitchGraphTyped ==
  ASSUME NEW c \in Cams, NEW first \in BOOLEAN PROVE SwitchGraph(c, first) \subseteq Answers
<1> DEFINE stopped == IF first THEN StopGraph(c) ELSE {Answered(c)}
           started == UNION {StartGraph(p.cam) : p \in {q \in stopped : q.ok}}
           changed == {o \in started : o.ok \/ first}
           again == UNION {StartGraph(o.cam) : o \in changed}
<1>1. stopped \subseteq Answers BY StopGraphTyped, Plain
<1> HIDE DEF stopped
<1>2. started \subseteq Answers BY <1>1, StartGraphTyped DEF Answers
<1> HIDE DEF started
<1>3. changed \subseteq Answers BY <1>2
<1> HIDE DEF changed
<1>4. again \subseteq Answers BY <1>3, StartGraphTyped DEF Answers
<1> HIDE DEF again
<1>5. {Refused(r.cam) : r \in again} \subseteq Answers BY <1>4, Plain DEF Answers
<1>6. SwitchGraph(c, first) =
        IF status # "idle" THEN {Refused(c)}
        ELSE {o \in started : o.ok} \cup (started \ changed) \cup {p \in stopped : ~p.ok}
             \cup {Refused(r.cam) : r \in again}
  BY DEF SwitchGraph, stopped, started, changed, again
<1> QED BY <1>1, <1>2, <1>5, <1>6, Plain

LEMMA CloseTyped ==
  ASSUME NEW g \in Galleries, NEW c \in Cams PROVE Close(g, c) \subseteq Answers
<1> DEFINE stopped == IF g.started THEN Then(StopPlayback(c)) ELSE {Answered(c)}
<1>1. stopped \subseteq Answers BY StopPlaybackTyped, ThenTyped, Plain
<1> HIDE DEF stopped
<1>2. \A o \in Answers : [o EXCEPT !.ok = TRUE] \in Answers BY DEF Answers
<1>3. Close(g, c) = stopped \cup {[o EXCEPT !.ok = TRUE] : o \in {p \in stopped : p.cam.graph # "playback"}}
  BY DEF Close, stopped
<1> QED BY <1>1, <1>2, <1>3

-----------------------------------------------------------------------------
(* What an action leaves on the screen, and of the sequence.               *)
LEMMA CompletedFacts ==
  ASSUME NEW u \in Uis, NEW kind \in Kinds, NEW ok \in BOOLEAN
  PROVE  /\ Completed(u, kind, ok) \in Uis
         /\ Completed(u, kind, ok).pending = None
BY DEF Completed, Uis, Kinds, Deferred

LEMMA RestoredFacts ==
  ASSUME NEW u \in Uis, NEW ok \in BOOLEAN
  PROVE  /\ Restored(u, ok) \in Uis
         /\ Restored(u, ok).pending = u.pending /\ Restored(u, ok).mode = u.mode
BY DEF Restored, Uis

LEMMA StartedFacts ==
  ASSUME NEW drive \in Drives
  PROVE  /\ SequenceStarted(drive) \in Captures
         /\ SequenceStarted(drive).active /\ ~SequenceStarted(drive).sleeping
BY UiAssumption DEF SequenceStarted, Captures, Drives

LEMMA NoSequenceFacts ==
  NoSequence \in Captures /\ ~NoSequence.active /\ ~NoSequence.sleeping
BY UiAssumption DEF NoSequence, Captures

LEMMA SleepingFacts ==
  ASSUME NEW s \in Captures, NEW sleeping \in BOOLEAN
  PROVE  /\ SetSleeping(s, sleeping) \in Captures
         /\ SetSleeping(s, sleeping).active = s.active
         /\ s.active => SetSleeping(s, sleeping).sleeping = sleeping
BY DEF SetSleeping, Captures

LEMMA CountFacts ==
  ASSUME NEW s \in Captures, NEW ok \in BOOLEAN, NEW n \in CompleteCapture(s, ok)
  PROVE  /\ n \in Captures
         /\ n.active => s.active
         /\ n.sleeping => s.sleeping
<1> DEFINE k == (s.shots + 1) % ShotMod
<1>1. k \in 0..(ShotMod - 1) BY UiAssumption DEF Captures
<1> HIDE DEF k
<1>2. n \in {s, NoSequence} \/ n = [s EXCEPT !.shots = k]
      \/ \E d \in {"near", "far"} : n = [s EXCEPT !.shots = k, !.due = d]
  BY DEF CompleteCapture, k, Captures, Drives
<1>3. n # s => s.active BY DEF CompleteCapture
<1>4. CASE n \in {s, NoSequence} BY <1>3, <1>4, NoSequenceFacts
<1>5. CASE n = [s EXCEPT !.shots = k] BY <1>1, <1>3, <1>5 DEF Captures
<1>6. CASE \E d \in {"near", "far"} : n = [s EXCEPT !.shots = k, !.due = d]
  BY <1>1, <1>3, <1>6 DEF Captures
<1> QED BY <1>2, <1>4, <1>5, <1>6

-----------------------------------------------------------------------------
(* The list of the gallery.                                                *)
LEMMA ItemsFacts ==
  /\ \A s \in Items : s \in Seq(1..MaxMedia) /\ Len(s) \in 0..MaxMedia
  /\ \A s \in Items : s # <<>> => Len(s) \in 1..MaxMedia
  /\ \A n \in 0..MaxMedia : \A f \in [1..n -> 1..MaxMedia] : f \in Items /\ Len(f) = n
  /\ <<>> \in Items
<1>1. \A n \in 0..MaxMedia : \A f \in [1..n -> 1..MaxMedia] :
        f \in Seq(1..MaxMedia) /\ Len(f) = n
  <2> SUFFICES ASSUME NEW n \in 0..MaxMedia, NEW f \in [1..n -> 1..MaxMedia]
               PROVE  f \in Seq(1..MaxMedia) /\ Len(f) = n
    OBVIOUS
  <2>1. n \in Nat BY UiAssumption
  <2>2. f \in Seq(1..MaxMedia) BY <2>1, SeqDef
  <2> QED BY <2>1, <2>2, LenProperties
<1>2. \A s \in Items : s \in Seq(1..MaxMedia) /\ Len(s) \in 0..MaxMedia
  BY <1>1 DEF Items
<1>3. \A s \in Seq(1..MaxMedia) : s # <<>> => Len(s) # 0 BY EmptySeq
<1>4. 0 \in 0..MaxMedia /\ <<>> \in [1..0 -> 1..MaxMedia] BY UiAssumption
<1>5. \A n \in 0..MaxMedia : \A f \in [1..n -> 1..MaxMedia] : f \in Items BY DEF Items
<1>6. \A s \in Items : s # <<>> => Len(s) \in 1..MaxMedia BY <1>2, <1>3, UiAssumption
<1>7. <<>> \in Items BY <1>4, <1>5
<1> QED BY <1>1, <1>2, <1>5, <1>6, <1>7

LEMMA NoGalleryFacts ==
  NoGallery \in Galleries /\ Listed(NoGallery) /\ NoGallery.items = <<>>
BY ItemsFacts, UiAssumption DEF NoGallery, Galleries, Listed

LEMMA ListingFacts == \A s \in Listing : s \in Items
<1> SUFFICES ASSUME NEW n \in 0..MaxMedia PROVE [i \in 1..n |-> i] \in Items
  BY DEF Listing
<1>1. [i \in 1..n |-> i] \in [1..n -> 1..MaxMedia] BY UiAssumption
<1> QED BY <1>1, ItemsFacts

LEMMA ScannedFacts ==
  ASSUME NEW items \in Items
  PROVE  /\ [NoGallery EXCEPT !.items = items] \in Galleries
         /\ Listed([NoGallery EXCEPT !.items = items])
<1>1. NoGallery \in Galleries BY NoGalleryFacts
<1>2. [NoGallery EXCEPT !.items = items] \in Galleries BY <1>1 DEF Galleries
<1>3. items # <<>> => 1 <= Len(items) BY ItemsFacts, UiAssumption
<1> QED BY <1>2, <1>3 DEF Listed, NoGallery

LEMMA WrappedFacts == \A i \in Int, n \in Nat \ {0} : Wrapped(i, n) \in 1..n
<1> SUFFICES ASSUME NEW i \in Int, NEW n \in Nat \ {0} PROVE Wrapped(i, n) \in 1..n
  OBVIOUS
<1> DEFINE k == (i - 1) % n
<1>1. k \in 0..(n - 1) OBVIOUS
<1>2. Wrapped(i, n) = k + 1 BY DEF Wrapped
<1> HIDE DEF k
<1> QED BY <1>1, <1>2

LEMMA MovedFacts ==
  ASSUME NEW g \in Galleries, Listed(g), NEW offset \in Int, NEW r \in Moved(g, offset)
  PROVE  r.g \in Galleries /\ Listed(r.g) /\ r.ok \in BOOLEAN
<1> DEFINE to == Wrapped(g.index + offset, Len(g.items))
           h == [g EXCEPT !.index = to, !.ready = FALSE]
<1>1. \/ r = [g |-> g, ok |-> FALSE]
      \/ g.items # <<>> /\ r = [g |-> h, ok |-> TRUE]
  BY DEF Moved
<1>2. CASE r = [g |-> g, ok |-> FALSE] BY <1>2
<1>3. CASE g.items # <<>> /\ r = [g |-> h, ok |-> TRUE]
  <2>1. Len(g.items) \in 1..MaxMedia /\ g.index \in 1..MaxMedia
    BY <1>3, ItemsFacts DEF Galleries
  <2>2. to \in 1..Len(g.items)
    <3>1. g.index + offset \in Int /\ Len(g.items) \in Nat \ {0} BY <2>1, UiAssumption
    <3>2. Wrapped(g.index + offset, Len(g.items)) \in 1..Len(g.items) BY <3>1, WrappedFacts
    <3> QED BY <3>2
  <2> HIDE DEF to
  <2>3. to \in 1..MaxMedia /\ to <= Len(g.items) BY <2>1, <2>2, UiAssumption
  <2>4. h \in Galleries BY <2>3 DEF Galleries
  <2>5. h.items = g.items /\ h.index = to BY DEF Galleries
  <2> QED BY <1>3, <2>3, <2>4, <2>5 DEF Listed
<1> QED BY <1>1, <1>2, <1>3

LEMMA WithoutFacts ==
  ASSUME NEW g \in Galleries, Listed(g), g.items # <<>>
  PROVE  Without(g) \in Galleries /\ Listed(Without(g))
<1> DEFINE n == Len(g.items)
           rest == [i \in 1..(n - 1) |-> g.items[IF i < g.index THEN i ELSE i + 1]]
           to == IF g.index > Len(rest) /\ rest # <<>> THEN Len(rest) ELSE g.index
<1>1. n \in 1..MaxMedia /\ g.items \in Seq(1..MaxMedia) /\ g.index \in 1..MaxMedia
  BY ItemsFacts DEF Galleries
<1>2. n - 1 \in 0..MaxMedia BY <1>1, UiAssumption
<1>3. \A i \in 1..n : g.items[i] \in 1..MaxMedia BY <1>1, ElementOfSeq
<1>4. rest \in [1..(n - 1) -> 1..MaxMedia]
  <2>1. \A i \in 1..(n - 1) : (IF i < g.index THEN i ELSE i + 1) \in 1..n BY <1>1, UiAssumption
  <2> QED BY <2>1, <1>3
<1> HIDE DEF n
<1>5. rest \in Items /\ Len(rest) = n - 1 BY <1>2, <1>4, ItemsFacts
<1>6. Without(g) = [g EXCEPT !.items = rest, !.index = to] BY DEF Without, rest, n, to
<1> HIDE DEF rest
<1>7. rest # <<>> => Len(rest) \in 1..MaxMedia BY <1>5, ItemsFacts
<1>8. to \in 1..MaxMedia /\ (rest # <<>> => to <= Len(rest)) BY <1>1, <1>2, <1>5, <1>7, UiAssumption
<1> HIDE DEF to
<1>9. [g EXCEPT !.items = rest, !.index = to] \in Galleries BY <1>5, <1>8 DEF Galleries
<1>10. Without(g).items = rest /\ Without(g).index = to BY <1>6 DEF Galleries
<1> QED BY <1>6, <1>8, <1>9, <1>10 DEF Listed

-----------------------------------------------------------------------------
(* The invariant is kept.                                                  *)
LEMMA FreeFacts == Inv /\ Free => worker = NoWork /\ running
BY DEF Inv, Asked, Free, None

LEMMA IdleAsked == worker' = NoWork => Asked'
BY DEF Asked, NoWork, None

LEMMA NoWorkTyped == NoWork \in Works
BY DEF NoWork, Works

LEMMA SubmitInv ==
  ASSUME Inv, Free, NEW kind \in Deferred, NEW scheduled \in BOOLEAN,
         NEW primary \in SUBSET Answers, Submit(kind, scheduled, primary),
         scheduled => CaptureDue(seq) /\ ((avail /\ ui.mode # "video") \/ \A o \in primary : ~o.ok)
  PROVE  Inv'
<1>1. TypeOK /\ worker = NoWork /\ running BY FreeFacts DEF Inv
<1>2. ui \in Uis /\ seq \in Captures /\ cam \in Cams /\ status \in Statuses
  BY <1>1, Types
<1>3. PICK o \in primary, go \in BOOLEAN :
        LET u == [ui EXCEPT !.stereo = @ \/ o.ok] IN
        /\ cam' = o.cam
        /\ IF o.ok /\ go
           THEN /\ worker' = [phase |-> "running", kind |-> kind, scheduled |-> scheduled,
                              ok |-> FALSE]
                /\ ui' = [u EXCEPT !.pending = kind]
                /\ UNCHANGED <<seq, status>>
           ELSE /\ ui' = Completed(u, kind, FALSE)
                /\ seq' = IF scheduled THEN NoSequence ELSE seq
                /\ status' \in IF kind = "snapshot" \/ deep THEN {status} ELSE Polled(o.cam)
                /\ UNCHANGED worker
        /\ UNCHANGED <<deep, avail, gallery, taken, running>>
  BY DEF Submit
<1> DEFINE u == [ui EXCEPT !.stereo = @ \/ o.ok]
<1>4. o.cam \in Cams /\ o.ok \in BOOLEAN BY DEF Answers
<1>5. u \in Uis /\ (o.ok => u.stereo) /\ u.mode = ui.mode BY <1>2, <1>4 DEF Uis
<1> HIDE DEF u
<1>6. kind \in Kinds /\ kind # None BY DEF Kinds, Deferred, None
<1>7. UNCHANGED <<deep, avail, gallery, taken, running>> /\ cam' = o.cam BY <1>3
<1>8. CASE o.ok /\ go
  <2>1. /\ worker' = [phase |-> "running", kind |-> kind, scheduled |-> scheduled, ok |-> FALSE]
        /\ ui' = [u EXCEPT !.pending = kind] /\ UNCHANGED <<seq, status>>
    BY <1>3, <1>8 DEF u
  <2>2. worker' \in Works /\ ui' \in Uis BY <1>5, <1>6, <2>1 DEF Works, Uis
  <2>3. TypeOK' BY <1>1, <1>4, <1>7, <2>1, <2>2, Types, NextTypes
  <2>4. ui'.pending = kind /\ ui'.stereo /\ ui'.mode = ui.mode BY <1>5, <1>8, <2>1 DEF Uis
  <2>5. Asked'
    BY <1>1, <1>6, <1>7, <1>8, <2>1, <2>4 DEF Asked, CaptureDue
  <2> QED BY <1>7, <2>1, <2>3, <2>5 DEF Inv, Listed, SleepAgrees
<1>9. CASE ~(o.ok /\ go)
  <2>1. /\ ui' = Completed(u, kind, FALSE) /\ seq' = IF scheduled THEN NoSequence ELSE seq
        /\ status' \in IF kind = "snapshot" \/ deep THEN {status} ELSE Polled(o.cam)
        /\ worker' = worker
    BY <1>3, <1>9 DEF u
  <2>2. ui' \in Uis /\ seq' \in Captures BY <1>2, <1>5, <1>6, <2>1, CompletedFacts, NoSequenceFacts
  <2>3. status' \in Statuses BY <1>2, <1>4, <2>1, PolledTyped
  <2>4. TypeOK' BY <1>1, <1>4, <1>7, <2>1, <2>2, <2>3, Types, NextTypes
  <2>5. SleepAgrees'
    <3>1. seq' = seq \/ (~seq'.active /\ ~seq'.sleeping) BY <2>1, NoSequenceFacts
    <3>2. scheduled => ~deep BY DEF Inv, SleepAgrees, CaptureDue
    <3> QED BY <1>7, <3>1, <3>2 DEF Inv, SleepAgrees
  <2> QED BY <1>1, <1>7, <2>1, <2>4, <2>5, IdleAsked DEF Inv, Listed
<1> QED BY <1>8, <1>9

LEMMA SubmitsInv ==
  ASSUME Inv, Snapshot \/ RecordToggle \/ Setting \/ WakeTouch \/ TakeShot PROVE Inv'
<1>1. cam \in Cams BY Types DEF Inv
<1>2. {Answered(cam)} \in SUBSET Answers /\ {Refused(cam)} \in SUBSET Answers BY <1>1, Plain
<1>3. PrimaryFor(ui, cam) \in SUBSET Answers BY <1>1, PrimaryTyped
<1>4. CASE Snapshot BY <1>3, <1>4, SubmitInv DEF Snapshot, UserMay, Deferred
<1>5. CASE RecordToggle
  <2>0. Free /\ "record" \in Deferred /\ "recordStop" \in Deferred
    BY <1>5 DEF RecordToggle, UserMay, Deferred
  <2>1. CASE Submit("record", FALSE, PrimaryFor(ui, cam))
    BY <1>3, <2>0, <2>1, SubmitInv
  <2>2. CASE Submit("recordStop", FALSE, {Answered(cam)})
    BY <1>2, <2>0, <2>2, SubmitInv
  <2> QED BY <1>5, <2>1, <2>2 DEF RecordToggle
<1>6. CASE Setting
  <2>1. PICK kind \in {"lens", "lcdOff", "setting"} : Submit(kind, FALSE, {Answered(cam)})
    BY <1>6 DEF Setting
  <2>2. kind \in Deferred BY DEF Deferred
  <2> QED BY <1>2, <1>6, <2>1, <2>2, SubmitInv DEF Setting, UserMay
<1>7. CASE WakeTouch
  <2>1. Free /\ "lcdOn" \in Deferred /\ Submit("lcdOn", FALSE, {Answered(cam)})
    BY <1>7 DEF WakeTouch, Deferred
  <2> QED BY <1>2, <2>1, SubmitInv
<1>8. CASE TakeShot
  <2> DEFINE primary == IF ~avail \/ ui.mode = "video" THEN {Refused(cam)} ELSE PrimaryFor(ui, cam)
  <2>1. primary \in SUBSET Answers BY <1>2, <1>3
  <2>2. (avail /\ ui.mode # "video") \/ \A o \in primary : ~o.ok BY <1>1, Plain
  <2>3. Free /\ CaptureDue(seq) /\ Submit("snapshot", TRUE, primary) BY <1>8 DEF TakeShot
  <2> HIDE DEF primary
  <2>4. "snapshot" \in Deferred BY DEF Deferred
  <2> QED BY <2>1, <2>2, <2>3, <2>4, SubmitInv
<1> QED BY <1>4, <1>5, <1>6, <1>7, <1>8

LEMMA WorkerRunsInv == ASSUME Inv, WorkerRuns PROVE Inv'
<1>1. TypeOK /\ worker \in Works /\ cam \in Cams /\ taken \in 0..(ShotMod - 1)
      /\ worker.phase = "running" /\ running /\ worker.kind # None
  BY Types DEF Inv, WorkerRuns, Asked
<1>2. worker.kind \in Deferred BY <1>1 DEF Works
<1>3. PICK o \in Work(worker.kind, cam), kept \in BOOLEAN :
        /\ cam' = o.cam /\ worker' = [worker EXCEPT !.phase = "complete", !.ok = o.ok]
        /\ taken' = IF worker.scheduled /\ kept THEN (taken + 1) % ShotMod ELSE taken
  BY DEF WorkerRuns
<1>4. o.cam \in Cams /\ o.ok \in BOOLEAN BY <1>1, <1>2, WorkTyped DEF Answers
<1>5. UNCHANGED <<ui, seq, deep, avail, gallery, status, running>> BY DEF WorkerRuns
<1>6. worker' \in Works BY <1>1, <1>3, <1>4 DEF Works
<1>7. worker'.phase = "complete" /\ worker'.kind = worker.kind /\ worker'.scheduled = worker.scheduled
  BY <1>1, <1>3 DEF Works
<1>8. taken' \in 0..(ShotMod - 1) BY <1>1, <1>3, UiAssumption
<1>9. TypeOK' BY <1>1, <1>3, <1>4, <1>5, <1>6, <1>8, Types, NextTypes
<1>10. Asked' BY <1>1, <1>5, <1>7 DEF Inv, Asked
<1> QED BY <1>5, <1>9, <1>10 DEF Inv, Listed, SleepAgrees

LEMMA SettingAnsweredInv == ASSUME Inv, SettingAnswered PROVE Inv'
<1>1. TypeOK /\ worker \in Works /\ ui \in Uis /\ status \in Statuses /\ cam \in Cams
  BY Types DEF Inv
<1>2. worker.kind \in Kinds /\ worker' = NoWork
  BY DEF SettingAnswered, Take, Kinds
<1>3. UNCHANGED <<seq, deep, avail, gallery, cam, taken, running>> BY DEF SettingAnswered
<1>4. ui' \in Uis
  <2>1. PICK follow \in BOOLEAN :
          ui' = Completed(ui, worker.kind, worker.ok /\ (follow \/ worker.kind # "lens"))
    BY DEF SettingAnswered
  <2>2. (worker.ok /\ (follow \/ worker.kind # "lens")) \in BOOLEAN OBVIOUS
  <2> QED BY <1>1, <1>2, <2>1, <2>2, CompletedFacts
<1>5. status' \in Statuses BY <1>1, <1>3, PolledTyped DEF SettingAnswered, PollAfter
<1>6. TypeOK' BY <1>1, <1>2, <1>3, <1>4, <1>5, NoWorkTyped, Types, NextTypes
<1> QED BY <1>2, <1>3, <1>6, IdleAsked DEF Inv, Listed, SleepAgrees

LEMMA SnapshotAnsweredInv == ASSUME Inv, SnapshotAnswered PROVE Inv'
<1> DEFINE lost == worker.scheduled /\ (~avail \/ ui.mode = "video")
           ok == worker.ok /\ ~lost
           nexts == IF lost THEN {NoSequence}
                    ELSE IF worker.scheduled THEN CompleteCapture(seq, ok) ELSE {seq}
<1>1. /\ TypeOK /\ worker \in Works /\ ui \in Uis /\ status \in Statuses /\ cam \in Cams
      /\ seq \in Captures /\ deep \in BOOLEAN /\ avail \in BOOLEAN
  BY Types DEF Inv
<1>2. worker' = NoWork /\ UNCHANGED <<gallery, taken, running>> BY DEF SnapshotAnswered, Take
<1>3. ok \in BOOLEAN OBVIOUS
<1>5. PICK next \in nexts :
        \/ /\ seq' = next /\ ui' = Completed(ui, "snapshot", ok)
           /\ status' \in IF worker.scheduled /\ ShouldSleep(next) /\ avail
                          THEN Polled(cam) ELSE {status}
           /\ UNCHANGED <<cam, deep, avail>>
        \/ /\ worker.scheduled /\ ok /\ ShouldSleep(next) /\ avail
           /\ Seen(cam) = "idle" /\ status' = "idle"
           /\ \E o \in StopForIdle(cam) :
                /\ cam' = o.cam /\ deep' = o.deep /\ avail' = ~o.deep
                /\ seq' = IF o.deep /\ ~o.slept THEN NoSequence ELSE SetSleeping(next, o.deep)
                /\ ui' = Restored(Completed(ui, "snapshot", TRUE), ~o.deep)
  BY DEF SnapshotAnswered
<1>6. worker.scheduled => ~deep /\ ~seq.sleeping BY DEF Inv, Asked, SleepAgrees
<1>7. next \in Captures /\ (next = seq \/ (worker.scheduled /\ ~next.sleeping))
  <2>1. CASE lost BY <2>1, NoSequenceFacts
  <2>2. CASE ~lost /\ worker.scheduled BY <1>1, <1>3, <1>6, <2>2, CountFacts
  <2>3. CASE ~lost /\ ~worker.scheduled BY <1>1, <2>3
  <2> QED BY <2>1, <2>2, <2>3
<1> HIDE DEF ok, nexts, lost
<1>8. "snapshot" \in Kinds BY DEF Kinds, Deferred
<1>9. CASE /\ seq' = next /\ ui' = Completed(ui, "snapshot", ok)
           /\ status' \in IF worker.scheduled /\ ShouldSleep(next) /\ avail
                          THEN Polled(cam) ELSE {status}
           /\ UNCHANGED <<cam, deep, avail>>
  <2>1. ui' \in Uis BY <1>1, <1>3, <1>8, <1>9, CompletedFacts
  <2>2. status' \in Statuses BY <1>1, <1>9, PolledTyped
  <2>3. TypeOK' BY <1>1, <1>2, <1>7, <1>9, <2>1, <2>2, NoWorkTyped, Types, NextTypes
  <2>4. SleepAgrees' BY <1>6, <1>7, <1>9 DEF Inv, SleepAgrees
  <2> QED BY <1>2, <2>3, <2>4, IdleAsked DEF Inv, Listed
<1>10. CASE /\ worker.scheduled /\ ShouldSleep(next) /\ status' = "idle"
            /\ \E o \in StopForIdle(cam) :
                 /\ cam' = o.cam /\ deep' = o.deep /\ avail' = ~o.deep
                 /\ seq' = IF o.deep /\ ~o.slept THEN NoSequence ELSE SetSleeping(next, o.deep)
                 /\ ui' = Restored(Completed(ui, "snapshot", TRUE), ~o.deep)
  <2>1. PICK o \in StopForIdle(cam) :
          /\ cam' = o.cam /\ deep' = o.deep /\ avail' = ~o.deep
          /\ seq' = IF o.deep /\ ~o.slept THEN NoSequence ELSE SetSleeping(next, o.deep)
          /\ ui' = Restored(Completed(ui, "snapshot", TRUE), ~o.deep)
    BY <1>10
  <2>2. o.cam \in Cams /\ o.deep \in BOOLEAN BY <1>1, StopForIdleTyped DEF Idles
  <2>3. ui' \in Uis BY <1>1, <1>8, <2>1, CompletedFacts, RestoredFacts
  <2>4. next.active BY <1>10 DEF ShouldSleep
  <2>5. seq' \in Captures /\ (seq'.sleeping <=> (seq'.active /\ deep'))
    BY <1>7, <2>1, <2>2, <2>4, NoSequenceFacts, SleepingFacts
  <2>6. status' \in Statuses BY <1>10 DEF Statuses
  <2>7. TypeOK' BY <1>1, <1>2, <2>1, <2>2, <2>3, <2>5, <2>6, NoWorkTyped, Types, NextTypes
  <2>8. SleepAgrees' BY <2>1, <2>5 DEF SleepAgrees
  <2> QED BY <1>2, <2>7, <2>8, IdleAsked DEF Inv, Listed
<1> QED BY <1>5, <1>9, <1>10

(* A step of the loop itself while the worker has nothing to do.           *)
LEMMA FreeStepInv ==
  ASSUME Inv, Free \/ worker.phase = "none", UNCHANGED <<worker, running>>,
         ui' \in Uis, seq' \in Captures, gallery' \in Galleries, Listed(gallery'),
         cam' \in Cams, status' \in Statuses, deep' \in BOOLEAN, avail' \in BOOLEAN,
         taken' \in 0..(ShotMod - 1), SleepAgrees'
  PROVE  Inv'
<1>1. worker = NoWork BY FreeFacts DEF Inv, Asked
<1>2. TypeOK' BY NextTypes, Types DEF Inv
<1>4. Asked' BY <1>1, IdleAsked
<1>3. Listed(gallery)' BY DEF Listed
<1> QED BY <1>2, <1>3, <1>4 DEF Inv

LEMMA Kept == TypeOK => /\ ui \in Uis /\ seq \in Captures /\ gallery \in Galleries
                        /\ cam \in Cams /\ status \in Statuses /\ deep \in BOOLEAN
                        /\ avail \in BOOLEAN /\ taken \in 0..(ShotMod - 1)
BY Types

LEMMA Awake ==
  ASSUME NEW ok \in BOOLEAN, deep' = ~ok, avail' = ok, seq' = seq, ~seq.active,
         SleepAgrees
  PROVE  SleepAgrees'
BY DEF SleepAgrees

LEMMA PowerInv == ASSUME Inv, ToggleLcd \/ WakeCamera \/ SwitchOff PROVE Inv'
<1>1. TypeOK /\ Listed(gallery) /\ SleepAgrees BY DEF Inv
<1>2. CASE ToggleLcd
  <2>1. ui' \in Uis BY <1>1, <1>2, Kept DEF ToggleLcd, Uis
  <2>2. SleepAgrees' BY <1>1, <1>2 DEF ToggleLcd, SleepAgrees
  <2> QED BY <1>1, <1>2, <2>1, <2>2, Kept, FreeStepInv DEF ToggleLcd
<1>3. CASE WakeCamera
  <2>1. PICK o \in RestorePrimary(cam), lcd \in BOOLEAN :
          /\ cam' = o.cam /\ deep' = ~o.ok /\ avail' = o.ok
          /\ ui' = Restored([ui EXCEPT !.lcd = @ \/ lcd], o.ok)
          /\ status' \in IF o.ok THEN Polled(o.cam) ELSE {status}
    BY <1>3 DEF WakeCamera
  <2>2. o.cam \in Cams /\ o.ok \in BOOLEAN BY <1>1, Kept, RestoreTyped DEF Answers
  <2>3. [ui EXCEPT !.lcd = @ \/ lcd] \in Uis BY <1>1, Kept DEF Uis
  <2>4. ui' \in Uis BY <2>1, <2>2, <2>3, RestoredFacts
  <2>5. status' \in Statuses BY <1>1, <2>1, <2>2, Kept, PolledTyped
  <2>6. SleepAgrees' BY <1>1, <1>3, <2>1, <2>2, Awake DEF WakeCamera
  <2> QED BY <1>1, <1>3, <2>1, <2>2, <2>4, <2>5, <2>6, Kept, FreeStepInv DEF WakeCamera
<1>4. CASE SwitchOff
  <2>1. PICK s \in IF gallery.active \/ ~avail THEN {status} ELSE Polled(cam) :
          /\ status' = s
          /\ \/ /\ ui' = [ui EXCEPT !.lcd = FALSE]
                /\ UNCHANGED <<deep, avail, cam>>
             \/ \E o \in StopForIdle(cam), back \in BOOLEAN :
                  /\ cam' = o.cam /\ deep' = o.deep /\ avail' = ~o.deep
                  /\ ui' = Restored([ui EXCEPT !.lcd = ~o.slept /\ back], ~o.deep)
    BY <1>4 DEF SwitchOff
  <2>2. status' \in Statuses BY <1>1, <2>1, Kept, PolledTyped
  <2>3. Free /\ ~seq.active /\ UNCHANGED <<seq, gallery, worker, taken, running>>
    BY <1>4 DEF SwitchOff, UserMay
  <2>4. CASE ui' = [ui EXCEPT !.lcd = FALSE] /\ UNCHANGED <<deep, avail, cam>>
    <3>1. ui' \in Uis BY <1>1, <2>4, Kept DEF Uis
    <3>2. SleepAgrees' BY <1>1, <2>3, <2>4 DEF SleepAgrees
    <3> QED BY <1>1, <2>2, <2>3, <2>4, <3>1, <3>2, Kept, FreeStepInv
  <2>5. CASE \E o \in StopForIdle(cam), back \in BOOLEAN :
               /\ cam' = o.cam /\ deep' = o.deep /\ avail' = ~o.deep
               /\ ui' = Restored([ui EXCEPT !.lcd = ~o.slept /\ back], ~o.deep)
    <3>1. PICK o \in StopForIdle(cam), back \in BOOLEAN :
               /\ cam' = o.cam /\ deep' = o.deep /\ avail' = ~o.deep
               /\ ui' = Restored([ui EXCEPT !.lcd = ~o.slept /\ back], ~o.deep)
      BY <2>5
    <3>2. o.cam \in Cams /\ o.deep \in BOOLEAN /\ o.slept \in BOOLEAN
      BY <1>1, Kept, StopForIdleTyped DEF Idles
    <3>3. [ui EXCEPT !.lcd = ~o.slept /\ back] \in Uis BY <1>1, <3>2, Kept DEF Uis
    <3>4. ui' \in Uis BY <3>1, <3>2, <3>3, RestoredFacts
    <3>5. SleepAgrees' BY <1>1, <2>3, <3>1, <3>2 DEF SleepAgrees
    <3> QED BY <1>1, <2>2, <2>3, <3>1, <3>2, <3>4, <3>5, Kept, FreeStepInv
  <2> QED BY <2>1, <2>4, <2>5
<1> QED BY <1>2, <1>3, <1>4

LEMMA SequenceInv ==
  ASSUME Inv, IntervalWake \/ SequenceStart \/ SequenceCancel \/ SequenceTick PROVE Inv'
<1>1. TypeOK /\ Listed(gallery) /\ SleepAgrees BY DEF Inv
<1>2. CASE IntervalWake
  <2>1. PICK o \in RestorePrimary(cam) :
          /\ cam' = o.cam /\ deep' = ~o.ok /\ avail' = o.ok
          /\ seq' = IF o.ok THEN SetSleeping(seq, FALSE) ELSE NoSequence
          /\ ui' = Restored(ui, o.ok)
          /\ status' \in IF o.ok THEN Polled(o.cam) ELSE {status}
    BY <1>2 DEF IntervalWake
  <2>2. o.cam \in Cams /\ o.ok \in BOOLEAN BY <1>1, Kept, RestoreTyped DEF Answers
  <2>3. ui' \in Uis BY <1>1, <2>1, <2>2, Kept, RestoredFacts
  <2>4. status' \in Statuses BY <1>1, <2>1, <2>2, Kept, PolledTyped
  <2>5. seq.active BY <1>2 DEF IntervalWake, ShouldWake
  <2>6. seq' \in Captures /\ (seq'.sleeping <=> (seq'.active /\ deep'))
    BY <1>1, <2>1, <2>2, <2>5, Kept, SleepingFacts, NoSequenceFacts
  <2>7. SleepAgrees' BY <2>1, <2>2, <2>6 DEF SleepAgrees
  <2> QED BY <1>1, <1>2, <2>1, <2>2, <2>3, <2>4, <2>6, <2>7, Kept, FreeStepInv DEF IntervalWake
<1>3. CASE SequenceStart
  <2>1. PICK drive \in Drives, jpeg \in BOOLEAN :
          LET ok == /\ ui.mode # "video" /\ avail /\ status = "idle"
                    /\ (drive = "burst" => jpeg)
          IN /\ seq' = IF ok THEN SequenceStarted(drive) ELSE seq
             /\ taken' = IF ok THEN 0 ELSE taken
             /\ ui' = Completed(ui, "seqStart", ok)
    BY <1>3 DEF SequenceStart
  <2> DEFINE ok == /\ ui.mode # "video" /\ avail /\ status = "idle"
                   /\ (drive = "burst" => jpeg)
  <2>2. ok \in BOOLEAN /\ (ok => ~deep) BY <1>1 DEF SleepAgrees
  <2>3. /\ seq' = IF ok THEN SequenceStarted(drive) ELSE seq
        /\ taken' = IF ok THEN 0 ELSE taken
        /\ ui' = Completed(ui, "seqStart", ok)
    BY <2>1
  <2> HIDE DEF ok
  <2>4. "seqStart" \in Kinds BY DEF Kinds
  <2>5. ui' \in Uis BY <1>1, <2>2, <2>3, <2>4, Kept, CompletedFacts
  <2>6. seq' \in Captures /\ taken' \in 0..(ShotMod - 1)
    <3>1. 0 \in 0..(ShotMod - 1) BY UiAssumption
    <3>2. seq \in Captures /\ taken \in 0..(ShotMod - 1) BY <1>1, Kept
    <3>3. CASE ok BY <2>3, <3>1, <3>3, StartedFacts
    <3>4. CASE ~ok BY <2>3, <3>2, <3>4
    <3> QED BY <3>3, <3>4
  <2>7. UNCHANGED <<deep, avail, gallery, worker, cam, running>> /\ Free
    BY <1>3 DEF SequenceStart, UserMay
  <2>8. SleepAgrees' BY <1>1, <2>2, <2>3, <2>7, StartedFacts DEF SleepAgrees
  <2>9. status' \in Statuses
    BY <1>1, <1>3, <2>7, Kept, PolledTyped DEF SequenceStart, PollAfter
  <2> QED BY <1>1, <2>5, <2>6, <2>7, <2>8, <2>9, Kept, FreeStepInv
<1>4. CASE SequenceCancel
  <2>1. PICK o \in IF deep THEN RestorePrimary(cam) ELSE {Answered(cam)} :
       /\ cam' = o.cam
       /\ deep' = (deep /\ ~o.ok)
       /\ avail' = IF deep THEN o.ok ELSE avail
       /\ ui' = Completed(Restored(ui, deep /\ o.ok), "seqCancel", o.ok)
    BY <1>4 DEF SequenceCancel
  <2>2. o.cam \in Cams /\ o.ok \in BOOLEAN BY <1>1, Kept, RestoreTyped, Plain DEF Answers
  <2>3. "seqCancel" \in Kinds BY DEF Kinds
  <2>4. (deep /\ o.ok) \in BOOLEAN BY <1>1, <2>2, Kept
  <2>5. Restored(ui, deep /\ o.ok) \in Uis BY <1>1, <2>4, Kept, RestoredFacts
  <2>6. ui' \in Uis BY <2>1, <2>2, <2>3, <2>5, CompletedFacts
  <2>7. /\ seq' = NoSequence /\ UNCHANGED <<gallery, worker, taken, running>> /\ Free
        /\ PollAfter
    BY <1>4 DEF SequenceCancel
  <2>8. status' \in Statuses BY <1>1, <2>1, <2>2, <2>7, Kept, PolledTyped DEF PollAfter
  <2>9. SleepAgrees' BY <1>1, <2>1, <2>2, <2>7, NoSequenceFacts DEF SleepAgrees
  <2>10. deep' \in BOOLEAN /\ avail' \in BOOLEAN BY <1>1, <2>1, <2>2, Kept
  <2> QED BY <1>1, <2>1, <2>2, <2>6, <2>7, <2>8, <2>9, <2>10, Kept, FreeStepInv, NoSequenceFacts
<1>5. CASE SequenceTick
  <2>1. seq \in Captures /\ seq' = [seq EXCEPT !.due = IF @ = "far" THEN "near" ELSE "now"]
    BY <1>1, <1>5, Kept DEF SequenceTick
  <2>2. seq' \in Captures /\ seq'.active = seq.active /\ seq'.sleeping = seq.sleeping
    BY <2>1 DEF Captures
  <2>3. UNCHANGED <<ui, deep, avail, gallery, worker, status, cam, taken, running>>
    BY <1>5 DEF SequenceTick
  <2>4. TypeOK' BY <1>1, <2>2, <2>3, Types, NextTypes
  <2>5. SleepAgrees' BY <1>1, <2>2, <2>3 DEF SleepAgrees
  <2>6. Asked' BY <2>2, <2>3 DEF Inv, Asked
  <2> QED BY <1>1, <2>3, <2>4, <2>5, <2>6 DEF Inv, Listed
<1> QED BY <1>2, <1>3, <1>4, <1>5

LEMMA ModeInv == ASSUME Inv, SetMode \/ SetResolution PROVE Inv'
<1>1. TypeOK /\ Listed(gallery) /\ SleepAgrees BY DEF Inv
<1>2. "mode" \in Kinds /\ "resolution" \in Kinds BY DEF Kinds
<1>3. CASE SetMode
  <2>0. PICK mode \in Modes \ {ui.mode} :
          \E o \in SwitchGraph(cam, mode = "night") :
            /\ cam' = o.cam
            /\ ui' = Completed(IF o.ok THEN [ui EXCEPT !.mode = mode, !.stereo = TRUE] ELSE ui,
                               "mode", o.ok)
    BY <1>3 DEF SetMode
  <2>1. PICK o \in SwitchGraph(cam, mode = "night") :
         /\ cam' = o.cam
         /\ ui' = Completed(IF o.ok THEN [ui EXCEPT !.mode = mode, !.stereo = TRUE] ELSE ui,
                            "mode", o.ok)
    BY <2>0
  <2>2. o.cam \in Cams /\ o.ok \in BOOLEAN
    <3>1. (mode = "night") \in BOOLEAN OBVIOUS
    <3>2. SwitchGraph(cam, mode = "night") \subseteq Answers BY <1>1, <3>1, Kept, SwitchGraphTyped
    <3> QED BY <2>1, <3>2 DEF Answers
  <2>3. [ui EXCEPT !.mode = mode, !.stereo = TRUE] \in Uis BY <1>1, Kept DEF Uis
  <2>4. ui' \in Uis BY <1>1, <1>2, <2>1, <2>2, <2>3, Kept, CompletedFacts
  <2>5. UNCHANGED <<seq, deep, avail, gallery, worker, taken, running>> /\ Free /\ PollAfter
    BY <1>3 DEF SetMode, UserMay
  <2>6. status' \in Statuses BY <1>1, <2>1, <2>2, <2>5, Kept, PolledTyped DEF PollAfter
  <2>7. SleepAgrees' BY <1>1, <2>5 DEF SleepAgrees
  <2> QED BY <1>1, <2>1, <2>2, <2>4, <2>5, <2>6, <2>7, Kept, FreeStepInv
<1>4. CASE SetResolution
  <2>1. PICK o \in SwitchGraph(cam, FALSE) :
          cam' = o.cam /\ ui' = Completed(Restored(ui, o.ok), "resolution", o.ok)
    BY <1>4 DEF SetResolution
  <2>2. o.cam \in Cams /\ o.ok \in BOOLEAN BY <1>1, Kept, SwitchGraphTyped DEF Answers
  <2>3. ui' \in Uis BY <1>1, <1>2, <2>1, <2>2, Kept, CompletedFacts, RestoredFacts
  <2>4. UNCHANGED <<seq, deep, avail, gallery, worker, taken, running>> /\ Free /\ PollAfter
    BY <1>4 DEF SetResolution, UserMay
  <2>5. status' \in Statuses BY <1>1, <2>1, <2>2, <2>4, Kept, PolledTyped DEF PollAfter
  <2>6. SleepAgrees' BY <1>1, <2>4 DEF SleepAgrees
  <2> QED BY <1>1, <2>1, <2>2, <2>3, <2>4, <2>5, <2>6, Kept, FreeStepInv
<1> QED BY <1>3, <1>4

LEMMA ServiceInv ==
  ASSUME Inv, LongPower \/ RecoverOrphan \/ Reconcile \/ Poll \/ StopUi \/ OtherClient
  PROVE  Inv'
<1>1. TypeOK /\ Listed(gallery) /\ SleepAgrees BY DEF Inv
<1>2. CASE LongPower
  <2>1. PICK kind \in {"seqCancel", "setting", "lcdOn"} : ui' = [ui EXCEPT !.pending = kind]
    BY <1>2 DEF LongPower
  <2>2. ui' \in Uis BY <1>1, <2>1, Kept DEF Uis, Kinds, Deferred
  <2>3. SleepAgrees' BY <1>1, <1>2 DEF LongPower, SleepAgrees
  <2> QED BY <1>1, <1>2, <2>2, <2>3, Kept, FreeStepInv DEF LongPower
<1>3. CASE RecoverOrphan
  <2>1. ui' \in Uis BY <1>1, <1>3, Kept DEF RecoverOrphan, Uis
  <2>2. SleepAgrees' BY <1>1, <1>3 DEF RecoverOrphan, SleepAgrees
  <2> QED BY <1>1, <1>3, <2>1, <2>2, Kept, FreeStepInv DEF RecoverOrphan
<1>4. CASE Reconcile
  <2>1. PICK o \in RestorePrimary(cam) :
          cam' = o.cam /\ avail' = o.ok /\ ui' = Restored(ui, o.ok)
    BY <1>4 DEF Reconcile
  <2>2. o.cam \in Cams /\ o.ok \in BOOLEAN BY <1>1, Kept, RestoreTyped DEF Answers
  <2>3. ui' \in Uis BY <1>1, <2>1, <2>2, Kept, RestoredFacts
  <2>4. ~deep /\ Free /\ UNCHANGED <<seq, deep, gallery, worker, status, taken, running>>
    BY <1>4 DEF Reconcile
  <2>5. SleepAgrees' BY <1>1, <2>4 DEF SleepAgrees
  <2> QED BY <1>1, <2>1, <2>2, <2>3, <2>4, <2>5, Kept, FreeStepInv
<1>5. CASE Poll
  <2>1. status' \in Statuses BY <1>1, <1>5, Kept, PolledTyped DEF Poll
  <2>2. SleepAgrees' BY <1>1, <1>5 DEF Poll, SleepAgrees
  <2> QED BY <1>1, <1>5, <2>1, <2>2, Kept, FreeStepInv DEF Poll
<1>6. CASE StopUi
  <2>1. PICK o \in IF gallery.active THEN Close(gallery, cam)
                   ELSE IF deep THEN StartGraph(cam) ELSE {Answered(cam)} : cam' = o.cam
    BY <1>6 DEF StopUi
  <2>2. o.cam \in Cams
    BY <1>1, Kept, CloseTyped, StartGraphTyped, Plain DEF Answers
  <2>3. /\ running' = FALSE /\ worker' = NoWork /\ UNCHANGED <<deep, avail>>
        /\ gallery' = NoGallery /\ seq' = NoSequence /\ status' = "unknown" /\ taken' = 0
        /\ ui' = [lcd |-> FALSE, screen |-> "main", pending |-> None, mode |-> "photo",
                  stereo |-> FALSE]
    BY <1>6 DEF StopUi, Gone
  <2>4. ui' \in Uis /\ status' \in Statuses BY <2>3 DEF Uis, Modes, Statuses
  <2>5. taken' \in 0..(ShotMod - 1) BY <2>3, UiAssumption
  <2>6. TypeOK' BY <1>1, <2>1, <2>2, <2>3, <2>4, <2>5, Kept, NoWorkTyped, NoGalleryFacts,
                   NoSequenceFacts, NextTypes
  <2>7. SleepAgrees' BY <1>1, <2>3, NoSequenceFacts DEF SleepAgrees
  <2>8. Listed(gallery)' BY <2>3, NoGalleryFacts DEF Listed
  <2> QED BY <2>3, <2>6, <2>7, <2>8, IdleAsked DEF Inv
<1>7. CASE OtherClient
  <2>1. cam' \in Cams BY <1>1, <1>7, Kept, GraphTyped DEF OtherClient, Cams
  <2>2. UNCHANGED <<ui, seq, deep, avail, gallery, worker, status, taken, running>>
    BY <1>7 DEF OtherClient
  <2>3. TypeOK' BY <1>1, <2>1, <2>2, Types, NextTypes
  <2>4. SleepAgrees' /\ Asked' BY <1>1, <2>2 DEF Inv, Asked, SleepAgrees
  <2> QED BY <1>1, <2>2, <2>3, <2>4 DEF Inv, Listed
<1> QED BY <1>2, <1>3, <1>4, <1>5, <1>6, <1>7

-----------------------------------------------------------------------------
(* The gallery leaves sequence, sleep and worker alone.                    *)
LEMMA GalleryStepInv ==
  ASSUME Inv, Free \/ worker.phase = "none",
         UNCHANGED <<seq, deep, avail, worker, taken, running>>,
         ui' \in Uis, gallery' \in Galleries, Listed(gallery'), cam' \in Cams,
         status' \in Statuses
  PROVE  Inv'
<1>1. TypeOK /\ SleepAgrees BY DEF Inv
<1>2. SleepAgrees' BY <1>1 DEF SleepAgrees
<1> QED BY <1>1, <1>2, Kept, FreeStepInv

LEMMA EnterInv == ASSUME Inv, Enter PROVE Inv'
<1>1. TypeOK /\ Listed(gallery) BY DEF Inv
<1>2. ui \in Uis /\ gallery \in Galleries /\ cam \in Cams /\ status \in Statuses
  BY <1>1, Kept
<1>3. UNCHANGED <<seq, deep, avail, worker, taken, running>> /\ Free /\ PollAfter
  BY DEF Enter, UserMay
<1>4. PICK items \in Listing :
       LET g == [NoGallery EXCEPT !.items = items] IN
       \/ /\ ui' = Completed(ui, "enter", FALSE)
          /\ gallery' \in IF status = "idle" THEN {g} ELSE {gallery}
          /\ UNCHANGED cam
       \/ /\ gallery' = [g EXCEPT !.active = TRUE]
          /\ ui' = Completed(ui, "enter", TRUE) /\ UNCHANGED cam
       \/ \E o \in StartPlayback(cam), opened \in BOOLEAN :
            LET h == [g EXCEPT !.suspended = TRUE, !.started = TRUE] IN
            IF o.ok /\ opened
            THEN /\ cam' = o.cam /\ ui' = Completed(ui, "enter", TRUE)
                 /\ gallery' = [h EXCEPT !.active = TRUE, !.ready = FALSE]
            ELSE /\ ui' = Completed(ui, "enter", FALSE)
                 /\ gallery' = g
                 /\ cam' \in IF o.ok THEN {p.cam : p \in Close(h, o.cam)} ELSE {o.cam}
  BY DEF Enter
<1> DEFINE g == [NoGallery EXCEPT !.items = items]
           h == [g EXCEPT !.suspended = TRUE, !.started = TRUE]
<1>5. g \in Galleries /\ Listed(g) BY ListingFacts, ScannedFacts
<1> HIDE DEF g
<1>6. h \in Galleries /\ h.items = g.items /\ h.index = g.index BY <1>5 DEF Galleries
<1>7. [g EXCEPT !.active = TRUE] \in Galleries /\ Listed([g EXCEPT !.active = TRUE])
  BY <1>5 DEF Galleries, Listed
<1> HIDE DEF h
<1>8. /\ [h EXCEPT !.active = TRUE, !.ready = FALSE] \in Galleries
      /\ Listed([h EXCEPT !.active = TRUE, !.ready = FALSE])
  BY <1>5, <1>6 DEF Galleries, Listed
<1>9. "enter" \in Kinds BY DEF Kinds
<1>10. Completed(ui, "enter", FALSE) \in Uis /\ Completed(ui, "enter", TRUE) \in Uis
  BY <1>2, <1>9, CompletedFacts
<1>11. ui' \in Uis /\ gallery' \in Galleries /\ Listed(gallery') /\ cam' \in Cams
  <2>1. CASE /\ ui' = Completed(ui, "enter", FALSE)
             /\ gallery' \in IF status = "idle" THEN {g} ELSE {gallery}
             /\ UNCHANGED cam
    BY <1>1, <1>2, <1>5, <1>10, <2>1
  <2>2. CASE /\ gallery' = [g EXCEPT !.active = TRUE]
             /\ ui' = Completed(ui, "enter", TRUE) /\ UNCHANGED cam
    BY <1>2, <1>7, <1>10, <2>2
  <2>3. CASE \E o \in StartPlayback(cam), opened \in BOOLEAN :
               IF o.ok /\ opened
               THEN /\ cam' = o.cam /\ ui' = Completed(ui, "enter", TRUE)
                    /\ gallery' = [h EXCEPT !.active = TRUE, !.ready = FALSE]
               ELSE /\ ui' = Completed(ui, "enter", FALSE)
                    /\ gallery' = g
                    /\ cam' \in IF o.ok THEN {p.cam : p \in Close(h, o.cam)} ELSE {o.cam}
    <3>1. PICK o \in StartPlayback(cam), opened \in BOOLEAN :
               IF o.ok /\ opened
               THEN /\ cam' = o.cam /\ ui' = Completed(ui, "enter", TRUE)
                    /\ gallery' = [h EXCEPT !.active = TRUE, !.ready = FALSE]
               ELSE /\ ui' = Completed(ui, "enter", FALSE)
                    /\ gallery' = g
                    /\ cam' \in IF o.ok THEN {p.cam : p \in Close(h, o.cam)} ELSE {o.cam}
      BY <2>3
    <3>2. o.cam \in Cams BY <1>2, StartPlaybackTyped DEF Answers
    <3>3. \A p \in Close(h, o.cam) : p.cam \in Cams BY <1>6, <3>2, CloseTyped DEF Answers
    <3>4. CASE o.ok /\ opened BY <1>8, <1>10, <3>1, <3>2, <3>4
    <3>5. CASE ~(o.ok /\ opened) BY <1>5, <1>10, <3>1, <3>2, <3>3, <3>5
    <3> QED BY <3>4, <3>5
  <2> QED BY <1>4, <2>1, <2>2, <2>3 DEF g, h
<1>12. status' \in Statuses BY <1>2, <1>3, <1>11, PolledTyped DEF PollAfter
<1> QED BY <1>3, <1>11, <1>12, GalleryStepInv

LEMMA ExitInv == ASSUME Inv, Exit PROVE Inv'
<1>1. TypeOK /\ Listed(gallery) BY DEF Inv
<1>2. ui \in Uis /\ gallery \in Galleries /\ cam \in Cams /\ status \in Statuses
  BY <1>1, Kept
<1>3. UNCHANGED <<seq, deep, avail, worker, taken, running>> /\ Free /\ PollAfter
  BY DEF Exit, UserMay
<1>4. PICK o \in Close(gallery, cam), preview \in BOOLEAN :
       LET ok == o.ok /\ (~gallery.suspended \/ ui.mode # "night" \/ preview) IN
       /\ cam' = o.cam
       /\ gallery' = IF o.ok THEN NoGallery ELSE [Closed(gallery) EXCEPT !.offset = 0]
       /\ ui' = Completed(Restored(ui, gallery.suspended /\ o.ok), "exit", ok)
  BY DEF Exit
<1> DEFINE ok == o.ok /\ (~gallery.suspended \/ ui.mode # "night" \/ preview)
           shown == Restored(ui, gallery.suspended /\ o.ok)
<1>5. o.cam \in Cams /\ o.ok \in BOOLEAN BY <1>2, CloseTyped DEF Answers
<1>6. ok \in BOOLEAN /\ (gallery.suspended /\ o.ok) \in BOOLEAN BY <1>2, <1>5 DEF Galleries
<1>7. shown \in Uis BY <1>2, <1>6, RestoredFacts
<1>8. ui' = Completed(shown, "exit", ok) BY <1>4
<1> HIDE DEF ok, shown
<1>9. "exit" \in Kinds BY DEF Kinds
<1>10. ui' \in Uis BY <1>6, <1>7, <1>8, <1>9, CompletedFacts
<1>11. /\ [Closed(gallery) EXCEPT !.offset = 0] \in Galleries
       /\ Listed([Closed(gallery) EXCEPT !.offset = 0])
  <2>1. /\ Closed(gallery) \in Galleries /\ Closed(gallery).items = gallery.items
        /\ Closed(gallery).index = gallery.index
    BY <1>2 DEF Closed, Galleries
  <2> QED BY <1>1, <2>1, UiAssumption DEF Galleries, Listed
<1>12. gallery' \in Galleries /\ Listed(gallery') BY <1>4, <1>5, <1>11, NoGalleryFacts
<1>13. status' \in Statuses BY <1>2, <1>3, <1>4, <1>5, PolledTyped DEF PollAfter
<1> QED BY <1>3, <1>4, <1>5, <1>10, <1>12, <1>13, GalleryStepInv

LEMMA NavigateInv ==
  ASSUME Inv, Navigate \/ MoveDeferred \/ NavigationTick PROVE Inv'
<1>1. TypeOK /\ Listed(gallery) /\ SleepAgrees BY DEF Inv
<1>2. ui \in Uis /\ gallery \in Galleries /\ cam \in Cams /\ status \in Statuses
  BY <1>1, Kept
<1>3. CASE Navigate
  <2>1. PICK step \in {-1, 1} :
       IF gallery.ready /\ gallery.offset = 0
       THEN \E r \in Moved(gallery, step) :
              gallery' = r.g /\ ui' = Completed(ui, "move", r.ok) /\ status' \in Polled(cam)
       ELSE /\ gallery' = [gallery EXCEPT !.offset =
                             IF gallery.items = <<>> THEN @
                             ELSE (@ + step) % Len(gallery.items)]
            /\ ui' = Completed(ui, "move", TRUE) /\ UNCHANGED status
    BY <1>3 DEF Navigate
  <2>2. "move" \in Kinds /\ step \in Int BY DEF Kinds
  <2>3. UNCHANGED <<seq, deep, avail, worker, cam, taken, running>> /\ Free
    BY <1>3 DEF Navigate, UserMay
  <2>4. CASE gallery.ready /\ gallery.offset = 0
    <3>1. PICK r \in Moved(gallery, step) :
            gallery' = r.g /\ ui' = Completed(ui, "move", r.ok) /\ status' \in Polled(cam)
      BY <2>1, <2>4
    <3>2. r.g \in Galleries /\ Listed(r.g) /\ r.ok \in BOOLEAN
      BY <1>1, <1>2, <2>2, MovedFacts
    <3> QED BY <1>2, <2>2, <2>3, <3>1, <3>2, CompletedFacts, PolledTyped, GalleryStepInv
  <2>5. CASE ~(gallery.ready /\ gallery.offset = 0)
    <3> DEFINE offset == IF gallery.items = <<>> THEN gallery.offset
                         ELSE (gallery.offset + step) % Len(gallery.items)
    <3>1. offset \in 0..MaxMedia
      <4>1. gallery.offset \in 0..MaxMedia /\ gallery.offset \in Int /\ gallery.items \in Items
        BY <1>2, UiAssumption DEF Galleries
      <4>2. CASE gallery.items = <<>> BY <4>1, <4>2
      <4>3. CASE gallery.items # <<>>
        <5>1. Len(gallery.items) \in 1..MaxMedia BY <4>1, <4>3, ItemsFacts
        <5>2. \A a \in Int, n \in 1..MaxMedia : a % n \in 0..(n - 1) BY UiAssumption
        <5>3. gallery.offset + step \in Int BY <2>2, <4>1
        <5>4. (gallery.offset + step) % Len(gallery.items) \in 0..(Len(gallery.items) - 1)
          BY <5>1, <5>2, <5>3
        <5>5. 0..(Len(gallery.items) - 1) \subseteq 0..MaxMedia BY <5>1, UiAssumption
        <5> QED BY <4>3, <5>4, <5>5
      <4> QED BY <4>2, <4>3
    <3>2. gallery' = [gallery EXCEPT !.offset = offset] /\ ui' = Completed(ui, "move", TRUE)
          /\ UNCHANGED status
      BY <2>1, <2>5
    <3> HIDE DEF offset
    <3>3. gallery' \in Galleries /\ Listed(gallery') BY <1>1, <1>2, <3>1, <3>2 DEF Galleries, Listed
    <3> QED BY <1>2, <2>2, <2>3, <3>2, <3>3, CompletedFacts, GalleryStepInv
  <2> QED BY <2>4, <2>5
<1>4. CASE MoveDeferred
  <2> DEFINE g == [gallery EXCEPT !.offset = 0]
  <2>1. PICK r \in Moved(g, gallery.offset) : gallery' = r.g BY <1>4 DEF MoveDeferred
  <2>2. g \in Galleries /\ Listed(g) /\ gallery.offset \in Int
    BY <1>1, <1>2, UiAssumption DEF Galleries, Listed
  <2> HIDE DEF g
  <2>3. r.g \in Galleries /\ Listed(r.g) BY <2>2, MovedFacts
  <2>4. UNCHANGED <<ui, seq, deep, avail, worker, status, cam, taken, running>> /\ Free
    BY <1>4 DEF MoveDeferred
  <2> QED BY <1>2, <2>1, <2>3, <2>4, GalleryStepInv
<1>5. CASE NavigationTick
  <2>1. gallery' \in Galleries /\ gallery'.items = gallery.items /\ gallery'.index = gallery.index
    BY <1>2, <1>5 DEF NavigationTick, Galleries
  <2>2. UNCHANGED <<ui, seq, deep, avail, worker, status, cam, taken, running>>
    BY <1>5 DEF NavigationTick
  <2>3. TypeOK' BY <1>1, <2>1, <2>2, Types, NextTypes
  <2>4. SleepAgrees' /\ Asked' BY <1>1, <2>2 DEF Inv, Asked, SleepAgrees
  <2> QED BY <1>1, <2>1, <2>3, <2>4 DEF Inv, Listed
<1> QED BY <1>3, <1>4, <1>5

LEMMA DeleteInv == ASSUME Inv, AskDelete \/ KeepFile \/ Delete PROVE Inv'
<1>1. TypeOK /\ Listed(gallery) BY DEF Inv
<1>2. ui \in Uis /\ gallery \in Galleries /\ cam \in Cams /\ status \in Statuses
  BY <1>1, Kept
<1>3. CASE AskDelete
  <2>1. /\ ui' = [ui EXCEPT !.screen = "confirm"] /\ gallery.items # <<>>
        /\ gallery' = [gallery EXCEPT !.asked = gallery.items[gallery.index]]
        /\ UNCHANGED <<seq, deep, avail, worker, status, cam, taken, running>> /\ Free
    BY <1>3 DEF AskDelete, UserMay
  <2>2. gallery.items[gallery.index] \in 0..MaxMedia
    <3>1. /\ gallery.items \in Seq(1..MaxMedia) /\ Len(gallery.items) \in Nat
          /\ gallery.index \in 1..MaxMedia /\ gallery.index <= Len(gallery.items)
      BY <1>1, <1>2, <2>1, ItemsFacts, UiAssumption DEF Galleries, Listed
    <3>2. gallery.items[gallery.index] \in 1..MaxMedia BY <3>1, ElementOfSeq, UiAssumption
    <3> QED BY <3>2, UiAssumption
  <2>3. gallery' \in Galleries /\ Listed(gallery') BY <1>1, <1>2, <2>1, <2>2 DEF Galleries, Listed
  <2>4. ui' \in Uis BY <1>2, <2>1 DEF Uis
  <2> QED BY <1>2, <2>1, <2>3, <2>4, GalleryStepInv
<1>4. CASE KeepFile
  <2>1. ui' \in Uis BY <1>2, <1>4 DEF KeepFile, Uis
  <2> QED BY <1>1, <1>2, <1>4, <2>1, GalleryStepInv DEF KeepFile, UserMay
<1>5. CASE Delete
  <2> DEFINE g == [gallery EXCEPT !.offset = 0]
  <2>1. g \in Galleries /\ Listed(g) BY <1>1, <1>2, UiAssumption DEF Galleries, Listed
  <2>2. \/ gallery' = g /\ ui' = Completed(ui, "delete", FALSE)
        \/ /\ g.items # <<>> /\ gallery' = Without(g)
           /\ \E opened \in BOOLEAN :
                ui' = Completed(ui, "delete", opened \/ ~g.started \/ Len(g.items) = 1)
    BY <1>5 DEF Delete
  <2>3. UNCHANGED <<seq, deep, avail, worker, cam, taken, running>> /\ Free /\ PollAfter
    BY <1>5 DEF Delete, UserMay
  <2> HIDE DEF g
  <2>4. gallery' \in Galleries /\ Listed(gallery') BY <2>1, <2>2, WithoutFacts
  <2>5. "delete" \in Kinds BY DEF Kinds
  <2>6. ui' \in Uis
    <3>1. \A opened \in BOOLEAN : (opened \/ ~g.started \/ Len(g.items) = 1) \in BOOLEAN
      OBVIOUS
    <3>2. \A ok \in BOOLEAN : Completed(ui, "delete", ok) \in Uis BY <1>2, <2>5, CompletedFacts
    <3> QED BY <2>2, <3>1, <3>2
  <2>7. status' \in Statuses BY <1>2, <2>3, PolledTyped DEF PollAfter
  <2> QED BY <1>2, <2>3, <2>4, <2>6, <2>7, GalleryStepInv
<1> QED BY <1>3, <1>4, <1>5

-----------------------------------------------------------------------------
LEMMA InvInit == Init => Inv
<1> SUFFICES ASSUME Init PROVE Inv
  OBVIOUS
<1>1. PICK mode \in Modes, c \in {Graph("down"), Graph("live")} :
        \E o \in RestorePrimary(c) :
          /\ cam = o.cam /\ avail = o.ok /\ status \in Polled(o.cam)
          /\ ui = [lcd |-> TRUE, screen |-> "main", pending |-> None, mode |-> mode,
                   stereo |-> o.ok]
  BY DEF Init
<1>2. PICK o \in RestorePrimary(c) :
          /\ cam = o.cam /\ avail = o.ok /\ status \in Polled(o.cam)
          /\ ui = [lcd |-> TRUE, screen |-> "main", pending |-> None, mode |-> mode,
                   stereo |-> o.ok]
  BY <1>1
<1>3. o.cam \in Cams /\ o.ok \in BOOLEAN BY GraphTyped, RestoreTyped DEF Answers
<1>4. ui \in Uis BY <1>2, <1>3 DEF Uis
<1>5. status \in Statuses BY <1>2, <1>3, PolledTyped
<1>6. /\ seq = NoSequence /\ deep = FALSE /\ gallery = NoGallery /\ worker = NoWork
      /\ taken = 0 /\ running = TRUE
  BY DEF Init
<1>7. TypeOK
  <2>1. taken \in 0..(ShotMod - 1) BY <1>6, UiAssumption
  <2> QED BY <1>2, <1>3, <1>4, <1>5, <1>6, <2>1, NoSequenceFacts, NoGalleryFacts, NoWorkTyped, Types
<1>8. Asked BY <1>6 DEF Asked, NoWork, None
<1>9. SleepAgrees BY <1>6, NoSequenceFacts DEF SleepAgrees
<1> QED BY <1>6, <1>7, <1>8, <1>9, NoGalleryFacts DEF Inv

LEMMA InvNext == Inv /\ [Next]_vars => Inv'
<1> SUFFICES ASSUME Inv, [Next]_vars PROVE Inv'
  OBVIOUS
<1>1. CASE User
  BY <1>1, SubmitsInv, PowerInv, ServiceInv, SequenceInv, ModeInv, EnterInv, ExitInv,
     NavigateInv, DeleteInv DEF User
<1>2. CASE Press BY <1>2, PowerInv DEF Press
<1>3. CASE Loop
  BY <1>3, SettingAnsweredInv, SnapshotAnsweredInv, ServiceInv, NavigateInv DEF Loop
<1>4. CASE TakeShot BY <1>4, SubmitsInv
<1>5. CASE IntervalWake \/ SequenceTick BY <1>5, SequenceInv
<1>6. CASE Reconcile \/ StopUi \/ OtherClient BY <1>6, ServiceInv
<1>7. CASE WorkerRuns BY <1>7, WorkerRunsInv
<1>8. CASE NavigationTick BY <1>8, NavigateInv
<1>9. CASE UNCHANGED vars
  BY <1>9 DEF vars, Inv, TypeOK, Listed, Asked, SleepAgrees
<1> QED BY <1>1, <1>2, <1>3, <1>4, <1>5, <1>6, <1>7, <1>8, <1>9 DEF Next

(* The types, for every length of a burst, number of files and modulus of  *)
(* the shot counter (target.c's camera_main and what it keeps).            *)
THEOREM TypeOKHolds == Spec => []TypeOK
<1>1. Inv => TypeOK BY DEF Inv
<1> QED BY InvInit, InvNext, <1>1, PTL DEF Spec

(* The file the gallery shows is one of its list, whatever was deleted,    *)
(* and however far the deferred navigation went (gallery_state_t index and *)
(* count in target_gallery.c).                                             *)
ShownIsListed == gallery.items # <<>> => gallery.index \in 1..Len(gallery.items)
THEOREM ShownIsListedHolds == Spec => []ShownIsListed
<1>1. Inv => ShownIsListed
  <2> SUFFICES ASSUME Inv, gallery.items # <<>> PROVE gallery.index \in 1..Len(gallery.items)
    BY DEF ShownIsListed
  <2>1. gallery.index \in 1..MaxMedia /\ gallery.items \in Items /\ gallery.index <= Len(gallery.items)
    BY Types DEF Inv, Galleries, Listed
  <2> QED BY <2>1, ItemsFacts, UiAssumption
<1> QED BY InvInit, InvNext, <1>1, PTL DEF Spec

(* The worker's answer finds its action pending, the stereo graph and the  *)
(* sequence it belongs to (api_action_worker_take).                        *)
THEOREM AnswerFindsItsQuestionHolds == Spec => []AnswerFindsItsQuestion
<1>1. Inv => AnswerFindsItsQuestion BY DEF Inv, Asked, AnswerFindsItsQuestion
<1> QED BY InvInit, InvNext, <1>1, PTL DEF Spec

(* The three records of sleep agree (camera_graph_available, deep_idle,    *)
(* capture_sequence.sleeping).                                             *)
THEOREM SleepAgreesHolds == Spec => []SleepAgrees
<1>1. Inv => SleepAgrees BY DEF Inv
<1> QED BY InvInit, InvNext, <1>1, PTL DEF Spec

=============================================================================
