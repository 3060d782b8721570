---------------------------- MODULE RecordingFiles ----------------------------
(***************************************************************************)
(* The files of a recording on the card: the hidden media file, its sample *)
(* journal and the final name (ngcd/src/mp4.c, and the recovery and        *)
(* publication of ngcd/src/backend_target.c).  The daemon can die between  *)
(* any two writes, and the camera can lose power, which also takes back    *)
(* what the kernel had not put on the card.  A clip is known by its        *)
(* sequence number; its samples by their position in the file.             *)
(***************************************************************************)
EXTENDS Integers, FiniteSets, Functions

CONSTANTS
  MaxClip,     \* sequence numbers on the card, MEDIA_SEQUENCE_LAST
  MaxSamples,  \* samples of one clip (bound of the model)
  Space        \* files and samples the card has room for (bound of the model)

ASSUME BoundsAssumption == MaxClip \in Nat /\ MaxSamples \in Nat /\ Space \in Nat

Clips   == 1 .. MaxClip
Counts  == 0 .. MaxSamples
Samples == 1 .. MaxSamples   \* positions in a file
NoClip  == 0

Names == {"none", "temp", "final"}

ClipStates ==
  [name     : Names,        \* what the directory shows
   shown    : SUBSET Names, \* earlier names a power loss may bring back
   journal  : BOOLEAN,      \* the .idx file exists
   unlinked : BOOLEAN,      \* its last change is not yet on the card
   video    : SUBSET Samples,  \* which of them are pictures
   until    : [Samples -> 1 .. MaxSamples + 1],
                            \* the first picture whose end is later than
                            \* the sample's time, MaxSamples + 1: none
   written  : Counts,       \* samples handed to stdio
   data     : Counts,       \* whose bytes lie within the media file
   index    : Counts,       \* whose records are complete in the journal
   good     : Counts,       \* whose bytes in the file are their own
   durable  : Counts,       \* complete on the card for certain
   table    : SUBSET Samples,  \* samples a complete moov lists, {}: no moov
   acked    : Counts]       \* ghost: samples whose journal flush returned;
                            \* 0 once unlinked, or unpublished at power loss

NoFile ==
  [name |-> "none", shown |-> {}, journal |-> FALSE, unlinked |-> FALSE,
   video |-> {}, until |-> [i \in Samples |-> 1],
   written |-> 0, data |-> 0, index |-> 0, good |-> 0,
   durable |-> 0, table |-> {}, acked |-> 0]

Smaller(a, b) == IF a <= b THEN a ELSE b
Larger(a, b)  == IF a <= b THEN b ELSE a

VARIABLES
  proc,  \* "off", "down", "recovering", "up": power and the daemon
  step,  \* where the writer of cur is
  cur,   \* the clip whose writer is open
  todo,  \* clips still to be met: by the mount, or by recovery's readdir
  card   \* the files of every clip

vars == <<proc, step, cur, todo, card>>

Steps == {"idle", "opening", "open", "flushed", "sealing", "sealed",
          "closed", "dropping"}

TypeOK ==
  /\ proc \in {"off", "down", "recovering", "up"}
  /\ step \in Steps
  /\ cur \in Clips \cup {NoClip}
  /\ todo \in SUBSET Clips
  /\ card \in [Clips -> ClipStates]

Init ==
  /\ proc = "down"
  /\ step = "idle"
  /\ cur = NoClip
  /\ todo = {}
  /\ card = [c \in Clips |-> NoFile]

(* The writer's clip moves to r, its program to s.                         *)
Write(r, s) ==
  /\ card' = [card EXCEPT ![cur] = r]
  /\ step' = s
  /\ UNCHANGED <<proc, cur, todo>>

(* The writer is freed.                                                    *)
Leave(r) ==
  /\ card' = [card EXCEPT ![cur] = r]
  /\ step' = "idle"
  /\ cur' = NoClip
  /\ UNCHANGED <<proc, todo>>

Clip == card[cur]

-----------------------------------------------------------------------------
(* Opening: open_writer.                                                   *)

(* Operators named ...Wrong, ...Unsynced or ...Early are plausible mistakes *)
(* in the operator they precede; a property must notice each of them.      *)

(* A hidden file, even one without a journal, reserves its number, and so  *)
(* does a journal without its file: reserved_media_sequence.               *)
Reserved == {c \in Clips : card[c].name # "none" \/ card[c].journal}

IsNext(c) == c \notin Reserved /\ \A d \in Clips : d >= c => d \notin Reserved

NextClip(c) == IsNext(c) /\ \A d \in Clips : IsNext(d) => c <= d

(* What the files f take up, a file as much as a sample.                   *)
Used(f) ==
  FoldFunction(+, 0, [c \in Clips |->
                        IF f[c] = NoFile THEN 0 ELSE 1 + f[c].written])

RecordStart(c) ==
  /\ proc = "up"
  /\ step = "idle"
  /\ NextClip(c)
  /\ Used([card EXCEPT ![c] = NoFile]) < Space
  /\ card' = [card EXCEPT ![c] =
                [NoFile EXCEPT !.name = "temp", !.shown = {"none"}]]
  /\ cur' = c
  /\ step' = "opening"
  /\ UNCHANGED <<proc, todo>>

OpenJournal ==
  /\ step = "opening"
  /\ Write([Clip EXCEPT !.journal = TRUE, !.unlinked = TRUE], "open")

(* Abort, and every failure of the writer: the file goes first, then the   *)
(* journal (RemoveJournal).                                                *)
Unlinked(r) ==
  [r EXCEPT !.name = "none", !.shown = @ \cup {r.name}, !.acked = 0]

Abort ==
  /\ proc = "up"
  /\ step \in {"opening", "open", "flushed"}
  /\ Write(Unlinked(Clip), "dropping")

-----------------------------------------------------------------------------
(* Samples.  Video and audio are flushed, first the file, then the journal *)
(* record; motion samples stay in the stdio buffers, which the library     *)
(* writes out when they fill, each on its own.                             *)

(* Sound and motion may lie within the pictures so far, only within those   *)
(* of a later one, or within none.                                         *)
Times(r, kind) ==
  IF kind = "video" THEN {1} ELSE {1} \cup (r.written + 2 .. MaxSamples + 1)

Appended(r, kind, u) ==
  [r EXCEPT !.written = @ + 1,
            !.video = IF kind = "video" THEN @ \cup {r.written + 1} ELSE @,
            !.until = [@ EXCEPT ![r.written + 1] = u]]

FileFlushed(r) == [r EXCEPT !.data = r.written, !.good = r.written]

WriteSample(kind) ==
  /\ step = "open"
  /\ Clip.written < MaxSamples /\ Used(card) < Space
  /\ kind = "audio" => Clip.video # {}
  /\ \E u \in Times(Clip, kind) :
       Write(FileFlushed(Appended(Clip, kind, u)), "flushed")

JournalFlushed(r) == [r EXCEPT !.index = r.written, !.acked = r.written]

JournalSample ==
  /\ step = "flushed"
  /\ Write(JournalFlushed(Clip), "open")

WriteMotion ==
  /\ step = "open"
  /\ Clip.written < MaxSamples /\ Used(card) < Space
  /\ Clip.video # {}
  /\ \E d, i \in Counts, u \in Times(Clip, "motion") :
       /\ d \in Clip.data .. Clip.written + 1
       /\ i \in Clip.index .. Clip.written + 1
       /\ Write([Appended(Clip, "motion", u) EXCEPT
                   !.data = d, !.good = d, !.index = i], "open")

-----------------------------------------------------------------------------
(* Closing: ngcd_mp4_close.                                                *)

(* The backend aborts a clip without video, and closes every other: the    *)
(* size of mdat and the moov box follow the samples into the file.  (The   *)
(* last, padded audio frame is one more WriteSample.)                      *)
Stop ==
  /\ step = "open"
  /\ Clip.video # {}
  /\ Write(FileFlushed(Clip), "sealing")

VideoIn(r, n) == {i \in r.video : i <= n}

(* What the tables of a file of n samples list: every picture, and of sound *)
(* and motion what lies within the pictures.  The bytes of the others stay *)
(* in the file.  Each picture moves the end, so more samples never list    *)
(* less; which samples go is chosen one by one, without their order in a   *)
(* track, which is more than the times allow (ClipTables has them).        *)
Within(r, n) ==
  {i \in 1 .. n : i \in r.video \/ \E v \in VideoIn(r, n) : r.until[i] <= v}

(* fdatasync, then fclose: data and size are on the card.                  *)
SealedUnsynced(r) ==  \* no fdatasync
  [r EXCEPT !.table = Within(r, r.written)]
SealedShort(r) ==     \* the last picture is not counted into the duration
  [r EXCEPT !.table = {i \in Within(r, r.written) : i \in r.video
                         \/ \E v \in VideoIn(r, r.written) : r.until[i] < v},
            !.durable = r.written]
Sealed(r) ==
  [r EXCEPT !.table = Within(r, r.written), !.durable = r.written]

Sync ==
  /\ step = "sealing"
  /\ Write(Sealed(Clip), "sealed")

(* A write, the sync or the close fails: the file is unlinked.  Recovery   *)
(* closes through the same code.                                           *)
CloseFails ==
  /\ step = "sealing"
  /\ Write(Unlinked(Clip), "dropping")

(* Closing the journal flushes its last records; recovery only reads it.   *)
JournalRemoved(r) ==
  [r EXCEPT !.journal = FALSE, !.unlinked = TRUE,
            !.index = Larger(@, r.written)]

RemoveJournalEarly ==  \* before the sync
  /\ step = "sealing"
  /\ Write(JournalRemoved(Clip), "sealing")

RemoveJournal ==
  /\ step = "sealed"
  /\ Write(JournalRemoved(Clip), "closed")

DropJournalWrong ==  \* the writer is not let go
  /\ step = "dropping"
  /\ Write(JournalRemoved(Clip), "dropping")

DropJournal ==
  /\ step = "dropping"
  /\ Leave(JournalRemoved(Clip))

(* publish_media: a rename, refused when the final name is taken, which    *)
(* the reservation of the number excludes.  The rename itself may fail:    *)
(* the backend then unlinks the file, recovery leaves it hidden.           *)
Published(r) == [r EXCEPT !.name = "final", !.shown = @ \cup {"temp"}]

Publish ==
  /\ step = "closed"
  /\ Leave(Published(Clip))

PublishFails ==
  /\ step = "closed"
  /\ IF proc = "recovering" THEN Leave(Clip) ELSE Leave(Unlinked(Clip))

-----------------------------------------------------------------------------
(* Recovery at start: target_recover_recordings and ngcd_mp4_recover.      *)

Start ==
  /\ proc = "down"
  /\ proc' = "recovering"
  /\ todo' = {c \in Clips : card[c].name = "temp"}
  /\ UNCHANGED <<step, cur, card>>

(* The card is absent or read-only when the daemon starts.                 *)
StartWithoutCard ==
  /\ proc = "down"
  /\ proc' = "up"
  /\ UNCHANGED <<step, cur, todo, card>>

(* The records the journal holds of samples the file holds.                *)
Committed(r) == Smaller(r.data, r.index)

(* Every video sample is read back and its units are walked: one that is   *)
(* not what was written makes the whole recovery fail.                     *)
Recoverable(r) ==
  /\ r.name = "temp"
  /\ r.journal
  /\ VideoIn(r, Committed(r)) # {}
  /\ \A i \in VideoIn(r, Committed(r)) : i <= r.good

(* The file is cut after the last committed sample and closed again.  The  *)
(* journal keeps its later records, and the moov box written in their place *)
(* may reach over the bytes of d samples.  Of what is cut off no kind and  *)
(* no time is kept; were it acknowledged, it would count as within the     *)
(* first picture.                                                          *)
Truncated(r, n, d) ==
  [r EXCEPT !.video = VideoIn(r, n),
            !.until = [i \in Samples |-> IF i <= n THEN @[i] ELSE 1],
            !.written = n, !.data = d, !.good = Smaller(@, n),
            !.durable = Smaller(@, n), !.table = {}]

RecoverRead(c) ==
  /\ proc = "recovering"
  /\ step = "idle"
  /\ c \in todo
  /\ Recoverable(card[c])
  /\ \E d \in Counts :
       /\ d \in Committed(card[c]) .. card[c].index
       /\ card' = [card EXCEPT ![c] = Truncated(@, Committed(@), d)]
  /\ cur' = c
  /\ step' = "sealing"
  /\ todo' = todo \ {c}
  /\ UNCHANGED proc

(* Nothing to recover, or a read error: the files stay as they are.        *)
RecoverSkip(c) ==
  /\ proc = "recovering"
  /\ step = "idle"
  /\ c \in todo
  /\ todo' = todo \ {c}
  /\ UNCHANGED <<proc, step, cur, card>>

RecoverDone ==
  /\ proc = "recovering"
  /\ step = "idle"
  /\ todo = {}
  /\ proc' = "up"
  /\ UNCHANGED <<step, cur, todo, card>>

-----------------------------------------------------------------------------
(* The daemon dies: its buffers are lost, what the kernel has stays.       *)
Crash ==
  /\ proc \in {"recovering", "up"}
  /\ proc' = "down"
  /\ step' = "idle"
  /\ cur' = NoClip
  /\ todo' = {}
  /\ UNCHANGED card

(* The camera loses power; Remount finds, clip by clip, what is left.      *)
PowerLoss ==
  /\ proc # "off"
  /\ proc' = "off"
  /\ step' = "idle"
  /\ cur' = NoClip
  /\ todo' = Clips
  /\ UNCHANGED card

(* What a power loss may leave of a clip: a name the directory showed      *)
(* before, a journal that was just created or removed or the reverse, fewer *)
(* samples than the kernel had taken, and files whose size is right and    *)
(* whose content is not.  What was synced stays.                           *)
Remains(r, n, j, d, g, i, t) ==
  [r EXCEPT !.name = n, !.shown = {}, !.journal = j, !.unlinked = FALSE,
            !.data = d, !.good = Smaller(g, d), !.durable = d,
            !.index = IF j THEN i ELSE 0, !.table = t,
            !.acked = IF n = "final" THEN r.acked ELSE 0]

Settled(r) == IF r.name = "none" /\ ~r.journal THEN NoFile ELSE r

Remount(c) ==
  /\ proc = "off"
  /\ c \in todo
  /\ \E n \in {card[c].name} \cup card[c].shown, j \in BOOLEAN,
        d, g, i \in Counts, t \in {card[c].table, {}} :
       /\ j # card[c].journal => card[c].unlinked
       /\ d \in card[c].durable .. card[c].data
       /\ g \in Smaller(card[c].durable, card[c].good) .. card[c].good
       /\ i <= card[c].index
       /\ t # card[c].table => card[c].durable < card[c].written
       /\ card' = [card EXCEPT ![c] = Settled(Remains(@, n, j, d, g, i, t))]
  /\ todo' = todo \ {c}
  /\ UNCHANGED <<proc, step, cur>>

PowerOn ==
  /\ proc = "off"
  /\ todo = {}
  /\ proc' = "down"
  /\ UNCHANGED <<step, cur, todo, card>>

-----------------------------------------------------------------------------
Recover ==
  \/ \E c \in Clips : RecoverRead(c) \/ RecoverSkip(c)
  \/ RecoverDone

Record ==
  \/ \E c \in Clips : RecordStart(c)
  \/ OpenJournal \/ Abort
  \/ \E kind \in {"video", "audio"} : WriteSample(kind)
  \/ JournalSample \/ WriteMotion \/ Stop

Close ==
  \/ Sync \/ CloseFails \/ RemoveJournal \/ DropJournal
  \/ Publish \/ PublishFails

Power ==
  \/ Start \/ StartWithoutCard \/ Crash \/ PowerLoss
  \/ \E c \in Clips : Remount(c)
  \/ PowerOn

Next == Recover \/ Record \/ Close \/ Power

(* The daemon's code runs on; no recording, failure, restart or loss of    *)
(* power is assumed to happen.                                             *)
Fairness == WF_vars(Recover) /\ WF_vars(Close)

Spec == Init /\ [][Next]_vars /\ Fairness

-----------------------------------------------------------------------------
(* A published recording is complete: its tables list every picture and    *)
(* all sound and motion within the pictures, nothing that is not in the    *)
(* file, there is video, and every video sample has its own content, also  *)
(* after any number of crashes and power losses.  That is what fdatasync   *)
(* before rename, and reading every video sample back, are for.            *)
PublishedIsComplete ==
  \A c \in Clips : card[c].name = "final" =>
    /\ card[c].table = Within(card[c], card[c].written)
    /\ card[c].table \subseteq 1 .. card[c].data
    /\ VideoIn(card[c], card[c].written) # {}
    /\ \A i \in VideoIn(card[c], card[c].written) : i <= card[c].good

(* Of the samples whose journal record was flushed, every picture is in the *)
(* tables of the published file, and so is all sound and motion within     *)
(* those pictures, through any number of crashes of the daemon and of      *)
(* recoveries, unless a power loss found the clip before it was published. *)
(* Sound later than the last picture is lost with the pictures that would  *)
(* have been seen with it.                                                 *)
Acknowledged(r) == Within(r, r.acked)

PublishedHasAcknowledged ==
  \A c \in Clips :
    card[c].name = "final" => Acknowledged(card[c]) \subseteq card[c].table

(* The daemon may die at any moment: a hidden file with acknowledged       *)
(* samples is recoverable with all of them, or already complete (closed,   *)
(* its journal removed, not yet renamed).                                  *)
CrashLosesNothing ==
  \A c \in Clips :
    card[c].name = "temp" /\ card[c].acked > 0 =>
      \/ Recoverable(card[c]) /\ card[c].acked <= Committed(card[c])
      \/ ~card[c].journal /\ Acknowledged(card[c]) \subseteq card[c].table

(* While there is power, a published file is never touched again, and a    *)
(* hidden one only by its own writer or by recovery: numbers are not       *)
(* reused while a file, or its predecessor's, is still hidden.             *)
EarlierClipsUntouched ==
  [][proc # "off" =>
       \A c \in Clips : card'[c] # card[c] =>
         /\ card[c].name # "final"
         /\ card[c].name = "temp" => c = cur \/ proc = "recovering"]_vars

(* Recovery ends, however its files look, or is ended by a crash.          *)
RecoveryEnds == (proc = "recovering") ~> (proc # "recovering")

(* What of this state a user is promised: see RecordingPromise.            *)
Promise == INSTANCE RecordingPromise WITH
  saved    <- {c \in Clips : card[c].name = "final"},
  content  <- [c \in Clips |->
                 IF card[c].name = "final" THEN card[c].table ELSE {}],
  promised <- [c \in Clips |-> Acknowledged(card[c])]

(* The files implement the promise: the code never gives up, shortens or   *)
(* touches a recording in a way the promise does not allow.                *)
KeepsPromise == Promise!Spec

=============================================================================
