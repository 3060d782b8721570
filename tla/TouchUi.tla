------------------------------ MODULE TouchUi ------------------------------
(***************************************************************************)
(* The main loop of the touchscreen program (src/ui/src/target.c) with its *)
(* API worker thread, the capture sequence (target_capture.c), the gallery *)
(* (target_gallery.c) and deep idle, against the camera backend it talks   *)
(* to over HTTP.                                                           *)
(*                                                                         *)
(* One action is what one iteration of the loop does for one event: an     *)
(* input with the whole handler it reaches, the worker's answer with its   *)
(* continuation, a power press, a shot that is due, a reconciliation.  The *)
(* worker thread, the backend and the backend's other clients interleave   *)
(* with the loop.  Every request may be refused, or be carried out while   *)
(* its answer is lost.  Screens are abstracted here to the gallery and the *)
(* rest; UiScreens has them all.                                           *)
(***************************************************************************)
EXTENDS Integers, Sequences

CONSTANTS
  BurstLimit,    \* shots of a burst (calf_drive_mode_shot_limit)
  ShotMod,       \* shot_count is an unsigned integer: counted modulo this
  MaxMedia,      \* most media files the gallery lists (1..MaxMedia name them)
  OtherClients   \* may the web client record, may the backend restart

ASSUME UiAssumption ==
  /\ BurstLimit \in Nat \ {0} /\ ShotMod \in Nat /\ BurstLimit < ShotMod
  /\ MaxMedia \in Nat \ {0} /\ OtherClients \in BOOLEAN

VARIABLES
  ui,       \* calf_ui_t: what is shown, what is pending, what is selected
  seq,      \* capture_sequence_t
  deep,     \* deep_idle
  avail,    \* camera_graph_available
  gallery,  \* gallery_state_t, the deferred navigation and the file the
            \* delete screen asked about
  worker,   \* api_action_worker_t
  status,   \* what the last poll of the backend's status told the loop
  cam,      \* the backend: what holds the camera, and whether it records
  taken,    \* photos the backend took for this sequence, modulo ShotMod
  running   \* g_running, until camera_main has returned
vars == <<ui, seq, deep, avail, gallery, worker, status, cam, taken, running>>

None == "none"
Modes == {"photo", "night", "video"}
Drives == {"timer", "burst", "interval", "short"}  \* single is a photo, no sequence
(* "record" is the start and "recordStop" the stop of CALF_ACTION_RECORD_TOGGLE;   *)
(* "setting" is every other request the worker carries.                    *)
Deferred == {"snapshot", "record", "recordStop", "lens", "lcdOn", "lcdOff", "setting"}
Kinds == Deferred \cup {"seqStart", "seqCancel", "enter", "exit", "move", "delete",
                        "mode", "resolution"}
NoSequence == [active |-> FALSE, kind |-> None, sleeping |-> FALSE, due |-> None,
               shots |-> 0]
NoGallery == [active |-> FALSE, suspended |-> FALSE, started |-> FALSE, items |-> <<>>,
              index |-> 1, offset |-> 0, ready |-> TRUE, asked |-> 0]
NoWork == [phase |-> "none", kind |-> None, scheduled |-> FALSE, ok |-> FALSE]

TypeOK ==
  /\ ui \in [lcd : BOOLEAN, screen : {"main", "gallery", "confirm"},
             pending : Kinds \cup {None},
             mode : Modes, stereo : BOOLEAN]
  /\ seq \in [active : BOOLEAN, kind : Drives \cup {None},
              sleeping : BOOLEAN, due : {None, "now", "near", "far"},
              shots : 0..(ShotMod - 1)]
  /\ deep \in BOOLEAN /\ avail \in BOOLEAN /\ running \in BOOLEAN
  /\ gallery \in [active : BOOLEAN, suspended : BOOLEAN, started : BOOLEAN,
                  items : UNION {[1..n -> 1..MaxMedia] : n \in 0..MaxMedia},
                  index : 1..MaxMedia, offset : 0..MaxMedia,
                  ready : BOOLEAN, asked : 0..MaxMedia]
  /\ worker \in [phase : {"none", "running", "complete"}, kind : Deferred \cup {None},
                 scheduled : BOOLEAN, ok : BOOLEAN]
  /\ status \in {"unknown", "idle", "recording", "playback"}
  /\ cam \in [graph : {"down", "live", "playback"}, rec : BOOLEAN]
  /\ taken \in 0..(ShotMod - 1)

-----------------------------------------------------------------------------
(* Requests.  An outcome is the backend after the request and the answer   *)
(* the program got: refused or lost on the way, carried out, or carried    *)
(* out with the answer lost (a timeout of http_request_port_with_timeout). *)
Refused(c) == [cam |-> c, ok |-> FALSE]
Answered(c) == [cam |-> c, ok |-> TRUE]
Request(c, done) == {Refused(c), Refused(done), Answered(done)}

Graph(g) == [graph |-> g, rec |-> FALSE]
Busy(c) == c.rec \/ c.graph = "playback"

(* cameramode start: refused while recording or playing back; a start that  *)
(* fails may leave the graph down.                                         *)
StartGraph(c) == IF Busy(c) THEN {Refused(c)}
                 ELSE Request(c, Graph("live")) \cup {Refused(Graph("down"))}
StopGraph(c) == IF Busy(c) THEN {Refused(c)} ELSE Request(c, Graph("down"))
StartPlayback(c) == IF Busy(c) THEN {Refused(c)} ELSE Request(c, Graph("playback"))
(* playback stop: the player ends first, the graph is rebuilt after it.    *)
StopPlayback(c) ==
  IF c.graph # "playback" THEN {Refused(c), Answered(c)}
  ELSE Request(c, Graph("live")) \cup {Refused(Graph("down"))}

(* Further requests follow, and the whole counts as failed when one fails: *)
(* encoder profile, image state, audio input, night preview.               *)
Then(outcomes) == outcomes \cup {Refused(o.cam) : o \in outcomes}
RestorePrimary(c) == Then(StartGraph(c))

Seen(c) == IF c.rec THEN "recording" ELSE IF c.graph = "playback" THEN "playback" ELSE "idle"
Polled(c) == {"unknown", Seen(c)}

-----------------------------------------------------------------------------
(* calf_ui_complete_action: what a successful action leaves on the screen. *)
Completed(u, kind, ok) ==
  [u EXCEPT !.pending = None,
            !.lcd = IF ok /\ kind \in {"lcdOn", "lcdOff"} THEN kind = "lcdOn" ELSE @,
            !.stereo = IF ok /\ kind = "lens" THEN ~@ ELSE @,
            !.screen = IF ~ok THEN @
                       ELSE IF kind \in {"enter", "move", "delete"} THEN "gallery"
                       ELSE IF kind = "exit" THEN "main" ELSE @]

(* capture_sequence_start: a timer counts down first, the others begin at  *)
(* once.                                                                   *)
SequenceStarted(drive) ==
  [active |-> TRUE, kind |-> drive, sleeping |-> FALSE,
   due |-> IF drive = "timer" THEN "far" ELSE "now", shots |-> 0]
SetSleeping(s, sleeping) == IF s.active THEN [s EXCEPT !.sleeping = sleeping] ELSE s

(* capture_sequence_complete_capture: the next shot of an interval is in   *)
(* the future, however late this one was.  (Of a sequence that is over no   *)
(* field but "active" is read again.)                                      *)
CompleteCapture(s, ok) ==
  IF ~s.active THEN {s} ELSE IF ~ok THEN {NoSequence}
  ELSE LET n == (s.shots + 1) % ShotMod
       IN CASE s.kind = "burst" -> {IF n >= BurstLimit THEN NoSequence ELSE [s EXCEPT !.shots = n]}
            [] s.kind = "timer" -> {NoSequence}
            [] s.kind = "short" -> {[s EXCEPT !.shots = n, !.due = "near"]}
            [] OTHER -> {[s EXCEPT !.shots = n, !.due = d] : d \in {"near", "far"}}

CaptureDue(s) == s.active /\ ~s.sleeping /\ s.due = "now"
ShouldSleep(s) == s.active /\ s.kind = "interval" /\ ~s.sleeping /\ s.due = "far"
ShouldWakeWrong(s) == s.active /\ s.sleeping /\ s.due = "far"  \* the test inverted
ShouldWake(s) == s.active /\ s.sleeping /\ s.due # "far"

-----------------------------------------------------------------------------
(* The program starts: the graph is asked for once, avail says whether that *)
(* and the settings after it went well; then the first poll.               *)
Init ==
  /\ \E mode \in Modes, c \in {Graph("down"), Graph("live")} :
       \E o \in RestorePrimary(c) :
         /\ cam = o.cam /\ avail = o.ok
         /\ status \in Polled(o.cam)
         /\ ui = [lcd |-> TRUE, screen |-> "main", pending |-> None, mode |-> mode,
                  stereo |-> o.ok]
  /\ seq = NoSequence /\ deep = FALSE /\ gallery = NoGallery /\ worker = NoWork
  /\ taken = 0 /\ running = TRUE

(* A new action is begun only when none is pending (begin_action).         *)
Free == running /\ ui.pending = None
(* A touch or key reaches a control: the screen is on, no sequence runs.   *)
UserMay == Free /\ ui.lcd /\ ~seq.active

(* After an action other than a photo the status is polled in the same     *)
(* iteration, unless the program is in deep idle.                          *)
PollAfter == status' \in IF deep' THEN {status} ELSE Polled(cam')

-----------------------------------------------------------------------------
(* The worker.                                                             *)
(* calf_ui_action_requires_primary: a photo or the start of a recording on  *)
(* one lens first restores the stereo graph.                               *)
PrimaryFor(u, c) == IF u.stereo THEN {Answered(c)} ELSE StartGraph(c)

(* The primary graph, then the thread: "go" says whether the requests after *)
(* the graph's start and pthread_create succeed.                           *)
Submit(kind, scheduled, primary) ==
  \E o \in primary, go \in BOOLEAN :
    LET u == [ui EXCEPT !.stereo = @ \/ o.ok] IN
    /\ cam' = o.cam
    /\ IF o.ok /\ go
       THEN /\ worker' = [phase |-> "running", kind |-> kind, scheduled |-> scheduled,
                          ok |-> FALSE]
            /\ ui' = [u EXCEPT !.pending = kind]
            /\ UNCHANGED <<seq, status>>
       ELSE /\ ui' = Completed(u, kind, FALSE)
            /\ seq' = IF scheduled THEN NoSequence ELSE seq
            /\ status' \in IF kind = "snapshot" \/ deep THEN {status} ELSE Polled(o.cam)
            /\ UNCHANGED worker
    /\ UNCHANGED <<deep, avail, gallery, taken, running>>

Snapshot == UserMay /\ ui.screen = "main" /\ Submit("snapshot", FALSE, PrimaryFor(ui, cam))
RecordToggle ==
  /\ UserMay /\ ui.screen = "main"
  /\ \/ status # "recording" /\ Submit("record", FALSE, PrimaryFor(ui, cam))
     \/ status \in {"recording", "unknown"}
        /\ Submit("recordStop", FALSE, {Answered(cam)})
Setting ==
  /\ UserMay /\ ui.screen = "main"
  /\ \E kind \in {"lens", "lcdOff", "setting"} :
       Submit(kind, FALSE, {Answered(cam)})
(* A touch while the screen is off only wakes it.                          *)
WakeTouch ==
  /\ Free /\ ~ui.lcd /\ (~deep \/ seq.active)
  /\ Submit("lcdOn", FALSE, {Answered(cam)})
(* The shot that is due is submitted as a photo without a touch.           *)
TakeShot ==
  /\ Free /\ CaptureDue(seq)
  /\ Submit("snapshot", TRUE, IF ~avail \/ ui.mode = "video" THEN {Refused(cam)}
                              ELSE PrimaryFor(ui, cam))

(* The thread: one request.                                                *)
Work(kind, c) ==
  CASE kind = "record" -> IF c.rec \/ c.graph # "live" THEN {Refused(c)}
                          ELSE Request(c, [c EXCEPT !.rec = TRUE])
    [] kind = "recordStop" -> IF ~c.rec THEN {Refused(c)} ELSE Request(c, [c EXCEPT !.rec = FALSE])
    [] kind = "snapshot" -> IF c.graph # "live" THEN {Refused(c)} ELSE Request(c, c)
    [] kind = "lens" -> StartGraph(c)
    [] OTHER -> Request(c, c)
WorkerRuns ==
  /\ worker.phase = "running"
  /\ \E o \in Work(worker.kind, cam), kept \in BOOLEAN :
       /\ cam' = o.cam /\ worker' = [worker EXCEPT !.phase = "complete", !.ok = o.ok]
       /\ kept => o.ok \/ cam.graph = "live"
       /\ o.ok => kept
       /\ taken' = IF worker.scheduled /\ kept THEN (taken + 1) % ShotMod ELSE taken
  /\ UNCHANGED <<ui, seq, deep, avail, gallery, status, running>>

(* api_action_worker_take and the rest of the action it interrupted.       *)
Take(kind) ==
  /\ running /\ worker.phase = "complete" /\ worker.kind = kind
  /\ worker' = NoWork
SettingAnswered ==
  /\ \E kind \in Deferred \ {"snapshot"} : Take(kind)
  /\ \E follow \in BOOLEAN :  \* image state, preview and audio after a new lens
       ui' = Completed(ui, worker.kind, worker.ok /\ (follow \/ worker.kind # "lens"))
  /\ UNCHANGED <<seq, deep, avail, gallery, cam, taken, running>>
  /\ PollAfter
-----------------------------------------------------------------------------
(* Deep idle.  The stop of the graph, and when it fails the attempt to have *)
(* it back; the graph is taken for available exactly when deep idle is not *)
(* entered.                                                                *)
StopForIdle(c) ==
  {[cam |-> o.cam, deep |-> TRUE, slept |-> TRUE] : o \in {p \in StopGraph(c) : p.ok}}
  \cup UNION {{[cam |-> r.cam, deep |-> ~r.ok, slept |-> FALSE] : r \in RestorePrimary(o.cam)} :
               o \in {p \in StopGraph(c) : ~p.ok}}
(* Stereo is what a restored primary graph shows.                          *)
Restored(u, ok) == [u EXCEPT !.stereo = @ \/ ok]

(* A photo's answer: the sequence counts it, and a long interval may put   *)
(* the camera to sleep until shortly before the next shot.                 *)
SnapshotAnswered ==
  /\ Take("snapshot")
  /\ LET lost == worker.scheduled /\ (~avail \/ ui.mode = "video")
         ok == worker.ok /\ ~lost
     IN \E next \in IF lost THEN {NoSequence}
                    ELSE IF worker.scheduled THEN CompleteCapture(seq, ok) ELSE {seq} :
        \/ /\ seq' = next /\ ui' = Completed(ui, "snapshot", ok)
           /\ status' \in IF worker.scheduled /\ ShouldSleep(next) /\ avail
                          THEN Polled(cam) ELSE {status}
           /\ UNCHANGED <<cam, deep, avail>>
        \/ /\ worker.scheduled /\ ok /\ ShouldSleep(next) /\ avail
           /\ Seen(cam) = "idle" /\ status' = "idle"
           /\ \E o \in StopForIdle(cam) :
                /\ cam' = o.cam /\ deep' = o.deep /\ avail' = ~o.deep
                /\ seq' = IF o.deep /\ ~o.slept THEN NoSequence ELSE SetSleeping(next, o.deep)
                /\ ui' = Restored(Completed(ui, "snapshot", TRUE), ~o.deep)
  /\ UNCHANGED <<gallery, taken, running>>

(* A short press of Power, the display timer, or a first touch in deep idle. *)
ToggleLcd ==
  /\ Free /\ (seq.active \/ (~deep /\ ~ui.lcd))
  /\ ui' = [ui EXCEPT !.lcd = ~@]
  /\ UNCHANGED <<seq, deep, avail, gallery, worker, status, cam, taken, running>>
WakeCamera ==
  /\ Free /\ ~seq.active /\ deep
  /\ \E o \in RestorePrimary(cam), lcd \in BOOLEAN :
       /\ cam' = o.cam /\ deep' = ~o.ok /\ avail' = o.ok
       /\ ui' = Restored([ui EXCEPT !.lcd = @ \/ lcd], o.ok)
       /\ status' \in IF o.ok THEN Polled(o.cam) ELSE {status}
  /\ UNCHANGED <<seq, gallery, worker, taken, running>>
SwitchOff ==
  /\ UserMay /\ ~deep
  /\ \E s \in IF gallery.active \/ ~avail THEN {status} ELSE Polled(cam) :
       /\ status' = s
       /\ \/ /\ ui' = [ui EXCEPT !.lcd = FALSE]  \* not safe, or a stream is running
             /\ UNCHANGED <<deep, avail, cam>>
          \/ /\ ~gallery.active /\ avail /\ s = "idle"
             /\ \E o \in StopForIdle(cam), back \in BOOLEAN :
                  /\ cam' = o.cam /\ deep' = o.deep /\ avail' = ~o.deep
                  /\ ui' = Restored([ui EXCEPT !.lcd = ~o.slept /\ back], ~o.deep)
  /\ UNCHANGED <<seq, gallery, worker, taken, running>>

(* An interval sequence wakes the camera before its next shot.             *)
IntervalWake ==
  /\ Free /\ deep /\ ShouldWake(seq)
  /\ \E o \in RestorePrimary(cam) :
       /\ cam' = o.cam /\ deep' = ~o.ok /\ avail' = o.ok
       /\ seq' = IF o.ok THEN SetSleeping(seq, FALSE) ELSE NoSequence
       /\ ui' = Restored(ui, o.ok)
       /\ status' \in IF o.ok THEN Polled(o.cam) ELSE {status}
  /\ UNCHANGED <<gallery, worker, taken, running>>

-----------------------------------------------------------------------------
(* The capture sequence.                                                   *)
SequenceStart ==
  /\ UserMay /\ ui.screen = "main"
  /\ \E drive \in Drives, jpeg \in BOOLEAN :
       LET ok == /\ ui.mode # "video" /\ avail /\ status = "idle"
                 /\ (drive = "burst" => jpeg)
       IN /\ seq' = IF ok THEN SequenceStarted(drive) ELSE seq
          /\ taken' = IF ok THEN 0 ELSE taken
          /\ ui' = Completed(ui, "seqStart", ok)
  /\ UNCHANGED <<deep, avail, gallery, worker, cam, running>>
  /\ PollAfter
(* Shutter or Back; the graph an interval put to sleep is restored.        *)
SequenceCancel ==
  /\ Free /\ ui.lcd /\ seq.active
  /\ seq' = NoSequence
  /\ \E o \in IF deep THEN RestorePrimary(cam) ELSE {Answered(cam)} :
       /\ cam' = o.cam
       /\ deep' = (deep /\ ~o.ok)
       /\ avail' = IF deep THEN o.ok ELSE avail
       /\ ui' = Completed(Restored(ui, deep /\ o.ok), "seqCancel", o.ok)
  /\ UNCHANGED <<gallery, worker, taken, running>>
  /\ PollAfter

-----------------------------------------------------------------------------
(* Capture mode and resolution: both rebuild the graph and put the old     *)
(* profile back, ignoring the answers, when a later request fails.  Whether *)
(* the graph is up afterwards is not recorded in avail.                    *)
SwitchGraph(c, stopFirst) ==
  LET stopped == IF stopFirst THEN StopGraph(c) ELSE {Answered(c)}
      started == UNION {StartGraph(p.cam) : p \in {q \in stopped : q.ok}}
      changed == {o \in started : o.ok \/ stopFirst}  \* graph_changed
  IN IF status # "idle" THEN {Refused(c)}
     ELSE {o \in started : o.ok} \cup (started \ changed) \cup {p \in stopped : ~p.ok}
          \cup {Refused(r.cam) : r \in UNION {StartGraph(o.cam) : o \in changed}}
SetMode ==
  /\ UserMay /\ ui.screen = "main"
  /\ \E mode \in Modes \ {ui.mode} :
       \E o \in SwitchGraph(cam, mode = "night") :
         /\ cam' = o.cam
         /\ ui' = Completed(IF o.ok THEN [ui EXCEPT !.mode = mode, !.stereo = TRUE] ELSE ui,
                            "mode", o.ok)
  /\ UNCHANGED <<seq, deep, avail, gallery, worker, taken, running>>
  /\ PollAfter
SetResolution ==
  /\ UserMay /\ ui.screen = "main"
  /\ \E o \in SwitchGraph(cam, FALSE) :
       cam' = o.cam /\ ui' = Completed(Restored(ui, o.ok), "resolution", o.ok)
  /\ UNCHANGED <<seq, deep, avail, gallery, worker, taken, running>>
  /\ PollAfter

-----------------------------------------------------------------------------
(* The gallery.                                                            *)
(* gallery_close_backend: close and stop; a stop that failed counts as done *)
(* when the backend says that nothing is playing.                          *)
Close(g, c) ==
  LET stopped == IF g.started THEN Then(StopPlayback(c)) ELSE {Answered(c)} IN
  stopped \cup {[o EXCEPT !.ok = TRUE] : o \in {p \in stopped : p.cam.graph # "playback"}}
Closed(g) == [g EXCEPT !.active = FALSE, !.started = FALSE]

Listing == {[i \in 1..n |-> i] : n \in 0..MaxMedia}
(* gallery_enter_backend, and what the loop does when it fails.            *)
Enter ==
  /\ UserMay /\ ui.screen = "main"
  /\ \E items \in Listing :
       LET g == [NoGallery EXCEPT !.items = items] IN
       \/ /\ ui' = Completed(ui, "enter", FALSE)  \* refused, or the scan failed
          /\ gallery' \in IF status = "idle" THEN {g} ELSE {gallery}
          /\ UNCHANGED cam
       \/ /\ status = "idle" /\ items = <<>>
          /\ gallery' = [g EXCEPT !.active = TRUE]
          /\ ui' = Completed(ui, "enter", TRUE) /\ UNCHANGED cam
       \/ /\ status = "idle" /\ items # <<>>
          /\ \E o \in StartPlayback(cam), opened \in BOOLEAN :
               LET h == [g EXCEPT !.suspended = TRUE, !.started = TRUE] IN
               IF o.ok /\ opened
               THEN /\ cam' = o.cam /\ ui' = Completed(ui, "enter", TRUE)
                    /\ gallery' = [h EXCEPT !.active = TRUE, !.ready = FALSE]
               ELSE /\ ui' = Completed(ui, "enter", FALSE)
                    /\ gallery' = g
                    /\ cam' \in IF o.ok THEN {p.cam : p \in Close(h, o.cam)} ELSE {o.cam}
  /\ UNCHANGED <<seq, deep, avail, worker, taken, running>>
  /\ PollAfter

(* Back.  suspended remembers that playback had the camera; it is cleared  *)
(* when the close counts as done, also when an earlier attempt failed.     *)
Exit ==
  /\ UserMay /\ ui.screen = "gallery"
  /\ \E o \in Close(gallery, cam), preview \in BOOLEAN :
       LET ok == o.ok /\ (~gallery.suspended \/ ui.mode # "night" \/ preview) IN
       /\ cam' = o.cam
       /\ gallery' = IF o.ok THEN NoGallery ELSE [Closed(gallery) EXCEPT !.offset = 0]
       /\ ui' = Completed(Restored(ui, gallery.suspended /\ o.ok), "exit", ok)
  /\ UNCHANGED <<seq, deep, avail, worker, taken, running>>
  /\ PollAfter

Wrapped(i, n) == ((i - 1) % n) + 1
(* gallery_move: the player closes the old file and opens the new one; when *)
(* that fails the old one is opened again.                                 *)
Moved(g, offset) ==
  IF ~g.active \/ g.items = <<>> \/ ~g.started THEN {[g |-> g, ok |-> FALSE]}
  ELSE LET h == [g EXCEPT !.index = Wrapped(@ + offset, Len(g.items)), !.ready = FALSE]
       IN {[g |-> h, ok |-> TRUE]} \cup {[g |-> g, ok |-> FALSE]}
(* Previous and next: at once, or added to the deferred navigation within  *)
(* 750 ms of the last move.                                                *)
Navigate ==
  /\ UserMay /\ ui.screen = "gallery"
  /\ \E step \in {-1, 1} :
       IF gallery.ready /\ gallery.offset = 0
       THEN \E r \in Moved(gallery, step) :
              gallery' = r.g /\ ui' = Completed(ui, "move", r.ok) /\ status' \in Polled(cam)
       ELSE /\ gallery' = [gallery EXCEPT !.offset =
                             IF gallery.items = <<>> THEN @
                             ELSE (@ + step) % Len(gallery.items)]
            /\ ui' = Completed(ui, "move", TRUE) /\ UNCHANGED status
  /\ UNCHANGED <<seq, deep, avail, worker, cam, taken, running>>
(* The deferred navigation, whatever screen is shown by then.              *)
MoveDeferred ==
  /\ Free /\ gallery.active /\ gallery.offset # 0 /\ gallery.ready
  /\ \E r \in Moved([gallery EXCEPT !.offset = 0], gallery.offset) : gallery' = r.g
  /\ UNCHANGED <<ui, seq, deep, avail, worker, status, cam, taken, running>>

(* Delete opens the screen that names the file; there Delete deletes it.   *)
AskDelete ==
  /\ UserMay /\ ui.screen = "gallery" /\ gallery.items # <<>>
  /\ ui' = [ui EXCEPT !.screen = "confirm"]
  /\ gallery' = [gallery EXCEPT !.asked = gallery.items[gallery.index]]
  /\ UNCHANGED <<seq, deep, avail, worker, status, cam, taken, running>>
KeepFile ==
  /\ UserMay /\ ui.screen = "confirm"
  /\ ui' = [ui EXCEPT !.screen = "gallery"]
  /\ UNCHANGED <<seq, deep, avail, gallery, worker, status, cam, taken, running>>
Without(g) ==
  LET rest == [i \in 1..(Len(g.items) - 1) |-> g.items[IF i < g.index THEN i ELSE i + 1]]
  IN [g EXCEPT !.items = rest, !.index = IF @ > Len(rest) /\ rest # <<>> THEN Len(rest) ELSE @]
Delete ==
  /\ UserMay /\ ui.screen = "confirm"
  /\ LET g == [gallery EXCEPT !.offset = 0] IN
     \/ gallery' = g /\ ui' = Completed(ui, "delete", FALSE)  \* not closed, not unlinked
     \/ /\ g.active /\ g.items # <<>>
        /\ gallery' = Without(g)
        /\ \E opened \in BOOLEAN :
             ui' = Completed(ui, "delete", opened \/ ~g.started \/ Len(g.items) = 1)
  /\ UNCHANGED <<seq, deep, avail, worker, cam, taken, running>>
  /\ PollAfter

-----------------------------------------------------------------------------
(* A long press drops the action of the same batch of input, which leaves  *)
(* it pending; it is refused while the worker is busy.                     *)
LongPower ==
  /\ Free /\ worker.phase = "none"
  /\ \E kind \in IF ui.lcd THEN (IF seq.active THEN {"seqCancel"} ELSE {"setting"})
                 ELSE (IF ~deep \/ seq.active THEN {"lcdOn"} ELSE {}) :
       ui' = [ui EXCEPT !.pending = kind]
  /\ UNCHANGED <<seq, deep, avail, gallery, worker, status, cam, taken, running>>
RecoverOrphanWrong ==  \* the worker is not asked
  /\ running /\ ui.pending # None /\ worker.phase # "complete"
  /\ ui' = [ui EXCEPT !.pending = None]
  /\ UNCHANGED <<seq, deep, avail, gallery, worker, status, cam, taken, running>>
RecoverOrphan ==
  /\ running /\ ui.pending # None /\ worker.phase = "none"
  /\ ui' = [ui EXCEPT !.pending = None]
  /\ UNCHANGED <<seq, deep, avail, gallery, worker, status, cam, taken, running>>

(* The start that did not work when the program began is tried again.      *)
ReconcileWrong ==  \* also in deep idle
  /\ Free /\ ~avail /\ ~gallery.active /\ ~seq.sleeping
  /\ \E o \in RestorePrimary(cam) :
       cam' = o.cam /\ avail' = o.ok /\ ui' = Restored(ui, o.ok)
  /\ UNCHANGED <<seq, deep, gallery, worker, status, taken, running>>
Reconcile ==
  /\ Free /\ ~deep /\ ~avail /\ ~gallery.active /\ ~seq.sleeping
  /\ \E o \in RestorePrimary(cam) :
       cam' = o.cam /\ avail' = o.ok /\ ui' = Restored(ui, o.ok)
  /\ UNCHANGED <<seq, deep, gallery, worker, status, taken, running>>

(* Every forty iterations, unless the worker is busy or the camera sleeps. *)
Poll ==
  /\ running /\ worker.phase = "none" /\ ~deep
  /\ status' \in Polled(cam)
  /\ UNCHANGED <<ui, seq, deep, avail, gallery, worker, cam, taken, running>>

SequenceTick ==
  /\ running /\ seq.active /\ seq.due # "now"
  /\ seq' = [seq EXCEPT !.due = IF @ = "far" THEN "near" ELSE "now"]
  /\ UNCHANGED <<ui, deep, avail, gallery, worker, status, cam, taken, running>>
NavigationTick ==
  /\ running /\ gallery.active /\ ~gallery.ready
  /\ gallery' = [gallery EXCEPT !.ready = TRUE]
  /\ UNCHANGED <<ui, seq, deep, avail, worker, status, cam, taken, running>>

(* A signal or the stock UI ends the loop: the worker is joined, the player *)
(* closed or the sleeping camera started.                                  *)
Gone ==  \* nothing of the process is left
  /\ gallery' = NoGallery /\ seq' = NoSequence /\ status' = "unknown" /\ taken' = 0
  /\ ui' = [lcd |-> FALSE, screen |-> "main", pending |-> None, mode |-> "photo",
            stereo |-> FALSE]
StopUi ==
  /\ running /\ worker.phase # "running"
  /\ running' = FALSE /\ worker' = NoWork
  /\ \E o \in IF gallery.active THEN Close(gallery, cam)
               ELSE IF deep THEN StartGraph(cam) ELSE {Answered(cam)} :
       cam' = o.cam
  /\ Gone /\ UNCHANGED <<deep, avail>>

(* The rest of the system: a recording by the web client, and a backend    *)
(* that crashed and was started again.                                     *)
OtherClient ==
  /\ running /\ OtherClients
  /\ \/ cam.graph = "live" /\ cam' = [cam EXCEPT !.rec = ~@]
     \/ cam' = Graph("down")
  /\ UNCHANGED <<ui, seq, deep, avail, gallery, worker, status, taken, running>>

-----------------------------------------------------------------------------
User == \/ Snapshot \/ RecordToggle \/ Setting \/ WakeTouch \/ SwitchOff \/ LongPower
        \/ SequenceStart \/ SequenceCancel \/ SetMode \/ SetResolution
        \/ Enter \/ Exit \/ Navigate \/ AskDelete \/ KeepFile \/ Delete
Press == ToggleLcd \/ WakeCamera
Loop == \/ SettingAnswered \/ SnapshotAnswered \/ RecoverOrphan \/ Poll \/ MoveDeferred
Next == \/ User \/ Press \/ Loop \/ TakeShot \/ IntervalWake \/ Reconcile
        \/ WorkerRuns \/ SequenceTick \/ NavigationTick \/ StopUi \/ OtherClient

(* The loop never blocks for good (every request has a time limit), nor    *)
(* does the worker; time passes.  A user cannot press a key in every       *)
(* iteration for ever, so what the loop may do by itself infinitely often  *)
(* it does.                                                                *)
Fairness ==
  /\ WF_vars(SettingAnswered) /\ WF_vars(SnapshotAnswered) /\ WF_vars(RecoverOrphan)
  /\ WF_vars(WorkerRuns) /\ WF_vars(SequenceTick)
  /\ SF_vars(TakeShot) /\ SF_vars(IntervalWake)
Spec == Init /\ [][Next]_vars /\ Fairness

-----------------------------------------------------------------------------
(* An answer the worker brings back finds the action that asked for it      *)
(* still pending and the state it was asked in: the stereo graph for a      *)
(* photo or a recording; for a shot of a sequence that sequence, awake and  *)
(* with a camera (api_action_worker_take).                                  *)
AnswerFindsItsQuestion ==
  worker.phase # "none" =>
    /\ running => ui.pending = worker.kind
    /\ worker.kind \in {"snapshot", "record"} => ui.stereo
    /\ worker.scheduled => seq.active /\ ~seq.sleeping /\ avail /\ ui.mode # "video"

(* The three records of sleep agree: the program never takes a camera it    *)
(* put to sleep for available, and a sequence sleeps exactly while the      *)
(* camera does, so that every sleeping sequence is woken for its next shot  *)
(* (camera_graph_available, deep_idle, capture_sequence.sleeping).          *)
SleepAgrees ==
  /\ deep => ~avail
  /\ seq.sleeping <=> (seq.active /\ deep)

(* A sequence does not stall: once a shot is due it is taken, or the        *)
(* sequence ends (the due, sleep and wake tests of the loop).               *)
SequenceProceeds ==
  (seq.active /\ running) ~> (worker.scheduled \/ ~seq.active \/ ~running)

=============================================================================
