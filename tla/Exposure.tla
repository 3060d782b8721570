------------------------------- MODULE Exposure -------------------------------
(***************************************************************************)
(* Exposure and ISO, from the touchscreen to the two sensors.  Four parties *)
(* hold a piece of it: the UI (ui/src/target.c: the mode, the pair it       *)
(* shows, three kinds of file), the backend (ngcd/src/backend_target.c: the *)
(* accepted pair, the transient Night preview), the snapshot coordinator    *)
(* (calf_fw_tool/capture.py) and the helper that sets both sensors' frame   *)
(* interval (calf_fw_tool/sensor_timing.py).  In Night mode the live graph  *)
(* shows a brighter preview at a few frames per second; a photo needs the   *)
(* real exposure; outside Night the sensors run at 30.                     *)
(*                                                                         *)
(* The UI and the coordinator are lists of requests, each of which says     *)
(* what follows when it fails; a request is one step of the backend, which  *)
(* serves them one by one.  A pair is known by its exposure: the ISO goes   *)
(* with it, and a pair of which only the exposure was taken counts as new.  *)
(***************************************************************************)
EXTENDS Integers, Requests

CONSTANTS
  Modes,     \* the capture modes of the menu
  MaxFaults  \* calls that fail, and processes that die, in one behaviour
ASSUME ConstantsAssumption ==
  Modes \subseteq {"photo", "video", "night"} /\ "photo" \in Modes /\ MaxFaults \in Nat

VARIABLES
  files,   \* the profile's pair, a pair for each kind of mode, the mode
  ui,      \* the running UI: its mode, what it shows, what it said
  job,     \* the requests it still has to make
  co,      \* the coordinator of one snapshot
  b,       \* the backend and the sensors
  photo,   \* ghost: the photo taken, the exposure of its frames and whose stack they are
  faults

exposureVars == <<files, ui, job, co, b, photo, faults>>

PhotoPairs == {"auto", "eighth"}
NightPairs == {"eighth", "four"}       \* 1/8 s, and 4 s, which is a stack
Kind(mode) == IF mode = "night" THEN "night" ELSE "photo"
GraphOf(mode) == IF mode = "video" THEN "video" ELSE "pic"
Allowed(mode) == IF mode = "night" THEN NightPairs ELSE PhotoPairs

(* The frame rate a photo needs, the exposure of one frame of it, and the   *)
(* rate of the preview.                                                    *)
Rate(pair) == CASE pair = "eighth" -> 8 [] pair \in {"four", "half"} -> 2 [] OTHER -> 30
Stacked(pair) == pair = "four"
Frame(pair) == IF Stacked(pair) THEN "half" ELSE pair
PreviewRate(pair) == CASE pair = "eighth" -> 8 [] pair \in {"four", "half"} -> 4 [] OTHER -> 0

-----------------------------------------------------------------------------
(* What a request does: the backend after it, whether it is answered well,  *)
(* and how many calls failed.                                              *)
Does(b_, ok, cost) == [b |-> b_, ok |-> ok, cost |-> cost]

-----------------------------------------------------------------------------
(* The helper.  Both sensors get the interval, then their streams are        *)
(* stopped and started; a failure goes back to 30, which may fail as well.  *)
Both(fps) == [internal |-> fps, external |-> fps, streaming |-> TRUE]
Sensors(s, ok, cost) == [s |-> s, ok |-> ok, cost |-> cost]
Helper(s, fps) ==
  {Sensors(Both(fps), TRUE, 0),
   Sensors(s, FALSE, 1),          \* the nodes cannot be opened
   Sensors(Both(30), FALSE, 1),
   Sensors([s EXCEPT !.internal = fps], FALSE, 2),
   Sensors(Both(fps), FALSE, 2),
   Sensors([Both(30) EXCEPT !.streaming = FALSE], FALSE, 2)}

(* Calls of the helper by the backend, which first writes the rate for the  *)
(* exposure control to read, and removes it when the helper fails.         *)
Timing(b_, fps) ==
  {Does([b_ EXCEPT !.sensors = h.s, !.file = IF h.ok THEN fps ELSE 30], h.ok, h.cost)
     : h \in Helper(b_.sensors, fps)}
  \cup {Does(b_, FALSE, 1)}       \* the file cannot be written

(* target_night_preview: timing, then the pair, and for a step down to 4    *)
(* the same again over a bridge; whatever fails, back to the old rate.      *)
Attempt(fps) ==
  Timing(b, fps) \cup {Does(t.b, FALSE, t.cost + 1) : t \in {x \in Timing(b, fps) : x.ok}}
  \cup IF fps = 4 /\ b.cached > 4
       THEN UNION {{Does(u.b, FALSE, t.cost + u.cost) : u \in {x \in Timing(t.b, fps) : ~x.ok}}
                     : t \in {x \in Timing(b, fps) : x.ok}}
       ELSE {}
NightPreview(fps) ==  \* a pair of the other modes has no preview
  IF b.camera # "on" \/ fps = 0 THEN {Does(b, FALSE, 0)}
  ELSE UNION {IF t.ok THEN {Does([t.b EXCEPT !.cached = fps, !.transient = fps # 30], TRUE, t.cost)}
              ELSE {Does(r.b, FALSE, t.cost + r.cost) : r \in Timing(t.b, b.cached)}
                : t \in Attempt(fps)}

-----------------------------------------------------------------------------
(* The graph.  Its start sets the sensors to 30 and applies the accepted    *)
(* pair, which ends the transient one; it is no step when the graph runs    *)
(* already.  A start that fails goes back to the graph there was.          *)
Forget(b_) == [b_ EXCEPT !.transient = FALSE, !.cached = 30, !.file = 30]
Running(b_, graph) == [b_ EXCEPT !.camera = "on", !.graph = graph, !.sensors = Both(30),
                                 !.transient = FALSE]
StartGraph(graph) ==
  CASE b.camera = "on" /\ b.graph = graph -> {Does(b, TRUE, 0)}
    [] b.camera = "playing" -> {Does(b, FALSE, 0)}
    [] OTHER ->
         {Does(Running(Forget(b), graph), TRUE, 0),
          Does(b, FALSE, 1),
          Does(IF b.camera = "on" THEN Running(Forget(b), b.graph) ELSE Forget(b), FALSE, 1),
          Does([Forget(b) EXCEPT !.camera = "off"], FALSE, 2)}
StopGraph ==
  IF b.camera = "playing" THEN {Does(b, FALSE, 0)}
  ELSE {Does([Forget(b) EXCEPT !.camera = "off"], TRUE, 0), Does(b, FALSE, 1)}

(* The gallery stops the graph and leaves the preview's marks in place; a   *)
(* graph that does not come back is tried again by the next exit.          *)
Playback ==
  IF b.camera = "playing" THEN {Does(b, FALSE, 0)}
  ELSE {Does([b EXCEPT !.camera = "playing"], TRUE, 0), Does(b, FALSE, 1)}
EndPlayback == {Does(Running(b, b.graph), TRUE, 0), Does([b EXCEPT !.camera = "off"], FALSE, 1)}

(* The ordinary setter, three times where the caller tries again, and the   *)
(* reading, which reports the accepted pair also while a preview is shown.  *)
Accepted(pair) == [b EXCEPT !.desired = pair, !.transient = FALSE]
SetPair(pair) ==
  IF b.camera # "on" THEN {Does(b, FALSE, 0)}
  ELSE {Does(Accepted(pair), TRUE, 0), Does(b, FALSE, 1), Does(Accepted(pair), FALSE, 1)}
ReadPair == b.desired

(* The JPEG.  While the coordinator's stack marker is there the frames are   *)
(* half a second long, whatever the pair became meanwhile.  It is refused   *)
(* when that exposure does not show in what the sensors do.  A stack builds *)
(* the photo in a graph of its own.                                        *)
Steady(exposure) ==
  exposure = "auto" \/ (b.sensors.streaming /\ b.sensors.internal <= Rate(exposure)
                                            /\ b.sensors.external <= Rate(exposure))
ExposedWrong == b.desired                \* the marker only counts the frames
Exposed == IF b.stack # "none" THEN "half" ELSE b.desired
Taken == b.camera = "on" /\ ~b.transient
Snapshot ==
  IF ~Taken THEN {Does(b, FALSE, 0)}
  ELSE LET after == [b EXCEPT !.stack = "none"] IN
       {Does(after, FALSE, 1)}
       \cup IF ~Steady(Exposed) THEN {Does(after, FALSE, 0)}
            ELSE {Does(after, TRUE, 0)} \cup
                 IF b.stack # "none"
                   THEN {Does(Running(after, b.graph), TRUE, 0),
                         Does([after EXCEPT !.camera = "off"], FALSE, 1)}
                 ELSE {}

(* The coordinator's own use of the helper: its marker stays when the       *)
(* helper fails, and the way back tries twice.                             *)
OwnTiming(b_, fps) ==
  {Does([b_ EXCEPT !.sensors = h.s, !.file = fps], h.ok, h.cost) : h \in Helper(b_.sensors, fps)}
RestoreWrong ==  \* one attempt, and it is taken for done
  {Does(t.b, TRUE, t.cost) : t \in OwnTiming(b, 30)}
Restore ==
  UNION {IF t.ok THEN {t}
         ELSE {Does(u.b, u.ok, t.cost + u.cost) : u \in OwnTiming(t.b, 30)}
           : t \in OwnTiming(b, 30)}

(* What the UI reads to show: in Night its own file, otherwise the accepted *)
(* pair, or the profile's when there is no graph.                          *)
ShownOf(kept, mode) ==
  IF mode = "night" THEN kept.night ELSE IF b.camera = "on" THEN ReadPair ELSE kept.profile
Shown(mode) == ShownOf(files, mode)

Outcomes(r) ==
  CASE r.op = "preview" -> NightPreview(PreviewRate(r.arg))
    [] r.op = "standard" -> NightPreview(30)
    [] r.op = "start" -> StartGraph(r.arg)
    [] r.op = "stop" -> StopGraph
    [] r.op = "play" -> Playback
    [] r.op = "endPlay" -> EndPlayback
    [] r.op \in {"set", "apply"} -> SetPair(r.arg)
    [] r.op = "sync" -> IF ui.mode = "night" THEN {Does(b, TRUE, 0), Does(b, FALSE, 1)}
                        ELSE SetPair(Shown("photo"))
    [] r.op = "other" -> {Does(b, TRUE, 0), Does(b, FALSE, 1)}  \* encoder, sound, RAW
    [] r.op = "timing" -> OwnTiming(b, r.arg)
    [] r.op = "restore" -> Restore
    [] r.op = "flag" -> {Does([b EXCEPT !.stack = r.arg], TRUE, 0), Does(b, FALSE, 1)}
    [] r.op = "snapshot" -> Snapshot

Spend(cost) == faults + cost <= MaxFaults /\ faults' = faults + cost

-----------------------------------------------------------------------------
(* The coordinator: which pair it takes, and its requests for it.           *)
TakingWrong == files.profile          \* as in the other modes
Taking == IF files.mode = "night" THEN files.night ELSE files.profile
Restoring(pair) == <<OrElse("restore", 0, <<>>), May("set", pair)>>
Shoot(pair) ==
  If(Stacked(pair), <<MustElse("flag", pair, Restoring(pair))>>)
  \o <<MustElse("other", 0, Restoring(pair)), Note("snapshot", 0),
       MustElse("restore", 0, <<>>), May("set", pair)>>
Again(pair) ==  \* in the graph that was started afresh
  <<MustElse("timing", Rate(pair), Restoring(pair)),
    MustElse("set", Frame(pair), Restoring(pair))>> \o Shoot(pair)
Recovery(pair) ==
  LET anew == <<Must("stop", 0), OrElse("start", "pic", <<Must("start", "pic")>> \o Again(pair))>>
              \o Again(pair)
  IN  <<OrElse("restore", 0, anew), May("set", pair)>> \o anew
CaptureRequests(pair) ==
  IF Rate(pair) = 30 THEN <<Must("set", pair), Must("other", 0), Must("snapshot", 0)>>
  ELSE <<MustElse("timing", Rate(pair), Restoring(pair)),
         OrElse("set", Frame(pair), Recovery(pair))>> \o Shoot(pair)

NoPhoto == [frame |-> "none", of |-> "none"]
NoCapture == [busy |-> FALSE, todo |-> <<>>, ok |-> TRUE, pair |-> "auto",
              asked |-> "auto", mode |-> "photo", orphan |-> FALSE]
NoJob == [name |-> "none", to |-> "none", ok |-> TRUE, todo |-> <<>>]

ExposureInit ==
  /\ files = [profile |-> "auto", photo |-> "auto", night |-> "eighth", mode |-> "photo"]
  /\ ui = [up |-> FALSE, mode |-> "photo", shown |-> "auto", available |-> FALSE,
           gallery |-> FALSE]
  /\ job = NoJob /\ co = NoCapture /\ photo = NoPhoto /\ faults = 0
  /\ b = [camera |-> "off", graph |-> "pic", desired |-> "auto", transient |-> FALSE,
          cached |-> 30, file |-> 30, sensors |-> Both(30), stack |-> "none"]

CoordinatorStep ==
  /\ co.busy /\ co.todo # <<>>
  /\ \E o \in Outcomes(Head(co.todo)) :
       /\ Spend(o.cost) /\ b' = o.b
       /\ co' = After(co, Head(co.todo), o.ok)
       /\ photo' = IF Head(co.todo).op = "snapshot" /\ o.ok
                   THEN [frame |-> Exposed, of |-> b.stack] ELSE photo
  /\ UNCHANGED <<files, ui, job>>
CoordinatorEnds ==
  /\ co.busy /\ co.todo = <<>>
  /\ co' = NoCapture /\ photo' = NoPhoto
  /\ b' = [b EXCEPT !.stack = "none"]
  /\ UNCHANGED <<files, ui, job, faults>>

-----------------------------------------------------------------------------
(* The UI.  It has one job at a time; a button or a poll begins none while   *)
(* there is one.                                                           *)
Idle == ui.up /\ job.name = "none"
Begin(name, to, todo) == job' = [name |-> name, to |-> to, ok |-> TRUE, todo |-> todo]
InNight == ui.mode = "night"
PreviewAgainWrong == <<>>                  \* the graph is taken to keep it
PreviewAgain == If(InNight, <<May("preview", ui.shown)>>)

(* The graph with everything on it: at the start of the process, and when   *)
(* the camera was away.                                                    *)
Boot ==
  /\ ~ui.up
  /\ ui' = [up |-> TRUE, mode |-> files.mode, shown |-> Shown(files.mode),
            available |-> FALSE, gallery |-> FALSE]
  /\ Begin("boot", "none", <<MustElse("start", GraphOf(files.mode), <<>>), Note("other", 0)>>
       \o IF files.mode = "night"
            THEN <<Must("sync", 0), Must("apply", files.night), Must("preview", files.night)>>
            ELSE <<May("sync", 0)>>)
  /\ UNCHANGED <<files, co, b, photo, faults>>
PrimaryGraph ==
  <<Must("start", GraphOf(ui.mode)), Must("other", 0), Must("sync", 0), Must("other", 0)>>
  \o If(InNight, <<Must("preview", files.night)>>)
Recover ==
  /\ Idle /\ ~ui.available /\ ~ui.gallery
  /\ Begin("recover", "none", PrimaryGraph)
  /\ UNCHANGED <<files, ui, co, b, photo, faults>>

(* The deep idle of an interval capture.                                    *)
Sleep ==
  /\ Idle /\ ui.available /\ ~ui.gallery
  /\ Begin("sleep", "none", <<OrElse("stop", 0, PrimaryGraph)>>)
  /\ UNCHANGED <<files, ui, co, b, photo, faults>>

(* The shutter.  The coordinator reads the mode and the pair; busy, it      *)
(* refuses.  The UI waits, and brings the preview back.                    *)
Press ==
  /\ Idle /\ ~ui.gallery /\ ui.mode # "video"
  /\ co' = IF co.busy THEN co
           ELSE [busy |-> TRUE, todo |-> CaptureRequests(Taking), ok |-> TRUE, pair |-> Taking,
                 asked |-> ui.shown, mode |-> ui.mode, orphan |-> FALSE]
  /\ Begin("snapshot", "none", PreviewAgain)
  /\ UNCHANGED <<files, ui, b, photo, faults>>
Waiting == job.name = "snapshot" /\ co.busy /\ ~co.orphan

(* The mode.  The pair of the mode that is left is saved where Night is     *)
(* involved, and the other mode's is read; one that is not its mode's is   *)
(* replaced by the default.                                                *)
Load(kept, mode) ==
  LET pair == kept[Kind(mode)] IN
  IF pair \in Allowed(mode) THEN pair ELSE IF mode = "night" THEN "eighth" ELSE "auto"
UndoMode(dep, night) ==
  <<May("start", GraphOf(ui.mode))>>
  \o IF night THEN <<May("apply", dep)>> \o If(InNight, <<May("preview", dep)>>)
              ELSE <<May("sync", 0)>>
LeaveNight == <<May("standard", 0)>>
ModeRequests(sel, target, dep) ==
  LET night == InNight \/ sel = "night"
      undo  == UndoMode(dep, night)
      start == MustElse("start", GraphOf(sel), IF sel = "night" THEN undo ELSE PreviewAgain)
      other == MustElse("other", 0, undo)
  IN  If(InNight, LeaveNight)
      \o If(sel = "night", <<MustElse("stop", 0, PreviewAgain)>>) \o <<start>>
      \o <<other, IF night THEN MustElse("apply", target, undo) ELSE MustElse("sync", 0, undo)>>
      \o If(sel = "night", <<MustElse("preview", target, undo)>>)
      \o <<other>>
SelectMode ==
  /\ Idle /\ ~ui.gallery
  /\ \E sel \in Modes \ {ui.mode} :
       LET night == InNight \/ sel = "night"
           saved == [files EXCEPT ![Kind(ui.mode)] = ui.shown] IN
       \/ /\ files' = (IF night THEN saved ELSE files) /\ UNCHANGED faults
          /\ Begin("mode", sel, ModeRequests(sel, Load(files', sel), ui.shown))
       \/ /\ night /\ Spend(1) /\ UNCHANGED files
          /\ Begin("mode", sel, ModeRequests(sel, Load(files, sel), ui.shown))
  /\ UNCHANGED <<ui, co, b, photo>>

(* The exposure or the ISO, by the menu.  In Night the preview stands for    *)
(* the setting, and the old one is shown again when it fails.              *)
SelectPair ==
  /\ Idle /\ ~ui.gallery
  /\ \E pair \in Allowed(ui.mode) :
       Begin("pair", pair, IF InNight THEN <<MustElse("preview", pair, PreviewAgain)>>
                                      ELSE <<Must("set", pair)>>)
  /\ UNCHANGED <<files, ui, co, b, photo, faults>>

LcdOn ==
  /\ Idle /\ ~ui.gallery /\ ui.available /\ InNight
  /\ Begin("lcd", "none", PreviewAgain)
  /\ UNCHANGED <<files, ui, co, b, photo, faults>>
Gallery ==
  /\ Idle
  /\ \/ ~ui.gallery /\ ui.available /\ Begin("enter", "none", <<Must("play", 0)>>)
     \/ ui.gallery /\ Begin("leave", "none", <<Must("endPlay", 0)>> \o PreviewAgain)
  /\ UNCHANGED <<files, ui, co, b, photo, faults>>
Exit ==
  /\ Idle
  /\ Begin("exit", "none", If(ui.gallery, <<May("endPlay", 0)>>)
                           \o If(InNight, <<May("standard", 0), May("set", ui.shown)>>))
  /\ UNCHANGED <<files, ui, co, b, photo, faults>>

UiStep ==
  /\ ui.up /\ job.todo # <<>> /\ ~Waiting
  /\ LET r == Head(job.todo) IN
     \E o \in Outcomes(r) :
       /\ Spend(o.cost) /\ b' = o.b
       /\ job' = After(job, r, o.ok)
       /\ ui' = CASE r.op = "apply" /\ o.ok -> [ui EXCEPT !.shown = r.arg]
                  [] r.op = "sync" /\ (InNight \/ o.ok) -> [ui EXCEPT !.shown = Shown(ui.mode)]
                  [] OTHER -> ui
  /\ UNCHANGED <<files, co, photo>>

(* What is saved when a job is done: the pair in the profile and, of Night,  *)
(* in its file; the mode.                                                  *)
SavedPair(pair) ==
  IF InNight THEN [files EXCEPT !.profile = pair, !.night = pair]
  ELSE [files EXCEPT !.profile = pair]
Saving ==
  IF ~job.ok THEN UNCHANGED <<files, faults>>
  ELSE CASE job.name = "mode" ->
              \/ files' = [files EXCEPT !.mode = job.to] /\ UNCHANGED faults
              \/ UNCHANGED files /\ Spend(1)
         [] job.name = "pair" ->
              \/ files' = SavedPair(job.to) /\ UNCHANGED faults
              \/ UNCHANGED files /\ Spend(1)
              \/ InNight /\ files' = [files EXCEPT !.profile = job.to] /\ Spend(1)
         [] OTHER -> UNCHANGED <<files, faults>>

(* A job ends with a poll, except the shutter's and the gallery's.          *)
Finish ==
  /\ ui.up /\ job.name # "none" /\ job.todo = <<>> /\ ~Waiting
  /\ Saving
  /\ LET mode == IF job.name = "mode" /\ job.ok THEN job.to ELSE ui.mode
         gallery == IF job.ok THEN job.name = "enter" \/ (ui.gallery /\ job.name # "leave")
                    ELSE ui.gallery
     IN  ui' = [up |-> job.name # "exit",
                mode |-> mode,
                shown |-> IF job.name = "snapshot" \/ gallery THEN ui.shown ELSE ShownOf(files', mode),
                available |-> CASE job.name \in {"boot", "recover"} -> job.ok
                                [] job.name = "sleep" -> job.ok /\ b.camera = "on"
                                [] OTHER -> ui.available,
                gallery |-> gallery]
  /\ job' = NoJob
  /\ UNCHANGED <<co, b, photo>>
Poll ==
  /\ Idle /\ ~ui.gallery
  /\ ui' = [ui EXCEPT !.shown = Shown(ui.mode)]
  /\ UNCHANGED <<files, job, co, b, photo, faults>>

(* The process dies; what it asked of the coordinator goes on.              *)
Crash ==
  /\ ui.up /\ Spend(1)
  /\ ui' = [ui EXCEPT !.up = FALSE] /\ job' = NoJob
  /\ co' = [co EXCEPT !.orphan = co.busy]
  /\ UNCHANGED <<files, b, photo>>

ExposureNext ==
  \/ CoordinatorStep \/ CoordinatorEnds
  \/ Boot \/ Recover \/ Sleep \/ Press \/ SelectMode \/ SelectPair \/ LcdOn \/ Gallery \/ Exit
  \/ UiStep \/ Finish \/ Poll \/ Crash

ExposureSpec == ExposureInit /\ [][ExposureNext]_exposureVars

-----------------------------------------------------------------------------
(* Properties.  A photo is judged when the coordinator answers.              *)
Answered == co.busy /\ ~co'.busy
Of(pair) == [frame |-> Frame(pair), of |-> IF Stacked(pair) THEN pair ELSE "none"]

(* A photo that was taken has the pair the coordinator took up, whichever of *)
(* its calls failed and whatever an earlier photo, the preview or a graph   *)
(* started afresh left behind.  A stack keeps to it even when the UI that   *)
(* asked has died and its successor is setting the camera up                *)
(* (backend_target.c:2002).                                                *)
PhotoHasItsPair ==
  [][Answered /\ photo # NoPhoto /\ (~co.orphan \/ Stacked(co.pair)) => photo = Of(co.pair)]_exposureVars

(* In Night mode the photo has the exposure on the screen, though the        *)
(* screen, the files the coordinator reads and the preview are changed one  *)
(* after the other, and each may fail.                                     *)
NightPhotoAsShown ==
  [][Answered /\ photo # NoPhoto /\ ~co.orphan /\ co.mode = "night" /\ files.mode = "night"
       => photo = Of(co.asked)]_exposureVars

(* A slow photo that is answered well has given the sensors back: both at    *)
(* 30, streaming, and the rate file gone (capture.py:539, :809).           *)
ServedMeansRestored ==
  [][Answered /\ co.ok /\ ~co.orphan /\ Rate(co.pair) # 30 => b.sensors = Both(30) /\ b.file = 30]_exposureVars

(* At rest without a failure: outside Night nothing of the preview is left,  *)
(* neither in the sensors nor in what the backend and the rate file say, by  *)
(* whichever way Night was left; in Night the preview is the one of the pair *)
(* on the screen, after a photo, the gallery, a pause or a restart           *)
(* (target.c:3991, :3775).                                                  *)
Resting == faults = 0 /\ Idle /\ ~co.busy /\ b.camera = "on"
PreviewOnlyInNight ==
  LET fps == IF InNight THEN PreviewRate(ui.shown) ELSE 30
  IN  Resting => /\ b.transient = InNight
                 /\ b.sensors = Both(fps) /\ b.file = fps /\ b.cached = fps
=============================================================================
