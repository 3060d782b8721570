------------------------------- MODULE Settings -------------------------------
(***************************************************************************)
(* What the user chooses in the menus, and what becomes of it.  A choice    *)
(* lives in up to four places: on the card (the profile and small files of  *)
(* the UI's own), in the backend or the system, where it is in force, in    *)
(* the memory of the UI and on its screen.  Every kind of setting goes      *)
(* through them in an order of its own, any step of which may fail or be    *)
(* the last before the power goes; the start of the UI puts together again  *)
(* what is in force (ui/src/target.c, in Photo mode; the modes and their    *)
(* exposure are in Exposure).                                              *)
(***************************************************************************)
EXTENDS Integers, Requests

CONSTANTS
  MaxChanges,  \* settings the user changes in one behaviour
  MaxFaults,   \* calls that fail
  MaxCuts,     \* losses of power, and restarts of the UI
  MaxClock     \* the clock's last value
ASSUME ConstantsAssumption == {MaxChanges, MaxFaults, MaxCuts, MaxClock} \subseteq Nat

VARIABLES
  file,     \* what is saved
  live,     \* what is in force: backend, sound, services, clocks
  ui,       \* the UI: what it remembers and what it shows
  job,      \* the requests of the operation under way
  chosen,   \* ghost: for each setting the values its last choice may amount to
  belied,   \* ghost: since it was set up, the camera is not what the UI must think
  unsaved,  \* ghost: since then the user was told PROFILE SAVE FAILED
  faults, changes, cuts

vars == <<file, live, ui, job, chosen, belied, unsaved, faults, changes, cuts>>

(* One setting of each kind.  "pref" stands for those the UI alone acts on   *)
(* (display-off, language, indicator, drive, RAW), "image" for white        *)
(* balance, EV and the controls that are not Exposure's.                   *)
Profiles == {"pic", "4k"}
Options == [image |-> {"auto", "daylight"}, speaker |-> {50, 100}, audio |-> {"auto", "linein"},
            main |-> {"H264", "H265"}, codec |-> {"H264_HIGH", "H265_MAIN"}, res |-> Profiles,
            zone |-> {"UTC", "CET"}, auto |-> {0, 1}, clock |-> {1}, pref |-> {0, 1},
            wifi |-> {0, 1}]
Keys == DOMAIN Options

(* The recording encoder is three words of the profile; its codec, the name *)
(* the menu has for it, is told from two of them, as the encoder does.      *)
Parts(codec) == IF codec = "H265_MAIN" THEN [cp |-> codec, v |-> "H265", p |-> "MAIN"]
                ELSE [cp |-> codec, v |-> "H264", p |-> "HIGH"]
Attr(parts) == [v |-> parts.v, p |-> parts.p]      \* what the backend gets of them
CodecName(parts) == IF parts.v = "H265" THEN "H265_MAIN"
                    ELSE IF parts.p = "MAIN" THEN "H264_MAIN" ELSE "H264_HIGH"

(* What is in force when the power comes, and the card of a new camera.      *)
PowerOn(clock) ==
  [image |-> "auto", audio |-> "auto", speaker |-> 0, main |-> "H264",
   codec |-> Attr(Parts("H264_HIGH")), res |-> "none", pending |-> FALSE, old |-> "H264",
   zone |-> "UTC", auto |-> 0, wifi |-> 0, clock |-> clock, rtc |-> clock]
Fresh == [image |-> "auto", audio |-> "none", speaker |-> -1, zone |-> "UTC", auto |-> 0,
          pref |-> 0, wifi |-> 1, res |-> "pic", floor |-> 0,
          main |-> [p \in Profiles |-> "H264"],
          codec |-> [p \in Profiles |-> Parts("H264_HIGH")]]

NoJob == [name |-> "none", to |-> "none", ok |-> TRUE, kept |-> TRUE, todo |-> <<>>]

-----------------------------------------------------------------------------
(* Calls of the backend: what is in force after it, whether it is answered   *)
(* well, what it cost in faults, and whether it leaves the UI with a wrong   *)
(* idea of the camera, as an answer lost on its way does.                  *)
Does(l, ok, cost, wrong) == [l |-> l, ok |-> ok, cost |-> cost, wrong |-> wrong]
Done(l) == Does(l, TRUE, 0, FALSE)
Refused == Does(live, FALSE, 0, FALSE)
Failed(l) == Does(l, FALSE, 1, FALSE)
Lost(l) == Does(l, FALSE, 1, l # live)
Call(l) == {Done(l), Failed(live), Lost(l)}

SetValue(key, v) == Call([live EXCEPT ![key] = v])
(* Image controls need the graph; they are tried three times, which makes   *)
(* good a lost answer.                                                     *)
SetImage(v) ==
  IF live.res = "none" THEN {Refused} ELSE {Done([live EXCEPT !.image = v]), Failed(live)}

(* An encoder.  Nothing is to be done for one that is as wanted; the still   *)
(* encoder is tried out first, and until the verdict neither encoder is     *)
(* set.  A refusal is looked into: the UI reads the encoder back.          *)
Encoder(channel, v) ==
  IF live.pending \/ live[channel] = v
    THEN {Does(live, live[channel] = v, 0, FALSE), Failed(live)}
  ELSE LET set == [live EXCEPT ![channel] = v]
       IN  Call(IF channel = "main" /\ live.res # "none"
                THEN [set EXCEPT !.pending = TRUE, !.old = live.main] ELSE set)
Verdict ==
  /\ live.pending
  /\ \/ live' = [live EXCEPT !.pending = FALSE] /\ UNCHANGED <<belied, faults>>
     \/ /\ faults < MaxFaults /\ faults' = faults + 1 /\ belied' = TRUE
        /\ live' = [live EXCEPT !.pending = FALSE, !.main = live.old]
  /\ UNCHANGED <<file, ui, job, chosen, unsaved, changes, cuts>>

(* The graph of a profile, with the profile's own encoders.  A start that    *)
(* fails brings the old graph back, which may fail as well and leave none.   *)
StartGraph(profile) ==
  IF live.pending THEN {Refused}
  ELSE IF live.res = profile THEN {Done(live), Lost(live)}
  ELSE Call([live EXCEPT !.res = profile, !.main = "H264", !.codec = Attr(Parts("H264_HIGH"))])
       \cup {Does([live EXCEPT !.res = "none"], FALSE, 2, TRUE)}

(* api_sync_image_state: the values the backend has are given to it again;   *)
(* only when they cannot be read, those of the profile.                    *)
SyncImage ==
  IF live.res = "none" THEN {Refused}
  ELSE {Done(live), Failed(live), Does([live EXCEPT !.image = file.image], TRUE, 1, FALSE)}

(* The services of the system and its clocks.  The floor is the last time    *)
(* the clock was known to be right; the hardware clock follows it.         *)
Service(key, v) == {Done([live EXCEPT ![key] = v]), Failed(live)}
RestoreFloor(clock) ==   \* a clock that is behind it
  If(file.floor > clock, <<May("clock", file.floor), May("rtc", 0)>>)
SetClock(v) == {Done([live EXCEPT !.clock = v]), Failed(live)}

-----------------------------------------------------------------------------
(* Writes are atomic: a file has the old or the new value.  The profile is    *)
(* one file; the UI keeps others of its own, which a card that comes from    *)
(* the stock firmware does not have.                                       *)
SaveTopLevel(key, v) == [file EXCEPT ![key] = v]                \* the profile
SaveAutoTime(v) == [file EXCEPT !.auto = v]
SaveImage(v) == [file EXCEPT !.image = v]
SaveEncoder(part, v) ==
  IF part = "main" THEN [file EXCEPT !.main[ui.prof] = v]
  ELSE [file EXCEPT !.codec[ui.prof][part] = v]
SaveWifi(v) == [file EXCEPT !.wifi = v]
SaveSpeaker(v) == [file EXCEPT !.speaker = v]                   \* files of its own
SavePreference(v) == [file EXCEPT !.pref = v]
SaveAudio == [file EXCEPT !.audio = live.audio]
SaveFloor == [file EXCEPT !.floor = live.clock]
Saved(key, v) ==
  CASE key = "auto" -> SaveAutoTime(v)
    [] key = "image" -> SaveImage(v)
    [] key \in {"main", "cp", "v", "p"} -> SaveEncoder(key, v)
    [] key = "wifi" -> SaveWifi(v)
    [] key = "speaker" -> SaveSpeaker(v)
    [] key = "pref" -> SavePreference(v)
    [] key = "floor" -> SaveFloor
    [] OTHER -> SaveTopLevel(key, v)
LoadAudio == IF file.audio = "none" THEN "auto" ELSE file.audio
LoadSpeaker == IF file.speaker < 0 THEN 50 ELSE file.speaker

(* A request is a call or a write, or both in this order.                    *)
IsSave(r) == r.op \in {"save", "keep"}
Outcomes(r) ==
  CASE r.op = "image" -> SetImage(r.arg)
    [] r.op \in {"speaker", "audio"} -> SetValue(r.op, r.arg)
    [] r.op \in {"main", "codec"} -> Encoder(r.op, r.arg)
    [] r.op = "start" -> StartGraph(r.arg)
    [] r.op = "sync" -> SyncImage
    [] r.op \in {"auto", "wifi", "zone"} -> Service(r.op, r.arg)
    [] r.op = "clock" -> SetClock(r.arg)
    [] r.op = "rtc" -> {Done([live EXCEPT !.rtc = live.clock]), Failed(live)}
Spend(cost) == faults + cost <= MaxFaults /\ faults' = faults + cost

(* What a failed write means: the whole fails (save), or it is done but not  *)
(* kept (keep), and the writes after it are left out.                      *)
ProceedWrong(r, ok) ==     \* the last write decides
  [After(job, [r EXCEPT !.rest = @ \/ r.op = "keep"], ok) EXCEPT !.kept = ok \/ r.op # "keep"]
Proceed(r, ok) == [After(job, r, ok) EXCEPT !.kept = @ /\ (ok \/ r.op # "keep")]
Keep(key, v) == OrElse("keep", <<key, v>>, <<>>)
Floor == Must("save", <<"floor", 0>>)
Unset(arg) == arg[1] = "floor" /\ live.clock = 0   \* a clock before 2020 is not kept
WayBack(r) ==              \* a change of resolution is taken back
  job.name = "res" /\ ~job.ok /\ r.op \in {"start", "main", "codec"}

UiStep ==
  /\ ui.up /\ job.todo # <<>>
  /\ LET r == Head(job.todo) IN
     IF IsSave(r)
     THEN /\ \/ /\ ~Unset(r.arg) /\ file' = Saved(r.arg[1], r.arg[2])
                /\ job' = Proceed(r, TRUE) /\ UNCHANGED faults
             \/ Unset(r.arg) /\ job' = Proceed(r, FALSE) /\ UNCHANGED <<file, faults>>
             \/ Spend(1) /\ job' = Proceed(r, FALSE) /\ UNCHANGED file
          /\ UNCHANGED <<live, ui, belied>>
     ELSE \E o \in Outcomes(r) :
          /\ Spend(o.cost) /\ live' = o.l
          /\ belied' = (belied \/ o.wrong \/ (WayBack(r) /\ ~o.ok))
          /\ job' = Proceed(r, o.ok)
          /\ ui' = IF job.name = "boot" /\ r.op = "speaker"
                   THEN [ui EXCEPT !.shown.speaker = IF o.ok THEN r.arg ELSE -1] ELSE ui
          /\ UNCHANGED file
  /\ UNCHANGED <<chosen, unsaved, changes, cuts>>

-----------------------------------------------------------------------------
(* The start of the UI.  The graph may be refused, an encoder, anything: the *)
(* speaker and Wi-Fi are set all the same.                                 *)
EncodersWrong(profile, otherwise) ==       \* only the still encoder
  <<MustElse("main", file.main[profile], otherwise)>>
Encoders(profile, otherwise) ==
  <<MustElse("main", file.main[profile], otherwise),
    MustElse("codec", Attr(file.codec[profile]), otherwise)>>
BootLast == If(file.wifi = 1, <<May("wifi", 1)>>) \o <<May("speaker", LoadSpeaker)>>
BootApply == <<May("sync", 0), May("audio", LoadAudio)>> \o BootLast
BootGraph == <<MustElse("start", file.res, BootLast)>> \o Encoders(file.res, BootApply) \o BootApply
BootClock == If(file.auto = 1, <<May("auto", 1)>>)
             \o <<OrElse("save", <<"floor", 0>>, BootGraph), May("rtc", 0)>> \o BootGraph
BootRequests(clock) == <<May("zone", file.zone)>> \o RestoreFloor(clock) \o BootClock
Started(up) ==
  [up |-> up, available |-> FALSE, prof |-> file.res, audio |-> LoadAudio, auto |-> file.auto,
   shown |-> [image |-> "none", speaker |-> 50, audio |-> "none", main |-> "none",
              codec |-> "none", res |-> file.res, zone |-> file.zone, auto |-> file.auto,
              pref |-> file.pref, wifi |-> file.wifi]]
Boot ==
  /\ ~ui.up
  /\ ui' = Started(TRUE)
  /\ job' = [NoJob EXCEPT !.name = "boot", !.todo = BootRequests(live.clock)]
  /\ belied' = FALSE /\ unsaved' = FALSE
  /\ UNCHANGED <<file, live, chosen, faults, changes, cuts>>

(* Every five seconds while the camera is not available.                     *)
Primary(profile) ==
  <<Must("start", profile)>> \o Encoders(profile, <<>>) \o <<Must("sync", 0), Must("audio", ui.audio)>>
Idle == ui.up /\ job.name = "none"
Recover ==
  /\ Idle /\ ~ui.available
  /\ job' = [NoJob EXCEPT !.name = "recover", !.todo = Primary(ui.prof)]
  /\ belied' = FALSE /\ unsaved' = FALSE
  /\ UNCHANGED <<file, live, ui, chosen, faults, changes, cuts>>

-----------------------------------------------------------------------------
(* A choice in a menu, and the order in which it takes effect.               *)
RollbackWrong == <<May("start", ui.prof), May("sync", 0), May("audio", ui.audio)>>
Rollback ==   \* of a resolution: each step is tried, the encoders until one fails
  LET rest == <<May("sync", 0), May("audio", ui.audio)>>
  IN  <<May("start", ui.prof),
        OrElse("main", file.main[ui.prof], rest),
        OrElse("codec", Attr(file.codec[ui.prof]), rest)>> \o rest
Orders(key, v) ==
  CASE key \in {"image", "speaker", "main"} -> <<Must(key, v), Keep(key, v)>>
    [] key = "codec" -> <<Must(key, Attr(Parts(v))), Keep("cp", v), Keep("v", Parts(v).v),
                          Keep("p", Parts(v).p)>>
    [] key = "audio" -> <<Must(key, v)>>
    [] key = "pref" -> <<Must("save", <<key, v>>)>>
    [] key \in {"zone", "auto"} -> <<Must("save", <<key, v>>), Must(key, v)>>
    [] key = "clock" -> <<Must(key, v), Floor, Must("rtc", 0)>>
    [] key = "wifi" -> <<Note(key, v), May("save", <<key, v>>)>>
    [] key = "res" ->
         <<Must("start", v)>> \o Encoders(v, Rollback)
         \o <<MustElse("sync", 0, Rollback), MustElse("audio", ui.audio, Rollback), Keep(key, v)>>
PerProfile == {"main", "codec"}
Chosen(key) == IF key \in PerProfile THEN chosen[key][ui.prof] ELSE chosen[key]
Now(key, values) == IF key \in PerProfile THEN [chosen EXCEPT ![key][ui.prof] = values]
                    ELSE [chosen EXCEPT ![key] = values]
Current(key) == IF key = "clock" THEN live.clock ELSE ui.shown[key]
Choose ==
  /\ Idle /\ changes < MaxChanges /\ changes' = changes + 1
  /\ \E key \in Keys : \E v \in Options[key] \ {Current(key)} :
       /\ key = "clock" => ui.auto = 0     \* a clock that sets itself is not set
       /\ job' = [NoJob EXCEPT !.name = key, !.to = v, !.todo = Orders(key, v)]
  /\ UNCHANGED <<file, live, ui, chosen, belied, unsaved, faults, cuts>>

-----------------------------------------------------------------------------
(* The poll: image, sound and encoders are shown as the backend has them,    *)
(* and a sound input that is not the one remembered is saved.              *)
LookEncoders(shown) ==
  [shown EXCEPT !.main = live.main, !.codec = CodecName(live.codec)]
LookImage(shown) ==
  [shown EXCEPT !.image = IF live.res = "none" THEN file.image ELSE live.image]
Look(u) ==
  [u EXCEPT !.shown = [LookEncoders(LookImage(u.shown)) EXCEPT !.audio = live.audio, !.res = u.prof]]
SyncAudioWrong(u) ==          \* remembered whether or not it was saved
  \/ /\ u.audio # live.audio /\ file' = SaveAudio /\ UNCHANGED faults
     /\ ui' = [u EXCEPT !.audio = live.audio]
  \/ /\ u.audio # live.audio /\ Spend(1) /\ UNCHANGED file
     /\ ui' = [u EXCEPT !.audio = live.audio]
  \/ u.audio = live.audio /\ ui' = u /\ UNCHANGED <<file, faults>>
SyncAudio(u) ==
  \/ /\ u.audio # live.audio /\ file' = SaveAudio /\ UNCHANGED faults
     /\ ui' = [u EXCEPT !.audio = live.audio]
  \/ u.audio # live.audio /\ Spend(1) /\ ui' = u /\ UNCHANGED file
  \/ u.audio = live.audio /\ ui' = u /\ UNCHANGED <<file, faults>>
Poll ==
  /\ Idle
  /\ SyncAudio(Look(ui))
  /\ UNCHANGED <<live, job, chosen, belied, unsaved, changes, cuts>>

(* The end of an operation, and the poll in the same pass of the loop.       *)
IsChoice == job.name \in Keys
Remembers(u) ==
  CASE job.name = "res" -> [u EXCEPT !.prof = job.to]
    [] job.name = "auto" -> [u EXCEPT !.auto = job.to]
    [] OTHER -> u
Completes(u) ==
  IF ~IsChoice THEN [u EXCEPT !.available = job.ok]  \* the start, or a recovery
  ELSE IF ~job.ok THEN u
  ELSE IF job.name = "clock" THEN u
  ELSE [Remembers(u) EXCEPT !.shown[job.name] = job.to]
Finish ==
  /\ ui.up /\ job.name # "none" /\ job.todo = <<>>
  /\ SyncAudio(Look(Completes(ui)))
  /\ chosen' = IF IsChoice /\ job.ok THEN Now(job.name, {job.to}) ELSE chosen
  /\ unsaved' = (unsaved \/ (job.ok /\ ~job.kept))
  /\ job' = NoJob
  /\ UNCHANGED <<live, belied, changes, cuts>>

(* The clock runs, and its floor is written every quarter of an hour.        *)
Tick ==
  /\ live.clock < MaxClock
  /\ live' = [live EXCEPT !.clock = @ + 1]
  /\ UNCHANGED <<file, ui, job, chosen, belied, unsaved, faults, changes, cuts>>
SaveClock ==
  /\ Idle /\ live.clock > 0
  /\ \/ /\ file' = SaveFloor
        /\ \/ live' = [live EXCEPT !.rtc = live.clock] /\ UNCHANGED faults
           \/ Spend(1) /\ UNCHANGED live
     \/ Spend(1) /\ UNCHANGED <<file, live>>
  /\ UNCHANGED <<ui, job, chosen, belied, unsaved, changes, cuts>>

(* The power goes; the hardware clock may stop with it.  Or only the UI ends, *)
(* killed or by its exit, and is started again.  A choice under way may be   *)
(* the old or the new; of a codec the three words may be cut apart.        *)
Amounts == {job.to} \cup IF job.name = "codec" THEN {"H264_MAIN"} ELSE {}
Down(l) ==
  /\ cuts < MaxCuts /\ cuts' = cuts + 1
  /\ live' = l /\ ui' = [ui EXCEPT !.up = FALSE, !.available = FALSE] /\ job' = NoJob
  /\ chosen' = IF IsChoice THEN Now(job.name, Chosen(job.name) \cup Amounts) ELSE chosen
  /\ UNCHANGED <<belied, unsaved, faults, changes>>
PowerCut ==
  /\ ui.up /\ UNCHANGED file
  /\ \E clock \in {live.rtc, 0} : Down(PowerOn(clock))
UiEnds ==
  /\ Idle
  /\ \/ Down(live) /\ UNCHANGED file
     \/ live.clock > 0 /\ Down([live EXCEPT !.rtc = live.clock]) /\ file' = SaveFloor

Init ==
  /\ file = Fresh
  /\ live = PowerOn(0)
  /\ ui = Started(FALSE)
  /\ job = NoJob
  /\ chosen = [image |-> {"auto"}, speaker |-> {50}, audio |-> {"auto"}, main |-> [p \in Profiles |-> {"H264"}],
               codec |-> [p \in Profiles |-> {"H264_HIGH"}], res |-> {"pic"}, zone |-> {"UTC"}, auto |-> {0},
               clock |-> {0}, pref |-> {0}, wifi |-> {1}]
  /\ belied = FALSE /\ unsaved = FALSE
  /\ faults = 0 /\ changes = 0 /\ cuts = 0

Next == \/ Boot \/ Recover \/ Choose \/ UiStep \/ Finish \/ Poll \/ Verdict
        \/ Tick \/ SaveClock \/ PowerCut \/ UiEnds
Fairness == /\ WF_vars(Boot) /\ WF_vars(UiStep) /\ WF_vars(Finish) /\ WF_vars(Poll)
            /\ WF_vars(Recover) /\ WF_vars(Verdict)
Spec == Init /\ [][Next]_vars /\ Fairness

-----------------------------------------------------------------------------
(* Properties.                                                             *)
InForce(key) ==
  CASE key = "codec" -> CodecName(live.codec)
    [] key = "pref" -> file.pref
    [] OTHER -> live[key]
Agrees(key) == InForce(key) \in Chosen(key) /\ ui.shown[key] = InForce(key)

(* Without a failure, and however often the power went or the UI was        *)
(* started again, what the user chose last is in force and on the screen;   *)
(* the clock is not behind the time that was set.  A choice the power cut   *)
(* may be the old or the new.  The exception is a change of resolution whose *)
(* way back was refused, which needs no failure: see CameraAsShown.  (Image *)
(* controls: see ImageRestored.)                                           *)
ChosenInForce ==
  faults = 0 /\ Idle /\ ~belied =>
    /\ \A key \in {"speaker", "audio", "zone", "auto", "pref", "wifi"} : Agrees(key)
    /\ ui.available => \A key \in {"res", "main", "codec"} : Agrees(key)
    /\ \E c \in chosen.clock : live.clock >= c

(* Also after a failure: the graph is that of the resolution on the screen   *)
(* and its encoders are the saved ones, whichever step of a change of       *)
(* resolution failed and had to be taken back (target.c:4113), unless that  *)
(* failed or was refused as well (by a still encoder on trial), an answer   *)
(* was lost, or the user was told that it was not saved.                    *)
CameraAsShown ==
  Idle /\ ui.available /\ ~belied =>
    /\ live.res = ui.prof
    /\ unsaved \/ (live.main = file.main[ui.prof]
                   /\ CodecName(live.codec) = CodecName(file.codec[ui.prof]))

(* A change reported as done, and not as unsaved, is on the card, all the    *)
(* writes of it.  Sound inputs are left to the poll, and the Wi-Fi script    *)
(* does not report its write (calf_fw_tool/wifi.py:89).                    *)
OnCard(key, v) ==
  CASE key = "main" -> file.main[ui.prof] = v
    [] key = "codec" -> file.codec[ui.prof] = Parts(v)
    [] key = "clock" -> file.floor >= v
    [] OTHER -> file[key] = v
ToldSavedIsSaved ==
  IsChoice /\ job.todo = <<>> /\ job.ok /\ job.kept /\ job.name \notin {"audio", "wifi"}
    => OnCard(job.name, job.to)

(* The camera becomes available again after a start that failed, also when   *)
(* setting up one encoder makes the next one wait (backend_target.c:2504);   *)
(* and the sound input in force comes to the card, although a write may fail *)
(* and nothing but the comparison with what was remembered repeats it       *)
(* (target.c:2996).                                                         *)
ComesRight == []<>ui.available /\ []<>(live.audio = LoadAudio)

(* Image controls are restored when the UI starts: "applying only the Night  *)
(* exposure pair silently discarded the persisted image-processing choices" *)
(* (target.c:3298).                                                        *)
ImageRestored == faults = 0 /\ Idle /\ ui.available => live.image \in chosen.image
=============================================================================
