---------------------------- MODULE GraphLifecycle ----------------------------
(***************************************************************************)
(* How ngcd/src/rockchip_graph.c takes the camera hardware into use and    *)
(* gives it back: sensors, capture (VI), scaling (VPSS), stitching (AVS),  *)
(* the LCD's video layer, encoder channel 0, the microphone.  Each part is *)
(* one call into Rockit, switched on in the order of the profile; any call *)
(* may fail, and then everything taken so far is given back in the order   *)
(* of ngcd_rk_graph_stop.  "on" is what Rockit was told to switch on and   *)
(* not yet to switch off (the code goes on whatever it answers to that),   *)
(* "owned" what the flags and masks of struct ngcd_rk_graph say.           *)
(*                                                                         *)
(* The main thread of GraphWatchdog is the thread that makes these calls:  *)
(* its state "stop" is an ngcd_rk_graph_stop under the deadline, any call  *)
(* of which may never return.  The stop inside a failed start is not under *)
(* the deadline.                                                           *)
(***************************************************************************)
EXTENDS GraphWatchdog, SequencesExt

CONSTANT Profiles  \* those the caller may start, of "stitched", "single0",
                   \* "single1" and "offline"
ASSUME ProfilesAssumption ==
  Profiles \subseteq {"stitched", "single0", "single1", "offline"}

VARIABLES
  profile,    \* of the last start
  started,    \* the last start succeeded and no stop followed
  on, owned,
  job,        \* what the main thread is doing: the parts to see to, from "at"
  recording,  \* recording
  pending,    \* validation_pending
  pair        \* two sensors called at once by two threads

graph == <<profile, started, on, owned>>
channel == <<recording, pending>>
calls == <<graph, channel, job>>
watchdog == <<deadline, shutdown, main, fresh, thread, loaded, age, late>>
system == <<watchdog, calls, pair>>

Part(name, index) == <<name, index>>
RecordChannel == {"record", "recordReceive", "recordBind"} \X {0}
ValidationChannel == {"validation", "validationReceive", "validationBind"} \X {0}
Microphone == {"aiDevice", "aiChannel", "aiResample"} \X {0}
Jpeg == Part("jpeg", 0)
Stack == Part("stack", 0)       \* stacked_snapshot_handle
Waits == {"output", "synchronize", "run"}  \* calls that switch nothing on
Single == {"record", "recordReceive", "recordBind", "validation", "validationReceive",
           "validationBind", "aiDevice", "aiChannel", "aiResample", "jpeg", "stack",
           "avs", "avsChannel", "layerBound", "layer"}
Double == {"sensor", "viDevice", "vi", "group", "full", "small", "histogram", "viBind",
           "avsBind", "screen", "screenBind"}
Hardware == Single \X {0} \cup Double \X {0, 1}  \* what the flags and masks know
Parts == Hardware \cup Waits \X {0, 1}

Nothing == [op |-> "none", todo |-> <<>>, at |-> 1]
NoPair == [op |-> "none", created |-> 0, broken |-> FALSE, ready |-> 0,
           released |-> FALSE, at |-> <<"none", "none">>, good |-> TRUE]
Pairs == [op : {"none", "raw", "enqueue", "run"}, created : 0..2, broken : BOOLEAN,
          ready : Nat, released : BOOLEAN, good : BOOLEAN,
          at : [1..2 -> {"none", "new", "waiting", "call", "done"}]]

-----------------------------------------------------------------------------
(* graph_start: the order in which the parts of a profile are switched on.  *)
Stitched == profile \in {"stitched", "offline"}
Device(p, i) == IF p = "single1" THEN 1 ELSE i  \* vi_device_for_vpss

StartVi(device) == <<Part("viDevice", device), Part("vi", device)>>
StartVpss(group) == <<Part("group", group), Part("full", group)>>
Chain(p, i) == StartVi(Device(p, i)) \o StartVpss(i) \o <<Part("viBind", i)>>
StartAvs == <<Part("avs", 0), Part("avsChannel", 0)>>
AvsBinds == <<Part("avsBind", 0), Part("avsBind", 1)>>
VideoLayer == <<Part("layerBound", 0), Part("layer", 0)>>
Screen(channel_) == <<Part("screen", channel_), Part("screenBind", channel_)>>
Preview(stitched) ==
  IF stitched
  THEN <<Part("small", 0), Part("small", 1), Part("histogram", 0)>>
       \o VideoLayer \o Screen(0) \o Screen(1)
  ELSE <<Part("small", 0), Part("histogram", 0)>> \o VideoLayer \o Screen(1)

(* The follower sensor (1) streams before the master (0), and the outputs   *)
(* are waited for when both sides are up.                                  *)
LiveStereo ==
  <<Part("sensor", 1), Part("sensor", 0)>> \o Chain("stitched", 1) \o Chain("stitched", 0)
  \o <<Part("output", 0), Part("output", 1), Part("synchronize", 0)>>
  \o StartAvs \o AvsBinds \o Preview(TRUE)
LiveSingle(p) ==
  <<Part("sensor", Device(p, 0))>> \o Chain(p, 0) \o <<Part("output", 0)>> \o Preview(FALSE)
Offline ==
  <<Part("sensor", 0), Part("sensor", 1), Part("run", 0)>>
  \o Chain("offline", 0) \o Chain("offline", 1) \o StartAvs \o AvsBinds
StartOrder(p) ==
  CASE p = "stitched" -> LiveStereo [] p = "offline" -> Offline [] OTHER -> LiveSingle(p)

(* ngcd_rk_graph_stop, and its parts on their own.                         *)
StopMicrophone == <<Part("aiResample", 0), Part("aiChannel", 0), Part("aiDevice", 0)>>
StopRecordHardware == <<Part("recordBind", 0), Part("recordReceive", 0), Part("record", 0)>>
StopValidationEncoder ==
  <<Part("validationBind", 0), Part("validationReceive", 0), Part("validation", 0)>>
StopScreen(c) == <<Part("screenBind", c), Part("screen", c)>>
StopVpss(i) == <<Part("viBind", i), Part("histogram", i), Part("small", i),
                 Part("full", i), Part("group", i)>>
StopVi(d) == <<Part("vi", d), Part("viDevice", d), Part("sensor", d)>>
StopOrder ==
  <<Stack, Jpeg>> \o StopMicrophone \o StopRecordHardware \o StopValidationEncoder
  \o StopScreen(1) \o StopScreen(0) \o <<Part("layer", 0), Part("layerBound", 0)>>
  \o <<Part("avsBind", 1), Part("avsBind", 0), Part("avsChannel", 0), Part("avs", 0)>>
  \o StopVpss(1) \o StopVpss(0) \o StopVi(1) \o StopVi(0)

(* What Rockit needs to be on for a part to work: its sources and its sink. *)
WorksOn ==
  {<<"viDevice", "sensor">>, <<"vi", "viDevice">>, <<"full", "group">>,
   <<"small", "group">>, <<"histogram", "group">>, <<"viBind", "vi">>,
   <<"viBind", "group">>, <<"avsChannel", "avs">>, <<"avsBind", "full">>,
   <<"avsBind", "avs">>, <<"layer", "layerBound">>, <<"screen", "layer">>,
   <<"screenBind", "screen">>, <<"screenBind", "small">>,
   <<"recordReceive", "record">>, <<"recordBind", "record">>,
   <<"recordBind", "avsChannel">>, <<"validationReceive", "validation">>,
   <<"validationBind", "validation">>, <<"validationBind", "avsChannel">>,
   <<"aiChannel", "aiDevice">>, <<"aiResample", "aiChannel">>}
IndexOf(p, name) ==
  IF name \in Single \/ (name = "small" /\ ~Stitched) THEN 0
  ELSE IF name = "vi" THEN Device(profile, p[2]) ELSE p[2]
Needs(p) == {Part(w[2], IndexOf(p, w[2])) : w \in {v \in WorksOn : v[1] = p[1]}}

-----------------------------------------------------------------------------
GraphInit ==
  /\ Init
  /\ profile \in Profiles /\ started = FALSE
  /\ on = {} /\ owned = {} /\ job = Nothing
  /\ recording = FALSE /\ pending = FALSE
  /\ pair = NoPair

Alive == thread # "alarm" /\ main \notin {"flag", "join", "ended"}
Free == Alive /\ main = "idle" /\ job = Nothing /\ pair = NoPair
(* The offline graph lives within one snapshot request, which enqueues and *)
(* takes one photo.                                                        *)
Serving == Free /\ profile # "offline"
AvsOn == {Part("avs", 0), Part("avsChannel", 0)} \subseteq owned
Begin(op, todo) == job' = [op |-> op, todo |-> todo, at |-> 1]

(* A call is made for a part only where its flag says that it is needed.    *)
Taking == {"start", "activate", "record", "validation", "photo"}
Giving == {"undo", "validate", "stop"}
Due == {i \in job.at..Len(job.todo) :
          IF job.op \in Taking THEN job.todo[i] \notin owned ELSE job.todo[i] \in owned}
FirstDue(i) == \A j \in Due : i <= j

(* A part that is switched on.  After some calls further ones follow that   *)
(* set the part up; when one of these fails, the flag is already set.  A    *)
(* capture device that is on already is used without being owned.          *)
Followed == {"viDevice", "group", "avs", "layerBound", "record", "validation",
             "aiChannel", "jpeg"}
OutcomesWrong(p) ==  \* the flag is set only after the calls that follow
  IF p[1] \in Waits THEN {[on |-> {}, owned |-> {}, ok |-> TRUE], [on |-> {}, owned |-> {}, ok |-> FALSE]}
  ELSE {[on |-> {p}, owned |-> {p}, ok |-> TRUE], [on |-> {}, owned |-> {}, ok |-> FALSE],
        [on |-> IF p[1] \in Followed THEN {p} ELSE {}, owned |-> {}, ok |-> FALSE]}
Outcomes(p) ==
  IF p[1] \in Waits THEN {[on |-> {}, owned |-> {}, ok |-> TRUE], [on |-> {}, owned |-> {}, ok |-> FALSE]}
  ELSE {[on |-> {p}, owned |-> IF p[1] = "viDevice" /\ p \in on THEN {} ELSE {p}, ok |-> TRUE],
        [on |-> {}, owned |-> {}, ok |-> FALSE]}
       \cup IF p[1] \in Followed /\ p \notin on
            THEN {[on |-> {p}, owned |-> {p}, ok |-> FALSE]} ELSE {}

(* What a failure gives back: all of a graph that starts, else the channel  *)
(* or device the call belongs to.                                          *)
GivenBack(p) ==
  IF job.op = "start" THEN StopOrder
  ELSE IF p = Jpeg THEN <<Jpeg>>
  ELSE IF p \in RecordChannel THEN StopRecordHardware
  ELSE IF p \in ValidationChannel THEN StopValidationEncoder
  ELSE StopMicrophone

SwitchOn ==
  /\ Alive /\ job.op \in Taking
  /\ \E i \in Due :
       LET p == job.todo[i] IN
       /\ FirstDue(i) /\ p # Part("run", 0)
       /\ \E o \in Outcomes(p) :
            /\ on' = on \cup o.on /\ owned' = owned \cup o.owned
            /\ IF o.ok \/ p[1] = "histogram"
               THEN job' = [job EXCEPT !.at = i + 1] /\ UNCHANGED pending
               ELSE /\ Begin("undo", GivenBack(p))
                    /\ pending' = (pending /\ job.op # "validation")
  /\ UNCHANGED <<watchdog, profile, started, recording, pair>>

(* A part that is given back: its flag is cleared whatever Rockit answers.  *)
SwitchOff ==
  /\ Alive /\ job.op \in Giving
  /\ job.op = "stop" => main = "stop"
  /\ \E i \in Due :
       /\ FirstDue(i)
       /\ owned' = owned \ {job.todo[i]} /\ on' = on \ {job.todo[i]}
       /\ job' = [job EXCEPT !.at = i + 1]
  /\ UNCHANGED <<watchdog, profile, started, channel, pair>>

Return(op) == Alive /\ job.op = op /\ Due = {} /\ main = "idle"
Done == job' = Nothing

-----------------------------------------------------------------------------
(* The graph.  The caller starts it only after a stop or a failed start.   *)
Start ==
  /\ Free /\ ~started
  /\ \E p \in Profiles : profile' = p /\ Begin("start", StartOrder(p))
  /\ owned' = {} /\ recording' = FALSE /\ pending' = FALSE
  /\ UNCHANGED <<watchdog, started, on, pair>>
StartReturns ==
  /\ Return("start") /\ Done /\ started' = TRUE
  /\ UNCHANGED <<watchdog, profile, on, owned, channel, pair>>
Undone ==
  /\ Return("undo") /\ Done
  /\ UNCHANGED <<watchdog, graph, channel, pair>>

(* target_graph_stop: an open recording is aborted first.                  *)
Stop ==
  /\ Free /\ BeginStop
  /\ Begin("stop", StopOrder)
  /\ started' = FALSE /\ recording' = FALSE /\ pending' = FALSE
  /\ UNCHANGED <<profile, on, owned, pair>>
Stopped ==
  /\ Alive /\ job.op = "stop" /\ Due = {}
  /\ StopReturns /\ Done
  /\ UNCHANGED <<graph, channel, pair>>

-----------------------------------------------------------------------------
(* Encoder channel 0, which a recording and a validation share.            *)
MayActivate == AvsOn /\ ~pending /\ Part("validation", 0) \notin owned

StartRecordHardware == <<Part("record", 0), Part("recordReceive", 0), Part("recordBind", 0)>>
StartAudioHardware == <<Part("aiDevice", 0), Part("aiChannel", 0), Part("aiResample", 0)>>
StartValidationEncoder ==
  <<Part("validation", 0), Part("validationReceive", 0), Part("validationBind", 0)>>

(* A photo warms the channel up for the recording that may follow.         *)
ActivateEncoder ==
  /\ Serving /\ MayActivate /\ Part("record", 0) \notin owned
  /\ Begin("activate", StartRecordHardware)
  /\ UNCHANGED <<watchdog, graph, channel, pair>>
EncoderActive ==
  /\ Return("activate") /\ Done
  /\ UNCHANGED <<watchdog, graph, channel, pair>>

(* A warm channel with other settings refuses; that is a step of nothing.  *)
RecordStart ==
  /\ Serving /\ ~recording /\ MayActivate
  /\ Begin("record", StartRecordHardware \o StartAudioHardware)
  /\ UNCHANGED <<watchdog, graph, channel, pair>>
(* The queues are drained and the file is opened; a packet that cannot be   *)
(* released gives the channel back.                                        *)
RecordStarted ==
  /\ Return("record")
  /\ \/ Done /\ recording' \in BOOLEAN
     \/ Begin("undo", StopRecordHardware) /\ UNCHANGED recording
  /\ UNCHANGED <<watchdog, graph, pending, pair>>
RecordStop ==
  /\ Free /\ recording /\ recording' = FALSE
  /\ UNCHANGED <<watchdog, graph, pending, job, pair>>

ValidateEncoder ==
  /\ Serving /\ AvsOn /\ ~recording
  /\ Begin("validate", StopRecordHardware \o StopValidationEncoder)
  /\ UNCHANGED <<watchdog, graph, channel, pair>>
ValidationPending ==
  /\ Return("validate") /\ Done /\ pending' = TRUE
  /\ UNCHANGED <<watchdog, graph, recording, pair>>

(* One tick of the service loop: a packet of the recording (its failure     *)
(* aborts the recording, the channel stays), the drain of a warm channel,   *)
(* or a step of the validation, which a first packet, a failure or the last *)
(* poll ends.                                                              *)
TickRecording ==
  /\ Free /\ recording /\ recording' = FALSE
  /\ UNCHANGED <<watchdog, graph, pending, job, pair>>
DrainRecordStream ==
  /\ Free /\ ~recording /\ ~pending /\ Part("record", 0) \in owned
  /\ Begin("undo", StopRecordHardware)
  /\ UNCHANGED <<watchdog, graph, channel, pair>>
TickValidation ==
  /\ Free /\ ~recording /\ pending
  /\ IF Part("validation", 0) \notin owned
     THEN Begin("validation", StartValidationEncoder) /\ UNCHANGED pending
     ELSE Begin("undo", StopValidationEncoder) /\ pending' = FALSE
  /\ UNCHANGED <<watchdog, graph, recording, pair>>
ValidationStarted ==
  /\ Return("validation") /\ Done
  /\ UNCHANGED <<watchdog, graph, channel, pair>>

-----------------------------------------------------------------------------
(* A photo: the JPEG channel stays for the next one unless this one fails;  *)
(* a stacked frame is used up, or was not reached.                         *)
Photo ==
  /\ Free /\ AvsOn /\ Begin("photo", <<Jpeg>>)
  /\ UNCHANGED <<watchdog, graph, channel, pair>>
PhotoTaken ==
  /\ Return("photo")
  /\ \/ Done /\ owned' = owned \ {Stack} /\ on' = on \ {Stack}
     \/ /\ Begin("undo", <<Jpeg>>)
        /\ \E used \in {{}, {Stack}} : owned' = owned \ used /\ on' = on \ used
  /\ UNCHANGED <<watchdog, profile, started, channel, pair>>
StackFrames(worked) ==
  /\ owned' = IF worked THEN owned \cup {Stack} ELSE owned \ {Stack}
  /\ on' = IF worked THEN on \cup {Stack} ELSE on \ {Stack}
StackSnapshot ==
  /\ Serving /\ AvsOn /\ \E worked \in BOOLEAN : StackFrames(worked)
  /\ UNCHANGED <<watchdog, profile, started, channel, job, pair>>

-----------------------------------------------------------------------------
(* Both sensors at once: two threads meet at a condition variable, so that  *)
(* their calls start together; a thread that cannot be created lets the     *)
(* other go on alone.  The main thread waits, releases and joins.          *)
CaptureRaw ==
  /\ Serving /\ started /\ Stitched
  /\ pair' = [NoPair EXCEPT !.op = "raw"]
  /\ UNCHANGED <<watchdog, calls>>
OfflineEnqueue ==
  /\ Free /\ started /\ profile = "offline"
  /\ pair' = [NoPair EXCEPT !.op = "enqueue"]
  /\ UNCHANGED <<watchdog, calls>>
StartOfflineSensors ==
  /\ Alive /\ job.op = "start" /\ job.at \in Due /\ job.todo[job.at] = Part("run", 0)
  /\ pair = NoPair /\ pair' = [NoPair EXCEPT !.op = "run"]
  /\ UNCHANGED <<watchdog, calls>>

Paired == thread # "alarm" /\ pair.op # "none"
CreateThread ==
  /\ Paired /\ pair.created < 2 /\ ~pair.broken
  /\ \/ pair' = [pair EXCEPT !.created = @ + 1, !.at[pair.created + 1] = "new"]
     \/ pair' = [pair EXCEPT !.broken = TRUE]
  /\ UNCHANGED <<watchdog, calls>>
ReleaseWrong ==  \* also after a thread could not be created
  /\ Paired /\ ~pair.released
  /\ pair.created = 2 /\ pair.ready = 2
  /\ pair' = [pair EXCEPT !.released = TRUE]
  /\ UNCHANGED <<watchdog, calls>>
Release ==
  /\ Paired /\ ~pair.released
  /\ pair.broken \/ (pair.created = 2 /\ pair.ready = 2)
  /\ pair' = [pair EXCEPT !.released = TRUE]
  /\ UNCHANGED <<watchdog, calls>>
Thread(t) ==
  /\ Paired
  /\ \/ pair.at[t] = "new" /\ pair' = [pair EXCEPT !.at[t] = "waiting", !.ready = @ + 1]
     \/ pair.at[t] = "waiting" /\ pair.released /\ pair' = [pair EXCEPT !.at[t] = "call"]
     \/ pair.at[t] = "call"
        /\ \E ok \in BOOLEAN : pair' = [pair EXCEPT !.at[t] = "done", !.good = @ /\ ok]
  /\ UNCHANGED <<watchdog, calls>>
(* A night capture stacks the stitched frames of the same exposures.       *)
JoinPair ==
  /\ Paired /\ pair.released /\ \A t \in 1..pair.created : pair.at[t] = "done"
  /\ pair' = NoPair
  /\ LET ok == pair.good /\ ~pair.broken IN
     CASE pair.op = "run" ->
            /\ IF ok THEN job' = [job EXCEPT !.at = @ + 1]
                     ELSE Begin("undo", StopOrder)
            /\ UNCHANGED <<on, owned>>
       [] pair.op = "raw" /\ ~pair.broken ->
            \/ \E worked \in BOOLEAN : StackFrames(worked) /\ UNCHANGED job
            \/ UNCHANGED <<job, on, owned>>
       [] OTHER -> UNCHANGED <<job, on, owned>>
  /\ UNCHANGED <<watchdog, profile, started, channel>>

-----------------------------------------------------------------------------
(* The watchdog, and the deadline around the stop.                         *)
Watching == Watch /\ UNCHANGED <<calls, pair>>
Passing == Tick /\ UNCHANGED <<calls, pair>>
Deadline == (StoreDeadline \/ Clear) /\ UNCHANGED <<calls, pair>>
EndWatchdog ==
  /\ StopWatchdog
  /\ main = "idle" => Free /\ ~started
  /\ UNCHANGED <<calls, pair>>

Calls == \/ SwitchOn \/ SwitchOff \/ Undone \/ StartReturns \/ Stopped
         \/ EncoderActive \/ RecordStarted \/ ValidationPending \/ ValidationStarted
         \/ PhotoTaken
Handlers == \/ Start \/ Stop \/ ActivateEncoder \/ RecordStart \/ RecordStop
            \/ ValidateEncoder \/ Photo \/ StackSnapshot
            \/ CaptureRaw \/ OfflineEnqueue
Ticks == TickRecording \/ DrainRecordStream \/ TickValidation
PairSteps == CreateThread \/ Release \/ JoinPair \/ \E t \in 1..2 : Thread(t)
GraphNext == \/ Calls \/ Handlers \/ Ticks \/ StartOfflineSensors \/ PairSteps
             \/ Watching \/ Passing \/ Deadline \/ EndWatchdog

(* The kernel runs the threads and time passes; nothing is assumed of the  *)
(* calls into Rockit, except that the two sensors answer.                  *)
GraphSpec ==
  /\ GraphInit /\ [][GraphNext]_system
  /\ WF_system(Watching) /\ WF_system(Passing)
  /\ WF_system(EndWatchdog /\ main = "flag") /\ WF_system(PairSteps)

-----------------------------------------------------------------------------
GraphTypeOK ==
  /\ TypeOK
  /\ profile \in Profiles
  /\ {started, recording, pending} \subseteq BOOLEAN
  /\ owned \subseteq Parts
  /\ job \in [op : Taking \cup Giving \cup {"none"}, todo : Seq(Parts), at : Nat]
  /\ pair \in Pairs

(* What Rockit holds is what the graph will give back: no failure, at       *)
(* whatever call, forgets a part; a graph that is not started holds         *)
(* nothing; and no part is switched off, nor is one switched on, while      *)
(* another that needs it is on without it (the flags and masks of struct    *)
(* ngcd_rk_graph, and the order of ngcd_rk_graph_stop).                     *)
NothingForgotten ==
  /\ owned = on
  /\ Free /\ ~started => on = {}
  /\ \A p \in on : Needs(p) \subseteq on

(* Two threads that wait for each other are released, also when one of them *)
(* could not be created (the condition variable of struct                   *)
(* raw_capture_start).                                                      *)
PairEnds == (pair.op # "none") ~> (pair.op = "none" \/ thread = "alarm")
=============================================================================
